---------------------------- MODULE WsConnProofs ----------------------------
(***************************************************************************)
(* Proofs about WsConn, for any number of callers and any number of frames *)
(* from the daemon, in or against the order of the protocol.               *)
(***************************************************************************)
EXTENDS WsConn, WsFrameProofs, SequenceTheorems, TLAPS

(* Writers *)

\* A caller that is in writeFrame holds writeMu.
Locked == \A c \in Callers : pc[c] \in {"head", "body"} => writeMu = c

\* The last thing that callers have written is a header.
Pending(i) ==
    /\ out[i][1] \in Callers /\ out[i][2] = "head"
    /\ \A k \in i + 1..Len(out) : out[k][1] \notin Callers

\* A header without its payload is that of a caller about to write the
\* payload, if anything can be written at all.
Awaited ==
    \A i \in 1..Len(out) : Pending(i) => ~conn \/ pc[out[i][1]] = "body"

(* The reader and the daemon *)

Frames == [op : Ops, fin : BOOLEAN, data : Payload]

\* What either side makes of the frames so far: the complete messages, the
\* bytes of the one in progress, whether there is one, and the pings.
Accounts == [msgs : Seq(Payload), part : Payload, open : BOOLEAN,
             pings : Seq(Payload)]

\* What one more frame makes of it.
After(a, f) ==
    IF f.op \in {"text", "cont"}
    THEN [msgs |-> IF f.fin THEN Append(a.msgs, a.part \o f.data) ELSE a.msgs,
          part |-> IF f.fin THEN <<>> ELSE a.part \o f.data,
          open |-> ~f.fin, pings |-> a.pings]
    ELSE [a EXCEPT !.pings = IF f.op = "ping" THEN Append(@, f.data) ELSE @]

\* The daemon's account, after all frames it has sent.
Sender == [msgs |-> meant, part |-> whole, open |-> inside, pings |-> pings]

\* The pongs written, with the one ReadMessage is at.
Due == IF reply.op = "ping" THEN Append(pongs, reply.data) ELSE pongs

\* The account of ReadMessage, after the frames it has taken from the queue.
Receiver == [msgs |-> got, part |-> buf, open |-> msgOp # "none",
             pings |-> Due]

\* h leads from one account to another, frame by frame of q, and loses nothing
\* on the way.
Chain(h, q, last) ==
    /\ h \in [0..Len(q) -> Accounts] /\ h[Len(q)] = last
    /\ \A k \in 1..Len(q) : h[k] = After(h[k - 1], q[k])
    /\ \A j, k \in 0..Len(q) : j <= k =>
         IsPrefix(h[j].msgs, h[k].msgs) /\ IsPrefix(h[j].pings, h[k].pings)

\* What ReadMessage has handed over is in account a, and as long as it goes on
\* reading, a is its own account.
Covers(a) ==
    /\ IsPrefix(got, a.msgs) /\ IsPrefix(pongs, a.pings)
    /\ state = "reading" => a = Receiver

\* A frame that breaks into a message has stopped the reader, or will.
Breaks(h) ==
    broke => \/ state # "reading"
             \/ \E k \in 1..Len(queue) :
                  queue[k].op = "text" /\ h[k - 1].part # <<>>

\* The frames in the queue lead from the reader's account to the daemon's.
Linked == \E h : Chain(h, queue, Sender) /\ Covers(h[0]) /\ Breaks(h)

\* ReadMessage writes while it has something to answer, and only then.
Answering ==
    /\ pc[Reader] \in {"head", "body"} => state = "reading" /\ reply.op # "none"
    /\ pc[Reader] = "idle" => reply.op = "none"
    /\ pc[Reader] # "over"

\* The inductive invariant.
IInv ==
    /\ TypeOK /\ Locked /\ Awaited /\ CallersSerialised /\ Answering /\ Linked

USE WritersApart, NoneApart, FrameBound

-----------------------------------------------------------------------------
(* Prefixes and accounts *)

\* A prefix, element by element.
LEMMA PrefixDef ==
    ASSUME NEW S, NEW s \in Seq(S), NEW t \in Seq(S)
    PROVE  IsPrefix(s, t) <=>
             /\ Len(s) <= Len(t)
             /\ \A i \in 1..Len(s) : s[i] = t[i]
  BY DEF IsPrefix

\* Every sequence is a prefix of itself and of what it is extended to.
LEMMA PrefixGrows ==
    ASSUME NEW S, NEW s \in Seq(S), NEW e \in S
    PROVE  IsPrefix(s, s) /\ IsPrefix(s, Append(s, e))
  <1>1. ASSUME NEW t, t = Append(s, e) PROVE IsPrefix(s, t)
    <2>1. /\ t \in Seq(S) /\ Len(s) <= Len(t)
          /\ \A i \in 1..Len(s) : s[i] = t[i]
      BY <1>1
    <2> HIDE <1>1
    <2> QED
      BY <2>1, PrefixDef
  <1>2. IsPrefix(s, s)
    BY PrefixDef
  <1> QED
    BY <1>1, <1>2

\* Prefixes of prefixes are prefixes.
LEMMA PrefixTransitive ==
    ASSUME NEW S, NEW s \in Seq(S), NEW t \in Seq(S), NEW u \in Seq(S),
           IsPrefix(s, t), IsPrefix(t, u)
    PROVE  IsPrefix(s, u)
  BY PrefixDef

\* A frame adds to an account.
LEMMA AfterGrows ==
    ASSUME NEW a \in Accounts, NEW f \in Frames
    PROVE  /\ After(a, f) \in Accounts
           /\ IsPrefix(a.msgs, After(a, f).msgs)
           /\ IsPrefix(a.pings, After(a, f).pings)
  <1>1. /\ a.part \o f.data \in Payload /\ <<>> \in Payload
        /\ f.data \in Payload
    BY DEF Accounts, Frames, Payload
  <1>2. a.msgs \in Seq(Payload) /\ a.pings \in Seq(Payload)
    BY DEF Accounts
  <1>3. /\ Append(a.msgs, a.part \o f.data) \in Seq(Payload)
        /\ Append(a.pings, f.data) \in Seq(Payload)
    BY <1>1, <1>2
  <1>4. /\ IsPrefix(a.msgs, a.msgs) /\ IsPrefix(a.pings, a.pings)
        /\ IsPrefix(a.msgs, Append(a.msgs, a.part \o f.data))
        /\ IsPrefix(a.pings, Append(a.pings, f.data))
    BY <1>1, <1>2, PrefixGrows
  <1>5. CASE f.op \in {"text", "cont"}
    BY <1>1, <1>3, <1>4, <1>5 DEF After, Accounts
  <1>6. CASE f.op \notin {"text", "cont"}
    BY <1>1, <1>3, <1>4, <1>6 DEF After, Accounts
  <1> QED
    BY <1>5, <1>6

\* Reading the first frame of the queue moves the near end of the chain.
LEMMA ChainTail ==
    ASSUME NEW q \in Seq(Frames), q # <<>>, NEW last, NEW h, Chain(h, q, last),
           NEW g, g = [k \in 0..Len(q) - 1 |-> h[k + 1]]
    PROVE  Chain(g, Tail(q), last) /\ g[0] = After(h[0], Head(q))
  <1>1. /\ Len(Tail(q)) = Len(q) - 1 /\ Len(q) \in Nat \ {0}
        /\ \A k \in 1..Len(q) - 1 : Tail(q)[k] = q[k + 1]
        /\ Head(q) = q[1]
    OBVIOUS
  <1>2. g \in [0..Len(q) - 1 -> Accounts] /\ g[Len(q) - 1] = last
    BY <1>1 DEF Chain
  <1>3. \A k \in 1..Len(q) - 1 : g[k] = After(g[k - 1], Tail(q)[k])
    BY <1>1 DEF Chain
  <1>4. \A j, k \in 0..Len(q) - 1 : j <= k =>
          IsPrefix(g[j].msgs, g[k].msgs) /\ IsPrefix(g[j].pings, g[k].pings)
    BY <1>1 DEF Chain
  <1>5. g[0] = After(h[0], Head(q))
    BY <1>1 DEF Chain
  <1> QED
    BY <1>1, <1>2, <1>3, <1>4, <1>5 DEF Chain

\* Sending a frame moves the far end.
LEMMA ChainAppend ==
    ASSUME NEW q \in Seq(Frames), NEW f \in Frames, NEW last \in Accounts,
           NEW h, Chain(h, q, last),
           NEW g, g = [k \in 0..Len(q) + 1 |->
                         IF k <= Len(q) THEN h[k] ELSE After(last, f)]
    PROVE  Chain(g, Append(q, f), After(last, f))
  <1>1. /\ Len(Append(q, f)) = Len(q) + 1 /\ Len(q) \in Nat
        /\ \A k \in 1..Len(q) : Append(q, f)[k] = q[k]
        /\ Append(q, f)[Len(q) + 1] = f
    OBVIOUS
  <1>2. /\ \A k \in 0..Len(q) : g[k] = h[k]
        /\ g[Len(q) + 1] = After(last, f)
        /\ h[Len(q)] = last
    BY <1>1 DEF Chain
  <1>3. g \in [0..Len(q) + 1 -> Accounts]
    BY <1>1, AfterGrows DEF Chain
  <1>4. \A k \in 1..Len(q) + 1 : g[k] = After(g[k - 1], Append(q, f)[k])
    BY <1>1, <1>2 DEF Chain
  <1>5. ASSUME NEW j \in 0..Len(q) + 1, NEW k \in 0..Len(q) + 1, j <= k
        PROVE  /\ IsPrefix(g[j].msgs, g[k].msgs)
               /\ IsPrefix(g[j].pings, g[k].pings)
    <2>1. CASE k <= Len(q)
      BY <1>1, <1>2, <1>5, <2>1 DEF Chain
    <2>2. CASE j = Len(q) + 1
      <3>1. j = k /\ g[j] \in Accounts
        BY <1>1, <1>3, <1>5, <2>2
      <3>2. g[j].msgs \in Seq(Payload) /\ g[j].pings \in Seq(Payload)
        BY <3>1 DEF Accounts
      <3> QED
        BY <3>1, <3>2, PrefixDef
    <2>3. CASE j <= Len(q) /\ k = Len(q) + 1
      <3>1. /\ g[j] = h[j] /\ g[k] = After(last, f)
            /\ h[j] \in Accounts
        BY <1>1, <1>2, <2>3 DEF Chain
      <3>2. IsPrefix(h[j].msgs, last.msgs) /\ IsPrefix(h[j].pings, last.pings)
        BY <1>1, <1>2, <2>3 DEF Chain
      <3>3. /\ IsPrefix(last.msgs, After(last, f).msgs)
            /\ IsPrefix(last.pings, After(last, f).pings)
            /\ After(last, f) \in Accounts
        BY AfterGrows
      <3> QED
        BY <3>1, <3>2, <3>3, PrefixTransitive DEF Accounts
    <2> QED
      BY <1>1, <1>5, <2>1, <2>2, <2>3
  <1> QED
    BY <1>1, <1>2, <1>3, <1>4, <1>5 DEF Chain

-----------------------------------------------------------------------------
(* Types *)

\* What is written is a part of somebody's frame.
LEMMA Written ==
    ASSUME TypeOK, NEW w \in Writers
    PROVE  \A part \in {"head", "last", "body"} :
             Append(out, <<w, part>>)
               \in Seq(Writers \X {"head", "last", "body"})
  <1> DEFINE Parts == Writers \X {"head", "last", "body"}
  <1>1. out \in Seq(Parts)
    BY DEF TypeOK
  <1>2. \A part \in {"head", "last", "body"} : <<w, part>> \in Parts
    OBVIOUS
  <1> HIDE DEF Parts
  <1>3. \A part \in {"head", "last", "body"} :
          Append(out, <<w, part>>) \in Seq(Parts)
    BY <1>1, <1>2
  <1> QED
    BY <1>3 DEF Parts

\* Leaving writeFrame keeps the types.
LEMMA LeaveType ==
    ASSUME TypeOK, NEW w \in Writers, NEW b \in BOOLEAN, Leave(w, b),
           out' \in Seq(Writers \X {"head", "last", "body"})
    PROVE  TypeOK'
  <1>1. pc' \in [Writers -> {"idle", "head", "body", "over"}]
    BY DEF Leave, TypeOK
  <1>2. writeMu' \in Callers \cup {None} /\ conn' \in BOOLEAN
    BY DEF Leave, TypeOK
  <1>3. /\ state' \in {"reading", "failed", "eof"}
        /\ reply' \in [op : {"none", "ping", "close"}, data : Payload]
        /\ pongs' \in Seq(Payload)
    <2>1. CASE w # Reader
      BY <2>1 DEF Leave, TypeOK
    <2>2. CASE w = Reader
      <3>1. reply.data \in Payload /\ <<>> \in Payload
        BY DEF TypeOK, Payload
      <3>2. Append(pongs, reply.data) \in Seq(Payload)
        BY <3>1 DEF TypeOK
      <3>3. NoReply \in [op : {"none", "ping", "close"}, data : Payload]
        BY <3>1 DEF NoReply
      <3>4. pongs' = pongs \/ pongs' = Append(pongs, reply.data)
        BY <2>2 DEF Leave
      <3>5. state' \in {"eof", "failed", state} /\ reply' = NoReply
        BY <2>2 DEF Leave
      <3> QED
        BY <3>2, <3>3, <3>4, <3>5 DEF TypeOK
    <2> QED BY <2>1, <2>2
  <1> QED
    BY <1>1, <1>2, <1>3 DEF Leave, daemon, TypeOK

\* A frame of the daemon is a frame.
LEMMA SendType ==
    ASSUME TypeOK, NEW op \in Ops, NEW fin \in BOOLEAN, NEW d \in Payloads,
           Send(op, fin, d)
    PROVE  /\ [op |-> op, fin |-> fin, data |-> d] \in Frames
           /\ d \in Payload /\ sent' \in 0..MaxFrames
           /\ queue' \in Seq(Frames)
  <1>1. sent < MaxFrames /\ sent \in Nat /\ sent' = sent + 1
    BY DEF Send, TypeOK
  <1>2. d \in Payload
    <2>1. sent + 1 \in 1..MaxFrames
      BY <1>1
    <2>2. <<sent + 1>> \in Seq(1..MaxFrames) /\ <<>> \in Seq(1..MaxFrames)
      BY <2>1
    <2>3. d = <<>> \/ d = <<sent + 1>>
      BY DEF Payloads
    <2> QED
      BY <2>2, <2>3 DEF Payload
  <1>3. [op |-> op, fin |-> fin, data |-> d] \in Frames
    BY <1>2 DEF Frames
  <1>4. queue \in Seq(Frames)
    BY DEF TypeOK, Frames
  <1> QED
    BY <1>1, <1>2, <1>3, <1>4 DEF Send

\* Every step keeps the types.
LEMMA TypeStep ==
    ASSUME TypeOK, [Next]_vars
    PROVE  TypeOK'
<1> USE DEF writer, reader, daemon
<1>1. ASSUME NEW c \in Callers, CallerBegins(c) PROVE TypeOK'
  BY <1>1 DEF CallerBegins, TakeLock, Writers, TypeOK
<1>2. CASE CloserBegins
  BY <1>2 DEF CloserBegins, Writers, TypeOK
<1>3. ASSUME NEW w \in Writers, WriteHead(w) PROVE TypeOK'
  <2>1. out' \in Seq(Writers \X {"head", "last", "body"})
    BY <1>3, Written DEF WriteHead
  <2>2. CASE HasBody(w)
    BY <1>3, <2>1, <2>2 DEF WriteHead, TypeOK
  <2>3. CASE ~HasBody(w)
    BY <1>3, <2>1, <2>3, LeaveType DEF WriteHead
  <2> QED BY <2>2, <2>3
<1>4. ASSUME NEW w \in Writers, WriteBody(w) PROVE TypeOK'
  <2>1. out' \in Seq(Writers \X {"head", "last", "body"})
    BY <1>4, Written DEF WriteBody
  <2> QED
    BY <1>4, <2>1, LeaveType DEF WriteBody
<1>5. ASSUME NEW w \in Writers, WriteFails(w) PROVE TypeOK'
  <2>1. out' \in Seq(Writers \X {"head", "last", "body"})
    BY <1>5 DEF WriteFails, TypeOK
  <2> QED
    BY <1>5, <2>1, LeaveType DEF WriteFails
<1>6. ASSUME NEW op, Reading(op)
      PROVE  /\ frame \in Frames /\ frame.op = op
             /\ queue' \in Seq([op : Ops, fin : BOOLEAN, data : Payload])
             /\ frame.data \in Payload /\ frame.fin \in BOOLEAN
  <2>1. queue \in Seq(Frames) /\ queue # <<>>
    BY <1>6 DEF Reading, Frames, TypeOK
  <2>2. Head(queue) \in Frames /\ Tail(queue) \in Seq(Frames)
    BY <2>1
  <2> QED
    BY <1>6, <2>2 DEF Reading, frame, Frames
<1>7. ASSUME NEW b \in Payload, Finish("text", b),
             queue' \in Seq([op : Ops, fin : BOOLEAN, data : Payload])
      PROVE  TypeOK'
  <2>1. <<>> \in Payload
    BY DEF Payload
  <2>2. Append(got, b) \in Seq(Payload)
    BY <1>7 DEF TypeOK
  <2>3. got' \in Seq(Payload) /\ buf' \in Payload /\ msgOp' \in {"none", "text"}
    BY <1>7, <2>1, <2>2 DEF Finish, TypeOK
  <2> QED
    BY <1>7, <2>3 DEF Finish, TypeOK
<1>8. CASE ReadData
  BY <1>6, <1>7, <1>8 DEF ReadData, Stop, TypeOK
<1>9. CASE ReadContinuation
  <2>1. Extend(buf, frame.data) \in Payload
    BY <1>6, <1>9 DEF ReadContinuation, Extend, Payload, TypeOK
  <2> QED
    BY <1>6, <1>7, <1>9, <2>1 DEF ReadContinuation, Stop, TypeOK
<1>10. ASSUME NEW op \in {"ping", "close"}, ReadControl(op) PROVE TypeOK'
  BY <1>6, <1>10 DEF ReadControl, Writers, TypeOK
<1>11. CASE ReadPong
  BY <1>6, <1>11 DEF ReadPong, TypeOK
<1>12. CASE ReadUnknown
  BY <1>6, <1>12 DEF ReadUnknown, Stop, TypeOK
<1>13. CASE ReadFails
  BY <1>13 DEF ReadFails, Stop, TypeOK
<1>14. CASE SendData
  <2>1. PICK op \in {"text", "cont"}, fin \in BOOLEAN, d \in Payloads :
          SendData!(op, fin, d)
    BY <1>14 DEF SendData
  <2>2. /\ d \in Payload /\ sent' \in 0..MaxFrames
        /\ queue' \in Seq([op : Ops, fin : BOOLEAN, data : Payload])
    BY <2>1, SendType DEF Ops, Frames
  <2>3. whole \o d \in Payload /\ <<>> \in Payload
    BY <2>2 DEF Payload, TypeOK
  <2>4. /\ broke' \in BOOLEAN /\ inside' \in BOOLEAN
        /\ whole' \in Payload /\ meant' \in Seq(Payload)
    BY <2>1, <2>3 DEF TypeOK
  <2> QED
    BY <2>1, <2>2, <2>4 DEF Send, TypeOK
<1>15. CASE SendControl
  <2>1. PICK op \in {"ping", "pong", "close", "unknown"}, d \in Payloads :
          SendControl!(op, d)
    BY <1>15 DEF SendControl
  <2>2. /\ d \in Payload /\ sent' \in 0..MaxFrames
        /\ queue' \in Seq([op : Ops, fin : BOOLEAN, data : Payload])
    BY <2>1, SendType DEF Ops, Frames
  <2> QED
    BY <2>1, <2>2 DEF Send, TypeOK
<1>16. CASE UNCHANGED vars
  BY <1>16 DEF vars, TypeOK
<1> QED
  BY <1>1, <1>2, <1>3, <1>4, <1>5, <1>8, <1>9, <1>10, <1>11, <1>12, <1>13,
     <1>14, <1>15, <1>16 DEF Next

-----------------------------------------------------------------------------
(* Writers *)

\* Only its holder gives writeMu back, and nobody takes it from a holder.
LEMMA LockStep ==
    ASSUME TypeOK, Locked, [Next]_vars
    PROVE  Locked'
<1>1. ASSUME NEW c \in Callers, CallerBegins(c) PROVE Locked'
  BY <1>1 DEF CallerBegins, TakeLock, TypeOK, Writers, Locked
<1>2. CASE CloserBegins
  BY <1>2 DEF CloserBegins, TypeOK, Writers, Locked
<1>3. ASSUME NEW w \in Writers, WriteHead(w) \/ WriteBody(w) \/ WriteFails(w)
      PROVE  Locked'
  BY <1>3 DEF WriteHead, WriteBody, WriteFails, Leave, TypeOK, Writers, Locked
<1>4. ASSUME NEW op, ReadControl(op) PROVE Locked'
  BY <1>4 DEF ReadControl, TypeOK, Writers, Locked
<1>5. CASE UNCHANGED <<pc, writeMu>>
  BY <1>5 DEF Locked
<1> QED
  BY <1>1, <1>2, <1>3, <1>4, <1>5 DEF Next, vars, writer, ReadData,
     ReadContinuation, ReadPong, ReadUnknown, ReadFails, Finish, Stop,
     SendData, SendControl, Send

\* What a Write by w does to the parts that callers have written.
LEMMA WriteStep ==
    ASSUME TypeOK, Locked, Awaited, CallersSerialised, TypeOK',
           NEW w \in Writers, NEW part \in {"head", "last", "body"}, conn,
           out' = Append(out, <<w, part>>),
           pc[w] \in {"head", "body"},
           \A v \in Writers : v # w => pc'[v] = pc[v],
           w \in Callers =>
             \/ part = "head" /\ pc[w] = "head" /\ pc'[w] = "body"
             \/ part = "body" /\ pc[w] = "body"
    PROVE  Awaited' /\ CallersSerialised'
  <1> DEFINE n == Len(out)
  <1>1. /\ n \in Nat /\ Len(out') = n + 1 /\ out'[n + 1] = <<w, part>>
        /\ \A i \in 1..n : out'[i] = out[i]
    BY DEF TypeOK
  <1>2. \A i \in 1..n : out[i][1] \in Writers
    BY DEF TypeOK
  <1> HIDE DEF n
  <1>3. ASSUME w \in Callers, NEW i \in 1..n, Pending(i)
        PROVE  out[i][1] = w /\ part = "body"
    <2>1. pc[out[i][1]] = "body"
      BY <1>3 DEF Awaited, n
    <2>2. writeMu = out[i][1]
      BY <1>3, <2>1 DEF Locked, Pending
    <2>3. writeMu = w
      BY <1>3 DEF Locked
    <2> QED
      BY <1>3, <2>1, <2>2, <2>3
  <1>4. ASSUME NEW i \in 1..n + 1, Pending(i)'
        PROVE  pc'[out'[i][1]] = "body"
    <2>1. CASE i = n + 1
      BY <1>1, <1>4, <2>1 DEF Pending
    <2>2. CASE i \in 1..n
      <3>1. w \notin Callers
        BY <1>1, <1>4, <2>2 DEF Pending
      <3>2. Pending(i)
        BY <1>1, <1>4, <2>2 DEF Pending, n
      <3>3. pc[out[i][1]] = "body"
        BY <2>2, <3>2 DEF Awaited, n
      <3> QED
        BY <1>1, <1>2, <2>2, <3>1, <3>2, <3>3 DEF Pending
    <2> QED
      BY <1>1, <2>1, <2>2
  <1>5. Awaited'
    BY <1>1, <1>4 DEF Awaited
  <1>6. ASSUME NEW i \in 1..n + 1, NEW j \in 1..n + 1, i < j,
               out'[i][1] \in Callers, out'[i][2] = "head",
               out'[j][1] \in Callers,
               \A k \in i + 1..j - 1 : out'[k][1] \notin Callers
        PROVE  out'[j] = <<out'[i][1], "body">>
    <2>1. CASE j \in 1..n
      BY <1>1, <1>6, <2>1 DEF CallersSerialised, n
    <2>2. CASE j = n + 1
      <3>1. i \in 1..n /\ w \in Callers
        BY <1>1, <1>6, <2>2
      <3>2. Pending(i)
        BY <1>1, <1>6, <2>2, <3>1 DEF Pending, n
      <3> QED
        BY <1>1, <1>3, <2>2, <3>1, <3>2
    <2> QED
      BY <1>1, <2>1, <2>2
  <1>7. CallersSerialised'
    BY <1>1, <1>6 DEF CallersSerialised
  <1> QED
    BY <1>5, <1>7

\* The callers' parts stay in order.
LEMMA SerialStep ==
    ASSUME TypeOK, Locked, Awaited, CallersSerialised, TypeOK', [Next]_vars
    PROVE  Awaited' /\ CallersSerialised'
<1>1. ASSUME NEW w \in Writers, WriteHead(w)
      PROVE  Awaited' /\ CallersSerialised'
  <2>1. \A v \in Writers : v # w => pc'[v] = pc[v]
    BY <1>1 DEF WriteHead, Leave, TypeOK
  <2>2. CASE HasBody(w)
    BY <1>1, <2>1, <2>2, WriteStep DEF WriteHead, TypeOK
  <2>3. CASE ~HasBody(w)
    <3>1. w \notin Callers
      BY <2>3 DEF HasBody
    <3> QED
      BY <1>1, <2>1, <2>3, <3>1, WriteStep DEF WriteHead
  <2> QED BY <2>2, <2>3
<1>2. ASSUME NEW w \in Writers, WriteBody(w)
      PROVE  Awaited' /\ CallersSerialised'
  <2>1. \A v \in Writers : v # w => pc'[v] = pc[v]
    BY <1>2 DEF WriteBody, Leave, TypeOK
  <2> QED
    BY <1>2, <2>1, WriteStep DEF WriteBody
<1>3. ASSUME NEW w \in Writers, WriteFails(w)
      PROVE  Awaited' /\ CallersSerialised'
  BY <1>3 DEF WriteFails, Leave, Awaited, CallersSerialised
<1>4. ASSUME UNCHANGED <<out, conn>>,
             \A v \in Writers : pc[v] = "body" => pc'[v] = "body"
      PROVE  Awaited' /\ CallersSerialised'
  BY <1>4 DEF Awaited, Pending, CallersSerialised, TypeOK, Writers
<1>5. ASSUME NEW c \in Callers, CallerBegins(c)
      PROVE  Awaited' /\ CallersSerialised'
  BY <1>4, <1>5 DEF CallerBegins, TypeOK
<1>6. CASE CloserBegins
  BY <1>4, <1>6 DEF CloserBegins, TypeOK
<1>7. ASSUME NEW op, ReadControl(op) PROVE Awaited' /\ CallersSerialised'
  BY <1>4, <1>7 DEF ReadControl, Reading, TypeOK
<1>8. CASE UNCHANGED <<out, conn, pc>>
  BY <1>4, <1>8
<1> QED
  BY <1>1, <1>2, <1>3, <1>5, <1>6, <1>7, <1>8 DEF Next, vars, writer,
     ReadData, ReadContinuation, ReadPong, ReadUnknown, ReadFails, Finish,
     Stop, SendData, SendControl, Send

-----------------------------------------------------------------------------
(* The reader *)

\* ReadMessage answers one control frame at a time.
LEMMA AnswerStep ==
    ASSUME TypeOK, Answering, [Next]_vars
    PROVE  Answering'
<1> USE DEF Answering, TypeOK, Writers
<1>1. ASSUME NEW c \in Callers, CallerBegins(c) PROVE Answering'
  BY <1>1 DEF CallerBegins, reader
<1>2. CASE CloserBegins
  BY <1>2 DEF CloserBegins, reader
<1>3. ASSUME NEW w \in Writers, NEW b, Leave(w, b), pc[w] \in {"head", "body"}
      PROVE  Answering'
  BY <1>3 DEF Leave, NoReply
<1>4. ASSUME NEW w \in Writers, WriteHead(w) PROVE Answering'
  BY <1>3, <1>4 DEF WriteHead, reader
<1>5. ASSUME NEW w \in Writers, WriteBody(w) \/ WriteFails(w) PROVE Answering'
  BY <1>3, <1>5 DEF WriteBody, WriteFails
<1>6. ASSUME NEW op \in {"ping", "close"}, ReadControl(op) PROVE Answering'
  BY <1>6 DEF ReadControl, Reading
<1>7. ASSUME UNCHANGED <<writer, reply>>,
             state' = state \/ pc[Reader] = "idle"
      PROVE  Answering'
  BY <1>7 DEF writer
<1>8. CASE ReadData \/ ReadContinuation
  BY <1>7, <1>8 DEF ReadData, ReadContinuation, Reading, Finish, Stop
<1>9. CASE ReadPong \/ ReadUnknown \/ ReadFails
  BY <1>7, <1>9 DEF ReadPong, ReadUnknown, ReadFails, Reading, Stop, reader
<1>10. CASE SendData \/ SendControl \/ UNCHANGED vars
  BY <1>7, <1>10 DEF SendData, SendControl, Send, vars, reader
<1> QED
  BY <1>1, <1>2, <1>4, <1>5, <1>6, <1>8, <1>9, <1>10 DEF Next

\* A step that reads and sends nothing keeps the link, if all it does to the
\* reader is to stop it or to finish the pong it is at.
LEMMA LinkStays ==
    ASSUME TypeOK, Linked, UNCHANGED <<queue, daemon, got>>,
           pongs' = pongs \/ (pongs' = Due /\ state = "reading"), TypeOK',
           state' = "reading" => state = "reading" /\ Receiver' = Receiver
    PROVE  Linked'
  <1>1. PICK h : Chain(h, queue, Sender) /\ Covers(h[0]) /\ Breaks(h)
    BY DEF Linked
  <1>2. Chain(h, queue', Sender')
    BY <1>1 DEF daemon, Sender
  <1>3. h[0].pings \in Seq(Payload)
    <2>1. 0 \in 0..Len(queue)
      BY DEF TypeOK
    <2> QED
      BY <1>1, <2>1 DEF Chain, Accounts
  <1>4. IsPrefix(pongs', h[0].pings)
    <2>1. CASE pongs' = pongs
      BY <1>1, <2>1 DEF Covers
    <2>2. CASE pongs' = Due /\ state = "reading"
      <3>1. h[0].pings = pongs'
        BY <1>1, <2>2 DEF Covers, Receiver
      <3> QED
        BY <1>3, <3>1, PrefixDef
    <2> QED BY <2>1, <2>2
  <1>5. Covers(h[0])'
    BY <1>1, <1>4 DEF Covers
  <1>6. Breaks(h)'
    BY <1>1 DEF Breaks, daemon
  <1> QED
    BY <1>2, <1>5, <1>6 DEF Linked

\* Reading a frame keeps the link, if the reader makes of the frame what After
\* does or stops, and stops at a frame that breaks into a message.
LEMMA LinkReads ==
    ASSUME TypeOK, Linked, NEW op, Reading(op), UNCHANGED <<daemon, pongs>>,
           TypeOK',
           \/ state' # "reading" /\ got' = got
           \/ Receiver' = After(Receiver, frame),
           op = "text" /\ buf # <<>> => state' # "reading"
    PROVE  Linked'
  <1>1. PICK h : Chain(h, queue, Sender) /\ Covers(h[0]) /\ Breaks(h)
    BY DEF Linked
  <1>2. /\ queue \in Seq(Frames) /\ queue # <<>> /\ queue' = Tail(queue)
        /\ frame \in Frames /\ frame = queue[1] /\ frame.op = op
        /\ state = "reading"
    <2>1. queue \in Seq(Frames) /\ queue # <<>>
      BY DEF TypeOK, Reading, Frames
    <2>2. Head(queue) \in Frames /\ Head(queue) = queue[1]
      BY <2>1
    <2> QED
      BY <2>1, <2>2 DEF Reading, frame
  <1>3. PICK g : g = [k \in 0..Len(queue) - 1 |-> h[k + 1]]
    OBVIOUS
  <1>4. Chain(g, queue', Sender') /\ g[0] = After(h[0], frame)
    BY <1>1, <1>2, <1>3, ChainTail DEF daemon, Sender, frame
  <1>5. h[0] \in Accounts /\ h[0] = Receiver
    <2>1. 0 \in 0..Len(queue)
      BY <1>2
    <2> QED
      BY <1>1, <1>2, <2>1 DEF Chain, Covers
  <1>6. /\ g[0] \in Accounts
        /\ IsPrefix(h[0].msgs, g[0].msgs) /\ IsPrefix(h[0].pings, g[0].pings)
    BY <1>2, <1>4, <1>5, AfterGrows
  <1>7. IsPrefix(got, g[0].msgs) /\ IsPrefix(pongs, g[0].pings)
    <2>1. IsPrefix(got, h[0].msgs) /\ IsPrefix(pongs, h[0].pings)
      BY <1>1 DEF Covers
    <2>2. /\ got \in Seq(Payload) /\ pongs \in Seq(Payload)
          /\ h[0].msgs \in Seq(Payload) /\ h[0].pings \in Seq(Payload)
          /\ g[0].msgs \in Seq(Payload) /\ g[0].pings \in Seq(Payload)
      BY <1>5, <1>6 DEF Accounts, TypeOK
    <2> QED
      BY <1>6, <2>1, <2>2, PrefixTransitive
  <1>8. Covers(g[0])'
    <2>1. CASE state' # "reading" /\ got' = got
      BY <1>7, <2>1 DEF Covers
    <2>2. CASE Receiver' = After(Receiver, frame)
      <3>1. g[0] = Receiver'
        BY <1>4, <1>5, <2>2
      <3>2. g[0].msgs = got' /\ got' \in Seq(Payload)
        BY <3>1 DEF Receiver, TypeOK
      <3>3. IsPrefix(got', g[0].msgs)
        BY <3>2, PrefixDef
      <3> QED
        BY <1>7, <3>1, <3>3 DEF Covers
    <2> QED BY <2>1, <2>2
  <1>9. Breaks(g)'
    <2> SUFFICES ASSUME broke, state' = "reading"
                 PROVE  \E k \in 1..Len(queue') :
                          queue'[k].op = "text" /\ g[k - 1].part # <<>>
      BY DEF Breaks, daemon
    <2>1. PICK k \in 1..Len(queue) :
            queue[k].op = "text" /\ h[k - 1].part # <<>>
      BY <1>1, <1>2 DEF Breaks
    <2>2. k # 1
      <3>1. Receiver.part = buf
        BY DEF Receiver
      <3> QED
        BY <1>2, <1>5, <2>1, <3>1
    <2>3. /\ Len(queue') = Len(queue) - 1 /\ queue'[k - 1] = queue[k]
          /\ k - 1 \in 1..Len(queue') /\ g[k - 2] = h[k - 1]
      BY <1>2, <1>3, <2>1, <2>2
    <2> QED
      BY <2>1, <2>3
  <1> QED
    BY <1>4, <1>8, <1>9 DEF Linked

\* Sending a frame keeps the link, if the daemon's account is what After makes
\* of the frame.
LEMMA LinkSends ==
    ASSUME TypeOK, Linked, NEW f \in Frames, queue' = Append(queue, f),
           UNCHANGED reader, Sender' = After(Sender, f),
           broke' = (broke \/ (f.op = "text" /\ whole # <<>>))
    PROVE  Linked'
  <1>1. PICK h : Chain(h, queue, Sender) /\ Covers(h[0]) /\ Breaks(h)
    BY DEF Linked
  <1>2. queue \in Seq(Frames) /\ Sender \in Accounts
    BY DEF TypeOK, Frames, Sender, Accounts
  <1>3. PICK g : g = [k \in 0..Len(queue) + 1 |->
                        IF k <= Len(queue) THEN h[k] ELSE After(Sender, f)]
    OBVIOUS
  <1>4. Chain(g, queue', Sender')
    BY <1>1, <1>2, <1>3, ChainAppend
  <1>5. /\ Len(queue') = Len(queue) + 1 /\ Len(queue) \in Nat
        /\ queue'[Len(queue) + 1] = f
        /\ \A k \in 1..Len(queue) : queue'[k] = queue[k]
        /\ \A k \in 0..Len(queue) : g[k] = h[k]
    BY <1>2, <1>3
  <1>6. Covers(g[0])'
    BY <1>1, <1>5 DEF Covers, Receiver, Due, reader
  <1>7. Breaks(g)'
    <2> SUFFICES ASSUME broke', state = "reading"
                 PROVE  \E k \in 1..Len(queue') :
                          queue'[k].op = "text" /\ g[k - 1].part # <<>>
      BY DEF Breaks, reader
    <2>1. CASE broke
      <3>1. PICK k \in 1..Len(queue) :
              queue[k].op = "text" /\ h[k - 1].part # <<>>
        BY <1>1, <2>1 DEF Breaks
      <3> QED
        BY <1>5, <3>1
    <2>2. CASE f.op = "text" /\ whole # <<>>
      <3>1. g[Len(queue)].part = whole
        BY <1>1, <1>5 DEF Chain, Sender
      <3> QED
        BY <1>5, <2>2, <3>1
    <2> QED BY <2>1, <2>2
  <1> QED
    BY <1>4, <1>6, <1>7 DEF Linked

\* A data frame that ReadMessage takes does to its account what After does.
LEMMA FinishAccounts ==
    ASSUME TypeOK, NEW op, op \in {"text", "cont"}, Reading(op),
           Finish("text", buf \o frame.data)
    PROVE  Receiver' = After(Receiver, frame)
  <1>1. /\ got' = IF frame.fin THEN Append(got, buf \o frame.data) ELSE got
        /\ buf' = IF frame.fin THEN <<>> ELSE buf \o frame.data
        /\ msgOp' = IF frame.fin THEN "none" ELSE "text"
        /\ Due' = Due /\ frame.op = op
    BY DEF Finish, Reading, Due
  <1>2. frame.fin \in BOOLEAN
    <2>1. queue \in Seq(Frames) /\ queue # <<>>
      BY DEF TypeOK, Reading, Frames
    <2>2. Head(queue) \in Frames
      BY <2>1
    <2> QED
      BY <2>2 DEF frame, Frames
  <1>3. (msgOp' # "none") = ~frame.fin
    BY <1>1, <1>2
  <1> QED
    BY <1>1, <1>3 DEF Receiver, After

\* Every step keeps the link between the two accounts.
LEMMA LinkStep ==
    ASSUME TypeOK, Answering, Linked, TypeOK', [Next]_vars
    PROVE  Linked'
<1>1. ASSUME UNCHANGED <<queue, daemon, reader>> PROVE Linked'
  <2>1. /\ UNCHANGED <<queue, daemon, got, buf, msgOp>> /\ pongs' = pongs
        /\ state' = state /\ Due' = Due
    BY <1>1 DEF reader, Due
  <2>2. UNCHANGED <<queue, daemon, got>>
    BY <2>1
  <2>3. pongs' = pongs \/ (pongs' = Due /\ state = "reading")
    BY <2>1
  <2>4. state' = "reading" => state = "reading" /\ Receiver' = Receiver
    BY <2>1 DEF Receiver
  <2> QED
    BY <2>2, <2>3, <2>4, LinkStays
<1>2. ASSUME NEW w \in Writers, NEW b, Leave(w, b), pc[w] \in {"head", "body"}
      PROVE  Linked'
  <2>1. CASE w # Reader
    BY <1>1, <1>2, <2>1 DEF Leave, reader
  <2>2. CASE w = Reader
    <3>1. /\ UNCHANGED <<queue, daemon, got, buf, msgOp>> /\ reply' = NoReply
          /\ state = "reading"
          /\ state' = "reading" => b /\ reply.op # "close"
          /\ pongs' = IF reply.op = "ping" /\ b
                      THEN Append(pongs, reply.data) ELSE pongs
      BY <1>2, <2>2 DEF Leave, Answering
    <3>2. pongs' = pongs \/ pongs' = Due
      BY <3>1 DEF Due
    <3>3. reply.op \in {"none", "ping", "close"}
      BY DEF TypeOK
    <3>4. state' = "reading" => Due' = Due
      BY <3>1, <3>3 DEF Due, NoReply
    <3> QED
      BY <3>1, <3>2, <3>4, LinkStays DEF Receiver
  <2> QED BY <2>1, <2>2
<1>3. ASSUME NEW w \in Writers, WriteHead(w) PROVE Linked'
  BY <1>1, <1>2, <1>3 DEF WriteHead
<1>4. ASSUME NEW w \in Writers, WriteBody(w) \/ WriteFails(w) PROVE Linked'
  BY <1>2, <1>4 DEF WriteBody, WriteFails
<1>5. CASE ReadData
  <2>1. CASE MayStart
    <3>1. <<>> \o frame.data = frame.data
      <4>1. queue \in Seq(Frames) /\ queue # <<>>
        BY <1>5 DEF ReadData, Reading, TypeOK, Frames
      <4>2. Head(queue) \in Frames
        BY <4>1
      <4>3. frame.data \in Seq(1..MaxFrames)
        BY <4>2 DEF frame, Frames, Payload
      <4> QED
        BY <4>3, ConcatEmptySeq
    <3>2. Receiver' = After(Receiver, frame)
      BY <1>5, <2>1, <3>1, FinishAccounts DEF ReadData, MayStart
    <3> QED
      BY <1>5, <2>1, <3>2, LinkReads DEF ReadData, MayStart, Finish
  <2>2. CASE ~MayStart
    BY <1>5, <2>2, LinkReads DEF ReadData, Stop
  <2> QED BY <2>1, <2>2
<1>6. CASE ReadContinuation
  <2>1. CASE msgOp # "none"
    <3>1. msgOp = "text"
      BY <2>1 DEF TypeOK
    <3>2. Receiver' = After(Receiver, frame)
      BY <1>6, <3>1, FinishAccounts DEF ReadContinuation, Extend
    <3> QED
      BY <1>6, <2>1, <3>2, LinkReads DEF ReadContinuation, Finish
  <2>2. CASE msgOp = "none"
    BY <1>6, <2>2, LinkReads DEF ReadContinuation, Stop
  <2> QED BY <2>1, <2>2
<1>7. ASSUME NEW op \in {"ping", "close"}, ReadControl(op) PROVE Linked'
  <2>1. Due = pongs /\ frame.op = op
    BY <1>7 DEF ReadControl, Reading, Answering, Due
  <2>2. Due' = IF op = "ping" THEN Append(pongs, frame.data) ELSE pongs
    BY <1>7 DEF ReadControl, Due
  <2>3. Receiver' = After(Receiver, frame)
    BY <1>7, <2>1, <2>2 DEF ReadControl, Receiver, After
  <2> QED
    BY <1>7, <2>3, LinkReads DEF ReadControl
<1>8. CASE ReadPong
  <2>1. Receiver' = After(Receiver, frame)
    BY <1>8 DEF ReadPong, Reading, reader, Receiver, Due, After
  <2> QED
    BY <1>8, <2>1, LinkReads DEF ReadPong, reader
<1>9. CASE ReadUnknown
  BY <1>9, LinkReads DEF ReadUnknown, Stop
<1>10. CASE ReadFails
  BY <1>10, LinkStays DEF ReadFails, Stop
<1>11. CASE SendData
  <2>1. PICK op \in {"text", "cont"}, fin \in BOOLEAN, d \in Payloads :
          SendData!(op, fin, d)
    BY <1>11 DEF SendData
  <2> DEFINE f == [op |-> op, fin |-> fin, data |-> d]
  <2>2. f \in Frames /\ queue' = Append(queue, f) /\ UNCHANGED reader
    BY <2>1, SendType DEF Ops, Send
  <2>3. Sender' = After(Sender, f)
    BY <2>1 DEF Sender, After
  <2>4. broke' = (broke \/ (f.op = "text" /\ whole # <<>>))
    BY <2>1
  <2> QED
    BY <2>2, <2>3, <2>4, LinkSends
<1>12. CASE SendControl
  <2>1. PICK op \in {"ping", "pong", "close", "unknown"}, d \in Payloads :
          SendControl!(op, d)
    BY <1>12 DEF SendControl
  <2> DEFINE f == [op |-> op, fin |-> TRUE, data |-> d]
  <2>2. f \in Frames /\ queue' = Append(queue, f) /\ UNCHANGED reader
    BY <2>1, SendType DEF Ops, Send
  <2>3. Sender' = After(Sender, f)
    BY <2>1 DEF Sender, After
  <2>4. broke' = (broke \/ (f.op = "text" /\ whole # <<>>))
    BY <2>1 DEF TypeOK
  <2> QED
    BY <2>2, <2>3, <2>4, LinkSends
<1> QED
  BY <1>1, <1>3, <1>4, <1>5, <1>6, <1>7, <1>8, <1>9, <1>10, <1>11, <1>12
     DEF Next, CallerBegins, CloserBegins, vars

\* The invariant holds at the start, with an empty chain.
LEMMA Start == Init => IInv
  <1> SUFFICES ASSUME Init PROVE IInv
    OBVIOUS
  <1>1. TypeOK
    <2>1. /\ <<>> \in Payload
          /\ NoReply \in [op : {"none", "ping", "close"}, data : Payload]
      BY DEF Payload, NoReply
    <2>2. /\ out \in Seq(Writers \X {"head", "last", "body"})
          /\ queue \in Seq([op : Ops, fin : BOOLEAN, data : Payload])
          /\ got \in Seq(Payload) /\ pongs \in Seq(Payload)
          /\ meant \in Seq(Payload) /\ pings \in Seq(Payload)
      BY DEF Init
    <2>3. conn \in BOOLEAN /\ inside \in BOOLEAN /\ broke \in BOOLEAN
      BY DEF Init
    <2> QED
      BY <2>1, <2>2, <2>3 DEF Init, TypeOK
  <1>2. Locked /\ Awaited /\ CallersSerialised /\ Answering
    BY DEF Init, Locked, Awaited, CallersSerialised, Answering, Writers, NoReply
  <1>3. Linked
    <2> DEFINE h == [k \in 0..0 |-> Sender]
    <2>1. Sender = Receiver /\ Sender \in Accounts
      BY <1>1 DEF Init, Sender, Receiver, Due, NoReply, Accounts, TypeOK
    <2>2. /\ IsPrefix(Sender.msgs, Sender.msgs)
          /\ IsPrefix(Sender.pings, Sender.pings)
      BY <2>1, PrefixDef DEF Accounts
    <2>3. h[0] = Sender /\ Len(queue) = 0
      BY DEF Init
    <2>4. Chain(h, queue, Sender)
      BY <2>1, <2>2, <2>3 DEF Chain
    <2>5. Covers(h[0]) /\ Breaks(h)
      BY <2>1, <2>2, <2>3 DEF Covers, Breaks, Init, Sender, Due
    <2> QED
      BY <2>4, <2>5 DEF Linked
  <1> QED
    BY <1>1, <1>2, <1>3 DEF IInv

-----------------------------------------------------------------------------
(* What follows *)

\* The inductive invariant holds in every reachable state.
THEOREM Invariance == Spec => []IInv
  <1>1. IInv /\ [Next]_vars => IInv'
    BY TypeStep, LockStep, SerialStep, AnswerStep, LinkStep DEF IInv
  <1> QED BY Start, <1>1, PTL DEF Spec

\* Every variable of the connection keeps its type.
THEOREM TypeCorrect == Spec => []TypeOK
  <1>1. IInv => TypeOK BY DEF IInv
  <1> QED BY Invariance, <1>1, PTL

\* However many callers write at once, and whatever is written without the
\* lock, the header of a request is followed by the payload of that request
\* before another caller writes anything.
THEOREM CallersTakeTurns == Spec => []CallersSerialised
  <1>1. IInv => CallersSerialised BY DEF IInv
  <1> QED BY Invariance, <1>1, PTL

\* However messages are fragmented and mixed with control frames, ReadMessage
\* returns them whole, in order and once, answers pings with their payloads,
\* and owes nothing when it has read everything.
THEOREM NothingIsLost == Spec => []MessagesIntact
  <1>1. IInv => MessagesIntact
    <2> SUFFICES ASSUME IInv PROVE MessagesIntact
      OBVIOUS
    <2>1. PICK h : Chain(h, queue, Sender) /\ Covers(h[0])
      BY DEF IInv, Linked
    <2>2. queue \in Seq(Frames) /\ Len(queue) \in Nat
      BY DEF IInv, TypeOK, Frames
    <2>3. /\ h[0] \in Accounts /\ Sender \in Accounts
          /\ IsPrefix(h[0].msgs, Sender.msgs)
          /\ IsPrefix(h[0].pings, Sender.pings)
      <3>1. h[Len(queue)] = Sender /\ 0 \in 0..Len(queue)
            /\ Len(queue) \in 0..Len(queue) /\ 0 <= Len(queue)
        BY <2>1, <2>2 DEF Chain
      <3> QED
        BY <2>1, <3>1 DEF Chain
    <2>4. IsPrefix(got, meant) /\ IsPrefix(pongs, pings)
      <3>1. IsPrefix(got, h[0].msgs) /\ IsPrefix(pongs, h[0].pings)
        BY <2>1 DEF Covers
      <3>2. /\ got \in Seq(Payload) /\ pongs \in Seq(Payload)
            /\ meant \in Seq(Payload) /\ pings \in Seq(Payload)
            /\ h[0].msgs \in Seq(Payload) /\ h[0].pings \in Seq(Payload)
            /\ Sender.msgs = meant /\ Sender.pings = pings
        BY <2>3 DEF Accounts, IInv, TypeOK, Sender
      <3> QED
        BY <2>3, <3>1, <3>2, PrefixTransitive
    <2>5. ASSUME state = "reading", queue = <<>>, pc[Reader] = "idle"
          PROVE  got = meant /\ buf = whole /\ pongs = pings
      <3>1. Len(queue) = 0 /\ Due = pongs
        BY <2>5 DEF IInv, Answering, Due
      <3>2. Receiver = Sender
        BY <2>1, <2>5, <3>1 DEF Chain, Covers
      <3> QED
        BY <3>1, <3>2 DEF Receiver, Sender
    <2> QED
      BY <2>4, <2>5 DEF MessagesIntact
  <1> QED BY Invariance, <1>1, PTL

\* A message that breaks into another one, after some bytes of it, ends the
\* connection at the latest when it is read.
THEOREM BreaksAreRefused == Spec => []BrokenMessageRefused
  <1>1. IInv => BrokenMessageRefused
    BY DEF IInv, Linked, Breaks, BrokenMessageRefused
  <1> QED BY Invariance, <1>1, PTL

\* Whatever frame a goroutine is about to write, readFrame would read from
\* its bytes what writeFrame put into them.
THEOREM FramesReadBack == Spec => []FrameRoundTrip
  <1>1. FrameRoundTrip
    BY RoundTripHolds DEF FrameRoundTrip
  <1> QED
    BY <1>1, PTL
=============================================================================
