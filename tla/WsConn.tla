------------------------------- MODULE WsConn -------------------------------
(***************************************************************************)
(* One WebSocket connection of codexmsg/ws.go as the client uses it.       *)
(* readLoop is in ReadMessage, which puts messages together from frames    *)
(* and answers control frames; callers are in Client.write; a closer is in *)
(* wsConn.Close.  writeFrame puts a frame on the connection with two       *)
(* Writes, the header and then the payload.  Callers hold writeMu over     *)
(* both, readLoop and the closer do not.                                   *)
(*                                                                         *)
(* A payload is a sequence of tokens, one for each frame that carries any  *)
(* bytes, so that two messages are equal only if they are made of the same *)
(* frames.  How a frame becomes bytes is in WsFrame.                       *)
(***************************************************************************)
EXTENDS WsFrame, SequencesExt

CONSTANTS
    Callers,    \* goroutines in Client.write, one request each
    Reader,     \* the readLoop goroutine
    Closer,     \* a goroutine in Client.Close
    None,       \* writeMu is free
    MaxFrames   \* bound: frames the daemon sends

ASSUME WritersApart == Reader # Closer /\ {Reader, Closer} \cap Callers = {}
ASSUME NoneApart == None \notin Callers
ASSUME FrameBound == MaxFrames \in Nat

VARIABLES
    writeMu,    \* holder of Client.writeMu
    pc,         \* where each goroutine stands in writeFrame
    conn,       \* the connection is open
    out,        \* what has been written: <<writer, part>>
    buf, msgOp, \* ReadMessage's locals; msgOp is "none" for 0
    state,      \* "reading", "failed" (an error) or "eof"
    reply,      \* the control frame that ReadMessage is answering
    got,        \* the messages ReadMessage has returned
    pongs,      \* the payloads of the pongs it has written
    queue,      \* frames sent and not read
    sent,       \* how many frames the daemon has sent
    inside,     \* the daemon is inside a fragmented message
    whole,      \* what it has sent of that message
    meant,      \* the messages it has sent to the end
    pings,      \* the payloads of the pings it has sent
    broke       \* it has broken into a message of its own, after some bytes

writer == <<writeMu, pc, conn, out>>
reader == <<buf, msgOp, state, reply, got, pongs>>
daemon == <<sent, inside, whole, meant, pings, broke>>
vars == <<writer, reader, queue, daemon>>

Writers == Callers \cup {Reader, Closer}
Ops == {"text", "cont", "ping", "pong", "close", "unknown"}

NoReply == [op |-> "none", data |-> <<>>]

Init ==
    /\ writeMu = None /\ pc = [w \in Writers |-> "idle"]
    /\ conn = TRUE /\ out = <<>>
    /\ buf = <<>> /\ msgOp = "none" /\ state = "reading" /\ reply = NoReply
    /\ got = <<>> /\ pongs = <<>> /\ queue = <<>>
    /\ sent = 0 /\ inside = FALSE /\ whole = <<>> /\ meant = <<>>
    /\ pings = <<>> /\ broke = FALSE

-----------------------------------------------------------------------------
(* writeFrame *)

\* Mutant: write leaves the lock alone.
NoLock(c) == UNCHANGED writeMu

\* write takes writeMu.
TakeLock(c) == writeMu = None /\ writeMu' = c

\* A caller has a request to write.
CallerBegins(c) ==
    /\ pc[c] = "idle"
    /\ TakeLock(c)
    /\ pc' = [pc EXCEPT ![c] = "head"]
    /\ UNCHANGED <<conn, out, reader, queue, daemon>>

\* wsConn.Close has a close frame to send.
CloserBegins ==
    /\ pc[Closer] = "idle"
    /\ pc' = [pc EXCEPT ![Closer] = "head"]
    /\ UNCHANGED <<writeMu, conn, out, reader, queue, daemon>>

\* What follows a writeFrame that worked or failed: the caller gives writeMu
\* back, Close closes the connection, ReadMessage goes on or returns.
Leave(w, worked) ==
    /\ pc' = [pc EXCEPT ![w] = IF w = Reader THEN "idle" ELSE "over"]
    /\ writeMu' = IF writeMu = w THEN None ELSE writeMu
    /\ conn' = (conn /\ w # Closer)
    /\ IF w # Reader THEN UNCHANGED <<state, reply, pongs>>
       ELSE /\ reply' = NoReply
            /\ state' = IF reply.op = "close" THEN "eof"
                        ELSE IF worked THEN state ELSE "failed"
            /\ pongs' = IF reply.op = "ping" /\ worked
                        THEN Append(pongs, reply.data) ELSE pongs
    /\ UNCHANGED <<buf, msgOp, got, queue, daemon>>

\* Only what ReadMessage echoes may have no payload; then there is no second
\* Write.
HasBody(w) == w # Reader \/ reply.data # <<>>

\* The first Write: the header.
WriteHead(w) ==
    /\ pc[w] = "head" /\ conn
    /\ IF HasBody(w)
       THEN /\ out' = Append(out, <<w, "head">>)
            /\ pc' = [pc EXCEPT ![w] = "body"]
            /\ UNCHANGED <<writeMu, conn, reader, queue, daemon>>
       ELSE out' = Append(out, <<w, "last">>) /\ Leave(w, TRUE)

\* The second Write: the payload.
WriteBody(w) ==
    /\ pc[w] = "body" /\ conn
    /\ out' = Append(out, <<w, "body">>)
    /\ Leave(w, TRUE)

\* Either Write fails on a closed connection.
WriteFails(w) ==
    /\ pc[w] \in {"head", "body"} /\ ~conn
    /\ UNCHANGED out
    /\ Leave(w, FALSE)

-----------------------------------------------------------------------------
(* ReadMessage *)

frame == Head(queue)

\* readFrame has a frame; it may come out of br's buffer after a Close.
Reading(op) ==
    /\ state = "reading" /\ pc[Reader] = "idle"
    /\ queue # <<>> /\ frame.op = op
    /\ queue' = Tail(queue)

Stop(s) ==
    /\ state' = s
    /\ UNCHANGED <<writer, buf, msgOp, reply, got, pongs, daemon>>

\* Mutant: the opcode of the last fragment replaces the message's.
FinishAsFrame(op, b) ==
    /\ IF frame.fin
       THEN got' = Append(got, b) /\ buf' = <<>> /\ msgOp' = "none"
       ELSE got' = got /\ buf' = b /\ msgOp' = frame.op
    /\ UNCHANGED <<writer, state, reply, pongs, daemon>>

\* The end of a turn with a data frame: hand the message over, or read on.
Finish(op, b) ==
    /\ IF frame.fin
       THEN got' = Append(got, b) /\ buf' = <<>> /\ msgOp' = "none"
       ELSE got' = got /\ buf' = b /\ msgOp' = op
    /\ UNCHANGED <<writer, state, reply, pongs, daemon>>

\* Mutant: a data frame is taken wherever it comes.
NoStart == TRUE

\* The test that a data frame does not come inside a fragmented message.
MayStart == buf = <<>>

\* A text or binary frame.
ReadData ==
    /\ Reading("text")
    /\ IF MayStart THEN Finish("text", frame.data) ELSE Stop("failed")

\* Mutant: a continuation replaces what came before it.
Replace(b, d) == d

\* append(buf, payload...)
Extend(b, d) == b \o d

\* A continuation frame.
ReadContinuation ==
    /\ Reading("cont")
    /\ IF msgOp # "none" THEN Finish(msgOp, Extend(buf, frame.data))
                         ELSE Stop("failed")

\* A ping or a close frame is answered with its payload; the fragments that
\* were collected outlive it.
ReadControl(op) ==
    /\ Reading(op)
    /\ reply' = [op |-> op, data |-> frame.data]
    /\ pc' = [pc EXCEPT ![Reader] = "head"]
    /\ UNCHANGED <<writeMu, conn, out, buf, msgOp, state, got, pongs, daemon>>

ReadPong ==
    /\ Reading("pong")
    /\ UNCHANGED <<writer, reader, daemon>>

ReadUnknown ==
    /\ Reading("unknown")
    /\ Stop("failed")

\* readFrame fails: the stream ends or is closed, or ReadHeader refuses.
ReadFails ==
    /\ state = "reading" /\ pc[Reader] = "idle"
    /\ Stop("failed")
    /\ UNCHANGED queue

-----------------------------------------------------------------------------
(* The daemon (external). *)

\* Payloads: empty, or the token of this frame.
Payloads == {<<>>, <<sent + 1>>}

Send(op, fin, d) ==
    /\ conn /\ sent < MaxFrames
    /\ sent' = sent + 1
    /\ queue' = Append(queue, [op |-> op, fin |-> fin, data |-> d])
    /\ UNCHANGED <<writer, reader>>

\* A data frame.  The protocol wants it to start a message outside of one and
\* to continue the message inside; the daemon may send any.
SendData ==
    \E op \in {"text", "cont"}, fin \in BOOLEAN, d \in Payloads :
       /\ Send(op, fin, d)
       /\ broke' = (broke \/ (op = "text" /\ whole # <<>>))
       /\ whole' = IF fin THEN <<>> ELSE whole \o d
       /\ meant' = IF fin THEN Append(meant, whole \o d) ELSE meant
       /\ inside' = ~fin
       /\ UNCHANGED pings

SendControl ==
    \E op \in {"ping", "pong", "close", "unknown"}, d \in Payloads :
       /\ Send(op, TRUE, d)
       /\ pings' = IF op = "ping" THEN Append(pings, d) ELSE pings
       /\ UNCHANGED <<inside, whole, meant, broke>>

-----------------------------------------------------------------------------

Next ==
    \/ \E c \in Callers : CallerBegins(c)
    \/ CloserBegins
    \/ \E w \in Writers : WriteHead(w) \/ WriteBody(w) \/ WriteFails(w)
    \/ ReadData \/ ReadContinuation \/ ReadControl("ping")
    \/ ReadControl("close") \/ ReadPong \/ ReadUnknown \/ ReadFails
    \/ SendData \/ SendControl

Spec == Init /\ [][Next]_vars

-----------------------------------------------------------------------------
(* Properties *)

Payload == Seq(1..MaxFrames)

\* Every variable keeps to the values it can have.
TypeOK ==
    /\ writeMu \in Callers \cup {None} /\ conn \in BOOLEAN
    /\ pc \in [Writers -> {"idle", "head", "body", "over"}]
    /\ out \in Seq(Writers \X {"head", "last", "body"})
    /\ buf \in Payload /\ msgOp \in {"none", "text"}
    /\ state \in {"reading", "failed", "eof"}
    /\ reply \in [op : {"none", "ping", "close"}, data : Payload]
    /\ got \in Seq(Payload) /\ pongs \in Seq(Payload)
    /\ queue \in Seq([op : Ops, fin : BOOLEAN, data : Payload])
    /\ sent \in 0..MaxFrames /\ inside \in BOOLEAN /\ whole \in Payload
    /\ meant \in Seq(Payload) /\ pings \in Seq(Payload)
    /\ broke \in BOOLEAN

\* A stream of frames: a header that announces a payload is followed by it.
WellFramed(s) ==
    \A i \in 1..Len(s) - 1 : s[i][2] = "head" => s[i + 1] = <<s[i][1], "body">>

\* Requests of different calls never run into each other: of all that callers
\* write, what follows a header is the payload of the same call.
CallersSerialised ==
    \A i, j \in 1..Len(out) :
       /\ i < j /\ out[i][1] \in Callers /\ out[i][2] = "head"
       /\ out[j][1] \in Callers
       /\ \A k \in i + 1..j - 1 : out[k][1] \notin Callers
       => out[j] = <<out[i][1], "body">>

\* What the daemon reads is a stream of frames.
FramesWhole == WellFramed(out)

\* ReadMessage returns the messages that were sent, whole, in order, once,
\* however they were fragmented and whatever control frames it had to answer
\* in between; and it holds nothing back: when all has been read, all has been
\* returned and every ping ponged with its payload.  This is so whether or not
\* the daemon keeps to the protocol: where a message breaks into one of empty
\* fragments, which the code does not refuse, no byte of either is lost and none
\* gets into another message.
MessagesIntact ==
    /\ IsPrefix(got, meant) /\ IsPrefix(pongs, pings)
    /\ state = "reading" /\ queue = <<>> /\ pc[Reader] = "idle" =>
         got = meant /\ buf = whole /\ pongs = pings

\* Whatever frame is about to be written, at every boundary of its length:
\* readFrame would read from its bytes what writeFrame put into them.
FrameRoundTrip == \A w \in Writers : pc[w] = "head" => RoundTrip

\* A message that breaks into another, after some bytes of it, is refused.
BrokenMessageRefused == broke /\ queue = <<>> => state # "reading"
=============================================================================
