-------------------------- MODULE UdsServerProofs --------------------------
(***************************************************************************)
(* Proofs about UdsServer, for any number of connections, any lines and    *)
(* both settings of RequireAuth.  Turn, the body of handleConn's loop, is  *)
(* where the invariant is at stake; the four ways to reach it differ only  *)
(* in the line they bring.                                                 *)
(***************************************************************************)
EXTENDS UdsServer, TLAPS

\* dispatch decides every line, and knows four outcomes.
LEMMA FateType ==
    ASSUME NEW i \in BOOLEAN, NEW a \in BOOLEAN, NEW k \in AllKinds
    PROVE  Fate(i, a, k) \in Fates
  BY DEF Fate, Fates, Decodes

\* Under RequireAuth only an authenticated peer reaches a callback.
LEMMA FateHandled ==
    ASSUME NEW i \in BOOLEAN, NEW a \in BOOLEAN, NEW k \in AllKinds,
           RequireAuth, Fate(i, a, k) = "handled"
    PROVE  a
  BY DEF Fate, Decodes

\* Only an auth frame authenticates, and only as the first line.
LEMMA FateAuthed ==
    ASSUME NEW i \in BOOLEAN, NEW a \in BOOLEAN, NEW k \in AllKinds,
           Fate(i, a, k) = "authed"
    PROVE  i /\ k = "auth"
  BY DEF Fate, Decodes

\* What a turn of the loop may change, typed.
ConnType ==
    /\ handler \in [Conns -> {"none", "backlog", "reading", "gone"}]
    /\ first \in [Conns -> BOOLEAN] /\ armed \in [Conns -> BOOLEAN]
    /\ authed \in [Conns -> BOOLEAN] /\ log \in [Conns -> Seq(Entries)]

\* The part of the invariant that a turn of the loop puts at stake.
ConnInv ==
    /\ ConnType /\ Dialled /\ Begun /\ AuthGate /\ LastIsLast
    /\ DeadlineUntilFirstLine /\ NoHandlerAfterServe

\* One turn of handleConn's loop keeps the invariant, whatever the line.
LEMMA TurnStep ==
    ASSUME ConnInv,
           NEW c \in Conns, handler[c] = "reading",
           NEW k \in AllKinds \cup {"none"},
           NEW how \in {"newline", "eof", "timeout"},
           Turn(c, k, how), UNCHANGED <<serve, peer>>
    PROVE  ConnInv'
<1> DEFINE fate == Fate(first[c], authed[c], k)
           e == [line |-> k, how |-> how, fate |-> fate]
<1>1. CASE Empty(k)
  <2>1. /\ handler' \in {handler, [handler EXCEPT ![c] = "gone"]}
        /\ armed' = [armed EXCEPT ![c] = armed[c] /\ ~Counts(k)]
        /\ UNCHANGED <<first, authed, log>>
    BY <1>1 DEF Turn, Empty, ConnInv, ConnType
  <2>2. ~Counts(k)
    BY <1>1 DEF Empty, Counts
  <2>3. armed' = armed
    BY <2>1, <2>2 DEF ConnInv, ConnType
  <2>4. /\ \A d \in Conns : handler'[d] # "gone" => handler'[d] = handler[d]
        /\ \A d \in Conns : handler[d] # "reading" => handler'[d] = handler[d]
    BY <2>1 DEF ConnInv, ConnType
  <2>5. ConnType'
    BY <2>1, <2>3 DEF ConnInv, ConnType
  <2> QED
    BY <2>1, <2>3, <2>4, <2>5 DEF ConnInv, Dialled, Begun, AuthGate, LastIsLast,
       DeadlineUntilFirstLine, NoHandlerAfterServe
<1>2. CASE ~Empty(k) /\ k = "long"
  <2>1. /\ handler' = [handler EXCEPT ![c] = "gone"]
        /\ UNCHANGED <<first, armed, authed, log>>
    BY <1>2 DEF Turn
  <2> QED
    BY <2>1 DEF ConnInv, ConnType, Dialled, Begun, AuthGate, LastIsLast,
       DeadlineUntilFirstLine, NoHandlerAfterServe
<1>3. CASE ~Empty(k) /\ k # "long"
  <2>1. /\ first' = [first EXCEPT ![c] = FALSE]
        /\ armed' = [armed EXCEPT ![c] = armed[c] /\ ~Counts(k)]
        /\ authed' = [authed EXCEPT ![c] = authed[c] \/ fate = "authed"]
        /\ log' = [log EXCEPT ![c] = Append(log[c], e)]
        /\ handler' = [handler EXCEPT ![c] =
                         IF Ends(fate, how) THEN "gone" ELSE "reading"]
    BY <1>3 DEF Turn, ConnInv, ConnType
  <2>2. k \in AllKinds /\ Counts(k)
    BY <1>3 DEF Empty, Counts
  <2>3. first[c] \in BOOLEAN /\ authed[c] \in BOOLEAN /\ log[c] \in Seq(Entries)
    BY DEF ConnInv, ConnType
  <2>4. e \in Entries
    BY <2>2, <2>3, FateType DEF Entries
  <2>5. ConnType'
    BY <2>1, <2>2, <2>3, <2>4 DEF ConnInv, ConnType
  <2>6. /\ Len(log'[c]) = Len(log[c]) + 1 /\ log'[c] # <<>>
        /\ log'[c][Len(log[c]) + 1] = e
        /\ \A i \in 1..Len(log[c]) : log'[c][i] = log[c][i]
    <3>1. log'[c] = Append(log[c], e)
      BY <2>1 DEF ConnInv, ConnType
    <3> HIDE DEF e
    <3>2. log'[c] # <<>>
      BY <2>3, <2>4, <3>1
    <3> QED BY <2>3, <2>4, <3>1, <3>2
  <2>7. \A d \in Conns \ {c} :
          /\ log'[d] = log[d] /\ handler'[d] = handler[d]
          /\ first'[d] = first[d] /\ authed'[d] = authed[d]
          /\ armed'[d] = armed[d]
    BY <2>1 DEF ConnInv, ConnType
  <2>8. /\ ~first'[c] /\ ~armed'[c]
        /\ authed'[c] <=> authed[c] \/ fate = "authed"
        /\ handler'[c] \in {"reading", "gone"}
        /\ handler'[c] = "reading" <=> ~Ends(fate, how)
    BY <2>1, <2>2 DEF ConnInv, ConnType
  <2>9. Begun'
    <3>1. authed'[c] => log'[c][1].line = "auth"
      <4>1. CASE authed[c]
        <5>1. log[c] # <<>> /\ log[c][1].line = "auth"
          BY <4>1 DEF ConnInv, Begun
        <5>2. 1 \in 1..Len(log[c])
          BY <2>3, <5>1
        <5> QED BY <2>6, <5>1, <5>2
      <4>2. CASE fate = "authed"
        <5>1. first[c] /\ k = "auth"
          BY <2>2, <2>3, <4>2, FateAuthed
        <5>2. log[c] = <<>>
          BY <5>1 DEF ConnInv, Begun
        <5> QED BY <2>6, <5>1, <5>2
      <4> QED BY <2>8, <4>1, <4>2
    <3> QED
      BY <2>6, <2>7, <2>8, <3>1 DEF ConnInv, Begun
  <2>10. AuthGate'
    <3>1. ASSUME RequireAuth, fate = "handled"
          PROVE  log[c] # <<>> /\ log[c][1].line = "auth"
      <4>1. authed[c]
        BY <2>2, <2>3, <3>1, FateHandled
      <4> QED BY <4>1 DEF ConnInv, Begun
    <3>2. ASSUME NEW i \in 1..Len(log'[c]), RequireAuth,
                 log'[c][i].fate = "handled"
          PROVE  log'[c][1].line = "auth" /\ i > 1
      <4>1. CASE i \in 1..Len(log[c])
        BY <2>3, <2>6, <3>2, <4>1 DEF ConnInv, AuthGate
      <4>2. CASE i = Len(log[c]) + 1
        <5>1. log[c] # <<>> /\ log[c][1].line = "auth"
          BY <2>6, <3>1, <3>2, <4>2
        <5>2. Len(log[c]) > 0
          BY <2>3, <5>1
        <5> QED BY <2>3, <2>6, <4>2, <5>1, <5>2
      <4> QED BY <2>3, <2>6, <4>1, <4>2
    <3> QED
      BY <2>7, <3>2 DEF ConnInv, AuthGate
  <2>11. LastIsLast'
    <3>1. ASSUME NEW i \in 1..Len(log'[c]),
                 log'[c][i].fate = "rejected" \/ log'[c][i].how # "newline"
          PROVE  i = Len(log'[c]) /\ handler'[c] = "gone"
      <4>1. i \notin 1..Len(log[c])
        BY <2>6, <3>1 DEF ConnInv, LastIsLast
      <4>2. i = Len(log[c]) + 1
        BY <2>3, <2>6, <4>1
      <4> QED BY <2>6, <2>8, <3>1, <4>2 DEF Ends
    <3> QED
      BY <2>7, <3>1 DEF ConnInv, LastIsLast
  <2>12. Dialled' /\ DeadlineUntilFirstLine' /\ NoHandlerAfterServe'
    BY <2>6, <2>7, <2>8 DEF ConnInv, Dialled, DeadlineUntilFirstLine,
       NoHandlerAfterServe
  <2> QED BY <2>5, <2>9, <2>10, <2>11, <2>12 DEF ConnInv
<1> QED BY <1>1, <1>2, <1>3

\* The types of what the peers and Serve keep.
RestType ==
    /\ closed \in BOOLEAN /\ ln \in BOOLEAN
    /\ serve \in {"accept", "wait", "returned"}
    /\ peer \in [Conns -> {"none", "open", "shut"}]
    /\ stream \in [Conns -> Seq(AllKinds)]
    /\ part \in [Conns -> AllKinds \cup {"none"}]
    /\ lines \in [Conns -> Nat]

\* The two halves make up the invariant.
LEMMA Halves == IInv <=> ConnInv /\ RestType
  BY DEF IInv, TypeOK, ConnInv, ConnType, RestType

\* Every step keeps the types of the peers' and Serve's state.
LEMMA RestStep ==
    ASSUME RestType, [Next]_vars
    PROVE  RestType'
<1> USE KindsKnown DEF RestType
<1>1. ASSUME NEW c \in Conns, Accept(c) PROVE RestType'
  BY <1>1 DEF Accept, server, remote
<1>2. ASSUME NEW c \in Conns, ReadLine(c) PROVE RestType'
  <2>1. Tail(stream[c]) \in Seq(AllKinds)
    BY <1>2 DEF ReadLine
  <2> QED BY <1>2, <2>1 DEF ReadLine, server
<1>3. ASSUME NEW c \in Conns, ReadTooLong(c) PROVE RestType'
  BY <1>3 DEF ReadTooLong, server, remote
<1>4. ASSUME NEW c \in Conns, ReadEnd(c) PROVE RestType'
  BY <1>4 DEF ReadEnd, server, remote
<1>5. ASSUME NEW c \in Conns, ReadTimeout(c) PROVE RestType'
  BY <1>5 DEF ReadTimeout, server, remote
<1>6. ASSUME NEW c \in Conns, PeerDials(c) PROVE RestType'
  BY <1>6 DEF PeerDials, server
<1>7. ASSUME NEW c \in Conns, PeerBegins(c) PROVE RestType'
  BY <1>7 DEF PeerBegins, server
<1>8. ASSUME NEW c \in Conns, PeerEndsLine(c) PROVE RestType'
  <2>1. part[c] \in AllKinds /\ stream[c] \in Seq(AllKinds)
    BY <1>8 DEF PeerEndsLine
  <2>2. Append(stream[c], part[c]) \in Seq(AllKinds)
    BY <2>1
  <2> QED BY <1>8, <2>2 DEF PeerEndsLine, server
<1>9. ASSUME NEW c \in Conns, PeerHangsUp(c) PROVE RestType'
  BY <1>9 DEF PeerHangsUp, server
<1>10. CASE ServeClosed
  BY <1>10 DEF ServeClosed, ServeStops, remote
<1>11. CASE ServeReturns
  BY <1>11 DEF ServeReturns, remote
<1>12. CASE CloseBegin
  BY <1>12 DEF CloseBegin, remote
<1>13. CASE CloseListener
  BY <1>13 DEF CloseListener, ListenerAfterClose, remote
<1>14. CASE UNCHANGED vars
  BY <1>14 DEF vars, server, remote
<1> QED
  BY <1>1, <1>2, <1>3, <1>4, <1>5, <1>6, <1>7, <1>8, <1>9, <1>10, <1>11, <1>12,
     <1>13, <1>14 DEF Next, HandlerStep, ServeStep

\* Every step keeps what the invariant says of the connections.
LEMMA ConnStep ==
    ASSUME ConnInv, RestType, [Next]_vars
    PROVE  ConnInv'
<1> USE DEF ConnInv, ConnType
<1>1. ASSUME NEW c \in Conns, Accept(c) PROVE ConnInv'
  <2>1. /\ handler[c] = "backlog" /\ serve = "accept"
        /\ UNCHANGED <<serve, peer, first, authed, log>>
    BY <1>1 DEF Accept, server, remote
  <2>2. \/ /\ handler' = [handler EXCEPT ![c] = "reading"]
           /\ armed' = [armed EXCEPT ![c] = TRUE]
        \/ handler' = [handler EXCEPT ![c] = "gone"] /\ armed' = armed
    BY <1>1 DEF Accept
  <2>3. log[c] = <<>> /\ Len(log[c]) = 0
    BY <2>1 DEF Begun
  <2>4. AuthGate' /\ NoHandlerAfterServe' /\ Begun' /\ Dialled'
    BY <2>1, <2>2 DEF AuthGate, NoHandlerAfterServe, Begun, Dialled
  <2>5. LastIsLast'
    BY <2>1, <2>2, <2>3 DEF LastIsLast
  <2>6. DeadlineUntilFirstLine'
    BY <2>1, <2>2, <2>3 DEF DeadlineUntilFirstLine
  <2> QED BY <2>1, <2>2, <2>4, <2>5, <2>6
<1>2. ASSUME NEW c \in Conns, ReadLine(c) PROVE ConnInv'
  <2>1. Head(stream[c]) \in AllKinds
    BY <1>2 DEF ReadLine, RestType
  <2> QED BY <1>2, <2>1, TurnStep DEF ReadLine, server
<1>3. ASSUME NEW c \in Conns, ReadTooLong(c) PROVE ConnInv'
  BY <1>3, TurnStep DEF ReadTooLong, server, remote, AllKinds
<1>4. ASSUME NEW c \in Conns, ReadEnd(c) PROVE ConnInv'
  BY <1>4, TurnStep DEF ReadEnd, server, remote, RestType
<1>5. ASSUME NEW c \in Conns, ReadTimeout(c) PROVE ConnInv'
  BY <1>5, TurnStep DEF ReadTimeout, server, remote, RestType
<1>6. ASSUME NEW c \in Conns, PeerDials(c) PROVE ConnInv'
  <2>1. /\ peer[c] = "none" /\ peer' = [peer EXCEPT ![c] = "open"]
        /\ handler' = [handler EXCEPT ![c] = "backlog"]
        /\ UNCHANGED <<serve, first, armed, authed, log>>
    BY <1>6 DEF PeerDials, server
  <2>2. log[c] = <<>> /\ Len(log[c]) = 0
    BY <2>1 DEF Dialled, Begun
  <2>3. AuthGate' /\ Begun' /\ Dialled'
    BY <2>1, <2>2 DEF AuthGate, Begun, Dialled, RestType
  <2>4. LastIsLast'
    BY <2>1, <2>2 DEF LastIsLast
  <2>5. DeadlineUntilFirstLine' /\ NoHandlerAfterServe'
    BY <2>1 DEF DeadlineUntilFirstLine, NoHandlerAfterServe
  <2> QED BY <2>1, <2>3, <2>4, <2>5
<1>7. ASSUME NEW c \in Conns, PeerBegins(c) \/ PeerEndsLine(c) \/ PeerHangsUp(c)
      PROVE  ConnInv'
  <2>1. /\ UNCHANGED <<serve, handler, first, armed, authed, log>>
        /\ \A d \in Conns : peer'[d] = "none" => peer[d] = "none"
    BY <1>7 DEF RestType, PeerBegins, PeerEndsLine, PeerHangsUp, server, conn
  <2> QED
    BY <2>1 DEF Dialled, Begun, AuthGate, LastIsLast, DeadlineUntilFirstLine,
       NoHandlerAfterServe
<1>8. CASE ServeClosed
  <2>1. /\ serve' = "wait"
        /\ UNCHANGED <<peer, handler, first, armed, authed, log>>
    BY <1>8 DEF ServeClosed, ServeStops, conn, remote
  <2> QED
    BY <2>1 DEF Dialled, Begun, AuthGate, LastIsLast, DeadlineUntilFirstLine,
       NoHandlerAfterServe
<1>9. CASE ServeReturns
  <2>1. /\ \A c \in Conns : handler[c] # "reading"
        /\ UNCHANGED <<peer, handler, first, armed, authed, log>>
    BY <1>9 DEF ServeReturns, conn, remote
  <2> QED
    BY <2>1 DEF Dialled, Begun, AuthGate, LastIsLast, DeadlineUntilFirstLine,
       NoHandlerAfterServe
<1>10. CASE CloseBegin
  <2>1. UNCHANGED <<serve, peer, handler, first, armed, authed, log>>
    BY <1>10 DEF CloseBegin, conn, remote
  <2> QED
    BY <2>1 DEF Dialled, Begun, AuthGate, LastIsLast, DeadlineUntilFirstLine,
       NoHandlerAfterServe
<1>11. CASE CloseListener
  <2>1. UNCHANGED <<serve, peer, first, armed, authed, log>>
    BY <1>11 DEF CloseListener, remote
  <2>2. /\ handler' \in [Conns -> {"none", "backlog", "reading", "gone"}]
        /\ \A c \in Conns : handler'[c] # "gone" => handler'[c] = handler[c]
        /\ \A c \in Conns : handler[c] # "backlog" => handler'[c] = handler[c]
    BY <1>11 DEF CloseListener
  <2>3. Dialled' /\ Begun'
    BY <2>1, <2>2 DEF Dialled, Begun
  <2>4. AuthGate' /\ LastIsLast'
    BY <2>1, <2>2 DEF AuthGate, LastIsLast
  <2>5. DeadlineUntilFirstLine' /\ NoHandlerAfterServe'
    BY <2>1, <2>2 DEF DeadlineUntilFirstLine, NoHandlerAfterServe
  <2> QED BY <2>1, <2>2, <2>3, <2>4, <2>5
<1>12. CASE UNCHANGED vars
  BY <1>12 DEF vars, server, conn, remote, Dialled, Begun, AuthGate, LastIsLast,
     DeadlineUntilFirstLine, NoHandlerAfterServe
<1> QED
  BY <1>1, <1>2, <1>3, <1>4, <1>5, <1>6, <1>7, <1>8, <1>9, <1>10, <1>11, <1>12
     DEF Next, HandlerStep, ServeStep

\* The invariant holds at the start.
LEMMA InitIInv == Init => IInv
  <1> SUFFICES ASSUME Init PROVE ConnInv /\ RestType
    BY Halves
  <1> USE DEF Init
  <1>1. \A c \in Conns : log[c] = <<>> /\ Len(log[c]) = 0
    OBVIOUS
  <1>2. ConnType
    BY DEF ConnType
  <1>3. Dialled /\ Begun /\ DeadlineUntilFirstLine /\ NoHandlerAfterServe
    BY DEF Dialled, Begun, DeadlineUntilFirstLine, NoHandlerAfterServe
  <1>4. AuthGate /\ LastIsLast
    BY <1>1 DEF AuthGate, LastIsLast
  <1>5. RestType
    <2>1. /\ stream \in [Conns -> Seq(AllKinds)]
          /\ part \in [Conns -> AllKinds \cup {"none"}]
          /\ lines \in [Conns -> Nat]
          /\ peer \in [Conns -> {"none", "open", "shut"}]
      OBVIOUS
    <2>2. closed \in BOOLEAN /\ ln \in BOOLEAN
      OBVIOUS
    <2>3. serve \in {"accept", "wait", "returned"}
      OBVIOUS
    <2> QED BY <2>1, <2>2, <2>3 DEF RestType
  <1> QED BY <1>2, <1>3, <1>4, <1>5 DEF ConnInv

\* The inductive invariant holds in every reachable state.
THEOREM Invariance == Spec => []IInv
  <1>1. IInv /\ [Next]_vars => IInv'
    <2>1. (ConnInv /\ RestType)' <=> IInv'
      BY DEF IInv, TypeOK, ConnInv, ConnType, RestType
    <2> QED BY <2>1, Halves, ConnStep, RestStep
  <1> QED BY InitIInv, <1>1, PTL DEF Spec

\* Types: every variable keeps to the values the code can give it.
THEOREM TypeCorrect == Spec => []TypeOK
  <1>1. IInv => TypeOK BY DEF IInv
  <1> QED BY Invariance, <1>1, PTL

\* An inbox that requires authentication hands nothing to a callback before
\* the very first line has proved who is speaking.
THEOREM OnlyAuthenticatedIsHandled == Spec => []AuthGate
  <1>1. IInv => AuthGate BY DEF IInv
  <1> QED BY Invariance, <1>1, PTL

\* The line that closes a connection is the last one dispatched on it.
THEOREM ClosedIsSilent == Spec => []LastIsLast
  <1>1. IInv => LastIsLast BY DEF IInv
  <1> QED BY Invariance, <1>1, PTL

\* The read deadline stands exactly until a first line has been dispatched.
THEOREM DeadlineStands == Spec => []DeadlineUntilFirstLine
  <1>1. IInv => DeadlineUntilFirstLine BY DEF IInv
  <1> QED BY Invariance, <1>1, PTL

\* Serve returns only when its last handler has.
THEOREM ServeOutlivesHandlers == Spec => []NoHandlerAfterServe
  <1>1. IInv => NoHandlerAfterServe BY DEF IInv
  <1> QED BY Invariance, <1>1, PTL
=============================================================================
