------------------------- MODULE CodexClientProofs -------------------------
(* Proofs about CodexClient, for any calls, closers and inbox bound. *)
EXTENDS CodexClient, TLAPS

\* The table of pending calls stays a table under both of its operations.
LEMMA TableType ==
    ASSUME NEW m, DOMAIN m \subseteq Nat, m \in [DOMAIN m -> Calls],
           NEW k \in Nat, NEW c \in Calls
    PROVE  /\ DOMAIN Insert(m, k, c) = DOMAIN m \cup {k}
           /\ DOMAIN Insert(m, k, c) \subseteq Nat
           /\ Insert(m, k, c) \in [DOMAIN Insert(m, k, c) -> Calls]
           /\ \A i \in DOMAIN m \cup {k} :
                Insert(m, k, c)[i] = IF i = k THEN c ELSE m[i]
           /\ DOMAIN Delete(m, k) = DOMAIN m \ {k}
           /\ DOMAIN Delete(m, k) \subseteq Nat
           /\ Delete(m, k) \in [DOMAIN Delete(m, k) -> Calls]
           /\ \A i \in DOMAIN m \ {k} : Delete(m, k)[i] = m[i]
  BY DEF Insert, Delete

\* Every step keeps the types.
LEMMA TypeStep ==
    ASSUME TypeOK, [Next]_vars
    PROVE  TypeOK'
<1> USE ReaderApart, NoneApart, ChatterKinds
<1>1. ASSUME NEW c \in Calls, CallBegin(c) PROVE TypeOK'
  BY <1>1 DEF CallBegin, FreshID, thread, daemon, TypeOK, CallPlaces
<1>2. ASSUME NEW c \in Calls, CallRegister(c) PROVE TypeOK'
  <2>1. /\ DOMAIN pending' \subseteq Nat
        /\ pending' \in [DOMAIN pending' -> Calls]
    <3>1. CASE UNCHANGED pending
      BY <3>1 DEF TypeOK
    <3>2. CASE pending' = Insert(pending, id[c], c)
      BY <3>2, TableType DEF TypeOK
    <3> QED BY <1>2, <3>1, <3>2 DEF CallRegister
  <2>2. pc' \in [Calls -> CallPlaces]
    <3>1. \/ pc' = [pc EXCEPT ![c] = "returned"]
          \/ pc' = [pc EXCEPT ![c] = "lock"]
      BY <1>2 DEF CallRegister, Return
    <3> QED BY <3>1 DEF CallPlaces, TypeOK
  <2>3. ret' \in [Calls -> {"none", "closed", "unsent", "ctx"} \cup Kinds]
    BY <1>2 DEF CallRegister, Return, TypeOK
  <2> QED
    BY <1>2, <2>1, <2>2, <2>3 DEF CallRegister, thread, daemon, TypeOK
<1>3. ASSUME NEW c \in Calls, CallLock(c) PROVE TypeOK'
  BY <1>3 DEF CallLock, thread, daemon, TypeOK, CallPlaces
<1>4. ASSUME NEW c \in Calls, CallWrite(c) PROVE TypeOK'
  <2>1. received' \in SUBSET (Nat \X Calls)
    <3>1. <<id[c], c>> \in Nat \X Calls BY DEF TypeOK
    <3> QED BY <1>4, <3>1 DEF CallWrite, TypeOK
  <2>2. pc' \in [Calls -> CallPlaces]
    <3>1. \/ pc' = [pc EXCEPT ![c] = "select"]
          \/ pc' = [pc EXCEPT ![c] = "unsent"]
      BY <1>4 DEF CallWrite
    <3> QED BY <3>1 DEF CallPlaces, TypeOK
  <2>3. writeMu' \in Calls \cup {None}
    BY <1>4 DEF CallWrite
  <2> QED
    BY <1>4, <2>1, <2>2, <2>3 DEF CallWrite, thread, TypeOK
<1>5. ASSUME NEW c \in Calls, CallUnsent(c) PROVE TypeOK'
  BY <1>5 DEF CallUnsent, Return, Delete, thread, daemon, TypeOK, CallPlaces
<1>6. ASSUME NEW c \in Calls, CallCancelled(c) PROVE TypeOK'
  BY <1>6 DEF CallCancelled, shared, thread, daemon, TypeOK, CallPlaces
<1>7. ASSUME NEW c \in Calls, CallCancel(c) PROVE TypeOK'
  BY <1>7 DEF CallCancel, Return, Delete, thread, daemon, TypeOK, CallPlaces
<1>8. ASSUME NEW c \in Calls, CallReceive(c) PROVE TypeOK'
  BY <1>8 DEF CallReceive, Return, shared, thread, daemon, TypeOK,
         CallPlaces, Messages
<1>9. ASSUME NEW c \in Calls, CallWoken(c) PROVE TypeOK'
  BY <1>9 DEF CallWoken, Return, shared, thread, daemon, TypeOK, CallPlaces
<1>10. ASSUME NEW c \in Calls, CtxEnds(c) PROVE TypeOK'
  BY <1>10 DEF CtxEnds, shared, thread, daemon, TypeOK
<1>11. ASSUME NEW k \in Closers, CloseBegin(k) PROVE TypeOK'
  BY <1>11 DEF CloseBegin, shared, caller, daemon, TypeOK, ThreadPlaces
<1>12. ASSUME NEW k \in Closers, CloseFrame(k) PROVE TypeOK'
  BY <1>12 DEF CloseFrame, shared, caller, daemon, TypeOK, ThreadPlaces
<1>13. ASSUME NEW k \in Closers, CloseConn(k) PROVE TypeOK'
  <2>1. conn' \in BOOLEAN
    BY <1>13 DEF CloseConn
  <2>2. step' \in [Failers -> ThreadPlaces]
    BY <1>13 DEF CloseConn, ThreadPlaces, TypeOK
  <2> QED
    BY <1>13, <2>1, <2>2 DEF CloseConn, shared, caller, daemon, TypeOK
<1>14. ASSUME NEW f \in Failers, FailEnter(f) PROVE TypeOK'
  <2>1. /\ DOMAIN pending' \subseteq Nat
        /\ pending' \in [DOMAIN pending' -> Calls]
    BY <1>14 DEF FailEnter, TypeOK
  <2>2. Channels(pending) \subseteq Calls
    BY DEF Channels, TypeOK
  <2>3. drain' \in [Failers -> SUBSET Calls]
    <3>1. drain' = drain \/ drain' = [drain EXCEPT ![f] = Channels(pending)]
      BY <1>14 DEF FailEnter
    <3> QED BY <2>2, <3>1 DEF TypeOK
  <2>4. closed' \in BOOLEAN
    BY <1>14 DEF FailEnter, TypeOK
  <2>5. err' \in {"none", "error"}
    BY <1>14 DEF FailEnter, Record, TypeOK
  <2>6. step' \in [Failers -> ThreadPlaces]
    BY <1>14 DEF FailEnter, ThreadPlaces, TypeOK
  <2> QED
    BY <1>14, <2>1, <2>3, <2>4, <2>5, <2>6 DEF FailEnter, caller, daemon,
           TypeOK
<1>15. ASSUME NEW f \in Failers, FailCloseChan(f) PROVE TypeOK'
  BY <1>15 DEF FailCloseChan, shared, daemon, TypeOK
<1>16. ASSUME NEW f \in Failers, FailDone(f) PROVE TypeOK'
  BY <1>16 DEF FailDone, caller, daemon, TypeOK, ThreadPlaces
<1>17. CASE ReaderRead
  <2> DEFINE m == Head(inbox)
  <2>1. m \in Messages /\ Tail(inbox) \in Seq(Messages)
    BY <1>17 DEF ReaderRead, TypeOK
  <2>2. m.kind \in {"result", "error", "other", "ping", "close", "bad"}
    BY <2>1 DEF Messages, Kinds
  <2>3. step' \in [Failers -> ThreadPlaces]
    BY <1>17, <2>2 DEF ReaderRead, IsResponse, ThreadPlaces, TypeOK
  <2>4. /\ cause' \in [Failers -> {"eof", "error"}]
        /\ rmsg' \in Messages \cup {None}
        /\ inbox' \in Seq(Messages)
    BY <1>17, <2>1 DEF ReaderRead, TypeOK
  <2> QED
    BY <1>17, <2>3, <2>4 DEF ReaderRead, shared, caller, TypeOK
<1>18. CASE ReaderReadFails
  BY <1>18 DEF ReaderReadFails, shared, caller, daemon, TypeOK, ThreadPlaces,
         Failers
<1>19. CASE ReaderPong
  <2>1. step' \in [Failers -> ThreadPlaces]
    <3>1. \/ step' = [step EXCEPT ![Reader] = "read"]
          \/ step' = [step EXCEPT ![Reader] = "enter"]
      BY <1>19 DEF ReaderPong
    <3> QED BY <3>1 DEF TypeOK, ThreadPlaces
  <2>2. cause' \in [Failers -> {"error", "eof"}]
    <3>1. cause' = cause \/ cause' = [cause EXCEPT ![Reader] = "error"]
      BY <1>19 DEF ReaderPong
    <3> QED BY <3>1 DEF TypeOK
  <2>3. UNCHANGED <<shared, caller, drain, rmsg, rch, already, conn, daemon>>
    BY <1>19 DEF ReaderPong
  <2> QED
    BY <2>1, <2>2, <2>3 DEF shared, caller, daemon, TypeOK
<1>20. CASE ReaderEcho
  BY <1>20 DEF ReaderEcho, shared, caller, daemon, TypeOK, ThreadPlaces
<1>21. CASE ReaderTake
  BY <1>21 DEF ReaderTake, Delete, caller, daemon, TypeOK, ThreadPlaces,
         Failers
<1>22. CASE ReaderSend
  BY <1>22 DEF ReaderSend, shared, daemon, TypeOK, ThreadPlaces
<1>23. CASE DaemonAnswers
  BY <1>23, SMTT(30)
     DEF DaemonAnswers, shared, caller, thread, TypeOK, Messages, Kinds
<1>24. CASE DaemonTalks
  BY <1>24 DEF DaemonTalks, shared, caller, thread, TypeOK, Messages, Kinds
<1>25. CASE DaemonGone
  <2>1. peer' \in BOOLEAN
    BY <1>25 DEF DaemonGone
  <2> QED
    BY <1>25, <2>1 DEF DaemonGone, shared, caller, thread, TypeOK
<1>26. CASE DaemonStalls
  BY <1>26 DEF DaemonStalls, shared, caller, thread, TypeOK
<1>27. CASE UNCHANGED vars
  BY <1>27 DEF vars, shared, caller, thread, daemon, TypeOK
<1> QED
  BY <1>1, <1>2, <1>3, <1>4, <1>5, <1>6, <1>7, <1>8, <1>9, <1>10, <1>11,
     <1>12, <1>13, <1>14, <1>15, <1>16, <1>17, <1>18, <1>19, <1>20, <1>21,
     <1>22, <1>23, <1>24, <1>25, <1>26, <1>27 DEF Next, CallStep, FailStep,
         ReaderStep, CloseStep, DaemonStep

\* An id is handed out once.
LEMMA IdStep ==
    ASSUME TypeOK, IdInv, [Next]_vars
    PROVE  IdInv'
<1> USE ReaderApart, NoneApart
<1>1. ASSUME NEW c \in Calls, CallBegin(c) PROVE IdInv'
  BY <1>1 DEF CallBegin, FreshID, TypeOK, IdInv
<1>2. ASSUME NEW c \in Calls, CallRegister(c) PROVE IdInv'
  BY <1>2 DEF CallRegister, Return, TypeOK, IdInv
<1>3. ASSUME NEW c \in Calls, CallLock(c) PROVE IdInv'
  BY <1>3 DEF CallLock, IdInv
<1>4. ASSUME NEW c \in Calls, CallWrite(c) PROVE IdInv'
  BY <1>4 DEF CallWrite, TypeOK, IdInv
<1>5. ASSUME NEW c \in Calls, CallUnsent(c) PROVE IdInv'
  BY <1>5 DEF CallUnsent, Return, IdInv
<1>6. ASSUME NEW c \in Calls, CallCancelled(c) PROVE IdInv'
  BY <1>6 DEF CallCancelled, shared, IdInv
<1>7. ASSUME NEW c \in Calls, CallCancel(c) PROVE IdInv'
  BY <1>7 DEF CallCancel, Return, IdInv
<1>8. ASSUME NEW c \in Calls, CallReceive(c) PROVE IdInv'
  BY <1>8 DEF CallReceive, Return, shared, IdInv
<1>9. ASSUME NEW c \in Calls, CallWoken(c) PROVE IdInv'
  BY <1>9 DEF CallWoken, Return, shared, IdInv
<1>10. ASSUME NEW c \in Calls, CtxEnds(c) PROVE IdInv'
  BY <1>10 DEF CtxEnds, shared, IdInv
<1>11. ASSUME NEW k \in Closers, CloseBegin(k) PROVE IdInv'
  BY <1>11 DEF CloseBegin, shared, caller, IdInv
<1>12. ASSUME NEW k \in Closers, CloseFrame(k) PROVE IdInv'
  BY <1>12 DEF CloseFrame, shared, caller, IdInv
<1>13. ASSUME NEW k \in Closers, CloseConn(k) PROVE IdInv'
  BY <1>13 DEF CloseConn, shared, caller, IdInv
<1>14. ASSUME NEW f \in Failers, FailEnter(f) PROVE IdInv'
  BY <1>14 DEF FailEnter, caller, IdInv
<1>15. ASSUME NEW f \in Failers, FailCloseChan(f) PROVE IdInv'
  BY <1>15 DEF FailCloseChan, shared, IdInv
<1>16. ASSUME NEW f \in Failers, FailDone(f) PROVE IdInv'
  BY <1>16 DEF FailDone, caller, IdInv
<1>17. CASE ReaderRead
  BY <1>17 DEF ReaderRead, shared, caller, IdInv
<1>18. CASE ReaderReadFails
  BY <1>18 DEF ReaderReadFails, shared, caller, IdInv
<1>19. CASE ReaderPong
  BY <1>19 DEF ReaderPong, shared, caller, IdInv
<1>20. CASE ReaderEcho
  BY <1>20 DEF ReaderEcho, shared, caller, IdInv
<1>21. CASE ReaderTake
  BY <1>21 DEF ReaderTake, caller, IdInv
<1>22. CASE ReaderSend
  BY <1>22 DEF ReaderSend, shared, IdInv
<1>23. CASE DaemonAnswers
  BY <1>23 DEF DaemonAnswers, shared, caller, IdInv
<1>24. CASE DaemonTalks
  BY <1>24 DEF DaemonTalks, shared, caller, IdInv
<1>25. CASE DaemonGone
  BY <1>25 DEF DaemonGone, shared, caller, IdInv
<1>26. CASE DaemonStalls
  BY <1>26 DEF DaemonStalls, shared, caller, IdInv
<1>27. CASE UNCHANGED vars
  BY <1>27 DEF vars, shared, caller, IdInv
<1> QED
  BY <1>1, <1>2, <1>3, <1>4, <1>5, <1>6, <1>7, <1>8, <1>9, <1>10, <1>11,
     <1>12, <1>13, <1>14, <1>15, <1>16, <1>17, <1>18, <1>19, <1>20, <1>21,
     <1>22, <1>23, <1>24, <1>25, <1>26, <1>27 DEF Next, CallStep, FailStep,
         ReaderStep, CloseStep, DaemonStep

\* Responses keep to the call they are about.
LEMMA MsgStep ==
    ASSUME TypeOK, IdInv, OwnerInv, MsgInv, [Next]_vars
    PROVE  MsgInv'
<1> USE ReaderApart, NoneApart
<1>1. ASSUME NEW c \in Calls, CallBegin(c) PROVE MsgInv'
  BY <1>1 DEF CallBegin, thread, daemon, IdInv, MsgInv, Genuine, OwnAnswer
<1>2. ASSUME NEW c \in Calls, CallRegister(c) PROVE MsgInv'
  BY <1>2 DEF CallRegister, thread, daemon, MsgInv, Genuine, OwnAnswer
<1>3. ASSUME NEW c \in Calls, CallLock(c) PROVE MsgInv'
  BY <1>3 DEF CallLock, thread, daemon, MsgInv, Genuine, OwnAnswer
<1>4. ASSUME NEW c \in Calls, CallWrite(c) PROVE MsgInv'
  BY <1>4 DEF CallWrite, thread, IdInv, MsgInv, Genuine, OwnAnswer
<1>5. ASSUME NEW c \in Calls, CallUnsent(c) PROVE MsgInv'
  BY <1>5 DEF CallUnsent, thread, daemon, MsgInv, Genuine, OwnAnswer
<1>6. ASSUME NEW c \in Calls, CallCancelled(c) PROVE MsgInv'
  BY <1>6 DEF CallCancelled, thread, daemon, MsgInv, Genuine, OwnAnswer
<1>7. ASSUME NEW c \in Calls, CallCancel(c) PROVE MsgInv'
  BY <1>7 DEF CallCancel, thread, daemon, MsgInv, Genuine, OwnAnswer
<1>8. ASSUME NEW c \in Calls, CallReceive(c) PROVE MsgInv'
  BY <1>8 DEF CallReceive, thread, daemon, MsgInv, Genuine, OwnAnswer
<1>9. ASSUME NEW c \in Calls, CallWoken(c) PROVE MsgInv'
  BY <1>9 DEF CallWoken, thread, daemon, MsgInv, Genuine, OwnAnswer
<1>10. ASSUME NEW c \in Calls, CtxEnds(c) PROVE MsgInv'
  BY <1>10 DEF CtxEnds, thread, daemon, MsgInv, Genuine, OwnAnswer
<1>11. ASSUME NEW k \in Closers, CloseBegin(k) PROVE MsgInv'
  BY <1>11 DEF CloseBegin, caller, daemon, MsgInv, Genuine, OwnAnswer
<1>12. ASSUME NEW k \in Closers, CloseFrame(k) PROVE MsgInv'
  BY <1>12 DEF CloseFrame, caller, daemon, MsgInv, Genuine, OwnAnswer
<1>13. ASSUME NEW k \in Closers, CloseConn(k) PROVE MsgInv'
  BY <1>13 DEF CloseConn, caller, daemon, MsgInv, Genuine, OwnAnswer
<1>14. ASSUME NEW f \in Failers, FailEnter(f) PROVE MsgInv'
  BY <1>14 DEF FailEnter, caller, daemon, MsgInv, Genuine, OwnAnswer
<1>15. ASSUME NEW f \in Failers, FailCloseChan(f) PROVE MsgInv'
  BY <1>15 DEF FailCloseChan, daemon, MsgInv, Genuine, OwnAnswer
<1>16. ASSUME NEW f \in Failers, FailDone(f) PROVE MsgInv'
  BY <1>16 DEF FailDone, caller, daemon, MsgInv, Genuine, OwnAnswer
<1>17. CASE ReaderRead
  <2> DEFINE m == Head(inbox)
  <2>1. /\ m = inbox[1] /\ 1 \in 1..Len(inbox)
        /\ Len(Tail(inbox)) = Len(inbox) - 1
        /\ \A k \in 1..Len(Tail(inbox)) :
             k + 1 \in 1..Len(inbox) /\ Tail(inbox)[k] = inbox[k + 1]
    BY <1>17 DEF ReaderRead
  <2>2. \A x : Genuine(x)' <=> Genuine(x)
    BY <1>17 DEF ReaderRead, caller, Genuine
  <2>3. \A k \in 1..Len(inbox') : Genuine(inbox'[k])
    BY <1>17, <2>1 DEF ReaderRead, MsgInv
  <2>4. rmsg' # None => Genuine(rmsg')
    BY <1>17, <2>1 DEF ReaderRead, MsgInv
  <2> QED
    BY <1>17, <2>2, <2>3, <2>4 DEF ReaderRead, caller, MsgInv, OwnAnswer
<1>18. CASE ReaderReadFails
  BY <1>18 DEF ReaderReadFails, caller, daemon, MsgInv, Genuine, OwnAnswer
<1>19. CASE ReaderPong
  BY <1>19 DEF ReaderPong, caller, daemon, MsgInv, Genuine, OwnAnswer
<1>20. CASE ReaderEcho
  BY <1>20 DEF ReaderEcho, caller, daemon, MsgInv, Genuine, OwnAnswer
<1>21. CASE ReaderTake
  BY <1>21 DEF ReaderTake, caller, daemon, MsgInv, Genuine, OwnAnswer
<1>22. CASE ReaderSend
  <2>1. /\ rch \in Calls /\ rmsg \in Messages /\ IsResponse(rmsg)
        /\ rmsg.id = id[rch] /\ rmsg # None /\ Known(rch)
    BY <1>22 DEF ReaderSend, OwnerInv
  <2>2. id[rch] # 0 /\ Genuine(rmsg)
    BY <2>1 DEF MsgInv, IdInv, Known
  <2>3. rmsg.body = rch
    BY <2>1, <2>2 DEF Genuine, IdInv
  <2>4. \A c \in Calls : buf'[c] # None =>
            IsResponse(buf'[c]) /\ buf'[c].body = c
    BY <1>22, <2>1, <2>3 DEF ReaderSend, MsgInv, TypeOK
  <2> QED
    BY <1>22, <2>4 DEF ReaderSend, daemon, MsgInv, Genuine, OwnAnswer
<1>23. CASE DaemonAnswers
  BY <1>23 DEF DaemonAnswers, caller, thread, TypeOK, MsgInv, Genuine,
         OwnAnswer
<1>24. CASE DaemonTalks
  <2>1. PICK k \in Chatter :
          inbox' = Append(inbox, [kind |-> k, id |-> 0, body |-> None])
    BY <1>24 DEF DaemonTalks
  <2> DEFINE m == [kind |-> k, id |-> 0, body |-> None]
  <2>2. ~IsResponse(m)
    BY ChatterKinds DEF IsResponse
  <2>3. \A x : Genuine(x)' <=> Genuine(x)
    BY <1>24 DEF DaemonTalks, caller, Genuine
  <2>4. \A j \in 1..Len(inbox') :
            inbox'[j] = m \/ (j \in 1..Len(inbox) /\ inbox'[j] = inbox[j])
    BY <2>1 DEF TypeOK
  <2>5. \A j \in 1..Len(inbox') : Genuine(inbox'[j])
    BY <2>2, <2>4 DEF Genuine, MsgInv
  <2> QED
    BY <1>24, <2>3, <2>5 DEF DaemonTalks, caller, thread, MsgInv, OwnAnswer
<1>25. CASE DaemonGone
  BY <1>25 DEF DaemonGone, caller, thread, MsgInv, Genuine, OwnAnswer
<1>26. CASE DaemonStalls
  BY <1>26 DEF DaemonStalls, caller, thread, MsgInv, Genuine, OwnAnswer
<1>27. CASE UNCHANGED vars
  BY <1>27 DEF vars, caller, thread, daemon, MsgInv, Genuine, OwnAnswer
<1> QED
  BY <1>1, <1>2, <1>3, <1>4, <1>5, <1>6, <1>7, <1>8, <1>9, <1>10, <1>11,
     <1>12, <1>13, <1>14, <1>15, <1>16, <1>17, <1>18, <1>19, <1>20, <1>21,
     <1>22, <1>23, <1>24, <1>25, <1>26, <1>27 DEF Next, CallStep, FailStep,
         ReaderStep, CloseStep, DaemonStep

\* A call in flight is always in somebody's hands.
LEMMA WaitStep ==
    ASSUME TypeOK, IdInv, OwnerInv, NoLostWaiter, [Next]_vars
    PROVE  NoLostWaiter'
<1> USE ReaderApart, NoneApart
<1>1. ASSUME NEW c \in Calls, CallBegin(c) PROVE NoLostWaiter'
  BY <1>1 DEF CallBegin, thread, NoLostWaiter, InFlight
<1>2. ASSUME NEW c \in Calls, CallRegister(c) PROVE NoLostWaiter'
  <2>1. CASE UNCHANGED pending /\ pc' = [pc EXCEPT ![c] = "returned"]
    BY <1>2, <2>1 DEF CallRegister, thread, NoLostWaiter, InFlight, TypeOK
  <2>2. CASE /\ pending' = Insert(pending, id[c], c)
             /\ pc' = [pc EXCEPT ![c] = "lock"]
    <3>1. /\ pending' = Insert(pending, id[c], c)
          /\ pc' = [pc EXCEPT ![c] = "lock"]
          /\ UNCHANGED <<id, buf, chClosed, step, rch, drain>>
      BY <1>2, <2>2 DEF CallRegister, thread
    <3>2. id[c] \in DOMAIN pending' /\ pending'[id[c]] = c
      BY <3>1 DEF Insert, TypeOK
    <3>3. ASSUME NEW d \in Calls, d # c, id[d] \in DOMAIN pending,
                 pending[id[d]] = d
          PROVE  id[d] \in DOMAIN pending' /\ pending'[id[d]] = d
      <4>1. id[c] # 0
        BY <1>2 DEF CallRegister, IdInv
      <4>2. id[d] # id[c]
        BY <3>3, <4>1 DEF IdInv
      <4> QED BY <3>1, <3>3, <4>2 DEF Insert
    <3> QED
      BY <3>1, <3>2, <3>3 DEF NoLostWaiter, InFlight, TypeOK
  <2> QED BY <1>2, <2>1, <2>2 DEF CallRegister, Return
<1>3. ASSUME NEW c \in Calls, CallLock(c) PROVE NoLostWaiter'
  BY <1>3 DEF CallLock, thread, NoLostWaiter, InFlight
<1>4. ASSUME NEW c \in Calls, CallWrite(c) PROVE NoLostWaiter'
  <2>1. /\ pc[c] = "write"
        /\ \/ pc' = [pc EXCEPT ![c] = "select"]
           \/ pc' = [pc EXCEPT ![c] = "unsent"]
        /\ UNCHANGED <<id, pending, buf, chClosed, step, rch, drain>>
    BY <1>4 DEF CallWrite, thread
  <2>2. \A d \in Calls : InFlight(d)' => InFlight(d)
    BY <2>1 DEF InFlight, TypeOK
  <2> QED
    BY <2>1, <2>2 DEF NoLostWaiter
<1>5. ASSUME NEW c \in Calls, CallUnsent(c) PROVE NoLostWaiter'
  <2>1. /\ pending' = Delete(pending, id[c]) /\ id[c] # 0
        /\ pc' = [pc EXCEPT ![c] = "returned"]
        /\ UNCHANGED <<id, buf, chClosed, step, rch, drain>>
    BY <1>5 DEF CallUnsent, Return, thread, IdInv
  <2>2. ASSUME NEW d \in Calls, d # c, id[d] \in DOMAIN pending,
               pending[id[d]] = d
        PROVE  id[d] \in DOMAIN pending' /\ pending'[id[d]] = d
    <3>1. id[d] # id[c]
      BY <2>1, <2>2 DEF IdInv
    <3> QED BY <2>1, <2>2, <3>1 DEF Delete
  <2> QED
    BY <2>1, <2>2 DEF NoLostWaiter, InFlight, TypeOK
<1>6. ASSUME NEW c \in Calls, CallCancelled(c) PROVE NoLostWaiter'
  BY <1>6 DEF CallCancelled, shared, thread, NoLostWaiter, InFlight
<1>7. ASSUME NEW c \in Calls, CallCancel(c) PROVE NoLostWaiter'
  <2>1. /\ pending' = Delete(pending, id[c]) /\ id[c] # 0
        /\ pc' = [pc EXCEPT ![c] = "returned"]
        /\ UNCHANGED <<id, buf, chClosed, step, rch, drain>>
    BY <1>7 DEF CallCancel, Return, thread, IdInv
  <2>2. ASSUME NEW d \in Calls, d # c, id[d] \in DOMAIN pending,
               pending[id[d]] = d
        PROVE  id[d] \in DOMAIN pending' /\ pending'[id[d]] = d
    <3>1. id[d] # id[c]
      BY <2>1, <2>2 DEF IdInv
    <3> QED BY <2>1, <2>2, <3>1 DEF Delete
  <2> QED
    BY <2>1, <2>2 DEF NoLostWaiter, InFlight, TypeOK
<1>8. ASSUME NEW c \in Calls, CallReceive(c) PROVE NoLostWaiter'
  BY <1>8 DEF CallReceive, Return, shared, thread, TypeOK, NoLostWaiter,
         InFlight
<1>9. ASSUME NEW c \in Calls, CallWoken(c) PROVE NoLostWaiter'
  BY <1>9 DEF CallWoken, Return, shared, thread, NoLostWaiter, InFlight
<1>10. ASSUME NEW c \in Calls, CtxEnds(c) PROVE NoLostWaiter'
  BY <1>10 DEF CtxEnds, shared, thread, NoLostWaiter, InFlight
<1>11. ASSUME NEW k \in Closers, CloseBegin(k) PROVE NoLostWaiter'
  BY <1>11 DEF CloseBegin, shared, caller, NoLostWaiter, InFlight
<1>12. ASSUME NEW k \in Closers, CloseFrame(k) PROVE NoLostWaiter'
  BY <1>12 DEF CloseFrame, shared, caller, NoLostWaiter, InFlight
<1>13. ASSUME NEW k \in Closers, CloseConn(k) PROVE NoLostWaiter'
  BY <1>13 DEF CloseConn, shared, caller, NoLostWaiter, InFlight
<1>14. ASSUME NEW f \in Failers, FailEnter(f) PROVE NoLostWaiter'
  <2>1. CASE closed
    <3>1. /\ step[f] = "enter" /\ step' = [step EXCEPT ![f] = "finished"]
          /\ UNCHANGED <<pending, pc, id, buf, chClosed, rch, drain>>
      BY <1>14, <2>1 DEF FailEnter, FirstToFail, caller
    <3> QED
      BY <3>1 DEF NoLostWaiter, InFlight, Failers, TypeOK
  <2>2. CASE ~closed
    <3>1. /\ drain' = [drain EXCEPT ![f] = Channels(pending)]
          /\ step[f] = "enter" /\ step' = [step EXCEPT ![f] = "drain"]
          /\ UNCHANGED <<pc, id, buf, chClosed, rch>>
      BY <1>14, <2>2 DEF FailEnter, FirstToFail, caller
    <3>2. ASSUME NEW d \in Calls, id[d] \in DOMAIN pending, pending[id[d]] = d
          PROVE  d \in drain'[f]
      BY <3>1, <3>2 DEF Channels, TypeOK
    <3>3. \A g \in Failers : drain[g] # {} => drain'[g] = drain[g]
      BY <3>1 DEF OwnerInv, TypeOK
    <3> QED
      BY <3>1, <3>2, <3>3 DEF NoLostWaiter, InFlight, Failers, TypeOK
  <2> QED BY <2>1, <2>2
<1>15. ASSUME NEW f \in Failers, FailCloseChan(f) PROVE NoLostWaiter'
  BY <1>15 DEF FailCloseChan, shared, TypeOK, NoLostWaiter, InFlight
<1>16. ASSUME NEW f \in Failers, FailDone(f) PROVE NoLostWaiter'
  BY <1>16 DEF FailDone, caller, NoLostWaiter, InFlight
<1>17. CASE ReaderRead
  BY <1>17 DEF ReaderRead, shared, caller, NoLostWaiter, InFlight
<1>18. CASE ReaderReadFails
  BY <1>18 DEF ReaderReadFails, shared, caller, NoLostWaiter, InFlight
<1>19. CASE ReaderPong
  BY <1>19 DEF ReaderPong, shared, caller, NoLostWaiter, InFlight
<1>20. CASE ReaderEcho
  BY <1>20 DEF ReaderEcho, shared, caller, NoLostWaiter, InFlight
<1>21. CASE ReaderTake
  <2>1. /\ pending' = Delete(pending, rmsg.id) /\ rmsg \in Messages
        /\ step[Reader] = "take"
        /\ UNCHANGED <<pc, id, buf, chClosed, drain>>
    BY <1>21 DEF ReaderTake, caller, OwnerInv
  <2>2. ASSUME NEW d \in Calls, id[d] \in DOMAIN pending, pending[id[d]] = d,
               id[d] # rmsg.id
        PROVE  id[d] \in DOMAIN pending' /\ pending'[id[d]] = d
    <3>1. rmsg.id \in Nat
      BY <2>1 DEF Messages
    <3> QED BY <2>1, <2>2, <3>1 DEF Delete
  <2>3. ASSUME NEW d \in Calls, id[d] \in DOMAIN pending, pending[id[d]] = d,
               id[d] = rmsg.id
        PROVE  step'[Reader] = "send" /\ rch' = d
    BY <1>21, <2>3 DEF ReaderTake, Failers, TypeOK
  <2> QED
    BY <2>1, <2>2, <2>3 DEF NoLostWaiter, InFlight
<1>22. CASE ReaderSend
  <2>1. /\ rch \in Calls /\ rmsg # None
        /\ buf' = [buf EXCEPT ![rch] = rmsg]
        /\ UNCHANGED <<pending, pc, id, chClosed, drain>>
    BY <1>22 DEF ReaderSend, shared, OwnerInv
  <2>2. buf'[rch] # None /\ \A d \in Calls : buf[d] # None => buf'[d] # None
    BY <2>1 DEF TypeOK
  <2> QED
    BY <2>1, <2>2 DEF NoLostWaiter, InFlight
<1>23. CASE DaemonAnswers
  BY <1>23 DEF DaemonAnswers, shared, caller, thread, NoLostWaiter, InFlight
<1>24. CASE DaemonTalks
  BY <1>24 DEF DaemonTalks, shared, caller, thread, NoLostWaiter, InFlight
<1>25. CASE DaemonGone
  BY <1>25 DEF DaemonGone, shared, caller, thread, NoLostWaiter, InFlight
<1>26. CASE DaemonStalls
  BY <1>26 DEF DaemonStalls, shared, caller, thread, NoLostWaiter, InFlight
<1>27. CASE UNCHANGED vars
  BY <1>27 DEF vars, shared, caller, thread, NoLostWaiter, InFlight
<1> QED
  BY <1>1, <1>2, <1>3, <1>4, <1>5, <1>6, <1>7, <1>8, <1>9, <1>10, <1>11,
     <1>12, <1>13, <1>14, <1>15, <1>16, <1>17, <1>18, <1>19, <1>20, <1>21,
     <1>22, <1>23, <1>24, <1>25, <1>26, <1>27 DEF Next, CallStep, FailStep,
         ReaderStep, CloseStep, DaemonStep

\* A channel changes hands, and is never in two.
LEMMA OwnerStep ==
    ASSUME TypeOK, IdInv, OwnerInv, [Next]_vars
    PROVE  OwnerInv'
<1> USE ReaderApart, NoneApart
<1>1. ASSUME NEW c \in Calls, CallBegin(c) PROVE OwnerInv'
  BY <1>1 DEF CallBegin, thread, OwnerInv, InFlight, Fresh, Known
<1>2. ASSUME NEW c \in Calls, CallRegister(c) PROVE OwnerInv'
  <2>1. CASE UNCHANGED pending /\ pc' = [pc EXCEPT ![c] = "returned"]
    <3>1. /\ pc[c] = "register"
          /\ UNCHANGED <<id, buf, chClosed, step, rch, rmsg, drain, closed,
                         doneClosed>>
      BY <1>2 DEF CallRegister, thread
    <3> QED
      BY <2>1, <3>1 DEF OwnerInv, InFlight, Fresh, Known, TypeOK
  <2>2. CASE /\ ~closed /\ pending' = Insert(pending, id[c], c)
             /\ pc' = [pc EXCEPT ![c] = "lock"]
    <3>1. /\ pending' = Insert(pending, id[c], c) /\ pc[c] = "register"
          /\ pc' = [pc EXCEPT ![c] = "lock"]
          /\ UNCHANGED <<id, buf, chClosed, step, rch, rmsg, drain, closed,
                         doneClosed>>
      BY <1>2, <2>2 DEF CallRegister, thread
    <3>2. id[c] # 0 /\ Fresh(c) /\ ~Known(c)
      BY <3>1 DEF IdInv, OwnerInv, Known
    <3>3. /\ DOMAIN pending' = DOMAIN pending \cup {id[c]}
          /\ \A i \in DOMAIN pending' :
                 pending'[i] = IF i = id[c] THEN c ELSE pending[i]
      BY <3>1 DEF Insert
    <3>4. /\ \A d \in Calls : Known(d) => id[d] # id[c] /\ Known(d)'
          /\ \A d \in Calls : InFlight(d) => InFlight(d)'
          /\ \A d \in Calls : Fresh(d)' <=> Fresh(d)
          /\ InFlight(c)'
      BY <3>1, <3>2 DEF IdInv, Known, InFlight, Fresh, TypeOK
    <3>5. \A i \in DOMAIN pending' :
             (InFlight(pending[i]) /\ id[pending[i]] = i /\ Fresh(pending[i]))'
      BY <3>1, <3>2, <3>3, <3>4 DEF OwnerInv, TypeOK
    <3>6. \A f \in Failers : step[f] # "drain"
      BY <2>2 DEF OwnerInv
    <3>7. step[Reader] = "send" =>
              /\ rch \in Calls /\ Known(rch)' /\ Fresh(rch)'
              /\ id[rch] \notin DOMAIN pending'
      BY <3>1, <3>3, <3>4 DEF OwnerInv
    <3>8. \A d \in Calls : ~Known(d)' => Fresh(d)'
      BY <3>4 DEF OwnerInv
    <3> QED
      BY <2>2, <3>1, <3>5, <3>6, <3>7, <3>8 DEF OwnerInv
  <2> QED BY <1>2, <2>1, <2>2 DEF CallRegister, Refused, Return
<1>3. ASSUME NEW c \in Calls, CallLock(c) PROVE OwnerInv'
  BY <1>3 DEF CallLock, thread, OwnerInv, InFlight, Fresh, Known
<1>4. ASSUME NEW c \in Calls, CallWrite(c) PROVE OwnerInv'
  <2>1. /\ pc[c] = "write"
        /\ pc' \in {[pc EXCEPT ![c] = "select"], [pc EXCEPT ![c] = "unsent"]}
        /\ UNCHANGED <<pending, id, buf, chClosed, step, rch, rmsg, drain,
                       closed, doneClosed>>
    BY <1>4 DEF CallWrite, thread
  <2>2. \A d \in Calls : /\ Known(d)' <=> Known(d)
                         /\ InFlight(d)' <=> InFlight(d)
                         /\ Fresh(d)' <=> Fresh(d)
    BY <2>1 DEF Known, InFlight, Fresh, TypeOK
  <2> QED
    BY <2>1, <2>2 DEF OwnerInv, TypeOK
<1>5. ASSUME NEW c \in Calls, CallUnsent(c) PROVE OwnerInv'
  BY <1>5 DEF CallUnsent, Return, Delete, thread, OwnerInv, InFlight, Fresh,
         Known
<1>6. ASSUME NEW c \in Calls, CallCancelled(c) PROVE OwnerInv'
  BY <1>6 DEF CallCancelled, shared, thread, OwnerInv, InFlight, Fresh, Known
<1>7. ASSUME NEW c \in Calls, CallCancel(c) PROVE OwnerInv'
  BY <1>7 DEF CallCancel, Return, Delete, thread, OwnerInv, InFlight, Fresh,
         Known
<1>8. ASSUME NEW c \in Calls, CallReceive(c) PROVE OwnerInv'
  BY <1>8 DEF CallReceive, Return, shared, thread, OwnerInv, InFlight, Fresh,
         Known
<1>9. ASSUME NEW c \in Calls, CallWoken(c) PROVE OwnerInv'
  BY <1>9 DEF CallWoken, Return, shared, thread, OwnerInv, InFlight, Fresh,
         Known
<1>10. ASSUME NEW c \in Calls, CtxEnds(c) PROVE OwnerInv'
  BY <1>10 DEF CtxEnds, shared, thread, OwnerInv, InFlight, Fresh, Known
<1>11. ASSUME NEW k \in Closers, CloseBegin(k) PROVE OwnerInv'
  BY <1>11 DEF CloseBegin, shared, caller, OwnerInv, InFlight, Fresh, Known
<1>12. ASSUME NEW k \in Closers, CloseFrame(k) PROVE OwnerInv'
  BY <1>12 DEF CloseFrame, shared, caller, OwnerInv, InFlight, Fresh, Known
<1>13. ASSUME NEW k \in Closers, CloseConn(k) PROVE OwnerInv'
  BY <1>13 DEF CloseConn, shared, caller, OwnerInv, InFlight, Fresh, Known
<1>14. ASSUME NEW f \in Failers, FailEnter(f) PROVE OwnerInv'
  <2>1. CASE closed
    <3>1. /\ step[f] = "enter" /\ step' = [step EXCEPT ![f] = "finished"]
          /\ UNCHANGED <<pending, pc, id, buf, chClosed, rch, rmsg, drain,
                         closed, doneClosed>>
      BY <1>14, <2>1 DEF FailEnter, FirstToFail, caller
    <3> QED
      BY <3>1 DEF OwnerInv, InFlight, Fresh, Known, Failers, TypeOK
  <2>2. CASE ~closed
    <3>1. /\ drain' = [drain EXCEPT ![f] = Channels(pending)]
          /\ step[f] = "enter" /\ step' = [step EXCEPT ![f] = "drain"]
          /\ DOMAIN pending' = {} /\ closed'
          /\ UNCHANGED <<pc, id, buf, chClosed, rch, rmsg, doneClosed>>
      BY <1>14, <2>2 DEF FailEnter, FirstToFail, caller
    <3>2. \A g \in Failers : step[g] # "drain" /\ drain[g] = {}
      BY <2>2 DEF OwnerInv, TypeOK
    <3>3. ~doneClosed
      BY <2>2 DEF OwnerInv
    <3>4. \A c \in Calls : /\ Known(c)' <=> Known(c)
                           /\ Fresh(c)' <=> Fresh(c)
      BY <3>1 DEF Known, Fresh
    <3>5. \A c \in Channels(pending) :
            /\ c \in Calls /\ Known(c) /\ Fresh(c)
            /\ id[c] \in DOMAIN pending
      <4> SUFFICES ASSUME NEW i \in DOMAIN pending
                   PROVE  /\ pending[i] \in Calls /\ Known(pending[i])
                          /\ Fresh(pending[i]) /\ id[pending[i]] = i
        BY DEF Channels
      <4> QED BY DEF OwnerInv, Known, InFlight, TypeOK
    <3>6. \A g \in Failers : g # f => step'[g] = step[g] /\ drain'[g] = {}
      BY <3>1, <3>2 DEF TypeOK
    <3>7. step'[f] = "drain" /\ drain'[f] = Channels(pending)
      BY <3>1 DEF TypeOK
    <3>8. step'[Reader] = "send" =>
            /\ step[Reader] = "send" /\ Reader # f
            /\ \A g \in Failers : rch \notin drain'[g]
      BY <3>5, <3>6, <3>7 DEF OwnerInv, Failers
    <3>9. step'[Reader] = "take" => step[Reader] = "take"
      BY <3>6, <3>7 DEF Failers
    <3> QED
      BY <3>1, <3>2, <3>3, <3>4, <3>5, <3>6, <3>7, <3>8, <3>9 DEF OwnerInv
  <2> QED BY <2>1, <2>2
<1>15. ASSUME NEW f \in Failers, FailCloseChan(f) PROVE OwnerInv'
  BY <1>15 DEF FailCloseChan, shared, TypeOK, OwnerInv, Fresh, Known
<1>16. ASSUME NEW f \in Failers, FailDone(f) PROVE OwnerInv'
  BY <1>16 DEF FailDone, caller, TypeOK, OwnerInv, Fresh, Known
<1>17. CASE ReaderRead
  <2> DEFINE m == Head(inbox)
  <2>0. m \in Messages
    BY <1>17 DEF ReaderRead, TypeOK
  <2>1. m.kind \in {"result", "error", "other", "ping", "close", "bad"}
    BY <2>0 DEF Messages, Kinds
  <2>2. /\ \A f \in Failers : f # Reader => step'[f] = step[f]
        /\ step'[Reader] # "send" /\ step'[Reader] # "drain"
        /\ step'[Reader] = "take" => IsResponse(m)
        /\ step[Reader] = "read"
    BY <1>17, <2>1 DEF ReaderRead, IsResponse, Failers, TypeOK
  <2>3. rmsg' = IF IsResponse(m) THEN m ELSE None
    BY <1>17 DEF ReaderRead
  <2>4. UNCHANGED <<pending, closed, doneClosed, pc, id, buf, chClosed, rch,
                    drain>>
    BY <1>17 DEF ReaderRead, shared, caller
  <2> QED
    BY <2>0, <2>2, <2>3, <2>4 DEF OwnerInv, InFlight, Fresh, Known
<1>18. CASE ReaderReadFails
  BY <1>18 DEF ReaderReadFails, shared, caller, OwnerInv, InFlight, Fresh,
         Known
<1>19. CASE ReaderPong
  BY <1>19 DEF ReaderPong, shared, caller, TypeOK, OwnerInv, InFlight, Fresh,
         Known, Failers
<1>20. CASE ReaderEcho
  BY <1>20 DEF ReaderEcho, shared, caller, OwnerInv, InFlight, Fresh, Known
<1>21. CASE ReaderTake
  <2>1. /\ step[Reader] = "take" /\ rmsg \in Messages /\ IsResponse(rmsg)
        /\ pending' = Delete(pending, rmsg.id)
        /\ UNCHANGED <<pc, id, buf, chClosed, drain, closed, doneClosed>>
    BY <1>21 DEF ReaderTake, caller, OwnerInv
  <2>2. /\ DOMAIN pending' = DOMAIN pending \ {rmsg.id}
        /\ \A i \in DOMAIN pending' : pending'[i] = pending[i]
    BY <2>1 DEF Delete
  <2>3. \A f \in Failers : f # Reader => step'[f] = step[f]
    BY <1>21 DEF ReaderTake, TypeOK
  <2>4. CASE rmsg.id \in DOMAIN pending
    <3>1. /\ step'[Reader] = "send" /\ rch' = pending[rmsg.id] /\ rmsg' = rmsg
      BY <1>21, <2>4 DEF ReaderTake, Failers, TypeOK
    <3>2. /\ rch' \in Calls /\ Known(rch') /\ Fresh(rch') /\ id[rch'] = rmsg.id
          /\ \A f \in Failers : rch' \notin drain[f]
      BY <2>4, <3>1 DEF OwnerInv, Known, InFlight, TypeOK
    <3> QED
      BY <2>1, <2>2, <2>3, <3>1, <3>2 DEF OwnerInv, InFlight, Fresh, Known
  <2>5. CASE rmsg.id \notin DOMAIN pending
    <3>1. step'[Reader] = "read" /\ rch' = rch
      BY <1>21, <2>5 DEF ReaderTake, Failers, TypeOK
    <3> QED
      BY <2>1, <2>2, <2>3, <3>1 DEF OwnerInv, InFlight, Fresh, Known
  <2> QED BY <2>4, <2>5
<1>22. CASE ReaderSend
  BY <1>22 DEF ReaderSend, shared, TypeOK, OwnerInv, InFlight, Fresh, Known,
         Failers
<1>23. CASE DaemonAnswers
  BY <1>23 DEF DaemonAnswers, shared, caller, thread, OwnerInv, InFlight,
         Fresh, Known
<1>24. CASE DaemonTalks
  BY <1>24 DEF DaemonTalks, shared, caller, thread, OwnerInv, InFlight,
         Fresh, Known
<1>25. CASE DaemonGone
  BY <1>25 DEF DaemonGone, shared, caller, thread, OwnerInv, InFlight, Fresh,
         Known
<1>26. CASE DaemonStalls
  BY <1>26 DEF DaemonStalls, shared, caller, thread, OwnerInv, InFlight,
         Fresh, Known
<1>27. CASE UNCHANGED vars
  BY <1>27 DEF vars, shared, caller, thread, OwnerInv, InFlight, Fresh, Known
<1> QED
  BY <1>1, <1>2, <1>3, <1>4, <1>5, <1>6, <1>7, <1>8, <1>9, <1>10, <1>11,
     <1>12, <1>13, <1>14, <1>15, <1>16, <1>17, <1>18, <1>19, <1>20, <1>21,
     <1>22, <1>23, <1>24, <1>25, <1>26, <1>27 DEF Next, CallStep, FailStep,
         ReaderStep, CloseStep, DaemonStep

\* The invariant holds at the start.
LEMMA InitIInv == Init => IInv
  <1> SUFFICES ASSUME Init PROVE IInv
    OBVIOUS
  <1> USE ReaderApart, NoneApart DEF Init
  <1>1. TypeOK
    <2>1. inbox \in Seq(Messages) OBVIOUS
    <2>2. /\ DOMAIN pending \subseteq Nat
          /\ pending \in [DOMAIN pending -> Calls]
      OBVIOUS
    <2> QED BY <2>1, <2>2 DEF TypeOK, CallPlaces, ThreadPlaces, Failers
  <1>2. IdInv
    BY DEF IdInv
  <1>3. OwnerInv
    BY DEF OwnerInv, Fresh, Known, Failers
  <1>4. MsgInv
    BY DEF MsgInv, OwnAnswer
  <1>5. NoLostWaiter
    BY DEF NoLostWaiter, InFlight
  <1> QED BY <1>1, <1>2, <1>3, <1>4, <1>5 DEF IInv

\* The inductive invariant holds in every reachable state.
THEOREM Invariance == Spec => []IInv
  <1>1. IInv /\ [Next]_vars => IInv'
    BY TypeStep, IdStep, OwnerStep, MsgStep, WaitStep DEF IInv
  <1> QED BY InitIInv, <1>1, PTL DEF Spec

\* Types: every variable keeps to the values the code can give it.
THEOREM TypeCorrect == Spec => []TypeOK
  <1>1. IInv => TypeOK BY DEF IInv
  <1> QED BY Invariance, <1>1, PTL

\* No interleaving of readLoop, fail and any number of Close calls sends on a
\* closed channel, closes one twice, or closes done twice.
THEOREM PanicFree == Spec => []NoChannelPanic
  <1>1. IInv => NoChannelPanic
    BY DEF IInv, OwnerInv, Fresh, NoChannelPanic
  <1> QED BY Invariance, <1>1, PTL

\* readLoop always finds room in the channel it sends on.
THEOREM NeverBlocks == Spec => []ReaderNeverBlocks
  <1>1. IInv => ReaderNeverBlocks
    BY DEF IInv, OwnerInv, Fresh, ReaderNeverBlocks
  <1> QED BY Invariance, <1>1, PTL

\* However many calls overlap, a Call returns the response to its own request.
THEOREM AnswersAreOwn == Spec => []OwnAnswer
  <1>1. IInv => OwnAnswer
    BY DEF IInv, MsgInv
  <1> QED BY Invariance, <1>1, PTL

\* A call in flight is in the table or in the hands of a goroutine that will
\* wake it.
THEOREM NoWaiterLost == Spec => []NoLostWaiter
  <1>1. IInv => NoLostWaiter
    BY DEF IInv
  <1> QED BY Invariance, <1>1, PTL

\* The table never keeps a call that has returned, nor anything once closed.
THEOREM NothingLeaks == Spec => []NoPendingLeak
  <1>1. IInv => NoPendingLeak
    BY DEF IInv, OwnerInv, NoPendingLeak
  <1> QED BY Invariance, <1>1, PTL

\* closed and err are settled by the same step and never change again.
THEOREM ClosedSettles == Spec => ClosedIsFinal
  <1>1. ASSUME [Next]_vars PROVE [closed => closed' /\ err' = err]_vars
    BY <1>1 DEF Next, CallStep, FailStep, ReaderStep, CloseStep, DaemonStep,
       CallBegin, CallRegister, CallLock, CallWrite, CallUnsent, CallCancelled,
       CallCancel, CallReceive, CallWoken, CtxEnds, CloseBegin, CloseFrame,
       CloseConn, FailEnter, FirstToFail, FailCloseChan, FailDone, ReaderRead,
       ReaderReadFails, ReaderPong, ReaderEcho, ReaderTake, ReaderSend,
       DaemonAnswers, DaemonTalks, DaemonGone, DaemonStalls, vars, shared
  <1> QED BY <1>1, PTL DEF Spec, ClosedIsFinal

-----------------------------------------------------------------------------
(***************************************************************************)
(* The client implements RpcClient                                         *)
(***************************************************************************)

\* What has been asked: nobody answers a request, and no call gets a response,
\* before the request has been written; a failed write has asked for nothing.
AskInv ==
    /\ \A c \in Calls :
         pc[c] \in {"start", "register", "lock", "write", "unsent"} =>
           c \notin askedBar
    /\ \A k \in 1..Len(inbox) :
         IsResponse(inbox[k]) => inbox[k].body \in askedBar
    /\ rmsg # None => rmsg.body \in askedBar
    /\ \A c \in Calls : buf[c] # None => c \in askedBar

\* Why a call ends: its context, a closed client, or a response of its own.
EndInv ==
    \A c \in Calls :
       /\ pc[c] = "cancel" => ctxDone[c]
       /\ chClosed[c] => closed
       /\ ret[c] \in {"result", "error"} =>
            pc[c] = "returned" /\ answer[c] = c /\ c \in askedBar

\* Only a write adds to what has been asked.
LEMMA AskedGrows ==
    ASSUME TypeOK, [Next]_vars
    PROVE  \/ askedBar' = askedBar
           \/ \E c \in Calls :
                pc[c] = "write" /\ pc' = [pc EXCEPT ![c] = "select"]
                /\ askedBar' = askedBar \cup {c}
<1>1. CASE UNCHANGED received
  BY <1>1 DEF askedBar
<1>2. ASSUME NEW c \in Calls, CallWrite(c), received' # received
      PROVE  /\ pc[c] = "write" /\ pc' = [pc EXCEPT ![c] = "select"]
             /\ askedBar' = askedBar \cup {c}
  <2>1. /\ received' = received \cup {<<id[c], c>>} /\ pc[c] = "write"
        /\ pc' = [pc EXCEPT ![c] = "select"]
    BY <1>2 DEF CallWrite
  <2>2. <<id[c], c>>[2] = c
    OBVIOUS
  <2> QED
    BY <2>1, <2>2 DEF askedBar
<1> QED
  BY <1>1, <1>2 DEF Next, CallStep, FailStep, ReaderStep, CloseStep,
     DaemonStep, CallBegin, CallRegister, CallLock, CallUnsent, CallCancelled,
     CallCancel, CallReceive, CallWoken, CtxEnds, CloseBegin, CloseFrame,
     CloseConn, FailEnter, FailCloseChan, FailDone, ReaderRead,
     ReaderReadFails, ReaderPong, ReaderEcho, ReaderTake, ReaderSend,
     DaemonAnswers, DaemonTalks, DaemonGone, DaemonStalls, vars, daemon

\* Every step keeps AskInv.
LEMMA AskStep ==
    ASSUME IInv, IInv', AskInv, [Next]_vars
    PROVE  AskInv'
<1> USE ReaderApart, NoneApart
<1>0. /\ TypeOK /\ TypeOK' /\ MsgInv /\ MsgInv' /\ askedBar \subseteq askedBar'
      /\ \A c \in Calls : c \in askedBar' => c \in askedBar \/ pc[c] = "write"
  BY AskedGrows DEF IInv
<1>1. /\ \A c \in Calls :
           pc'[c] \in {"start", "register", "lock", "write", "unsent"} =>
             c \notin askedBar'
  <2>1. CASE askedBar' = askedBar
    <3>1. ASSUME NEW c \in Calls,
                 pc'[c] \in {"start", "register", "lock", "write", "unsent"}
          PROVE  pc[c] \in {"start", "register", "lock", "write", "unsent"}
      BY <1>0, <3>1, SMTT(30) DEF Next, CallStep, FailStep, ReaderStep, CloseStep,
         DaemonStep, CallBegin, CallRegister, CallLock, CallWrite, CallUnsent,
         CallCancelled, CallCancel, CallReceive, CallWoken, Return, CtxEnds,
         CloseBegin, CloseFrame, CloseConn, FailEnter, FailCloseChan, FailDone,
         ReaderRead, ReaderReadFails, ReaderPong, ReaderEcho, ReaderTake,
         ReaderSend, DaemonAnswers, DaemonTalks, DaemonGone, DaemonStalls,
         vars, caller, TypeOK
    <3> QED
      BY <2>1, <3>1 DEF AskInv
  <2>2. CASE \E c \in Calls :
               pc[c] = "write" /\ pc' = [pc EXCEPT ![c] = "select"]
               /\ askedBar' = askedBar \cup {c}
    BY <1>0, <2>2 DEF AskInv, TypeOK
  <2> QED BY <1>0, <2>1, <2>2, AskedGrows
<1>2. \A k \in 1..Len(inbox') :
        IsResponse(inbox'[k]) => inbox'[k].body \in askedBar'
  <2>1. CASE UNCHANGED inbox
    BY <1>0, <2>1 DEF AskInv
  <2>2. CASE ReaderRead
    <3>1. \A k \in 1..Len(inbox') :
            k + 1 \in 1..Len(inbox) /\ inbox'[k] = inbox[k + 1]
      BY <1>0, <2>2 DEF ReaderRead, TypeOK
    <3> QED
      BY <1>0, <3>1 DEF AskInv
  <2>3. ASSUME NEW m \in Messages, inbox' = Append(inbox, m),
               IsResponse(m) => m.body \in askedBar
        PROVE  \A k \in 1..Len(inbox') :
                 IsResponse(inbox'[k]) => inbox'[k].body \in askedBar'
    <3>0. inbox \in Seq(Messages)
      BY <1>0 DEF TypeOK
    <3>1. \A k \in 1..Len(inbox') :
            inbox'[k] = m \/ (k \in 1..Len(inbox) /\ inbox'[k] = inbox[k])
      BY <2>3, <3>0
    <3> QED
      BY <1>0, <2>3, <3>1 DEF AskInv
  <2>4. CASE DaemonAnswers
    <3>1. PICK r \in received, k \in {"result", "error"} :
            inbox' = Append(inbox, [kind |-> k, id |-> r[1], body |-> r[2]])
      BY <2>4 DEF DaemonAnswers
    <3>2. r[2] \in askedBar /\ r[1] \in Nat /\ r[2] \in Calls
      BY <1>0, <3>1, SMTT(30) DEF askedBar, TypeOK
    <3>3. [kind |-> k, id |-> r[1], body |-> r[2]] \in Messages
      BY <3>2 DEF Messages, Kinds
    <3> QED
      BY <2>3, <3>1, <3>2, <3>3
  <2>5. CASE DaemonTalks
    <3>1. PICK k \in Chatter :
            inbox' = Append(inbox, [kind |-> k, id |-> 0, body |-> None])
      BY <2>5 DEF DaemonTalks
    <3>2. ~IsResponse([kind |-> k, id |-> 0, body |-> None])
      BY ChatterKinds DEF IsResponse
    <3>3. [kind |-> k, id |-> 0, body |-> None] \in Messages
      BY ChatterKinds DEF Messages, Kinds
    <3> QED
      BY <2>3, <3>1, <3>2, <3>3
  <2> QED
    BY <2>1, <2>2, <2>4, <2>5 DEF Next, CallStep, FailStep, ReaderStep,
       CloseStep, DaemonStep, CallBegin, CallRegister, CallLock, CallWrite,
       CallUnsent, CallCancelled, CallCancel, CallReceive, CallWoken, CtxEnds,
       CloseBegin, CloseFrame, CloseConn, FailEnter, FailCloseChan, FailDone,
       ReaderReadFails, ReaderPong, ReaderEcho, ReaderTake, ReaderSend,
       DaemonGone, DaemonStalls, vars, daemon
<1>3. rmsg' # None => rmsg'.body \in askedBar'
  <2>1. CASE rmsg' \in {rmsg, None}
    BY <1>0, <2>1 DEF AskInv
  <2>2. CASE ReaderRead
    <3>1. /\ 1 \in 1..Len(inbox) /\ Head(inbox) = inbox[1]
          /\ rmsg' = IF IsResponse(Head(inbox)) THEN Head(inbox) ELSE None
      BY <1>0, <2>2 DEF ReaderRead, TypeOK
    <3> QED
      BY <1>0, <3>1 DEF AskInv
  <2> QED
    BY <2>1, <2>2 DEF Next, CallStep, FailStep, ReaderStep,
       CloseStep, DaemonStep, CallBegin, CallRegister, CallLock, CallWrite,
       CallUnsent, CallCancelled, CallCancel, CallReceive, CallWoken, CtxEnds,
       CloseBegin, CloseFrame, CloseConn, FailEnter, FailCloseChan, FailDone,
       ReaderReadFails, ReaderPong, ReaderEcho, ReaderTake, ReaderSend,
       DaemonAnswers, DaemonTalks, DaemonGone, DaemonStalls, vars, thread
<1>4. \A c \in Calls : buf'[c] # None => c \in askedBar'
  <2>1. CASE UNCHANGED buf
    BY <1>0, <2>1 DEF AskInv
  <2>2. ASSUME NEW c \in Calls, CallReceive(c)
        PROVE  \A d \in Calls : buf'[d] # None => d \in askedBar'
    BY <1>0, <2>2 DEF CallReceive, AskInv, TypeOK
  <2>3. CASE ReaderSend
    <3>1. /\ rch \in Calls /\ rmsg # None /\ buf' = [buf EXCEPT ![rch] = rmsg]
      BY <2>3 DEF ReaderSend, IInv, OwnerInv
    <3>2. buf'[rch] = rmsg /\ \A d \in Calls : d # rch => buf'[d] = buf[d]
      BY <1>0, <3>1 DEF TypeOK
    <3>3. rmsg.body = rch
      BY <1>0, <3>1, <3>2 DEF MsgInv
    <3> QED
      BY <1>0, <3>1, <3>2, <3>3 DEF AskInv
  <2> QED
    BY <2>1, <2>2, <2>3 DEF Next, CallStep, FailStep, ReaderStep,
       CloseStep, DaemonStep, CallBegin, CallRegister, CallLock, CallWrite,
       CallUnsent, CallCancelled, CallCancel, CallWoken, CtxEnds,
       CloseBegin, CloseFrame, CloseConn, FailEnter, FailCloseChan, FailDone,
       ReaderRead, ReaderReadFails, ReaderPong, ReaderEcho, ReaderTake,
       DaemonAnswers, DaemonTalks, DaemonGone, DaemonStalls, vars, caller
<1> QED
  BY <1>1, <1>2, <1>3, <1>4 DEF AskInv

\* Every step keeps EndInv.
LEMMA EndStep ==
    ASSUME IInv, IInv', AskInv, EndInv, [Next]_vars
    PROVE  EndInv'
<1> USE ReaderApart, NoneApart
<1>0. /\ TypeOK /\ MsgInv /\ OwnerInv /\ askedBar \subseteq askedBar'
      /\ closed => closed'
  <2>1. closed => closed'
    BY DEF Next, CallStep, FailStep, ReaderStep, CloseStep, DaemonStep,
       CallBegin, CallRegister, CallLock, CallWrite, CallUnsent, CallCancelled,
       CallCancel, CallReceive, CallWoken, CtxEnds, CloseBegin, CloseFrame,
       CloseConn, FailEnter, FirstToFail, FailCloseChan, FailDone, ReaderRead,
       ReaderReadFails, ReaderPong, ReaderEcho, ReaderTake, ReaderSend,
       DaemonAnswers, DaemonTalks, DaemonGone, DaemonStalls, vars, shared
  <2> QED
    BY <2>1, AskedGrows DEF IInv
<1>1. CASE UNCHANGED <<pc, ctxDone, chClosed, ret, answer>>
  BY <1>0, <1>1 DEF EndInv
<1>2. ASSUME NEW c \in Calls, CallBegin(c) \/ CallRegister(c) \/ CallLock(c)
                              \/ CallWrite(c)
      PROVE  EndInv'
  BY <1>0, <1>2 DEF CallBegin, CallRegister, CallLock, CallWrite, Return,
     EndInv, TypeOK
<1>3. ASSUME NEW c \in Calls, CallUnsent(c) \/ CallCancel(c) \/ CallWoken(c)
      PROVE  EndInv'
  <2>1. /\ pc[c] # "returned" /\ pc' = [pc EXCEPT ![c] = "returned"]
        /\ \E r \in {"unsent", "ctx", "closed"} : ret' = [ret EXCEPT ![c] = r]
        /\ UNCHANGED <<ctxDone, chClosed, answer>>
    BY <1>3 DEF CallUnsent, CallCancel, CallWoken, Return
  <2> QED
    BY <1>0, <2>1 DEF EndInv, TypeOK
<1>4. ASSUME NEW c \in Calls, CallCancelled(c) \/ CtxEnds(c)
      PROVE  EndInv'
  <2>1. CASE CallCancelled(c)
    <3>1. /\ UNCHANGED <<ctxDone, chClosed, ret, answer>> /\ ctxDone[c]
          /\ pc[c] = "select" /\ pc' = [pc EXCEPT ![c] = "cancel"]
      BY <2>1 DEF CallCancelled
    <3> QED
      BY <1>0, <3>1 DEF EndInv, TypeOK
  <2>2. CASE CtxEnds(c)
    BY <1>0, <2>2 DEF CtxEnds, EndInv, TypeOK
  <2> QED BY <1>4, <2>1, <2>2
<1>5. ASSUME NEW c \in Calls, CallReceive(c) PROVE EndInv'
  <2>1. buf[c] # None /\ c \in askedBar /\ buf[c].body = c
    BY <1>0, <1>5 DEF CallReceive, AskInv, MsgInv
  <2> QED
    BY <1>0, <1>5, <2>1 DEF CallReceive, Return, EndInv, TypeOK
<1>6. ASSUME NEW f \in Failers, FailCloseChan(f) PROVE EndInv'
  BY <1>0, <1>6 DEF FailCloseChan, OwnerInv, EndInv, TypeOK
<1> QED
  BY <1>1, <1>2, <1>3, <1>4, <1>5, <1>6 DEF Next, CallStep, FailStep,
     ReaderStep, CloseStep, DaemonStep, CloseBegin, CloseFrame, CloseConn,
     FailEnter, FailDone, ReaderRead, ReaderReadFails, ReaderPong, ReaderEcho,
     ReaderTake, ReaderSend, DaemonAnswers, DaemonTalks, DaemonGone,
     DaemonStalls, vars, caller

\* The invariants the refinement rests on hold in every reachable state.
LEMMA AskEnds == Spec => [](IInv /\ AskInv /\ EndInv)
  <1>1. Init => AskInv /\ EndInv
    BY DEF Init, AskInv, EndInv, askedBar
  <1>2. IInv /\ AskInv /\ EndInv /\ IInv' /\ [Next]_vars => AskInv' /\ EndInv'
    BY AskStep, EndStep
  <1> QED
    BY <1>1, <1>2, Invariance, PTL DEF Spec

\* Every step is a step of RpcClient or leaves its variables alone.
LEMMA RpcStep ==
    ASSUME IInv, AskInv, EndInv, [Next]_vars
    PROVE  [Rpc!RpcNext]_(Rpc!rpcVars)
<1> USE ReaderApart, NoneApart
<1>0. TypeOK /\ MsgInv
  BY DEF IInv
<1>1. CASE UNCHANGED <<pc, ret, received, ctxDone, closed>>
  BY <1>1 DEF Rpc!rpcVars, phaseBar, askedBar, expiredBar
<1>2. ASSUME NEW c \in Calls, CallBegin(c) PROVE Rpc!Begin(c)
  <2>1. /\ pc[c] = "start" /\ pc' = [pc EXCEPT ![c] = "register"]
        /\ UNCHANGED <<ret, received, ctxDone, closed>>
    BY <1>2 DEF CallBegin, daemon
  <2>2. phaseBar[c] = "idle" /\ phaseBar' = [phaseBar EXCEPT ![c] = "active"]
    BY <1>0, <2>1 DEF phaseBar, TypeOK
  <2> QED
    BY <2>1, <2>2 DEF Rpc!Begin, askedBar, expiredBar
<1>3. ASSUME NEW c \in Calls, pc[c] \notin {"start", "returned"},
             NEW p \in {"lock", "write", "select", "unsent", "cancel"},
             pc' = [pc EXCEPT ![c] = p]
      PROVE  phaseBar' = phaseBar /\ phaseBar[c] = "active"
  BY <1>0, <1>3 DEF phaseBar, TypeOK
<1>4. ASSUME NEW c \in Calls, CallWrite(c)
      PROVE  Rpc!Ask(c) \/ UNCHANGED Rpc!rpcVars
  <2>1. /\ pc[c] = "write" /\ UNCHANGED <<ret, ctxDone, closed>>
        /\ pc' \in {[pc EXCEPT ![c] = "select"], [pc EXCEPT ![c] = "unsent"]}
    BY <1>4 DEF CallWrite
  <2>2. phaseBar' = phaseBar /\ phaseBar[c] = "active"
    BY <1>3, <2>1
  <2>3. CASE received' = received
    BY <2>1, <2>2, <2>3 DEF Rpc!rpcVars, askedBar, expiredBar
  <2>4. CASE received' = received \cup {<<id[c], c>>}
    <3>1. askedBar' = askedBar \cup {c}
      <4>1. <<id[c], c>>[2] = c
        OBVIOUS
      <4> QED BY <2>4, <4>1 DEF askedBar
    <3>2. c \notin askedBar
      BY <2>1 DEF AskInv
    <3> QED
      BY <2>1, <2>2, <3>1, <3>2 DEF Rpc!Ask, expiredBar
  <2> QED BY <1>4, <2>3, <2>4 DEF CallWrite
<1>5. ASSUME NEW c \in Calls, CtxEnds(c) PROVE Rpc!Expire(c)
  <2>1. /\ ctxDone' = [ctxDone EXCEPT ![c] = TRUE]
        /\ UNCHANGED <<pc, ret, received, closed>>
    BY <1>5 DEF CtxEnds, shared, daemon
  <2>2. expiredBar' = expiredBar \cup {c}
    BY <1>0, <2>1 DEF expiredBar, TypeOK
  <2> QED
    BY <2>1, <2>2 DEF Rpc!Expire, phaseBar, askedBar
<1>6. ASSUME NEW c \in Calls, pc[c] \notin {"start", "returned"},
             NEW r \in {"result", "error", "unsent", "ctx", "closed"},
             Rpc!MayEnd(c, r), Return(c, r),
             UNCHANGED <<received, ctxDone, closed>>
      PROVE  Rpc!End(c)
  <2>1. phaseBar[c] = "active" /\ phaseBar' = [phaseBar EXCEPT ![c] = "done"]
    BY <1>0, <1>6 DEF Return, phaseBar, TypeOK
  <2> QED
    BY <1>6, <2>1 DEF Rpc!End, Return, askedBar, expiredBar
<1>7. ASSUME NEW c \in Calls, CallRegister(c)
      PROVE  Rpc!End(c) \/ UNCHANGED Rpc!rpcVars
  <2>1. /\ pc[c] = "register"
        /\ UNCHANGED <<received, ctxDone, closed>>
    BY <1>7 DEF CallRegister, daemon
  <2>2. CASE Return(c, "closed") /\ closed
    <3>1. Rpc!MayEnd(c, "closed")
      BY <2>2 DEF Rpc!MayEnd
    <3> QED
      BY <1>6, <2>1, <2>2, <3>1
  <2>3. CASE pc' = [pc EXCEPT ![c] = "lock"] /\ ret' = ret
    <3>1. phaseBar' = phaseBar
      BY <1>3, <2>1, <2>3
    <3> QED
      BY <2>1, <2>3, <3>1 DEF Rpc!rpcVars, askedBar, expiredBar
  <2>4. CASE Return(c, "unsent")
    <3>1. Rpc!MayEnd(c, "unsent")
      BY <2>1 DEF AskInv, Rpc!MayEnd
    <3> QED
      BY <1>6, <2>1, <2>4, <3>1
  <2> QED BY <1>7, <2>2, <2>3, <2>4 DEF CallRegister, Refused
<1>8. ASSUME NEW c \in Calls, CallLock(c) \/ CallCancelled(c)
      PROVE  UNCHANGED Rpc!rpcVars
  <2>1. /\ pc[c] \in {"lock", "select"}
        /\ pc' \in {[pc EXCEPT ![c] = "write"], [pc EXCEPT ![c] = "cancel"]}
        /\ UNCHANGED <<ret, received, ctxDone, closed>>
    BY <1>8 DEF CallLock, CallCancelled, shared, daemon
  <2>2. phaseBar' = phaseBar
    BY <1>3, <2>1
  <2> QED
    BY <2>1, <2>2 DEF Rpc!rpcVars, askedBar, expiredBar
<1>9. ASSUME NEW c \in Calls, CallUnsent(c) PROVE Rpc!End(c)
  <2>1. /\ pc[c] = "unsent" /\ Return(c, "unsent")
        /\ UNCHANGED <<received, ctxDone, closed>>
    BY <1>9 DEF CallUnsent, daemon
  <2>2. Rpc!MayEnd(c, "unsent")
    BY <2>1 DEF AskInv, Rpc!MayEnd
  <2> QED
    BY <1>6, <2>1, <2>2
<1>10. ASSUME NEW c \in Calls, CallCancel(c) PROVE Rpc!End(c)
  <2>1. /\ pc[c] = "cancel" /\ Return(c, "ctx")
        /\ UNCHANGED <<received, ctxDone, closed>>
    BY <1>10 DEF CallCancel, daemon
  <2>2. Rpc!MayEnd(c, "ctx")
    BY <2>1 DEF EndInv, Rpc!MayEnd, expiredBar
  <2> QED
    BY <1>6, <2>1, <2>2
<1>11. ASSUME NEW c \in Calls, CallReceive(c) PROVE Rpc!End(c)
  <2>1. /\ pc[c] = "select" /\ Return(c, buf[c].kind) /\ buf[c] # None
        /\ UNCHANGED <<received, ctxDone, closed>>
    BY <1>11 DEF CallReceive, shared, daemon
  <2>2. buf[c].kind \in {"result", "error"} /\ c \in askedBar
    BY <1>0, <2>1 DEF AskInv, MsgInv, IsResponse
  <2>3. Rpc!MayEnd(c, buf[c].kind)
    BY <2>2 DEF Rpc!MayEnd
  <2> QED
    BY <1>6, <2>1, <2>2, <2>3
<1>12. ASSUME NEW c \in Calls, CallWoken(c) PROVE Rpc!End(c)
  <2>1. /\ pc[c] = "select" /\ Return(c, "closed") /\ chClosed[c]
        /\ UNCHANGED <<received, ctxDone, closed>>
    BY <1>12 DEF CallWoken, shared, daemon
  <2>2. Rpc!MayEnd(c, "closed")
    BY <2>1 DEF EndInv, Rpc!MayEnd
  <2> QED
    BY <1>6, <2>1, <2>2
<1>13. ASSUME NEW f \in Failers, FailEnter(f)
       PROVE  Rpc!GoDown \/ UNCHANGED Rpc!rpcVars
  <2>1. /\ UNCHANGED <<pc, ret, received, ctxDone>>
        /\ closed' = closed \/ closed' = TRUE
    BY <1>13 DEF FailEnter, caller, daemon
  <2> QED
    BY <2>1 DEF Rpc!GoDown, Rpc!rpcVars, phaseBar, askedBar, expiredBar
<1> QED
  <2>1. CASE \E c \in Calls : CallBegin(c) \/ CallStep(c) \/ CtxEnds(c)
    BY <2>1, <1>2, <1>4, <1>5, <1>7, <1>8, <1>9, <1>10, <1>11, <1>12
       DEF CallStep, Rpc!RpcNext
  <2>2. CASE \E f \in Failers : FailEnter(f)
    BY <2>2, <1>13 DEF Rpc!RpcNext
  <2>3. ASSUME ~(\E c \in Calls : CallBegin(c) \/ CallStep(c) \/ CtxEnds(c)),
               ~(\E f \in Failers : FailEnter(f))
        PROVE  UNCHANGED <<pc, ret, received, ctxDone, closed>>
    BY <2>3 DEF Next, FailStep, ReaderStep, CloseStep, DaemonStep,
       CloseBegin, CloseFrame, CloseConn, FailCloseChan, FailDone, ReaderRead,
       ReaderReadFails, ReaderPong, ReaderEcho, ReaderTake, ReaderSend,
       DaemonAnswers, DaemonTalks, DaemonGone, DaemonStalls, vars, shared,
       caller, daemon
  <2> QED BY <1>1, <2>1, <2>2, <2>3

\* The client keeps the promise of RpcClient: however calls, closes, readLoop
\* and the daemon interleave, a Call ends once, with a response only if its
\* request reached the daemon, with a send error only if it did not, with
\* ctx.Err() only if its context ended and with the closed error only if the
\* client is closed.
THEOREM KeepsThePromise == Spec => ImplementsRpc
  <1>1. Init => Rpc!RpcInit
    BY DEF Init, Rpc!RpcInit, phaseBar, askedBar, expiredBar
  <1>2. IInv /\ AskInv /\ EndInv /\ [Next]_vars
          => [Rpc!RpcNext]_(Rpc!rpcVars)
    BY RpcStep
  <1> QED
    BY <1>1, <1>2, AskEnds, PTL DEF Spec, ImplementsRpc, Rpc!RpcSpec
=============================================================================
