------------------------- MODULE CodexBackendProofs -------------------------
(***************************************************************************)
(* Proofs about CodexBackend, for any number of Delivers and Closes, any   *)
(* thread ids and any number of outages.                                   *)
(***************************************************************************)
EXTENDS CodexBackend, TLAPS

\* Where a Deliver stands that has got past connect.
Past == {"queue", "wait", "drop", "shut", "done"}

\* A connection that anybody can get hold of has been initialized, and the
\* Deliver that dialled it is past connect: it will not install it again.
Shared ==
    /\ client # None => client \in inited /\ pc[client] \in Past
    /\ \A d \in Delivers :
         /\ pc[d] = "install" => d \in inited
         /\ pc[d] \in {"surplus", "queue", "wait", "drop", "shut"}
              => use[d] \in inited
         /\ use[d] # None => pc[use[d]] \in Past

\* A Deliver that has taken out the client it failed on, or whatever was
\* cached in its place, does not find its own in the cache again.
Dropped ==
    \A d \in Delivers :
       /\ ret[d] # "none" => pc[d] = "done"
       /\ ret[d] = "failed" => use[d] # None
       /\ pc[d] = "shut" \/ ret[d] = "failed" => client # use[d]

\* Requests have been sent by Delivers that are past Queue, to the thread they
\* read, over an initialized connection.
Sent ==
    \A s \in sent :
       /\ pc[s[1]] \in {"wait", "drop", "shut", "done"}
       /\ ret[s[1]] \in {"none", "stored", "accepted", "failed"}
       /\ s[2] = target[s[1]]

\* Whoever has read a thread has read the one that is latched, unless the
\* backend has been disabled since; and then no thread is latched any more.
OneThread ==
    /\ disabled => thread = None
    /\ \A d \in Delivers : target[d] # None => disabled \/ thread = target[d]
    /\ \A d, e \in Delivers :
         target[d] # None /\ target[e] # None => target[d] = target[e]

\* The daemon has what its response says, and works on a request once.
Echoed ==
    \A d \in Delivers :
       /\ stored[d] # "no" => reply[d] # "none" /\ \E s \in sent : s[1] = d
       /\ reply[d] \in {"echo", "silent"} => stored[d] = "exact"
       /\ reply[d] = "other" => stored[d] = "altered"

\* The inductive invariant.
IInv ==
    /\ TypeOK /\ NoConnectionLeak /\ Shared /\ Dropped /\ Sent
    /\ InitializedFirst /\ OneThread /\ Echoed /\ HonestReceipt

-----------------------------------------------------------------------------

USE NoneApart, ClosersApart

\* The invariant holds at the start.
LEMMA Start == Init => IInv
  <1> SUFFICES ASSUME Init PROVE IInv
    OBVIOUS
  <1> USE DEF Init, Procs
  <1>1. TypeOK
    BY DEF TypeOK, Errors
  <1>2. NoConnectionLeak /\ InitializedFirst /\ HonestReceipt
    BY DEF NoConnectionLeak, InitializedFirst, HonestReceipt
  <1>3. Shared /\ Dropped /\ Sent /\ OneThread /\ Echoed
    BY DEF Shared, Dropped, Sent, OneThread, Echoed
  <1> QED
    BY <1>1, <1>2, <1>3 DEF IInv

\* Every step keeps the types.
LEMMA TypeStep ==
    ASSUME TypeOK, Shared, [Next]_vars
    PROVE  TypeOK'
<1> USE DEF TypeOK, Procs, backend, locals, wire, daemon
<1>1. ASSUME NEW t \in Threads, Adopt(t) PROVE TypeOK'
  BY <1>1 DEF Adopt
<1>2. ASSUME NEW d \in Delivers, Check(d) PROVE TypeOK'
  BY <1>2 DEF Check, Goto, Return, Errors
<1>3. ASSUME NEW d \in Delivers, Latch(d) PROVE TypeOK'
  BY <1>3 DEF Latch, Goto, Return, Errors
<1>4. ASSUME NEW d \in Delivers, Connect(d) PROVE TypeOK'
  BY <1>4 DEF Connect, Goto
<1>5. ASSUME NEW d \in Delivers, Dial(d) PROVE TypeOK'
  BY <1>5 DEF Dial, Goto, Return, Errors
<1>6. ASSUME NEW d \in Delivers, Initialize(d) PROVE TypeOK'
  BY <1>6 DEF Initialize, Goto, Return, Shut, Errors
<1>7. ASSUME NEW d \in Delivers, Install(d) PROVE TypeOK'
  BY <1>7 DEF Install, Goto
<1>8. ASSUME NEW d \in Delivers, CloseSurplus(d) PROVE TypeOK'
  BY <1>8 DEF CloseSurplus, Goto, Shut
<1>9. ASSUME NEW d \in Delivers, Queue(d) PROVE TypeOK'
  <2>1. pc[d] = "queue" => use[d] \in Delivers
    BY DEF Shared
  <2>2. sent' \subseteq Delivers \X (Threads \cup {None}) \X Delivers
    BY <1>9, <2>1 DEF Queue
  <2> QED
    BY <1>9, <2>2 DEF Queue, Goto
<1>10. ASSUME NEW d \in Delivers, Answered(d) PROVE TypeOK'
  BY <1>10 DEF Answered, Goto, Return, Verdict
<1>11. ASSUME NEW d \in Delivers, Unanswered(d) PROVE TypeOK'
  BY <1>11 DEF Unanswered, Goto
<1>12. ASSUME NEW p \in Procs, Take(p) PROVE TypeOK'
  BY <1>12 DEF Take, Goto
<1>13. ASSUME NEW p \in Procs, ShutHeld(p) PROVE TypeOK'
  BY <1>13 DEF ShutHeld, Goto, Return, Shut, Errors
<1>14. CASE DaemonQueues
  BY <1>14 DEF DaemonQueues, Over
<1>15. CASE DaemonOutage
  BY <1>15 DEF DaemonOutage
<1>16. CASE UNCHANGED vars
  BY <1>16 DEF vars
<1> QED
  BY <1>1, <1>2, <1>3, <1>4, <1>5, <1>6, <1>7, <1>8, <1>9, <1>10, <1>11,
     <1>12, <1>13, <1>14, <1>15, <1>16 DEF Next, DeliverStep

\* A connection changes hands without ever being in none: whoever gives one
\* away, to the cache or to a Close, does it in one step.
LEMMA LeakStep ==
    ASSUME TypeOK, NoConnectionLeak, [Next]_vars
    PROVE  NoConnectionLeak'
<1>1. ASSUME NEW d \in Delivers, Check(d) PROVE NoConnectionLeak'
  BY <1>1 DEF Check, Goto, Return, TypeOK, NoConnectionLeak, Procs,
     backend, wire
<1>2. ASSUME NEW d \in Delivers, Latch(d) PROVE NoConnectionLeak'
  BY <1>2 DEF Latch, Goto, Return, TypeOK, NoConnectionLeak, Procs,
     backend, wire
<1>3. ASSUME NEW d \in Delivers, Connect(d) PROVE NoConnectionLeak'
  BY <1>3 DEF Connect, Goto, TypeOK, NoConnectionLeak, Procs, backend,
     wire
<1>4. ASSUME NEW d \in Delivers, Dial(d) PROVE NoConnectionLeak'
  BY <1>4 DEF Dial, Goto, Return, TypeOK, NoConnectionLeak, Procs,
     backend, wire
<1>5. ASSUME NEW d \in Delivers, Initialize(d) PROVE NoConnectionLeak'
  BY <1>5 DEF Initialize, Goto, Return, Shut, TypeOK, NoConnectionLeak,
     Procs, backend, wire
<1>6. ASSUME NEW d \in Delivers, Install(d) PROVE NoConnectionLeak'
  BY <1>6 DEF Install, Goto, TypeOK, NoConnectionLeak, Procs, backend,
     wire
<1>7. ASSUME NEW d \in Delivers, CloseSurplus(d) PROVE NoConnectionLeak'
  BY <1>7 DEF CloseSurplus, Goto, Shut, TypeOK, NoConnectionLeak, Procs,
     backend, wire
<1>8. ASSUME NEW d \in Delivers, Queue(d) PROVE NoConnectionLeak'
  BY <1>8 DEF Queue, Goto, TypeOK, NoConnectionLeak, Procs, backend, wire
<1>9. ASSUME NEW d \in Delivers, Answered(d) PROVE NoConnectionLeak'
  BY <1>9 DEF Answered, Goto, Return, TypeOK, NoConnectionLeak, Procs,
     backend, wire
<1>10. ASSUME NEW d \in Delivers, Unanswered(d) PROVE NoConnectionLeak'
  BY <1>10 DEF Unanswered, Goto, TypeOK, NoConnectionLeak, Procs, backend,
     wire
<1>11. ASSUME NEW p \in Procs, Take(p) PROVE NoConnectionLeak'
  BY <1>11 DEF Take, Goto, TypeOK, NoConnectionLeak, Procs, backend, wire
<1>12. ASSUME NEW p \in Procs, ShutHeld(p) PROVE NoConnectionLeak'
  BY <1>12 DEF ShutHeld, Goto, Return, Shut, TypeOK, NoConnectionLeak,
     Procs, backend, wire
<1>13. CASE DaemonOutage
  BY <1>13 DEF DaemonOutage, locals, TypeOK, NoConnectionLeak, Procs,
     backend, wire
<1>14. CASE UNCHANGED <<client, pc, hold, live>>
  BY <1>14 DEF NoConnectionLeak
<1> QED
  BY <1>1, <1>2, <1>3, <1>4, <1>5, <1>6, <1>7, <1>8, <1>9, <1>10, <1>11,
     <1>12, <1>13, <1>14 DEF Next, DeliverStep, vars, backend, locals,
     wire, daemon, Procs, Adopt, DaemonQueues

\* Only initialized connections are shared, and none is installed a second
\* time.
LEMMA SharedStep ==
    ASSUME TypeOK, Shared, [Next]_vars
    PROVE  Shared'
<1>1. ASSUME NEW d \in Delivers, Check(d) PROVE Shared'
  BY <1>1 DEF Check, Goto, Return, backend, wire, TypeOK, Shared, Past,
     Procs
<1>2. ASSUME NEW d \in Delivers, Latch(d) PROVE Shared'
  BY <1>2 DEF Latch, Goto, Return, backend, wire, TypeOK, Shared, Past,
     Procs
<1>3. ASSUME NEW d \in Delivers, Connect(d) PROVE Shared'
  BY <1>3 DEF Connect, Goto, backend, wire, TypeOK, Shared, Past, Procs
<1>4. ASSUME NEW d \in Delivers, Dial(d) PROVE Shared'
  BY <1>4 DEF Dial, Goto, Return, backend, TypeOK, Shared, Past, Procs
<1>5. ASSUME NEW d \in Delivers, Initialize(d) PROVE Shared'
  BY <1>5 DEF Initialize, Goto, Return, backend, TypeOK, Shared, Past,
     Procs
<1>6. ASSUME NEW d \in Delivers, Install(d) PROVE Shared'
  BY <1>6 DEF Install, Goto, wire, TypeOK, Shared, Past, Procs
<1>7. ASSUME NEW d \in Delivers, CloseSurplus(d) PROVE Shared'
  BY <1>7 DEF CloseSurplus, Goto, backend, TypeOK, Shared, Past, Procs
<1>8. ASSUME NEW d \in Delivers, Queue(d) PROVE Shared'
  BY <1>8 DEF Queue, Goto, backend, TypeOK, Shared, Past, Procs
<1>9. ASSUME NEW d \in Delivers, Answered(d) PROVE Shared'
  BY <1>9 DEF Answered, Goto, Return, backend, wire, TypeOK, Shared, Past,
     Procs
<1>10. ASSUME NEW d \in Delivers, Unanswered(d) PROVE Shared'
  BY <1>10 DEF Unanswered, Goto, backend, wire, TypeOK, Shared, Past,
     Procs
<1>11. ASSUME NEW p \in Procs, Take(p) PROVE Shared'
  BY <1>11 DEF Take, Goto, wire, TypeOK, Shared, Past, Procs
<1>12. ASSUME NEW p \in Procs, ShutHeld(p) PROVE Shared'
  BY <1>12 DEF ShutHeld, Goto, Return, backend, TypeOK, Shared, Past,
     Procs
<1>13. CASE UNCHANGED <<client, pc, use, inited>>
  BY <1>13 DEF TypeOK, Shared, Past, Procs
<1> QED
  BY <1>1, <1>2, <1>3, <1>4, <1>5, <1>6, <1>7, <1>8, <1>9, <1>10, <1>11,
     <1>12, <1>13 DEF Next, DeliverStep, vars, backend, locals, wire,
     daemon, Procs, Adopt, DaemonQueues, DaemonOutage

\* What a Deliver has failed on stays out of the cache: the only one to
\* install a connection is the Deliver that dialled it, once.
LEMMA DroppedStep ==
    ASSUME TypeOK, Shared, Dropped, [Next]_vars
    PROVE  Dropped'
<1>1. ASSUME NEW d \in Delivers, Check(d) PROVE Dropped'
  BY <1>1 DEF Check, Goto, Return, backend, TypeOK, Shared, Dropped, Past,
     Procs
<1>2. ASSUME NEW d \in Delivers, Latch(d) PROVE Dropped'
  BY <1>2 DEF Latch, Goto, Return, backend, TypeOK, Shared, Dropped, Past,
     Procs
<1>3. ASSUME NEW d \in Delivers, Connect(d) PROVE Dropped'
  BY <1>3 DEF Connect, Goto, backend, TypeOK, Shared, Dropped, Past, Procs
<1>4. ASSUME NEW d \in Delivers, Dial(d) PROVE Dropped'
  BY <1>4 DEF Dial, Goto, Return, backend, TypeOK, Shared, Dropped, Past,
     Procs
<1>5. ASSUME NEW d \in Delivers, Initialize(d) PROVE Dropped'
  BY <1>5 DEF Initialize, Goto, Return, backend, TypeOK, Shared, Dropped,
     Past, Procs
<1>6. ASSUME NEW d \in Delivers, Install(d) PROVE Dropped'
  BY <1>6 DEF Install, Goto, TypeOK, Shared, Dropped, Past, Procs
<1>7. ASSUME NEW d \in Delivers, CloseSurplus(d) PROVE Dropped'
  BY <1>7 DEF CloseSurplus, Goto, backend, TypeOK, Shared, Dropped, Past,
     Procs
<1>8. ASSUME NEW d \in Delivers, Queue(d) PROVE Dropped'
  BY <1>8 DEF Queue, Goto, backend, TypeOK, Shared, Dropped, Past, Procs
<1>9. ASSUME NEW d \in Delivers, Answered(d) PROVE Dropped'
  BY <1>9 DEF Answered, Goto, Return, backend, Verdict, TypeOK, Shared,
     Dropped, Past, Procs
<1>10. ASSUME NEW d \in Delivers, Unanswered(d) PROVE Dropped'
  BY <1>10 DEF Unanswered, Goto, backend, TypeOK, Shared, Dropped, Past,
     Procs
<1>11. ASSUME NEW p \in Procs, Take(p) PROVE Dropped'
  BY <1>11 DEF Take, Goto, TypeOK, Shared, Dropped, Past, Procs
<1>12. ASSUME NEW p \in Procs, ShutHeld(p) PROVE Dropped'
  BY <1>12 DEF ShutHeld, Goto, Return, backend, TypeOK, Shared, Dropped,
     Past, Procs
<1>13. CASE UNCHANGED <<client, pc, use, ret>>
  BY <1>13 DEF TypeOK, Shared, Dropped, Past, Procs
<1> QED
  BY <1>1, <1>2, <1>3, <1>4, <1>5, <1>6, <1>7, <1>8, <1>9, <1>10, <1>11,
     <1>12, <1>13 DEF Next, DeliverStep, vars, backend, locals, wire,
     daemon, Procs, Adopt, DaemonQueues, DaemonOutage

\* A request that is out says what its sender read, and the sender does not
\* go back.
LEMMA SentStep ==
    ASSUME TypeOK, Dropped, Sent, [Next]_vars
    PROVE  Sent'
<1>1. ASSUME NEW d \in Delivers, Check(d) PROVE Sent'
  BY <1>1 DEF Check, Goto, Return, wire, TypeOK, Dropped, Sent, Procs
<1>2. ASSUME NEW d \in Delivers, Latch(d) PROVE Sent'
  BY <1>2 DEF Latch, Goto, Return, wire, TypeOK, Dropped, Sent, Procs
<1>3. ASSUME NEW d \in Delivers, Connect(d) PROVE Sent'
  BY <1>3 DEF Connect, Goto, wire, TypeOK, Dropped, Sent, Procs
<1>4. ASSUME NEW d \in Delivers, Dial(d) PROVE Sent'
  BY <1>4 DEF Dial, Goto, Return, TypeOK, Dropped, Sent, Procs
<1>5. ASSUME NEW d \in Delivers, Initialize(d) PROVE Sent'
  BY <1>5 DEF Initialize, Goto, Return, TypeOK, Dropped, Sent, Procs
<1>6. ASSUME NEW d \in Delivers, Install(d) PROVE Sent'
  BY <1>6 DEF Install, Goto, wire, TypeOK, Dropped, Sent, Procs
<1>7. ASSUME NEW d \in Delivers, CloseSurplus(d) PROVE Sent'
  BY <1>7 DEF CloseSurplus, Goto, TypeOK, Dropped, Sent, Procs
<1>8. ASSUME NEW d \in Delivers, Queue(d) PROVE Sent'
  BY <1>8 DEF Queue, Goto, TypeOK, Dropped, Sent, Procs
<1>9. ASSUME NEW d \in Delivers, Answered(d) PROVE Sent'
  BY <1>9 DEF Answered, Goto, Return, wire, Verdict, TypeOK, Dropped,
     Sent, Procs
<1>10. ASSUME NEW d \in Delivers, Unanswered(d) PROVE Sent'
  BY <1>10 DEF Unanswered, Goto, wire, TypeOK, Dropped, Sent, Procs
<1>11. ASSUME NEW p \in Procs, Take(p) PROVE Sent'
  BY <1>11 DEF Take, Goto, wire, TypeOK, Dropped, Sent, Procs
<1>12. ASSUME NEW p \in Procs, ShutHeld(p) PROVE Sent'
  BY <1>12 DEF ShutHeld, Goto, Return, TypeOK, Dropped, Sent, Procs
<1>13. CASE UNCHANGED <<pc, ret, target, sent>>
  BY <1>13 DEF TypeOK, Dropped, Sent, Procs
<1> QED
  BY <1>1, <1>2, <1>3, <1>4, <1>5, <1>6, <1>7, <1>8, <1>9, <1>10, <1>11,
     <1>12, <1>13 DEF Next, DeliverStep, vars, backend, locals, wire,
     daemon, Procs, Adopt, DaemonQueues, DaemonOutage

\* Nothing goes out over a connection that has not been initialized.
LEMMA InitializedStep ==
    ASSUME TypeOK, Shared, InitializedFirst, [Next]_vars
    PROVE  InitializedFirst'
<1>1. ASSUME NEW d \in Delivers, Queue(d) PROVE InitializedFirst'
  BY <1>1 DEF Queue, Shared, InitializedFirst
<1>2. ASSUME NEW d \in Delivers, Initialize(d) PROVE InitializedFirst'
  BY <1>2 DEF Initialize, InitializedFirst
<1>3. CASE UNCHANGED <<inited, sent>>
  BY <1>3 DEF InitializedFirst
<1> QED
  BY <1>1, <1>2, <1>3 DEF Next, DeliverStep, vars, wire, Adopt, Check,
     Latch, Connect, Dial, Install, CloseSurplus, Answered, Unanswered,
     Take, ShutHeld, DaemonQueues, DaemonOutage

\* A second thread id clears the latch for good, so nobody reads it.
LEMMA ThreadStep ==
    ASSUME TypeOK, OneThread, [Next]_vars
    PROVE  OneThread'
<1>1. ASSUME NEW t \in Threads, Adopt(t) PROVE OneThread'
  BY <1>1 DEF Adopt, locals, TypeOK, OneThread
<1>2. ASSUME NEW d \in Delivers, Latch(d) PROVE OneThread'
  BY <1>2 DEF Latch, backend, TypeOK, OneThread
<1>3. CASE UNCHANGED <<thread, disabled, target>>
  BY <1>3 DEF OneThread
<1> QED
  BY <1>1, <1>2, <1>3 DEF Next, DeliverStep, vars, backend, locals, Check,
     Connect, Dial, Initialize, Install, CloseSurplus, Queue, Answered,
     Unanswered, Take, ShutHeld, DaemonQueues, DaemonOutage

\* The daemon stores before it answers, and a request only once.
LEMMA EchoStep ==
    ASSUME TypeOK, Sent, Echoed, [Next]_vars
    PROVE  Echoed'
<1>1. CASE DaemonQueues
  BY <1>1 DEF DaemonQueues, Over, wire, TypeOK, Echoed
<1>2. CASE DaemonOutage
  BY <1>2 DEF DaemonOutage, TypeOK, Echoed
<1>3. ASSUME NEW d \in Delivers, Queue(d) PROVE Echoed'
  BY <1>3 DEF Queue, daemon, TypeOK, Echoed
<1>4. CASE UNCHANGED <<stored, reply, sent>>
  BY <1>4 DEF Echoed
<1> QED
  BY <1>1, <1>2, <1>3, <1>4 DEF Next, DeliverStep, vars, wire, daemon,
     Adopt, Check, Latch, Connect, Dial, Initialize, Install,
     CloseSurplus, Answered, Unanswered, Take, ShutHeld

\* A receipt says what the daemon has stored, and stays true.
LEMMA ReceiptStep ==
    ASSUME TypeOK, Dropped, Sent, Echoed, HonestReceipt, [Next]_vars
    PROVE  HonestReceipt'
<1>1. ASSUME NEW d \in Delivers, Check(d) PROVE HonestReceipt'
  BY <1>1 DEF Check, Goto, Return, daemon, TypeOK, Dropped, Sent, Echoed,
     HonestReceipt, Procs
<1>2. ASSUME NEW d \in Delivers, Latch(d) PROVE HonestReceipt'
  BY <1>2 DEF Latch, Goto, Return, daemon, TypeOK, Dropped, Sent, Echoed,
     HonestReceipt, Procs
<1>3. ASSUME NEW d \in Delivers, Dial(d) PROVE HonestReceipt'
  BY <1>3 DEF Dial, Goto, Return, daemon, TypeOK, Dropped, Sent, Echoed,
     HonestReceipt, Procs
<1>4. ASSUME NEW d \in Delivers, Initialize(d) PROVE HonestReceipt'
  BY <1>4 DEF Initialize, Goto, Return, daemon, TypeOK, Dropped, Sent,
     Echoed, HonestReceipt, Procs
<1>5. ASSUME NEW d \in Delivers, Answered(d) PROVE HonestReceipt'
  BY <1>5 DEF Answered, Goto, Return, daemon, Verdict, TypeOK, Dropped,
     Sent, Echoed, HonestReceipt, Procs
<1>6. ASSUME NEW p \in Procs, ShutHeld(p) PROVE HonestReceipt'
  BY <1>6 DEF ShutHeld, Goto, Return, daemon, TypeOK, Dropped, Sent,
     Echoed, HonestReceipt, Procs
<1>7. CASE DaemonQueues
  BY <1>7 DEF DaemonQueues, locals, TypeOK, Dropped, Sent, Echoed,
     HonestReceipt, Procs
<1>8. CASE UNCHANGED <<ret, stored>>
  BY <1>8 DEF HonestReceipt
<1> QED
  BY <1>1, <1>2, <1>3, <1>4, <1>5, <1>6, <1>7, <1>8 DEF Next, DeliverStep,
     vars, backend, locals, wire, daemon, Procs, Adopt, Connect, Install,
     CloseSurplus, Queue, Unanswered, Take, DaemonOutage

\* The inductive invariant holds in every reachable state.
THEOREM Invariance == Spec => []IInv
  <1>1. IInv /\ [Next]_vars => IInv'
    BY TypeStep, LeakStep, SharedStep, DroppedStep, SentStep, InitializedStep,
       ThreadStep, EchoStep, ReceiptStep DEF IInv
  <1> QED BY Start, <1>1, PTL DEF Spec

\* Every field of the backend and every local of a Deliver keeps its type.
THEOREM TypeCorrect == Spec => []TypeOK
  <1>1. IInv => TypeOK BY DEF IInv
  <1> QED BY Invariance, <1>1, PTL

\* However many Delivers race to dial and Closes to drop the cached client, a
\* connection that is not closed is cached or in somebody's hands.
THEOREM NothingLeaks == Spec => []NoConnectionLeak
  <1>1. IInv => NoConnectionLeak BY DEF IInv
  <1> QED BY Invariance, <1>1, PTL

\* A Deliver that failed never leaves the connection it failed on in the
\* cache, and nobody puts it back.
THEOREM FailuresAreDropped == Spec => []FailedNotCached
  <1>1. IInv => FailedNotCached
    BY DEF IInv, Dropped, FailedNotCached
  <1> QED BY Invariance, <1>1, PTL

\* No request goes out over a connection before initialize has been accepted
\* on it, not even by a Deliver that was handed the connection by another.
THEOREM HandshakeFirst == Spec => []InitializedFirst
  <1>1. IInv => InitializedFirst BY DEF IInv
  <1> QED BY Invariance, <1>1, PTL

\* All requests that name a thread name the same one, whatever Adopt is told
\* between the two locks of Deliver.
THEOREM NeverRedirected == Spec => []NoRedirect
  <1>1. IInv => NoRedirect
    <2> SUFFICES ASSUME IInv, NEW s \in sent, NEW t \in sent,
                        s[2] # None, t[2] # None
                 PROVE  s[2] = t[2]
      BY DEF NoRedirect
    <2>1. s[1] \in Delivers /\ t[1] \in Delivers
      BY DEF IInv, TypeOK
    <2> QED
      BY <2>1 DEF IInv, Sent, OneThread
  <1> QED BY Invariance, <1>1, PTL

\* A receipt tells no more than the daemon has done: "stored" only for exactly
\* the message, "accepted" only for something, an early error for nothing.
THEOREM ReceiptsAreHonest == Spec => []HonestReceipt
  <1>1. IInv => HonestReceipt BY DEF IInv
  <1> QED BY Invariance, <1>1, PTL
=============================================================================
