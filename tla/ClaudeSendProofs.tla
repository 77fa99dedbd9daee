-------------------------- MODULE ClaudeSendProofs --------------------------
(***************************************************************************)
(* Proofs about ClaudeSend, for any number of frames, any choice of the    *)
(* strangers among their senders and any capacity of the replies channel,  *)
(* behind a symbolic link or not, with a kill at any step or none.         *)
(***************************************************************************)
EXTENDS ClaudeSend, FiniteSetTheorems, TLAPS

\* The answers that await has read.
Read == {f \in Frames : frame[f] = "read"}

\* await's count is the number of answers it has read.
Counted == received = Cardinality(Read)

\* What is renamed to the key file is complete.
Complete ==
    /\ pc = "rename" => tmp = "full"
    /\ key # "partial"

\* Nothing gets to await that accepter has not let through.
Screened == \A f \in Frames : frame[f] \in {"queued", "read"} => Accepted(f)

\* Where send is before it waits for an answer.
Early == {"parse", "resolve", "check", "bind", "tmp", "rename", "start",
          "announce", "dial", "user"}

\* The status to come is settled when send leaves: there is none before, it
\* is "ok" if an answer was read, and only then unless none was asked for.
Settled ==
    /\ pc \in Early => code = "none" /\ received = 0
    /\ pc = "await" => /\ code = "none" /\ sent /\ opt.wait # "none"
                       /\ opt.wait = "reply" => received = 0
    /\ code = "ok" => sent /\ (opt.wait # "none" => received > 0)
    /\ code = "timeout" \/ (code = "ok" /\ opt.wait = "replies") => ctxDone
    /\ received > 0 => pc \in {"await", "killed"} \/ code = "ok"

\* The goroutine in Serve has closed the inbox, or is on its way through Close
\* with what is left to remove before it.
Closing ==
    /\ watcher \in {"ln", "key", "done"}
    /\ sock => watcher = "ln"
    /\ key # "none" => Symlinked \/ watcher \in {"ln", "key"}

\* At each place the main goroutine has left behind what the deferred calls to
\* come will remove, or what the other goroutine's Close has still to remove.
Tidy ==
    /\ pc \in {"parse", "resolve", "check", "bind", "tmp", "rename", "start"} =>
         watcher = "off" /\ ~closed
    /\ closed /\ pc \notin {"closeln", "closekey", "exit", "killed"} => Closing
    /\ pc \in {"parse", "resolve", "check", "bind"} =>
         ~sock /\ key = "none" /\ ~entry
    /\ pc \in {"tmp", "rename"} => key = "none"
    /\ pc \in {"tmp", "rename", "start", "announce"} => ~entry
    /\ pc \in {"bind", "tmp", "rename", "start", "announce"} =>
         opt.wait # "none"
    /\ pc \in {"dial", "user"} /\ opt.wait = "none" =>
         ~sock /\ key = "none" /\ ~entry
    /\ pc \in {"close", "closeln", "closekey"} => ~entry
    /\ pc = "closekey" => ~sock
    /\ CleanUnlessCutShort

\* The inductive invariant.
IInv == TypeOK /\ Counted /\ Complete /\ Screened /\ Settled /\ Tidy

-----------------------------------------------------------------------------

USE FrameSets

\* The invariant holds at the start.
LEMMA Beginning == Init => IInv
  <1> SUFFICES ASSUME Init PROVE IInv
    OBVIOUS
  <1>1. Read = {}
    BY DEF Init, Read
  <1>2. Counted
    BY <1>1, FS_EmptySet DEF Init, Counted
  <1>3. received \in 0..Cardinality(Frames)
    BY FS_CardinalityType DEF Init
  <1>4. TypeOK
    BY <1>3 DEF Init, TypeOK
  <1>5. Complete /\ Screened /\ Settled /\ Tidy
    BY DEF Init, Complete, Screened, Settled, Tidy, CleanUnlessCutShort,
       Closing
  <1> QED
    BY <1>2, <1>4, <1>5 DEF IInv

\* await counts an answer when it reads it, and each answer once.
LEMMA CountStep ==
    ASSUME TypeOK, Counted, [Next]_vars
    PROVE  Counted'
<1>1. CASE AwaitReply
  <2>1. PICK f \in Frames : frame[f] = "queued" /\ Receive(f)
    BY <1>1 DEF AwaitReply
  <2>2. Read' = Read \cup {f} /\ f \notin Read
    BY <2>1 DEF Receive, Read, TypeOK
  <2>3. IsFiniteSet(Read)
    BY FS_Subset DEF Read
  <2>4. Cardinality(Read') = Cardinality(Read) + 1
    BY <2>2, <2>3, FS_AddElement
  <2> QED
    BY <1>1, <2>4 DEF AwaitReply, Counted
<1>2. ASSUME NEW f \in Frames, FrameArrives(f) \/ Deliver(f) PROVE Counted'
  <2>1. Read' = Read
    BY <1>2 DEF FrameArrives, Deliver, Read, TypeOK
  <2> QED
    BY <1>2, <2>1 DEF FrameArrives, Deliver, main, Counted
<1>3. CASE UNCHANGED <<frame, received>>
  BY <1>3 DEF Counted, Read
<1> QED
  BY <1>1, <1>2, <1>3 DEF Next, MainStep, vars, main, Parse, Resolve,
     CheckTarget, Bind, WriteTmp, RenameKey, KeyFails, Start, Announce,
     Dial, SendUser, AwaitTimeout, Unpublish, CloseMain, CloseMainSocket,
     CloseMainKey, Watch, WatchSocket, WatchKey, CtxEnds, Killed

\* Every step keeps the types.
LEMMA TypeStep ==
    ASSUME TypeOK, Counted', [Next]_vars
    PROVE  TypeOK'
<1>0. received' \in 0..Cardinality(Frames)
  <2>1. IsFiniteSet(Read') /\ Cardinality(Read') <= Cardinality(Frames)
    BY FS_Subset DEF Read
  <2> QED
    BY <2>1, FS_CardinalityType DEF Counted
<1> USE <1>0 DEF TypeOK, Options, main, files
<1>1. CASE Parse
  BY <1>1 DEF Parse, Leave
<1>2. CASE Resolve
  BY <1>2 DEF Resolve, Leave
<1>3. CASE CheckTarget
  BY <1>3 DEF CheckTarget, Leave
<1>4. CASE Bind
  <2>1. sock' \in BOOLEAN
    BY <1>4 DEF Bind
  <2> QED
    BY <1>4, <2>1 DEF Bind, Leave
<1>5. CASE WriteTmp
  BY <1>5 DEF WriteTmp, Aside
<1>6. CASE RenameKey
  BY <1>6 DEF RenameKey
<1>7. CASE KeyFails
  BY <1>7 DEF KeyFails, Leave
<1>8. CASE Start
  BY <1>8 DEF Start
<1>9. CASE Announce
  <2>1. entry' \in BOOLEAN
    BY <1>9 DEF Announce
  <2> QED
    BY <1>9, <2>1 DEF Announce, Leave
<1>10. CASE Dial
  BY <1>10 DEF Dial, Leave, Unwind
<1>11. CASE SendUser
  <2>1. sent' \in BOOLEAN
    BY <1>11 DEF SendUser
  <2> QED
    BY <1>11, <2>1 DEF SendUser, Leave, Unwind
<1>12. CASE AwaitTimeout
  BY <1>12 DEF AwaitTimeout, Leave, WindowStatus
<1>13. CASE AwaitReply
  BY <1>13 DEF AwaitReply, Leave, Receive
<1>14. CASE Unpublish
  <2>1. entry' \in BOOLEAN
    BY <1>14 DEF Unpublish
  <2> QED
    BY <1>14, <2>1 DEF Unpublish
<1>15. CASE CloseMain
  BY <1>15 DEF CloseMain
<1>16. CASE CloseMainSocket
  <2>1. sock' \in BOOLEAN
    BY <1>16 DEF CloseMainSocket
  <2> QED
    BY <1>16, <2>1 DEF CloseMainSocket
<1>17. CASE CloseMainKey
  BY <1>17 DEF CloseMainKey, KeyAfterRemoval
<1>18. CASE Watch
  BY <1>18 DEF Watch
<1>19. CASE WatchSocket
  <2>1. sock' \in BOOLEAN
    BY <1>19 DEF WatchSocket
  <2> QED
    BY <1>19, <2>1 DEF WatchSocket
<1>20. CASE WatchKey
  BY <1>20 DEF WatchKey, KeyAfterRemoval
<1>21. ASSUME NEW f \in Frames, FrameArrives(f) PROVE TypeOK'
  BY <1>21 DEF FrameArrives
<1>22. ASSUME NEW f \in Frames, Deliver(f) PROVE TypeOK'
  BY <1>22 DEF Deliver
<1>23. CASE CtxEnds
  BY <1>23 DEF CtxEnds
<1>24. CASE Killed
  BY <1>24 DEF Killed
<1>25. CASE UNCHANGED vars
  BY <1>25 DEF vars
<1> QED
  BY <1>1, <1>2, <1>3, <1>4, <1>5, <1>6, <1>7, <1>8, <1>9, <1>10, <1>11,
     <1>12, <1>13, <1>14, <1>15, <1>16, <1>17, <1>18, <1>19, <1>20, <1>21,
     <1>22, <1>23, <1>24, <1>25 DEF Next, MainStep

\* The key file is written aside, and renamed only when it is complete.
LEMMA CompleteStep ==
    ASSUME TypeOK, Complete, [Next]_vars
    PROVE  Complete'
<1>1. CASE Parse
  BY <1>1 DEF Parse, Leave, TypeOK, Complete, main, files
<1>2. CASE Resolve
  BY <1>2 DEF Resolve, Leave, TypeOK, Complete, main, files
<1>3. CASE CheckTarget
  BY <1>3 DEF CheckTarget, Leave, TypeOK, Complete, main, files
<1>4. CASE Bind
  BY <1>4 DEF Bind, Leave, TypeOK, Complete, main, files
<1>5. CASE WriteTmp
  BY <1>5 DEF WriteTmp, Aside, TypeOK, Complete, main, files
<1>6. CASE RenameKey
  BY <1>6 DEF RenameKey, TypeOK, Complete, main, files
<1>7. CASE KeyFails
  BY <1>7 DEF KeyFails, Leave, TypeOK, Complete, main, files
<1>8. CASE Start
  BY <1>8 DEF Start, TypeOK, Complete, main, files
<1>9. CASE Announce
  BY <1>9 DEF Announce, Leave, TypeOK, Complete, main, files
<1>10. CASE Dial
  BY <1>10 DEF Dial, Leave, Unwind, TypeOK, Complete, main, files
<1>11. CASE SendUser
  BY <1>11 DEF SendUser, Leave, Unwind, TypeOK, Complete, main, files
<1>12. CASE AwaitTimeout
  BY <1>12 DEF AwaitTimeout, Leave, WindowStatus, TypeOK, Complete, main,
     files
<1>13. CASE AwaitReply
  BY <1>13 DEF AwaitReply, Leave, Receive, TypeOK, Complete, main, files
<1>14. CASE Unpublish
  BY <1>14 DEF Unpublish, TypeOK, Complete, main, files
<1>15. CASE CloseMain
  BY <1>15 DEF CloseMain, TypeOK, Complete, main, files
<1>16. CASE CloseMainSocket
  BY <1>16 DEF CloseMainSocket, TypeOK, Complete, main, files
<1>17. CASE CloseMainKey
  BY <1>17 DEF CloseMainKey, KeyAfterRemoval, TypeOK, Complete, main,
     files
<1>18. CASE Killed
  BY <1>18 DEF Killed, TypeOK, Complete, main, files
<1>19. CASE WatchKey
  BY <1>19 DEF WatchKey, KeyAfterRemoval, TypeOK, Complete, main, files
<1>20. CASE UNCHANGED <<pc, tmp, key>>
  BY <1>20 DEF Complete
<1> QED
  BY <1>1, <1>2, <1>3, <1>4, <1>5, <1>6, <1>7, <1>8, <1>9, <1>10, <1>11,
     <1>12, <1>13, <1>14, <1>15, <1>16, <1>17, <1>18, <1>19, <1>20 DEF
     Next, MainStep, vars, main, files, Watch, WatchSocket, FrameArrives,
     Deliver, CtxEnds

\* What has passed accepter is what gets to await.
LEMMA ScreenStep ==
    ASSUME TypeOK, Screened, [Next]_vars
    PROVE  Screened'
<1>1. CASE AwaitReply
  BY <1>1 DEF AwaitReply, Leave, Receive, TypeOK, Screened, Accepted, main
<1>2. ASSUME NEW f \in Frames, FrameArrives(f) PROVE Screened'
  BY <1>2 DEF FrameArrives, TypeOK, Screened, Accepted, main
<1>3. ASSUME NEW f \in Frames, Deliver(f) PROVE Screened'
  BY <1>3 DEF Deliver, TypeOK, Screened, Accepted, main
<1>4. CASE UNCHANGED <<opt, frame>>
  BY <1>4 DEF Screened, Accepted
<1> QED
  BY <1>1, <1>2, <1>3, <1>4 DEF Next, MainStep, vars, main, files, Parse,
     Resolve, CheckTarget, Bind, WriteTmp, RenameKey, KeyFails, Start,
     Announce, Dial, SendUser, AwaitTimeout, Unpublish, CloseMain,
     CloseMainSocket, CloseMainKey, Watch, WatchSocket, WatchKey, CtxEnds,
     Killed, Leave

\* send settles its status once, by what await has read.
LEMMA SettleStep ==
    ASSUME TypeOK, Settled, [Next]_vars
    PROVE  Settled'
<1>1. CASE Parse
  BY <1>1 DEF Parse, Leave, TypeOK, Options, Settled, Early, files
<1>2. CASE Resolve
  BY <1>2 DEF Resolve, Leave, TypeOK, Options, Settled, Early, files
<1>3. CASE CheckTarget
  BY <1>3 DEF CheckTarget, Leave, TypeOK, Options, Settled, Early, files
<1>4. CASE Bind
  BY <1>4 DEF Bind, Leave, TypeOK, Options, Settled, Early, files
<1>5. CASE WriteTmp
  BY <1>5 DEF WriteTmp, Aside, TypeOK, Options, Settled, Early, files
<1>6. CASE RenameKey
  BY <1>6 DEF RenameKey, TypeOK, Options, Settled, Early, files
<1>7. CASE KeyFails
  BY <1>7 DEF KeyFails, Leave, TypeOK, Options, Settled, Early, files
<1>8. CASE Start
  BY <1>8 DEF Start, TypeOK, Options, Settled, Early, files
<1>9. CASE Announce
  BY <1>9 DEF Announce, Leave, TypeOK, Options, Settled, Early, files
<1>10. CASE Dial
  BY <1>10 DEF Dial, Leave, Unwind, TypeOK, Options, Settled, Early, files
<1>11. CASE SendUser
  BY <1>11 DEF SendUser, Leave, Unwind, TypeOK, Options, Settled, Early,
     files
<1>12. CASE AwaitTimeout
  BY <1>12 DEF AwaitTimeout, Leave, WindowStatus, TypeOK, Options,
     Settled, Early, files
<1>13. CASE AwaitReply
  BY <1>13 DEF AwaitReply, Leave, Receive, TypeOK, Options, Settled,
     Early, files
<1>14. CASE Unpublish
  BY <1>14 DEF Unpublish, TypeOK, Options, Settled, Early, files
<1>15. CASE CloseMain
  BY <1>15 DEF CloseMain, TypeOK, Options, Settled, Early, files
<1>16. CASE CloseMainSocket
  BY <1>16 DEF CloseMainSocket, TypeOK, Options, Settled, Early, files
<1>17. CASE CloseMainKey
  BY <1>17 DEF CloseMainKey, KeyAfterRemoval, TypeOK, Options, Settled,
     Early, files
<1>18. CASE Killed
  BY <1>18 DEF Killed, TypeOK, Options, Settled, Early, files
<1>19. CASE \/ Watch \/ WatchSocket \/ WatchKey
            \/ \E f \in Frames : FrameArrives(f) \/ Deliver(f)
            \/ CtxEnds \/ UNCHANGED vars
  <2>1. UNCHANGED <<opt, pc, code, sent, received>>
    BY <1>19 DEF Watch, WatchSocket, WatchKey, FrameArrives, Deliver, CtxEnds,
       main, vars
  <2>2. ctxDone => ctxDone'
    BY <1>19 DEF Watch, WatchSocket, WatchKey, FrameArrives, Deliver, CtxEnds,
       vars
  <2> QED
    BY <2>1, <2>2 DEF Settled
<1> QED
  BY <1>1, <1>2, <1>3, <1>4, <1>5, <1>6, <1>7, <1>8, <1>9, <1>10, <1>11,
     <1>12, <1>13, <1>14, <1>15, <1>16, <1>17, <1>18, <1>19 DEF Next,
     MainStep

\* What has been created and not removed is what the calls deferred so far
\* will remove.
LEMMA TidyStep ==
    ASSUME TypeOK, Settled, Tidy, [Next]_vars
    PROVE  Tidy'
<1>1. CASE Parse
  BY <1>1 DEF Parse, Leave, TypeOK, Options, Settled, Tidy,
     CleanUnlessCutShort, Closing,
     main, files
<1>2. CASE Resolve
  BY <1>2 DEF Resolve, Leave, TypeOK, Options, Settled, Tidy,
     CleanUnlessCutShort, Closing,
     main, files
<1>3. CASE CheckTarget
  BY <1>3 DEF CheckTarget, Leave, TypeOK, Options, Settled, Tidy,
     CleanUnlessCutShort, Closing,
     main, files
<1>4. CASE Bind
  BY <1>4 DEF Bind, Leave, TypeOK, Options, Settled, Tidy,
     CleanUnlessCutShort, Closing,
     main, files
<1>5. CASE WriteTmp
  BY <1>5 DEF WriteTmp, Aside, TypeOK, Options, Settled, Tidy,
     CleanUnlessCutShort, Closing,
     main, files
<1>6. CASE RenameKey
  BY <1>6 DEF RenameKey, TypeOK, Options, Settled, Tidy,
     CleanUnlessCutShort, Closing,
     main, files
<1>7. CASE KeyFails
  BY <1>7 DEF KeyFails, Leave, TypeOK, Options, Settled, Tidy,
     CleanUnlessCutShort, Closing,
     main, files
<1>8. CASE Start
  BY <1>8 DEF Start, TypeOK, Options, Settled, Tidy,
     CleanUnlessCutShort, Closing,
     main, files
<1>9. CASE Announce
  BY <1>9 DEF Announce, Leave, TypeOK, Options, Settled, Tidy,
     CleanUnlessCutShort, Closing,
     main, files
<1>10. CASE Dial
  BY <1>10 DEF Dial, Leave, Unwind, TypeOK, Options, Settled, Tidy,
     CleanUnlessCutShort, Closing,
     main, files
<1>11. CASE SendUser
  BY <1>11 DEF SendUser, Leave, Unwind, TypeOK, Options, Settled, Tidy,
     CleanUnlessCutShort, Closing,
     main, files
<1>12. CASE AwaitTimeout
  BY <1>12 DEF AwaitTimeout, Leave, WindowStatus, TypeOK, Options,
     Settled, Tidy, CleanUnlessCutShort, Closing,
     main, files
<1>13. CASE AwaitReply
  BY <1>13 DEF AwaitReply, Leave, Receive, TypeOK, Options, Settled, Tidy,
     CleanUnlessCutShort, Closing,
     main, files
<1>14. CASE Unpublish
  BY <1>14 DEF Unpublish, TypeOK, Options, Settled, Tidy,
     CleanUnlessCutShort, Closing,
     main, files
<1>15. CASE CloseMain
  BY <1>15 DEF CloseMain, TypeOK, Options, Settled, Tidy,
     CleanUnlessCutShort, Closing,
     main, files
<1>16. CASE CloseMainSocket
  BY <1>16 DEF CloseMainSocket, TypeOK, Options, Settled, Tidy,
     CleanUnlessCutShort, Closing,
     main, files
<1>17. CASE CloseMainKey
  BY <1>17 DEF CloseMainKey, KeyAfterRemoval, TypeOK, Options, Settled,
     Tidy, CleanUnlessCutShort, Closing,
     main, files
<1>18. CASE Killed
  BY <1>18 DEF Killed, TypeOK, Options, Settled, Tidy,
     CleanUnlessCutShort, Closing,
     main, files
<1>19. CASE Watch
  BY <1>19 DEF Watch, TypeOK, Options, Settled, Tidy,
     CleanUnlessCutShort, Closing,
     main, files
<1>20. CASE WatchSocket
  BY <1>20 DEF WatchSocket, TypeOK, Options, Settled, Tidy,
     CleanUnlessCutShort, Closing,
     main, files
<1>21. CASE WatchKey
  BY <1>21 DEF WatchKey, KeyAfterRemoval, TypeOK, Options, Settled, Tidy,
     CleanUnlessCutShort, Closing,
     main, files
<1>22. CASE CtxEnds
  BY <1>22 DEF CtxEnds, TypeOK, Options, Settled, Tidy,
     CleanUnlessCutShort, Closing,
     main, files
<1>23. CASE UNCHANGED <<opt, pc, watcher, ctxDone, closed, sock, key, entry>>
  BY <1>23 DEF Tidy, CleanUnlessCutShort, Closing
<1> QED
  BY <1>1, <1>2, <1>3, <1>4, <1>5, <1>6, <1>7, <1>8, <1>9, <1>10, <1>11,
     <1>12, <1>13, <1>14, <1>15, <1>16, <1>17, <1>18, <1>19, <1>20, <1>21,
     <1>22, <1>23 DEF Next, MainStep, vars, main, files, FrameArrives,
     Deliver

\* The inductive invariant holds in every reachable state.
THEOREM Invariance == Spec => []IInv
  <1>1. IInv /\ [Next]_vars => IInv'
    BY CountStep, TypeStep, CompleteStep, ScreenStep, SettleStep, TidyStep
       DEF IInv
  <1> QED BY Beginning, <1>1, PTL DEF Spec

\* Every variable of the command keeps its type, await's count included.
THEOREM TypeCorrect == Spec => []TypeOK
  <1>1. IInv => TypeOK BY DEF IInv
  <1> QED BY Invariance, <1>1, PTL

\* Wherever the process is killed, the key file is missing or complete.
THEOREM KeyNeverPartial == Spec => []KeyWhole
  <1>1. IInv => KeyWhole
    BY DEF IInv, Complete, KeyWhole
  <1> QED BY Invariance, <1>1, PTL

\* Exit status 0 means that the message went out and, when waiting, that a
\* sender accepter lets through has answered; and an answer that await has
\* read always ends in status 0.
THEOREM StatusIsHonest == Spec => []StatusMeansAnswer
  <1>1. IInv => StatusMeansAnswer
    <2> SUFFICES ASSUME IInv, pc = "exit", received > 0
                 PROVE  \E f \in Frames : frame[f] = "read" /\ Accepted(f)
      BY DEF IInv, Settled, Accepted, StatusMeansAnswer
    <2>1. Read # {}
      BY FS_EmptySet DEF IInv, Counted
    <2> QED
      BY <2>1 DEF IInv, Screened, Read
  <1> QED BY Invariance, <1>1, PTL

\* By whichever early return a run leaves, it removes its registry entry, and
\* its socket and key file unless it exits under the other goroutine's Close.
THEOREM LeavesNothing == Spec => []CleanUnlessCutShort
  <1>1. IInv => CleanUnlessCutShort
    BY DEF IInv, Tidy
  <1> QED BY Invariance, <1>1, PTL
=============================================================================
