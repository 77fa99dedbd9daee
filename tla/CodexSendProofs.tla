-------------------------- MODULE CodexSendProofs --------------------------
(* Proofs about CodexSend, for any inbox bound and any chatter. *)
EXTENDS CodexSend, CodexClientProofs

\* run is past QueueMessage only if Initialize succeeded, and reports success
\* only if QueueMessage did.
RunInv ==
    /\ pc[QueueCall] # "start" => ret[InitCall] = "result"
    /\ main = "queue" => ret[InitCall] = "result"
    /\ status = "exitOK" => ret[QueueCall] = "result"

SendInv == IInv /\ AskInv /\ EndInv /\ RunInv

\* A step of the command is a step of the client, the timeout, or one that
\* leaves the client alone.
LEMMA StepKinds ==
    ASSUME [SendNext]_sendVars
    PROVE  [Next]_vars \/ Timeout
<1>1. Main \in Closers /\ Main \in Failers /\ Reader \in Failers
  BY SendCloser DEF Failers
<1>2. InitCall \in Calls /\ QueueCall \in Calls
  BY SendCalls
<1> QED
  BY <1>1, <1>2 DEF SendNext, MainStep, LoopStep, TimeoutStep, Parse, Dial, Ask,
     InitializeRefuses, InitializeReturns, QueueReturns, DeferredClose, Exit,
     Next, sendVars

\* The timeout disturbs none of what the client relies on.
LEMMA TimeoutKeeps ==
    ASSUME IInv, AskInv, EndInv, Timeout
    PROVE  IInv' /\ AskInv' /\ EndInv'
<1>1. /\ UNCHANGED <<shared, pc, id, buf, chClosed, ret, answer, thread, conn,
                     daemon>>
      /\ ctxDone' = [c \in Calls |-> TRUE]
  BY DEF Timeout
<1>2. TypeOK'
  BY <1>1 DEF IInv, TypeOK, shared, thread, daemon
<1>3. IdInv' /\ OwnerInv'
  BY <1>1 DEF IInv, IdInv, OwnerInv, InFlight, Fresh, Known, shared, thread
<1>4. MsgInv' /\ NoLostWaiter'
  BY <1>1 DEF IInv, MsgInv, Genuine, OwnAnswer, NoLostWaiter, InFlight,
     shared, thread, daemon
<1>5. AskInv'
  BY <1>1 DEF AskInv, askedBar, thread, daemon
<1>6. EndInv'
  BY <1>1 DEF EndInv, askedBar, shared, daemon
<1> QED
  BY <1>2, <1>3, <1>4, <1>5, <1>6 DEF IInv

\* What goes on inside Call, Close, readLoop and the daemon begins no call
\* and does not change how a call that has returned did so.
LEMMA ReturnsStand ==
    ASSUME TypeOK, NEW d \in Calls,
           \/ \E c \in Calls : CallStep(c)
           \/ CloseStep(Main) \/ FailStep(Main) \/ ReaderStep
           \/ FailStep(Reader) \/ DaemonStep \/ Timeout \/ CloseBegin(Main)
    PROVE  /\ pc[d] = "start" => pc'[d] = "start"
           /\ pc[d] = "returned" => pc'[d] = "returned" /\ ret'[d] = ret[d]
<1>1. CASE UNCHANGED <<pc, ret>>
  BY <1>1
<1>2. ASSUME NEW c \in Calls, CallStep(c)
      PROVE  /\ pc[d] = "start" => pc'[d] = "start"
             /\ pc[d] = "returned" => pc'[d] = "returned" /\ ret'[d] = ret[d]
  <2>1. /\ pc[c] \notin {"start", "returned"}
        /\ \E p : pc' = [pc EXCEPT ![c] = p]
        /\ ret' = ret \/ \E r : ret' = [ret EXCEPT ![c] = r]
    BY <1>2 DEF CallStep, CallRegister, CallLock, CallWrite, CallUnsent,
       CallCancelled, CallCancel, CallReceive, CallWoken, Return
  <2> QED
    BY <2>1 DEF TypeOK
<1> QED
  BY <1>1, <1>2 DEF CloseStep, FailStep, ReaderStep, DaemonStep, Timeout,
     CloseBegin, CloseFrame, CloseConn, FailEnter, FailCloseChan, FailDone,
     ReaderRead, ReaderReadFails, ReaderPong, ReaderEcho, ReaderTake,
     ReaderSend, DaemonAnswers, DaemonTalks, DaemonGone, DaemonStalls, caller

\* Every step keeps what run knows.
LEMMA RunStep ==
    ASSUME TypeOK, EndInv, RunInv, [SendNext]_sendVars
    PROVE  RunInv'
<1>0. InitCall \in Calls /\ QueueCall \in Calls /\ InitCall # QueueCall
  BY SendCalls
<1>1. ASSUME UNCHANGED <<main, status>>,
             \/ \E c \in Calls : CallStep(c)
             \/ CloseStep(Main) \/ FailStep(Main) \/ ReaderStep
             \/ FailStep(Reader) \/ DaemonStep \/ Timeout \/ CloseBegin(Main)
      PROVE  RunInv'
  <2>1. \A d \in Calls :
          /\ pc[d] = "start" => pc'[d] = "start"
          /\ pc[d] = "returned" => pc'[d] = "returned" /\ ret'[d] = ret[d]
    BY <1>1, ReturnsStand
  <2>2. \A d \in Calls : ret[d] = "result" => ret'[d] = "result"
    BY <2>1 DEF EndInv
  <2> QED
    BY <1>0, <1>1, <2>1, <2>2 DEF RunInv
<1>2. CASE Ask("initialize", InitCall)
  <2>1. /\ pc'[QueueCall] = pc[QueueCall] /\ UNCHANGED <<ret, main, status>>
    BY <1>0, <1>2 DEF Ask, CallBegin, TypeOK
  <2> QED
    BY <2>1 DEF RunInv
<1>3. CASE Ask("queue", QueueCall)
  BY <1>3 DEF Ask, CallBegin, RunInv
<1>4. CASE UNCHANGED vars
  <2>1. UNCHANGED <<pc, ret>>
    BY <1>4 DEF vars, caller
  <2>2. CASE UNCHANGED <<main, status>>
    BY <2>1, <2>2 DEF RunInv
  <2>3. CASE Parse \/ Dial \/ InitializeRefuses \/ InitializeReturns \/ Exit
    BY <2>1, <2>3 DEF Parse, Dial, InitializeRefuses, InitializeReturns, Exit,
       Initialized, Leave, RunInv
  <2>4. CASE QueueReturns
    BY <2>1, <2>4 DEF QueueReturns, Leave, RunInv
  <2> QED
    BY <2>2, <2>3, <2>4, <1>1, <1>2, <1>3 DEF SendNext, MainStep, LoopStep,
       TimeoutStep, Ask, DeferredClose, sendVars
<1> QED
  BY <1>1, <1>2, <1>3, <1>4 DEF SendNext, MainStep, LoopStep, TimeoutStep,
     Parse, Dial, InitializeRefuses, InitializeReturns, QueueReturns, Exit,
     DeferredClose, sendVars

\* What the client relies on holds within the command as well, and run's own
\* part with it.
THEOREM SendInvariance == SendSpec => []SendInv
  <1>1. SendInit => SendInv
    <2>1. Init => AskInv /\ EndInv
      BY DEF Init, AskInv, EndInv, askedBar
    <2> QED
      BY <2>1, InitIInv, SendCalls DEF SendInit, Init, SendInv, RunInv
  <1>2. ASSUME SendInv, [SendNext]_sendVars PROVE SendInv'
    <2>1. IInv /\ AskInv /\ EndInv /\ RunInv /\ TypeOK
      BY <1>2 DEF SendInv, IInv
    <2>2. CASE [Next]_vars
      <3>1. IInv'
        BY <2>1, <2>2, TypeStep, IdStep, OwnerStep, MsgStep, WaitStep DEF IInv
      <3>2. AskInv' /\ EndInv'
        BY <2>1, <2>2, <3>1, AskStep, EndStep
      <3> QED
        BY <1>2, <2>1, <3>1, <3>2, RunStep DEF SendInv
    <2>3. CASE Timeout
      BY <1>2, <2>1, <2>3, TimeoutKeeps, RunStep DEF SendInv
    <2> QED
      BY <1>2, <2>2, <2>3, StepKinds
  <1> QED
    BY <1>1, <1>2, PTL DEF SendSpec

\* codex-send writes the message only after the daemon has accepted
\* initialize, and exits with exitOK only if the daemon has received the
\* message and has answered that request with a result.
THEOREM StatusIsTrue == SendSpec => []StatusTellsTruth
  <1>1. SendInv => StatusTellsTruth
    BY SendCalls DEF SendInv, RunInv, AskInv, EndInv, askedBar, Received,
       StatusTellsTruth
  <1> QED
    BY <1>1, SendInvariance, PTL
=============================================================================
