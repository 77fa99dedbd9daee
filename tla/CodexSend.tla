----------------------------- MODULE CodexSend -----------------------------
(***************************************************************************)
(* One run of cmd/codex-send over the client of CodexClient: main dials,   *)
(* calls Initialize and then QueueMessage under one context with a         *)
(* timeout, and a deferred Close runs before the process exits.  main is   *)
(* the caller of both calls and of the Close; readLoop and the daemon are  *)
(* those of CodexClient.                                                   *)
(***************************************************************************)
EXTENDS CodexClient

CONSTANTS
    InitCall,   \* the Call of Initialize
    QueueCall,  \* the Call of QueueMessage
    Main        \* main's Close

ASSUME SendCalls == Calls = {InitCall, QueueCall} /\ InitCall # QueueCall
ASSUME SendCloser == Closers = {Main}

VARIABLES
    main,       \* where run stands
    status      \* the exit constant it returns

sendVars == <<vars, main, status>>

SendInit == Init /\ main = "parse" /\ status = "none"

\* run returns s: at once, or through the deferred Close if it has dialled.
Leave(place, s) == main' = place /\ status' = s

\* Flags and text are there, or usage and an error.
Parse ==
    /\ main = "parse"
    /\ \/ main' = "dial" /\ UNCHANGED status
       \/ Leave("exited", "exitError")
    /\ UNCHANGED vars

\* Dial: the socket path, the connection and the upgrade.
Dial ==
    /\ main = "dial"
    /\ \/ main' = "initialize" /\ UNCHANGED status
       \/ Leave("exited", "exitNoTarget")
    /\ UNCHANGED vars

\* main enters Call, from Initialize or from QueueMessage.
Ask(place, c) ==
    /\ main = place
    /\ CallBegin(c)
    /\ UNCHANGED <<main, status>>

\* Initialize refuses an empty client name before it calls.
InitializeRefuses ==
    /\ main = "initialize" /\ pc[InitCall] = "start"
    /\ Leave("close", "exitError")
    /\ UNCHANGED vars

\* Mutant: the error of Initialize is ignored.
InitializedAnyhow == TRUE

\* Initialize has returned without an error.
Initialized == ret[InitCall] = "result"

\* Initialize returns; the next thing is QueueMessage, or an error.
InitializeReturns ==
    /\ main = "initialize" /\ pc[InitCall] = "returned"
    /\ IF Initialized THEN main' = "queue" /\ UNCHANGED status
                      ELSE Leave("close", "exitError")
    /\ UNCHANGED vars

\* QueueMessage returns.
QueueReturns ==
    /\ main = "queue" /\ pc[QueueCall] = "returned"
    /\ Leave("close", IF ret[QueueCall] = "result" THEN "exitOK"
                                                   ELSE "exitError")
    /\ UNCHANGED vars

\* The deferred Close begins, and ends.
DeferredClose ==
    /\ main = "close"
    /\ CloseBegin(Main)
    /\ UNCHANGED <<main, status>>

Exit ==
    /\ main = "close" /\ step[Main] = "finished"
    /\ main' = "exited"
    /\ UNCHANGED <<vars, status>>

\* Mutant: the calls are given a context that does not end.
NoTimeout == FALSE

\* The timeout of the context that both calls share.
Timeout ==
    /\ ~ctxDone[InitCall]
    /\ ctxDone' = [c \in Calls |-> TRUE]
    /\ UNCHANGED <<shared, pc, id, buf, chClosed, ret, answer, thread, conn,
                   daemon>>

\* main's own steps inside Call, Close and fail.
MainStep ==
    \/ Parse \/ Dial \/ Ask("initialize", InitCall) \/ Ask("queue", QueueCall)
    \/ InitializeRefuses \/ InitializeReturns \/ QueueReturns
    \/ DeferredClose \/ Exit
    \/ /\ \/ \E c \in Calls : CallStep(c)
          \/ CloseStep(Main) \/ FailStep(Main)
       /\ UNCHANGED <<main, status>>

\* The process is there and has a connection.
Connected == main \in {"initialize", "queue", "close"}

LoopStep ==
    /\ Connected
    /\ ReaderStep \/ FailStep(Reader)
    /\ UNCHANGED <<main, status>>

TimeoutStep == Connected /\ Timeout /\ UNCHANGED <<main, status>>

SendNext ==
    \/ MainStep \/ LoopStep \/ TimeoutStep
    \/ Connected /\ DaemonStep /\ UNCHANGED <<main, status>>

\* Both goroutines run and the timeout passes; the daemon owes nothing.
SendSpec ==
    /\ SendInit /\ [][SendNext]_sendVars
    /\ WF_sendVars(MainStep) /\ WF_sendVars(LoopStep)
    /\ WF_sendVars(TimeoutStep)

-----------------------------------------------------------------------------
(* Properties *)

Received(c) == \E r \in received : r[2] = c

\* The daemon gets the message only after it has accepted initialize, and
\* exitOK says that it got the message and answered for that message.
StatusTellsTruth ==
    /\ Received(QueueCall) => ret[InitCall] = "result"
    /\ status = "exitOK" => Received(QueueCall) /\ answer[QueueCall] = QueueCall

\* The command ends, whatever the daemon does but refuse to read: its timeout
\* ends a call that waits, not one that is stuck in a write.
Exits == <>(main = "exited") \/ []<>stalled
=============================================================================
