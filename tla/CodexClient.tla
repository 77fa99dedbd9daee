---------------------------- MODULE CodexClient ----------------------------
(***************************************************************************)
(* The JSON-RPC client of codexmsg/client.go: concurrent Call invocations, *)
(* the readLoop goroutine and concurrent Close invocations share a table   *)
(* of pending calls (under mu), a write lock (writeMu) and one connection  *)
(* to the app-server daemon.  One step is what the code does between two   *)
(* points where another goroutine can get in: a critical section, a        *)
(* channel operation, a read or a write of the socket.                     *)
(*                                                                         *)
(* A member of Calls is one invocation of Call, a member of Closers one    *)
(* invocation of Close.  A request or response is abstracted to its id and *)
(* the call it is about.  The daemon is external: it may answer in any     *)
(* order, more than once, late or never, send anything else in between,    *)
(* stop reading, and go away.                                              *)
(***************************************************************************)
EXTENDS Naturals, Sequences

CONSTANTS
    Calls,          \* invocations of Client.Call
    Closers,        \* invocations of Client.Close
    Reader,         \* the readLoop goroutine
    None,           \* no call, no message, no lock holder
    MaxInbox,       \* bound: messages the daemon has sent and nobody has read
    Chatter,        \* what the daemon sends beside responses
    DaemonMayStall  \* whether the daemon may stop reading its socket

ASSUME ReaderApart == Reader \notin Closers
ASSUME InboxBound == MaxInbox \in Nat
ASSUME ChatterKinds == Chatter \subseteq {"other", "ping", "close", "bad"}
ASSUME StallFlag == DaemonMayStall \in BOOLEAN

VARIABLES
    nextID,     \* Client.nextID
    pending,    \* Client.pending: request id -> the call whose channel is there
    closed,     \* Client.closed
    err,        \* Client.err: "none" or "error"
    doneClosed, \* Client.done is closed
    writeMu,    \* holder of Client.writeMu
    pc,         \* where each Call stands
    id,         \* the request id each Call took, 0 before
    ctxDone,    \* the context of the Call has ended
    buf,        \* the one slot of the Call's channel
    chClosed,   \* the Call's channel is closed
    ret,        \* how the Call returned
    answer,     \* the request the returned response was about
    step,       \* where readLoop and each Close stand
    cause,      \* the error each of them hands to fail
    drain,      \* the channels that each running fail has still to close
    rmsg,       \* the message readLoop holds
    rch,        \* the call whose channel readLoop is about to send on
    already,    \* what each Close saw in Client.closed
    conn,       \* our end of the connection is open
    inbox,      \* what the daemon has sent and readLoop has not read
    peer,       \* the daemon's end is open
    stalled,    \* the daemon does not read: writes to it block
    received    \* requests the daemon has received, as <<id, call>>

shared == <<nextID, pending, closed, err, doneClosed, writeMu>>
caller == <<pc, id, ctxDone, buf, chClosed, ret, answer>>
thread == <<step, cause, drain, rmsg, rch, already>>
daemon == <<inbox, peer, stalled, received>>
vars == <<shared, caller, thread, conn, daemon>>

Failers == Closers \cup {Reader}

\* The points of Call, and of readLoop, Close and the fail both run.
CallPlaces == {"start", "register", "lock", "write", "unsent", "select",
               "cancel", "returned"}
ThreadPlaces == {"read", "take", "send", "pong", "echo", "start", "frame",
                 "conn", "enter", "drain", "finished"}

Kinds == {"result", "error", "other", "ping", "close", "bad"}

\* "error" is a response with an error object or a result that does not
\* decode; "other" what readLoop drops, text that is not JSON included; "bad"
\* a frame sequence ReadMessage rejects.
Messages == [kind : Kinds, id : Nat, body : Calls \cup {None}]

ASSUME NoneApart == None \notin Calls /\ None \notin Messages

\* Message.IsResponse.
IsResponse(m) == m.kind \in {"result", "error"}

\* Mutant: a counter that every caller reads before anyone has bumped it.
SameID(n) == 1

\* The id that nextID.Add(1) returns when the counter stands at n.
FreshID(n) == n + 1

\* Mutant: the entry stays where it is.
Keep(m, k) == m

\* delete(c.pending, k) and c.pending[k] = c.
Delete(m, k) == [i \in DOMAIN m \ {k} |-> m[i]]
Insert(m, k, c) == [i \in DOMAIN m \cup {k} |-> IF i = k THEN c ELSE m[i]]

\* A write to the socket goes through, fails, or (neither) blocks.
WriteOK == conn /\ peer /\ ~stalled
WriteFails == ~conn \/ ~peer

Init ==
    /\ nextID = 0 /\ pending = [i \in {} |-> None]
    /\ closed = FALSE /\ err = "none" /\ doneClosed = FALSE /\ writeMu = None
    /\ pc = [c \in Calls |-> "start"] /\ id = [c \in Calls |-> 0]
    /\ ctxDone = [c \in Calls |-> FALSE]
    /\ buf = [c \in Calls |-> None] /\ chClosed = [c \in Calls |-> FALSE]
    /\ ret = [c \in Calls |-> "none"] /\ answer = [c \in Calls |-> None]
    /\ step = [f \in Failers |-> IF f = Reader THEN "read" ELSE "start"]
    /\ cause = [f \in Failers |-> "eof"] /\ drain = [f \in Failers |-> {}]
    /\ rmsg = None /\ rch = None /\ already = [k \in Closers |-> FALSE]
    /\ conn = TRUE
    /\ inbox = <<>> /\ peer = TRUE /\ stalled = FALSE /\ received = {}

-----------------------------------------------------------------------------
(***************************************************************************)
(* Call                                                                    *)
(***************************************************************************)

\* Returning from Call c with outcome r.
Return(c, r) ==
    /\ pc' = [pc EXCEPT ![c] = "returned"]
    /\ ret' = [ret EXCEPT ![c] = r]

\* nextID.Add(1), the request and its channel.
CallBegin(c) ==
    /\ pc[c] = "start"
    /\ nextID' = FreshID(nextID)
    /\ id' = [id EXCEPT ![c] = FreshID(nextID)]
    /\ pc' = [pc EXCEPT ![c] = "register"]
    /\ UNCHANGED <<pending, closed, err, doneClosed, writeMu, ctxDone, buf,
                   chClosed, ret, answer, thread, conn, daemon>>

\* Mutant: the table takes calls after it has been drained.
NeverRefused == FALSE

\* The test of closed before a call registers.
Refused == closed

\* One of the two Marshals has failed; or the critical section that refuses a
\* closed client or registers the call.
CallRegister(c) ==
    /\ pc[c] = "register"
    /\ \/ Return(c, "unsent") /\ UNCHANGED pending
       \/ /\ Refused
          /\ Return(c, "closed")
          /\ UNCHANGED pending
       \/ /\ ~Refused
          /\ pending' = Insert(pending, id[c], c)
          /\ pc' = [pc EXCEPT ![c] = "lock"]
          /\ UNCHANGED ret
    /\ UNCHANGED <<nextID, closed, err, doneClosed, writeMu, id, ctxDone, buf,
                   chClosed, answer, thread, conn, daemon>>

\* write takes writeMu.
CallLock(c) ==
    /\ pc[c] = "lock" /\ writeMu = None
    /\ writeMu' = c
    /\ pc' = [pc EXCEPT ![c] = "write"]
    /\ UNCHANGED <<nextID, pending, closed, err, doneClosed, id, ctxDone, buf,
                   chClosed, ret, answer, thread, conn, daemon>>

\* write puts the request on the wire, or fails, and gives writeMu back.  A
\* full socket leaves it blocked with the lock held.
CallWrite(c) ==
    /\ pc[c] = "write"
    /\ writeMu' = None
    /\ \/ /\ WriteOK
          /\ received' = received \cup {<<id[c], c>>}
          /\ pc' = [pc EXCEPT ![c] = "select"]
       \/ /\ WriteFails
          /\ pc' = [pc EXCEPT ![c] = "unsent"]
          /\ UNCHANGED received
    /\ UNCHANGED <<nextID, pending, closed, err, doneClosed, id, ctxDone, buf,
                   chClosed, ret, answer, thread, conn, inbox, peer, stalled>>

\* The write failed: take the call out of the table and return the error.
CallUnsent(c) ==
    /\ pc[c] = "unsent"
    /\ pending' = Delete(pending, id[c])
    /\ Return(c, "unsent")
    /\ UNCHANGED <<nextID, closed, err, doneClosed, writeMu, id, ctxDone, buf,
                   chClosed, answer, thread, conn, daemon>>

\* Mutants: a select without its ctx case, and one that gives up unasked.
CallIgnoresCtx(c) == FALSE
CallGivesUp(c) ==
    /\ pc[c] = "select"
    /\ pc' = [pc EXCEPT ![c] = "cancel"]
    /\ UNCHANGED <<shared, id, ctxDone, buf, chClosed, ret, answer, thread,
                   conn, daemon>>

\* select picks ctx.Done().
CallCancelled(c) ==
    /\ pc[c] = "select" /\ ctxDone[c]
    /\ pc' = [pc EXCEPT ![c] = "cancel"]
    /\ UNCHANGED <<shared, id, ctxDone, buf, chClosed, ret, answer, thread,
                   conn, daemon>>

\* ... then takes the call out of the table and returns ctx.Err().
CallCancel(c) ==
    /\ pc[c] = "cancel"
    /\ pending' = Delete(pending, id[c])
    /\ Return(c, "ctx")
    /\ UNCHANGED <<nextID, closed, err, doneClosed, writeMu, id, ctxDone, buf,
                   chClosed, answer, thread, conn, daemon>>

\* select picks a response.
CallReceive(c) ==
    /\ pc[c] = "select" /\ buf[c] # None
    /\ Return(c, buf[c].kind)
    /\ answer' = [answer EXCEPT ![c] = buf[c].body]
    /\ buf' = [buf EXCEPT ![c] = None]
    /\ UNCHANGED <<shared, id, ctxDone, chClosed, thread, conn, daemon>>

\* select finds the channel closed and empty.
CallWoken(c) ==
    /\ pc[c] = "select" /\ chClosed[c] /\ buf[c] = None
    /\ Return(c, "closed")
    /\ UNCHANGED <<shared, id, ctxDone, buf, chClosed, answer, thread, conn,
                   daemon>>

\* The context of a Call ends: cancelled, or its deadline passes.
CtxEnds(c) ==
    /\ ~ctxDone[c] /\ pc[c] # "returned"
    /\ ctxDone' = [ctxDone EXCEPT ![c] = TRUE]
    /\ UNCHANGED <<shared, pc, id, buf, chClosed, ret, answer, thread, conn,
                   daemon>>

-----------------------------------------------------------------------------
(***************************************************************************)
(* readLoop                                                                *)
(***************************************************************************)

\* ReadMessage hands over the next message, which may be one that was in the
\* reader's buffer when our end was closed.  What is not a response is
\* dropped; a ping has to be ponged and a close frame echoed first.
ReaderRead ==
    /\ step[Reader] = "read" /\ inbox # <<>>
    /\ LET m == Head(inbox) IN
         /\ rmsg' = IF IsResponse(m) THEN m ELSE None
         /\ step' = [step EXCEPT ![Reader] =
              CASE IsResponse(m) -> "take"
                [] m.kind = "other" -> "read"
                [] m.kind = "ping" -> "pong"
                [] m.kind = "close" -> "echo"
                [] m.kind = "bad" -> "enter"]
         /\ cause' = [cause EXCEPT ![Reader] =
              IF m.kind = "bad" THEN "error" ELSE "eof"]
    /\ inbox' = Tail(inbox)
    /\ UNCHANGED <<shared, caller, drain, rch, already, conn, peer, stalled,
                   received>>

\* ReadMessage fails: the daemon is gone (what it had sent may be lost with
\* the connection) or Close has closed our end.
ReaderReadFails ==
    /\ step[Reader] = "read" /\ (~conn \/ ~peer)
    /\ \E e \in {"eof", "error"} : cause' = [cause EXCEPT ![Reader] = e]
    /\ step' = [step EXCEPT ![Reader] = "enter"]
    /\ UNCHANGED <<shared, caller, drain, rmsg, rch, already, conn, daemon>>

\* ReadMessage writes the pong; an error there ends the loop.
ReaderPong ==
    /\ step[Reader] = "pong"
    /\ \/ /\ WriteOK
          /\ step' = [step EXCEPT ![Reader] = "read"]
          /\ UNCHANGED cause
       \/ /\ WriteFails
          /\ step' = [step EXCEPT ![Reader] = "enter"]
          /\ cause' = [cause EXCEPT ![Reader] = "error"]
    /\ UNCHANGED <<shared, caller, drain, rmsg, rch, already, conn, daemon>>

\* ReadMessage echoes the close frame, whatever comes of it, and reports EOF.
ReaderEcho ==
    /\ step[Reader] = "echo" /\ (WriteOK \/ WriteFails)
    /\ step' = [step EXCEPT ![Reader] = "enter"]
    /\ UNCHANGED <<shared, caller, cause, drain, rmsg, rch, already, conn,
                   daemon>>

\* The critical section that looks the response's id up and deletes it.
ReaderTake ==
    /\ step[Reader] = "take"
    /\ pending' = Delete(pending, rmsg.id)
    /\ \/ /\ rmsg.id \in DOMAIN pending
          /\ step' = [step EXCEPT ![Reader] = "send"]
          /\ rch' = pending[rmsg.id]
          /\ UNCHANGED rmsg
       \/ /\ rmsg.id \notin DOMAIN pending
          /\ step' = [step EXCEPT ![Reader] = "read"]
          /\ rmsg' = None
          /\ UNCHANGED rch
    /\ UNCHANGED <<nextID, closed, err, doneClosed, writeMu, caller, cause,
                   drain, already, conn, daemon>>

\* ch <- &m, outside the lock.  Sending on a closed channel would panic and
\* sending on a full one would block: both leave this step disabled.
ReaderSend ==
    /\ step[Reader] = "send" /\ ~chClosed[rch] /\ buf[rch] = None
    /\ buf' = [buf EXCEPT ![rch] = rmsg]
    /\ step' = [step EXCEPT ![Reader] = "read"]
    /\ rch' = None /\ rmsg' = None
    /\ UNCHANGED <<shared, pc, id, ctxDone, chClosed, ret, answer, cause,
                   drain, already, conn, daemon>>

-----------------------------------------------------------------------------
(***************************************************************************)
(* fail and Close                                                          *)
(***************************************************************************)

\* Mutant: every caller of fail goes through.
AnyoneFails == TRUE

\* The test of closed at the top of fail.
FirstToFail == ~closed

\* Mutant: the end of the stream is recorded like any other error.
RecordAny(old, new) == IF old = "none" THEN new ELSE old

\* What fail leaves in err: the first error that is not io.EOF.
Record(old, new) == IF old = "none" /\ new # "eof" THEN new ELSE old

\* Mutant: the table is dropped with the channels in it.
Forgotten(m) == {}

\* The channels of the table that fail has taken over.
Channels(m) == {m[i] : i \in DOMAIN m}

\* The critical section of fail: the first caller empties the table.
FailEnter(f) ==
    /\ step[f] = "enter"
    /\ \/ /\ ~FirstToFail
          /\ step' = [step EXCEPT ![f] = "finished"]
          /\ UNCHANGED <<closed, err, pending, drain>>
       \/ /\ FirstToFail
          /\ step' = [step EXCEPT ![f] = "drain"]
          /\ closed' = TRUE
          /\ err' = Record(err, cause[f])
          /\ drain' = [drain EXCEPT ![f] = Channels(pending)]
          /\ pending' = [i \in {} |-> None]
    /\ UNCHANGED <<nextID, doneClosed, writeMu, caller, cause, rmsg, rch,
                   already, conn, daemon>>

\* close(ch) for one channel of the drained table; closing it twice panics.
FailCloseChan(f) ==
    /\ step[f] = "drain"
    /\ \E c \in drain[f] :
         /\ ~chClosed[c]
         /\ chClosed' = [chClosed EXCEPT ![c] = TRUE]
         /\ drain' = [drain EXCEPT ![f] = @ \ {c}]
    /\ UNCHANGED <<shared, pc, id, ctxDone, buf, ret, answer, step, cause,
                   rmsg, rch, already, conn, daemon>>

\* close(c.done); closing it twice panics.
FailDone(f) ==
    /\ step[f] = "drain" /\ drain[f] = {} /\ ~doneClosed
    /\ doneClosed' = TRUE
    /\ step' = [step EXCEPT ![f] = "finished"]
    /\ UNCHANGED <<nextID, pending, closed, err, writeMu, caller, cause,
                   drain, rmsg, rch, already, conn, daemon>>

\* Close looks at closed ...
CloseBegin(k) ==
    /\ step[k] = "start"
    /\ already' = [already EXCEPT ![k] = closed]
    /\ step' = [step EXCEPT ![k] = "frame"]
    /\ UNCHANGED <<shared, caller, cause, drain, rmsg, rch, conn, daemon>>

\* ... sends a close frame whose fate it ignores, but which can block ...
CloseFrame(k) ==
    /\ step[k] = "frame" /\ (WriteOK \/ WriteFails)
    /\ step' = [step EXCEPT ![k] = "conn"]
    /\ UNCHANGED <<shared, caller, cause, drain, rmsg, rch, already, conn,
                   daemon>>

\* ... closes the connection, and calls fail unless it was closed at first.
CloseConn(k) ==
    /\ step[k] = "conn"
    /\ conn' = FALSE
    /\ step' = [step EXCEPT ![k] = IF already[k] THEN "finished" ELSE "enter"]
    /\ UNCHANGED <<shared, caller, cause, drain, rmsg, rch, already, daemon>>

-----------------------------------------------------------------------------
(***************************************************************************)
(* The daemon (external)                                                   *)
(***************************************************************************)

\* It answers a request it has received, whether or not it did before.
DaemonAnswers ==
    /\ peer /\ conn /\ Len(inbox) < MaxInbox
    /\ \E r \in received, k \in {"result", "error"} :
         inbox' = Append(inbox, [kind |-> k, id |-> r[1], body |-> r[2]])
    /\ UNCHANGED <<shared, caller, thread, conn, peer, stalled, received>>

\* It sends something that is not a response.
DaemonTalks ==
    /\ peer /\ conn /\ Len(inbox) < MaxInbox
    /\ \E k \in Chatter :
         inbox' = Append(inbox, [kind |-> k, id |-> 0, body |-> None])
    /\ UNCHANGED <<shared, caller, thread, conn, peer, stalled, received>>

\* It goes away.
DaemonGone ==
    /\ peer
    /\ peer' = FALSE
    /\ UNCHANGED <<shared, caller, thread, conn, inbox, stalled, received>>

\* It stops reading until the socket is full, or reads again.
DaemonStalls ==
    /\ DaemonMayStall
    /\ stalled' = ~stalled
    /\ UNCHANGED <<shared, caller, thread, conn, inbox, peer, received>>

-----------------------------------------------------------------------------
(***************************************************************************)
(* The specification                                                       *)
(***************************************************************************)

\* What a Call does by itself once it has begun.
CallStep(c) ==
    \/ CallRegister(c) \/ CallLock(c) \/ CallWrite(c) \/ CallUnsent(c)
    \/ CallCancelled(c) \/ CallCancel(c) \/ CallReceive(c) \/ CallWoken(c)

FailStep(f) == FailEnter(f) \/ FailCloseChan(f) \/ FailDone(f)

ReaderStep ==
    \/ ReaderRead \/ ReaderReadFails \/ ReaderPong \/ ReaderEcho
    \/ ReaderTake \/ ReaderSend

CloseStep(k) == CloseFrame(k) \/ CloseConn(k)

DaemonStep == DaemonAnswers \/ DaemonTalks \/ DaemonGone \/ DaemonStalls

Next ==
    \/ \E c \in Calls : CallBegin(c) \/ CallStep(c) \/ CtxEnds(c)
    \/ \E k \in Closers : CloseBegin(k) \/ CloseStep(k)
    \/ \E f \in Failers : FailStep(f)
    \/ ReaderStep
    \/ DaemonStep

Spec == Init /\ [][Next]_vars

\* Goroutines that can run do run; nobody has to start a Call or a Close, and
\* the daemon and the contexts owe nothing.
Fairness ==
    /\ \A c \in Calls : WF_vars(CallStep(c))
    /\ \A k \in Closers : WF_vars(CloseStep(k))
    /\ \A f \in Failers : WF_vars(FailStep(f))
    /\ WF_vars(ReaderStep)

FairSpec == Spec /\ Fairness

-----------------------------------------------------------------------------
(***************************************************************************)
(* Properties                                                              *)
(***************************************************************************)

\* A Call that has registered and not yet returned.
InFlight(c) == pc[c] \in {"lock", "write", "unsent", "select", "cancel"}

\* Every variable keeps to the values its field or local can have.
TypeOK ==
    /\ nextID \in Nat
    /\ DOMAIN pending \subseteq Nat /\ pending \in [DOMAIN pending -> Calls]
    /\ closed \in BOOLEAN /\ err \in {"none", "error"} /\ doneClosed \in BOOLEAN
    /\ writeMu \in Calls \cup {None}
    /\ pc \in [Calls -> CallPlaces]
    /\ id \in [Calls -> Nat] /\ ctxDone \in [Calls -> BOOLEAN]
    /\ buf \in [Calls -> Messages \cup {None}]
    /\ chClosed \in [Calls -> BOOLEAN]
    /\ ret \in [Calls -> {"none", "closed", "unsent", "ctx"} \cup Kinds]
    /\ answer \in [Calls -> Calls \cup {None}]
    /\ step \in [Failers -> ThreadPlaces]
    /\ cause \in [Failers -> {"eof", "error"}]
    /\ drain \in [Failers -> SUBSET Calls]
    /\ rmsg \in Messages \cup {None} /\ rch \in Calls \cup {None}
    /\ already \in [Closers -> BOOLEAN]
    /\ conn \in BOOLEAN /\ peer \in BOOLEAN /\ stalled \in BOOLEAN
    /\ inbox \in Seq(Messages)
    /\ received \in SUBSET (Nat \X Calls)

\* readLoop never sends on a closed channel, and fail never closes a channel
\* or done a second time: each would panic and take the process down.
NoChannelPanic ==
    /\ step[Reader] = "send" => ~chClosed[rch]
    /\ \A f \in Failers : step[f] = "drain" =>
         /\ ~doneClosed
         /\ \A c \in drain[f] : ~chClosed[c]

\* readLoop never blocks handing over a response: the channel has room,
\* because whoever takes an entry out of the table is the only one to use it.
ReaderNeverBlocks == step[Reader] = "send" => buf[rch] = None

\* A Call returns the response to the request it sent, never another's.
OwnAnswer == \A c \in Calls : answer[c] \in {None, c}

\* Nobody waits for nothing: a call in flight is in the table, or its channel
\* has something or is closed, or a goroutine is on its way to do one of these.
NoLostWaiter ==
    \A c \in Calls : InFlight(c) =>
       \/ id[c] \in DOMAIN pending /\ pending[id[c]] = c
       \/ step[Reader] = "send" /\ rch = c
       \/ \E f \in Failers : c \in drain[f]
       \/ buf[c] # None
       \/ chClosed[c]

\* The table holds calls in flight only: no way of returning leaves its entry
\* behind, and a closed client registers nobody.
NoPendingLeak ==
    /\ \A i \in DOMAIN pending : InFlight(pending[i]) /\ id[pending[i]] = i
    /\ closed => DOMAIN pending = {}

\* closed and err settle together and once, so closedErr may read err without
\* the lock.
ClosedIsFinal == [][closed => closed' /\ err' = err]_vars

\* Once the daemon has gone, every Call in progress returns.
CallsReturnAfterLoss ==
    \A c \in Calls : (~peer /\ pc[c] # "start") ~> (pc[c] = "returned")

\* A Call whose context ends returns, unless it is caught behind a daemon that
\* does not read: a write has no deadline.
ContextBoundsCall ==
    \A c \in Calls :
       (ctxDone[c] /\ pc[c] # "start") ~> (pc[c] = "returned" \/ stalled)

\* Once a Close has returned, even one that found the client closed already,
\* every Call in progress returns, whatever its context says.
CloseWakesCalls ==
    \A k \in Closers, c \in Calls :
       (step[k] = "finished" /\ pc[c] # "start") ~> (pc[c] = "returned")

-----------------------------------------------------------------------------
(***************************************************************************)
(* The inductive invariant behind these                                    *)
(***************************************************************************)

\* An id belongs to one call.
IdInv ==
    /\ \A c \in Calls : (pc[c] = "start" <=> id[c] = 0) /\ id[c] <= nextID
    /\ \A c, d \in Calls : id[c] = id[d] /\ id[c] # 0 => c = d

\* A channel that may still be used: open and empty.
Fresh(c) == buf[c] = None /\ ~chClosed[c]

\* Begun and registered, so known to the table at some point.
Known(c) == pc[c] \notin {"start", "register"}

\* A channel is in one pair of hands: the table's, readLoop's or one fail's.
OwnerInv ==
    /\ \A c \in Calls : ~Known(c) => Fresh(c)
    /\ \A i \in DOMAIN pending :
         InFlight(pending[i]) /\ id[pending[i]] = i /\ Fresh(pending[i])
    /\ step[Reader] = "take" => rmsg \in Messages /\ IsResponse(rmsg)
    /\ step[Reader] = "send" =>
         /\ rch \in Calls /\ Known(rch) /\ Fresh(rch)
         /\ id[rch] \notin DOMAIN pending
         /\ rmsg \in Messages /\ IsResponse(rmsg) /\ rmsg.id = id[rch]
         /\ \A f \in Failers : rch \notin drain[f]
    /\ \A f \in Failers : \A c \in drain[f] :
         /\ step[f] = "drain" /\ Known(c) /\ Fresh(c)
         /\ id[c] \notin DOMAIN pending
    /\ \A f \in Failers : step[f] = "drain" => closed /\ ~doneClosed
    /\ \A f, g \in Failers : step[f] = "drain" /\ step[g] = "drain" => f = g
    /\ closed => DOMAIN pending = {}
    /\ doneClosed => closed

\* A response is about the call whose id it carries.
Genuine(m) ==
    IsResponse(m) => m.body \in Calls /\ m.id = id[m.body] /\ m.id # 0

MsgInv ==
    /\ \A k \in 1..Len(inbox) : Genuine(inbox[k])
    /\ rmsg # None => Genuine(rmsg)
    /\ \A r \in received : r[1] = id[r[2]] /\ r[1] # 0
    /\ \A c \in Calls : buf[c] # None => IsResponse(buf[c]) /\ buf[c].body = c
    /\ OwnAnswer

IInv == TypeOK /\ IdInv /\ OwnerInv /\ MsgInv /\ NoLostWaiter

-----------------------------------------------------------------------------
(***************************************************************************)
(* The promise of RpcClient                                                *)
(***************************************************************************)

phaseBar ==
    [c \in Calls |-> CASE pc[c] = "start" -> "idle"
                       [] pc[c] = "returned" -> "done"
                       [] OTHER -> "active"]
askedBar == {c \in Calls : \E r \in received : r[2] = c}
expiredBar == {c \in Calls : ctxDone[c]}

Rpc == INSTANCE RpcClient
    WITH phase <- phaseBar, outcome <- ret, asked <- askedBar,
         expired <- expiredBar, down <- closed

\* The client implements RpcClient: what a Call returns tells the truth about
\* the request (a send error means the daemon never had it, the closed error
\* that the client is closed, a response that the daemon was asked).
ImplementsRpc == Rpc!RpcSpec
=============================================================================
