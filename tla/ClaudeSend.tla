----------------------------- MODULE ClaudeSend -----------------------------
(***************************************************************************)
(* One run of cmd/claude-send: resolve the target, bind an inbox (with its *)
(* key file and registry entry), send, wait for answers, and clean up as   *)
(* the deferred calls unwind.  Beside the main goroutine run the one in    *)
(* Server.Serve that closes the inbox when the context ends, and one       *)
(* goroutine for each connection that brings a frame.                      *)
(***************************************************************************)
EXTENDS Naturals, FiniteSets

CONSTANTS
    Symlinked,      \* the socket directory is reached through a symbolic link
    Frames,         \* user frames that reach the inbox, each on a connection
    Strangers,      \* those that come from another process than the target
    Cap,            \* capacity of the replies channel (16)
    MayCrash        \* whether the process may be killed

ASSUME Flags == Symlinked \in BOOLEAN /\ MayCrash \in BOOLEAN
ASSUME FrameSets == IsFiniteSet(Frames) /\ Strangers \subseteq Frames
ASSUME Capacity == Cap \in Nat

VARIABLES
    opt,        \* the command line; anySender is also a target without a pid
    pc,         \* the main goroutine
    watcher,    \* the goroutine in Serve: "off", "watch", "ln", "key", "done"
    code,       \* the exit status to come
    ctxDone,    \* the context has ended: timeout or signal
    closed,     \* Server.closed
    sock,       \* the inbox's socket exists
    tmp,        \* the key file's temporary: "none", "partial", "full"
    key,        \* the key file: "none", "partial", "full"
    entry,      \* the registry entry exists
    sent,       \* the message has been sent
    frame,      \* per frame: "none", "handler", "queued", "ignored", "read"
    received    \* await's count

Options == [wait : {"reply", "replies", "none"}, publishKey : BOOLEAN,
            announce : BOOLEAN, anySender : BOOLEAN]

main == <<opt, pc, code, sent, received>>
files == <<sock, tmp, key, entry>>
vars == <<main, watcher, ctxDone, closed, files, frame>>

Running == pc \notin {"exit", "killed"}

Init ==
    /\ opt \in Options
    /\ pc = "parse" /\ watcher = "off" /\ code = "none" /\ ctxDone = FALSE
    /\ closed = FALSE /\ sock = FALSE /\ tmp = "none" /\ key = "none"
    /\ entry = FALSE /\ sent = FALSE
    /\ frame = [f \in Frames |-> "none"] /\ received = 0

-----------------------------------------------------------------------------
(* The main goroutine up to await *)

\* Leaving send with status s, by way of the deferred calls from place p on.
Leave(p, s) == pc' = p /\ code' = s

\* run reads the flags and the text; send gets a complete command line only.
Parse ==
    /\ pc = "parse"
    /\ \/ pc' = "resolve" /\ UNCHANGED code
       \/ Leave("exit", "error")
    /\ UNCHANGED <<opt, sent, received, watcher, ctxDone, closed, files, frame>>

\* resolve: the target's socket is found and its key file read, or not.
Resolve ==
    /\ pc = "resolve"
    /\ \/ pc' = "check" /\ UNCHANGED code
       \/ Leave("exit", "notarget")
    /\ UNCHANGED <<opt, sent, received, watcher, ctxDone, closed, files, frame>>

\* Alive: the target is still the process that published the socket, or not.
CheckTarget ==
    /\ pc = "check"
    /\ \/ pc' = (IF opt.wait = "none" THEN "dial" ELSE "bind") /\ UNCHANGED code
       \/ Leave("exit", "notarget")
    /\ UNCHANGED <<opt, sent, received, watcher, ctxDone, closed, files, frame>>

\* Listen binds the socket.
Bind ==
    /\ pc = "bind"
    /\ \/ /\ sock' = TRUE
          /\ pc' = (IF opt.publishKey THEN "tmp" ELSE "start")
          /\ UNCHANGED code
       \/ Leave("exit", "error") /\ UNCHANGED sock
    /\ UNCHANGED <<opt, sent, received, watcher, ctxDone, closed, tmp, key,
                   entry, frame>>

\* Mutant: the key file is written in place.
InPlace(k) == key' = k /\ UNCHANGED tmp

\* writeKey writes to a temporary name.
Aside(k) == tmp' = k /\ UNCHANGED key

\* writeKey: the file is created and filled, which takes more than one step.
WriteTmp ==
    /\ pc = "tmp"
    /\ Aside(IF tmp = "none" /\ key = "none" THEN "partial" ELSE "full")
    /\ pc' = (IF tmp = "none" /\ key = "none" THEN "tmp" ELSE "rename")
    /\ UNCHANGED <<opt, code, sent, received, watcher, ctxDone, closed, sock,
                   entry, frame>>

\* ... and renamed into place.
RenameKey ==
    /\ pc = "rename"
    /\ tmp' = "none" /\ key' = tmp
    /\ pc' = "start"
    /\ UNCHANGED <<opt, code, sent, received, watcher, ctxDone, closed, sock,
                   entry, frame>>

\* writeKey fails: Listen closes the server it was about to return.
KeyFails ==
    /\ pc \in {"tmp", "rename"}
    /\ tmp' = IF pc = "rename" THEN "none" ELSE tmp
    /\ Leave("close", "error")
    /\ UNCHANGED <<opt, sent, received, watcher, ctxDone, closed, sock, key,
                   entry, frame>>

\* srv.Start.
Start ==
    /\ pc = "start"
    /\ watcher' = "watch"
    /\ pc' = IF opt.announce THEN "announce" ELSE "dial"
    /\ UNCHANGED <<opt, code, sent, received, ctxDone, closed, files, frame>>

\* NewSessionEntry and PublishSession; without an entry there is nothing to
\* unpublish.
Announce ==
    /\ pc = "announce"
    /\ \/ pc' = "dial" /\ entry' = TRUE /\ UNCHANGED code
       \/ Leave("close", "error") /\ UNCHANGED entry
    /\ UNCHANGED <<opt, sent, received, watcher, ctxDone, closed, sock, tmp,
                   key, frame>>

\* Where the deferred calls begin once there may be an inbox.
Unwind == IF opt.wait = "none" THEN "exit" ELSE "unpublish"

\* Dial: connect and present the token.
Dial ==
    /\ pc = "dial"
    /\ \/ pc' = "user" /\ UNCHANGED code
       \/ Leave(Unwind, "error")
    /\ UNCHANGED <<opt, sent, received, watcher, ctxDone, closed, files, frame>>

\* SendUser.
SendUser ==
    /\ pc = "user"
    /\ \/ /\ sent' = TRUE
          /\ \/ opt.wait = "none" /\ Leave("exit", "ok")
             \/ opt.wait # "none" /\ pc' = "await" /\ UNCHANGED code
       \/ Leave(Unwind, "error") /\ UNCHANGED sent
    /\ UNCHANGED <<opt, received, watcher, ctxDone, closed, files, frame>>

-----------------------------------------------------------------------------
(* await *)

\* The exit status when the context ends.
WindowStatus == IF opt.wait = "replies" /\ received > 0 THEN "ok" ELSE "timeout"

\* select picks ctx.Done().
AwaitTimeout ==
    /\ pc = "await" /\ ctxDone
    /\ Leave("unpublish", WindowStatus)
    /\ UNCHANGED <<opt, sent, received, watcher, ctxDone, closed, files,
                   frame>>

\* Mutant: the answer stays in the channel.
Peek(f) == UNCHANGED frame

\* f := <-replies.
Receive(f) == frame' = [frame EXCEPT ![f] = "read"]

\* select picks an answer.
AwaitReply ==
    /\ pc = "await"
    /\ \E f \in Frames : frame[f] = "queued" /\ Receive(f)
    /\ received' = received + 1
    /\ \/ opt.wait = "replies" /\ UNCHANGED <<pc, code>>
       \/ opt.wait = "reply" /\ Leave("unpublish", "ok")
    /\ UNCHANGED <<opt, sent, watcher, ctxDone, closed, files>>

-----------------------------------------------------------------------------
(* The deferred calls, and Server.Close *)

\* UnpublishSession, if there was an entry.
Unpublish ==
    /\ pc = "unpublish"
    /\ entry' = FALSE
    /\ pc' = "close"
    /\ UNCHANGED <<opt, code, sent, received, watcher, ctxDone, closed, sock,
                   tmp, key, frame>>

\* Mutant: Close waits for the handlers as Serve does.
WaitHandlers == \A f \in Frames : frame[f] # "handler"

\* Close waits for nobody.
NoWait == TRUE

\* srv.Close(): it returns at once when the watcher has been there before.
CloseMain ==
    /\ pc = "close" /\ NoWait
    /\ closed' = TRUE
    /\ pc' = IF closed THEN "exit" ELSE "closeln"
    /\ UNCHANGED <<opt, code, sent, received, watcher, ctxDone, files, frame>>

\* ln.Close and os.Remove: the socket is gone.
CloseMainSocket ==
    /\ pc = "closeln"
    /\ sock' = FALSE
    /\ pc' = "closekey"
    /\ UNCHANGED <<opt, code, sent, received, watcher, ctxDone, closed, tmp,
                   key, entry, frame>>

\* Mutant: the key file stays.
KeyStays == key

\* removeKey.  The name is made from the canonical path of the socket, which
\* no longer exists: what it falls back to differs behind a symbolic link.
KeyAfterRemoval == IF Symlinked THEN key ELSE "none"

CloseMainKey ==
    /\ pc = "closekey"
    /\ key' = KeyAfterRemoval
    /\ pc' = "exit"
    /\ UNCHANGED <<opt, code, sent, received, watcher, ctxDone, closed, sock,
                   tmp, entry, frame>>

\* The goroutine in Serve: once the context ends it calls Close.
Watch ==
    /\ Running /\ watcher = "watch" /\ ctxDone
    /\ closed' = TRUE
    /\ watcher' = IF closed THEN "done" ELSE "ln"
    /\ UNCHANGED <<main, ctxDone, files, frame>>

WatchSocket ==
    /\ Running /\ watcher = "ln"
    /\ sock' = FALSE
    /\ watcher' = "key"
    /\ UNCHANGED <<main, ctxDone, closed, tmp, key, entry, frame>>

WatchKey ==
    /\ Running /\ watcher = "key"
    /\ key' = KeyAfterRemoval
    /\ watcher' = "done"
    /\ UNCHANGED <<main, ctxDone, closed, sock, tmp, entry, frame>>

-----------------------------------------------------------------------------
(* The inbox's handlers *)

\* A frame reaches OnUser, on a connection that was made while the socket was
\* there: Close leaves such connections alone.
FrameArrives(f) ==
    /\ Running /\ watcher # "off" /\ frame[f] = "none"
    /\ frame' = [frame EXCEPT ![f] = "handler"]
    /\ UNCHANGED <<main, watcher, ctxDone, closed, files>>

\* Mutant: every sender is heard.
HearAll(f) == TRUE

\* accepter: the sender's pid is the target's, or nobody asked.
Accepted(f) == opt.anySender \/ f \notin Strangers

\* deliver: the frame goes to await if there is room, or is ignored.
Deliver(f) ==
    /\ Running /\ frame[f] = "handler"
    /\ \/ /\ Accepted(f)
          /\ Cardinality({g \in Frames : frame[g] = "queued"}) < Cap
          /\ frame' = [frame EXCEPT ![f] = "queued"]
       \/ ~Accepted(f) /\ frame' = [frame EXCEPT ![f] = "ignored"]
    /\ UNCHANGED <<main, watcher, ctxDone, closed, files>>

-----------------------------------------------------------------------------

\* The timeout passes or a signal comes.
CtxEnds ==
    /\ Running /\ pc \notin {"parse", "resolve", "check"} /\ ~ctxDone
    /\ ctxDone' = TRUE
    /\ UNCHANGED <<main, watcher, closed, files, frame>>

\* The process is killed.
Killed ==
    /\ MayCrash /\ Running
    /\ pc' = "killed"
    /\ UNCHANGED <<opt, code, sent, received, watcher, ctxDone, closed, files,
                   frame>>

MainStep ==
    \/ Parse \/ Resolve \/ CheckTarget \/ Bind \/ WriteTmp \/ RenameKey
    \/ KeyFails \/ Start \/ Announce \/ Dial \/ SendUser
    \/ AwaitTimeout \/ AwaitReply
    \/ Unpublish \/ CloseMain \/ CloseMainSocket \/ CloseMainKey

Next ==
    \/ MainStep
    \/ Watch \/ WatchSocket \/ WatchKey
    \/ \E f \in Frames : FrameArrives(f) \/ Deliver(f)
    \/ CtxEnds \/ Killed

Spec == Init /\ [][Next]_vars

\* The main goroutine runs, and the timeout passes in the end.
FairSpec == Spec /\ WF_vars(MainStep) /\ WF_vars(CtxEnds)

-----------------------------------------------------------------------------
(* Properties *)

\* Every variable keeps to the values it can have.
TypeOK ==
    /\ opt \in Options
    /\ pc \in {"parse", "resolve", "check", "bind", "tmp", "rename", "start",
               "announce", "dial", "user", "await", "unpublish", "close",
               "closeln", "closekey", "exit", "killed"}
    /\ watcher \in {"off", "watch", "ln", "key", "done"}
    /\ code \in {"none", "ok", "error", "timeout", "notarget"}
    /\ ctxDone \in BOOLEAN /\ closed \in BOOLEAN /\ sock \in BOOLEAN
    /\ entry \in BOOLEAN /\ sent \in BOOLEAN
    /\ tmp \in {"none", "partial", "full"}
    /\ key \in {"none", "partial", "full"}
    /\ frame \in [Frames -> {"none", "handler", "queued", "ignored", "read"}]
    /\ received \in 0..Cardinality(Frames)

\* Nobody ever finds half a key file, wherever the process is killed.
KeyWhole == key # "partial"

\* Status 0 means that the message was sent and, when waiting, that the
\* process it was sent to has answered; and once await has read an answer the
\* status is 0, whether the wait then ends or the window does.  The window is
\* kept open to its end: only then is an answer that has arrived left unread.
StatusMeansAnswer ==
    pc = "exit" =>
       /\ code = "ok" => sent
       /\ code = "ok" /\ opt.wait # "none" =>
            \E f \in Frames :
               frame[f] = "read" /\ (opt.anySender \/ f \notin Strangers)
       /\ received > 0 => code = "ok"
       /\ code = "timeout" \/ (code = "ok" /\ opt.wait = "replies") => ctxDone

\* A run leaves no registry entry behind, and no socket or key file either,
\* unless it exits while the goroutine in Serve, whose Close came first because
\* the context had ended, is still on its way to removing them, or the name of
\* the key file is lost behind a symbolic link.
CleanUnlessCutShort ==
    pc = "exit" =>
       /\ ~entry
       /\ sock => watcher = "ln"
       /\ key # "none" => Symlinked \/ watcher \in {"ln", "key"}

\* A run that exits has removed its socket and its key file, whoever called
\* Close first and wherever the socket directory is.
RemovedOnExit == pc = "exit" => ~sock /\ key = "none"

\* The command ends, whoever floods its inbox.
Exits == <>~Running
=============================================================================
