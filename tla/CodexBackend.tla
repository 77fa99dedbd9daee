---------------------------- MODULE CodexBackend ----------------------------
(***************************************************************************)
(* deliver/codex.go: the backend that delivers into the Codex thread that  *)
(* launched this process.  Adopt latches the thread from request metadata, *)
(* Deliver checks, connects and queues, Close drops the cached connection; *)
(* all may run at once.  A step ends where the code gives up its mutex or  *)
(* waits for the daemon.                                                   *)
(*                                                                         *)
(* A member of Delivers is one invocation of Deliver.  It dials at most    *)
(* once, so the connection it dials has its name.  A connection is a       *)
(* codexmsg.Client and is used here by what RpcClient promises: a call ends*)
(* with a response only if the daemon was asked, with an error otherwise.  *)
(***************************************************************************)
EXTENDS Naturals, FiniteSets

CONSTANTS
    Delivers,   \* invocations of Deliver, each one its message as well
    Closers,    \* invocations of Close by the owner of the backend
    Threads,    \* thread ids the harness may name
    None,       \* the empty thread id, no client
    MaxOutages  \* bound: how often the daemon goes away or comes back

ASSUME NoneApart == None \notin Threads /\ None \notin Delivers
ASSUME ClosersApart == Closers \cap Delivers = {}
ASSUME OutageBound == MaxOutages \in Nat

VARIABLES
    thread,     \* codexBackend.thread
    disabled,   \* codexBackend.disabled
    client,     \* codexBackend.client
    pc,         \* where each Deliver and each Close stands
    target,     \* the thread each Deliver read
    use,        \* the connection each Deliver queues through
    hold,       \* the connection Close took out of the backend
    ret,        \* how each Deliver returned
    live,       \* per connection: "none", "open", "dead" (no daemon), "closed"
    inited,     \* connections that have been initialized
    sent,       \* requests on the wire: <<message, thread, connection>>
    stored,     \* per message: what the daemon's queue holds of it
    reply,      \* per message: the daemon's response; "lost" never reaches us
    up,         \* the daemon is reachable
    outages     \* how often that changed

backend == <<thread, disabled, client>>
locals == <<pc, target, use, hold, ret>>
wire == <<live, inited, sent>>
daemon == <<stored, reply, up, outages>>
vars == <<backend, locals, wire, daemon>>

Procs == Delivers \cup Closers

Errors == {"refused", "toolarge", "nodial", "noinit", "failed"}

Init ==
    /\ thread = None /\ disabled = FALSE /\ client = None
    /\ pc = [p \in Procs |-> "start"]
    /\ target = [d \in Delivers |-> None] /\ use = [d \in Delivers |-> None]
    /\ hold = [p \in Procs |-> None] /\ ret = [d \in Delivers |-> "none"]
    /\ live = [d \in Delivers |-> "none"] /\ inited = {} /\ sent = {}
    /\ stored = [d \in Delivers |-> "no"] /\ reply = [d \in Delivers |-> "none"]
    /\ up = TRUE /\ outages = 0

Goto(p, place) == pc' = [pc EXCEPT ![p] = place]

Return(d, r) == Goto(d, "done") /\ ret' = [ret EXCEPT ![d] = r]

\* Client.Close on connection c.
Shut(c) == live' = [live EXCEPT ![c] = "closed"]

-----------------------------------------------------------------------------

\* Mutant: a second thread id takes over.
AdoptRetargets(t) ==
    /\ thread' = t
    /\ UNCHANGED <<disabled, client, locals, wire, daemon>>

\* Adopt with metadata that names thread t.  (Without a thread id it changes
\* nothing.)
Adopt(t) ==
    /\ ~disabled /\ thread # t
    /\ \/ thread = None /\ thread' = t /\ UNCHANGED disabled
       \/ thread # None /\ thread' = None /\ disabled' = TRUE
    /\ UNCHANGED <<client, locals, wire, daemon>>

\* Deliver calls Available, which looks at thread and disabled under the lock
\* and at the daemon's socket outside it.
Check(d) ==
    /\ pc[d] = "start"
    /\ \/ ~disabled /\ thread # None /\ Goto(d, "latch") /\ UNCHANGED ret
       \/ (disabled \/ thread = None \/ ~up) /\ Return(d, "refused")
    /\ UNCHANGED <<backend, target, use, hold, wire, daemon>>

\* It locks again to read the thread, then measures the message.
Latch(d) ==
    /\ pc[d] = "latch"
    /\ target' = [target EXCEPT ![d] = thread]
    /\ \/ Goto(d, "connect") /\ UNCHANGED ret
       \/ Return(d, "toolarge")
    /\ UNCHANGED <<backend, use, hold, wire, daemon>>

\* connect finds a cached client, or goes on to dial.
Connect(d) ==
    /\ pc[d] = "connect"
    /\ \/ /\ client # None
          /\ use' = [use EXCEPT ![d] = client]
          /\ Goto(d, "queue")
       \/ client = None /\ Goto(d, "dial") /\ UNCHANGED use
    /\ UNCHANGED <<backend, target, hold, ret, wire, daemon>>

Dial(d) ==
    /\ pc[d] = "dial"
    /\ \/ /\ up
          /\ live' = [live EXCEPT ![d] = "open"]
          /\ Goto(d, "init")
          /\ UNCHANGED ret
       \/ Return(d, "nodial") /\ UNCHANGED live
    /\ UNCHANGED <<backend, target, use, hold, inited, sent, daemon>>

\* Mutant: the connection is handed on without the handshake.
SkipInitialize(d) ==
    /\ pc[d] = "init"
    /\ Goto(d, "install")
    /\ UNCHANGED <<backend, target, use, hold, ret, wire, daemon>>

\* Initialize; a connection that cannot be initialized is closed.
Initialize(d) ==
    /\ pc[d] = "init"
    /\ \/ /\ live[d] = "open"
          /\ inited' = inited \cup {d}
          /\ Goto(d, "install")
          /\ UNCHANGED <<live, ret>>
       \/ Shut(d) /\ Return(d, "noinit") /\ UNCHANGED inited
    /\ UNCHANGED <<backend, target, use, hold, sent, daemon>>

\* Mutant: the last to dial wins, and the cached client is forgotten.
InstallOverwrites(d) ==
    /\ pc[d] = "install"
    /\ client' = d
    /\ use' = [use EXCEPT ![d] = d]
    /\ Goto(d, "queue")
    /\ UNCHANGED <<thread, disabled, target, hold, ret, wire, daemon>>

\* connect caches its client unless another caller won the race; then it will
\* close its own and use the other.
Install(d) ==
    /\ pc[d] = "install"
    /\ \/ /\ client # None
          /\ use' = [use EXCEPT ![d] = client]
          /\ Goto(d, "surplus")
          /\ UNCHANGED client
       \/ /\ client = None
          /\ client' = d
          /\ use' = [use EXCEPT ![d] = d]
          /\ Goto(d, "queue")
    /\ UNCHANGED <<thread, disabled, target, hold, ret, wire, daemon>>

CloseSurplus(d) ==
    /\ pc[d] = "surplus"
    /\ Shut(d)
    /\ Goto(d, "queue")
    /\ UNCHANGED <<backend, target, use, hold, ret, inited, sent, daemon>>

\* QueueMessage: the request goes out, or the client is known to be closed or
\* the write fails.
Queue(d) ==
    /\ pc[d] = "queue"
    /\ \/ /\ live[use[d]] = "open"
          /\ sent' = sent \cup {<<d, target[d], use[d]>>}
          /\ Goto(d, "wait")
       \/ /\ live[use[d]] # "open"
          /\ Goto(d, "drop")
          /\ UNCHANGED sent
    /\ UNCHANGED <<backend, target, use, hold, ret, live, inited, daemon>>

\* Mutants: an acknowledgement is taken for proof of the content, and the
\* response handed on as it is.
Trusting(d) == "stored"
PassedOn(d) == reply[d]

\* What the echo in the daemon's response is worth.
Verdict(d) == IF reply[d] = "echo" THEN "stored" ELSE "accepted"

\* The response arrives.
Answered(d) ==
    /\ pc[d] = "wait" /\ reply[d] \notin {"none", "lost"}
    /\ \/ reply[d] = "error" /\ Goto(d, "drop") /\ UNCHANGED ret
       \/ reply[d] # "error" /\ Return(d, Verdict(d))
    /\ UNCHANGED <<backend, target, use, hold, wire, daemon>>

\* No response: the context ends, or the connection is lost or closed.
Unanswered(d) ==
    /\ pc[d] = "wait"
    /\ Goto(d, "drop")
    /\ UNCHANGED <<backend, target, use, hold, ret, wire, daemon>>

\* Mutant: Close leaves the client where it is.
TakeKeeps(p) ==
    /\ pc[p] = IF p \in Delivers THEN "drop" ELSE "start"
    /\ hold' = [hold EXCEPT ![p] = client]
    /\ Goto(p, "shut")
    /\ UNCHANGED <<backend, target, use, ret, wire, daemon>>

\* Close, called by its owner or by a Deliver that failed, takes whatever
\* client is cached by now out of the backend ...
Take(p) ==
    /\ pc[p] = IF p \in Delivers THEN "drop" ELSE "start"
    /\ hold' = [hold EXCEPT ![p] = client]
    /\ client' = None
    /\ Goto(p, "shut")
    /\ UNCHANGED <<thread, disabled, target, use, ret, wire, daemon>>

\* ... and closes it outside the lock.
ShutHeld(p) ==
    /\ pc[p] = "shut"
    /\ \/ hold[p] # None /\ Shut(hold[p])
       \/ hold[p] = None /\ UNCHANGED live
    /\ \/ p \in Delivers /\ Return(p, "failed")
       \/ p \in Closers /\ Goto(p, "done") /\ UNCHANGED ret
    /\ hold' = [hold EXCEPT ![p] = None]
    /\ UNCHANGED <<backend, target, use, inited, sent, daemon>>

-----------------------------------------------------------------------------
(* The daemon (external). *)

\* A response needs the connection it goes back on.
Over(c, r) == IF live[c] = "open" THEN r ELSE "lost"

\* It works on a request it has been sent, even when we have closed the
\* connection since: it refuses, or queues the message and echoes what it
\* queued, or queues it and echoes something else or nothing.
DaemonQueues ==
    /\ up
    /\ \E s \in sent :
         /\ reply[s[1]] = "none"
         /\ \/ /\ reply' = [reply EXCEPT ![s[1]] = Over(s[3], "error")]
               /\ UNCHANGED stored
            \/ /\ s[2] # None
               /\ \E w \in {<<"exact", "echo">>, <<"exact", "silent">>,
                            <<"altered", "other">>} :
                    /\ stored' = [stored EXCEPT ![s[1]] = w[1]]
                    /\ reply' = [reply EXCEPT ![s[1]] = Over(s[3], w[2])]
    /\ UNCHANGED <<backend, locals, wire, up, outages>>

\* It goes away, and with it every connection and every request it has not
\* worked on, or comes back.
DaemonOutage ==
    /\ outages < MaxOutages
    /\ outages' = outages + 1
    /\ up' = ~up
    /\ live' = [c \in Delivers |->
                  IF up /\ live[c] = "open" THEN "dead" ELSE live[c]]
    /\ reply' = [d \in Delivers |->
                   IF up /\ reply[d] = "none" /\ \E s \in sent : s[1] = d
                   THEN "lost" ELSE reply[d]]
    /\ UNCHANGED <<backend, locals, inited, sent, stored>>

-----------------------------------------------------------------------------

DeliverStep(d) ==
    \/ Latch(d) \/ Connect(d) \/ Dial(d) \/ Initialize(d) \/ Install(d)
    \/ CloseSurplus(d) \/ Queue(d) \/ Answered(d) \/ Unanswered(d)
    \/ Take(d) \/ ShutHeld(d)

Next ==
    \/ \E t \in Threads : Adopt(t)
    \/ \E d \in Delivers : Check(d) \/ DeliverStep(d)
    \/ \E p \in Closers : Take(p) \/ ShutHeld(p)
    \/ DaemonQueues \/ DaemonOutage

Spec == Init /\ [][Next]_vars

-----------------------------------------------------------------------------
(* Properties *)

\* Every variable keeps to the values its field or local can have.
TypeOK ==
    /\ thread \in Threads \cup {None} /\ disabled \in BOOLEAN
    /\ client \in Delivers \cup {None}
    /\ pc \in [Procs -> {"start", "latch", "connect", "dial", "init", "install",
                         "surplus", "queue", "wait", "drop", "shut", "done"}]
    /\ target \in [Delivers -> Threads \cup {None}]
    /\ use \in [Delivers -> Delivers \cup {None}]
    /\ hold \in [Procs -> Delivers \cup {None}]
    /\ ret \in [Delivers -> {"none", "stored", "accepted"} \cup Errors]
    /\ live \in [Delivers -> {"none", "open", "dead", "closed"}]
    /\ inited \subseteq Delivers
    /\ sent \subseteq Delivers \X (Threads \cup {None}) \X Delivers
    /\ stored \in [Delivers -> {"no", "exact", "altered"}]
    /\ reply \in [Delivers ->
                    {"none", "lost", "error", "echo", "silent", "other"}]
    /\ up \in BOOLEAN /\ outages \in Nat

\* No connection is lost track of: one that is not closed is the cached one,
\* or in the hands of the Deliver that dialled it or of a Close.
NoConnectionLeak ==
    \A c \in Delivers : live[c] \in {"open", "dead"} =>
       \/ client = c
       \/ pc[c] \in {"init", "install", "surplus"}
       \/ \E p \in Procs : pc[p] = "shut" /\ hold[p] = c

\* A Deliver that failed leaves the connection it failed on out of the cache
\* for good, so that the next one redials.
FailedNotCached ==
    \A d \in Delivers : ret[d] = "failed" => client # use[d]

\* Nothing is queued through a connection that has not been initialized: the
\* daemon would refuse it.
InitializedFirst == \A s \in sent : s[3] \in inited

\* No two requests name different threads, whatever Adopt is told meanwhile:
\* a second thread id never redirects a delivery.
NoRedirect ==
    \A s, t \in sent : s[2] # None /\ t[2] # None => s[2] = t[2]

\* A receipt of "stored" means that the daemon holds exactly the message; an
\* error before anything was sent that it holds nothing.
HonestReceipt ==
    \A d \in Delivers :
       /\ ret[d] = "stored" => stored[d] = "exact"
       /\ ret[d] = "accepted" => stored[d] # "no"
       /\ ret[d] \in {"refused", "toolarge", "nodial", "noinit"}
            => stored[d] = "no"

\* An error from Deliver means that the message did not arrive, and will not.
ErrorMeansNotArrived ==
    \A d \in Delivers : ret[d] \in Errors => stored[d] = "no"
=============================================================================
