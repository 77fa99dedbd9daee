--------------------------- MODULE ClaudeDeliver ---------------------------
(***************************************************************************)
(* Messages to Claude Code sessions that come and go: Deliver of           *)
(* deliver/claude.go, which addresses the session that spawned us, and the *)
(* target of claude-send, which ResolveTarget looks up by pid.  Both end   *)
(* in Dial and SendUser of udsmsg/client.go.                               *)
(*                                                                         *)
(* A session is a process with an inbox.  It is external, and behaves like *)
(* the inbox of udsmsg/server.go: it binds <pid>.sock, publishes a key     *)
(* with its token and its start time, and takes both away when it closes.  *)
(* A session that dies leaves them behind, and its pid may come back.  A   *)
(* process stands for its start time and for its token.                    *)
(***************************************************************************)
EXTENDS Envelope, LineCap

CONSTANTS
    Procs,      \* processes that are sessions at some time
    Pids,       \* the pids they run under
    Parent,     \* the session that spawned us
    Strict,     \* the sessions that require authentication
    Dirs,       \* the socketDirs that pass checkDir, numbered in probe order
    EnvPath,    \* the socket path in our environment
    Delivers,   \* invocations of Deliver
    Sends,      \* runs of claude-send
    None        \* no process, no path

Paths == Dirs \X Pids
Clients == Delivers \cup Sends

ASSUME SessionsKnown == Parent \in Procs /\ Strict \subseteq Procs
ASSUME PathsKnown == EnvPath \in Paths
ASSUME ProbeOrder ==
    \A D \in SUBSET Dirs : D # {} => \E d \in D : \A e \in D : d <= e
ASSUME ClientsApart == Delivers \cap Sends = {}
ASSUME NoneApart == None \notin Procs \cup Paths

VARIABLES
    runs,       \* the process that runs under a pid
    phase,      \* how far each process has come
    home,       \* the path of its inbox
    sock,       \* the process that bound the socket file at a path
    key,        \* the process that published the key file for a path
    keyStart,   \* the start time in that file, which may be missing
    at,         \* where each invocation stands
    path,       \* Target.SocketPath, whose name carries Target.PID
    token,      \* Target.Token
    start,      \* Target.ProcStart
    noAuth,     \* Target.Unauthenticated
    link,       \* the session it is connected to
    result,     \* "none", "error" or "written"
    reached,    \* the session that handled the message
    goneBefore, \* the processes that were gone when the invocation began
    goneTested  \* ... and those that were gone at Dial's test

session == <<runs, phase, home, sock, key, keyStart>>
target == <<path, token, start, noAuth>>
history == <<goneBefore, goneTested>>
vars == <<session, at, target, link, result, reached, history>>

NoProcess == [x \in Clients |-> None]

\* The parent is up, with socket and key, when it has spawned us.  Invocations
\* share nothing and no session looks at them before they write, so it is
\* enough to follow one at a time, any one of them.
Init ==
    /\ runs = [n \in Pids |-> IF n = EnvPath[2] THEN Parent ELSE None]
    /\ phase = [p \in Procs |-> IF p = Parent THEN "open" ELSE "unborn"]
    /\ home = [p \in Procs |-> IF p = Parent THEN EnvPath ELSE None]
    /\ sock = [f \in Paths |-> IF f = EnvPath THEN Parent ELSE None]
    /\ key = sock /\ keyStart \in {sock, [f \in Paths |-> None]}
    /\ \E one \in Clients :
         at = [x \in Clients |-> IF x = one THEN "begin" ELSE "over"]
    /\ path = NoProcess /\ token = NoProcess /\ start = NoProcess
    /\ noAuth = [x \in Clients |-> FALSE]
    /\ link = NoProcess /\ result = [x \in Clients |-> "none"]
    /\ reached = NoProcess
    /\ goneBefore = [x \in Clients |-> {}] /\ goneTested = goneBefore

-----------------------------------------------------------------------------
(* Sessions (external). *)

Gone == {p \in Procs : phase[p] = "gone"}

\* The inbox is bound, and connections to it succeed.
Listens(p) == phase[p] \in {"bound", "open"}

client == <<at, target, link, result, reached, history>>

SessionStarts(p) ==
    /\ phase[p] = "unborn"
    /\ \E n \in Pids : runs[n] = None /\ runs' = [runs EXCEPT ![n] = p]
    /\ phase' = [phase EXCEPT ![p] = "started"]
    /\ UNCHANGED <<home, sock, key, keyStart, client>>

\* Listen removes a stale socket file and binds.
SessionBinds(p) ==
    /\ phase[p] = "started"
    /\ \E d \in Dirs, n \in Pids :
         /\ runs[n] = p
         /\ sock' = [sock EXCEPT ![<<d, n>>] = p]
         /\ home' = [home EXCEPT ![p] = <<d, n>>]
    /\ phase' = [phase EXCEPT ![p] = "bound"]
    /\ UNCHANGED <<runs, key, keyStart, client>>

\* Listen publishes the key, over one that may lie there, with a start time if
\* ProcStart has one.
SessionPublishes(p) ==
    /\ phase[p] = "bound"
    /\ key' = [key EXCEPT ![home[p]] = p]
    /\ \E ps \in {p, None} : keyStart' = [keyStart EXCEPT ![home[p]] = ps]
    /\ phase' = [phase EXCEPT ![p] = "open"]
    /\ UNCHANGED <<runs, home, sock, client>>

\* Close removes the socket, then the key, and the process exits.
SessionCloses(p) ==
    /\ phase[p] = "open"
    /\ sock' = [sock EXCEPT ![home[p]] = None]
    /\ phase' = [phase EXCEPT ![p] = "closed"]
    /\ UNCHANGED <<runs, home, key, keyStart, client>>

Exits(p) ==
    /\ phase' = [phase EXCEPT ![p] = "gone"]
    /\ runs' = [n \in Pids |-> IF runs[n] = p THEN None ELSE runs[n]]
    /\ UNCHANGED <<home, sock, client>>

SessionExits(p) ==
    /\ phase[p] = "closed"
    /\ key' = [key EXCEPT ![home[p]] = None]
    /\ keyStart' = [keyStart EXCEPT ![home[p]] = None]
    /\ Exits(p)

\* The process dies and leaves its files.
SessionDies(p) ==
    /\ phase[p] \notin {"unborn", "gone"}
    /\ Exits(p)
    /\ UNCHANGED <<key, keyStart>>

\* What dispatch does with a user frame behind an auth frame with tok.
Admits(p, tok) == tok = p \/ p \notin Strict

\* The session gets to the lines of a connection, one that it has accepted
\* while it closes too: it handles the message, or destroys the connection.
SessionReads(x) ==
    /\ at[x] = "sent" /\ phase[link[x]] \in {"open", "closed"}
    /\ reached' = [reached EXCEPT ![x] =
                     IF Admits(link[x], token[x]) THEN link[x] ELSE None]
    /\ at' = [at EXCEPT ![x] = "over"]
    /\ UNCHANGED <<session, target, link, result, history>>

-----------------------------------------------------------------------------
(* Deliver and claude-send up to Dial. *)

Goes(x, place) ==
    /\ at' = [at EXCEPT ![x] = place]
    /\ UNCHANGED <<session, link, result, reached>>

Fails(x) ==
    /\ at' = [at EXCEPT ![x] = "over"]
    /\ result' = [result EXCEPT ![x] = "error"]
    /\ UNCHANGED <<session, link, reached>>

\* What ProcStart may give: the start time of the process that has a pid, or
\* an error.
ProcStart(n) == {runs[n], None}

\* A message that fits and one that does not.
Sample == {[body |-> [one |-> n, two |-> 0, six |-> 0], cursor |-> 1,
            more |-> FALSE] : n \in {1, MaxIntactBytes}}

\* Deliver: Available wants the socket file, stale or not, and the message
\* must not be too long.
DeliverChecks(x) ==
    /\ at[x] = "begin"
    /\ goneBefore' = [goneBefore EXCEPT ![x] = Gone]
    /\ path' = [path EXCEPT ![x] = EnvPath]
    /\ token' = [token EXCEPT ![x] = Parent]
    /\ \E d \in Sample :
         IF sock[EnvPath] = None \/ DeliverRefuses(d)
         THEN Fails(x) ELSE Goes(x, "procStart")
    /\ UNCHANGED <<start, noAuth, goneTested>>

\* Deliver: the start time, read from the process that has the pid now, or none.
DeliverReadsStart(x) ==
    /\ at[x] = "procStart"
    /\ \E ps \in ProcStart(path[x][2]) : start' = [start EXCEPT ![x] = ps]
    /\ Goes(x, "dial")
    /\ UNCHANGED <<path, token, noAuth, history>>

\* Mutant: a pid without a socket gets an empty path.
findAnyhow(n) ==
    LET dirs == {d \in Dirs : sock[<<d, n>>] # None} IN
    IF dirs = {} THEN <<>> ELSE <<First(dirs), n>>

\* findSocket: the first directory that has a file for the pid.
findSocket(n) ==
    LET dirs == {d \in Dirs : sock[<<d, n>>] # None} IN
    IF dirs = {} THEN None ELSE <<First(dirs), n>>

\* claude-send --to: the socket of a pid.
SendFinds(x) ==
    \E n \in Pids :
       /\ path' = [path EXCEPT ![x] = findSocket(n)]
       /\ IF findSocket(n) = None THEN Fails(x) ELSE Goes(x, "key")

\* claude-send --to-socket: a path as it is given.
SendTakes(x) ==
    \E f \in Paths : path' = [path EXCEPT ![x] = f] /\ Goes(x, "keyOnly")

SendBegins(x) ==
    /\ at[x] = "begin"
    /\ goneBefore' = [goneBefore EXCEPT ![x] = Gone]
    /\ \E no \in BOOLEAN : noAuth' = [noAuth EXCEPT ![x] = no]
    /\ SendFinds(x) \/ SendTakes(x)
    /\ UNCHANGED <<token, start, goneTested>>

\* The token of the key, or, when ResolveTarget found the path, the one that
\* our parent handed us if this is the socket it named.  --no-auth drops it.
TokenFor(x) ==
    IF noAuth[x] THEN None
    ELSE IF at[x] = "key" /\ path[x] = EnvPath THEN Parent ELSE key[path[x]]

\* claude-send: the key for this path, or none; one that cannot be read ends
\* the run.
SendReadsKey(x) ==
    /\ at[x] \in {"key", "keyOnly"}
    /\ \/ /\ start' = [start EXCEPT ![x] = keyStart[path[x]]]
          /\ token' = [token EXCEPT ![x] = TokenFor(x)]
          /\ Goes(x, "check")
       \/ key[path[x]] # None /\ Fails(x) /\ UNCHANGED <<start, token>>
    /\ UNCHANGED <<path, noAuth, history>>

\* Mutant: any process under the pid will do.
AliveAtAll(n, ps) == ps = None \/ runs[n] # None

\* How the test of a target's start time passes: there is none, or Alive gets
\* the same from ProcStart.
StartMatches(n, ps) == ps = None \/ ps \in ProcStart(n)

\* ... and how it fails: Alive gets another one or an error.
StartDiffers(n, ps) == ps # None /\ \E now \in ProcStart(n) : now # ps

\* claude-send tests the start time before it sets up its inbox.
SendChecks(x) ==
    /\ at[x] = "check"
    /\ \/ StartMatches(path[x][2], start[x]) /\ Goes(x, "dial")
       \/ StartDiffers(path[x][2], start[x]) /\ Fails(x)
    /\ UNCHANGED <<target, history>>

-----------------------------------------------------------------------------
(* Dial and SendUser. *)

\* Dial tests the start time again, and wants a token or none on purpose.
DialTests(x) ==
    LET tokenless == token[x] = None /\ ~noAuth[x] IN
    /\ at[x] = "dial"
    /\ \/ /\ StartMatches(path[x][2], start[x]) /\ ~tokenless
          /\ Goes(x, "connect")
       \/ /\ StartDiffers(path[x][2], start[x]) \/ tokenless
          /\ Fails(x)
    /\ goneTested' = [goneTested EXCEPT ![x] = Gone]
    /\ UNCHANGED <<target, goneBefore>>

\* Dial connects to whoever listens on the path by now.
DialConnects(x) ==
    /\ at[x] = "connect"
    /\ LET p == sock[path[x]] IN
       IF p # None /\ Listens(p)
       THEN /\ link' = [link EXCEPT ![x] = p]
            /\ at' = [at EXCEPT ![x] = "write"]
            /\ UNCHANGED <<session, result, reached>>
       ELSE Fails(x)
    /\ UNCHANGED <<target, history>>

\* The auth frame, if there is a token, and the user frame are written, or the
\* peer has gone or the context's deadline has passed.
SendUser(x) ==
    /\ at[x] = "write"
    /\ \/ /\ phase[link[x]] # "gone"
          /\ at' = [at EXCEPT ![x] = "sent"]
          /\ result' = [result EXCEPT ![x] = "written"]
          /\ UNCHANGED <<session, link, reached>>
       \/ Fails(x)
    /\ UNCHANGED <<target, history>>

-----------------------------------------------------------------------------

Next ==
    \/ \E p \in Procs :
         \/ SessionStarts(p) \/ SessionBinds(p) \/ SessionPublishes(p)
         \/ SessionCloses(p) \/ SessionExits(p) \/ SessionDies(p)
    \/ \E x \in Delivers : DeliverChecks(x) \/ DeliverReadsStart(x)
    \/ \E x \in Sends : SendBegins(x) \/ SendReadsKey(x) \/ SendChecks(x)
    \/ \E x \in Clients :
         DialTests(x) \/ DialConnects(x) \/ SendUser(x) \/ SessionReads(x)

Spec == Init /\ [][Next]_vars

-----------------------------------------------------------------------------
(* Properties *)

Proc == Procs \cup {None}

\* Every variable keeps to the values it can have.
TypeOK ==
    /\ runs \in [Pids -> Proc]
    /\ phase \in [Procs -> {"unborn", "started", "bound", "open", "closed",
                            "gone"}]
    /\ home \in [Procs -> Paths \cup {None}]
    /\ sock \in [Paths -> Proc] /\ key \in [Paths -> Proc]
    /\ keyStart \in [Paths -> Proc]
    /\ at \in [Clients -> {"begin", "procStart", "key", "keyOnly", "check",
                           "dial", "connect", "write", "sent", "over"}]
    /\ path \in [Clients -> Paths \cup {None}]
    /\ token \in [Clients -> Proc] /\ start \in [Clients -> Proc]
    /\ noAuth \in [Clients -> BOOLEAN] /\ link \in [Clients -> Proc]
    /\ result \in [Clients -> {"none", "error", "written"}]
    /\ reached \in [Clients -> Proc]
    /\ goneBefore \in [Clients -> SUBSET Procs]
    /\ goneTested \in [Clients -> SUBSET Procs]

\* Dial's test binds the connection, but for the moment between the two: who
\* is connected to another process than the one whose start time was tested
\* can only have been misled by that process's exit after the test.  Files
\* left behind, and a socket and a key that were read while one session went
\* and another came, mislead nobody.
MisledOnlyByExit ==
    \A x \in Clients :
       link[x] # None /\ start[x] \notin {None, link[x]} =>
          start[x] \in Gone \ goneTested[x]

\* A key file that outlived its publisher carries no message: claude-send
\* connects to nobody on the strength of a start time in one if the publisher
\* had gone before claude-send began, even when another process has the pid
\* and the path.  (A key without a start time is not tested at all.)
StaleKeyRefused ==
    \A x \in Sends :
       link[x] # None /\ start[x] # None => start[x] \notin goneBefore[x]

\* Whatever message is about to be written: a session that unwraps it gets
\* what was composed and who was named, even if name or body quote pieces of
\* an envelope or a trailer.
EnvelopeRoundTrip == \A x \in Clients : at[x] = "write" => RoundTrip

\* Whatever message Deliver has let pass: its line keeps within the cap.
FloorHolds == \A x \in Delivers : at[x] = "write" => Floor

\* A delivery reaches the session that published the socket, or no one, if
\* that session had gone before Deliver began: a recycled pid is refused.
RecycledPidRefused ==
    \A x \in Delivers :
       reached[x] \notin {None, Parent} => Parent \notin goneBefore[x]
=============================================================================
