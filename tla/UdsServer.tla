----------------------------- MODULE UdsServer -----------------------------
(***************************************************************************)
(* The inbox of udsmsg/server.go: Serve accepts connections and gives each *)
(* a goroutine (handleConn) that reads lines and dispatches them; Close    *)
(* may come at any time.  A line is abstracted to what decodeFrame and     *)
(* dispatch tell apart.                                                    *)
(***************************************************************************)
EXTENDS Naturals, Sequences

CONSTANTS
    Conns,          \* connections peers may make
    RequireAuth,    \* Config.RequireAuth
    AllowUnnamed,   \* Config.AllowUnidentifiedPeers
    LineKinds,      \* the kinds of line that peers send
    MaxLines        \* bound: lines a peer sends on one connection

\* "blank" is an empty line, "junk" one that is not a JSON object (or the
\* beginning of one), "notype" a frame without a type, "auth" and "badauth"
\* auth frames with the right and a wrong token, "other" any other type, and
\* "long" a line over MaxLineBytes.
AllKinds ==
    {"blank", "junk", "notype", "auth", "badauth", "user", "other", "long"}

ASSUME ConfigFlags == RequireAuth \in BOOLEAN /\ AllowUnnamed \in BOOLEAN
ASSUME KindsKnown == LineKinds \subseteq AllKinds
ASSUME LineBound == MaxLines \in Nat

VARIABLES
    closed,     \* Server.closed
    ln,         \* the listener is open
    serve,      \* Serve: "accept", "wait" (wg.Wait), "returned"
    handler,    \* per connection: "none", "backlog", "reading", "gone"
    first,      \* handleConn's first
    armed,      \* the read deadline is set
    authed,     \* Peer.Authed
    log,        \* what dispatch did with each line that was not empty
    peer,       \* the peer's end: "none", "open", "shut"
    stream,     \* complete lines the peer has sent and nobody has read
    part,       \* what the peer has sent since, without its newline
    lines       \* how many lines the peer has begun

server == <<closed, ln, serve>>
conn == <<handler, first, armed, authed, log>>
remote == <<peer, stream, part, lines>>
vars == <<server, conn, remote>>

Init ==
    /\ closed = FALSE /\ ln = TRUE /\ serve = "accept"
    /\ handler = [c \in Conns |-> "none"]
    /\ first = [c \in Conns |-> TRUE] /\ armed = [c \in Conns |-> FALSE]
    /\ authed = [c \in Conns |-> FALSE] /\ log = [c \in Conns |-> <<>>]
    /\ peer = [c \in Conns |-> "none"] /\ stream = [c \in Conns |-> <<>>]
    /\ part = [c \in Conns |-> "none"] /\ lines = [c \in Conns |-> 0]

-----------------------------------------------------------------------------
(* dispatch *)

\* decodeFrame finds a JSON object.
Decodes(k) == k # "junk"

\* Mutant: an auth frame counts on any line.
FateAnyAuth(isFirst, auth, k) ==
    IF ~Decodes(k) \/ k = "notype" THEN "skipped"
    ELSE IF k = "auth" THEN "authed"
    ELSE IF k = "badauth" THEN (IF RequireAuth THEN "rejected" ELSE "skipped")
    ELSE IF RequireAuth /\ ~auth THEN "rejected" ELSE "handled"

\* What becomes of a line that is not empty, in the order of dispatch's early
\* returns: it is skipped, or proves the peer's identity, or gets the
\* connection closed, or goes to a callback (OnUser for "user", OnUnknown for
\* the rest).
Fate(isFirst, auth, k) ==
    IF ~Decodes(k) \/ k = "notype" THEN "skipped"
    ELSE IF isFirst /\ k = "auth" THEN "authed"
    ELSE IF isFirst /\ k = "badauth"
         THEN (IF RequireAuth THEN "rejected" ELSE "skipped")
    ELSE IF RequireAuth /\ ~auth THEN "rejected" ELSE "handled"

\* Mutant: any line lifts the deadline, an empty one too.
LiftsAlways(k) == TRUE

\* Whether a line lifts the deadline.
Counts(k) == k \notin {"none", "blank"}

\* Mutant: an empty line is dispatched like any other.
NeverEmpty(k) == FALSE

\* readLine returned no bytes: "none" is a stream that ends between two lines.
Empty(k) == k \in {"none", "blank"}

\* Mutant: a rejected line costs the peer nothing.
EndsWithStream(fate, how) == how # "newline"

\* Whether the loop ends with a line: dispatch wants the connection destroyed,
\* or the line came with the end of the stream.
Ends(fate, how) == fate = "rejected" \/ how # "newline"

\* One turn of handleConn's loop over line k, which ended with a newline
\* (how = "newline"), with the stream ("eof") or with the deadline ("timeout").
Turn(c, k, how) ==
    LET fate == Fate(first[c], authed[c], k) IN
    \/ /\ Empty(k)
       /\ handler' = [handler EXCEPT ![c] =
                        IF Ends("none", how) THEN "gone" ELSE @]
       /\ armed' = [armed EXCEPT ![c] = @ /\ ~Counts(k)]
       /\ UNCHANGED <<first, authed, log>>
    \/ /\ k = "long"                     \* the connection goes, undispatched
       /\ handler' = [handler EXCEPT ![c] = "gone"]
       /\ UNCHANGED <<first, armed, authed, log>>
    \/ /\ ~Empty(k) /\ k # "long"
       /\ first' = [first EXCEPT ![c] = FALSE]
       /\ armed' = [armed EXCEPT ![c] = @ /\ ~Counts(k)]
       /\ authed' = [authed EXCEPT ![c] = @ \/ fate = "authed"]
       /\ log' = [log EXCEPT ![c] =
                    Append(@, [line |-> k, how |-> how, fate |-> fate])]
       /\ handler' = [handler EXCEPT ![c] =
                        IF Ends(fate, how) THEN "gone" ELSE @]

-----------------------------------------------------------------------------
(* handleConn *)

\* Accept, and peerCred at the top of handleConn: the connection of a peer
\* that cannot be identified is refused unless the configuration allows it.
Accept(c) ==
    /\ serve = "accept" /\ ln /\ handler[c] = "backlog"
    /\ \/ /\ handler' = [handler EXCEPT ![c] = "reading"]
          /\ armed' = [armed EXCEPT ![c] = TRUE]
       \/ /\ ~AllowUnnamed
          /\ handler' = [handler EXCEPT ![c] = "gone"]
          /\ UNCHANGED armed
    /\ UNCHANGED <<server, first, authed, log, remote>>

\* readLine returns a complete line.
ReadLine(c) ==
    /\ handler[c] = "reading" /\ stream[c] # <<>>
    /\ Turn(c, Head(stream[c]), "newline")
    /\ stream' = [stream EXCEPT ![c] = Tail(@)]
    /\ UNCHANGED <<server, peer, part, lines>>

\* readLine gives up on a line that is over the cap before it ends.
ReadTooLong(c) ==
    /\ handler[c] = "reading" /\ stream[c] = <<>> /\ part[c] = "long"
    /\ Turn(c, "long", "newline")
    /\ UNCHANGED <<server, remote>>

\* The peer has closed: readLine returns what is left, with or without a line.
ReadEnd(c) ==
    /\ handler[c] = "reading" /\ stream[c] = <<>> /\ peer[c] = "shut"
    /\ Turn(c, part[c], "eof")
    /\ UNCHANGED <<server, remote>>

\* The deadline passes: readLine returns what it had read of a line by then.
ReadTimeout(c) ==
    /\ handler[c] = "reading" /\ armed[c]
    /\ \/ stream[c] = <<>> /\ Turn(c, part[c], "timeout")
       \/ Turn(c, "none", "timeout")
    /\ UNCHANGED <<server, remote>>

-----------------------------------------------------------------------------
(* Serve and Close *)

\* Mutant: Serve returns without waiting for its handlers.
ServeLeaves == serve' = "returned"

\* AcceptUnix fails because the listener is closed: Serve goes to wg.Wait.
ServeStops == serve' = "wait"

ServeClosed ==
    /\ serve = "accept" /\ ~ln
    /\ ServeStops
    /\ UNCHANGED <<closed, ln, conn, remote>>

ServeReturns ==
    /\ serve = "wait" /\ \A c \in Conns : handler[c] # "reading"
    /\ serve' = "returned"
    /\ UNCHANGED <<closed, ln, conn, remote>>

\* Close, called by the owner or when the context ends, sets closed ...
CloseBegin ==
    /\ ~closed
    /\ closed' = TRUE
    /\ UNCHANGED <<ln, serve, conn, remote>>

\* Mutant: the listener stays open.
ListenerStays == ln

\* ln.Close().
ListenerAfterClose == FALSE

\* ... and closes the listener, which resets what nobody has accepted yet.
\* Connections that were accepted stay as they are.
CloseListener ==
    /\ closed /\ ln
    /\ ln' = ListenerAfterClose
    /\ handler' = [c \in Conns |->
                     IF handler[c] = "backlog" THEN "gone" ELSE handler[c]]
    /\ UNCHANGED <<closed, serve, first, armed, authed, log, remote>>

-----------------------------------------------------------------------------
(* The peers (external). *)

PeerDials(c) ==
    /\ peer[c] = "none" /\ ln
    /\ peer' = [peer EXCEPT ![c] = "open"]
    /\ handler' = [handler EXCEPT ![c] = "backlog"]
    /\ UNCHANGED <<server, first, armed, authed, log, stream, part, lines>>

PeerBegins(c) ==
    /\ peer[c] = "open" /\ part[c] = "none" /\ lines[c] < MaxLines
    /\ \E k \in LineKinds : part' = [part EXCEPT ![c] = k]
    /\ lines' = [lines EXCEPT ![c] = @ + 1]
    /\ UNCHANGED <<server, conn, peer, stream>>

PeerEndsLine(c) ==
    /\ peer[c] = "open" /\ part[c] # "none"
    /\ stream' = [stream EXCEPT ![c] = Append(@, part[c])]
    /\ part' = [part EXCEPT ![c] = "none"]
    /\ UNCHANGED <<server, conn, peer, lines>>

PeerHangsUp(c) ==
    /\ peer[c] = "open"
    /\ peer' = [peer EXCEPT ![c] = "shut"]
    /\ UNCHANGED <<server, conn, stream, part, lines>>

-----------------------------------------------------------------------------

HandlerStep(c) == ReadLine(c) \/ ReadTooLong(c) \/ ReadEnd(c) \/ ReadTimeout(c)

ServeStep == ServeClosed \/ ServeReturns

Next ==
    \/ \E c \in Conns : Accept(c) \/ HandlerStep(c)
    \/ \E c \in Conns :
          PeerDials(c) \/ PeerBegins(c) \/ PeerEndsLine(c) \/ PeerHangsUp(c)
    \/ ServeStep \/ CloseBegin \/ CloseListener

Spec == Init /\ [][Next]_vars

\* The server's goroutines run and the read deadline passes in the end; a
\* Close that has begun goes on.  Peers owe nothing.
FairSpec ==
    /\ Spec
    /\ WF_vars(ServeStep) /\ WF_vars(CloseListener)
    /\ \A c \in Conns : WF_vars(Accept(c)) /\ WF_vars(HandlerStep(c))

-----------------------------------------------------------------------------
(* Properties *)

Fates == {"skipped", "authed", "rejected", "handled"}
Entries == [line : AllKinds, how : {"newline", "eof", "timeout"}, fate : Fates]

\* Every variable keeps to the values its field or local can have.
TypeOK ==
    /\ closed \in BOOLEAN /\ ln \in BOOLEAN
    /\ serve \in {"accept", "wait", "returned"}
    /\ handler \in [Conns -> {"none", "backlog", "reading", "gone"}]
    /\ first \in [Conns -> BOOLEAN] /\ armed \in [Conns -> BOOLEAN]
    /\ authed \in [Conns -> BOOLEAN]
    /\ log \in [Conns -> Seq(Entries)]
    /\ peer \in [Conns -> {"none", "open", "shut"}]
    /\ stream \in [Conns -> Seq(AllKinds)]
    /\ part \in [Conns -> AllKinds \cup {"none"}]
    /\ lines \in [Conns -> Nat]

\* With RequireAuth, a callback only ever sees a line of a connection whose
\* very first line was an auth frame with the right token.
AuthGate ==
    \A c \in Conns : \A i \in 1..Len(log[c]) :
       RequireAuth /\ log[c][i].fate = "handled"
         => log[c][1].line = "auth" /\ i > 1

\* Nothing is dispatched on a connection after the line that closed it: a
\* rejected line, or one that came with the end of the stream, is the last.
LastIsLast ==
    \A c \in Conns : \A i \in 1..Len(log[c]) :
       log[c][i].fate = "rejected" \/ log[c][i].how # "newline"
         => i = Len(log[c]) /\ handler[c] = "gone"

\* A handler that runs without a deadline has had its first line.
DeadlineUntilFirstLine ==
    \A c \in Conns : handler[c] = "reading" => (armed[c] <=> log[c] = <<>>)

\* When Serve has returned, no handler is running.
NoHandlerAfterServe ==
    serve = "returned" => \A c \in Conns : handler[c] # "reading"

\* A connection on which no line is sent does not keep its handler for ever.
IdleIsDropped ==
    \A c \in Conns :
       (handler[c] = "reading" /\ log[c] = <<>>)
         ~> (handler[c] = "gone" \/ log[c] # <<>>)

\* After Close, Serve returns as soon as the peers have hung up.
ServeDrains ==
    (closed /\ \A c \in Conns : peer[c] # "open")
      ~> (serve = "returned" \/ \E c \in Conns : peer[c] = "open")

-----------------------------------------------------------------------------
(* The inductive invariant behind the safety properties *)

\* first and authed speak of the lines dispatched so far.
Begun ==
    \A c \in Conns :
       /\ first[c] <=> log[c] = <<>>
       /\ handler[c] \in {"none", "backlog"} => log[c] = <<>>
       /\ authed[c] => log[c] # <<>> /\ log[c][1].line = "auth"

\* A connection has a handler only when a peer has made it.
Dialled == \A c \in Conns : peer[c] = "none" => handler[c] = "none"

IInv ==
    /\ TypeOK /\ Dialled /\ Begun /\ AuthGate /\ LastIsLast
    /\ DeadlineUntilFirstLine /\ NoHandlerAfterServe
=============================================================================
