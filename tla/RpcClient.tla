----------------------------- MODULE RpcClient -----------------------------
(***************************************************************************)
(* What codexmsg.Client promises to those who use it, with no ids, table,  *)
(* channels or goroutines: a call ends once, and how it ends says what     *)
(* became of the request.                                                  *)
(***************************************************************************)
CONSTANT Calls

VARIABLES
    phase,      \* "idle", "active" or "done"
    outcome,    \* how a call that is done ended
    asked,      \* the calls whose request has reached the daemon
    expired,    \* the calls whose context has ended
    down        \* the client has been closed, by either side

rpcVars == <<phase, outcome, asked, expired, down>>

RpcInit ==
    /\ phase = [c \in Calls |-> "idle"]
    /\ outcome = [c \in Calls |-> "none"]
    /\ asked = {} /\ expired = {} /\ down = FALSE

Begin(c) ==
    /\ phase[c] = "idle"
    /\ phase' = [phase EXCEPT ![c] = "active"]
    /\ UNCHANGED <<outcome, asked, expired, down>>

Ask(c) ==
    /\ phase[c] = "active" /\ c \notin asked
    /\ asked' = asked \cup {c}
    /\ UNCHANGED <<phase, outcome, expired, down>>

Expire(c) ==
    /\ expired' = expired \cup {c}
    /\ UNCHANGED <<phase, outcome, asked, down>>

GoDown ==
    /\ down' = TRUE
    /\ UNCHANGED <<phase, outcome, asked, expired>>

\* How a call may end: with a response only if the daemon was asked, with a
\* send error only if it was not, with ctx.Err() only if the context ended,
\* with the closed error only if the client is closed.
MayEnd(c, r) ==
    \/ r \in {"result", "error"} /\ c \in asked
    \/ r = "unsent" /\ c \notin asked
    \/ r = "ctx" /\ c \in expired
    \/ r = "closed" /\ down

End(c) ==
    /\ phase[c] = "active"
    /\ \E r \in {"result", "error", "unsent", "ctx", "closed"} :
         /\ MayEnd(c, r)
         /\ outcome' = [outcome EXCEPT ![c] = r]
    /\ phase' = [phase EXCEPT ![c] = "done"]
    /\ UNCHANGED <<asked, expired, down>>

RpcNext ==
    \/ GoDown
    \/ \E c \in Calls : Begin(c) \/ Ask(c) \/ Expire(c) \/ End(c)

RpcSpec == RpcInit /\ [][RpcNext]_rpcVars
=============================================================================
