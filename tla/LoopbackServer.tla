---------------------------- MODULE LoopbackServer ----------------------------
(***************************************************************************)
(* What a session of an adapter promises of its loopback server, whichever *)
(* protocol it speaks: requests are accepted until the server is stopped,  *)
(* only the handler of an accepted request publishes, and the server is    *)
(* closed only when no handler is left.  RunCapture relies on it when it   *)
(* takes the subscription, the bus and the database down after the         *)
(* session.  GatewaySession (Claude and Codex) and GeminiTelemetry         *)
(* implement it; Codex, which stops waiting after two seconds, only if     *)
(* these are enough.                                                       *)
(***************************************************************************)
EXTENDS Naturals

CONSTANT Handlers   \* the requests there can be

VARIABLES
    server,     \* "down", "up", "stopping" or "closed"
    active,     \* requests accepted and not yet answered
    published   \* per request: number of events its handler has published

server_vars == <<server, active, published>>

ServerInit ==
    /\ server \in {"down", "up"}
    /\ active = {}
    /\ published = [h \in Handlers |-> 0]

Listen ==
    /\ server = "down"
    /\ server' = "up"
    /\ UNCHANGED <<active, published>>

Accept(h) ==
    /\ server = "up"
    /\ h \notin active
    /\ active' = active \cup {h}
    /\ UNCHANGED <<server, published>>

(* A handler publishes an event, which may be its last deed.               *)
Emit(h) ==
    /\ h \in active
    /\ published' = [published EXCEPT ![h] = @ + 1]
    /\ active' \in {active, active \ {h}}
    /\ UNCHANGED server

Return(h) ==
    /\ h \in active
    /\ active' = active \ {h}
    /\ UNCHANGED <<server, published>>

Stop ==
    /\ server = "up"
    /\ server' = "stopping"
    /\ UNCHANGED <<active, published>>

Drained ==
    /\ server = "stopping"
    /\ active = {}
    /\ server' = "closed"
    /\ UNCHANGED <<active, published>>

ServerNext ==
    \/ Listen \/ Stop \/ Drained
    \/ \E h \in Handlers : Accept(h) \/ Emit(h) \/ Return(h)

ServerSpec == ServerInit /\ [][ServerNext]_server_vars

-----------------------------------------------------------------------------
(* A closed server has no handler left.                                    *)
ClosedIsIdle == server = "closed" => active = {}

(* Nothing is published after the server was closed.                       *)
SilentStep == server = "closed" => published' = published
ClosedIsSilent == [][SilentStep]_server_vars
=============================================================================
