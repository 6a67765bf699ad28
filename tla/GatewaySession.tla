---------------------------- MODULE GatewaySession ----------------------------
(***************************************************************************)
(* The HTTP side of an adapter session: the loopback server between the    *)
(* provider and its API (gateway.Gateway for Claude, proxy for Codex), the *)
(* exchanges it handles at the same time, and the end of the session.      *)
(*                                                                         *)
(* A handler reads the request, lets a hook publish events about it,       *)
(* forwards it, lets a hook publish the events of the answer and only then *)
(* answers the provider.  Everything runs under the context of the         *)
(* provider's connection, which ends when the provider hangs up.  A        *)
(* websocket is hijacked: the server forgets the connection, the relay     *)
(* (CodexSession) goes on by itself.                                       *)
(*                                                                         *)
(* session.Close is called after the provider has exited, without a        *)
(* deadline.  Claude's waits for the exchanges however long they take,     *)
(* Codex's gives up after two seconds.  Only Codex upgrades to websockets. *)
(***************************************************************************)
EXTENDS Naturals, Sequences

CONSTANTS
    Exchanges,   \* requests of the provider, each with its RequestID
    Upgrades,    \* those of Codex that ask for a websocket
    RequestEvts, \* per adapter and exchange: the kinds of its request
    ResponseEvts,\* per adapter and exchange: the kinds of its answer
    MaxFaults    \* bound: failures of the bus and of the listener

ASSUME GatewayAssumption ==
    /\ Upgrades \subseteq Exchanges
    /\ MaxFaults \in Nat
    /\ \A a \in {"claude", "codex"}, e \in Exchanges :
         RequestEvts[a][e] \in Seq(STRING) /\ ResponseEvts[a][e] \in Seq(STRING)

VARIABLES
    adapter,    \* of the capture: "claude" or "codex"
    session,    \* "none", "open", "stopping", "closed", or "failed"
    serving,    \* the Serve goroutine: "no", "yes", or "failed" by an error
    closeErr,   \* what Close returned
    provider,   \* "none", "running" or "exited"
    hpc,        \* per exchange: where its handler is
    todo,       \* per exchange: events its hook has still to publish
    gone,       \* per exchange: the provider hung up, its context is over
    answer,     \* per exchange: "none", "502" or "upstream"
    log,        \* per exchange: the events published, <<leg, kind>>
    faults,     \* failures so far
    lossy       \* history: exchanges with an event the bus did not take

vars == <<adapter, session, serving, closeErr, provider, hpc, todo, gone,
          answer, log, faults, lossy>>
ends == <<adapter, session, serving, closeErr, provider>>
exchange_vars == <<hpc, todo, gone, answer, log, lossy>>

-----------------------------------------------------------------------------
Fault == faults < MaxFaults /\ faults' = faults + 1

Active(e) == hpc[e] \notin {"none", "done"}

(* The server still counts the connection of e among its own.              *)
Held(e) == Active(e) /\ hpc[e] # "relay"

Hijacked == IF adapter = "codex" THEN Upgrades ELSE {}

(* An event is known by its leg of the exchange and its kind.              *)
Event == {"request", "response"} \X STRING

(* What the hooks of e have to publish.                                    *)
Leg(e, leg) ==
    LET kinds == IF leg = "request" THEN RequestEvts[adapter][e]
                                    ELSE ResponseEvts[adapter][e]
    IN  [i \in 1..Len(kinds) |-> <<leg, kinds[i]>>]

Goto(e, where) == hpc' = [hpc EXCEPT ![e] = where]

(* The handler is through with e.                                          *)
Answer(e, what) ==
    /\ answer' = [answer EXCEPT ![e] = what]
    /\ Goto(e, "done")

Init ==
    /\ adapter \in {"claude", "codex"}
    /\ session = "none"
    /\ serving = "no"
    /\ closeErr = "none"
    /\ provider = "none"
    /\ hpc = [e \in Exchanges |-> "none"]
    /\ todo = [e \in Exchanges |-> <<>>]
    /\ gone = [e \in Exchanges |-> FALSE]
    /\ answer = [e \in Exchanges |-> "none"]
    /\ log = [e \in Exchanges |-> <<>>]
    /\ faults = 0
    /\ lossy = {}

-----------------------------------------------------------------------------
(* The session, as RunCapture drives it.                                   *)

(* Prepare listens, starts the Serve goroutine and hands out the address   *)
(* the provider is started with; a listen error ends the capture.          *)
Prepare ==
    /\ session = "none"
    /\ \/ /\ session' = "open"
          /\ serving' = "yes"
          /\ provider' = "running"
          /\ UNCHANGED faults
       \/ /\ Fault
          /\ session' = "failed"
          /\ UNCHANGED <<serving, provider>>
    /\ UNCHANGED <<adapter, closeErr, exchange_vars>>

(* Serve returns with an error of the listener; the session goes on        *)
(* without noticing.                                                       *)
ServeFails ==
    /\ serving = "yes"
    /\ Fault
    /\ serving' = "failed"
    /\ UNCHANGED <<adapter, session, closeErr, provider, exchange_vars>>

ProviderExits ==
    /\ provider = "running"
    /\ provider' = "exited"
    /\ UNCHANGED <<adapter, session, serving, closeErr, faults, exchange_vars>>

(* Close begins: Shutdown closes the listener, Serve returns.              *)
Stop ==
    /\ session = "open"
    /\ provider = "exited"
    /\ session' = "stopping"
    /\ serving' = IF serving = "failed" THEN "failed" ELSE "no"
    /\ UNCHANGED <<adapter, closeErr, provider, faults, exchange_vars>>

(* Mutant: the listener is closed and nothing waited for.                  *)
Shutdown_NoWait ==
    /\ session = "stopping"
    /\ session' = "closed"
    /\ closeErr' = "nil"
    /\ UNCHANGED <<adapter, serving, provider, faults, exchange_vars>>

(* Shutdown returns when no connection of the server is active.  Claude's  *)
(* Close then returns what Serve returned, Codex's has only logged it.     *)
Shutdown ==
    /\ session = "stopping"
    /\ \A e \in Exchanges : ~Held(e)
    /\ session' = "closed"
    /\ closeErr' = IF serving = "failed" /\ adapter = "claude" THEN "serve" ELSE "nil"
    /\ UNCHANGED <<adapter, serving, provider, faults, exchange_vars>>

(* Codex: closeTimeout is over, and the handlers are left to themselves.   *)
CloseTimesOut ==
    /\ session = "stopping"
    /\ adapter = "codex"
    /\ session' = "closed"
    /\ closeErr' = "deadline"
    /\ UNCHANGED <<adapter, serving, provider, faults, exchange_vars>>

-----------------------------------------------------------------------------
(* One exchange.                                                           *)

(* The provider sends a request.  What it has under way when it exits      *)
(* loses its connection.                                                   *)
Request(e) ==
    /\ provider = "running"
    /\ serving = "yes"
    /\ hpc[e] = "none"
    /\ Goto(e, IF e \in Hijacked THEN "dial" ELSE "read")
    /\ UNCHANGED <<ends, todo, gone, answer, log, faults, lossy>>

(* The connection of e breaks, or the provider hangs up or exits.          *)
Disconnect(e) ==
    /\ Active(e)
    /\ ~gone[e]
    /\ gone' = [gone EXCEPT ![e] = TRUE]
    /\ UNCHANGED <<ends, hpc, todo, answer, log, faults, lossy>>

(* io.ReadAll of the request.                                              *)
ReadRequest(e) ==
    /\ hpc[e] = "read"
    /\ \/ /\ ~gone[e]
          /\ todo' = [todo EXCEPT ![e] = Leg(e, "request")]
          /\ Goto(e, "onRequest")
          /\ UNCHANGED answer
       \/ /\ gone[e]
          /\ Answer(e, "502")
          /\ UNCHANGED todo
    /\ UNCHANGED <<ends, gone, log, faults, lossy>>

(* The hooks of both legs.                                                 *)
InHook(e) == hpc[e] \in {"onRequest", "onResponse", "relay"}

(* The log with the next event of the hook of e.                           *)
Published(e) == [log EXCEPT ![e] = Append(@, Head(todo[e]))]

(* PublishMany: the next event of the hook.  js.Publish knows no context,  *)
(* so the event is out; the flush fails when the context is over.  The     *)
(* bus may refuse the event, or take it and fail to flush in time.  The    *)
(* first error ends the hook, which only logs it.                          *)
PublishEvent(e) ==
    /\ InHook(e)
    /\ todo[e] # <<>>
    /\ \/ /\ log' = Published(e)
          /\ todo' = [todo EXCEPT ![e] = IF gone[e] THEN <<>> ELSE Tail(@)]
          /\ UNCHANGED <<faults, lossy>>
       \/ /\ Fault
          /\ log' \in {log, Published(e)}
          /\ todo' = [todo EXCEPT ![e] = <<>>]
          /\ lossy' = lossy \cup {e}
    /\ UNCHANGED <<ends, hpc, gone, answer>>

(* Mutant: the request goes upstream under a context of its own.           *)
Forward_OwnContext(e) ==
    /\ hpc[e] = "onRequest" /\ todo[e] = <<>>
    /\ \/ /\ todo' = [todo EXCEPT ![e] = Leg(e, "response")]
          /\ Goto(e, "onResponse")
          /\ UNCHANGED answer
       \/ /\ Answer(e, "502")
          /\ UNCHANGED todo
    /\ ~gone[e]
    /\ UNCHANGED <<ends, gone, log, faults, lossy>>

(* client.Do and io.ReadAll of the answer: the API answers, fails or, with *)
(* the provider gone, is given up.  A failure is answered with 502 and     *)
(* published by nobody.                                                    *)
Forward(e) ==
    /\ hpc[e] = "onRequest" /\ todo[e] = <<>>
    /\ \/ /\ ~gone[e]
          /\ todo' = [todo EXCEPT ![e] = Leg(e, "response")]
          /\ Goto(e, "onResponse")
          /\ UNCHANGED answer
       \/ /\ Answer(e, "502")
          /\ UNCHANGED todo
    /\ UNCHANGED <<ends, gone, log, faults, lossy>>

(* Mutant: the hook of the answer runs in a goroutine of its own.          *)
Reply_HookAside(e) ==
    /\ hpc[e] = "onResponse"
    /\ Answer(e, "upstream")
    /\ UNCHANGED <<ends, todo, gone, log, faults, lossy>>

(* The answer goes back to the provider.                                   *)
Reply(e) ==
    /\ hpc[e] = "onResponse" /\ todo[e] = <<>>
    /\ Answer(e, "upstream")
    /\ UNCHANGED <<ends, todo, gone, log, faults, lossy>>

(* A websocket: the dial and the upgrade, after which the server does not  *)
(* count the connection, or their failure; what a failure publishes is in  *)
(* CodexSession.                                                           *)
Upgrade(e) ==
    /\ hpc[e] = "dial"
    /\ \/ /\ ~gone[e]
          /\ Goto(e, "relay")
          /\ UNCHANGED answer
       \/ Answer(e, "502")
    /\ UNCHANGED <<ends, todo, gone, log, faults, lossy>>

(* A relay has frames to publish, or ends with its connection; gone is     *)
(* then the end of the context its handler has made for it.                *)
RelayFrame(e) ==
    /\ hpc[e] = "relay" /\ todo[e] = <<>>
    /\ ~gone[e]
    /\ log[e] = <<>>
    /\ todo' = [todo EXCEPT ![e] = Leg(e, "response")]
    /\ UNCHANGED <<ends, hpc, gone, answer, log, faults, lossy>>

RelayEnds(e) ==
    /\ hpc[e] = "relay" /\ todo[e] = <<>>
    /\ gone[e]
    /\ Goto(e, "done")
    /\ UNCHANGED <<ends, todo, gone, answer, log, faults, lossy>>

-----------------------------------------------------------------------------
Handle(e) ==
    \/ ReadRequest(e) \/ PublishEvent(e) \/ Forward(e) \/ Reply(e)
    \/ Upgrade(e) \/ RelayFrame(e) \/ RelayEnds(e)

Next ==
    \/ Prepare \/ ServeFails \/ ProviderExits
    \/ Stop \/ Shutdown \/ CloseTimesOut
    \/ \E e \in Exchanges : Request(e) \/ Disconnect(e) \/ Handle(e)

Spec == Init /\ [][Next]_vars

(* The sockets of a process that has exited are closed, so the server sees *)
(* its connections end.                                                    *)
HangUp(e) == provider = "exited" /\ Disconnect(e)

(* Handlers and Close run; the API owes an answer to nobody, so a forward  *)
(* that waits is only obliged to end once its context is over.             *)
FairSpec ==
    /\ Spec
    /\ WF_vars(Stop) /\ WF_vars(Shutdown) /\ WF_vars(CloseTimesOut)
    /\ \A e \in Exchanges :
         /\ WF_vars(HangUp(e))
         /\ WF_vars(ReadRequest(e) \/ PublishEvent(e) \/ Reply(e) \/ RelayEnds(e))
         /\ WF_vars(gone[e] /\ (Forward(e) \/ Upgrade(e)))

-----------------------------------------------------------------------------
TypeOK ==
    /\ adapter \in {"claude", "codex"}
    /\ session \in {"none", "open", "stopping", "closed", "failed"}
    /\ serving \in {"no", "yes", "failed"}
    /\ serving = "yes" <=> session = "open" /\ serving # "failed"
    /\ closeErr \in {"none", "nil", "serve", "deadline"}
    /\ closeErr # "none" <=> session = "closed"
    /\ provider \in {"none", "running", "exited"}
    /\ hpc \in [Exchanges -> {"none", "read", "onRequest", "onResponse", "dial",
                             "relay", "done"}]
    /\ gone \in [Exchanges -> BOOLEAN]
    /\ answer \in [Exchanges -> {"none", "502", "upstream"}]
    /\ todo \in [Exchanges -> Seq(Event)]
    /\ log \in [Exchanges -> Seq(Event)]
    /\ \A e \in Exchanges : todo[e] # <<>> => InHook(e)
    /\ faults \in 0..MaxFaults
    /\ lossy \subseteq Exchanges

AnsweredIsPublished ==
    \A e \in Exchanges : answer[e] = "upstream" /\ ~gone[e] /\ e \notin lossy =>
        log[e] = Leg(e, "request") \o Leg(e, "response")

(* The first k events of s, and those after them.                          *)
First(s, k) == SubSeq(s, 1, k)
After(s, k) == SubSeq(s, k + 1, Len(s))

LegsArePrefixes ==
    \A e \in Exchanges :
        \E m \in 0..Len(Leg(e, "request")), n \in 0..Len(Leg(e, "response")) :
            log[e] = First(Leg(e, "request"), m) \o First(Leg(e, "response"), n)

(* A provider that has the answer of its API may act on it, or exit, at    *)
(* once: by then every event of the exchange is on the bus, those of the   *)
(* request before those of the answer, none twice (gateway.go, handle).    *)
(* And whatever fails, each leg is published as a prefix of what it says:  *)
(* agent.done is never out without the llm.response before it, which the   *)
(* processor would wait for in vain (PublishMany).                         *)
PublishedInOrder == TypeOK /\ AnsweredIsPublished /\ LegsArePrefixes

(* The session as LoopbackServer sees it.                                  *)
ServerState == CASE session \in {"none", "failed"} -> "down"
                 [] session = "open" -> "up"
                 [] session \in {"stopping", "closed"} /\ closeErr = "deadline" -> "stopping"
                 [] OTHER -> session

(* The session keeps the promise of LoopbackServer: when Close returns, no *)
(* HTTP exchange is under way and none publishes any more; RunCapture      *)
(* takes the subscription and the bus down next.  Two things are outside   *)
(* of it: Codex's Close after its two seconds, which counts as still       *)
(* stopping, and websocket relays, which Shutdown does not know.           *)
Server == INSTANCE LoopbackServer
            WITH Handlers  <- Exchanges,
                 server    <- ServerState,
                 active    <- {e \in Exchanges : Held(e)},
                 published <- [e \in Exchanges |-> IF e \in Hijacked THEN 0
                                                  ELSE Len(log[e])]
ImplementsServer == Server!ServerSpec

(* Close comes back after the provider has exited, also without a          *)
(* deadline and with an API that never answers: the exchange is given up   *)
(* with the provider's connection (factory.go and codex.go, Close).        *)
CloseReturns == session = "open" /\ provider = "exited" ~> session = "closed"
=============================================================================
