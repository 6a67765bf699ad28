---------------------------- MODULE GeminiTelemetry ----------------------------
(***************************************************************************)
(* The Gemini adapter: the OTLP collector the provider's exporters post    *)
(* their batches of log records and spans to, the normaliser that makes    *)
(* events of them, and the end of the session.                             *)
(*                                                                         *)
(* Logs and traces have exporters of their own, so batches are handled     *)
(* concurrently; an exporter that gets no answer, or a bad one, may post   *)
(* its batch again.  A record keeps its own time over repetitions, if it   *)
(* has one; a record without a time is given that of its normalisation.    *)
(***************************************************************************)
EXTENDS Naturals, Sequences, FiniteSets

CONSTANTS
    Batches,    \* the batches posted
    Post,       \* per batch: method, path, remote, logs and spans
    MaxSends,   \* bound: times a batch is posted
    MaxTime,    \* bound: readings of the clock
    MaxFaults   \* bound: failures of connections and of the bus

NoTime == 0

ASSUME GeminiAssumption ==
    /\ MaxSends \in Nat /\ MaxTime \in Nat \ {0} /\ MaxFaults \in Nat
    /\ \A b \in Batches : Post[b].logs \in Seq([kind : STRING, time : Nat])
    /\ \A b \in Batches : Post[b].spans \in Seq([kind : STRING, time : Nat])

VARIABLES
    session,    \* "open", "stopping" or "closed"
    provider,   \* "running" or "exited"
    hpc,        \* per batch: "idle", "read", "publish"
    todo,       \* per batch: events its handler has still to publish
    status,     \* per batch: the last answer, 0 before
    sends,      \* per batch: times it was posted
    log,        \* per batch: the events published
    clock,      \* time.Now
    faults      \* failures so far

vars == <<session, provider, hpc, todo, status, sends, log, clock, faults>>

-----------------------------------------------------------------------------
(* Normalisation.  A record is known by its part of the payload, the log   *)
(* records being the first and the spans the second, and its place there;  *)
(* what becomes of it by its record and its place among the record's.      *)

Records(b) == ({1} \X (1..Len(Post[b].logs))) \cup ({2} \X (1..Len(Post[b].spans)))

RecordAt(b, rec) == IF rec[1] = 1 THEN Post[b].logs[rec[2]] ELSE Post[b].spans[rec[2]]

EventKinds == {"llm.request", "agent.busy", "tool.call", "agent.tooling", "tool.result",
               "llm.response", "agent.done"}

(* What normalizeLogRecord and normalizeSpan make of a record.             *)
KindsOf(kind) ==
    CASE kind = "user_prompt"    -> <<"llm.request", "agent.busy">>
      [] kind = "tool_log"       -> <<"tool.call", "agent.tooling">>
      [] kind = "tool_span"      -> <<"tool.result">>
      [] kind = "llm_final"      -> <<"llm.response", "agent.done">>
      [] kind = "llm_tool_call"  -> <<"agent.tooling">>
      [] OTHER                   -> <<>>

(* gen_ai.output.messages that is no JSON fails the whole payload.         *)
Undecodable(b) ==
    \E i \in 1..Len(Post[b].spans) : Post[b].spans[i].kind = "llm_bad"

(* Mutant: the time of the record is not looked at.                        *)
TimestampOf_Now(record, now) == now

(* timestampFromLog and timestampFromSpan.                                 *)
TimestampOf(record, now) == IF record.time = NoTime THEN now ELSE record.time

(* The places of the events of b: <<record, number>>.                      *)
EventsOf(b) ==
    {x \in Records(b) \X (1..2) : x[2] <= Len(KindsOf(RecordAt(b, x[1]).kind))}

EventAt(b, x, now) ==
    [kind |-> KindsOf(RecordAt(b, x[1]).kind)[x[2]],
     rec  |-> x[1],
     time |-> TimestampOf(RecordAt(b, x[1]), now)]

(* x is not behind y in the order the events are made in.                  *)
MadeNoLater(x, y) ==
    \/ x[1][1] < y[1][1]
    \/ x[1][1] = y[1][1] /\ x[1][2] < y[1][2]
    \/ x[1] = y[1] /\ x[2] <= y[2]

(* sort.SliceStable by time: x is not behind y.                            *)
SortedNoLater(b, x, y, now) ==
    LET tx == EventAt(b, x, now).time
        ty == EventAt(b, y, now).time
    IN  tx < ty \/ (tx = ty /\ MadeNoLater(x, y))

Rank(b, x, now) == Cardinality({y \in EventsOf(b) : SortedNoLater(b, y, x, now)})

NormalizePayload(b, now) ==
    [n \in 1..Cardinality(EventsOf(b)) |->
        EventAt(b, CHOOSE x \in EventsOf(b) : Rank(b, x, now) = n, now)]

(* The checks of Server.handle before the body is read.                    *)
Refusal(p) ==
    IF p.method # "POST" THEN 405
    ELSE IF p.path = "other" THEN 404
    ELSE IF p.remote # "loopback" THEN 403 ELSE 0

-----------------------------------------------------------------------------
Init ==
    /\ session = "open" /\ provider = "running"
    /\ hpc = [b \in Batches |-> "idle"]
    /\ todo = [b \in Batches |-> <<>>]
    /\ status = [b \in Batches |-> 0]
    /\ sends = [b \in Batches |-> 0]
    /\ log = [b \in Batches |-> <<>>]
    /\ clock = 1
    /\ faults = 0

Fault == faults < MaxFaults /\ faults' = faults + 1

Answer(b, code) ==
    /\ hpc' = [hpc EXCEPT ![b] = "idle"]
    /\ todo' = [todo EXCEPT ![b] = <<>>]
    /\ status' = [status EXCEPT ![b] = code]

(* An exporter posts a batch, for the first time or again.                 *)
Export(b) ==
    /\ provider = "running" /\ session = "open"
    /\ hpc[b] = "idle" /\ status[b] # 200
    /\ sends[b] < MaxSends
    /\ sends' = [sends EXCEPT ![b] = @ + 1]
    /\ IF Refusal(Post[b]) # 0
       THEN Answer(b, Refusal(Post[b]))
       ELSE /\ hpc' = [hpc EXCEPT ![b] = "read"]
            /\ UNCHANGED <<todo, status>>
    /\ UNCHANGED <<session, provider, log, clock, faults>>

(* An answer is lost on its way: the exporter will post the batch again.   *)
LoseAnswer(b) ==
    /\ hpc[b] = "idle" /\ status[b] = 200
    /\ Fault
    /\ status' = [status EXCEPT ![b] = 0]
    /\ UNCHANGED <<session, provider, hpc, todo, sends, log, clock>>

ReadBodyFails(b) ==
    /\ hpc[b] = "read"
    /\ Fault
    /\ Answer(b, 400)
    /\ UNCHANGED <<session, provider, sends, log, clock>>

(* The body is read, decoded and normalised; without events nothing is     *)
(* published.                                                              *)
HandlePayload(b) ==
    /\ hpc[b] = "read"
    /\ IF Undecodable(b) THEN Answer(b, 500)
       ELSE IF NormalizePayload(b, clock) = <<>> THEN Answer(b, 200)
       ELSE /\ hpc' = [hpc EXCEPT ![b] = "publish"]
            /\ todo' = [todo EXCEPT ![b] = NormalizePayload(b, clock)]
            /\ UNCHANGED status
    /\ UNCHANGED <<session, provider, sends, log, clock, faults>>

(* The log with the next event of b.                                       *)
Published(b) == [log EXCEPT ![b] = Append(@, Head(todo[b]))]

(* Mutant: a failure is logged and the rest answered for.                  *)
PublishEvent_Logs(b) ==
    /\ hpc[b] = "publish"
    /\ \/ /\ log' = Published(b)
          /\ UNCHANGED faults
       \/ /\ Fault
          /\ UNCHANGED log
    /\ IF Len(todo[b]) = 1 THEN Answer(b, 200)
       ELSE /\ todo' = [todo EXCEPT ![b] = Tail(@)]
            /\ UNCHANGED <<hpc, status>>
    /\ UNCHANGED <<session, provider, sends, clock>>

(* PublishMany: the next event, or an error with the event out or not,     *)
(* which is answered with 500 and leaves the rest unpublished.             *)
PublishEvent(b) ==
    /\ hpc[b] = "publish"
    /\ \/ /\ log' = Published(b)
          /\ IF Len(todo[b]) = 1 THEN Answer(b, 200)
             ELSE /\ todo' = [todo EXCEPT ![b] = Tail(@)]
                  /\ UNCHANGED <<hpc, status>>
          /\ UNCHANGED faults
       \/ /\ Fault
          /\ log' \in {log, Published(b)}
          /\ Answer(b, 500)
    /\ UNCHANGED <<session, provider, sends, clock>>

Tick ==
    /\ clock < MaxTime
    /\ clock' = clock + 1
    /\ UNCHANGED <<session, provider, hpc, todo, status, sends, log, faults>>

ProviderExits ==
    /\ provider = "running"
    /\ provider' = "exited"
    /\ UNCHANGED <<session, hpc, todo, status, sends, log, clock, faults>>

(* Close: the listener is closed.                                          *)
Stop ==
    /\ session = "open" /\ provider = "exited"
    /\ session' = "stopping"
    /\ UNCHANGED <<provider, hpc, todo, status, sends, log, clock, faults>>

(* Mutant: Close returns at once.                                          *)
Shutdown_NoWait ==
    /\ session = "stopping"
    /\ session' = "closed"
    /\ UNCHANGED <<provider, hpc, todo, status, sends, log, clock, faults>>

(* Shutdown waits for the handlers; RunCapture gives it no deadline.       *)
Shutdown ==
    /\ session = "stopping"
    /\ \A b \in Batches : hpc[b] = "idle"
    /\ session' = "closed"
    /\ UNCHANGED <<provider, hpc, todo, status, sends, log, clock, faults>>

Next ==
    \/ \E b \in Batches :
         \/ Export(b) \/ LoseAnswer(b) \/ ReadBodyFails(b)
         \/ HandlePayload(b) \/ PublishEvent(b)
    \/ Tick \/ ProviderExits \/ Stop \/ Shutdown

Spec == Init /\ [][Next]_vars

-----------------------------------------------------------------------------
EventType == [kind : EventKinds, rec : {1, 2} \X Nat, time : Nat]

TypeOK ==
    /\ session \in {"open", "stopping", "closed"}
    /\ provider \in {"running", "exited"}
    /\ hpc \in [Batches -> {"idle", "read", "publish"}]
    /\ todo \in [Batches -> Seq(EventType)]
    /\ log \in [Batches -> Seq(EventType)]
    /\ \A b \in Batches : hpc[b] = "publish" <=> todo[b] # <<>>
    /\ status \in [Batches -> {0, 200, 400, 403, 404, 405, 500}]
    /\ sends \in [Batches -> 0..MaxSends]
    /\ clock \in 1..MaxTime
    /\ faults \in 0..MaxFaults

AcceptedIsPublished ==
    \A b \in Batches : status[b] = 200 =>
        \A i \in 1..Len(NormalizePayload(b, clock)) :
            LET e == NormalizePayload(b, clock)[i]
            IN  \E j \in 1..Len(log[b]) : log[b][j].kind = e.kind /\ log[b][j].rec = e.rec

AllOrNothing == \A b \in Batches : Undecodable(b) => log[b] = <<>>

ResponseBeforeDone ==
    \A b \in Batches : \A j \in 1..Len(log[b]) : log[b][j].kind = "agent.done" =>
        \E i \in 1..(j - 1) :
            log[b][i].kind = "llm.response" /\ log[b][i].rec = log[b][j].rec

(* An exporter that is told 200 forgets its batch: by then every event of  *)
(* every record is published, whatever failed in earlier attempts.  A      *)
(* payload with a record that cannot be normalised publishes nothing, not  *)
(* even of the records before it.  And agent.done is never on the bus      *)
(* before the llm.response of its span, which has the same time            *)
(* (handlePayload, PublishMany, sort.SliceStable).                         *)
BatchIsPublished ==
    TypeOK /\ AcceptedIsPublished /\ AllOrNothing /\ ResponseBeforeDone

(* A batch posted again repeats its events field by field, the time        *)
(* included, so that eventDedupeKey drops them; only records without a     *)
(* time come back as new events.                                           *)
RepeatedIsSame ==
    \A b \in Batches : \A i, j \in 1..Len(log[b]) :
        log[b][i].rec = log[b][j].rec /\ log[b][i].kind = log[b][j].kind =>
            log[b][i] = log[b][j] \/ RecordAt(b, log[b][i].rec).time = NoTime

(* The collector keeps the promise of LoopbackServer: Close returns only   *)
(* when no batch is being handled, and nothing is published after it, when *)
(* RunCapture closes the bus (collector.go, Close; factory.go, Close).     *)
Server == INSTANCE LoopbackServer
            WITH Handlers  <- Batches,
                 server    <- IF session = "open" THEN "up" ELSE session,
                 active    <- {b \in Batches : hpc[b] # "idle"},
                 published <- [b \in Batches |-> Len(log[b])]
ImplementsServer == Server!ServerSpec
=============================================================================
