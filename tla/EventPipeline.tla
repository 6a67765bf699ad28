---------------------------- MODULE EventPipeline ----------------------------
(***************************************************************************)
(* From the provider's traffic to a job in the speech queue, within one    *)
(* capture.                                                                *)
(*                                                                         *)
(* The adapter publishes core events one after the other.  bus.Subscribe   *)
(* opens one NATS subscription per subject pattern, and each has a         *)
(* goroutine and an inbox of its own: the events of one subscription are   *)
(* handled in order, those of two are not.  processor.HandleEvent records  *)
(* an event, updates the capture row and, for agent.done, waits for an     *)
(* llm.response of the same request to be recorded and queues its text as  *)
(* a job.  Closing the subscription drops what is still in the inboxes.    *)
(* Before all of that RunCapture has EnsureStream check the subjects of    *)
(* the stream (SubjectOverlap).                                            *)
(***************************************************************************)
EXTENDS Integers, Sequences, StoredTime, SubjectOverlap

CONSTANTS
    Script,     \* the events the adapter publishes, in order:
                \* [kind, req (RequestID), turn, text, at (Timestamp)]
    Res,        \* clock units per second
    MaxRepeats, \* bound: events published a second time (an exporter retries)
    MaxFaults   \* bound: failing SQL statements

NoText == 0     \* an event without assistant text

ASSUME ScriptAssumption ==
    /\ Len(Script) \in Nat
    /\ \A i \in 1..Len(Script) :
         /\ Script[i].kind \in {"llm.request", "llm.response", "tool.call",
                                "tool.result", "agent.busy", "agent.tooling",
                                "agent.done", "agent.error"}
         /\ Script[i].text \in Nat
         /\ Script[i].at \in Nat
         /\ Script[i].kind # "llm.response" => Script[i].text = NoText
    /\ Res \in 1..10
    /\ MaxRepeats \in Nat
    /\ MaxFaults \in Nat

VARIABLES
    published,  \* how many events of the script are out
    repeats,    \* how many were published again
    inbox,      \* per subscription: events delivered and not yet handled
    hpc,        \* per subscription: where in HandleEvent its goroutine is
    cur,        \* per subscription: the event it is handling
    pick,       \* per subscription: the response waitForAssistantEvent found
    events,     \* table events: what was recorded, in the order of its ids
    capture,    \* captures.status
    job,        \* table tts_jobs by RequestID: the response spoken, 0 if none
    phase,      \* RunCapture: provider running, exited, unsubscribed, ended
    faults,     \* failing statements so far
    dropped,    \* history: agent.done events given up on
    behind      \* history: requests whose job was made with a response out

vars == <<published, repeats, inbox, hpc, cur, pick, events, capture, job,
          phase, faults, dropped, behind>>

-----------------------------------------------------------------------------
Subs == {"agent.state", "llm", "tool", "system.error"}
Ids  == 1..Len(Script)
Reqs == {Script[i].req : i \in Ids}

(* SubjectForEvent and the pattern of StreamSubjects that matches it.      *)
SubOf(kind) ==
    CASE kind \in {"agent.busy", "agent.tooling", "agent.done"} -> "agent.state"
      [] kind \in {"llm.request", "llm.response"} -> "llm"
      [] kind \in {"tool.call", "tool.result"} -> "tool"
      [] kind = "agent.error" -> "system.error"

(* Mutant: other events fall back to the table's default.                  *)
EventStatus_Idle(kind) ==
    CASE kind = "agent.done"  -> "done"
      [] kind = "agent.error" -> "error"
      [] OTHER -> "idle"

EventStatus(kind) ==
    CASE kind = "agent.done"  -> "done"
      [] kind = "agent.error" -> "error"
      [] OTHER -> "running"

Recorded == {events[k] : k \in 1..Len(events)}
IdOf(i)  == CHOOSE k \in 1..Len(events) : events[k] = i

(* The responses with text of a request.                                   *)
Responses(req) ==
    {i \in Ids : Script[i].kind = "llm.response" /\ Script[i].req = req
                   /\ Script[i].text # NoText}

(* Mutant: the oldest first.                                               *)
Newer_Ascending(i, k) ==
    LET ki == TextKey(Script[i].at, Res)
        kk == TextKey(Script[k].at, Res)
    IN  ki < kk \/ (ki = kk /\ IdOf(i) <= IdOf(k))

(* ORDER BY final DESC, occurred_at DESC, id DESC; final is 0 in every     *)
(* llm.response, and occurred_at is text.                                  *)
Newer(i, k) ==
    LET ki == TextKey(Script[i].at, Res)
        kk == TextKey(Script[k].at, Res)
    IN  ki > kk \/ (ki = kk /\ IdOf(i) >= IdOf(k))

(* Mutant: WHERE without request_id.                                       *)
LatestAssistantEvent_AnyRequest(req, i) ==
    LET found == UNION {Responses(r) : r \in Reqs} \cap Recorded
    IN  i \in found /\ \A k \in found : Newer(i, k)

LatestAssistantEvent(req, i) ==
    /\ i \in Responses(req) \cap Recorded
    /\ \A k \in Responses(req) \cap Recorded : Newer(i, k)

Fault == faults < MaxFaults /\ faults' = faults + 1

(* The goroutine of s ends with its event.                                 *)
Finish(s) ==
    /\ hpc' = [hpc EXCEPT ![s] = "idle"]
    /\ cur' = [cur EXCEPT ![s] = 0]
    /\ pick' = [pick EXCEPT ![s] = 0]

(* HandleEvent gives up on event i: an agent.done that makes no job.       *)
GiveUp(i) ==
    dropped' = IF Script[i].kind = "agent.done" THEN dropped \cup {i} ELSE dropped

-----------------------------------------------------------------------------
Init ==
    /\ published = 0
    /\ repeats = 0
    /\ inbox = [s \in Subs |-> <<>>]
    /\ hpc = [s \in Subs |-> "idle"]
    /\ cur = [s \in Subs |-> 0]
    /\ pick = [s \in Subs |-> 0]
    /\ events = <<>>
    /\ capture = "running"
    /\ job = [r \in Reqs |-> 0]
    /\ phase = "running"
    /\ faults = 0
    /\ dropped = {}
    /\ behind = {}

Deliver(i) ==
    LET s == SubOf(Script[i].kind)
    IN  inbox' = [inbox EXCEPT ![s] = Append(@, i)]

(* PublishMany: the adapter's next event; a request that is still under    *)
(* way is published until the session is closed.                           *)
Publish ==
    /\ phase \in {"running", "exited"}
    /\ published < Len(Script)
    /\ published' = published + 1
    /\ Deliver(published + 1)
    /\ UNCHANGED <<repeats, hpc, cur, pick, events, capture, job, phase,
                   faults, dropped, behind>>

(* An OTLP exporter that missed the answer sends the same records again.   *)
Republish(i) ==
    /\ phase \in {"running", "exited"}
    /\ i <= published
    /\ repeats < MaxRepeats
    /\ repeats' = repeats + 1
    /\ Deliver(i)
    /\ UNCHANGED <<published, hpc, cur, pick, events, capture, job, phase,
                   faults, dropped, behind>>

(* Mutant: HandleEvent goes on with an event it has already handled.       *)
RecordEvent_Again(s) ==
    /\ phase # "ended"
    /\ hpc[s] = "idle"
    /\ inbox[s] # <<>>
    /\ inbox' = [inbox EXCEPT ![s] = Tail(@)]
    /\ LET i == Head(inbox[s]) IN
         /\ events' = IF i \in Recorded THEN events ELSE Append(events, i)
         /\ cur' = [cur EXCEPT ![s] = i]
    /\ hpc' = [hpc EXCEPT ![s] = "update"]
    /\ UNCHANGED <<published, repeats, pick, capture, job, phase, faults,
                   dropped, behind>>

(* RecordEvent: INSERT OR IGNORE by dedupe key.  HandleEvent goes on only  *)
(* with an event that was not there.                                       *)
RecordEvent(s) ==
    /\ phase # "ended"
    /\ hpc[s] = "idle"
    /\ inbox[s] # <<>>
    /\ inbox' = [inbox EXCEPT ![s] = Tail(@)]
    /\ LET i == Head(inbox[s]) IN
         \/ /\ i \notin Recorded
            /\ events' = Append(events, i)
            /\ cur' = [cur EXCEPT ![s] = i]
            /\ hpc' = [hpc EXCEPT ![s] = "update"]
            /\ UNCHANGED <<faults, dropped>>
         \/ /\ i \in Recorded
            /\ UNCHANGED <<events, cur, hpc, faults, dropped>>
         \/ /\ Fault
            /\ GiveUp(i)
            /\ UNCHANGED <<events, cur, hpc>>
    /\ UNCHANGED <<published, repeats, pick, capture, job, phase, behind>>

(* Mutant: HandleEvent returns after the update, whatever the event.       *)
UpdateCaptureState_Returns(s) ==
    /\ hpc[s] = "update"
    /\ capture' = EventStatus(Script[cur[s]].kind)
    /\ Finish(s)
    /\ UNCHANGED <<published, repeats, inbox, events, job, phase, faults,
                   dropped, behind>>

(* UpdateCaptureState; only agent.done has more to do.                     *)
UpdateCaptureState(s) ==
    /\ hpc[s] = "update"
    /\ LET kind == Script[cur[s]].kind IN
         \/ /\ capture' = EventStatus(kind)
            /\ \/ /\ kind = "agent.done"
                  /\ hpc' = [hpc EXCEPT ![s] = "wait"]
                  /\ UNCHANGED <<cur, pick>>
               \/ /\ kind # "agent.done"
                  /\ Finish(s)
            /\ UNCHANGED <<faults, dropped>>
         \/ /\ Fault
            /\ GiveUp(cur[s])
            /\ Finish(s)
            /\ UNCHANGED capture
    /\ UNCHANGED <<published, repeats, inbox, events, job, phase, behind>>

(* waitForAssistantEvent finds a response.                                 *)
FindResponse(s) ==
    /\ hpc[s] = "wait"
    /\ LET req == Script[cur[s]].req IN
         /\ \E i \in Ids : LatestAssistantEvent(req, i)
                             /\ pick' = [pick EXCEPT ![s] = i]
         /\ behind' = IF Responses(req) \subseteq Recorded
                        THEN behind ELSE behind \cup {req}
    /\ hpc' = [hpc EXCEPT ![s] = "create"]
    /\ UNCHANGED <<published, repeats, inbox, cur, events, capture, job,
                   phase, faults, dropped>>

(* Mutant: the grace ends the wait before the last lookup.                 *)
GraceOver_NoLookup(s) ==
    /\ hpc[s] = "wait"
    /\ GiveUp(cur[s])
    /\ Finish(s)
    /\ UNCHANGED <<published, repeats, inbox, events, capture, job, phase,
                   faults, behind>>

(* It finds none, polls and gives up after the completion grace, or the    *)
(* lookup fails.                                                           *)
GraceOver(s) ==
    /\ hpc[s] = "wait"
    /\ \/ /\ Responses(Script[cur[s]].req) \cap Recorded = {}
          /\ UNCHANGED faults
       \/ Fault
    /\ GiveUp(cur[s])
    /\ Finish(s)
    /\ UNCHANGED <<published, repeats, inbox, events, capture, job, phase, behind>>

(* Mutant: the dedupe key leaves the request out.                          *)
CreateTTSJob_NoRequest(s) ==
    /\ hpc[s] = "create"
    /\ LET req == Script[cur[s]].req IN
         job' = [job EXCEPT ![req] = IF \A r \in Reqs : job[r] = 0 THEN pick[s] ELSE @]
    /\ Finish(s)
    /\ UNCHANGED <<published, repeats, inbox, events, capture, phase, faults,
                   dropped, behind>>

(* CreateTTSJob: INSERT OR IGNORE by capture, request, mode and backend;   *)
(* the capture, its mode and its backend are one here.                     *)
CreateTTSJob(s) ==
    /\ hpc[s] = "create"
    /\ LET req == Script[cur[s]].req IN
         \/ /\ job' = [job EXCEPT ![req] = IF @ = 0 THEN pick[s] ELSE @]
            /\ UNCHANGED <<faults, dropped>>
         \/ /\ Fault
            /\ GiveUp(cur[s])
            /\ UNCHANGED job
    /\ Finish(s)
    /\ UNCHANGED <<published, repeats, inbox, events, capture, phase, behind>>

-----------------------------------------------------------------------------
(* The end of RunCapture, as the pipeline sees it.                         *)

(* cmd.Wait returns: the capture row gets its final state.                 *)
ProviderExits ==
    /\ phase = "running"
    /\ phase' = "exited"
    /\ capture' \in {"done", "error"}
    /\ UNCHANGED <<published, repeats, inbox, hpc, cur, pick, events, job,
                   faults, dropped, behind>>

(* session.Close and subscription.Close: the inboxes are lost; handlers    *)
(* that have begun go on.                                                  *)
CloseSubscription ==
    /\ phase = "exited"
    /\ phase' = "unsubscribed"
    /\ inbox' = [s \in Subs |-> <<>>]
    /\ UNCHANGED <<published, repeats, hpc, cur, pick, events, capture, job,
                   faults, dropped, behind>>

(* database.Close and the end of the process.                              *)
CloseDatabase ==
    /\ phase = "unsubscribed"
    /\ phase' = "ended"
    /\ hpc' = [s \in Subs |-> "idle"]
    /\ cur' = [s \in Subs |-> 0]
    /\ pick' = [s \in Subs |-> 0]
    /\ UNCHANGED <<published, repeats, inbox, events, capture, job, faults,
                   dropped, behind>>

-----------------------------------------------------------------------------
Handle(s) ==
    \/ RecordEvent(s)  \/ UpdateCaptureState(s) \/ FindResponse(s)
    \/ GraceOver(s)    \/ CreateTTSJob(s)

Next ==
    \/ Publish
    \/ \E i \in Ids : Republish(i)
    \/ \E s \in Subs : Handle(s)
    \/ ProviderExits
    \/ CloseSubscription
    \/ CloseDatabase

Spec == Init /\ [][Next]_vars

(* NATS delivers, SQLite answers and the grace runs out, so a handler that *)
(* can go on does.  Nothing obliges the adapter to publish or the provider *)
(* to exit.                                                                *)
FairSpec == Spec /\ \A s \in Subs : WF_vars(Handle(s))

-----------------------------------------------------------------------------
TypeOK ==
    /\ published \in 0..Len(Script)
    /\ repeats \in 0..MaxRepeats
    /\ inbox \in [Subs -> Seq(Ids)]
    /\ hpc \in [Subs -> {"idle", "update", "wait", "create"}]
    /\ cur \in [Subs -> Ids \cup {0}]
    /\ pick \in [Subs -> Ids \cup {0}]
    /\ events \in Seq(Ids)
    /\ capture \in {"running", "done", "error"}
    /\ job \in [Reqs -> Ids \cup {0}]
    /\ phase \in {"running", "exited", "unsubscribed", "ended"}
    /\ faults \in 0..MaxFaults
    /\ dropped \subseteq Ids
    /\ behind \subseteq Reqs

(* A job speaks a recorded response of the request it is keyed by, and     *)
(* exists only if that request's agent.done was recorded: whatever order   *)
(* the subscriptions run in, no turn is spoken before it is over and none  *)
(* with the words of another request (processor.go, HandleEvent).          *)
JobIsOfItsRequest ==
    \A r \in Reqs : job[r] # 0 =>
        /\ job[r] \in Responses(r) \cap Recorded
        /\ \E i \in Recorded : Script[i].kind = "agent.done" /\ Script[i].req = r

(* The newest response of a request, by the adapter's clock.               *)
LastResponse(r) == CHOOSE i \in Responses(r) : \A k \in Responses(r) : k <= i

(* A job speaks the last response of its request, the one with the whole   *)
(* text, unless some response was not recorded yet when agent.done was     *)
(* handled, or another one carries a time within the same second.          *)
LastWordUnlessBehind ==
    \A r \in Reqs : job[r] # 0 /\ r \notin behind =>
        \/ job[r] = LastResponse(r)
        \/ \E i \in Responses(r) \ {LastResponse(r)} :
             Second(Script[i].at, Res) = Second(Script[LastResponse(r)].at, Res)

(* Everything published has been handled, and the capture still listens.   *)
Quiet ==
    /\ phase \in {"running", "exited"}
    /\ \A s \in Subs : inbox[s] = <<>> /\ hpc[s] = "idle"

(* Once all is handled, every turn whose agent.done was neither dropped by *)
(* a fault nor given up on after the grace has a job that speaks a         *)
(* response of that turn.                                                  *)
EveryTurnIsQueued ==
    Quiet => \A i \in 1..published :
        Script[i].kind = "agent.done" /\ i \notin dropped =>
            \E r \in Reqs : job[r] # 0 /\ Script[job[r]].turn = Script[i].turn

(* Without a fault, agent.done is given up on only while a response of its *)
(* request is still waiting in the inbox of the other subscription: the    *)
(* adapter publishes the response first, and nothing but the lag of that   *)
(* goroutine behind the grace loses a turn.                                *)
DroppedOnlyByLag ==
    [][\A i \in dropped' \ dropped :
         /\ faults' = 0
         /\ phase \in {"running", "exited"}
         /\ \E k \in Responses(Script[i].req) : k < i
         => \E n \in 1..Len(inbox["llm"]) :
              inbox["llm"][n] \in Responses(Script[i].req)]_vars

(* Without a fault, the state of the capture is only ever written by the   *)
(* newest event of its subscription: a repeated or an older event never    *)
(* takes it back.  Only an event of another subscription can, and then     *)
(* running is written over the done of the same turn (processor.go:64).    *)
StateMovesOn ==
    [][capture' # capture /\ phase' = phase /\ faults' = 0 =>
         \E s \in Subs :
            /\ hpc[s] = "update" /\ hpc'[s] # "update"
            /\ \A k \in Recorded : SubOf(Script[k].kind) = s => k <= cur[s]]_vars

(* RunCapture calls EnsureStream before anything is published.  Its check  *)
(* for overlapping subjects misses no stream that must be extended, and    *)
(* finds one too many only where ">" would have to match nothing           *)
(* (subjectTokensOverlap).                                                 *)
OverlapIsBetween == published = 0 /\ phase = "running" => OverlapIsSound

(* An agent.done that was published is settled: its request has a job, or  *)
(* it is given up on, or the capture ends first.                           *)
DoneIsSettled ==
    \A i \in Ids : Script[i].kind = "agent.done" =>
        (published >= i ~>
            job[Script[i].req] # 0 \/ i \in dropped
              \/ phase \in {"unsubscribed", "ended"})
=============================================================================
