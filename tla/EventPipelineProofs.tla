------------------------- MODULE EventPipelineProofs -------------------------
(* What holds of the event pipeline for every script of events, any number *)
(* of repetitions and any number of failing statements.                    *)
EXTENDS EventPipeline, SharedLemmas

-----------------------------------------------------------------------------
(* The operators the model is built from.                                  *)

(* Every kind of event has a subscription, and the ends of turns and the   *)
(* responses have different ones (SubjectForEvent, StreamSubjects).        *)
LEMMA SubOfKind ==
    /\ \A i \in Ids : SubOf(Script[i].kind) \in Subs
    /\ SubOf("agent.done") = "agent.state"
    /\ SubOf("llm.response") = "llm"
<1>1. ASSUME NEW i \in Ids
      PROVE  Script[i].kind \in {"llm.request", "llm.response", "tool.call",
                                 "tool.result", "agent.busy", "agent.tooling",
                                 "agent.done", "agent.error"}
  BY ScriptAssumption DEF Ids
<1>2. ASSUME NEW k \in {"agent.busy", "agent.tooling", "agent.done"}
      PROVE  SubOf(k) = "agent.state"
  BY <1>2, Zenon DEF SubOf
<1>3. ASSUME NEW k \in {"llm.request", "llm.response"}
      PROVE  SubOf(k) = "llm"
  BY <1>3, Zenon DEF SubOf
<1>4. ASSUME NEW k \in {"tool.call", "tool.result"}
      PROVE  SubOf(k) = "tool"
  BY <1>4, Zenon DEF SubOf
<1>5. SubOf("agent.error") = "system.error"
  BY Zenon DEF SubOf
<1>6. ASSUME NEW i \in Ids
      PROVE  SubOf(Script[i].kind) \in Subs
  BY <1>1, <1>2, <1>3, <1>4, <1>5 DEF Subs
<1> QED
  BY <1>2, <1>3, <1>6

(* The states eventStatus writes.                                          *)
LEMMA EventStatusOf ==
    ASSUME NEW kind
    PROVE  EventStatus(kind) \in {"running", "done", "error"}
<1>1. CASE kind = "agent.done"
  BY <1>1, Zenon DEF EventStatus
<1>2. CASE kind = "agent.error"
  BY <1>2, Zenon DEF EventStatus
<1>3. CASE kind # "agent.done" /\ kind # "agent.error"
  BY <1>3, Zenon DEF EventStatus
<1> QED
  BY <1>1, <1>2, <1>3

(* A row more in the table is an event more that is recorded.              *)
LEMMA RecordedGrows ==
    ASSUME events \in Seq(Ids), NEW i \in Ids, events' = Append(events, i)
    PROVE  Recorded' = Recorded \cup {i}
<1>1. Len(events') = Len(events) + 1 /\ Len(events) \in Nat
  OBVIOUS
<1>2. \A k \in 1..Len(events) : events'[k] = events[k]
  OBVIOUS
<1>3. events'[Len(events) + 1] = i
  OBVIOUS
<1> QED
  BY <1>1, <1>2, <1>3 DEF Recorded

-----------------------------------------------------------------------------
(* Types.                                                                  *)

(* A goroutine within HandleEvent has an event in hand.                    *)
TypeInv == TypeOK /\ \A s \in Subs : hpc[s] # "idle" => cur[s] \in Ids

(* A handler that ends has nothing in hand; the others are not disturbed.  *)
LEMMA Finished ==
    ASSUME TypeOK, NEW s \in Subs, Finish(s)
    PROVE  /\ hpc' \in [Subs -> {"idle", "update", "wait", "create"}]
           /\ cur' \in [Subs -> Ids \cup {0}]
           /\ pick' \in [Subs -> Ids \cup {0}]
           /\ hpc'[s] = "idle"
           /\ \A u \in Subs \ {s} :
                hpc'[u] = hpc[u] /\ cur'[u] = cur[u] /\ pick'[u] = pick[u]
  BY DEF Finish, TypeOK

(* A fault and an event that is given up on are within bounds.             *)
LEMMA FaultTypes ==
    ASSUME TypeOK, NEW i \in Ids
    PROVE  /\ Fault => faults' \in 0..MaxFaults /\ faults' > 0
           /\ GiveUp(i) => dropped' \subseteq Ids
<1>1. MaxFaults \in Nat
  BY ScriptAssumption
<1> QED
  BY <1>1 DEF Fault, GiveUp, TypeOK

(* Every step of the pipeline keeps the types of its state.                *)
LEMMA TypeStep == TypeInv /\ [Next]_vars => TypeInv'
<1> SUFFICES ASSUME TypeInv, [Next]_vars PROVE TypeInv'
  OBVIOUS
<1>0. /\ Len(Script) \in Nat /\ MaxRepeats \in Nat /\ MaxFaults \in Nat
      /\ Ids = 1..Len(Script)
      /\ \A i \in Ids : Script[i].req \in Reqs
  BY ScriptAssumption DEF Ids, Reqs
<1> USE DEF TypeInv, TypeOK
<1>1. CASE Publish
  <2>1. published + 1 \in Ids
    BY <1>0, <1>1 DEF Publish
  <2>2. SubOf(Script[published + 1].kind) \in Subs
    BY <2>1, SubOfKind
  <2> QED
    BY <1>0, <1>1, <2>1, <2>2 DEF Publish, Deliver
<1>2. ASSUME NEW i \in Ids, Republish(i) PROVE TypeInv'
  <2>1. SubOf(Script[i].kind) \in Subs
    BY SubOfKind
  <2> QED
    BY <1>0, <1>2, <2>1 DEF Republish, Deliver
<1>3. ASSUME NEW s \in Subs, RecordEvent(s) PROVE TypeInv'
  <2> DEFINE i == Head(inbox[s])
  <2>1. i \in Ids /\ Tail(inbox[s]) \in Seq(Ids)
    BY <1>3 DEF RecordEvent
  <2>2. inbox' \in [Subs -> Seq(Ids)]
    BY <1>3, <2>1 DEF RecordEvent
  <2> HIDE DEF i
  <2>3. CASE /\ events' = Append(events, i)
             /\ cur' = [cur EXCEPT ![s] = i]
             /\ hpc' = [hpc EXCEPT ![s] = "update"]
             /\ UNCHANGED <<faults, dropped>>
    BY <1>3, <2>1, <2>2, <2>3 DEF RecordEvent
  <2>4. CASE UNCHANGED <<events, cur, hpc, faults, dropped>>
    BY <1>3, <2>2, <2>4 DEF RecordEvent
  <2>5. CASE Fault /\ GiveUp(i) /\ UNCHANGED <<events, cur, hpc>>
    BY <1>0, <1>3, <2>1, <2>2, <2>5 DEF RecordEvent, Fault, GiveUp
  <2> QED
    BY <1>3, <2>3, <2>4, <2>5 DEF RecordEvent, i
<1>4. ASSUME NEW s \in Subs, UpdateCaptureState(s) PROVE TypeInv'
  <2>1. EventStatus(Script[cur[s]].kind) \in {"running", "done", "error"}
    BY EventStatusOf
  <2>2. cur[s] \in Ids
    BY <1>4 DEF UpdateCaptureState
  <2>3. CASE /\ capture' = EventStatus(Script[cur[s]].kind)
             /\ hpc' = [hpc EXCEPT ![s] = "wait"]
             /\ UNCHANGED <<cur, pick>>
             /\ UNCHANGED <<faults, dropped>>
    BY <1>4, <2>1, <2>2, <2>3 DEF UpdateCaptureState
  <2>4. CASE /\ capture' = EventStatus(Script[cur[s]].kind)
             /\ Finish(s)
             /\ UNCHANGED <<faults, dropped>>
    BY <1>4, <2>1, <2>4, Finished DEF UpdateCaptureState
  <2>5. CASE Fault /\ GiveUp(cur[s]) /\ Finish(s) /\ UNCHANGED capture
    BY <1>4, <2>2, <2>5, Finished, FaultTypes DEF UpdateCaptureState
  <2> QED
    BY <1>4, <2>3, <2>4, <2>5 DEF UpdateCaptureState
<1>5. ASSUME NEW s \in Subs, FindResponse(s) PROVE TypeInv'
  <2>1. cur[s] \in Ids
    BY <1>5 DEF FindResponse
  <2> QED
    BY <1>0, <1>5, <2>1 DEF FindResponse
<1>6. ASSUME NEW s \in Subs, GraceOver(s) PROVE TypeInv'
  <2>1. cur[s] \in Ids
    BY <1>6 DEF GraceOver
  <2> QED
    BY <1>6, <2>1, Finished, FaultTypes DEF GraceOver
<1>7. ASSUME NEW s \in Subs, CreateTTSJob(s) PROVE TypeInv'
  <2>1. cur[s] \in Ids
    BY <1>7 DEF CreateTTSJob
  <2> QED
    BY <1>0, <1>7, <2>1, Finished, FaultTypes DEF CreateTTSJob
<1>8. CASE ProviderExits
  BY <1>8 DEF ProviderExits
<1>9. CASE CloseSubscription
  BY <1>9 DEF CloseSubscription
<1>10. CASE CloseDatabase
  BY <1>10 DEF CloseDatabase
<1>11. CASE UNCHANGED vars
  BY <1>11 DEF vars
<1> QED
  BY <1>1, <1>2, <1>3, <1>4, <1>5, <1>6, <1>7, <1>8, <1>9, <1>10, <1>11
     DEF Next, Handle

(* The state of the pipeline has its types, whatever the script.           *)
THEOREM TypeCorrect == Spec => []TypeInv /\ []TypeOK
<1>1. Init => TypeInv
  <2>1. Len(Script) \in Nat /\ MaxRepeats \in Nat /\ MaxFaults \in Nat
    BY ScriptAssumption
  <2> QED
    BY <2>1 DEF Init, TypeInv, TypeOK
<1>2. TypeInv => TypeOK
  BY DEF TypeInv
<1> QED
  BY <1>1, <1>2, TypeStep, PTL DEF Spec

-----------------------------------------------------------------------------
(* The inductive invariant.                                                *)

Waiting(s)  == {inbox[s][n] : n \in 1..Len(inbox[s])}
EventsOf(s) == {i \in Ids : SubOf(Script[i].kind) = s}
Listening   == phase \in {"running", "exited"}
Ends        == {i \in Ids : Script[i].kind = "agent.done"}

(* What a subscription has waiting or in hand is its own and was published;*)
(* past the update it is the end of a turn, and what was picked for it is  *)
(* a recorded response of its request.                                     *)
HandlerInv ==
    /\ \A s \in Subs :
         /\ Waiting(s) \subseteq EventsOf(s) \cap 1..published
         /\ hpc[s] # "idle" => cur[s] \in EventsOf(s) \cap Recorded
         /\ hpc[s] \in {"wait", "create"} => cur[s] \in Ends
         /\ hpc[s] = "create" => pick[s] \in Responses(Script[cur[s]].req) \cap Recorded
    /\ Recorded \subseteq 1..published

(* While the capture listens nothing published is lost but by a fault.     *)
ArrivalInv ==
    Listening => \A i \in 1..published :
        \/ i \in Recorded
        \/ i \in Waiting(SubOf(Script[i].kind))
        \/ faults > 0 /\ (i \in Ends => i \in dropped)

(* Without a fault, an event that waits for the first time is newer than   *)
(* all that its subscription has recorded or has waiting before it.        *)
OrderInv ==
    faults = 0 => \A s \in Subs :
        /\ \A n \in 1..Len(inbox[s]) :
             \/ inbox[s][n] \in Recorded
             \/ \E m \in 1..(n - 1) : inbox[s][m] = inbox[s][n]
             \/ /\ \A m \in 1..(n - 1) : inbox[s][m] < inbox[s][n]
                /\ \A k \in Recorded \cap EventsOf(s) : k < inbox[s][n]
        /\ hpc[s] = "update" => \A k \in Recorded \cap EventsOf(s) : k <= cur[s]

(* A recorded end of a turn is in hand, given up on, or has its job.       *)
EndInv ==
    phase # "ended" => \A i \in Recorded \cap Ends :
        \/ hpc["agent.state"] # "idle" /\ cur["agent.state"] = i
        \/ i \in dropped
        \/ job[Script[i].req] # 0

(* No response of request r sorts after event i.                           *)
SortsLast(i, r) ==
    \A k \in Responses(r) : TextKey(Script[k].at, Res) <= TextKey(Script[i].at, Res)

(* What was picked when all responses were recorded sorts last of them.    *)
PickInv ==
    /\ \A s \in Subs : hpc[s] = "create" /\ Script[cur[s]].req \notin behind =>
                         SortsLast(pick[s], Script[cur[s]].req)
    /\ \A r \in Reqs : job[r] # 0 /\ r \notin behind => SortsLast(job[r], r)

Inv == HandlerInv /\ JobIsOfItsRequest /\ ArrivalInv /\ OrderInv /\ EndInv /\ PickInv

-----------------------------------------------------------------------------
(* What the inboxes do.                                                    *)

(* A delivered event is the last one waiting.                              *)
LEMMA Delivered ==
    ASSUME TypeOK, NEW i \in Ids, Deliver(i), NEW s, s = SubOf(Script[i].kind)
    PROVE  /\ s \in Subs
           /\ inbox'[s] = Append(inbox[s], i)
           /\ Len(inbox'[s]) = Len(inbox[s]) + 1
           /\ inbox'[s][Len(inbox[s]) + 1] = i
           /\ \A n \in 1..Len(inbox[s]) : inbox'[s][n] = inbox[s][n]
           /\ Waiting(s)' = Waiting(s) \cup {i}
           /\ \A u \in Subs \ {s} : inbox'[u] = inbox[u] /\ Waiting(u)' = Waiting(u)
<1>1. s \in Subs
  BY SubOfKind
<1>2. inbox[s] \in Seq(Ids) /\ Len(inbox[s]) \in Nat
  BY <1>1 DEF TypeOK
<1>3. inbox'[s] = Append(inbox[s], i)
  BY <1>1 DEF Deliver, TypeOK
<1>4. /\ Len(inbox'[s]) = Len(inbox[s]) + 1
      /\ inbox'[s][Len(inbox[s]) + 1] = i
      /\ \A n \in 1..Len(inbox[s]) : inbox'[s][n] = inbox[s][n]
  BY <1>2, <1>3
<1>5. Waiting(s)' = Waiting(s) \cup {i}
  BY <1>2, <1>4 DEF Waiting
<1>6. \A u \in Subs \ {s} : inbox'[u] = inbox[u] /\ Waiting(u)' = Waiting(u)
  BY <1>1 DEF Deliver, TypeOK, Waiting
<1> QED
  BY <1>1, <1>3, <1>4, <1>5, <1>6

(* The event a goroutine takes is the first one waiting.                   *)
LEMMA Taken ==
    ASSUME TypeOK, NEW s \in Subs, inbox[s] # <<>>,
           inbox' = [inbox EXCEPT ![s] = Tail(@)], NEW i, i = Head(inbox[s])
    PROVE  /\ i \in Ids /\ i = inbox[s][1]
           /\ Len(inbox[s]) \in Nat /\ Len(inbox[s]) > 0
           /\ Len(inbox'[s]) = Len(inbox[s]) - 1
           /\ \A n \in 1..Len(inbox'[s]) : inbox'[s][n] = inbox[s][n + 1]
           /\ Waiting(s) = Waiting(s)' \cup {i}
           /\ \A u \in Subs \ {s} : inbox'[u] = inbox[u] /\ Waiting(u)' = Waiting(u)
<1>1. inbox[s] \in Seq(Ids)
  BY DEF TypeOK
<1>2. /\ i \in Ids /\ i = inbox[s][1]
      /\ Len(inbox[s]) \in Nat /\ Len(inbox[s]) > 0
  BY <1>1
<1>3. inbox'[s] = Tail(inbox[s])
  BY DEF TypeOK
<1>4. /\ Len(inbox'[s]) = Len(inbox[s]) - 1
      /\ \A n \in 1..Len(inbox'[s]) : inbox'[s][n] = inbox[s][n + 1]
  <2>1. ASSUME NEW q \in Seq(Ids), q # <<>>
        PROVE  /\ Len(Tail(q)) = Len(q) - 1
               /\ \A n \in 1..Len(Tail(q)) : Tail(q)[n] = q[n + 1]
    BY <2>1
  <2> QED
    BY <1>1, <1>3, <2>1
<1>5. Waiting(s) = Waiting(s)' \cup {i}
  <2>1. ASSUME NEW x \in Waiting(s), x # i
        PROVE  x \in Waiting(s)'
    <3>1. PICK n \in 1..Len(inbox[s]) : x = inbox[s][n]
      BY DEF Waiting
    <3>2. n # 1 /\ n - 1 \in 1..Len(inbox'[s])
      BY <1>2, <1>4, <2>1, <3>1
    <3>3. inbox'[s][n - 1] = inbox[s][(n - 1) + 1] /\ (n - 1) + 1 = n
      BY <1>4, <3>2
    <3> QED
      BY <3>1, <3>2, <3>3 DEF Waiting
  <2>2. ASSUME NEW x \in Waiting(s)'
        PROVE  x \in Waiting(s)
    <3>1. PICK n \in 1..Len(inbox'[s]) : x = inbox'[s][n]
      BY DEF Waiting
    <3>2. n + 1 \in 1..Len(inbox[s]) /\ x = inbox[s][n + 1]
      BY <1>2, <1>4, <3>1
    <3> QED
      BY <3>2 DEF Waiting
  <2>3. i \in Waiting(s)
    BY <1>2 DEF Waiting
  <2> QED
    BY <2>1, <2>2, <2>3
<1>6. \A u \in Subs \ {s} : inbox'[u] = inbox[u] /\ Waiting(u)' = Waiting(u)
  BY DEF TypeOK, Waiting
<1> QED
  BY <1>2, <1>4, <1>5, <1>6

-----------------------------------------------------------------------------
(* Each step keeps the invariant.                                          *)

(* A publication, the first or a repeated one.                             *)
LEMMA DeliveryKeeps ==
    ASSUME TypeOK, Inv, NEW i \in Ids, Deliver(i), Listening,
           \/ i = published + 1 /\ published' = published + 1
           \/ i <= published /\ published' = published,
           UNCHANGED <<hpc, cur, pick, events, job, phase, faults, dropped, behind>>
    PROVE  Inv'
<1> DEFINE s == SubOf(Script[i].kind)
<1>1. /\ s \in Subs
      /\ Len(inbox'[s]) = Len(inbox[s]) + 1
      /\ inbox'[s][Len(inbox[s]) + 1] = i
      /\ \A n \in 1..Len(inbox[s]) : inbox'[s][n] = inbox[s][n]
      /\ Waiting(s)' = Waiting(s) \cup {i}
      /\ \A u \in Subs \ {s} : inbox'[u] = inbox[u] /\ Waiting(u)' = Waiting(u)
  BY Delivered
<1>2. i \in EventsOf(s)
  BY DEF EventsOf
<1>3. published \in Nat /\ i \in Nat /\ i > 0
  BY ScriptAssumption DEF TypeOK, Ids
<1>4. 1..published' = (1..published) \cup {i}
  BY <1>3
<1>5. Recorded' = Recorded
  BY DEF Recorded
<1> HIDE DEF s
<1>6. HandlerInv'
  <2>1. HandlerInv
    BY DEF Inv
  <2>2. \A u \in Subs : Waiting(u)' \subseteq EventsOf(u) \cap (1..published')
    BY <1>1, <1>2, <1>4, <2>1 DEF HandlerInv
  <2>3. Recorded' \subseteq 1..published'
    BY <1>4, <1>5, <2>1 DEF HandlerInv
  <2> QED
    BY <1>5, <2>1, <2>2, <2>3 DEF HandlerInv, EventsOf
<1>7. JobIsOfItsRequest'
  BY <1>5 DEF Inv, JobIsOfItsRequest
<1>8. ArrivalInv'
  <2> SUFFICES ASSUME NEW k \in 1..published'
               PROVE  \/ k \in Recorded
                      \/ k \in Waiting(SubOf(Script[k].kind))'
                      \/ faults > 0 /\ (k \in Ends => k \in dropped)
    BY <1>5 DEF ArrivalInv, Ends
  <2>1. CASE k = i
    BY <1>1, <2>1 DEF s
  <2>2. CASE k \in 1..published
    <3>1. k \in Ids
      BY <1>3, <2>2, ScriptAssumption DEF TypeOK, Ids
    <3>2. SubOf(Script[k].kind) \in Subs
      BY <3>1, SubOfKind
    <3>3. Waiting(SubOf(Script[k].kind)) \subseteq Waiting(SubOf(Script[k].kind))'
      BY <1>1, <3>2
    <3> QED
      BY <2>2, <3>3 DEF Inv, ArrivalInv
  <2> QED
    BY <1>4, <2>1, <2>2
<1>9. OrderInv'
  <2> SUFFICES ASSUME faults = 0, NEW u \in Subs
               PROVE  /\ \A n \in 1..Len(inbox'[u]) :
                           \/ inbox'[u][n] \in Recorded
                           \/ \E m \in 1..(n - 1) : inbox'[u][m] = inbox'[u][n]
                           \/ /\ \A m \in 1..(n - 1) : inbox'[u][m] < inbox'[u][n]
                              /\ \A k \in Recorded \cap EventsOf(u) : k < inbox'[u][n]
                      /\ hpc[u] = "update" => \A k \in Recorded \cap EventsOf(u) : k <= cur[u]
    BY <1>5 DEF OrderInv, EventsOf
  <2>1. OrderInv
    BY DEF Inv
  <2>2. CASE u # s
    BY <1>1, <2>1, <2>2 DEF OrderInv
  <2>3. CASE u = s
    <3>1. ASSUME NEW n \in 1..Len(inbox[s])
          PROVE  \/ inbox'[s][n] \in Recorded
                 \/ \E m \in 1..(n - 1) : inbox'[s][m] = inbox'[s][n]
                 \/ /\ \A m \in 1..(n - 1) : inbox'[s][m] < inbox'[s][n]
                    /\ \A k \in Recorded \cap EventsOf(s) : k < inbox'[s][n]
      <4>1. \A m \in 1..n : inbox'[s][m] = inbox[s][m]
        BY <1>1 DEF TypeOK
      <4> QED
        BY <1>1, <2>1, <4>1 DEF OrderInv
    <3>2. LET n == Len(inbox[s]) + 1
          IN  \/ i \in Recorded
              \/ \E m \in 1..(n - 1) : inbox'[s][m] = i
              \/ /\ \A m \in 1..(n - 1) : inbox'[s][m] < i
                 /\ \A k \in Recorded \cap EventsOf(s) : k < i
      <4>1. Len(inbox[s]) \in Nat /\ Len(inbox[s]) + 1 - 1 = Len(inbox[s])
        BY <1>1 DEF TypeOK
      <4>2. CASE i <= published
        <5>1. i \in Recorded \/ i \in Waiting(s)
          BY <1>3, <4>2 DEF Inv, ArrivalInv, s
        <5> QED
          BY <1>1, <4>1, <5>1 DEF Waiting
      <4>3. CASE i = published + 1
        <5>1. Waiting(s) \subseteq 1..published /\ Recorded \subseteq 1..published
          BY <1>1 DEF Inv, HandlerInv
        <5>2. \A m \in 1..Len(inbox[s]) : inbox'[s][m] \in 1..published
          BY <1>1, <5>1 DEF Waiting
        <5> QED
          BY <1>3, <4>1, <4>3, <5>1, <5>2
      <4> QED
        BY <4>2, <4>3
    <3>3. \A n \in 1..Len(inbox'[s]) : n \in 1..Len(inbox[s]) \/ n = Len(inbox[s]) + 1
      BY <1>1 DEF TypeOK
    <3>4. hpc[s] = "update" => \A k \in Recorded \cap EventsOf(s) : k <= cur[s]
      BY <1>1, <2>1 DEF OrderInv
    <3> QED
      BY <1>1, <2>3, <3>1, <3>2, <3>3, <3>4
  <2> QED
    BY <2>2, <2>3
<1>10. EndInv'
  BY <1>5 DEF Inv, EndInv, Ends
<1>11. PickInv'
  BY DEF Inv, PickInv, SortsLast
<1> QED
  BY <1>6, <1>7, <1>8, <1>9, <1>10, <1>11 DEF Inv

(* The order of an inbox whose first event is, or was already, recorded.   *)
LEMMA OrderAfterTake ==
    ASSUME TypeOK, HandlerInv, OrderInv, faults = 0, NEW s \in Subs, inbox[s] # <<>>,
           inbox' = [inbox EXCEPT ![s] = Tail(@)], NEW i, i = Head(inbox[s]),
           Recorded' = Recorded \cup {i}
    PROVE  \A u \in Subs : \A n \in 1..Len(inbox'[u]) :
             \/ inbox'[u][n] \in Recorded'
             \/ \E m \in 1..(n - 1) : inbox'[u][m] = inbox'[u][n]
             \/ /\ \A m \in 1..(n - 1) : inbox'[u][m] < inbox'[u][n]
                /\ \A k \in Recorded' \cap EventsOf(u) : k < inbox'[u][n]
<1>1. /\ i = inbox[s][1]
      /\ Len(inbox[s]) \in Nat /\ Len(inbox[s]) > 0
      /\ Len(inbox'[s]) = Len(inbox[s]) - 1
      /\ \A n \in 1..Len(inbox'[s]) : inbox'[s][n] = inbox[s][n + 1]
      /\ Waiting(s) = Waiting(s)' \cup {i}
      /\ \A u \in Subs \ {s} : inbox'[u] = inbox[u]
  BY Taken
<1>2. i \in EventsOf(s)
  BY <1>1 DEF HandlerInv
<1>3. ASSUME NEW u \in Subs \ {s}, NEW n \in 1..Len(inbox'[u])
      PROVE  \/ inbox'[u][n] \in Recorded'
             \/ \E m \in 1..(n - 1) : inbox'[u][m] = inbox'[u][n]
             \/ /\ \A m \in 1..(n - 1) : inbox'[u][m] < inbox'[u][n]
                /\ \A k \in Recorded' \cap EventsOf(u) : k < inbox'[u][n]
  <2>1. Recorded' \cap EventsOf(u) = Recorded \cap EventsOf(u)
    BY <1>2 DEF EventsOf
  <2> QED
    BY <1>1, <2>1 DEF OrderInv
<1>4. ASSUME NEW n \in 1..Len(inbox'[s])
      PROVE  \/ inbox'[s][n] \in Recorded'
             \/ \E m \in 1..(n - 1) : inbox'[s][m] = inbox'[s][n]
             \/ /\ \A m \in 1..(n - 1) : inbox'[s][m] < inbox'[s][n]
                /\ \A k \in Recorded' \cap EventsOf(s) : k < inbox'[s][n]
  <2> DEFINE x == inbox'[s][n]
  <2>1. n + 1 \in 1..Len(inbox[s]) /\ x = inbox[s][n + 1] /\ (n + 1) - 1 = n
    BY <1>1
  <2>2. \/ x \in Recorded
        \/ \E m \in 1..n : inbox[s][m] = x
        \/ /\ \A m \in 1..n : inbox[s][m] < x
           /\ \A k \in Recorded \cap EventsOf(s) : k < x
    BY <2>1 DEF OrderInv
  <2> HIDE DEF x
  <2>3. ASSUME NEW m \in 1..n, inbox[s][m] = x
        PROVE  x \in Recorded' \/ \E l \in 1..(n - 1) : inbox'[s][l] = x
    <3>1. CASE m = 1
      BY <1>1, <2>3, <3>1
    <3>2. CASE m # 1
      <4>1. /\ m - 1 \in 1..(n - 1) /\ m - 1 \in 1..Len(inbox'[s])
            /\ (m - 1) + 1 = m
        BY <1>1, <3>2
      <4>2. inbox'[s][m - 1] = inbox[s][m]
        BY <1>1, <4>1
      <4> QED
        BY <2>3, <4>1, <4>2
    <3> QED
      BY <3>1, <3>2
  <2>4. ASSUME \A m \in 1..n : inbox[s][m] < x,
               \A k \in Recorded \cap EventsOf(s) : k < x
        PROVE  /\ \A m \in 1..(n - 1) : inbox'[s][m] < x
               /\ \A k \in Recorded' \cap EventsOf(s) : k < x
    <3>1. i < x
      BY <1>1, <2>4
    <3>2. ASSUME NEW m \in 1..(n - 1)
          PROVE  inbox'[s][m] < x
      <4>1. m \in 1..Len(inbox'[s]) /\ m + 1 \in 1..n
        BY <1>1
      <4> QED
        BY <1>1, <2>4, <4>1
    <3> QED
      BY <2>4, <3>1, <3>2
  <2>5. \/ x \in Recorded'
        \/ \E m \in 1..(n - 1) : inbox'[s][m] = x
        \/ /\ \A m \in 1..(n - 1) : inbox'[s][m] < x
           /\ \A k \in Recorded' \cap EventsOf(s) : k < x
    BY <2>2, <2>3, <2>4
  <2> QED
    BY <2>5 DEF x
<1> QED
  BY <1>3, <1>4

(* RecordEvent: new, already there, or failing.                            *)
LEMMA RecordKeeps ==
    ASSUME TypeInv, Inv, NEW s \in Subs, RecordEvent(s)
    PROVE  Inv'
<1> DEFINE i == Head(inbox[s])
<1>0. TypeOK
  BY DEF TypeInv
<1>1. /\ phase # "ended" /\ hpc[s] = "idle" /\ inbox[s] # <<>>
      /\ inbox' = [inbox EXCEPT ![s] = Tail(@)]
      /\ UNCHANGED <<published, pick, job, phase, behind>>
  BY DEF RecordEvent
<1>2. /\ i \in Ids
      /\ i = inbox[s][1] /\ 1 \in 1..Len(inbox[s])
      /\ Waiting(s) = Waiting(s)' \cup {i}
      /\ \A u \in Subs \ {s} : Waiting(u)' = Waiting(u)
  <2>1. /\ i \in Ids /\ i = inbox[s][1]
        /\ Len(inbox[s]) \in Nat /\ Len(inbox[s]) > 0
        /\ Waiting(s) = Waiting(s)' \cup {i}
        /\ \A u \in Subs \ {s} : Waiting(u)' = Waiting(u)
    BY <1>0, <1>1, Taken
  <2> QED
    BY <2>1
<1>3. \/ /\ i \notin Recorded
         /\ events' = Append(events, i)
         /\ cur' = [cur EXCEPT ![s] = i]
         /\ hpc' = [hpc EXCEPT ![s] = "update"]
         /\ UNCHANGED <<faults, dropped>>
      \/ /\ i \in Recorded
         /\ UNCHANGED <<events, cur, hpc, faults, dropped>>
      \/ /\ Fault
         /\ GiveUp(i)
         /\ UNCHANGED <<events, cur, hpc>>
  BY DEF RecordEvent
<1> HIDE DEF i
<1>4. i \in EventsOf(s) /\ i \in 1..published
  BY <1>2 DEF Inv, HandlerInv
<1>5. \A u \in Subs : Waiting(u)' \subseteq EventsOf(u) \cap (1..published')
  BY <1>1, <1>2 DEF Inv, HandlerInv
<1>6. ASSUME NEW k \in Ids
      PROVE  k \in Waiting(SubOf(Script[k].kind)) => k = i \/ k \in Waiting(SubOf(Script[k].kind))'
  BY <1>2, SubOfKind
<1>7. 1..published \subseteq Ids
  BY <1>0, ScriptAssumption DEF TypeOK, Ids
<1>8. CASE /\ i \notin Recorded
           /\ events' = Append(events, i)
           /\ cur' = [cur EXCEPT ![s] = i]
           /\ hpc' = [hpc EXCEPT ![s] = "update"]
           /\ UNCHANGED <<faults, dropped>>
  <2>1. Recorded' = Recorded \cup {i}
    BY <1>0, <1>2, <1>8, RecordedGrows DEF TypeOK
  <2>2. cur'[s] = i /\ hpc'[s] = "update"
    BY <1>0, <1>8 DEF TypeOK
  <2>3. \A u \in Subs \ {s} : cur'[u] = cur[u] /\ hpc'[u] = hpc[u]
    BY <1>0, <1>8 DEF TypeOK
  <2>4. HandlerInv'
    <3>1. Recorded' \subseteq 1..published'
      BY <1>1, <1>4, <2>1 DEF Inv, HandlerInv
    <3>2. ASSUME NEW u \in Subs
          PROVE  /\ hpc'[u] # "idle" => cur'[u] \in EventsOf(u) \cap Recorded'
                 /\ hpc'[u] \in {"wait", "create"} => cur'[u] \in Ends
                 /\ hpc'[u] = "create" =>
                      pick[u] \in Responses(Script[cur'[u]].req) \cap Recorded'
      BY <1>4, <2>1, <2>2, <2>3 DEF Inv, HandlerInv
    <3> QED
      BY <1>1, <1>5, <3>1, <3>2 DEF HandlerInv, Ends, EventsOf, Responses
  <2>5. JobIsOfItsRequest'
    BY <1>1, <2>1 DEF Inv, JobIsOfItsRequest, Responses
  <2>6. ArrivalInv'
    BY <1>1, <1>6, <1>7, <1>8, <2>1 DEF Inv, ArrivalInv, Listening, Ends
  <2>7. OrderInv'
    <3> SUFFICES ASSUME faults = 0 PROVE OrderInv'
      BY <1>8 DEF OrderInv
    <3>1. \A u \in Subs : \A n \in 1..Len(inbox'[u]) :
             \/ inbox'[u][n] \in Recorded'
             \/ \E m \in 1..(n - 1) : inbox'[u][m] = inbox'[u][n]
             \/ /\ \A m \in 1..(n - 1) : inbox'[u][m] < inbox'[u][n]
                /\ \A k \in Recorded' \cap EventsOf(u) : k < inbox'[u][n]
      BY <1>0, <1>1, <2>1, OrderAfterTake DEF Inv, i
    <3>2. ASSUME NEW u \in Subs, hpc'[u] = "update"
          PROVE  \A k \in Recorded' \cap EventsOf(u) : k <= cur'[u]
      <4>1. CASE u = s
        <5>1. \A k \in Recorded \cap EventsOf(s) : k < i
          BY <1>2, <1>8 DEF Inv, OrderInv
        <5>2. Recorded \subseteq 1..published /\ published \in Nat /\ i \in Nat
          BY <1>0, <1>4 DEF Inv, HandlerInv, TypeOK
        <5> QED
          BY <2>1, <2>2, <4>1, <5>1, <5>2
      <4>2. CASE u # s
        <5>1. Recorded' \cap EventsOf(u) = Recorded \cap EventsOf(u)
          BY <1>4, <2>1, <4>2 DEF EventsOf
        <5> QED
          BY <2>3, <3>2, <4>2, <5>1 DEF Inv, OrderInv
      <4> QED
        BY <4>1, <4>2
    <3> QED
      BY <3>1, <3>2 DEF OrderInv, EventsOf
  <2>8. EndInv'
    <3> SUFFICES ASSUME NEW k \in Recorded' \cap Ends
                 PROVE  \/ hpc'["agent.state"] # "idle" /\ cur'["agent.state"] = k
                        \/ k \in dropped
                        \/ job[Script[k].req] # 0
      BY <1>1, <1>8 DEF EndInv, Ends
    <3>1. CASE k = i
      <4>1. s = "agent.state"
        BY <1>4, <3>1, SubOfKind DEF EventsOf, Ends
      <4> QED
        BY <2>2, <3>1, <4>1
    <3>2. CASE k \in Recorded
      <4>1. "agent.state" \in Subs
        BY DEF Subs
      <4> QED
        BY <1>1, <2>3, <3>2, <4>1 DEF Inv, EndInv
    <3> QED
      BY <2>1, <3>1, <3>2
  <2>9. PickInv'
    BY <1>1, <2>2, <2>3 DEF Inv, PickInv, SortsLast, Responses
  <2> QED
    BY <2>4, <2>5, <2>6, <2>7, <2>8, <2>9 DEF Inv
<1>9. CASE i \in Recorded /\ UNCHANGED <<events, cur, hpc, faults, dropped>>
  <2>1. Recorded' = Recorded
    BY <1>9 DEF Recorded
  <2>2. HandlerInv'
    BY <1>1, <1>5, <1>9, <2>1 DEF Inv, HandlerInv, Ends, EventsOf, Responses
  <2>3. JobIsOfItsRequest'
    BY <1>1, <2>1 DEF Inv, JobIsOfItsRequest, Responses
  <2>4. ArrivalInv'
    BY <1>1, <1>6, <1>7, <1>9, <2>1 DEF Inv, ArrivalInv, Listening, Ends
  <2>5. OrderInv'
    <3> SUFFICES ASSUME faults = 0 PROVE OrderInv'
      BY <1>9 DEF OrderInv
    <3>1. Recorded' = Recorded \cup {i}
      BY <1>9, <2>1
    <3>2. \A u \in Subs : \A n \in 1..Len(inbox'[u]) :
             \/ inbox'[u][n] \in Recorded'
             \/ \E m \in 1..(n - 1) : inbox'[u][m] = inbox'[u][n]
             \/ /\ \A m \in 1..(n - 1) : inbox'[u][m] < inbox'[u][n]
                /\ \A k \in Recorded' \cap EventsOf(u) : k < inbox'[u][n]
      BY <1>0, <1>1, <3>1, OrderAfterTake DEF Inv, i
    <3> QED
      BY <1>9, <2>1, <3>2 DEF Inv, OrderInv, EventsOf
  <2>6. EndInv'
    BY <1>1, <1>9, <2>1 DEF Inv, EndInv, Ends
  <2>7. PickInv'
    BY <1>1, <1>9 DEF Inv, PickInv, SortsLast, Responses
  <2> QED
    BY <2>2, <2>3, <2>4, <2>5, <2>6, <2>7 DEF Inv
<1>10. CASE Fault /\ GiveUp(i) /\ UNCHANGED <<events, cur, hpc>>
  <2>1. Recorded' = Recorded
    BY <1>10 DEF Recorded
  <2>2. faults' > 0 /\ faults' # 0
    BY <1>0, <1>2, <1>10, FaultTypes
  <2>3. dropped \subseteq dropped' /\ (i \in Ends => i \in dropped')
    BY <1>10 DEF GiveUp, Ends
  <2>4. HandlerInv'
    BY <1>1, <1>5, <1>10, <2>1 DEF Inv, HandlerInv, Ends, EventsOf, Responses
  <2>5. JobIsOfItsRequest'
    BY <1>1, <2>1 DEF Inv, JobIsOfItsRequest, Responses
  <2>6. ArrivalInv'
    BY <1>1, <1>6, <1>7, <2>1, <2>2, <2>3 DEF Inv, ArrivalInv, Listening, Ends
  <2>7. OrderInv'
    BY <2>2 DEF OrderInv
  <2>8. EndInv'
    BY <1>1, <1>10, <2>1, <2>3 DEF Inv, EndInv, Ends
  <2>9. PickInv'
    BY <1>1, <1>10 DEF Inv, PickInv, SortsLast, Responses
  <2> QED
    BY <2>4, <2>5, <2>6, <2>7, <2>8, <2>9 DEF Inv
<1> QED
  BY <1>3, <1>8, <1>9, <1>10

(* A step within HandleEvent after the record: neither table events nor an *)
(* inbox changes, and only the goroutine of s goes on.                     *)
Handling(s) ==
    /\ UNCHANGED <<published, inbox, events, phase>>
    /\ hpc[s] # "idle" /\ hpc'[s] # "update"
    /\ \A u \in Subs \ {s} :
         hpc'[u] = hpc[u] /\ cur'[u] = cur[u] /\ pick'[u] = pick[u]
    /\ faults' >= faults /\ dropped \subseteq dropped' /\ behind \subseteq behind'
    \* It goes on with its event, or settles it.
    /\ \/ hpc'[s] # "idle" /\ cur'[s] = cur[s]
       \/ /\ hpc'[s] = "idle"
          /\ cur[s] \in Ends => cur[s] \in dropped' \/ job'[Script[cur[s]].req] # 0
    /\ hpc'[s] \in {"wait", "create"} => cur[s] \in Ends
    \* What it picks is a recorded response, and the last if all are there.
    /\ hpc'[s] = "create" =>
         /\ pick'[s] \in Responses(Script[cur[s]].req) \cap Recorded
         /\ Script[cur[s]].req \notin behind' => SortsLast(pick'[s], Script[cur[s]].req)
    \* A job changes only from none to what was picked.
    /\ \A r \in Reqs : job'[r] # job[r] =>
         /\ hpc[s] = "create" /\ r = Script[cur[s]].req
         /\ job[r] = 0 /\ job'[r] = pick[s]

(* Such a step keeps the invariant.                                        *)
LEMMA HandlingKeeps ==
    ASSUME TypeInv, TypeInv', Inv, NEW s \in Subs, Handling(s)
    PROVE  Inv'
<1> USE DEF Handling
<1>1. Recorded' = Recorded
  BY DEF Recorded
<1>2. \A u \in Subs : Waiting(u)' = Waiting(u)
  BY DEF Waiting
<1>3. HandlerInv'
  <2>1. HandlerInv
    BY DEF Inv
  <2>2. ASSUME NEW u \in Subs
        PROVE  /\ hpc'[u] # "idle" => cur'[u] \in EventsOf(u) \cap Recorded
               /\ hpc'[u] \in {"wait", "create"} => cur'[u] \in Ends
               /\ hpc'[u] = "create" =>
                    pick'[u] \in Responses(Script[cur'[u]].req) \cap Recorded
    <3>1. CASE u = s
      BY <2>1, <3>1 DEF HandlerInv
    <3>2. CASE u # s
      BY <2>1, <3>2 DEF HandlerInv
    <3> QED
      BY <3>1, <3>2
  <2> QED
    BY <1>1, <1>2, <2>1, <2>2 DEF HandlerInv, Ends, EventsOf, Responses
<1>4. JobIsOfItsRequest'
  <2> SUFFICES ASSUME NEW r \in Reqs, job'[r] # 0
               PROVE  /\ job'[r] \in Responses(r) \cap Recorded
                      /\ \E i \in Recorded : Script[i].kind = "agent.done" /\ Script[i].req = r
    BY <1>1 DEF JobIsOfItsRequest, Responses
  <2>1. CASE job'[r] = job[r]
    BY <2>1 DEF Inv, JobIsOfItsRequest
  <2>2. CASE hpc[s] = "create" /\ r = Script[cur[s]].req /\ job'[r] = pick[s]
    BY <2>2 DEF Inv, HandlerInv, Ends
  <2> QED
    BY <2>1, <2>2
<1>5. faults \in Nat /\ faults' \in Nat
  BY ScriptAssumption DEF TypeInv, TypeOK
<1>6. ArrivalInv'
  BY <1>1, <1>2, <1>5, SubOfKind, ScriptAssumption
     DEF Inv, ArrivalInv, Listening, Ends, TypeInv, TypeOK, Ids
<1>7. OrderInv'
  <2> SUFFICES ASSUME faults' = 0 PROVE OrderInv'
    BY DEF OrderInv
  <2>1. faults = 0
    BY <1>5
  <2>2. \A u \in Subs : hpc'[u] = "update" => hpc[u] = "update" /\ cur'[u] = cur[u]
    OBVIOUS
  <2> QED
    BY <1>1, <2>1, <2>2 DEF Inv, OrderInv, EventsOf
<1>8. EndInv'
  <2> SUFFICES ASSUME phase # "ended", NEW i \in Recorded \cap Ends
               PROVE  \/ hpc'["agent.state"] # "idle" /\ cur'["agent.state"] = i
                      \/ i \in dropped'
                      \/ job'[Script[i].req] # 0
    BY <1>1 DEF EndInv, Ends
  <2>1. Script[i].req \in Reqs
    BY DEF Ends, Reqs
  <2>2. CASE i \in dropped \/ job[Script[i].req] # 0
    BY <2>1, <2>2
  <2>3. CASE hpc["agent.state"] # "idle" /\ cur["agent.state"] = i
    <3>1. "agent.state" \in Subs
      BY DEF Subs
    <3>2. CASE s = "agent.state"
      BY <2>3, <3>2
    <3>3. CASE s # "agent.state"
      BY <2>3, <3>1, <3>3
    <3> QED
      BY <3>2, <3>3
  <2> QED
    BY <2>2, <2>3 DEF Inv, EndInv
<1>9. PickInv'
  <2>1. PickInv
    BY DEF Inv
  <2>2. ASSUME NEW u \in Subs, hpc'[u] = "create", Script[cur'[u]].req \notin behind'
        PROVE  SortsLast(pick'[u], Script[cur'[u]].req)
    <3>1. CASE u = s
      BY <2>2, <3>1
    <3>2. CASE u # s
      BY <2>1, <2>2, <3>2 DEF PickInv
    <3> QED
      BY <3>1, <3>2
  <2>3. ASSUME NEW r \in Reqs, job'[r] # 0, r \notin behind'
        PROVE  SortsLast(job'[r], r)
    <3>1. CASE job'[r] = job[r]
      BY <2>1, <2>3, <3>1 DEF PickInv
    <3>2. CASE hpc[s] = "create" /\ r = Script[cur[s]].req /\ job'[r] = pick[s]
      BY <2>1, <2>3, <3>2 DEF PickInv
    <3> QED
      BY <3>1, <3>2
  <2> QED
    BY <2>2, <2>3 DEF PickInv, SortsLast, Responses
<1> QED
  BY <1>3, <1>4, <1>6, <1>7, <1>8, <1>9 DEF Inv

(* A time that sorts no later has no greater key; keys are numbers.        *)
LEMMA NewerSortsAfter ==
    ASSUME NEW i \in Ids, NEW k \in Ids, Newer(i, k)
    PROVE  TextKey(Script[k].at, Res) <= TextKey(Script[i].at, Res)
<1>1. Script[i].at \in Nat /\ Script[k].at \in Nat /\ Res \in Nat \ {0}
  BY ScriptAssumption DEF Ids
<1>2. TextKey(Script[i].at, Res) \in Int /\ TextKey(Script[k].at, Res) \in Int
  BY <1>1 DEF TextKey, Second
<1> QED
  BY <1>2 DEF Newer

(* UpdateCaptureState, waitForAssistantEvent with and without a result,    *)
(* and CreateTTSJob are such steps.                                        *)
LEMMA HandlersHandle ==
    ASSUME TypeInv, Inv, NEW s \in Subs,
           UpdateCaptureState(s) \/ FindResponse(s) \/ GraceOver(s) \/ CreateTTSJob(s)
    PROVE  Handling(s)
<1>0. TypeOK /\ HandlerInv
  BY DEF TypeInv, Inv
<1>1. hpc[s] # "idle" /\ cur[s] \in Ids /\ Script[cur[s]].req \in Reqs
  BY DEF TypeInv, UpdateCaptureState, FindResponse, GraceOver, CreateTTSJob, Reqs
<1>2. /\ faults \in Nat
      /\ Fault => faults' >= faults
      /\ GiveUp(cur[s]) =>
           /\ dropped \subseteq dropped'
           /\ cur[s] \in Ends => cur[s] \in dropped'
  BY <1>0, ScriptAssumption DEF Fault, GiveUp, Ends, TypeOK
<1>3. Finish(s) => /\ hpc'[s] = "idle"
                   /\ \A u \in Subs \ {s} :
                        hpc'[u] = hpc[u] /\ cur'[u] = cur[u] /\ pick'[u] = pick[u]
  BY <1>0, Finished
<1>4. CASE UpdateCaptureState(s)
  <2>1. /\ hpc[s] = "update"
        /\ UNCHANGED <<published, inbox, events, job, phase, behind>>
    BY <1>4 DEF UpdateCaptureState
  <2>2. CASE /\ Script[cur[s]].kind = "agent.done"
             /\ hpc' = [hpc EXCEPT ![s] = "wait"]
             /\ UNCHANGED <<cur, pick>>
             /\ UNCHANGED <<faults, dropped>>
    BY <1>0, <1>1, <1>2, <2>1, <2>2 DEF Handling, Ends, TypeOK
  <2>3. CASE /\ Script[cur[s]].kind # "agent.done"
             /\ Finish(s)
             /\ UNCHANGED <<faults, dropped>>
    BY <1>1, <1>2, <1>3, <2>1, <2>3 DEF Handling, Ends
  <2>4. CASE Fault /\ GiveUp(cur[s]) /\ Finish(s)
    BY <1>1, <1>2, <1>3, <2>1, <2>4 DEF Handling
  <2> QED
    BY <1>4, <2>2, <2>3, <2>4 DEF UpdateCaptureState
<1>5. CASE FindResponse(s)
  <2> DEFINE req == Script[cur[s]].req
  <2>1. /\ hpc[s] = "wait"
        /\ hpc' = [hpc EXCEPT ![s] = "create"]
        /\ behind' = IF Responses(req) \subseteq Recorded THEN behind ELSE behind \cup {req}
        /\ UNCHANGED <<published, inbox, cur, events, job, phase, faults, dropped>>
    BY <1>5 DEF FindResponse
  <2>2. PICK i \in Ids : LatestAssistantEvent(req, i) /\ pick' = [pick EXCEPT ![s] = i]
    BY <1>5 DEF FindResponse
  <2>3. i \in Responses(req) \cap Recorded
    BY <2>2 DEF LatestAssistantEvent
  <2>4. ASSUME req \notin behind'
        PROVE  SortsLast(i, req)
    <3>1. Responses(req) \subseteq Recorded
      BY <2>1, <2>4
    <3>2. \A k \in Responses(req) : k \in Ids /\ Newer(i, k)
      BY <2>2, <3>1 DEF LatestAssistantEvent, Responses
    <3> QED
      BY <3>2, NewerSortsAfter DEF SortsLast
  <2>5. cur[s] \in Ends
    BY <1>0, <2>1 DEF HandlerInv
  <2>6. /\ hpc'[s] = "create" /\ pick'[s] = i
        /\ \A u \in Subs \ {s} : hpc'[u] = hpc[u] /\ pick'[u] = pick[u]
    BY <1>0, <2>1, <2>2 DEF TypeOK
  <2>7. behind \subseteq behind'
    BY <2>1
  <2> QED
    BY <1>1, <1>2, <2>1, <2>3, <2>4, <2>5, <2>6, <2>7 DEF Handling
<1>6. CASE GraceOver(s)
  <2>1. /\ hpc[s] = "wait" /\ GiveUp(cur[s]) /\ Finish(s)
        /\ faults' = faults \/ Fault
        /\ UNCHANGED <<published, inbox, events, job, phase, behind>>
    BY <1>6 DEF GraceOver
  <2> QED
    BY <1>1, <1>2, <1>3, <2>1 DEF Handling
<1>7. CASE CreateTTSJob(s)
  <2> DEFINE req == Script[cur[s]].req
  <2>1. /\ hpc[s] = "create" /\ Finish(s)
        /\ UNCHANGED <<published, inbox, events, phase, behind>>
    BY <1>7 DEF CreateTTSJob
  <2>2. pick[s] # 0
    BY <1>0, <2>1, ScriptAssumption DEF HandlerInv, Responses, Ids
  <2>3. CASE /\ job' = [job EXCEPT ![req] = IF @ = 0 THEN pick[s] ELSE @]
             /\ UNCHANGED <<faults, dropped>>
    <3>1. /\ job'[req] # 0
          /\ \A r \in Reqs : job'[r] # job[r] => r = req /\ job[r] = 0 /\ job'[r] = pick[s]
      BY <1>0, <1>1, <2>2, <2>3 DEF TypeOK
    <3> QED
      BY <1>1, <1>2, <1>3, <2>1, <2>3, <3>1 DEF Handling
  <2>4. CASE Fault /\ GiveUp(cur[s]) /\ UNCHANGED job
    BY <1>1, <1>2, <1>3, <2>1, <2>4 DEF Handling
  <2> QED
    BY <1>7, <2>3, <2>4 DEF CreateTTSJob
<1> QED
  BY <1>4, <1>5, <1>6, <1>7

-----------------------------------------------------------------------------
(* The invariant of the pipeline.                                          *)

(* Nothing is published, recorded or queued at first.                      *)
LEMMA InvInit == Init => Inv
<1> SUFFICES ASSUME Init PROVE Inv
  OBVIOUS
<1>1. Recorded = {} /\ \A s \in Subs : Waiting(s) = {}
  BY DEF Init, Recorded, Waiting
<1>2. HandlerInv
  BY <1>1 DEF Init, HandlerInv
<1>3. JobIsOfItsRequest /\ PickInv
  BY DEF Init, JobIsOfItsRequest, PickInv
<1>4. ArrivalInv /\ EndInv
  BY <1>1 DEF Init, ArrivalInv, EndInv
<1>5. OrderInv
  BY DEF Init, OrderInv
<1> QED
  BY <1>2, <1>3, <1>4, <1>5 DEF Inv

(* Every step keeps the invariant.                                         *)
LEMMA InvStep == TypeInv /\ TypeInv' /\ Inv /\ [Next]_vars => Inv'
<1> SUFFICES ASSUME TypeInv, TypeInv', Inv, [Next]_vars PROVE Inv'
  OBVIOUS
<1>0. TypeOK
  BY DEF TypeInv
<1>1. CASE Publish
  <2>1. published + 1 \in Ids
    BY <1>0, <1>1, ScriptAssumption DEF Publish, TypeOK, Ids
  <2> QED
    BY <1>0, <1>1, <2>1, DeliveryKeeps DEF Publish, Listening
<1>2. ASSUME NEW i \in Ids, Republish(i) PROVE Inv'
  BY <1>0, <1>2, DeliveryKeeps DEF Republish, Listening
<1>3. ASSUME NEW s \in Subs, RecordEvent(s) PROVE Inv'
  BY <1>3, RecordKeeps
<1>4. ASSUME NEW s \in Subs,
             UpdateCaptureState(s) \/ FindResponse(s) \/ GraceOver(s) \/ CreateTTSJob(s)
      PROVE  Inv'
  BY <1>4, HandlersHandle, HandlingKeeps
<1>5. CASE ProviderExits
  <2>1. Recorded' = Recorded /\ \A s \in Subs : Waiting(s)' = Waiting(s)
    BY <1>5 DEF ProviderExits, Recorded, Waiting
  <2>2. HandlerInv' /\ JobIsOfItsRequest' /\ PickInv'
    BY <1>5, <2>1 DEF ProviderExits, Inv, HandlerInv, JobIsOfItsRequest, PickInv,
       Ends, EventsOf, Responses, SortsLast
  <2>3. ArrivalInv'
    BY <1>0, <1>5, <2>1, SubOfKind, ScriptAssumption
       DEF ProviderExits, Inv, ArrivalInv, Listening, Ends, TypeOK, Ids
  <2>4. OrderInv' /\ EndInv'
    BY <1>5, <2>1 DEF ProviderExits, Inv, OrderInv, EndInv, Ends, EventsOf
  <2> QED
    BY <2>2, <2>3, <2>4 DEF Inv
<1>6. CASE CloseSubscription
  <2>1. Recorded' = Recorded /\ \A s \in Subs : Waiting(s)' = {} /\ inbox'[s] = <<>>
    BY <1>6 DEF CloseSubscription, Recorded, Waiting
  <2>2. HandlerInv' /\ JobIsOfItsRequest' /\ PickInv'
    BY <1>6, <2>1 DEF CloseSubscription, Inv, HandlerInv, JobIsOfItsRequest, PickInv,
       Ends, EventsOf, Responses, SortsLast
  <2>3. ArrivalInv'
    BY <1>6 DEF CloseSubscription, ArrivalInv, Listening
  <2>4. OrderInv' /\ EndInv'
    BY <1>6, <2>1 DEF CloseSubscription, Inv, OrderInv, EndInv, Ends, EventsOf
  <2> QED
    BY <2>2, <2>3, <2>4 DEF Inv
<1>7. CASE CloseDatabase
  <2>1. /\ Recorded' = Recorded
        /\ \A s \in Subs : Waiting(s)' = Waiting(s) /\ hpc'[s] = "idle"
    BY <1>7 DEF CloseDatabase, Recorded, Waiting
  <2>2. HandlerInv' /\ JobIsOfItsRequest' /\ PickInv'
    BY <1>7, <2>1 DEF CloseDatabase, Inv, HandlerInv, JobIsOfItsRequest, PickInv,
       Ends, EventsOf, Responses, SortsLast
  <2>3. ArrivalInv' /\ EndInv'
    BY <1>7 DEF CloseDatabase, ArrivalInv, EndInv, Listening
  <2>4. OrderInv'
    BY <1>7, <2>1 DEF CloseDatabase, Inv, OrderInv, EventsOf
  <2> QED
    BY <2>2, <2>3, <2>4 DEF Inv
<1>8. CASE UNCHANGED vars
  <2>1. Recorded' = Recorded /\ \A s \in Subs : Waiting(s)' = Waiting(s)
    BY <1>8 DEF vars, Recorded, Waiting
  <2>2. HandlerInv' /\ JobIsOfItsRequest' /\ PickInv'
    BY <1>8, <2>1 DEF vars, Inv, HandlerInv, JobIsOfItsRequest, PickInv,
       Ends, EventsOf, Responses, SortsLast
  <2>3. ArrivalInv'
    BY <1>0, <1>8, <2>1, SubOfKind, ScriptAssumption
       DEF vars, Inv, ArrivalInv, Listening, Ends, TypeOK, Ids
  <2>4. OrderInv' /\ EndInv'
    BY <1>8, <2>1 DEF vars, Inv, OrderInv, EndInv, Ends, EventsOf
  <2> QED
    BY <2>2, <2>3, <2>4 DEF Inv
<1> QED
  BY <1>1, <1>2, <1>3, <1>4, <1>5, <1>6, <1>7, <1>8 DEF Next, Handle

(* The invariant holds in every state, for every script.                   *)
THEOREM InvHolds == Spec => []Inv
  BY InvInit, InvStep, TypeCorrect, PTL DEF Spec

-----------------------------------------------------------------------------
(* What follows.                                                           *)

(* A job speaks a recorded response of its own request, and only of one    *)
(* whose agent.done was recorded (processor.go, HandleEvent).              *)
THEOREM JobOfRequest == Spec => []JobIsOfItsRequest
<1>1. Inv => JobIsOfItsRequest
  BY DEF Inv
<1> QED
  BY <1>1, InvHolds, PTL

(* The events of a request are of one turn: so it is where every request   *)
(* has an id of its own, and not over a Codex websocket, whose responses   *)
(* all carry the id of the connection.                                     *)
OneTurnPerRequest ==
    \A i, k \in Ids : Script[i].req = Script[k].req => Script[i].turn = Script[k].turn

(* Where a request is one turn, every turn that ended and was not given up *)
(* on has its job once all is handled.                                     *)
THEOREM EveryTurn ==
    ASSUME OneTurnPerRequest
    PROVE  Spec => []EveryTurnIsQueued
<1>1. ASSUME TypeInv, Inv
      PROVE  EveryTurnIsQueued
  <2> SUFFICES ASSUME Quiet, NEW i \in 1..published,
                      Script[i].kind = "agent.done", i \notin dropped
               PROVE  \E r \in Reqs : job[r] # 0 /\ Script[job[r]].turn = Script[i].turn
    BY DEF EveryTurnIsQueued
  <2>1. i \in Ends /\ i \in Ids /\ Script[i].req \in Reqs
    BY <1>1, ScriptAssumption DEF TypeInv, TypeOK, Ids, Ends, Reqs
  <2>2. Listening /\ phase # "ended" /\ \A s \in Subs : Waiting(s) = {} /\ hpc[s] = "idle"
    BY DEF Quiet, Listening, Waiting
  <2>3. i \in Recorded
    BY <1>1, <2>1, <2>2, SubOfKind DEF Inv, ArrivalInv
  <2>4. job[Script[i].req] # 0
    <3>1. "agent.state" \in Subs
      BY DEF Subs
    <3> QED
      BY <1>1, <2>1, <2>2, <2>3, <3>1 DEF Inv, EndInv
  <2>5. job[Script[i].req] \in Responses(Script[i].req)
    BY <1>1, <2>1, <2>4 DEF Inv, JobIsOfItsRequest
  <2>6. Script[job[Script[i].req]].turn = Script[i].turn
    BY <2>1, <2>5 DEF OneTurnPerRequest, Responses
  <2> QED
    BY <2>1, <2>4, <2>6
<1> QED
  BY <1>1, InvHolds, TypeCorrect, PTL

(* Without a fault only the lag of the other subscription loses a turn     *)
(* (processor.go, waitForAssistantEvent).                                  *)
THEOREM Lag == Spec => DroppedOnlyByLag
<1>1. ASSUME TypeInv, Inv, [Next]_vars
      PROVE  [\A i \in dropped' \ dropped :
                /\ faults' = 0
                /\ phase \in {"running", "exited"}
                /\ \E k \in Responses(Script[i].req) : k < i
                => \E n \in 1..Len(inbox["llm"]) :
                     inbox["llm"][n] \in Responses(Script[i].req)]_vars
  <2> SUFFICES ASSUME NEW i \in dropped' \ dropped, faults' = 0, Listening,
                      NEW k \in Responses(Script[i].req), k < i
               PROVE  \E n \in 1..Len(inbox["llm"]) :
                        inbox["llm"][n] \in Responses(Script[i].req)
    BY DEF Listening
  <2>0. TypeOK
    BY <1>1 DEF TypeInv
  <2>1. ~Fault
    BY <2>0, ScriptAssumption DEF Fault, TypeOK
  <2>2. \A s \in Subs : RecordEvent(s) \/ UpdateCaptureState(s) \/ CreateTTSJob(s)
                          => dropped' = dropped
    BY <2>1 DEF RecordEvent, UpdateCaptureState, CreateTTSJob
  <2>3. \E s \in Subs : GraceOver(s)
    BY <1>1, <2>2 DEF Next, Handle, Publish, Republish, FindResponse, ProviderExits,
       CloseSubscription, CloseDatabase, vars
  <2>4. PICK s \in Subs : GraceOver(s)
    BY <2>3
  <2>5. /\ i = cur[s] /\ hpc[s] = "wait" /\ faults = 0
        /\ Responses(Script[i].req) \cap Recorded = {}
    BY <2>1, <2>4 DEF GraceOver, GiveUp
  <2>6. i \in 1..published
    BY <1>1, <2>5 DEF Inv, HandlerInv
  <2>7. k \in 1..published /\ k \notin Recorded /\ Script[k].kind = "llm.response"
    <3>1. k \in Ids /\ Ids = 1..Len(Script) /\ Len(Script) \in Nat
      BY ScriptAssumption DEF Responses, Ids
    <3>2. published \in Nat
      BY <2>0, <3>1 DEF TypeOK
    <3>3. k \in 1..published
      BY <2>6, <3>1, <3>2
    <3> QED
      BY <2>5, <3>3 DEF Responses
  <2>8. k \in Waiting("llm")
    BY <1>1, <2>5, <2>7, SubOfKind DEF Inv, ArrivalInv
  <2> QED
    BY <2>8 DEF Waiting
<1> QED
  BY <1>1, InvHolds, TypeCorrect, PTL DEF Spec, DroppedOnlyByLag

(* Without a fault no repeated or older event of a subscription takes the  *)
(* state of the capture back (processor.go, UpdateCaptureState).           *)
THEOREM MovesOn == Spec => StateMovesOn
<1>1. ASSUME TypeInv, Inv, [Next]_vars
      PROVE  [capture' # capture /\ phase' = phase /\ faults' = 0 =>
                \E s \in Subs :
                   /\ hpc[s] = "update" /\ hpc'[s] # "update"
                   /\ \A k \in Recorded : SubOf(Script[k].kind) = s => k <= cur[s]]_vars
  <2> SUFFICES ASSUME capture' # capture, phase' = phase, faults' = 0
               PROVE  \E s \in Subs :
                        /\ hpc[s] = "update" /\ hpc'[s] # "update"
                        /\ \A k \in Recorded : SubOf(Script[k].kind) = s => k <= cur[s]
    OBVIOUS
  <2>0. TypeOK
    BY <1>1 DEF TypeInv
  <2>1. ~Fault
    BY <2>0, ScriptAssumption DEF Fault, TypeOK
  <2>2. \E s \in Subs : UpdateCaptureState(s)
    BY <1>1 DEF Next, Handle, Publish, Republish, RecordEvent, FindResponse, GraceOver,
       CreateTTSJob, ProviderExits, CloseSubscription, CloseDatabase, vars
  <2>3. PICK s \in Subs : UpdateCaptureState(s)
    BY <2>2
  <2>4. hpc[s] = "update" /\ hpc'[s] # "update" /\ faults = 0
    BY <2>0, <2>1, <2>3 DEF UpdateCaptureState, Finish, TypeOK
  <2>5. Recorded \subseteq Ids
    BY <2>0 DEF Recorded, TypeOK
  <2>6. \A k \in Recorded : SubOf(Script[k].kind) = s => k <= cur[s]
    BY <1>1, <2>4, <2>5 DEF Inv, OrderInv, EventsOf
  <2> QED
    BY <2>4, <2>6
<1> QED
  BY <1>1, InvHolds, TypeCorrect, PTL DEF Spec, StateMovesOn

(* A request with a response has a last one: LastResponse is defined.      *)
LEMMA LastResponseExists ==
    ASSUME NEW r, Responses(r) # {}
    PROVE  /\ LastResponse(r) \in Responses(r)
           /\ \A k \in Responses(r) : k <= LastResponse(r)
<1> DEFINE T == {Len(Script) - i : i \in Responses(r)}
           R == OpToRel(<, Nat)
<1>1. Responses(r) \subseteq 1..Len(Script) /\ Len(Script) \in Nat
  BY ScriptAssumption DEF Responses, Ids
<1>2. T \subseteq Nat /\ T # {}
  BY <1>1
<1>3. IsWellFoundedOn(R, Nat)
  BY NatLessThanWellFounded, Zenon
<1> HIDE DEF T, R
<1>4. PICK x \in T : \A y \in T : ~(<<y, x>> \in R)
  BY <1>2, <1>3, WFMin
<1>5. \A y \in T : ~(y < x)
  BY <1>2, <1>4 DEF R, OpToRel
<1>6. PICK i \in Responses(r) : x = Len(Script) - i
  BY <1>4 DEF T
<1>7. \A k \in Responses(r) : k <= i
  <2> SUFFICES ASSUME NEW k \in Responses(r) PROVE k <= i
    OBVIOUS
  <2>1. Len(Script) - k \in T
    BY DEF T
  <2>2. ~(Len(Script) - k < Len(Script) - i)
    BY <1>5, <1>6, <2>1
  <2> QED
    BY <1>1, <2>2
<1> QED
  BY <1>7 DEF LastResponse

(* The adapter stamps the responses of a request in the order it publishes *)
(* them: with the clock, or as a sorted batch.                             *)
StampedInOrder ==
    \A r \in Reqs : \A i, k \in Responses(r) : i <= k => Script[i].at <= Script[k].at

(* Where the responses of a request carry times in their order, a job      *)
(* speaks the last of them, unless some were still out when agent.done was *)
(* handled or another falls in the second of the last (store.go,           *)
(* LatestAssistantEvent: ORDER BY occurred_at, as text).                   *)
THEOREM LastWord ==
    ASSUME StampedInOrder
    PROVE  Spec => []LastWordUnlessBehind
<1>1. ASSUME Inv
      PROVE  LastWordUnlessBehind
  <2> SUFFICES ASSUME NEW r \in Reqs, job[r] # 0, r \notin behind,
                      job[r] # LastResponse(r)
               PROVE  \E i \in Responses(r) \ {LastResponse(r)} :
                        Second(Script[i].at, Res) = Second(Script[LastResponse(r)].at, Res)
    BY DEF LastWordUnlessBehind
  <2> DEFINE j == job[r]
             l == LastResponse(r)
  <2>1. j \in Responses(r)
    BY <1>1 DEF Inv, JobIsOfItsRequest
  <2>2. l \in Responses(r) /\ j <= l
    BY <2>1, LastResponseExists
  <2>3. TextKey(Script[l].at, Res) <= TextKey(Script[j].at, Res)
    BY <1>1, <2>2 DEF Inv, PickInv, SortsLast
  <2>4. Script[j].at <= Script[l].at
    BY <2>1, <2>2 DEF StampedInOrder
  <2> HIDE DEF j, l
  <2>5. Script[j].at \in Nat /\ Script[l].at \in Nat /\ Res \in Nat \ {0}
    BY <2>1, <2>2, ScriptAssumption DEF Responses, Ids
  <2>6. Second(Script[l].at, Res) <= Second(Script[j].at, Res)
    BY <2>3, <2>5, TextOrder
  <2>7. Second(Script[j].at, Res) <= Second(Script[l].at, Res)
    BY <2>4, <2>5, SecondsGrow
  <2>8. Second(Script[j].at, Res) = Second(Script[l].at, Res)
    <3>1. Second(Script[j].at, Res) \in Int /\ Second(Script[l].at, Res) \in Int
      BY <2>5 DEF Second
    <3> QED
      BY <2>6, <2>7, <3>1
  <2> QED
    BY <2>1, <2>8 DEF j, l
<1> QED
  BY <1>1, InvHolds, PTL

-----------------------------------------------------------------------------
(* Overlapping subjects.                                                   *)

(* Whether a pattern has a ">", and how many other tokens.                 *)
Wild(p) == ">" \in Range(p)
Fixed(p) == IF Wild(p) THEN Len(p) - 1 ELSE Len(p)

(* A pattern is so many tokens that are not ">", and maybe one that is.    *)
LEMMA PatternIs ==
    ASSUME NEW p \in Patterns
    PROVE  /\ p \in Seq(Tokens \cup {"*", ">"}) /\ p # <<>>
           /\ Len(p) \in 1..MaxLen /\ Fixed(p) \in 0..MaxLen
           /\ \A i \in 1..Fixed(p) : p[i] # ">" /\ p[i] \in Tokens \cup {"*"}
           /\ Wild(p) => Len(p) = Fixed(p) + 1 /\ p[Fixed(p) + 1] = ">"
           /\ ~Wild(p) => Len(p) = Fixed(p)
           /\ Fixed(p) <= Len(p)
<1> DEFINE T == Tokens \cup {"*", ">"}
<1>1. p # <<>> /\ \A i \in 1..(Len(p) - 1) : p[i] # ">"
  BY DEF Patterns
<1>2. PICK m \in 0..MaxLen : p \in [1..m -> T]
  BY DEF Patterns, BoundedSeq, SeqOf
<1>3. m \in Nat
  BY SubjectAssumption, <1>2
<1>4. p \in Seq(T) /\ Len(p) = m /\ \A i \in 1..m : p[i] \in T
  <2> HIDE DEF T
  <2> QED
    BY <1>2, <1>3, SeqDef, LenProperties
<1>5. m \in 1..MaxLen
  <2>1. m # 0
    BY <1>1, <1>4, LenProperties
  <2> QED
    BY <1>2, <1>3, <2>1, SubjectAssumption
<1>6. Wild(p) <=> \E i \in 1..m : p[i] = ">"
  <2>1. DOMAIN p = 1..m
    BY <1>2
  <2> QED
    BY <2>1 DEF Wild, Range
<1>7. CASE Wild(p)
  <2>1. PICK i \in 1..m : p[i] = ">"
    BY <1>6, <1>7
  <2>2. i = m
    BY <1>1, <1>4, <1>5, <2>1
  <2>3. Fixed(p) = m - 1
    BY <1>4, <1>7 DEF Fixed
  <2>4. Fixed(p) \in 0..MaxLen /\ Len(p) = Fixed(p) + 1 /\ Fixed(p) + 1 = m /\ Fixed(p) <= Len(p)
    BY <1>4, <1>5, <2>3, SubjectAssumption
  <2>5. \A k \in 1..Fixed(p) : p[k] # ">" /\ p[k] \in T
    BY <1>1, <1>4, <1>5, <2>3
  <2> QED
    BY <1>1, <1>4, <1>5, <1>7, <2>1, <2>2, <2>4, <2>5
<1>8. CASE ~Wild(p)
  <2>1. Fixed(p) = m
    BY <1>4, <1>8 DEF Fixed
  <2>2. \A k \in 1..m : p[k] # ">" /\ p[k] \in T
    BY <1>4, <1>6, <1>8
  <2>3. Fixed(p) \in 0..MaxLen /\ Fixed(p) <= Len(p)
    BY <1>4, <1>5, <2>1, SubjectAssumption
  <2> QED
    BY <1>1, <1>4, <1>5, <1>8, <2>1, <2>2, <2>3
<1> QED
  BY <1>7, <1>8

(* What is left of a pattern when k tokens that are not ">" are passed.    *)
LEMMA RestOfPattern ==
    ASSUME NEW p \in Patterns, NEW k \in 0..Fixed(p), NEW s,
           s = SubSeq(p, k + 1, Len(p))
    PROVE  /\ s = <<>> <=> k = Fixed(p) /\ ~Wild(p)
           /\ s # <<>> => (Head(s) = ">" <=> k = Fixed(p))
           /\ k = Fixed(p) /\ Wild(p) => Len(s) = 1
           /\ patternMatchesEmptySuffix(s) <=> k = Fixed(p)
           /\ patternCanMatchAny(s)
<1> DEFINE T == Tokens \cup {"*", ">"}
<1>1. PICK n, m : n = Fixed(p) /\ m = Len(p)
  OBVIOUS
<1>2. /\ p \in Seq(T) /\ n \in Nat /\ m \in Nat /\ n <= m /\ k \in Nat /\ k <= n /\ k <= m
      /\ \A i \in 1..n : p[i] # ">"
      /\ Wild(p) => m = n + 1 /\ p[n + 1] = ">"
      /\ ~Wild(p) => m = n
  <2>1. /\ p \in Seq(T) /\ Fixed(p) \in 0..MaxLen /\ Len(p) \in 1..MaxLen
        /\ \A i \in 1..Fixed(p) : p[i] # ">"
        /\ Wild(p) => Len(p) = Fixed(p) + 1 /\ p[Fixed(p) + 1] = ">"
        /\ ~Wild(p) => Len(p) = Fixed(p)
        /\ Fixed(p) <= Len(p)
    BY PatternIs
  <2>2. n \in Nat /\ m \in Nat /\ n <= m
    BY <1>1, <2>1, SubjectAssumption
  <2> HIDE DEF T
  <2> QED
    BY <1>1, <2>1, <2>2
<1> HIDE DEF T
<1>3. /\ s \in Seq(T) /\ Len(s) = m - k
      /\ \A i \in 1..(m - k) : s[i] = p[k + i]
  BY <1>1, <1>2, SplitAt
<1>4. s = <<>> <=> m = k
  <2>1. Len(s) = 0 <=> s = <<>>
    BY <1>3, LenProperties
  <2> QED
    BY <1>2, <1>3, <2>1
<1>5. s = <<>> <=> k = n /\ ~Wild(p)
  BY <1>2, <1>4
<1>6. s # <<>> => Head(s) = p[k + 1]
  <2>1. s # <<>> => 1 \in 1..(m - k) /\ Head(s) = s[1]
    BY <1>2, <1>3, <1>4
  <2> QED
    BY <1>3, <2>1
<1>7. s # <<>> => (Head(s) = ">" <=> k = n)
  <2>1. k # n => k + 1 \in 1..n
    BY <1>2
  <2>2. s # <<>> /\ k = n => Wild(p)
    BY <1>5
  <2> QED
    BY <1>2, <1>6, <2>1, <2>2
<1>8. k = n /\ Wild(p) => Len(s) = 1
  BY <1>2, <1>3
<1>9. patternMatchesEmptySuffix(s) <=> k = n
  <2>1. ASSUME k = n /\ Wild(p)
        PROVE  s = <<">">>
    <3>1. Len(s) = 1 /\ s[1] = ">"
      <4>1. 1 \in 1..(m - k)
        BY <1>2, <2>1
      <4>2. s[1] = p[k + 1]
        BY <1>3, <4>1
      <4> QED
        BY <1>2, <1>8, <2>1, <4>2
    <3>2. <<">">> \in Seq(T) /\ Len(<<">">>) = 1 /\ <<">">>[1] = ">"
      BY DEF T
    <3>3. \A i \in 1..Len(s) : s[i] = <<">">>[i]
      BY <3>1, <3>2
    <3> QED
      BY <1>3, <3>1, <3>2, <3>3, SeqEqual
  <2>2. k = n => s \in {<<>>, <<">">>}
    BY <1>5, <2>1
  <2>3. ASSUME s = <<">">>
        PROVE  k = n
    <3>1. <<">">> # <<>> /\ Head(<<">">>) = ">"
      OBVIOUS
    <3> QED
      BY <1>7, <2>3, <3>1
  <2> QED
    BY <1>5, <2>2, <2>3 DEF patternMatchesEmptySuffix
<1>10. patternCanMatchAny(s)
  <2> DEFINE open == {i \in 1..Len(s) : s[i] = ">"}
  <2>1. open \subseteq {Len(s)}
    <3>1. ASSUME NEW i \in 1..(m - k), s[i] = ">"
          PROVE  i = m - k
      <4>1. p[k + i] = ">"
        BY <1>3, <3>1
      <4>2. ~(k + i \in 1..n)
        BY <1>2, <4>1
      <4> QED
        BY <1>2, <4>2
    <3> QED
      BY <1>3, <3>1
  <2>2. open = {} \/ Min(open) = Len(s)
    <3>1. Len(s) \in Nat
      BY <1>3, LenProperties
    <3>2. open \subseteq 0..Len(s)
      BY <3>1
    <3> HIDE DEF open
    <3>3. open # {} => Min(open) \in open
      BY <3>1, <3>2, MinMaxNat
    <3> QED
      BY <2>1, <3>3
  <2> QED
    BY <2>2 DEF patternCanMatchAny
<1> QED
  BY <1>1, <1>5, <1>7, <1>8, <1>9, <1>10

(* The smaller of two numbers.                                             *)
LEMMA Smaller ==
    ASSUME NEW a \in Nat, NEW b \in Nat
    PROVE  /\ Min({a, b}) \in {a, b} /\ Min({a, b}) <= a /\ Min({a, b}) <= b
<1>1. PICK n, W : n = a + b /\ W = {a, b}
  OBVIOUS
<1>2. n \in Nat /\ W \subseteq 0..n /\ W # {} /\ a \in W /\ b \in W
  BY <1>1
<1>3. Min(W) \in W /\ \A y \in W : Min(W) <= y
  BY <1>2, MinMaxNat
<1> QED
  BY <1>1, <1>2, <1>3

(* The tokens that are compared are those both patterns have before any    *)
(* ">".                                                                    *)
LEMMA ComparedIs ==
    ASSUME NEW l \in Patterns, NEW r \in Patterns
    PROVE  /\ Compared(l, r) \in {Fixed(l), Fixed(r)}
           /\ Compared(l, r) <= Fixed(l) /\ Compared(l, r) <= Fixed(r)
<1> DEFINE shorter == Min({Len(l), Len(r)})
           stops == {k \in 0..shorter : k = shorter \/ l[k + 1] = ">" \/ r[k + 1] = ">"}
<1>1. ASSUME NEW p \in {l, r}
      PROVE  /\ Fixed(p) \in Nat /\ Len(p) \in Nat /\ Fixed(p) <= Len(p)
             /\ \A i \in 1..Fixed(p) : p[i] # ">"
             /\ Wild(p) => Len(p) = Fixed(p) + 1 /\ p[Fixed(p) + 1] = ">"
             /\ ~Wild(p) => Len(p) = Fixed(p)
  <2>1. /\ Fixed(p) \in 0..MaxLen /\ Len(p) \in 1..MaxLen /\ Fixed(p) <= Len(p)
        /\ \A i \in 1..Fixed(p) : p[i] # ">"
        /\ Wild(p) => Len(p) = Fixed(p) + 1 /\ p[Fixed(p) + 1] = ">"
        /\ ~Wild(p) => Len(p) = Fixed(p)
    BY PatternIs
  <2> QED
    BY <2>1, SubjectAssumption
<1>2. PICK a, b, x, y : a = Fixed(l) /\ b = Fixed(r) /\ x = Len(l) /\ y = Len(r)
  OBVIOUS
<1>3. /\ a \in Nat /\ b \in Nat /\ x \in Nat /\ y \in Nat /\ a <= x /\ b <= y
      /\ \A i \in 1..a : l[i] # ">"
      /\ \A i \in 1..b : r[i] # ">"
      /\ x = a \/ (x = a + 1 /\ l[a + 1] = ">")
      /\ y = b \/ (y = b + 1 /\ r[b + 1] = ">")
  BY <1>1, <1>2
<1>4. shorter \in {x, y} /\ shorter <= x /\ shorter <= y /\ shorter \in Nat
  BY <1>2, <1>3, Smaller
<1>5. Compared(l, r) = Min(stops)
  BY DEF Compared
<1> HIDE DEF shorter
<1>6. PICK c : c = (IF a <= b THEN a ELSE b)
  OBVIOUS
<1>7. c \in Nat /\ c \in {a, b} /\ c <= a /\ c <= b
  BY <1>3, <1>6
<1>8. c \in stops
  <2>1. c \in 0..shorter
    BY <1>3, <1>4, <1>7
  <2>2. c = shorter \/ l[c + 1] = ">" \/ r[c + 1] = ">"
    BY <1>3, <1>4, <1>7
  <2> QED
    BY <2>1, <2>2
<1>9. \A k \in stops : k >= c
  <2>1. ASSUME NEW k \in 0..shorter, ~(k >= c)
        PROVE  k # shorter /\ l[k + 1] # ">" /\ r[k + 1] # ">"
    <3>1. k + 1 \in 1..a /\ k + 1 \in 1..b /\ k # shorter
      BY <1>3, <1>4, <1>7, <2>1
    <3> QED
      BY <1>3, <3>1
  <2> QED
    BY <2>1
<1>10. stops \subseteq 0..shorter
  OBVIOUS
<1> HIDE DEF stops
<1>11. Min(stops) \in stops /\ Min(stops) <= c
  BY <1>4, <1>8, <1>10, MinMaxNat
<1>12. PICK k : k = Min(stops)
  OBVIOUS
<1>13. k = c
  <2>1. k \in stops /\ k <= c
    BY <1>11, <1>12
  <2>2. k \in Nat /\ k >= c
    BY <1>4, <1>9, <1>10, <2>1
  <2> QED
    BY <1>7, <2>1, <2>2
<1> QED
  BY <1>2, <1>5, <1>7, <1>12, <1>13

(* The check: the tokens both have before any ">" meet, and only a pattern *)
(* with ">" has fewer of them than the other.                              *)
LEMMA OverlapIs ==
    ASSUME NEW l \in Patterns, NEW r \in Patterns
    PROVE  subjectPatternsOverlap(l, r) <=>
             /\ \A i \in 1..Fixed(l) : i \in 1..Fixed(r) => TokensMeet(l[i], r[i])
             /\ Fixed(l) < Fixed(r) => Wild(l)
             /\ Fixed(r) < Fixed(l) => Wild(r)
<1>1. PICK a, b, k : a = Fixed(l) /\ b = Fixed(r) /\ k = Compared(l, r)
  OBVIOUS
<1>2. /\ a \in Nat /\ b \in Nat /\ k \in {a, b} /\ k <= a /\ k <= b /\ k \in Nat
      /\ l # <<>> /\ r # <<>>
  <2>1. Fixed(l) \in 0..MaxLen /\ l # <<>> /\ Fixed(r) \in 0..MaxLen /\ r # <<>>
    BY PatternIs
  <2>2. a \in Nat /\ b \in Nat
    BY <1>1, <2>1, SubjectAssumption
  <2> QED
    BY <1>1, <2>1, <2>2, ComparedIs
<1>3. PICK s, t : s = SubSeq(l, k + 1, Len(l)) /\ t = SubSeq(r, k + 1, Len(r))
  OBVIOUS
<1>4. /\ s = <<>> <=> k = a /\ ~Wild(l)
      /\ s # <<>> => (Head(s) = ">" <=> k = a)
      /\ k = a /\ Wild(l) => Len(s) = 1
      /\ patternMatchesEmptySuffix(s) <=> k = a
      /\ patternCanMatchAny(s)
  <2>1. k \in 0..Fixed(l)
    BY <1>1, <1>2
  <2> QED
    BY <1>1, <1>3, <2>1, RestOfPattern
<1>5. /\ t = <<>> <=> k = b /\ ~Wild(r)
      /\ t # <<>> => (Head(t) = ">" <=> k = b)
      /\ k = b /\ Wild(r) => Len(t) = 1
      /\ patternMatchesEmptySuffix(t) <=> k = b
      /\ patternCanMatchAny(t)
  <2>1. k \in 0..Fixed(r)
    BY <1>1, <1>2
  <2> QED
    BY <1>1, <1>3, <2>1, RestOfPattern
<1>6. RestOverlaps(s, t) <=> (a < b => Wild(l)) /\ (b < a => Wild(r))
  <2>1. CASE s = <<>>
    <3>1. RestOverlaps(s, t) <=> patternMatchesEmptySuffix(t)
      BY <2>1 DEF RestOverlaps
    <3> QED
      BY <1>2, <1>4, <1>5, <2>1, <3>1
  <2>2. CASE s # <<>> /\ t = <<>>
    <3>1. RestOverlaps(s, t) <=> patternMatchesEmptySuffix(s)
      BY <2>2 DEF RestOverlaps
    <3> QED
      BY <1>2, <1>4, <1>5, <2>2, <3>1
  <2>3. CASE s # <<>> /\ t # <<>> /\ Head(s) = ">"
    <3>1. RestOverlaps(s, t) <=> Len(s) = 1 /\ patternCanMatchAny(t)
      BY <2>3 DEF RestOverlaps
    <3>2. k = a /\ Wild(l) /\ (k = b => Wild(r))
      BY <1>4, <1>5, <2>3
    <3>3. RestOverlaps(s, t)
      BY <1>4, <1>5, <3>1, <3>2
    <3> QED
      BY <1>2, <3>2, <3>3
  <2>4. CASE s # <<>> /\ t # <<>> /\ Head(s) # ">"
    <3>1. RestOverlaps(s, t) <=> Len(t) = 1 /\ patternCanMatchAny(s)
      BY <2>4 DEF RestOverlaps
    <3>2. k # a /\ k = b /\ Wild(r)
      BY <1>2, <1>4, <1>5, <2>4
    <3>3. RestOverlaps(s, t)
      BY <1>4, <1>5, <3>1, <3>2
    <3> QED
      BY <1>2, <3>2, <3>3
  <2> QED
    BY <2>1, <2>2, <2>3, <2>4
<1>7. \A i : i \in 1..k <=> i \in 1..a /\ i \in 1..b
  BY <1>2
<1>8. subjectPatternsOverlap(l, r) <=>
        (\A i \in 1..k : TokensMeet(l[i], r[i])) /\ RestOverlaps(s, t)
  BY <1>1, <1>2, <1>3 DEF subjectPatternsOverlap, subjectTokensOverlap
<1>9. (\A i \in 1..k : TokensMeet(l[i], r[i])) <=>
        \A i \in 1..a : i \in 1..b => TokensMeet(l[i], r[i])
  BY <1>7
<1> QED
  BY <1>1, <1>6, <1>8, <1>9

(* A subject matches a pattern token by token; ">" stands for the rest.    *)
LEMMA MatchIs ==
    ASSUME NEW p, NEW s, NEW least
    PROVE  Matches(p, s, least) <=>
             /\ IF Wild(p) THEN Len(s) >= Fixed(p) + least ELSE Len(s) = Fixed(p)
             /\ \A i \in 1..Fixed(p) : p[i] \in {"*", s[i]}
BY DEF Matches, Fixed, Wild

(* The check misses no subject that both patterns match as NATS matches,   *)
(* and finds only such as they match when ">" may stand for nothing.       *)
LEMMA OverlapSound == OverlapIsSound
<1>1. ASSUME NEW l \in Patterns, NEW r \in Patterns, Common(l, r, 1)
      PROVE  subjectPatternsOverlap(l, r)
  <2>1. PICK s : Matches(l, s, 1) /\ Matches(r, s, 1) /\ s \in BoundedSeq(Tokens, MaxLen + 1)
    BY <1>1 DEF Common
  <2>2. Len(s) \in Nat
    <3>1. PICK m \in 0..(MaxLen + 1) : s \in [1..m -> Tokens]
      BY <2>1 DEF BoundedSeq, SeqOf
    <3>2. m \in Nat
      BY <3>1, SubjectAssumption
    <3> QED
      BY <3>1, <3>2, SeqDef, LenProperties
  <2>3. Fixed(l) \in Nat /\ Fixed(r) \in Nat
    <3>1. Fixed(l) \in 0..MaxLen /\ Fixed(r) \in 0..MaxLen
      BY PatternIs
    <3> QED
      BY <3>1, SubjectAssumption
  <2>4. PICK a, b, n : a = Fixed(l) /\ b = Fixed(r) /\ n = Len(s)
    OBVIOUS
  <2>5. /\ IF Wild(l) THEN n >= a + 1 ELSE n = a
        /\ \A i \in 1..a : l[i] \in {"*", s[i]}
        /\ IF Wild(r) THEN n >= b + 1 ELSE n = b
        /\ \A i \in 1..b : r[i] \in {"*", s[i]}
    BY <2>1, <2>4, MatchIs
  <2>6. (a < b => Wild(l)) /\ (b < a => Wild(r))
    BY <2>2, <2>3, <2>4, <2>5
  <2>7. \A i \in 1..a : i \in 1..b => TokensMeet(l[i], r[i])
    BY <2>5 DEF TokensMeet
  <2> QED
    BY <2>4, <2>6, <2>7, OverlapIs
<1>2. ASSUME NEW l \in Patterns, NEW r \in Patterns, subjectPatternsOverlap(l, r)
      PROVE  Common(l, r, 0)
  <2>1. PICK a, b : a = Fixed(l) /\ b = Fixed(r)
    OBVIOUS
  <2>2. /\ a \in 0..MaxLen /\ b \in 0..MaxLen
        /\ \A i \in 1..a : l[i] \in Tokens \cup {"*"}
        /\ \A i \in 1..b : r[i] \in Tokens \cup {"*"}
    BY <2>1, PatternIs
  <2>3. /\ \A i \in 1..a : i \in 1..b => TokensMeet(l[i], r[i])
        /\ (a < b => Wild(l)) /\ (b < a => Wild(r))
    BY <1>2, <2>1, OverlapIs
  <2>4. PICK u : u \in Tokens
    BY SubjectAssumption
  <2>5. PICK n : n = IF a <= b THEN b ELSE a
    OBVIOUS
  <2>6. /\ a \in Nat /\ b \in Nat /\ n \in 0..(MaxLen + 1) /\ n \in Nat /\ a <= n /\ b <= n
        /\ n = a \/ (n = b /\ a < b)
        /\ n = b \/ (n = a /\ b < a)
    BY <2>2, <2>5, SubjectAssumption
  <2> DEFINE s == [i \in 1..n |-> IF i \in 1..a /\ l[i] # "*" THEN l[i]
                                  ELSE IF i \in 1..b /\ r[i] # "*" THEN r[i] ELSE u]
  <2>7. s \in [1..n -> Tokens]
    BY <2>2, <2>4
  <2>8. \A i \in 1..a : i \in 1..n /\ l[i] \in {"*", s[i]}
    BY <2>6
  <2>9. \A i \in 1..b : i \in 1..n /\ r[i] \in {"*", s[i]}
    BY <2>3, <2>6 DEF TokensMeet
  <2> HIDE DEF s
  <2>10. Len(s) = n
    BY <2>6, <2>7, SeqDef, LenProperties
  <2>11. Matches(l, s, 0)
    <3>1. IF Wild(l) THEN n >= a + 0 ELSE n = a
      BY <2>3, <2>6
    <3> QED
      BY <2>1, <2>8, <2>10, <3>1, MatchIs
  <2>12. Matches(r, s, 0)
    <3>1. IF Wild(r) THEN n >= b + 0 ELSE n = b
      BY <2>3, <2>6
    <3> QED
      BY <2>1, <2>9, <2>10, <3>1, MatchIs
  <2>13. s \in BoundedSeq(Tokens, MaxLen + 1)
    BY <2>6, <2>7 DEF BoundedSeq, SeqOf
  <2> QED
    BY <2>11, <2>12, <2>13 DEF Common
<1> QED
  BY <1>1, <1>2 DEF OverlapIsSound

(* The check that EnsureStream makes before anything is published misses   *)
(* no stream that must be extended, and finds one too many only where ">"  *)
(* would have to match nothing, for subjects of any length                 *)
(* (subjectTokensOverlap).                                                 *)
THEOREM Overlap == Spec => []OverlapIsBetween
<1>1. OverlapIsBetween
  BY OverlapSound DEF OverlapIsBetween
<1> QED
  BY <1>1, PTL
==============================================================================
