----------------------------- MODULE SpeechQueue -----------------------------
(***************************************************************************)
(* The speech queue that every running capture of nexis-echo shares.       *)
(*                                                                         *)
(* All captures of one user open the same SQLite file.  Its tts_jobs table *)
(* is the queue, and the row "speaker" of its leases table is meant to     *)
(* keep two workers from talking over each other.  A capture process runs  *)
(* the worker twice: as the polling goroutine Worker.Run, started with the *)
(* capture, and as Worker.ProcessPending, the drain after the provider has *)
(* exited.  Both use one owner id, the process id, and the polling         *)
(* goroutine is still alive during the drain.                              *)
(*                                                                         *)
(* Every SQL statement or transaction is one step (SQLite serialises       *)
(* them); everything between two of them interleaves with every other      *)
(* goroutine and process.  The processes share one clock.                  *)
(***************************************************************************)
EXTENDS Integers, StoredTime

CONSTANTS
    Procs,        \* capture processes; one element is one life of one process
    NoOwner,      \* owner_id of the absent "speaker" row
    JobIds,       \* ids that tts_jobs may hand out, in AUTOINCREMENT order
    ChunksOf,     \* number of chunks a job's text is spoken in
    LeaseTTL,     \* Worker.leaseTTL, in clock units
    Res,          \* clock units per second
    InsertLag,    \* bound: clock units an INSERT waits for its turn
    Ending,       \* bound: processes that end, other than by a crash
    MaxTime,      \* bound: the clock stops here
    MaxRetries,   \* bound: "retry" commands per job
    MaxFaults     \* bound: crashes, failing SQL statements, signals and
                  \* drain timeouts of a behaviour

ASSUME ConstantsAssumption ==
    /\ NoOwner \notin Procs
    /\ JobIds \subseteq Nat \ {0}
    /\ ChunksOf \in [JobIds -> Nat \ {0}]  \* blank text makes no job
    /\ LeaseTTL \in Nat \ {0}
    /\ Res \in 1..10           \* one digit of fraction is enough to tell
    /\ InsertLag \in Nat
    /\ Ending \subseteq Procs
    /\ MaxTime \in Nat
    /\ MaxRetries \in Nat
    /\ MaxFaults \in Nat

Roles   == {"run", "drain"}            \* Worker.Run, Worker.ProcessPending
Threads == Procs \X Roles
NoJob   == 0
NoLease == [owner |-> NoOwner, expires |-> 0]

VARIABLES
    now,        \* the wall clock
    lease,      \* the "speaker" row of table leases
    status,     \* tts_jobs.status, "none" before the row exists
    attempts,   \* tts_jobs.attempts
    queuedAt,   \* tts_jobs.queued_at
    pstate,     \* how far RunCapture of a process has got
    signalled,  \* the process context is cancelled (SIGINT, SIGTERM)
    timedOut,   \* the drain's 30 s context is over
    pc,         \* where in processOne a goroutine is
    job,        \* the job it has claimed
    left,       \* chunks it has yet to speak
    asof,       \* the clock as AcquireLease read it
    faults,     \* faults so far
    requeues,   \* history: how often the row was put back in the queue
    heard,      \* history: how often the job was spoken to its last chunk
    undercut    \* history: goroutines whose own process took or
                \* shortened their lease while they were counting on it

rows    == <<status, attempts, queuedAt, requeues>>
procs   == <<pstate, signalled, timedOut>>
workers == <<pc, job, left, asof>>
vars    == <<now, lease, rows, procs, workers, faults, heard, undercut>>

-----------------------------------------------------------------------------
(* Helpers.                                                                *)

Statuses == {"none", "queued", "speaking", "done", "failed"}
Phases   == {"off", "up", "drain", "stopping", "dead"}
PCs      == {"off", "idle", "acquire", "claim", "speak", "release"}

Proc(t)     == t[1]
IsRun(t)    == t[2] = "run"
Siblings(t) == {s \in Threads : s[1] = t[1] /\ s # t}

(* Between a granted AcquireLease and the deferred ReleaseLease.           *)
InLease(t)  == pc[t] \in {"claim", "speak", "release"}

(* Goroutine t has job j in hand.                                          *)
Holds(t, j) == pc[t] = "speak" /\ job[t] = j

(* When the lease t was granted runs out.                                  *)
Deadline(t) == asof[t] + LeaseTTL

(* workerCtx ends with the process context or with stopWorker; the drain   *)
(* has a context of its own, which only its timeout ends.                  *)
CtxDone(t) ==
    IF IsRun(t) THEN signalled[Proc(t)] \/ pstate[Proc(t)] = "stopping"
                ELSE timedOut[Proc(t)]

(* Mutant: the drain goes on when nothing was processed.                   *)
After_AlwaysAgain(t, processed) == "idle"

(* What a goroutine does after processOne: Run waits for the next tick,    *)
(* ProcessPending goes on exactly when a job was processed.                *)
After(t, processed) == IF IsRun(t) \/ processed THEN "idle" ELSE "off"

(* Mutant: the claim also sees rows somebody is speaking.                  *)
Queued_OrSpeaking == {j \in JobIds : status[j] \in {"queued", "speaking"}}

Queued == {j \in JobIds : status[j] = "queued"}

(* Mutant: ORDER BY id alone.                                              *)
ClaimsBefore_IdOnly(i, j) == i <= j

(* ORDER BY queued_at ASC, id ASC.                                         *)
ClaimsBefore(i, j) ==
    LET ki == TextKey(queuedAt[i], Res)
        kj == TextKey(queuedAt[j], Res)
    IN  ki < kj \/ (ki = kj /\ i <= j)

NextQueued(j) == j \in Queued /\ \A i \in Queued : ClaimsBefore(j, i)

Fault == faults < MaxFaults /\ faults' = faults + 1

(* Bound: a lease is abandoned only early enough to run out before the     *)
(* clock stops.                                                            *)
InTime == now + LeaseTTL <= MaxTime

(* A statement may fail because its context is over, or by a fault.        *)
StatementFails(t) ==
    \/ CtxDone(t) /\ UNCHANGED faults
    \/ Fault

(* Mutant: DELETE FROM leases WHERE name = 'speaker', whoever owns it.     *)
DeleteLease_AnyOwner(t) ==
    /\ lease' = NoLease
    /\ undercut' = (undercut \ {t}) \cup {s \in Siblings(t) : InLease(s)}
    /\ UNCHANGED faults

(* DELETE FROM leases WHERE name = 'speaker' AND owner_id = Proc(t), run   *)
(* without a context and with its error ignored.  It deletes whatever row  *)
(* the process has, also one that the sibling is counting on.              *)
DeleteLease(t) ==
    \/ /\ lease.owner = Proc(t)
       /\ lease' = NoLease
       /\ undercut' = (undercut \ {t}) \cup {s \in Siblings(t) : InLease(s)}
       /\ UNCHANGED faults
    \/ /\ lease.owner # Proc(t)
       /\ undercut' = undercut \ {t}
       /\ UNCHANGED <<lease, faults>>
    \/ /\ InTime
       /\ Fault
       /\ undercut' = undercut \ {t}
       /\ UNCHANGED lease

-----------------------------------------------------------------------------
Init ==
    /\ now = 0
    /\ lease = NoLease
    /\ status = [j \in JobIds |-> "none"]
    /\ attempts = [j \in JobIds |-> 0]
    /\ queuedAt = [j \in JobIds |-> 0]
    /\ requeues = [j \in JobIds |-> 0]
    /\ pstate = [p \in Procs |-> "off"]
    /\ signalled = [p \in Procs |-> FALSE]
    /\ timedOut = [p \in Procs |-> FALSE]
    /\ pc = [t \in Threads |-> "off"]
    /\ job = [t \in Threads |-> NoJob]
    /\ left = [t \in Threads |-> 0]
    /\ asof = [t \in Threads |-> 0]
    /\ faults = 0
    /\ heard = [j \in JobIds |-> 0]
    /\ undercut = {}

Tick ==
    /\ now < MaxTime
    /\ now' = now + 1
    /\ UNCHANGED <<lease, rows, procs, workers, faults, heard, undercut>>

-----------------------------------------------------------------------------
(* The life of a capture process: RunCapture from the opening of the       *)
(* database to the last deferred call.                                     *)

(* ResetInFlightJobs: whoever starts puts every row that says 'speaking'   *)
(* back in the queue, also those a live process is speaking.               *)
ResetInFlightJobs ==
    /\ status' = [j \in JobIds |->
                    IF status[j] = "speaking" THEN "queued" ELSE status[j]]
    /\ requeues' = [j \in JobIds |->
                    IF status[j] = "speaking" THEN requeues[j] + 1 ELSE requeues[j]]
    /\ UNCHANGED <<attempts, queuedAt>>

(* The database is reset, the bus is up, the capture row is written and    *)
(* the polling goroutine started.                                          *)
StartWorker(p) ==
    /\ pstate[p] = "off"
    /\ ResetInFlightJobs
    /\ pstate' = [pstate EXCEPT ![p] = "up"]
    /\ pc' = [pc EXCEPT ![<<p, "run">>] = "idle"]
    /\ UNCHANGED <<now, lease, signalled, timedOut, job, left, asof, faults,
                   heard, undercut>>

(* The bus or the capture row fails: RunCapture returns after the reset.   *)
StartFails(p) ==
    /\ pstate[p] = "off"
    /\ ResetInFlightJobs
    /\ pstate' = [pstate EXCEPT ![p] = "dead"]
    /\ UNCHANGED <<now, lease, signalled, timedOut, workers, faults, heard,
                   undercut>>

(* SIGINT or SIGTERM cancels the context everything but the drain uses.    *)
Signal(p) ==
    /\ pstate[p] \in {"up", "drain"}
    /\ ~signalled[p]
    /\ Fault
    /\ signalled' = [signalled EXCEPT ![p] = TRUE]
    /\ UNCHANGED <<now, lease, rows, pstate, timedOut, workers, heard, undercut>>

(* cmd.Wait returns and the drain begins.                                  *)
ProviderExits(p) ==
    /\ pstate[p] = "up"
    /\ p \in Ending
    /\ pstate' = [pstate EXCEPT ![p] = "drain"]
    /\ pc' = [pc EXCEPT ![<<p, "drain">>] = "idle"]
    /\ UNCHANGED <<now, lease, rows, signalled, timedOut, job, left, asof,
                   faults, heard, undercut>>

(* The drain's context, 30 s or the completion grace, times out.           *)
DrainTimesOut(p) ==
    /\ pstate[p] = "drain"
    /\ ~timedOut[p]
    /\ Fault
    /\ timedOut' = [timedOut EXCEPT ![p] = TRUE]
    /\ UNCHANGED <<now, lease, rows, pstate, signalled, workers, heard, undercut>>

(* Mutant: the drain is started but not waited for.                        *)
StopWorker_NoWait(p) ==
    /\ p \in Ending
    /\ pstate[p] \in {"up", "drain"}
    /\ pstate' = [pstate EXCEPT ![p] = "stopping"]
    /\ UNCHANGED <<now, lease, rows, signalled, timedOut, workers, faults,
                   heard, undercut>>

(* The deferred stopWorker cancels the polling goroutine, and nobody waits *)
(* for it: after ProcessPending has returned, or without a drain when      *)
(* subscribing, preparing the session or starting the provider has failed. *)
StopWorker(p) ==
    /\ p \in Ending
    /\ \/ pstate[p] = "up"
       \/ pstate[p] = "drain" /\ pc[<<p, "drain">>] = "off"
    /\ pstate' = [pstate EXCEPT ![p] = "stopping"]
    /\ UNCHANGED <<now, lease, rows, signalled, timedOut, workers, faults,
                   heard, undercut>>

(* The goroutines of a process end with it, wherever they are.             *)
Die(p) ==
    /\ pstate' = [pstate EXCEPT ![p] = "dead"]
    /\ pc' = [t \in Threads |-> IF Proc(t) = p THEN "off" ELSE pc[t]]
    /\ job' = [t \in Threads |-> IF Proc(t) = p THEN NoJob ELSE job[t]]
    /\ left' = [t \in Threads |-> IF Proc(t) = p THEN 0 ELSE left[t]]
    /\ asof' = [t \in Threads |-> IF Proc(t) = p THEN 0 ELSE asof[t]]
    /\ undercut' = {t \in undercut : Proc(t) # p}
    /\ UNCHANGED <<now, lease, rows, signalled, timedOut, heard>>

(* The deferred database.Close, then the process exits.                    *)
CloseDatabase(p) ==
    /\ pstate[p] = "stopping"
    /\ lease.owner = p => InTime
    /\ Die(p)
    /\ UNCHANGED faults

(* The process is killed.                                                  *)
Crash(p) ==
    /\ pstate[p] \notin {"off", "dead"}
    /\ InTime
    /\ Fault
    /\ Die(p)

-----------------------------------------------------------------------------
(* Rows of tts_jobs written from outside the worker.                       *)

(* Mutant: a plain upsert instead of INSERT OR IGNORE.                     *)
CreateTTSJob_Upsert(p, j) ==
    /\ pstate[p] \in {"up", "drain", "stopping"}
    /\ \A i \in JobIds : i < j => status[i] # "none"
    /\ status' = [status EXCEPT ![j] = "queued"]
    /\ queuedAt' = [queuedAt EXCEPT ![j] = now]
    /\ UNCHANGED <<now, lease, attempts, requeues, procs, workers, faults,
                   heard, undercut>>

(* CreateTTSJob, called by the event handler of a process that is          *)
(* subscribed, or whose last handler is still running.                     *)
CreateTTSJob(p, j) ==
    /\ pstate[p] \in {"up", "drain", "stopping"}
    /\ status[j] = "none"
    /\ \A i \in JobIds : i < j => status[i] # "none"
    /\ status' = [status EXCEPT ![j] = "queued"]
    /\ \E q \in 0..now :
         /\ now - q <= InsertLag
         /\ queuedAt' = [queuedAt EXCEPT ![j] = q]
    /\ UNCHANGED <<now, lease, attempts, requeues, procs, workers, faults,
                   heard, undercut>>

(* The command "retry": no look at the row's status.                       *)
RetryJob(j) ==
    /\ status[j] # "none"
    /\ requeues[j] < MaxRetries
    /\ status' = [status EXCEPT ![j] = "queued"]
    /\ requeues' = [requeues EXCEPT ![j] = @ + 1]
    /\ UNCHANGED <<now, lease, attempts, queuedAt, procs, workers, faults,
                   heard, undercut>>

-----------------------------------------------------------------------------
(* processOne, statement by statement.                                     *)

(* AcquireLease reads the clock before it waits for the transaction.       *)
ReadClock(t) ==
    /\ pc[t] = "idle"
    /\ asof' = [asof EXCEPT ![t] = now]
    /\ pc' = [pc EXCEPT ![t] = "acquire"]
    /\ UNCHANGED <<now, lease, rows, procs, job, left, faults, heard, undercut>>

(* Mutant: the expiry is compared with the new one, not with the clock.    *)
LeaseRefused_NewExpiry(t) ==
    lease.owner \notin {NoOwner, Proc(t)} /\ lease.expires > Deadline(t)

(* Mutant: the expiry is not looked at.                                    *)
LeaseRefused_NoExpiry(t) == lease.owner \notin {NoOwner, Proc(t)}

(* currentOwner != ownerID && currentTime.After(now)                       *)
LeaseRefused(t) ==
    lease.owner \notin {NoOwner, Proc(t)} /\ lease.expires > asof[t]

AcquireLease(t) ==
    /\ pc[t] = "acquire"
    /\ ~CtxDone(t)
    /\ ~LeaseRefused(t)
    /\ lease' = [owner |-> Proc(t), expires |-> asof[t] + LeaseTTL]
    /\ undercut' = (undercut \ {t})
         \cup {s \in Siblings(t) : InLease(s) /\ asof[s] > asof[t]}
    /\ pc' = [pc EXCEPT ![t] = "claim"]
    /\ UNCHANGED <<now, rows, procs, job, left, asof, faults, heard>>

(* Refused, or an error: processOne returns with nothing processed.        *)
AcquireLeaseFails(t) ==
    /\ pc[t] = "acquire"
    /\ \/ LeaseRefused(t) /\ ~CtxDone(t) /\ UNCHANGED faults
       \/ StatementFails(t)
    /\ pc' = [pc EXCEPT ![t] = After(t, FALSE)]
    /\ asof' = [asof EXCEPT ![t] = 0]
    /\ UNCHANGED <<now, lease, rows, procs, job, left, heard, undercut>>

(* Mutant: the claim does not take the row out of the queue.               *)
ClaimNextQueuedJob_StaysQueued(t) ==
    /\ pc[t] = "claim"
    /\ ~CtxDone(t)
    /\ \E j \in JobIds :
         /\ NextQueued(j)
         /\ attempts' = [attempts EXCEPT ![j] = @ + 1]
         /\ job' = [job EXCEPT ![t] = j]
         /\ left' = [left EXCEPT ![t] = ChunksOf[j]]
    /\ pc' = [pc EXCEPT ![t] = "speak"]
    /\ UNCHANGED <<now, lease, status, queuedAt, requeues, procs, asof, faults,
                   heard, undercut>>

(* SELECT ... ORDER BY ... LIMIT 1 and UPDATE, in one transaction.         *)
ClaimNextQueuedJob(t) ==
    /\ pc[t] = "claim"
    /\ ~CtxDone(t)
    /\ \E j \in JobIds :
         /\ NextQueued(j)
         /\ status' = [status EXCEPT ![j] = "speaking"]
         /\ attempts' = [attempts EXCEPT ![j] = @ + 1]
         /\ job' = [job EXCEPT ![t] = j]
         /\ left' = [left EXCEPT ![t] = ChunksOf[j]]
    /\ pc' = [pc EXCEPT ![t] = "speak"]
    /\ UNCHANGED <<now, lease, queuedAt, requeues, procs, asof, faults, heard,
                   undercut>>

(* Mutant: processOne does not look at found.                              *)
ClaimFindsNothing_Unchecked(t) ==
    /\ pc[t] = "claim"
    /\ Queued = {} /\ ~CtxDone(t)
    /\ pc' = [pc EXCEPT ![t] = "speak"]
    /\ UNCHANGED <<now, lease, rows, procs, job, left, asof, faults, heard,
                   undercut>>

(* Nothing queued, or an error.                                            *)
ClaimFindsNothing(t) ==
    /\ pc[t] = "claim"
    /\ \/ Queued = {} /\ ~CtxDone(t) /\ UNCHANGED faults
       \/ StatementFails(t)
    /\ pc' = [pc EXCEPT ![t] = "release"]
    /\ UNCHANGED <<now, lease, rows, procs, job, left, asof, heard, undercut>>

SpeakChunk(t) ==
    /\ pc[t] = "speak"
    /\ left[t] > 0
    /\ ~CtxDone(t)
    /\ left' = [left EXCEPT ![t] = @ - 1]
    /\ heard' = [heard EXCEPT ![job[t]] = IF left[t] = 1 THEN @ + 1 ELSE @]
    /\ UNCHANGED <<now, lease, rows, procs, pc, job, asof, faults, undercut>>

(* The backend reports an error, or its context is over: MarkJobFailed,    *)
(* without the worker's context and with its error ignored.                *)
MarkJobFailed(t) ==
    /\ pc[t] = "speak"
    /\ left[t] > 0
    /\ \/ /\ status' = [status EXCEPT ![job[t]] = "failed"]
          /\ UNCHANGED faults
       \/ /\ Fault
          /\ UNCHANGED status
    /\ pc' = [pc EXCEPT ![t] = "release"]
    /\ left' = [left EXCEPT ![t] = 0]
    /\ UNCHANGED <<now, lease, attempts, queuedAt, requeues, procs, job, asof,
                   heard, undercut>>

(* Mutant: the job is marked before its last chunk.                        *)
MarkJobDone_Early(t) ==
    /\ pc[t] = "speak"
    /\ ~CtxDone(t)
    /\ status' = [status EXCEPT ![job[t]] = "done"]
    /\ pc' = [pc EXCEPT ![t] = "release"]
    /\ UNCHANGED <<now, lease, attempts, queuedAt, requeues, procs, job, left,
                   asof, faults, heard, undercut>>

(* MarkJobDone: no look at the row's status.                               *)
MarkJobDone(t) ==
    /\ pc[t] = "speak"
    /\ left[t] = 0
    /\ ~CtxDone(t)
    /\ status' = [status EXCEPT ![job[t]] = "done"]
    /\ pc' = [pc EXCEPT ![t] = "release"]
    /\ UNCHANGED <<now, lease, attempts, queuedAt, requeues, procs, job, left,
                   asof, faults, heard, undercut>>

(* The job was spoken but its row still says 'speaking'.                   *)
MarkJobDoneFails(t) ==
    /\ pc[t] = "speak"
    /\ left[t] = 0
    /\ StatementFails(t)
    /\ pc' = [pc EXCEPT ![t] = "release"]
    /\ job' = [job EXCEPT ![t] = NoJob]
    /\ UNCHANGED <<now, lease, rows, procs, left, asof, heard, undercut>>

(* The deferred ReleaseLease.                                              *)
ReleaseLease(t) ==
    /\ pc[t] = "release"
    /\ DeleteLease(t)
    /\ pc' = [pc EXCEPT ![t] = After(t, job[t] # NoJob)]
    /\ job' = [job EXCEPT ![t] = NoJob]
    /\ asof' = [asof EXCEPT ![t] = 0]
    /\ UNCHANGED <<now, rows, procs, left, heard>>

(* Worker.Run sees its context done, releases the lease and returns.       *)
RunReturns(t) ==
    /\ IsRun(t)
    /\ pc[t] = "idle"
    /\ CtxDone(t)
    /\ DeleteLease(t)
    /\ pc' = [pc EXCEPT ![t] = "off"]
    /\ UNCHANGED <<now, rows, procs, job, left, asof, heard>>

-----------------------------------------------------------------------------
ThreadStep(t) ==
    \/ ReadClock(t)          \/ AcquireLease(t)      \/ AcquireLeaseFails(t)
    \/ ClaimNextQueuedJob(t) \/ ClaimFindsNothing(t) \/ SpeakChunk(t)
    \/ MarkJobFailed(t)      \/ MarkJobDone(t)       \/ MarkJobDoneFails(t)
    \/ ReleaseLease(t)       \/ RunReturns(t)

ProcessStep(p) ==
    \/ StartWorker(p)   \/ StartFails(p)    \/ Signal(p)
    \/ ProviderExits(p) \/ DrainTimesOut(p) \/ StopWorker(p)
    \/ CloseDatabase(p) \/ Crash(p)
    \/ \E j \in JobIds : CreateTTSJob(p, j)

Next ==
    \/ Tick
    \/ \E p \in Procs : ProcessStep(p)
    \/ \E j \in JobIds : RetryJob(j)
    \/ \E t \in Threads : ThreadStep(t)

Spec == Init /\ [][Next]_vars

(* Time passes; a goroutine that can go on does (the ticker fires, SQLite  *)
(* answers, the backend returns or fails); Run's select, which chooses     *)
(* evenly between a tick and a context that is over, does not miss the     *)
(* latter forever; a signal kills the provider; and what RunCapture has    *)
(* begun to wind up, it ends.  Nothing obliges a process to start, a       *)
(* provider to exit or a job to be created.                                *)
Fairness ==
    /\ WF_vars(Tick)
    /\ \A t \in Threads : WF_vars(ThreadStep(t)) /\ SF_vars(RunReturns(t))
    /\ \A p \in Procs :
         /\ WF_vars(signalled[p] /\ ProviderExits(p))
         /\ WF_vars(pstate[p] = "drain" /\ StopWorker(p))
         /\ WF_vars(CloseDatabase(p))

FairSpec == Spec /\ Fairness

-----------------------------------------------------------------------------
(* What the queue promises.                                                *)

TypeOK ==
    /\ now \in Nat
    /\ lease \in [owner : Procs \cup {NoOwner}, expires : Nat]
    /\ status \in [JobIds -> Statuses]
    /\ attempts \in [JobIds -> Nat]
    /\ queuedAt \in [JobIds -> Nat]
    /\ requeues \in [JobIds -> Nat]
    /\ pstate \in [Procs -> Phases]
    /\ signalled \in [Procs -> BOOLEAN]
    /\ timedOut \in [Procs -> BOOLEAN]
    /\ pc \in [Threads -> PCs]
    /\ job \in [Threads -> JobIds \cup {NoJob}]
    /\ left \in [Threads -> Nat]
    /\ asof \in [Threads -> Nat]
    /\ faults \in Nat
    /\ heard \in [JobIds -> Nat]
    /\ undercut \subseteq Threads
    /\ \A t \in Threads : pc[t] = "speak" => job[t] \in JobIds

(* The goroutine's lease is still good: it has not run out, and its own    *)
(* process has not released or shortened it.                               *)
Covered(t) == InLease(t) /\ t \notin undercut /\ now < Deadline(t)

(* While a worker's lease is good, the "speaker" row names its process and *)
(* runs at least as long: no AcquireLease of another process, however      *)
(* stale the clock it has read, replaces it (store.go, AcquireLease).      *)
LeaseProtects ==
    \A t \in Threads :
        /\ asof[t] <= now
        /\ Covered(t) => lease.owner = Proc(t) /\ lease.expires >= Deadline(t)

(* Workers of two processes talk over each other only if one of them has   *)
(* outstayed its lease (nothing renews it while a job is spoken) or has    *)
(* had it released or shortened by its own process.                        *)
CrossProcessExclusion ==
    \A t, u \in Threads :
        Proc(t) # Proc(u) /\ InLease(t) /\ InLease(u)
            => ~Covered(t) \/ ~Covered(u)

(* A process pulls the lease from under its own worker only once the       *)
(* provider has exited: Run and the drain share the owner id, but are      *)
(* never both at work before that.                                         *)
UndercutOnlyInShutdown ==
    /\ \A t \in undercut : pstate[Proc(t)] \in {"drain", "stopping"}
    /\ \A t \in Threads :
         ~IsRun(t) /\ pc[t] # "off" => pstate[Proc(t)] = "drain"

(* One claim per queueing: a row is claimed at most once more often than   *)
(* ResetInFlightJobs and RetryJob have put it back, however many workers   *)
(* race for it.                                                            *)
AttemptsBounded ==
    \A j \in JobIds : attempts[j] <= requeues[j] + 1

(* A job in a worker's hands has been claimed; its row is back in the      *)
(* queue, or the job in a second worker's hands, only if ResetInFlightJobs *)
(* or RetryJob has put it back under the first one.                        *)
SharedOnlyIfRequeued ==
    \A t \in Threads : \A j \in JobIds : Holds(t, j) =>
        /\ status[j] # "none" /\ attempts[j] > 0
        /\ status[j] = "queued" => requeues[j] > 0
        /\ \A u \in Threads : Holds(u, j) /\ u # t => requeues[j] > 0

DoneMeansHeard ==
    \A j \in JobIds :
        /\ heard[j] <= attempts[j]
        /\ status[j] = "done" => heard[j] > 0

SpeakingIsHeld ==
    \A j \in JobIds : status[j] = "speaking" =>
        \/ \E t \in Threads : Holds(t, j)
        \/ faults > 0
        \/ \E p \in Procs : pstate[p] \in {"stopping", "dead"}

(* The status of a row is true of its speech.  A job is read to its end at *)
(* most once per claim, and a row says 'done' only after it has been.  A   *)
(* row that says 'speaking' is in some worker's hands, unless a fault      *)
(* (crash, failing statement, signal, drain timeout) or the end of a       *)
(* process came between (processOne, MarkJobDone, MarkJobFailed).          *)
StatusIsTrue == DoneMeansHeard /\ SpeakingIsHeld

(* Text order of queued_at never lets a job overtake one that was queued   *)
(* in an earlier second: the anomaly of dropped fractions stays within it. *)
ClaimsBySecond ==
    [][\A j \in JobIds :
         status[j] = "queued" /\ status'[j] = "speaking" =>
           \A i \in Queued : Second(queuedAt[i], Res) >= Second(queuedAt[j], Res)]_vars

(* A queued job is claimed, even if the process that held the lease has    *)
(* died with it, as long as some capture keeps its worker running.         *)
QueuedIsClaimed ==
    \A j \in JobIds :
        status[j] = "queued" ~>
            \/ status[j] # "queued"
            \/ ~\E p \in Procs : pstate[p] = "up" /\ ~signalled[p]

(* A capture whose provider has exited ends: neither a refused lease, nor  *)
(* a sibling that takes every job, nor its drain keeps it alive.           *)
ShutdownTerminates ==
    \A p \in Procs :
        pstate[p] \in {"drain", "stopping"} ~> pstate[p] = "dead"

(* The queue implements the ledger of its rows: whatever the workers, the  *)
(* leases and the restarts do, a row is claimed only from the queue and    *)
(* finished only after a claim (worker.go, processOne).                    *)
Ledger == INSTANCE JobLedger
            WITH JobIds <- JobIds, status <- status, attempts <- attempts,
                 requeues <- requeues
ImplementsLedger == Ledger!LedgerSpec
=============================================================================
