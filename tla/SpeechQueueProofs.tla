-------------------------- MODULE SpeechQueueProofs --------------------------
(* What holds of the speech queue for any number of processes, jobs and    *)
(* chunks, and for any lease time.                                         *)
EXTENDS SpeechQueue, SharedLemmas, FiniteSetTheorems, TLAPS

-----------------------------------------------------------------------------
(* Types.                                                                  *)

(* Every step of the queue keeps the types of its state.                   *)
LEMMA TypeStep == TypeOK /\ [Next]_vars => TypeOK'
<1> SUFFICES ASSUME TypeOK, [Next]_vars
             PROVE  TypeOK'
  OBVIOUS
<1>1. ASSUME Tick
      PROVE  TypeOK'
  BY <1>1 DEF TypeOK, Tick, rows, procs, workers
<1>2. ASSUME NEW p \in Procs, StartWorker(p)
      PROVE  TypeOK'
  BY <1>2
   DEF TypeOK, StartWorker, ResetInFlightJobs, Statuses, Phases, PCs,
       Threads, Roles
<1>3. ASSUME NEW p \in Procs, StartFails(p)
      PROVE  TypeOK'
  BY <1>3 DEF TypeOK, StartFails, ResetInFlightJobs, Statuses, Phases, workers
<1>4. ASSUME NEW p \in Procs, Signal(p)
      PROVE  TypeOK'
  BY <1>4 DEF TypeOK, Signal, Fault, rows, workers
<1>5. ASSUME NEW p \in Procs, ProviderExits(p)
      PROVE  TypeOK'
  BY <1>5 DEF TypeOK, ProviderExits, rows, Phases, PCs, Threads, Roles
<1>6. ASSUME NEW p \in Procs, DrainTimesOut(p)
      PROVE  TypeOK'
  BY <1>6 DEF TypeOK, DrainTimesOut, Fault, rows, workers
<1>7. ASSUME NEW p \in Procs, StopWorker(p)
      PROVE  TypeOK'
  BY <1>7 DEF TypeOK, StopWorker, rows, workers, Phases
<1>8. ASSUME NEW p \in Procs, CloseDatabase(p)
      PROVE  TypeOK'
  BY <1>8 DEF TypeOK, CloseDatabase, Die, rows, Phases, PCs, NoJob
<1>9. ASSUME NEW p \in Procs, Crash(p)
      PROVE  TypeOK'
  BY <1>9 DEF TypeOK, Crash, Die, Fault, rows, Phases, PCs, NoJob
<1>10. ASSUME NEW p \in Procs, NEW j \in JobIds, CreateTTSJob(p, j)
      PROVE  TypeOK'
  BY <1>10 DEF TypeOK, CreateTTSJob, procs, workers, Statuses
<1>11. ASSUME NEW j \in JobIds, RetryJob(j)
      PROVE  TypeOK'
  BY <1>11 DEF TypeOK, RetryJob, procs, workers, Statuses
<1>12. ASSUME NEW t \in Threads, ReadClock(t)
      PROVE  TypeOK'
  BY <1>12 DEF TypeOK, ReadClock, rows, procs, PCs
<1>13. ASSUME NEW t \in Threads, AcquireLease(t)
      PROVE  TypeOK'
  BY <1>13, ConstantsAssumption
   DEF TypeOK, AcquireLease, rows, procs, PCs, Proc, Siblings, Threads
<1>14. ASSUME NEW t \in Threads, AcquireLeaseFails(t)
      PROVE  TypeOK'
  BY <1>14
   DEF TypeOK, AcquireLeaseFails, StatementFails, Fault, After, rows,
       procs, PCs
<1>15. ASSUME NEW t \in Threads, ClaimNextQueuedJob(t)
      PROVE  TypeOK'
  <2>1. PICK j \in JobIds :
         /\ status' = [status EXCEPT ![j] = "speaking"]
         /\ attempts' = [attempts EXCEPT ![j] = @ + 1]
         /\ job' = [job EXCEPT ![t] = j]
         /\ left' = [left EXCEPT ![t] = ChunksOf[j]]
    BY <1>15 DEF ClaimNextQueuedJob
  <2>2. ChunksOf[j] \in Nat
    BY ConstantsAssumption
  <2> QED
    BY <1>15, <2>1, <2>2
       DEF TypeOK, ClaimNextQueuedJob, procs, PCs, Statuses
<1>16. ASSUME NEW t \in Threads, ClaimFindsNothing(t)
      PROVE  TypeOK'
  BY <1>16
   DEF TypeOK, ClaimFindsNothing, StatementFails, Fault, rows, procs, PCs
<1>17. ASSUME NEW t \in Threads, SpeakChunk(t)
      PROVE  TypeOK'
  BY <1>17 DEF TypeOK, SpeakChunk, rows, procs
<1>18. ASSUME NEW t \in Threads, MarkJobFailed(t)
      PROVE  TypeOK'
  BY <1>18 DEF TypeOK, MarkJobFailed, Fault, procs, PCs, Statuses
<1>19. ASSUME NEW t \in Threads, MarkJobDone(t)
      PROVE  TypeOK'
  BY <1>19 DEF TypeOK, MarkJobDone, procs, PCs, Statuses
<1>20. ASSUME NEW t \in Threads, MarkJobDoneFails(t)
      PROVE  TypeOK'
  BY <1>20
   DEF TypeOK, MarkJobDoneFails, StatementFails, Fault, rows, procs, PCs,
       NoJob
<1>21. ASSUME NEW t \in Threads, ReleaseLease(t)
      PROVE  TypeOK'
  BY <1>21
   DEF TypeOK, ReleaseLease, DeleteLease, Fault, NoLease, After, Siblings,
       rows, procs, PCs, NoJob
<1>22. ASSUME NEW t \in Threads, RunReturns(t)
      PROVE  TypeOK'
  BY <1>22
   DEF TypeOK, RunReturns, DeleteLease, Fault, NoLease, Siblings, rows,
       procs, PCs
<1>23. CASE UNCHANGED vars
  BY <1>23 DEF TypeOK, vars, rows, procs, workers
<1> QED
  BY <1>1, <1>2, <1>3, <1>4, <1>5, <1>6, <1>7, <1>8, <1>9, <1>10,
     <1>11, <1>12, <1>13, <1>14, <1>15, <1>16, <1>17, <1>18, <1>19,
     <1>20, <1>21, <1>22, <1>23 DEF Next, ProcessStep, ThreadStep

(* The state of the queue, its processes and its workers stays well-typed, *)
(* and a worker that speaks always has a job (worker.go, processOne).      *)
THEOREM TypeCorrect == Spec => []TypeOK
<1>1. Init => TypeOK
  BY ConstantsAssumption
     DEF Init, TypeOK, NoLease, NoJob, Statuses, Phases, PCs
<1> QED
  BY <1>1, TypeStep, PTL DEF Spec

-----------------------------------------------------------------------------
(* The lease.                                                              *)

(* A worker whose lease is good keeps it through every step of anybody.    *)
LEMMA LeaseStep ==
    TypeOK /\ LeaseProtects /\ [Next]_vars => LeaseProtects'
<1> SUFFICES ASSUME TypeOK, LeaseProtects, [Next]_vars
             PROVE  LeaseProtects'
  OBVIOUS
<1>1. ASSUME Tick
      PROVE  LeaseProtects'
  BY <1>1, ConstantsAssumption
   DEF TypeOK, LeaseProtects, Covered, InLease, Deadline, Proc, Threads,
       Tick, rows, procs, workers
<1>2. ASSUME NEW p \in Procs, StartWorker(p)
      PROVE  LeaseProtects'
  BY <1>2, ConstantsAssumption
   DEF TypeOK, LeaseProtects, Covered, InLease, Deadline, Proc, Threads,
       StartWorker, ResetInFlightJobs
<1>3. ASSUME NEW p \in Procs, StartFails(p)
      PROVE  LeaseProtects'
  BY <1>3, ConstantsAssumption
   DEF TypeOK, LeaseProtects, Covered, InLease, Deadline, Proc, Threads,
       StartFails, ResetInFlightJobs, workers
<1>4. ASSUME NEW p \in Procs, Signal(p)
      PROVE  LeaseProtects'
  BY <1>4, ConstantsAssumption
   DEF TypeOK, LeaseProtects, Covered, InLease, Deadline, Proc, Threads,
       Signal, rows, workers
<1>5. ASSUME NEW p \in Procs, ProviderExits(p)
      PROVE  LeaseProtects'
  BY <1>5, ConstantsAssumption
   DEF TypeOK, LeaseProtects, Covered, InLease, Deadline, Proc, Threads,
       ProviderExits, rows
<1>6. ASSUME NEW p \in Procs, DrainTimesOut(p)
      PROVE  LeaseProtects'
  BY <1>6, ConstantsAssumption
   DEF TypeOK, LeaseProtects, Covered, InLease, Deadline, Proc, Threads,
       DrainTimesOut, rows, workers
<1>7. ASSUME NEW p \in Procs, StopWorker(p)
      PROVE  LeaseProtects'
  BY <1>7, ConstantsAssumption
   DEF TypeOK, LeaseProtects, Covered, InLease, Deadline, Proc, Threads,
       StopWorker, rows, workers
<1>8. ASSUME NEW p \in Procs, CloseDatabase(p)
      PROVE  LeaseProtects'
  BY <1>8, ConstantsAssumption
   DEF TypeOK, LeaseProtects, Covered, InLease, Deadline, Proc, Threads,
       CloseDatabase, Die, rows
<1>9. ASSUME NEW p \in Procs, Crash(p)
      PROVE  LeaseProtects'
  BY <1>9, ConstantsAssumption
   DEF TypeOK, LeaseProtects, Covered, InLease, Deadline, Proc, Threads,
       Crash, Die, rows
<1>10. ASSUME NEW p \in Procs, NEW j \in JobIds, CreateTTSJob(p, j)
      PROVE  LeaseProtects'
  BY <1>10, ConstantsAssumption
   DEF TypeOK, LeaseProtects, Covered, InLease, Deadline, Proc, Threads,
       CreateTTSJob, procs, workers
<1>11. ASSUME NEW j \in JobIds, RetryJob(j)
      PROVE  LeaseProtects'
  BY <1>11, ConstantsAssumption
   DEF TypeOK, LeaseProtects, Covered, InLease, Deadline, Proc, Threads,
       RetryJob, procs, workers
<1>12. ASSUME NEW t \in Threads, ReadClock(t)
      PROVE  LeaseProtects'
  BY <1>12, ConstantsAssumption
   DEF TypeOK, LeaseProtects, Covered, InLease, Deadline, Proc, Threads,
       ReadClock, rows, procs
<1>13. ASSUME NEW t \in Threads, AcquireLease(t)
      PROVE  LeaseProtects'
  BY <1>13, ConstantsAssumption
   DEF TypeOK, LeaseProtects, Covered, InLease, Deadline, Proc, Threads,
       AcquireLease, LeaseRefused, rows, procs, Siblings
<1>14. ASSUME NEW t \in Threads, AcquireLeaseFails(t)
      PROVE  LeaseProtects'
  BY <1>14, ConstantsAssumption
   DEF TypeOK, LeaseProtects, Covered, InLease, Deadline, Proc, Threads,
       AcquireLeaseFails, After, rows, procs
<1>15. ASSUME NEW t \in Threads, ClaimNextQueuedJob(t)
      PROVE  LeaseProtects'
  BY <1>15, ConstantsAssumption
   DEF TypeOK, LeaseProtects, Covered, InLease, Deadline, Proc, Threads,
       ClaimNextQueuedJob, procs
<1>16. ASSUME NEW t \in Threads, ClaimFindsNothing(t)
      PROVE  LeaseProtects'
  BY <1>16, ConstantsAssumption
   DEF TypeOK, LeaseProtects, Covered, InLease, Deadline, Proc, Threads,
       ClaimFindsNothing, rows, procs
<1>17. ASSUME NEW t \in Threads, SpeakChunk(t)
      PROVE  LeaseProtects'
  BY <1>17, ConstantsAssumption
   DEF TypeOK, LeaseProtects, Covered, InLease, Deadline, Proc, Threads,
       SpeakChunk, rows, procs
<1>18. ASSUME NEW t \in Threads, MarkJobFailed(t)
      PROVE  LeaseProtects'
  BY <1>18, ConstantsAssumption
   DEF TypeOK, LeaseProtects, Covered, InLease, Deadline, Proc, Threads,
       MarkJobFailed, procs
<1>19. ASSUME NEW t \in Threads, MarkJobDone(t)
      PROVE  LeaseProtects'
  BY <1>19, ConstantsAssumption
   DEF TypeOK, LeaseProtects, Covered, InLease, Deadline, Proc, Threads,
       MarkJobDone, procs
<1>20. ASSUME NEW t \in Threads, MarkJobDoneFails(t)
      PROVE  LeaseProtects'
  BY <1>20, ConstantsAssumption
   DEF TypeOK, LeaseProtects, Covered, InLease, Deadline, Proc, Threads,
       MarkJobDoneFails, rows, procs
<1>21. ASSUME NEW t \in Threads, ReleaseLease(t)
      PROVE  LeaseProtects'
  BY <1>21, ConstantsAssumption
   DEF TypeOK, LeaseProtects, Covered, InLease, Deadline, Proc, Threads,
       ReleaseLease, DeleteLease, NoLease, After, Siblings, rows, procs
<1>22. ASSUME NEW t \in Threads, RunReturns(t)
      PROVE  LeaseProtects'
  BY <1>22, ConstantsAssumption
   DEF TypeOK, LeaseProtects, Covered, InLease, Deadline, Proc, Threads,
       RunReturns, DeleteLease, NoLease, Siblings, rows, procs
<1>23. CASE UNCHANGED vars
  BY <1>23, ConstantsAssumption
   DEF TypeOK, LeaseProtects, Covered, InLease, Deadline, Proc, Threads,
       vars, rows, procs, workers
<1> QED
  BY <1>1, <1>2, <1>3, <1>4, <1>5, <1>6, <1>7, <1>8, <1>9, <1>10,
     <1>11, <1>12, <1>13, <1>14, <1>15, <1>16, <1>17, <1>18, <1>19,
     <1>20, <1>21, <1>22, <1>23 DEF Next, ProcessStep, ThreadStep

(* While a worker's lease is good, the row names its process, however many *)
(* processes there are and however stale the clocks they have read         *)
(* (store.go, AcquireLease and ReleaseLease).                              *)
THEOREM LeaseIsKept == Spec => []LeaseProtects
<1>1. Init => LeaseProtects
  BY DEF Init, LeaseProtects, Covered, InLease
<1> QED
  BY <1>1, LeaseStep, TypeCorrect, PTL DEF Spec

(* Workers of two processes are in their leases together only if one of    *)
(* the leases is no longer good.                                           *)
THEOREM Exclusion == Spec => []CrossProcessExclusion
<1>1. LeaseProtects => CrossProcessExclusion
  BY DEF LeaseProtects, CrossProcessExclusion
<1> QED
  BY <1>1, LeaseIsKept, PTL

(* A process undercuts its own worker only when it is shutting down.       *)
LEMMA ShutdownStep ==
    TypeOK /\ UndercutOnlyInShutdown /\ [Next]_vars => UndercutOnlyInShutdown'
<1> SUFFICES ASSUME TypeOK, UndercutOnlyInShutdown, [Next]_vars
             PROVE  UndercutOnlyInShutdown'
  OBVIOUS
<1>1. ASSUME Tick
      PROVE  UndercutOnlyInShutdown'
  BY <1>1
   DEF TypeOK, UndercutOnlyInShutdown, InLease, IsRun, Proc, Threads,
       Roles, Tick, rows, procs, workers
<1>2. ASSUME NEW p \in Procs, StartWorker(p)
      PROVE  UndercutOnlyInShutdown'
  BY <1>2
   DEF TypeOK, UndercutOnlyInShutdown, InLease, IsRun, Proc, Threads,
       Roles, StartWorker, ResetInFlightJobs
<1>3. ASSUME NEW p \in Procs, StartFails(p)
      PROVE  UndercutOnlyInShutdown'
  BY <1>3
   DEF TypeOK, UndercutOnlyInShutdown, InLease, IsRun, Proc, Threads,
       Roles, StartFails, ResetInFlightJobs, workers
<1>4. ASSUME NEW p \in Procs, Signal(p)
      PROVE  UndercutOnlyInShutdown'
  BY <1>4
   DEF TypeOK, UndercutOnlyInShutdown, InLease, IsRun, Proc, Threads,
       Roles, Signal, rows, workers
<1>5. ASSUME NEW p \in Procs, ProviderExits(p)
      PROVE  UndercutOnlyInShutdown'
  BY <1>5
   DEF TypeOK, UndercutOnlyInShutdown, InLease, IsRun, Proc, Threads,
       Roles, ProviderExits, rows
<1>6. ASSUME NEW p \in Procs, DrainTimesOut(p)
      PROVE  UndercutOnlyInShutdown'
  BY <1>6
   DEF TypeOK, UndercutOnlyInShutdown, InLease, IsRun, Proc, Threads,
       Roles, DrainTimesOut, rows, workers
<1>7. ASSUME NEW p \in Procs, StopWorker(p)
      PROVE  UndercutOnlyInShutdown'
  <2>1. /\ pstate[p] \in {"up", "drain"} /\ pstate'[p] = "stopping"
        /\ \A r \in Procs : r # p => pstate'[r] = pstate[r]
        /\ pstate[p] = "drain" => pc[<<p, "drain">>] = "off"
    BY <1>7 DEF StopWorker, TypeOK
  <2>2. pc' = pc /\ undercut' = undercut
    BY <1>7 DEF StopWorker, workers
  <2>3. \A t \in Threads : Proc(t) \in Procs /\ (~IsRun(t) => t = <<Proc(t), "drain">>)
    BY DEF Threads, Roles, Proc, IsRun
  <2>4. undercut \subseteq Threads
    BY DEF TypeOK
  <2>5. \A t \in undercut : pstate'[Proc(t)] \in {"drain", "stopping"}
    BY <2>1, <2>3, <2>4 DEF UndercutOnlyInShutdown
  <2>6. \A t \in Threads : ~IsRun(t) /\ pc[t] # "off" => pstate'[Proc(t)] = "drain"
    BY <2>1, <2>3 DEF UndercutOnlyInShutdown
  <2> QED
    BY <2>2, <2>5, <2>6 DEF UndercutOnlyInShutdown
<1>8. ASSUME NEW p \in Procs, CloseDatabase(p)
      PROVE  UndercutOnlyInShutdown'
  BY <1>8
   DEF TypeOK, UndercutOnlyInShutdown, InLease, IsRun, Proc, Threads,
       Roles, CloseDatabase, Die, rows
<1>9. ASSUME NEW p \in Procs, Crash(p)
      PROVE  UndercutOnlyInShutdown'
  BY <1>9
   DEF TypeOK, UndercutOnlyInShutdown, InLease, IsRun, Proc, Threads,
       Roles, Crash, Die, rows
<1>10. ASSUME NEW p \in Procs, NEW j \in JobIds, CreateTTSJob(p, j)
      PROVE  UndercutOnlyInShutdown'
  BY <1>10
   DEF TypeOK, UndercutOnlyInShutdown, InLease, IsRun, Proc, Threads,
       Roles, CreateTTSJob, procs, workers
<1>11. ASSUME NEW j \in JobIds, RetryJob(j)
      PROVE  UndercutOnlyInShutdown'
  BY <1>11
   DEF TypeOK, UndercutOnlyInShutdown, InLease, IsRun, Proc, Threads,
       Roles, RetryJob, procs, workers
<1>12. ASSUME NEW t \in Threads, ReadClock(t)
      PROVE  UndercutOnlyInShutdown'
  BY <1>12
   DEF TypeOK, UndercutOnlyInShutdown, InLease, IsRun, Proc, Threads,
       Roles, ReadClock, rows, procs
<1>13. ASSUME NEW t \in Threads, AcquireLease(t)
      PROVE  UndercutOnlyInShutdown'
  BY <1>13
   DEF TypeOK, UndercutOnlyInShutdown, InLease, IsRun, Proc, Threads,
       Roles, AcquireLease, LeaseRefused, rows, procs, Siblings
<1>14. ASSUME NEW t \in Threads, AcquireLeaseFails(t)
      PROVE  UndercutOnlyInShutdown'
  BY <1>14
   DEF TypeOK, UndercutOnlyInShutdown, InLease, IsRun, Proc, Threads,
       Roles, AcquireLeaseFails, After, rows, procs
<1>15. ASSUME NEW t \in Threads, ClaimNextQueuedJob(t)
      PROVE  UndercutOnlyInShutdown'
  BY <1>15
   DEF TypeOK, UndercutOnlyInShutdown, InLease, IsRun, Proc, Threads,
       Roles, ClaimNextQueuedJob, procs
<1>16. ASSUME NEW t \in Threads, ClaimFindsNothing(t)
      PROVE  UndercutOnlyInShutdown'
  BY <1>16
   DEF TypeOK, UndercutOnlyInShutdown, InLease, IsRun, Proc, Threads,
       Roles, ClaimFindsNothing, rows, procs
<1>17. ASSUME NEW t \in Threads, SpeakChunk(t)
      PROVE  UndercutOnlyInShutdown'
  BY <1>17
   DEF TypeOK, UndercutOnlyInShutdown, InLease, IsRun, Proc, Threads,
       Roles, SpeakChunk, rows, procs
<1>18. ASSUME NEW t \in Threads, MarkJobFailed(t)
      PROVE  UndercutOnlyInShutdown'
  BY <1>18
   DEF TypeOK, UndercutOnlyInShutdown, InLease, IsRun, Proc, Threads,
       Roles, MarkJobFailed, procs
<1>19. ASSUME NEW t \in Threads, MarkJobDone(t)
      PROVE  UndercutOnlyInShutdown'
  BY <1>19
   DEF TypeOK, UndercutOnlyInShutdown, InLease, IsRun, Proc, Threads,
       Roles, MarkJobDone, procs
<1>20. ASSUME NEW t \in Threads, MarkJobDoneFails(t)
      PROVE  UndercutOnlyInShutdown'
  BY <1>20
   DEF TypeOK, UndercutOnlyInShutdown, InLease, IsRun, Proc, Threads,
       Roles, MarkJobDoneFails, rows, procs
<1>21. ASSUME NEW t \in Threads, ReleaseLease(t)
      PROVE  UndercutOnlyInShutdown'
  BY <1>21
   DEF TypeOK, UndercutOnlyInShutdown, InLease, IsRun, Proc, Threads,
       Roles, ReleaseLease, DeleteLease, NoLease, After, Siblings, rows, procs
<1>22. ASSUME NEW t \in Threads, RunReturns(t)
      PROVE  UndercutOnlyInShutdown'
  <2>1. \A s \in Siblings(t) : s \in Threads /\ Proc(s) = Proc(t) /\ ~IsRun(s)
    BY <1>22 DEF RunReturns, Siblings, Threads, Roles, IsRun, Proc
  <2>2. undercut' \subseteq undercut \cup {s \in Siblings(t) : InLease(s)}
    BY <1>22 DEF RunReturns, DeleteLease
  <2>3. pstate' = pstate /\ pc' = [pc EXCEPT ![t] = "off"]
    BY <1>22 DEF RunReturns, procs
  <2>4. \A s \in undercut' : pstate'[Proc(s)] \in {"drain", "stopping"}
    BY <2>1, <2>2, <2>3 DEF UndercutOnlyInShutdown, InLease
  <2> QED
    BY <2>3, <2>4 DEF TypeOK, UndercutOnlyInShutdown
<1>23. CASE UNCHANGED vars
  BY <1>23
   DEF TypeOK, UndercutOnlyInShutdown, InLease, IsRun, Proc, Threads,
       Roles, vars, rows, procs, workers
<1> QED
  BY <1>1, <1>2, <1>3, <1>4, <1>5, <1>6, <1>7, <1>8, <1>9, <1>10,
     <1>11, <1>12, <1>13, <1>14, <1>15, <1>16, <1>17, <1>18, <1>19,
     <1>20, <1>21, <1>22, <1>23 DEF Next, ProcessStep, ThreadStep

(* Before its provider exits, a process never takes or shortens a lease    *)
(* its own worker counts on (run.go, RunCapture; worker.go, Run).          *)
THEOREM ShutdownOnly == Spec => []UndercutOnlyInShutdown
<1>1. Init => UndercutOnlyInShutdown
  BY DEF Init, UndercutOnlyInShutdown
<1> QED
  BY <1>1, ShutdownStep, TypeCorrect, PTL DEF Spec

-----------------------------------------------------------------------------
(* The rows.                                                               *)

(* A job gets into two hands only through the queue.                       *)
LEMMA SharedStep ==
    TypeOK /\ SharedOnlyIfRequeued /\ [Next]_vars => SharedOnlyIfRequeued'
<1> SUFFICES ASSUME TypeOK, SharedOnlyIfRequeued, [Next]_vars
             PROVE  SharedOnlyIfRequeued'
  OBVIOUS
<1>1. ASSUME Tick
      PROVE  SharedOnlyIfRequeued'
  BY <1>1 DEF TypeOK, SharedOnlyIfRequeued, Holds, Tick, rows, procs, workers
<1>2. ASSUME NEW p \in Procs, StartWorker(p)
      PROVE  SharedOnlyIfRequeued'
  BY <1>2
   DEF TypeOK, SharedOnlyIfRequeued, Holds, StartWorker, ResetInFlightJobs
<1>3. ASSUME NEW p \in Procs, StartFails(p)
      PROVE  SharedOnlyIfRequeued'
  BY <1>3
   DEF TypeOK, SharedOnlyIfRequeued, Holds, StartFails, ResetInFlightJobs,
       workers
<1>4. ASSUME NEW p \in Procs, Signal(p)
      PROVE  SharedOnlyIfRequeued'
  BY <1>4 DEF TypeOK, SharedOnlyIfRequeued, Holds, Signal, rows, workers
<1>5. ASSUME NEW p \in Procs, ProviderExits(p)
      PROVE  SharedOnlyIfRequeued'
  BY <1>5 DEF TypeOK, SharedOnlyIfRequeued, Holds, ProviderExits, rows
<1>6. ASSUME NEW p \in Procs, DrainTimesOut(p)
      PROVE  SharedOnlyIfRequeued'
  BY <1>6
   DEF TypeOK, SharedOnlyIfRequeued, Holds, DrainTimesOut, rows, workers
<1>7. ASSUME NEW p \in Procs, StopWorker(p)
      PROVE  SharedOnlyIfRequeued'
  BY <1>7 DEF TypeOK, SharedOnlyIfRequeued, Holds, StopWorker, rows, workers
<1>8. ASSUME NEW p \in Procs, CloseDatabase(p)
      PROVE  SharedOnlyIfRequeued'
  BY <1>8 DEF TypeOK, SharedOnlyIfRequeued, Holds, CloseDatabase, Die, rows
<1>9. ASSUME NEW p \in Procs, Crash(p)
      PROVE  SharedOnlyIfRequeued'
  BY <1>9 DEF TypeOK, SharedOnlyIfRequeued, Holds, Crash, Die, rows
<1>10. ASSUME NEW p \in Procs, NEW j \in JobIds, CreateTTSJob(p, j)
      PROVE  SharedOnlyIfRequeued'
  BY <1>10
   DEF TypeOK, SharedOnlyIfRequeued, Holds, CreateTTSJob, procs, workers
<1>11. ASSUME NEW j \in JobIds, RetryJob(j)
      PROVE  SharedOnlyIfRequeued'
  BY <1>11 DEF TypeOK, SharedOnlyIfRequeued, Holds, RetryJob, procs, workers
<1>12. ASSUME NEW t \in Threads, ReadClock(t)
      PROVE  SharedOnlyIfRequeued'
  BY <1>12 DEF TypeOK, SharedOnlyIfRequeued, Holds, ReadClock, rows, procs
<1>13. ASSUME NEW t \in Threads, AcquireLease(t)
      PROVE  SharedOnlyIfRequeued'
  BY <1>13
   DEF TypeOK, SharedOnlyIfRequeued, Holds, AcquireLease, LeaseRefused,
       rows, procs, Siblings
<1>14. ASSUME NEW t \in Threads, AcquireLeaseFails(t)
      PROVE  SharedOnlyIfRequeued'
  BY <1>14
   DEF TypeOK, SharedOnlyIfRequeued, Holds, AcquireLeaseFails, After, rows,
       procs
<1>15. ASSUME NEW t \in Threads, ClaimNextQueuedJob(t)
      PROVE  SharedOnlyIfRequeued'
  <2>1. PICK j \in JobIds :
         /\ status[j] = "queued"
         /\ status' = [status EXCEPT ![j] = "speaking"]
         /\ attempts' = [attempts EXCEPT ![j] = @ + 1]
         /\ job' = [job EXCEPT ![t] = j]
    BY <1>15 DEF ClaimNextQueuedJob, NextQueued, Queued
  <2> QED
    BY <1>15, <2>1
       DEF TypeOK, SharedOnlyIfRequeued, Holds, ClaimNextQueuedJob
<1>16. ASSUME NEW t \in Threads, ClaimFindsNothing(t)
      PROVE  SharedOnlyIfRequeued'
  BY <1>16
   DEF TypeOK, SharedOnlyIfRequeued, Holds, ClaimFindsNothing, rows, procs
<1>17. ASSUME NEW t \in Threads, SpeakChunk(t)
      PROVE  SharedOnlyIfRequeued'
  BY <1>17 DEF TypeOK, SharedOnlyIfRequeued, Holds, SpeakChunk, rows, procs
<1>18. ASSUME NEW t \in Threads, MarkJobFailed(t)
      PROVE  SharedOnlyIfRequeued'
  BY <1>18 DEF TypeOK, SharedOnlyIfRequeued, Holds, MarkJobFailed, procs
<1>19. ASSUME NEW t \in Threads, MarkJobDone(t)
      PROVE  SharedOnlyIfRequeued'
  BY <1>19 DEF TypeOK, SharedOnlyIfRequeued, Holds, MarkJobDone, procs
<1>20. ASSUME NEW t \in Threads, MarkJobDoneFails(t)
      PROVE  SharedOnlyIfRequeued'
  BY <1>20
   DEF TypeOK, SharedOnlyIfRequeued, Holds, MarkJobDoneFails, rows, procs
<1>21. ASSUME NEW t \in Threads, ReleaseLease(t)
      PROVE  SharedOnlyIfRequeued'
  BY <1>21
   DEF TypeOK, SharedOnlyIfRequeued, Holds, ReleaseLease, DeleteLease,
       NoLease, After, Siblings, rows, procs
<1>22. ASSUME NEW t \in Threads, RunReturns(t)
      PROVE  SharedOnlyIfRequeued'
  BY <1>22
   DEF TypeOK, SharedOnlyIfRequeued, Holds, RunReturns, DeleteLease,
       NoLease, Siblings, rows, procs
<1>23. CASE UNCHANGED vars
  BY <1>23 DEF TypeOK, SharedOnlyIfRequeued, Holds, vars, rows, procs, workers
<1> QED
  BY <1>1, <1>2, <1>3, <1>4, <1>5, <1>6, <1>7, <1>8, <1>9, <1>10,
     <1>11, <1>12, <1>13, <1>14, <1>15, <1>16, <1>17, <1>18, <1>19,
     <1>20, <1>21, <1>22, <1>23 DEF Next, ProcessStep, ThreadStep

(* Two workers have one job in hand only if it was put back in the queue   *)
(* under the first (store.go, ClaimNextQueuedJob and ResetInFlightJobs).   *)
THEOREM Shared == Spec => []SharedOnlyIfRequeued
<1>1. Init => SharedOnlyIfRequeued
  BY DEF Init, SharedOnlyIfRequeued, Holds
<1> QED
  BY <1>1, SharedStep, TypeCorrect, PTL DEF Spec

(* Every step of the queue is a step of the ledger of its rows, or leaves  *)
(* the rows alone.                                                         *)
LEMMA LedgerStep ==
    TypeOK /\ SharedOnlyIfRequeued /\ [Next]_vars
        => [Ledger!LedgerNext]_(Ledger!ledger)
<1> SUFFICES ASSUME TypeOK, SharedOnlyIfRequeued, [Next]_vars
             PROVE  Ledger!LedgerNext \/ UNCHANGED Ledger!ledger
  BY DEF Ledger!ledger
<1>1. ASSUME Tick
      PROVE  Ledger!LedgerNext \/ UNCHANGED Ledger!ledger
  BY <1>1 DEF Ledger!ledger, rows, Tick
<1>2. ASSUME NEW p \in Procs, StartWorker(p)
      PROVE  Ledger!LedgerNext \/ UNCHANGED Ledger!ledger
  <2> DEFINE J == {j \in JobIds : status[j] = "speaking"}
  <2>1. Ledger!Requeue(J)
    BY <1>2 DEF StartWorker, ResetInFlightJobs, Ledger!Requeue
  <2> QED
    BY <2>1 DEF Ledger!LedgerNext
<1>3. ASSUME NEW p \in Procs, StartFails(p)
      PROVE  Ledger!LedgerNext \/ UNCHANGED Ledger!ledger
  <2> DEFINE J == {j \in JobIds : status[j] = "speaking"}
  <2>1. Ledger!Requeue(J)
    BY <1>3 DEF StartFails, ResetInFlightJobs, Ledger!Requeue
  <2> QED
    BY <2>1 DEF Ledger!LedgerNext
<1>4. ASSUME NEW p \in Procs, Signal(p)
      PROVE  Ledger!LedgerNext \/ UNCHANGED Ledger!ledger
  BY <1>4 DEF Ledger!ledger, rows, Signal
<1>5. ASSUME NEW p \in Procs, ProviderExits(p)
      PROVE  Ledger!LedgerNext \/ UNCHANGED Ledger!ledger
  BY <1>5 DEF Ledger!ledger, rows, ProviderExits
<1>6. ASSUME NEW p \in Procs, DrainTimesOut(p)
      PROVE  Ledger!LedgerNext \/ UNCHANGED Ledger!ledger
  BY <1>6 DEF Ledger!ledger, rows, DrainTimesOut
<1>7. ASSUME NEW p \in Procs, StopWorker(p)
      PROVE  Ledger!LedgerNext \/ UNCHANGED Ledger!ledger
  BY <1>7 DEF Ledger!ledger, rows, StopWorker
<1>8. ASSUME NEW p \in Procs, CloseDatabase(p)
      PROVE  Ledger!LedgerNext \/ UNCHANGED Ledger!ledger
  BY <1>8 DEF Ledger!ledger, rows, CloseDatabase, Die
<1>9. ASSUME NEW p \in Procs, Crash(p)
      PROVE  Ledger!LedgerNext \/ UNCHANGED Ledger!ledger
  BY <1>9 DEF Ledger!ledger, rows, Crash, Die
<1>10. ASSUME NEW p \in Procs, NEW j \in JobIds, CreateTTSJob(p, j)
      PROVE  Ledger!LedgerNext \/ UNCHANGED Ledger!ledger
  BY <1>10 DEF CreateTTSJob, Ledger!LedgerNext, Ledger!Create
<1>11. ASSUME NEW j \in JobIds, RetryJob(j)
      PROVE  Ledger!LedgerNext \/ UNCHANGED Ledger!ledger
  <2>1. Ledger!Requeue({j})
    BY <1>11 DEF RetryJob, TypeOK, Ledger!Requeue
  <2> QED
    BY <2>1 DEF Ledger!LedgerNext
<1>12. ASSUME NEW t \in Threads, ReadClock(t)
      PROVE  Ledger!LedgerNext \/ UNCHANGED Ledger!ledger
  BY <1>12 DEF Ledger!ledger, rows, ReadClock
<1>13. ASSUME NEW t \in Threads, AcquireLease(t)
      PROVE  Ledger!LedgerNext \/ UNCHANGED Ledger!ledger
  BY <1>13 DEF Ledger!ledger, rows, AcquireLease
<1>14. ASSUME NEW t \in Threads, AcquireLeaseFails(t)
      PROVE  Ledger!LedgerNext \/ UNCHANGED Ledger!ledger
  BY <1>14 DEF Ledger!ledger, rows, AcquireLeaseFails
<1>15. ASSUME NEW t \in Threads, ClaimNextQueuedJob(t)
      PROVE  Ledger!LedgerNext \/ UNCHANGED Ledger!ledger
  <2>1. PICK j \in JobIds :
         /\ status[j] = "queued"
         /\ status' = [status EXCEPT ![j] = "speaking"]
         /\ attempts' = [attempts EXCEPT ![j] = @ + 1]
    BY <1>15 DEF ClaimNextQueuedJob, NextQueued, Queued
  <2>2. Ledger!Claim(j)
    BY <1>15, <2>1 DEF ClaimNextQueuedJob, Ledger!Claim
  <2> QED
    BY <2>2 DEF Ledger!LedgerNext
<1>16. ASSUME NEW t \in Threads, ClaimFindsNothing(t)
      PROVE  Ledger!LedgerNext \/ UNCHANGED Ledger!ledger
  BY <1>16 DEF Ledger!ledger, rows, ClaimFindsNothing
<1>17. ASSUME NEW t \in Threads, SpeakChunk(t)
      PROVE  Ledger!LedgerNext \/ UNCHANGED Ledger!ledger
  BY <1>17 DEF Ledger!ledger, rows, SpeakChunk
<1>18. ASSUME NEW t \in Threads, MarkJobFailed(t)
      PROVE  Ledger!LedgerNext \/ UNCHANGED Ledger!ledger
  <2>1. job[t] \in JobIds /\ attempts[job[t]] > 0
    BY <1>18 DEF MarkJobFailed, TypeOK, SharedOnlyIfRequeued, Holds
  <2>2. Ledger!Finish(job[t], "failed") \/ UNCHANGED Ledger!ledger
    BY <1>18, <2>1 DEF MarkJobFailed, Ledger!Finish, Ledger!ledger
  <2> QED
    BY <2>1, <2>2 DEF Ledger!LedgerNext
<1>19. ASSUME NEW t \in Threads, MarkJobDone(t)
      PROVE  Ledger!LedgerNext \/ UNCHANGED Ledger!ledger
  <2>1. job[t] \in JobIds /\ attempts[job[t]] > 0
    BY <1>19 DEF MarkJobDone, TypeOK, SharedOnlyIfRequeued, Holds
  <2>2. Ledger!Finish(job[t], "done") \/ UNCHANGED Ledger!ledger
    BY <1>19, <2>1 DEF MarkJobDone, Ledger!Finish, Ledger!ledger
  <2> QED
    BY <2>1, <2>2 DEF Ledger!LedgerNext
<1>20. ASSUME NEW t \in Threads, MarkJobDoneFails(t)
      PROVE  Ledger!LedgerNext \/ UNCHANGED Ledger!ledger
  BY <1>20 DEF Ledger!ledger, rows, MarkJobDoneFails
<1>21. ASSUME NEW t \in Threads, ReleaseLease(t)
      PROVE  Ledger!LedgerNext \/ UNCHANGED Ledger!ledger
  BY <1>21 DEF Ledger!ledger, rows, ReleaseLease
<1>22. ASSUME NEW t \in Threads, RunReturns(t)
      PROVE  Ledger!LedgerNext \/ UNCHANGED Ledger!ledger
  BY <1>22 DEF Ledger!ledger, rows, RunReturns
<1>23. CASE UNCHANGED vars
  BY <1>23 DEF Ledger!ledger, rows, vars
<1> QED
  BY <1>1, <1>2, <1>3, <1>4, <1>5, <1>6, <1>7, <1>8, <1>9, <1>10,
     <1>11, <1>12, <1>13, <1>14, <1>15, <1>16, <1>17, <1>18, <1>19,
     <1>20, <1>21, <1>22, <1>23 DEF Next, ProcessStep, ThreadStep

(* The queue implements the ledger (worker.go, processOne; store.go).      *)
THEOREM Implements == Spec => ImplementsLedger
<1>1. Init => Ledger!LedgerInit
  BY DEF Init, Ledger!LedgerInit
<1> QED
  BY <1>1, LedgerStep, TypeCorrect, Shared, PTL
     DEF Spec, ImplementsLedger, Ledger!LedgerSpec

(* No row of tts_jobs is claimed more often than it was put in the queue.  *)
THEOREM LedgerBounded == ImplementsLedger => []Ledger!LedgerInv
<1>1. Ledger!LedgerInit => Ledger!LedgerInv
  BY DEF Ledger!LedgerInit, Ledger!LedgerInv
<1>2. Ledger!LedgerInv /\ [Ledger!LedgerNext]_(Ledger!ledger) => Ledger!LedgerInv'
  <2> SUFFICES ASSUME Ledger!LedgerInv, [Ledger!LedgerNext]_(Ledger!ledger)
               PROVE  Ledger!LedgerInv'
    OBVIOUS
  <2>1. ASSUME NEW j \in JobIds, Ledger!Create(j)
        PROVE  Ledger!LedgerInv'
    BY <2>1 DEF Ledger!LedgerInv, Ledger!Create
  <2>2. ASSUME NEW j \in JobIds, Ledger!Claim(j)
        PROVE  Ledger!LedgerInv'
    BY <2>2 DEF Ledger!LedgerInv, Ledger!Claim
  <2>3. ASSUME NEW j \in JobIds, NEW outcome \in {"done", "failed"},
               Ledger!Finish(j, outcome)
        PROVE  Ledger!LedgerInv'
    BY <2>3 DEF Ledger!LedgerInv, Ledger!Finish
  <2>4. ASSUME NEW J \in SUBSET JobIds, Ledger!Requeue(J)
        PROVE  Ledger!LedgerInv'
    BY <2>4 DEF Ledger!LedgerInv, Ledger!Requeue
  <2>5. CASE UNCHANGED Ledger!ledger
    BY <2>5 DEF Ledger!LedgerInv, Ledger!ledger
  <2> QED
    BY <2>1, <2>2, <2>3, <2>4, <2>5 DEF Ledger!LedgerNext
<1> QED
  BY <1>1, <1>2, PTL DEF ImplementsLedger, Ledger!LedgerSpec

(* A row is claimed at most once more often than it was put back in the    *)
(* queue, however many workers race for it (store.go, ClaimNextQueuedJob). *)
THEOREM Attempts == Spec => []AttemptsBounded
<1>1. Ledger!LedgerInv => AttemptsBounded
  BY DEF Ledger!LedgerInv, AttemptsBounded
<1> QED
  BY <1>1, LedgerBounded, Implements, PTL

-----------------------------------------------------------------------------
(* The status of a row.                                                    *)

(* Workers that have a chunk of j still to speak.                          *)
Unfinished(j) == {t \in Threads : Holds(t, j) /\ left[t] > 0}

(* Each of them may yet add one to heard; a worker with nothing left has   *)
(* added it; and contexts end early only by a fault.                       *)
HeardInv ==
    /\ \A j \in JobIds :
         /\ IsFiniteSet(Unfinished(j))
         /\ heard[j] + Cardinality(Unfinished(j)) <= attempts[j]
         /\ status[j] = "done" => heard[j] > 0
    /\ \A t \in Threads : pc[t] = "speak" /\ left[t] = 0 => heard[job[t]] > 0
    /\ \A p \in Procs : signalled[p] \/ timedOut[p] => faults > 0

(* What a step does that neither claims a job nor speaks a chunk: nobody   *)
(* new speaks, a row becomes 'done' only by a worker that is through, and  *)
(* a worker leaves a row that says 'speaking' behind only by a fault or at *)
(* the end of a process.                                                   *)
Quiet ==
    /\ heard' = heard /\ attempts' = attempts
    /\ \A t \in Threads : pc'[t] = "speak" =>
         pc[t] = "speak" /\ job'[t] = job[t] /\ left'[t] = left[t]
    /\ \A j \in JobIds : status'[j] = "done" =>
         status[j] = "done" \/ \E t \in Threads : Holds(t, j) /\ left[t] = 0
    /\ \A p \in Procs : signalled'[p] \/ timedOut'[p] => faults' > 0
    /\ faults > 0 => faults' > 0
    /\ \A p \in Procs : pstate[p] \in {"stopping", "dead"} => pstate'[p] \in {"stopping", "dead"}
    /\ \A j \in JobIds : status'[j] = "speaking" =>
         /\ status[j] = "speaking"
         /\ \A t \in Threads : Holds(t, j) =>
              \/ pc'[t] = "speak" /\ job'[t] = j
              \/ faults' > 0
              \/ \E p \in Procs : pstate'[p] \in {"stopping", "dead"}

(* The steps that are quiet: all but ClaimNextQueuedJob and SpeakChunk.    *)
LEMMA QuietStep ==
    ASSUME TypeOK, HeardInv, UndercutOnlyInShutdown, [Next]_vars,
           \A t \in Threads : ~ClaimNextQueuedJob(t) /\ ~SpeakChunk(t)
    PROVE  Quiet
<1>0. \A p \in Procs : signalled[p] \/ timedOut[p] => faults > 0
  BY DEF HeardInv
<1>1. ASSUME Tick PROVE Quiet
  BY <1>0, <1>1 DEF TypeOK, Quiet, Holds, Tick, rows, procs, workers
<1>2. ASSUME NEW p \in Procs, StartWorker(p) PROVE Quiet
  BY <1>0, <1>2 DEF TypeOK, Quiet, Holds, StartWorker, ResetInFlightJobs
<1>3. ASSUME NEW p \in Procs, StartFails(p) PROVE Quiet
  BY <1>0, <1>3 DEF TypeOK, Quiet, Holds, StartFails, ResetInFlightJobs,
                    workers
<1>4. ASSUME NEW p \in Procs, Signal(p) PROVE Quiet
  BY <1>0, <1>4 DEF TypeOK, Quiet, Holds, Signal, Fault, rows, workers
<1>5. ASSUME NEW p \in Procs, ProviderExits(p) PROVE Quiet
  <2>1. pc[<<p, "drain">>] # "speak"
    BY <1>5 DEF UndercutOnlyInShutdown, ProviderExits, Threads, Roles, IsRun,
                Proc
  <2> QED
    BY <1>0, <1>5, <2>1 DEF TypeOK, Quiet, Holds, ProviderExits, rows, Threads
<1>6. ASSUME NEW p \in Procs, DrainTimesOut(p) PROVE Quiet
  BY <1>0, <1>6 DEF TypeOK, Quiet, Holds, DrainTimesOut, Fault, rows,
                    workers
<1>7. ASSUME NEW p \in Procs, StopWorker(p) PROVE Quiet
  BY <1>0, <1>7 DEF TypeOK, Quiet, Holds, StopWorker, rows, workers
<1>8. ASSUME NEW p \in Procs, CloseDatabase(p) PROVE Quiet
  BY <1>0, <1>8 DEF TypeOK, Quiet, Holds, CloseDatabase, Die, rows
<1>9. ASSUME NEW p \in Procs, Crash(p) PROVE Quiet
  BY <1>0, <1>9 DEF TypeOK, Quiet, Holds, Crash, Die, Fault, rows
<1>10. ASSUME NEW p \in Procs, NEW j \in JobIds, CreateTTSJob(p, j) PROVE Quiet
  BY <1>0, <1>10 DEF TypeOK, Quiet, Holds, CreateTTSJob, procs, workers
<1>11. ASSUME NEW j \in JobIds, RetryJob(j) PROVE Quiet
  BY <1>0, <1>11 DEF TypeOK, Quiet, Holds, RetryJob, procs, workers
<1>12. ASSUME NEW t \in Threads, ReadClock(t) PROVE Quiet
  BY <1>0, <1>12 DEF TypeOK, Quiet, Holds, ReadClock, rows, procs
<1>13. ASSUME NEW t \in Threads, AcquireLease(t) PROVE Quiet
  BY <1>0, <1>13 DEF TypeOK, Quiet, Holds, AcquireLease, rows, procs
<1>14. ASSUME NEW t \in Threads, AcquireLeaseFails(t) PROVE Quiet
  BY <1>0, <1>14 DEF TypeOK, Quiet, Holds, AcquireLeaseFails, StatementFails,
                     Fault, After, rows, procs
<1>15. ASSUME NEW t \in Threads, ClaimFindsNothing(t) PROVE Quiet
  BY <1>0, <1>15 DEF TypeOK, Quiet, Holds, ClaimFindsNothing, StatementFails,
                     Fault, rows, procs
<1>16. ASSUME NEW t \in Threads, MarkJobFailed(t) PROVE Quiet
  BY <1>0, <1>16 DEF TypeOK, Quiet, Holds, MarkJobFailed, Fault, procs
<1>17. ASSUME NEW t \in Threads, MarkJobDone(t) PROVE Quiet
  BY <1>0, <1>17 DEF TypeOK, Quiet, Holds, MarkJobDone, procs
<1>18. ASSUME NEW t \in Threads, MarkJobDoneFails(t) PROVE Quiet
  BY <1>0, <1>18 DEF TypeOK, Quiet, Holds, MarkJobDoneFails, StatementFails,
                     Fault, CtxDone, Proc, Threads, rows, procs
<1>19. ASSUME NEW t \in Threads, ReleaseLease(t) PROVE Quiet
  BY <1>0, <1>19 DEF TypeOK, Quiet, Holds, ReleaseLease, DeleteLease, Fault,
                     After, rows, procs
<1>20. ASSUME NEW t \in Threads, RunReturns(t) PROVE Quiet
  BY <1>0, <1>20 DEF TypeOK, Quiet, Holds, RunReturns, DeleteLease, Fault,
                     rows, procs
<1>21. CASE UNCHANGED vars
  BY <1>0, <1>21 DEF TypeOK, Quiet, Holds, vars, rows, procs, workers
<1> QED
  BY <1>1, <1>2, <1>3, <1>4, <1>5, <1>6, <1>7, <1>8, <1>9, <1>10, <1>11,
     <1>12, <1>13, <1>14, <1>15, <1>16, <1>17, <1>18, <1>19, <1>20, <1>21
     DEF Next, ProcessStep, ThreadStep

(* A quiet step adds nobody who may yet be heard.                          *)
LEMMA QuietKeeps ==
    ASSUME TypeOK, TypeOK', HeardInv, SpeakingIsHeld, Quiet
    PROVE  HeardInv' /\ SpeakingIsHeld'
<1>1. ASSUME NEW j \in JobIds
      PROVE  /\ IsFiniteSet(Unfinished(j)')
             /\ heard'[j] + Cardinality(Unfinished(j)') <= attempts'[j]
  <2>1. Unfinished(j)' \in SUBSET Unfinished(j)
    BY DEF Unfinished, Holds, Quiet
  <2>2. IsFiniteSet(Unfinished(j)) /\ Cardinality(Unfinished(j)) \in Nat
    BY FS_CardinalityType DEF HeardInv
  <2>3. /\ IsFiniteSet(Unfinished(j)')
        /\ Cardinality(Unfinished(j)') <= Cardinality(Unfinished(j))
    BY <2>1, <2>2, FS_Subset
  <2>4. Cardinality(Unfinished(j)') \in Nat
    BY <2>3, FS_CardinalityType
  <2>5. heard[j] + Cardinality(Unfinished(j)) <= attempts[j]
    BY DEF HeardInv
  <2>6. heard[j] \in Nat /\ attempts[j] \in Nat
    BY DEF TypeOK
  <2>7. heard' = heard /\ attempts' = attempts
    BY DEF Quiet
  <2> QED
    BY <2>2, <2>3, <2>4, <2>5, <2>6, <2>7
<1>2. ASSUME NEW j \in JobIds, status'[j] = "done"
      PROVE  heard'[j] > 0
  BY <1>2 DEF HeardInv, Quiet, Holds
<1>3. ASSUME NEW t \in Threads, pc'[t] = "speak", left'[t] = 0
      PROVE  heard'[job'[t]] > 0
  BY <1>3 DEF HeardInv, Quiet
<1>4. HeardInv'
  BY <1>1, <1>2, <1>3 DEF HeardInv, Quiet
<1>5. SpeakingIsHeld'
  BY DEF SpeakingIsHeld, Quiet, Holds
<1> QED
  BY <1>4, <1>5

(* The claim adds one to the attempts of the job, and its worker.          *)
LEMMA ClaimKeeps ==
    ASSUME TypeOK, TypeOK', HeardInv, SpeakingIsHeld,
           NEW t \in Threads, ClaimNextQueuedJob(t)
    PROVE  HeardInv' /\ SpeakingIsHeld'
<1>1. PICK j \in JobIds :
        /\ status' = [status EXCEPT ![j] = "speaking"]
        /\ attempts' = [attempts EXCEPT ![j] = @ + 1]
        /\ job' = [job EXCEPT ![t] = j]
        /\ left' = [left EXCEPT ![t] = ChunksOf[j]]
  BY DEF ClaimNextQueuedJob
<1>2. /\ pc[t] = "claim"
      /\ pc' = [pc EXCEPT ![t] = "speak"]
      /\ UNCHANGED <<heard, faults, procs>>
  BY DEF ClaimNextQueuedJob
<1>3. ChunksOf[j] \in Nat /\ ChunksOf[j] > 0
  BY ConstantsAssumption
<1>4. ASSUME NEW i \in JobIds
      PROVE  /\ IsFiniteSet(Unfinished(i)')
             /\ heard'[i] + Cardinality(Unfinished(i)') <= attempts'[i]
  <2>1. IsFiniteSet(Unfinished(i)) /\ Cardinality(Unfinished(i)) \in Nat
    BY FS_CardinalityType DEF HeardInv
  <2>2. heard[i] + Cardinality(Unfinished(i)) <= attempts[i]
    BY DEF HeardInv
  <2>3. heard[i] \in Nat /\ attempts[i] \in Nat
    BY DEF TypeOK
  <2>4. CASE i = j
    <3>1. Unfinished(i)' = Unfinished(i) \cup {t}
      BY <1>1, <1>2, <1>3, <2>4 DEF Unfinished, Holds, TypeOK
    <3>2. t \notin Unfinished(i)
      BY <1>2 DEF Unfinished, Holds
    <3>3. /\ IsFiniteSet(Unfinished(i)')
          /\ Cardinality(Unfinished(i)') = Cardinality(Unfinished(i)) + 1
      BY <2>1, <3>1, <3>2, FS_AddElement
    <3>4. heard'[i] = heard[i] /\ attempts'[i] = attempts[i] + 1
      BY <1>1, <1>2, <2>4 DEF TypeOK
    <3> QED
      BY <2>1, <2>2, <2>3, <3>3, <3>4
  <2>5. CASE i # j
    <3>1. Unfinished(i)' = Unfinished(i)
      BY <1>1, <1>2, <2>5 DEF Unfinished, Holds, TypeOK
    <3>2. heard'[i] = heard[i] /\ attempts'[i] = attempts[i]
      BY <1>1, <1>2, <2>5 DEF TypeOK
    <3> QED
      BY <2>1, <2>2, <3>1, <3>2
  <2> QED
    BY <2>4, <2>5
<1>5. \A i \in JobIds : status'[i] = "done" => heard'[i] > 0
  BY <1>1, <1>2 DEF HeardInv, TypeOK
<1>6. \A u \in Threads : pc'[u] = "speak" /\ left'[u] = 0 => heard'[job'[u]] > 0
  BY <1>1, <1>2, <1>3 DEF HeardInv, TypeOK
<1>7. HeardInv'
  BY <1>2, <1>4, <1>5, <1>6 DEF HeardInv, procs
<1>8. SpeakingIsHeld'
  BY <1>1, <1>2 DEF SpeakingIsHeld, Holds, TypeOK, procs
<1> QED
  BY <1>7, <1>8

(* A chunk that is the last turns one who may be heard into one who was.   *)
LEMMA SpeakKeeps ==
    ASSUME TypeOK, TypeOK', HeardInv, SpeakingIsHeld,
           NEW t \in Threads, SpeakChunk(t)
    PROVE  HeardInv' /\ SpeakingIsHeld'
<1>1. /\ pc[t] = "speak" /\ left[t] > 0 /\ left[t] \in Nat
      /\ job[t] \in JobIds
      /\ left' = [left EXCEPT ![t] = @ - 1]
      /\ heard' = [heard EXCEPT ![job[t]] = IF left[t] = 1 THEN @ + 1 ELSE @]
      /\ UNCHANGED <<rows, procs, pc, job, faults>>
  BY DEF SpeakChunk, TypeOK
<1>2. ASSUME NEW i \in JobIds
      PROVE  /\ IsFiniteSet(Unfinished(i)')
             /\ heard'[i] + Cardinality(Unfinished(i)') <= attempts'[i]
  <2>1. IsFiniteSet(Unfinished(i)) /\ Cardinality(Unfinished(i)) \in Nat
    BY FS_CardinalityType DEF HeardInv
  <2>2. heard[i] + Cardinality(Unfinished(i)) <= attempts[i]
    BY DEF HeardInv
  <2>3. heard[i] \in Nat /\ attempts[i] \in Nat /\ attempts'[i] = attempts[i]
    BY <1>1 DEF TypeOK, rows
  <2>4. CASE i = job[t] /\ left[t] = 1
    <3>1. Unfinished(i)' = Unfinished(i) \ {t}
      BY <1>1, <2>4 DEF Unfinished, Holds, TypeOK
    <3>2. t \in Unfinished(i)
      BY <1>1, <2>4 DEF Unfinished, Holds
    <3>3. /\ IsFiniteSet(Unfinished(i)')
          /\ Cardinality(Unfinished(i)') = Cardinality(Unfinished(i)) - 1
      BY <2>1, <3>1, <3>2, FS_RemoveElement
    <3>4. heard'[i] = heard[i] + 1
      BY <1>1, <2>4 DEF TypeOK
    <3> QED
      BY <2>1, <2>2, <2>3, <3>3, <3>4
  <2>5. CASE ~(i = job[t] /\ left[t] = 1)
    <3>1. Unfinished(i)' = Unfinished(i)
      BY <1>1, <2>5 DEF Unfinished, Holds, TypeOK
    <3>2. heard'[i] = heard[i]
      BY <1>1, <2>5 DEF TypeOK
    <3> QED
      BY <2>1, <2>2, <2>3, <3>1, <3>2
  <2> QED
    BY <2>4, <2>5
<1>3. \A i \in JobIds : heard[i] > 0 => heard'[i] > 0
  BY <1>1 DEF TypeOK
<1>4. left[t] = 1 => heard'[job[t]] > 0
  BY <1>1 DEF TypeOK
<1>5. \A u \in Threads : pc'[u] = "speak" /\ left'[u] = 0 => heard'[job'[u]] > 0
  BY <1>1, <1>3, <1>4 DEF HeardInv, TypeOK
<1>6. HeardInv'
  BY <1>1, <1>2, <1>3, <1>5 DEF HeardInv, rows, procs
<1>7. SpeakingIsHeld'
  BY <1>1 DEF SpeakingIsHeld, Holds, rows, procs
<1> QED
  BY <1>6, <1>7

(* The status of a row is true of its speech: a job is heard to its end at *)
(* most once per claim, 'done' only if it was, and 'speaking' without a    *)
(* worker only after a fault or the end of a process (worker.go,           *)
(* processOne).                                                            *)
THEOREM Status == Spec => []StatusIsTrue
<1>1. Init => HeardInv /\ SpeakingIsHeld
  <2> SUFFICES ASSUME Init PROVE HeardInv /\ SpeakingIsHeld
    OBVIOUS
  <2>1. \A j \in JobIds : Unfinished(j) = {}
    BY DEF Init, Unfinished, Holds
  <2> QED
    BY <2>1, FS_EmptySet DEF Init, HeardInv, SpeakingIsHeld
<1>2. /\ TypeOK /\ TypeOK' /\ UndercutOnlyInShutdown
      /\ HeardInv /\ SpeakingIsHeld /\ [Next]_vars
      => HeardInv' /\ SpeakingIsHeld'
  BY QuietStep, QuietKeeps, ClaimKeeps, SpeakKeeps
<1>3. TypeOK /\ HeardInv /\ SpeakingIsHeld => StatusIsTrue
  <2> SUFFICES ASSUME TypeOK, HeardInv, SpeakingIsHeld, NEW j \in JobIds
               PROVE  heard[j] <= attempts[j]
    BY DEF StatusIsTrue, DoneMeansHeard, HeardInv
  <2>1. Cardinality(Unfinished(j)) \in Nat
    BY FS_CardinalityType DEF HeardInv
  <2>2. heard[j] + Cardinality(Unfinished(j)) <= attempts[j]
    BY DEF HeardInv
  <2> QED
    BY <2>1, <2>2 DEF TypeOK
<1> QED
  BY <1>1, <1>2, <1>3, TypeCorrect, ShutdownOnly, PTL DEF Spec

-----------------------------------------------------------------------------
(* The order of claims.                                                    *)

(* Only ClaimNextQueuedJob takes a row from the queue to 'speaking'.       *)
LEMMA OnlyClaim ==
    ASSUME TypeOK, [Next]_vars, NEW j \in JobIds,
           status[j] = "queued", status'[j] = "speaking"
    PROVE  NextQueued(j)
<1>1. ASSUME NEW t \in Threads, ClaimNextQueuedJob(t)
      PROVE  NextQueued(j)
  BY <1>1 DEF ClaimNextQueuedJob, TypeOK
<1>2. ASSUME status' = status
      PROVE  FALSE
  BY <1>2
<1>3. ASSUME NEW p \in Procs, StartWorker(p)
      PROVE  FALSE
  BY <1>3 DEF StartWorker, ResetInFlightJobs, TypeOK
<1>4. ASSUME NEW p \in Procs, StartFails(p)
      PROVE  FALSE
  BY <1>4 DEF StartFails, ResetInFlightJobs, TypeOK
<1>5. ASSUME NEW p \in Procs, NEW i \in JobIds, CreateTTSJob(p, i)
      PROVE  FALSE
  BY <1>5 DEF CreateTTSJob, TypeOK
<1>6. ASSUME NEW i \in JobIds, RetryJob(i)
      PROVE  FALSE
  BY <1>6 DEF RetryJob, TypeOK
<1>7. ASSUME NEW t \in Threads, MarkJobFailed(t)
      PROVE  FALSE
  BY <1>7 DEF MarkJobFailed, TypeOK
<1>8. ASSUME NEW t \in Threads, MarkJobDone(t)
      PROVE  FALSE
  BY <1>8 DEF MarkJobDone, TypeOK
<1>9. ASSUME NEW t \in Threads,
             \/ ReadClock(t)     \/ AcquireLease(t)     \/ AcquireLeaseFails(t)
             \/ SpeakChunk(t)    \/ ClaimFindsNothing(t) \/ MarkJobDoneFails(t)
             \/ ReleaseLease(t)  \/ RunReturns(t)
       PROVE  status' = status
  BY <1>9 DEF ReadClock, AcquireLease, AcquireLeaseFails, SpeakChunk,
     ClaimFindsNothing, MarkJobDoneFails, ReleaseLease, RunReturns, rows
<1>10. ASSUME NEW p \in Procs,
             \/ Signal(p)     \/ ProviderExits(p) \/ DrainTimesOut(p)
             \/ StopWorker(p) \/ CloseDatabase(p) \/ Crash(p)
       PROVE  status' = status
  BY <1>10 DEF Signal, ProviderExits, DrainTimesOut, StopWorker,
     CloseDatabase, Crash, Die, rows
<1>11. Tick \/ UNCHANGED vars => status' = status
  BY DEF Tick, vars, rows
<1> QED
  BY <1>1, <1>2, <1>3, <1>4, <1>5, <1>6, <1>7, <1>8, <1>9, <1>10, <1>11
     DEF Next, ProcessStep, ThreadStep

(* However many workers claim, and whatever fractions the times were       *)
(* written with, no job overtakes one of an earlier second (store.go,      *)
(* ClaimNextQueuedJob: ORDER BY queued_at, id).                            *)
THEOREM ClaimOrder == Spec => ClaimsBySecond
<1>1. ASSUME TypeOK, [Next]_vars
      PROVE  [\A j \in JobIds :
                status[j] = "queued" /\ status'[j] = "speaking" =>
                  \A i \in Queued :
                    Second(queuedAt[i], Res) >= Second(queuedAt[j], Res)]_vars
  <2> SUFFICES ASSUME NEW j \in JobIds,
                      status[j] = "queued", status'[j] = "speaking",
                      NEW i \in Queued
               PROVE  Second(queuedAt[i], Res) >= Second(queuedAt[j], Res)
    OBVIOUS
  <2>1. ClaimsBefore(j, i)
    BY <1>1, OnlyClaim DEF NextQueued
  <2>2. queuedAt[i] \in Nat /\ queuedAt[j] \in Nat /\ Res \in Nat \ {0}
    BY <1>1, ConstantsAssumption DEF TypeOK, Queued
  <2>3. /\ TextKey(queuedAt[i], Res) \in Int
        /\ TextKey(queuedAt[j], Res) \in Int
        /\ Second(queuedAt[i], Res) \in Int
        /\ Second(queuedAt[j], Res) \in Int
    BY <2>2 DEF TextKey, Second
  <2>4. TextKey(queuedAt[j], Res) <= TextKey(queuedAt[i], Res)
    BY <2>1, <2>3 DEF ClaimsBefore
  <2> QED
    BY <2>2, <2>3, <2>4, TextOrder
<1> QED
  BY <1>1, TypeCorrect, PTL DEF Spec, ClaimsBySecond
=============================================================================
