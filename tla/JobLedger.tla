------------------------------ MODULE JobLedger ------------------------------
(***************************************************************************)
(* What table tts_jobs promises, without workers, leases, clocks or        *)
(* processes: a row is created once, leaves the queue only by a claim or   *)
(* by being finished, is finished only by somebody who had claimed it, and *)
(* comes back to the queue only by being put back.                         *)
(*                                                                         *)
(* A finish does not ask for the row to be 'speaking': the statements that *)
(* mark a job done or failed name it by id alone.                          *)
(***************************************************************************)
EXTENDS Naturals

CONSTANT JobIds

VARIABLES
    status,     \* "none" before the row exists
    attempts,   \* claims so far
    requeues    \* times the row was put back in the queue

ledger == <<status, attempts, requeues>>

LedgerInit ==
    /\ status = [j \in JobIds |-> "none"]
    /\ attempts = [j \in JobIds |-> 0]
    /\ requeues = [j \in JobIds |-> 0]

Create(j) ==
    /\ status[j] = "none"
    /\ status' = [status EXCEPT ![j] = "queued"]
    /\ UNCHANGED <<attempts, requeues>>

Claim(j) ==
    /\ status[j] = "queued"
    /\ status' = [status EXCEPT ![j] = "speaking"]
    /\ attempts' = [attempts EXCEPT ![j] = @ + 1]
    /\ UNCHANGED requeues

Finish(j, outcome) ==
    /\ attempts[j] > 0
    /\ status' = [status EXCEPT ![j] = outcome]
    /\ UNCHANGED <<attempts, requeues>>

Requeue(J) ==
    /\ \A j \in J : status[j] # "none"
    /\ status' = [j \in JobIds |-> IF j \in J THEN "queued" ELSE status[j]]
    /\ requeues' = [j \in JobIds |->
                      IF j \in J THEN requeues[j] + 1 ELSE requeues[j]]
    /\ UNCHANGED attempts

LedgerNext ==
    \/ \E j \in JobIds :
         \/ Create(j)
         \/ Claim(j)
         \/ \E outcome \in {"done", "failed"} : Finish(j, outcome)
    \/ \E J \in SUBSET JobIds : Requeue(J)

LedgerSpec == LedgerInit /\ [][LedgerNext]_ledger

-----------------------------------------------------------------------------
(* A row in the queue has a claim to spare; any other row has used at most *)
(* the claims that creation and requeueing gave it.                        *)
LedgerInv ==
    /\ attempts \in [JobIds -> Nat]
    /\ requeues \in [JobIds -> Nat]
    /\ status \in [JobIds -> {"none", "queued", "speaking", "done", "failed"}]
    /\ \A j \in JobIds :
         /\ status[j] = "none" => attempts[j] = 0 /\ requeues[j] = 0
         /\ status[j] = "queued" => attempts[j] <= requeues[j]
         /\ attempts[j] <= requeues[j] + 1
=============================================================================
