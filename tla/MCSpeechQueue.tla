---------------------------- MODULE MCSpeechQueue ----------------------------
(* Small instances of SpeechQueue for TLC.                                 *)
EXTENDS SpeechQueue, TLC

CONSTANTS p1, p2

OneProcess == {p1}
TwoProcs   == {p1, p2}
OneJob     == {1}
TwoJobs    == {1, 2}
ThreeJobs  == {1, 2, 3}

(* The second job takes two chunks, the others one.                         *)
Chunks(J) == [j \in J |-> IF j = 2 THEN 2 ELSE 1]
ChunksOne   == Chunks(OneJob)
ChunksTwo   == Chunks(TwoJobs)
ChunksThree == Chunks(ThreeJobs)

(* Processes are interchangeable: nothing orders them.                     *)
ProcSymmetry == Permutations(TwoProcs)
=============================================================================
