----------------------------- MODULE MCRunSettings -----------------------------
(* A small instance of RunSettings for TLC: a capture beside a listing or  *)
(* a second capture.                                                       *)
EXTENDS RunSettings, TLC

CONSTANTS p1, p2

CaptureAndOther == (p1 :> {"run"}) @@ (p2 :> {"run", "jobs"})

(* One that does not parse, and one beyond what the word holds.            *)
SomeLeases == {Bad, 2}
=============================================================================
