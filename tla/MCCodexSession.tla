--------------------------- MODULE MCCodexSession ---------------------------
(* A small instance of CodexSession for TLC.                               *)
EXTENDS CodexSession

CONSTANT a

Frame(type, text, calls) == [type |-> type, text |-> text, calls |-> calls]

(* One connection with two responses: the first is streamed in deltas with *)
(* white space around them, and its completed frame repeats nothing; the   *)
(* second calls a tool.                                                    *)
TwoResponses == (a :> <<
    Frame("text.delta", <<Blank, 1>>, 0),
    Frame("text.delta", <<2, Blank>>, 0),
    Frame("completed",  <<>>, 0),
    Frame("item",       <<>>, 1),
    Frame("completed",  <<3>>, 0) >>)

TwoRequests == (a :> << [results |-> 0], [results |-> 1] >>)
=============================================================================
