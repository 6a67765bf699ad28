---------------------------- MODULE SubjectOverlap ----------------------------
(***************************************************************************)
(* The overlap check of bus.EnsureStream.  When a stream cannot be added,  *)
(* EnsureStream looks for an existing one whose subjects overlap with the  *)
(* required ones and extends it.  The check walks two subject patterns     *)
(* token by token; here it is compared with what overlap means: a subject  *)
(* that both patterns match.                                               *)
(***************************************************************************)
EXTENDS Naturals, Sequences, SequencesExt

CONSTANTS
    Tokens,     \* literal tokens
    MaxLen      \* bound: tokens in a pattern

ASSUME SubjectAssumption ==
    /\ Tokens # {} /\ Tokens \cap {"*", ">"} = {}
    /\ MaxLen \in Nat \ {0}

-----------------------------------------------------------------------------
patternMatchesEmptySuffix(tokens) == tokens \in {<<>>, <<">">>}

(* The first ">" must be the last token.                                   *)
patternCanMatchAny(tokens) ==
    LET open == {i \in 1..Len(tokens) : tokens[i] = ">"}
    IN  open = {} \/ Min(open) = Len(tokens)

(* Mutant: a wildcard stands for itself only.                              *)
TokensMeet_Literal(l, r) == l = r

(* Two tokens, neither of them ">", have a value in common.                *)
TokensMeet(l, r) == l = "*" \/ r = "*" \/ l = r

(* How many tokens of both are compared: up to the end of one or a ">".    *)
Compared(l, r) ==
    LET shorter == Min({Len(l), Len(r)})
    IN  Min({k \in 0..shorter : k = shorter \/ l[k + 1] = ">" \/ r[k + 1] = ">"})

(* What the code says of what is left of both then.                        *)
RestOverlaps(l, r) ==
    CASE l = <<>> -> patternMatchesEmptySuffix(r)
      [] l # <<>> /\ r = <<>> -> patternMatchesEmptySuffix(l)
      [] l # <<>> /\ r # <<>> /\ Head(l) = ">" -> Len(l) = 1 /\ patternCanMatchAny(r)
      [] OTHER -> Len(r) = 1 /\ patternCanMatchAny(l)

(* The code recurs on the tails as long as the heads meet.                 *)
subjectTokensOverlap(l, r) ==
    LET k == Compared(l, r)
    IN  /\ \A i \in 1..k : TokensMeet(l[i], r[i])
        /\ RestOverlaps(SubSeq(l, k + 1, Len(l)), SubSeq(r, k + 1, Len(r)))

(* An empty subject overlaps with nothing.                                 *)
subjectPatternsOverlap(l, r) ==
    l # <<>> /\ r # <<>> /\ subjectTokensOverlap(l, r)

-----------------------------------------------------------------------------
(* Patterns as strings.Split leaves them; ">" is the last token, if any.   *)
Patterns ==
    {p \in BoundedSeq(Tokens \cup {"*", ">"}, MaxLen) :
        p # <<>> /\ \A i \in 1..(Len(p) - 1) : p[i] # ">"}

(* Pattern p matches subject s, when ">" stands for least tokens or more.  *)
Matches(p, s, least) ==
    LET open == ">" \in Range(p)
        n == IF open THEN Len(p) - 1 ELSE Len(p)
    IN  /\ IF open THEN Len(s) >= n + least ELSE Len(s) = n
        /\ \A i \in 1..n : p[i] \in {"*", s[i]}

Common(p, q, least) ==
    \E s \in BoundedSeq(Tokens, MaxLen + 1) : Matches(p, s, least) /\ Matches(q, s, least)

(* The check misses no conflict: when a subject can match both patterns as *)
(* NATS matches (">" is one token or more), it says so.  And it is wrong   *)
(* on the safe side only where ">" would have to match nothing.            *)
OverlapIsSound ==
    \A left, right \in Patterns :
        /\ Common(left, right, 1) => subjectPatternsOverlap(left, right)
        /\ subjectPatternsOverlap(left, right) => Common(left, right, 0)
=============================================================================
