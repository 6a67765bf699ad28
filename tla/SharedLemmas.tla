----------------------------- MODULE SharedLemmas ------------------------------
(***************************************************************************)
(* Facts that the proofs of several components rest on: induction over     *)
(* natural numbers, FlattenSeq of SequencesExt, with which the models      *)
(* write the loops of the code that append to a slice, and the order of    *)
(* stored times.                                                           *)
(***************************************************************************)
EXTENDS Integers, SequencesExt, StoredTime, SequenceTheorems, WellFoundedInduction,
        TLAPS

(* A set of numbers that holds 0 and, with a number, the next one up to n, *)
(* holds all numbers up to n: a smallest one it left out could not be.     *)
LEMMA Induction ==
    ASSUME NEW n \in Nat, NEW A, 0 \in A,
           \A k \in 0..(n - 1) : k \in A => k + 1 \in A
    PROVE  0..n \subseteq A
<1> DEFINE R == OpToRel(<, Nat)
           T == {k \in 0..n : k \notin A}
<1>1. IsWellFoundedOn(R, Nat)
  BY NatLessThanWellFounded, Zenon
<1>2. /\ T \subseteq Nat
      /\ \A k \in T : k \in 0..n /\ k \notin A
      /\ \A k \in 0..n : k \notin A => k \in T
  OBVIOUS
<1>3. \A x \in Nat, y \in Nat : ~(<<y, x>> \in R) => x <= y
  BY DEF OpToRel
<1> HIDE DEF R, T
<1>4. ASSUME T # {}
      PROVE  FALSE
  <2>1. PICK m \in T : \A y \in T : ~(<<y, m>> \in R)
    BY <1>1, <1>2, <1>4, WFMin
  <2>2. \A y \in T : m <= y
    BY <1>2, <1>3, <2>1
  <2>3. m # 0 /\ m \in 0..n /\ m \notin A
    BY <1>2
  <2>4. m - 1 \in 0..(n - 1) /\ m - 1 \in 0..n /\ (m - 1) + 1 = m
    BY <2>3
  <2>5. m - 1 \in A
    <3>1. ~(m <= m - 1)
      BY <2>3
    <3> QED
      BY <1>2, <2>2, <2>4, <3>1
  <2> QED
    BY <2>3, <2>4, <2>5
<1> QED
  BY <1>2, <1>4

(* A set of numbers up to n has a smallest and a largest one.               *)
LEMMA MinMaxNat ==
    ASSUME NEW n \in Nat, NEW W, W \subseteq 0..n, W # {}
    PROVE  /\ Min(W) \in W /\ Max(W) \in W
           /\ \A y \in W : Min(W) <= y /\ y <= Max(W)
<1> DEFINE R == OpToRel(<, Nat)
           T == {n - i : i \in W}
<1>1. IsWellFoundedOn(R, Nat)
  BY NatLessThanWellFounded, Zenon
<1>2. /\ W \subseteq Nat
      /\ \A y \in W : n - y \in T
      /\ \A y \in T : \E m \in W : y = n - m
  OBVIOUS
<1>3. T \subseteq Nat
  OBVIOUS
<1>4. T # {}
  BY <1>2
<1>5. \A x \in Nat, y \in Nat : ~(<<y, x>> \in R) => x <= y
  BY DEF OpToRel
<1> HIDE DEF R, T
<1>6. PICK x \in W : \A y \in W : ~(<<y, x>> \in R)
  BY <1>1, <1>2, WFMin
<1>7. \A y \in W : x <= y
  BY <1>2, <1>5, <1>6
<1>8. PICK z \in T : \A y \in T : ~(<<y, z>> \in R)
  BY <1>1, <1>3, <1>4, WFMin
<1>9. \A y \in T : z <= y
  BY <1>3, <1>5, <1>8
<1>10. PICK m \in W : z = n - m
  BY <1>2
<1>11. \A y \in W : m >= y
  <2> SUFFICES ASSUME NEW y \in W PROVE m >= y
    OBVIOUS
  <2>1. n - m <= n - y
    BY <1>2, <1>9, <1>10
  <2> QED
    BY <1>2, <2>1
<1>12. Min(W) \in W /\ \A y \in W : Min(W) <= y
  BY <1>7 DEF Min
<1>13. Max(W) \in W /\ \A y \in W : Max(W) >= y
  BY <1>11 DEF Max
<1> QED
  BY <1>2, <1>12, <1>13

(* The same for a set of places, which are numbered from 1.                *)
LEMMA MinMax ==
    ASSUME NEW n \in Nat, NEW W, W \subseteq 1..n, W # {}
    PROVE  /\ Min(W) \in W /\ Max(W) \in W
           /\ \A y \in W : Min(W) <= y /\ y <= Max(W)
<1>1. W \subseteq 0..n
  OBVIOUS
<1> QED
  BY <1>1, MinMaxNat

-----------------------------------------------------------------------------
(* Sequences as the proofs see them: what is in them.                      *)

Items(q) == {q[k] : k \in 1..Len(q)}

(* A sequence with one element more.                                       *)
LEMMA ItemsOfAppend ==
    ASSUME NEW S, NEW q \in Seq(S), NEW e \in S
    PROVE  Items(Append(q, e)) = Items(q) \cup {e}
<1>1. /\ Len(q) \in Nat /\ Len(Append(q, e)) = Len(q) + 1
      /\ \A k \in 1..Len(q) : Append(q, e)[k] = q[k]
      /\ Append(q, e)[Len(q) + 1] = e
  OBVIOUS
<1> QED
  BY <1>1 DEF Items

(* The head of a sequence is in it.                                        *)
LEMMA HeadIsItem ==
    ASSUME NEW S, NEW q \in Seq(S), q # <<>>
    PROVE  Head(q) \in Items(q)
<1>1. Len(q) \in Nat /\ Len(q) > 0 /\ Head(q) = q[1]
  BY EmptySeq
<1> QED
  BY <1>1 DEF Items

(* A sequence that is not empty is its head and its tail.                  *)
LEMMA ItemsOfTail ==
    ASSUME NEW S, NEW q \in Seq(S), q # <<>>
    PROVE  /\ Items(q) = {Head(q)} \cup Items(Tail(q))
           /\ Head(q) \in S /\ Tail(q) \in Seq(S)
<1>1. /\ Head(q) \in S /\ Tail(q) \in Seq(S)
      /\ Len(Tail(q)) = Len(q) - 1
      /\ \A i \in 1..Len(Tail(q)) : Tail(q)[i] = q[i + 1]
  BY HeadTailProperties
<1>2. Len(q) \in Nat /\ Len(q) > 0 /\ Head(q) = q[1]
  BY EmptySeq
<1>3. Items(q) \subseteq {Head(q)} \cup Items(Tail(q))
  <2> SUFFICES ASSUME NEW k \in 1..Len(q), k # 1
               PROVE  q[k] \in Items(Tail(q))
    BY <1>2 DEF Items
  <2>1. k - 1 \in 1..Len(Tail(q)) /\ (k - 1) + 1 = k
    BY <1>1, <1>2
  <2>2. Tail(q)[k - 1] = q[k]
    BY <1>1, <2>1
  <2> QED
    BY <2>1, <2>2 DEF Items
<1>4. Items(Tail(q)) \subseteq Items(q)
  <2> SUFFICES ASSUME NEW k \in 1..Len(Tail(q))
               PROVE  Tail(q)[k] \in Items(q)
    BY DEF Items
  <2>1. k + 1 \in 1..Len(q) /\ Tail(q)[k] = q[k + 1]
    BY <1>1, <1>2
  <2> QED
    BY <2>1 DEF Items
<1>5. Head(q) \in Items(q)
  BY <1>2 DEF Items
<1> QED
  BY <1>1, <1>3, <1>4, <1>5

(* What is in two sequences, one after the other.                          *)
LEMMA ItemsOfConcat ==
    ASSUME NEW S, NEW p \in Seq(S), NEW q \in Seq(S)
    PROVE  /\ p \o q \in Seq(S)
           /\ Items(p \o q) = Items(p) \cup Items(q)
           /\ Len(p \o q) = Len(p) + Len(q)
           /\ p # <<>> => p \o q # <<>> /\ Head(p \o q) = Head(p)
<1>1. /\ p \o q \in Seq(S)
      /\ Len(p \o q) = Len(p) + Len(q)
      /\ Len(p) \in Nat /\ Len(q) \in Nat
      /\ \A i \in 1..(Len(p) + Len(q)) :
           (p \o q)[i] = IF i <= Len(p) THEN p[i] ELSE q[i - Len(p)]
  BY ConcatProperties, LenProperties
<1>2. Items(p \o q) \subseteq Items(p) \cup Items(q)
  <2> SUFFICES ASSUME NEW i \in 1..(Len(p) + Len(q))
               PROVE  (p \o q)[i] \in Items(p) \cup Items(q)
    BY <1>1 DEF Items
  <2>1. CASE i <= Len(p)
    BY <1>1, <2>1 DEF Items
  <2>2. CASE ~(i <= Len(p))
    <3>1. i - Len(p) \in 1..Len(q)
      BY <1>1, <2>2
    <3> QED
      BY <1>1, <2>2, <3>1 DEF Items
  <2> QED
    BY <2>1, <2>2
<1>3. Items(p) \subseteq Items(p \o q)
  <2> SUFFICES ASSUME NEW i \in 1..Len(p)
               PROVE  p[i] \in Items(p \o q)
    BY DEF Items
  <2>1. i \in 1..(Len(p) + Len(q)) /\ i <= Len(p)
    BY <1>1
  <2> QED
    BY <1>1, <2>1 DEF Items
<1>4. Items(q) \subseteq Items(p \o q)
  <2> SUFFICES ASSUME NEW i \in 1..Len(q)
               PROVE  q[i] \in Items(p \o q)
    BY DEF Items
  <2>1. /\ Len(p) + i \in 1..(Len(p) + Len(q)) /\ ~(Len(p) + i <= Len(p))
        /\ (Len(p) + i) - Len(p) = i
    BY <1>1
  <2> QED
    BY <1>1, <2>1 DEF Items
<1>5. ASSUME p # <<>>
      PROVE  p \o q # <<>> /\ Head(p \o q) = Head(p)
  <2>1. Len(p) \in Nat \ {0}
    BY <1>5, EmptySeq
  <2>2. Len(p \o q) # 0 /\ 1 \in 1..(Len(p) + Len(q)) /\ 1 <= Len(p)
    BY <1>1, <2>1
  <2>3. (p \o q)[1] = p[1]
    BY <1>1, <2>2
  <2>4. p \o q # <<>>
    BY <1>1, <2>2, EmptySeq
  <2> QED
    BY <1>1, <1>5, <2>3, <2>4
<1> QED
  BY <1>1, <1>2, <1>3, <1>4, <1>5

-----------------------------------------------------------------------------
(* The partial results of FlattenSeq(ss), for the first n members of ss.   *)
Partial(ss, n, g) ==
    g = [i \in 1..n |-> IF i = 1 THEN ss[i] ELSE g[i - 1] \o ss[i]]

(* There are such partial results: one is made of the one before.          *)
LEMMA PartialExists ==
    ASSUME NEW ss, NEW n \in Nat
    PROVE  \E g : Partial(ss, n, g)
<1> DEFINE A == {k \in 0..n : \E g : Partial(ss, k, g)}
<1>1. 0 \in A
  <2>1. Partial(ss, 0, [i \in 1..0 |-> 0])
    BY DEF Partial
  <2> QED
    BY <2>1
<1>2. ASSUME NEW k \in 0..(n - 1), k \in A
      PROVE  k + 1 \in A
  <2>1. PICK g : Partial(ss, k, g)
    BY <1>2
  <2> DEFINE h == [i \in 1..(k + 1) |-> IF i <= k THEN g[i]
                     ELSE IF i = 1 THEN ss[i] ELSE g[i - 1] \o ss[i]]
  <2>2. \A i \in 1..k : g[i] = IF i = 1 THEN ss[i] ELSE g[i - 1] \o ss[i]
    BY <2>1 DEF Partial
  <2>3. ASSUME NEW i \in 1..(k + 1)
        PROVE  h[i] = IF i = 1 THEN ss[i] ELSE h[i - 1] \o ss[i]
    <3>1. h[i] = IF i <= k THEN g[i]
                 ELSE IF i = 1 THEN ss[i] ELSE g[i - 1] \o ss[i]
      OBVIOUS
    <3>2. i # 1 => i - 1 \in 1..(k + 1) /\ i - 1 <= k
      OBVIOUS
    <3>3. i # 1 => h[i - 1] = g[i - 1]
      BY <3>2
    <3>4. i <= k => i \in 1..k
      OBVIOUS
    <3> HIDE DEF h
    <3> QED
      BY <2>2, <3>1, <3>3, <3>4
  <2>4. h = [i \in 1..(k + 1) |-> h[i]]
    OBVIOUS
  <2> HIDE DEF h
  <2>5. Partial(ss, k + 1, h)
    BY <2>3, <2>4 DEF Partial
  <2> QED
    BY <2>5
<1> HIDE DEF A
<1>3. 0..n \subseteq A
  BY <1>1, <1>2, Induction
<1>4. n \in A
  BY <1>3
<1> QED
  BY <1>4 DEF A

(* They depend on the first n members only.                                *)
LEMMA PartialAgree ==
    ASSUME NEW ss, NEW n \in Nat, NEW g, Partial(ss, n, g),
           NEW tt, NEW m \in Nat, NEW h, Partial(tt, m, h),
           n <= m, \A i \in 1..n : ss[i] = tt[i]
    PROVE  \A i \in 1..n : g[i] = h[i]
<1> DEFINE A == {k \in 0..n : k = 0 \/ g[k] = h[k]}
<1>1. 0 \in A
  OBVIOUS
<1>2. ASSUME NEW k \in 0..(n - 1), k \in A
      PROVE  k + 1 \in A
  <2>1. k + 1 \in 1..n /\ k + 1 \in 1..m /\ (k + 1) - 1 = k
    OBVIOUS
  <2>2. /\ g[k + 1] = IF k + 1 = 1 THEN ss[k + 1] ELSE g[k] \o ss[k + 1]
        /\ h[k + 1] = IF k + 1 = 1 THEN tt[k + 1] ELSE h[k] \o tt[k + 1]
    BY <2>1 DEF Partial
  <2> QED
    BY <1>2, <2>1, <2>2
<1> HIDE DEF A
<1>3. 0..n \subseteq A
  BY <1>1, <1>2, Induction
<1> QED
  BY <1>3 DEF A

(* FlattenSeq is the last partial result.                                  *)
LEMMA FlattenIsPartial ==
    ASSUME NEW ss, Len(ss) \in Nat \ {0}
    PROVE  \E g : Partial(ss, Len(ss), g) /\ FlattenSeq(ss) = g[Len(ss)]
<1> DEFINE Is(g) == g = [i \in 1..Len(ss) |->
                           IF i = 1 THEN ss[i] ELSE g[i - 1] \o ss[i]]
           f == CHOOSE g : Is(g)
<1>1. \E g : Is(g)
  BY PartialExists DEF Partial
<1>2. Is(f)
  <2> HIDE DEF Is
  <2> QED
    BY <1>1
<1>3. FlattenSeq(ss) = f[Len(ss)]
  BY DEF FlattenSeq
<1> HIDE DEF f
<1>4. Partial(ss, Len(ss), f)
  BY <1>2 DEF Partial
<1> QED
  BY <1>3, <1>4

(* FlattenSeq of nothing is nothing, and one more member goes to the end.  *)
LEMMA FlattenEmpty == FlattenSeq(<<>>) = <<>>
BY DEF FlattenSeq

LEMMA FlattenAppend ==
    ASSUME NEW S, NEW ss \in Seq(Seq(S)), NEW s \in Seq(S)
    PROVE  FlattenSeq(Append(ss, s)) = FlattenSeq(ss) \o s
<1> DEFINE tt == Append(ss, s)
           n == Len(ss)
<1>1. /\ n \in Nat /\ Len(tt) = n + 1 /\ tt[n + 1] = s
      /\ \A i \in 1..n : ss[i] = tt[i]
  BY AppendProperties, LenProperties
<1>0. /\ n + 1 \in Nat /\ n <= n + 1 /\ n + 1 # 0
      /\ n = Len(ss) /\ tt = Append(ss, s)
  BY <1>1
<1> HIDE DEF tt, n
<1>2. PICK h : Partial(tt, n + 1, h) /\ FlattenSeq(tt) = h[n + 1]
  BY <1>0, <1>1, FlattenIsPartial
<1>3. h[n + 1] = IF n + 1 = 1 THEN tt[n + 1] ELSE h[n] \o tt[n + 1]
  <2>1. n + 1 \in 1..(n + 1) /\ (n + 1) - 1 = n
    BY <1>1
  <2> QED
    BY <1>2, <2>1 DEF Partial
<1>4. CASE n = 0
  <2>1. ss = <<>>
    BY <1>0, <1>4, EmptySeq
  <2>2. FlattenSeq(tt) = s /\ <<>> \o s = s
    BY <1>1, <1>2, <1>3, <1>4, ConcatEmptySeq
  <2> QED
    BY <1>0, <2>1, <2>2, FlattenEmpty
<1>5. CASE n # 0
  <2>1. PICK g : Partial(ss, n, g) /\ FlattenSeq(ss) = g[n]
    BY <1>0, <1>1, <1>5, FlattenIsPartial
  <2>2. g[n] = h[n]
    <3>1. n \in Nat /\ n \in 1..n
      BY <1>1, <1>5
    <3>2. Partial(ss, n, g) /\ Partial(tt, n + 1, h)
      BY <1>2, <2>1
    <3>3. \A i \in 1..n : ss[i] = tt[i]
      BY <1>1
    <3>4. \A i \in 1..n : g[i] = h[i]
      <4> DEFINE m == n + 1
      <4>1. m \in Nat /\ n <= m /\ Partial(tt, m, h)
        BY <1>0, <3>2
      <4> HIDE DEF m
      <4> QED
        BY <3>1, <3>2, <3>3, <4>1, PartialAgree
    <3> QED
      BY <3>1, <3>4
  <2> QED
    BY <1>0, <1>1, <1>2, <1>3, <1>5, <2>1, <2>2
<1> QED
  BY <1>4, <1>5

(* The result is a sequence of what the members are sequences of.          *)
LEMMA FlattenPrefixes ==
    ASSUME NEW S, NEW n \in Nat, NEW f, \A i \in 1..n : f[i] \in Seq(S)
    PROVE  /\ FlattenSeq([i \in 1..0 |-> f[i]]) = <<>>
           /\ \A k \in 0..n : FlattenSeq([i \in 1..k |-> f[i]]) \in Seq(S)
           /\ \A k \in 0..(n - 1) :
                FlattenSeq([i \in 1..(k + 1) |-> f[i]])
                  = FlattenSeq([i \in 1..k |-> f[i]]) \o f[k + 1]
<1> DEFINE P(k) == [i \in 1..k |-> f[i]]
           A == {k \in 0..n : FlattenSeq(P(k)) \in Seq(S)}
<1>1. P(0) = <<>>
  OBVIOUS
<1>2. ASSUME NEW k \in 0..(n - 1)
      PROVE  /\ P(k) \in Seq(Seq(S)) /\ f[k + 1] \in Seq(S)
             /\ P(k + 1) = Append(P(k), f[k + 1])
  <2>1. P(k) \in Seq(Seq(S)) /\ Len(P(k)) = k
    OBVIOUS
  <2>2. f[k + 1] \in Seq(S)
    OBVIOUS
  <2>3. /\ Append(P(k), f[k + 1]) \in Seq(Seq(S))
        /\ Len(Append(P(k), f[k + 1])) = k + 1
        /\ \A i \in 1..k : Append(P(k), f[k + 1])[i] = P(k)[i]
        /\ Append(P(k), f[k + 1])[k + 1] = f[k + 1]
    BY <2>1, <2>2, AppendProperties
  <2>4. P(k + 1) \in Seq(Seq(S)) /\ Len(P(k + 1)) = k + 1
    OBVIOUS
  <2>5. \A i \in 1..(k + 1) : P(k + 1)[i] = Append(P(k), f[k + 1])[i]
    BY <2>3
  <2> HIDE DEF P
  <2> QED
    BY <2>1, <2>2, <2>3, <2>4, <2>5, SeqEqual
<1>3. \A k \in 0..(n - 1) : FlattenSeq(P(k + 1)) = FlattenSeq(P(k)) \o f[k + 1]
  <2> HIDE DEF P
  <2> QED
    BY <1>2, FlattenAppend
<1>4. FlattenSeq(P(0)) = <<>>
  BY <1>1, FlattenEmpty
<1> HIDE DEF P
<1>5. 0 \in A
  <2>1. 0 \in 0..n /\ <<>> \in Seq(S)
    OBVIOUS
  <2> QED
    BY <1>4, <2>1, Zenon
<1>6. ASSUME NEW k \in 0..(n - 1), k \in A
      PROVE  k + 1 \in A
  <2>1. k + 1 \in 0..n /\ f[k + 1] \in Seq(S)
    OBVIOUS
  <2>2. FlattenSeq(P(k)) \in Seq(S)
    BY <1>6
  <2>3. FlattenSeq(P(k)) \o f[k + 1] \in Seq(S)
    BY <2>1, <2>2, ConcatProperties
  <2>4. FlattenSeq(P(k + 1)) \in Seq(S)
    BY <1>3, <2>3
  <2> QED
    BY <2>1, <2>4, Zenon
<1> HIDE DEF A
<1>7. 0..n \subseteq A
  BY <1>5, <1>6, Induction
<1> QED
  BY <1>3, <1>4, <1>7 DEF A, P

(* Put one after the other, sequences over S are one.                      *)
LEMMA FlattenType ==
    ASSUME NEW S, NEW ss \in Seq(Seq(S))
    PROVE  FlattenSeq(ss) \in Seq(S)
<1> DEFINE n == Len(ss)
<1>1. n \in Nat /\ n \in 0..n /\ \A i \in 1..n : ss[i] \in Seq(S)
  BY LenProperties, ElementOfSeq
<1>2. [i \in 1..n |-> ss[i]] = ss
  OBVIOUS
<1> HIDE DEF n
<1>3. FlattenSeq([i \in 1..n |-> ss[i]]) \in Seq(S)
  BY <1>1, FlattenPrefixes
<1> QED
  BY <1>2, <1>3

-----------------------------------------------------------------------------
(* What g makes of each member of q, one after the other: a loop over q    *)
(* that appends.                                                           *)
Collect(g, q) == FlattenSeq([i \in 1..Len(q) |-> g[q[i]]])

(* g makes sequences over S of the members of D.                           *)
Makes(g, D, S) == \A d \in D : g[d] \in Seq(S)

(* Of no member nothing; the results of one more go to the end.            *)
LEMMA CollectStep ==
    ASSUME NEW D, NEW S, NEW g, Makes(g, D, S), NEW q \in Seq(D)
    PROVE  /\ Collect(g, <<>>) = <<>>
           /\ Collect(g, q) \in Seq(S)
           /\ \A d \in D : Collect(g, Append(q, d)) = Collect(g, q) \o g[d]
<1> DEFINE f == [i \in 1..Len(q) |-> g[q[i]]]
           n == Len(q)
<1>1. n \in Nat /\ n = Len(q) /\ \A i \in 1..n : q[i] \in D
  BY LenProperties, ElementOfSeq
<1>2. \A i \in 1..n : f[i] \in Seq(S)
  BY <1>1 DEF Makes
<1>3. /\ f = [i \in 1..n |-> f[i]]
      /\ f = [i \in 1..n |-> g[q[i]]]
  OBVIOUS
<1> HIDE DEF f, n
<1>4. FlattenSeq([i \in 1..n |-> f[i]]) \in Seq(S)
  <2>1. n \in 0..n
    BY <1>1
  <2> QED
    BY <1>1, <1>2, <2>1, FlattenPrefixes
<1>5. Collect(g, q) = FlattenSeq(f) /\ Collect(g, q) \in Seq(S)
  BY <1>1, <1>3, <1>4 DEF Collect
<1>6. ASSUME NEW d \in D
      PROVE  Collect(g, Append(q, d)) = Collect(g, q) \o g[d]
  <2> DEFINE h == [i \in 1..Len(Append(q, d)) |-> g[Append(q, d)[i]]]
  <2>1. /\ Len(Append(q, d)) = n + 1
        /\ \A i \in 1..n : Append(q, d)[i] = q[i]
        /\ Append(q, d)[n + 1] = d
    BY <1>1, AppendProperties
  <2>2. g[d] \in Seq(S) /\ f \in Seq(Seq(S)) /\ Len(f) = n
    BY <1>1, <1>2, <1>3 DEF Makes
  <2>3. /\ Append(f, g[d]) \in Seq(Seq(S)) /\ Len(Append(f, g[d])) = n + 1
        /\ \A i \in 1..n : Append(f, g[d])[i] = f[i]
        /\ Append(f, g[d])[n + 1] = g[d]
    BY <2>2, AppendProperties
  <2>4. \A i \in 1..n : f[i] = g[q[i]]
    BY <1>3
  <2>5. /\ DOMAIN h = 1..(n + 1)
        /\ \A i \in 1..(n + 1) : h[i] = g[Append(q, d)[i]]
    BY <2>1
  <2> HIDE DEF h
  <2>6. ASSUME NEW i \in 1..(n + 1)
        PROVE  h[i] = Append(f, g[d])[i]
    <3>1. CASE i = n + 1
      BY <2>1, <2>3, <2>5, <3>1
    <3>2. CASE i # n + 1
      <4>1. i \in 1..n
        BY <1>1, <3>2
      <4> QED
        BY <2>1, <2>3, <2>4, <2>5, <4>1
    <3> QED
      BY <3>1, <3>2
  <2>7. h = Append(f, g[d])
    <3>1. h = [i \in 1..(n + 1) |-> h[i]]
      BY <2>5 DEF h
    <3>2. Append(f, g[d]) = [i \in 1..(n + 1) |-> Append(f, g[d])[i]]
      BY <1>1, <2>3, LenProperties
    <3> QED
      BY <2>6, <3>1, <3>2
  <2>8. FlattenSeq(Append(f, g[d])) = FlattenSeq(f) \o g[d]
    BY <2>2, FlattenAppend
  <2>9. Collect(g, Append(q, d)) = FlattenSeq(h)
    BY DEF Collect, h
  <2> QED
    BY <1>5, <2>7, <2>8, <2>9
<1>7. Collect(g, <<>>) = <<>>
  BY FlattenEmpty DEF Collect
<1> QED
  BY <1>5, <1>6, <1>7

(* A sequence is the last of its prefixes, which grow by a member.         *)
LEMMA PrefixSteps ==
    ASSUME NEW D, NEW q \in Seq(D)
    PROVE  /\ Len(q) \in Nat
           /\ SubSeq(q, 1, 0) = <<>>
           /\ SubSeq(q, 1, Len(q)) = q
           /\ \A k \in 0..Len(q) : SubSeq(q, 1, k) \in Seq(D)
           /\ \A k \in 0..(Len(q) - 1) :
                /\ q[k + 1] \in D
                /\ SubSeq(q, 1, k + 1) = Append(SubSeq(q, 1, k), q[k + 1])
<1>1. Len(q) \in Nat /\ \A i \in 1..Len(q) : q[i] \in D
  BY LenProperties, ElementOfSeq
<1>2. SubSeq(q, 1, 0) = <<>> /\ SubSeq(q, 1, Len(q)) = q
  BY SubSeqEmpty, SubSeqFull
<1>3. ASSUME NEW k \in 0..Len(q)
      PROVE  SubSeq(q, 1, k) \in Seq(D)
  BY <1>1, SubSeqProperties
<1>4. ASSUME NEW k \in 0..(Len(q) - 1)
      PROVE  /\ q[k + 1] \in D
             /\ SubSeq(q, 1, k + 1) = Append(SubSeq(q, 1, k), q[k + 1])
  <2>1. k + 1 \in 1..Len(q) /\ 1 \in 1..Len(q) /\ k + 1 \in 1..Len(q) /\ k \in 0..Len(q)
    BY <1>1
  <2>2. SubSeq(q, 1, k + 1) = SubSeq(q, 1, (k + 1) - 1) \o <<q[k + 1]>>
    BY <2>1, SubSeqRecursiveSecond
  <2>3. (k + 1) - 1 = k
    OBVIOUS
  <2>4. Append(SubSeq(q, 1, k), q[k + 1]) = SubSeq(q, 1, k) \o <<q[k + 1]>>
    BY <1>1, <1>3, <2>1, AppendIsConcat
  <2> QED
    BY <1>1, <2>1, <2>2, <2>3, <2>4
<1> QED
  BY <1>1, <1>2, <1>3, <1>4

(* A sequence is what comes before a place and what comes after it.        *)
LEMMA SplitAt ==
    ASSUME NEW D, NEW t \in Seq(D), NEW n \in Nat, n <= Len(t)
    PROVE  /\ SubSeq(t, 1, n) \in Seq(D) /\ SubSeq(t, n + 1, Len(t)) \in Seq(D)
           /\ Len(SubSeq(t, 1, n)) = n /\ Len(SubSeq(t, n + 1, Len(t))) = Len(t) - n
           /\ \A i \in 1..n : SubSeq(t, 1, n)[i] = t[i]
           /\ \A i \in 1..(Len(t) - n) : SubSeq(t, n + 1, Len(t))[i] = t[n + i]
           /\ t = SubSeq(t, 1, n) \o SubSeq(t, n + 1, Len(t))
<1> DEFINE m == Len(t)
<1>1. m \in Nat /\ n <= m /\ \A i \in 1..m : t[i] \in D
  BY LenProperties, ElementOfSeq
<1> HIDE DEF m
<1>2. (\A i \in 1..n : t[i] \in D) /\ (\A i \in (n + 1)..m : t[i] \in D)
  BY <1>1
<1>3. /\ SubSeq(t, 1, n) \in Seq(D)
      /\ Len(SubSeq(t, 1, n)) = IF 1 <= n THEN n - 1 + 1 ELSE 0
      /\ \A i \in 1..(n - 1 + 1) : SubSeq(t, 1, n)[i] = t[1 + i - 1]
  <2>1. 1 \in Int /\ n \in Int
    OBVIOUS
  <2> QED
    BY <1>2, <2>1, SubSeqProperties
<1>4. /\ SubSeq(t, n + 1, m) \in Seq(D)
      /\ Len(SubSeq(t, n + 1, m)) = IF n + 1 <= m THEN m - (n + 1) + 1 ELSE 0
      /\ \A i \in 1..(m - (n + 1) + 1) : SubSeq(t, n + 1, m)[i] = t[(n + 1) + i - 1]
  <2>1. n + 1 \in Int /\ m \in Int
    BY <1>1
  <2> QED
    BY <1>2, <2>1, SubSeqProperties
<1>5. t = SubSeq(t, 1, n) \o SubSeq(t, n + 1, m)
  <2>1. 1 \in 1..(m + 1) /\ n \in (1 - 1)..m /\ m \in n..m
    BY <1>1
  <2>2. SubSeq(t, 1, n) \o SubSeq(t, n + 1, m) = SubSeq(t, 1, m)
    BY <2>1, ConcatAdjacentSubSeq DEF m
  <2> QED
    BY <2>2, SubSeqFull DEF m
<1>6. Len(SubSeq(t, 1, n)) = n /\ \A i \in 1..n : SubSeq(t, 1, n)[i] = t[i]
  <2>1. n - 1 + 1 = n /\ \A i \in 1..n : 1 + i - 1 = i
    OBVIOUS
  <2>2. Len(SubSeq(t, 1, n)) = n
    BY <1>3
  <2> QED
    BY <1>3, <2>1, <2>2
<1>7. /\ Len(SubSeq(t, n + 1, m)) = m - n
      /\ \A i \in 1..(m - n) : SubSeq(t, n + 1, m)[i] = t[n + i]
  <2>1. m - (n + 1) + 1 = m - n /\ \A i \in 1..(m - n) : (n + 1) + i - 1 = n + i
    BY <1>1
  <2>2. Len(SubSeq(t, n + 1, m)) = m - n
    BY <1>1, <1>4
  <2> QED
    BY <1>4, <2>1, <2>2
<1> QED
  BY <1>3, <1>4, <1>5, <1>6, <1>7 DEF m

(* A sequence is in every set that holds the empty one and, with a         *)
(* sequence, every longer one.                                             *)
LEMMA SeqInduction ==
    ASSUME NEW D, NEW A, <<>> \in A,
           \A q \in Seq(D), d \in D : q \in A => Append(q, d) \in A
    PROVE  Seq(D) \subseteq A
<1> SUFFICES ASSUME NEW q \in Seq(D) PROVE q \in A
  OBVIOUS
<1> DEFINE n == Len(q)
<1>1. /\ n \in Nat /\ n = Len(q)
      /\ SubSeq(q, 1, 0) = <<>>
      /\ SubSeq(q, 1, n) = q
      /\ \A k \in 0..n : SubSeq(q, 1, k) \in Seq(D)
      /\ \A k \in 0..(n - 1) :
           /\ q[k + 1] \in D
           /\ SubSeq(q, 1, k + 1) = Append(SubSeq(q, 1, k), q[k + 1])
  BY PrefixSteps
<1> HIDE DEF n
<1> DEFINE B == {k \in 0..n : SubSeq(q, 1, k) \in A}
<1>2. 0 \in B
  <2>1. 0 \in 0..n
    BY <1>1
  <2>2. SubSeq(q, 1, 0) \in A
    BY <1>1, Zenon
  <2> QED
    BY <2>1, <2>2, Zenon
<1>3. ASSUME NEW k \in 0..(n - 1), k \in B
      PROVE  k + 1 \in B
  <2>1. SubSeq(q, 1, k) \in A /\ k \in 0..n /\ k + 1 \in 0..n
    BY <1>1, <1>3
  <2>2. SubSeq(q, 1, k + 1) \in A
    BY <1>1, <2>1
  <2> QED
    BY <2>1, <2>2
<1>4. \A k \in B : SubSeq(q, 1, k) \in A
  OBVIOUS
<1> HIDE DEF B
<1>5. 0..n \subseteq B
  BY <1>1, <1>2, <1>3, Induction
<1>6. n \in B
  BY <1>1, <1>5
<1> QED
  BY <1>1, <1>4, <1>6

(* The results of a concatenation are those of its halves.                 *)
LEMMA CollectConcat ==
    ASSUME NEW D, NEW S, NEW g, Makes(g, D, S), NEW p \in Seq(D), NEW q \in Seq(D)
    PROVE  Collect(g, p \o q) = Collect(g, p) \o Collect(g, q)
<1>0. /\ Collect(g, <<>>) = <<>>
      /\ \A r \in Seq(D) :
           /\ Collect(g, r) \in Seq(S)
           /\ \A d \in D : Collect(g, Append(r, d)) = Collect(g, r) \o g[d]
  BY CollectStep, EmptySeq
<1> DEFINE A == {r \in Seq(D) : Collect(g, p \o r) = Collect(g, p) \o Collect(g, r)}
<1>1. <<>> \in A
  <2>1. p \o <<>> = p /\ <<>> \in Seq(D)
    BY ConcatEmptySeq, EmptySeq
  <2>2. Collect(g, p) \o Collect(g, <<>>) = Collect(g, p)
    BY <1>0, ConcatEmptySeq
  <2> QED
    BY <2>1, <2>2
<1>2. ASSUME NEW r \in Seq(D), NEW d \in D, r \in A
      PROVE  Append(r, d) \in A
  <2>1. /\ Append(r, d) \in Seq(D) /\ Append(r, d) = r \o <<d>>
        /\ p \o r \in Seq(D) /\ <<d>> \in Seq(D)
        /\ Append(p \o r, d) = (p \o r) \o <<d>>
    BY AppendProperties, AppendIsConcat, ConcatProperties
  <2>2. (p \o r) \o <<d>> = p \o (r \o <<d>>)
    BY <2>1, ConcatAssociative
  <2>3. p \o Append(r, d) = Append(p \o r, d)
    BY <2>1, <2>2
  <2>4. /\ Collect(g, Append(p \o r, d)) = Collect(g, p \o r) \o g[d]
        /\ Collect(g, Append(r, d)) = Collect(g, r) \o g[d]
        /\ Collect(g, p) \in Seq(S) /\ Collect(g, r) \in Seq(S) /\ g[d] \in Seq(S)
    BY <1>0, <2>1 DEF Makes
  <2>5. Collect(g, p \o r) = Collect(g, p) \o Collect(g, r)
    BY <1>2
  <2>6. (Collect(g, p) \o Collect(g, r)) \o g[d] = Collect(g, p) \o (Collect(g, r) \o g[d])
    <3>1. \A a, b, c \in Seq(S) : (a \o b) \o c = a \o (b \o c)
      BY ConcatAssociative
    <3> QED
      BY <2>4, <3>1
  <2> QED
    BY <2>1, <2>3, <2>4, <2>5, <2>6
<1> HIDE DEF A
<1>3. Seq(D) \subseteq A
  BY <1>1, <1>2, SeqInduction
<1> QED
  BY <1>3 DEF A

(* Where g keeps every member as it is, the sequence stays; where it makes *)
(* nothing of any, nothing is left.                                        *)
LEMMA CollectAll ==
    ASSUME NEW D, NEW g, Makes(g, D, D), \A d \in D : g[d] = <<d>>,
           NEW q \in Seq(D)
    PROVE  Collect(g, q) = q
<1>0. /\ Collect(g, <<>>) = <<>>
      /\ \A r \in Seq(D), d \in D : Collect(g, Append(r, d)) = Collect(g, r) \o g[d]
  BY CollectStep, EmptySeq
<1> DEFINE A == {r \in Seq(D) : Collect(g, r) = r}
<1>1. <<>> \in A
  BY <1>0, EmptySeq
<1>2. ASSUME NEW r \in Seq(D), NEW d \in D, r \in A
      PROVE  Append(r, d) \in A
  <2>1. Append(r, d) \in Seq(D) /\ Append(r, d) = r \o <<d>>
    BY AppendProperties, AppendIsConcat
  <2>2. Collect(g, Append(r, d)) = Collect(g, r) \o <<d>>
    BY <1>0
  <2> QED
    BY <1>2, <2>1, <2>2
<1> HIDE DEF A
<1>3. Seq(D) \subseteq A
  BY <1>1, <1>2, SeqInduction
<1> QED
  BY <1>3 DEF A

LEMMA CollectNone ==
    ASSUME NEW D, NEW S, NEW g, Makes(g, D, S), \A d \in D : g[d] = <<>>,
           NEW q \in Seq(D)
    PROVE  Collect(g, q) = <<>>
<1>0. /\ Collect(g, <<>>) = <<>>
      /\ \A r \in Seq(D), d \in D : Collect(g, Append(r, d)) = Collect(g, r) \o g[d]
  BY CollectStep, EmptySeq
<1> DEFINE A == {r \in Seq(D) : Collect(g, r) = <<>>}
<1>1. <<>> \in A
  BY <1>0, EmptySeq
<1>2. ASSUME NEW r \in Seq(D), NEW d \in D, r \in A
      PROVE  Append(r, d) \in A
  <2>1. Append(r, d) \in Seq(D)
    BY AppendProperties
  <2>2. Collect(g, Append(r, d)) = Collect(g, r) \o g[d]
    BY <1>0
  <2>3. <<>> \o <<>> = <<>>
    OBVIOUS
  <2> QED
    BY <1>2, <2>1, <2>2, <2>3
<1> HIDE DEF A
<1>3. Seq(D) \subseteq A
  BY <1>1, <1>2, SeqInduction
<1> QED
  BY <1>3 DEF A

(* Of one member its result alone.                                         *)
LEMMA CollectOne ==
    ASSUME NEW D, NEW S, NEW g, Makes(g, D, S), NEW d \in D
    PROVE  <<d>> \in Seq(D) /\ Collect(g, <<d>>) = g[d]
<1> DEFINE e == <<>>
<1>1. /\ e \in Seq(D) /\ <<d>> \in Seq(D) /\ <<d>> = Append(e, d)
      /\ \A q \in Seq(S) : e \o q = q
  BY EmptySeq, ConcatEmptySeq
<1>2. g[d] \in Seq(S)
  BY DEF Makes
<1>3. Collect(g, e) = e
  BY <1>1, CollectStep
<1> HIDE DEF e
<1>4. Collect(g, Append(e, d)) = Collect(g, e) \o g[d]
  BY <1>1, CollectStep
<1> QED
  BY <1>1, <1>2, <1>3, <1>4

-----------------------------------------------------------------------------
(* The order of stored times.                                              *)

(* A later time is of no earlier second.                                   *)
LEMMA SecondsGrow ==
    ASSUME NEW res \in Nat \ {0}, NEW a \in Nat, NEW b \in Nat, a <= b
    PROVE  Second(a, res) <= Second(b, res)
<1> DEFINE q == a \div res
           s == b \div res
<1>1. /\ q \in Nat /\ a = res * q + (a % res) /\ a % res \in 0..(res - 1)
      /\ s \in Nat /\ b = res * s + (b % res) /\ b % res \in 0..(res - 1)
  OBVIOUS
<1> HIDE DEF q, s
<1>2. ASSUME q > s
      PROVE  FALSE
  <2>1. res * q >= res * s + res
    <3>1. PICK d \in Nat : q = s + 1 + d
      <4>1. q - s - 1 \in Nat /\ q = s + 1 + (q - s - 1)
        BY <1>1, <1>2
      <4> QED
        BY <4>1
    <3>2. res * (s + 1 + d) = res * s + res + res * d /\ res * d \in Nat
      BY <1>1
    <3>3. res * s \in Nat
      BY <1>1
    <3> QED
      BY <3>1, <3>2, <3>3
  <2>2. res * q \in Nat /\ res * s \in Nat
    BY <1>1
  <2> QED
    BY <1>1, <2>1, <2>2
<1>3. q <= s
  BY <1>1, <1>2
<1> QED
  BY <1>3 DEF Second, q, s

(* What does not sort after another time is of no later second, whatever   *)
(* the fractions: an exact second counts as the end of its second.         *)
LEMMA TextOrder ==
    ASSUME NEW res \in Nat \ {0}, NEW a \in Nat, NEW b \in Nat,
           TextKey(a, res) <= TextKey(b, res)
    PROVE  Second(a, res) <= Second(b, res)
<1> DEFINE Digits(t) == IF t % res = 0 THEN res ELSE t % res
<1>1. res \in Nat /\ res > 0
  OBVIOUS
<1>2. ASSUME NEW t \in Nat
      PROVE  /\ Second(t, res) \in Nat
             /\ Digits(t) \in 1..res
             /\ TextKey(t, res) = Second(t, res) * (res + 1) + Digits(t)
  BY <1>1 DEF Second, TextKey
<1>3. ASSUME NEW q \in Nat, NEW s \in Nat, q > s
      PROVE  q * (res + 1) >= s * (res + 1) + res + 1
  <2>1. PICK d \in Nat : q = s + 1 + d
    <3>1. q - s - 1 \in Nat /\ q = s + 1 + (q - s - 1)
      BY <1>3
    <3> QED
      BY <3>1
  <2>2. (s + 1 + d) * (res + 1) = s * (res + 1) + (res + 1) + d * (res + 1)
    BY <1>1
  <2>3. d * (res + 1) \in Nat /\ s * (res + 1) \in Nat
    BY <1>1
  <2> QED
    BY <1>1, <2>1, <2>2, <2>3
<1>4. ASSUME Second(a, res) > Second(b, res)
      PROVE  FALSE
  <2> DEFINE x == Second(a, res) * (res + 1)
             y == Second(b, res) * (res + 1)
  <2>1. x \in Nat /\ y \in Nat
    <3>1. \A n \in Nat : n * (res + 1) \in Nat
      BY <1>1
    <3> QED
      BY <1>2, <3>1
  <2>2. x >= y + res + 1
    BY <1>2, <1>3, <1>4
  <2>3. /\ TextKey(a, res) = x + Digits(a) /\ Digits(a) \in 1..res
        /\ TextKey(b, res) = y + Digits(b) /\ Digits(b) \in 1..res
    BY <1>2
  <2> HIDE DEF x, y, Digits
  <2> QED
    BY <1>1, <2>1, <2>2, <2>3
<1> QED
  BY <1>2, <1>4
=============================================================================
