------------------------ MODULE GeminiTelemetryProofs ------------------------
(***************************************************************************)
(* Proofs about GeminiTelemetry: the normaliser loses and invents nothing, *)
(* an accepted batch is published, and Close keeps the promise of          *)
(* LoopbackServer.                                                         *)
(***************************************************************************)
EXTENDS GeminiTelemetry, SequenceTheorems, FiniteSetTheorems, TLAPS

-----------------------------------------------------------------------------
(* Normalisation.                                                          *)

(* A record makes at most two events, and agent.done only as the second,   *)
(* after the llm.response (normalizeSpan).                                 *)
LEMMA KindsOfRecord ==
    ASSUME NEW kind
    PROVE  /\ KindsOf(kind) \in Seq(EventKinds)
           /\ Len(KindsOf(kind)) \in 0..2
           /\ \A k \in 1..Len(KindsOf(kind)) : KindsOf(kind)[k] = "agent.done" =>
                k = 2 /\ KindsOf(kind)[1] = "llm.response"
<1> DEFINE Good(s) == /\ s \in Seq(EventKinds)
                      /\ Len(s) \in 0..2
                      /\ \A k \in 1..Len(s) : s[k] = "agent.done" =>
                           k = 2 /\ s[1] = "llm.response"
<1>1. \A a \in EventKinds : a # "agent.done" => Good(<<a>>)
  OBVIOUS
<1>2. \A a, c \in EventKinds :
        a # "agent.done" /\ (c = "agent.done" => a = "llm.response") => Good(<<a, c>>)
  <2> SUFFICES ASSUME NEW a \in EventKinds, NEW c \in EventKinds,
                      a # "agent.done", c = "agent.done" => a = "llm.response"
               PROVE  Good(<<a, c>>)
    OBVIOUS
  <2> DEFINE s == <<a, c>>
  <2>1. s \in Seq(EventKinds) /\ Len(s) = 2 /\ s[1] = a /\ s[2] = c
    OBVIOUS
  <2> HIDE DEF s
  <2>2. Good(s)
    BY <2>1
  <2> QED
    BY <2>2 DEF s
<1>3. Good(<<>>)
  OBVIOUS
<1> HIDE DEF Good
<1>4. Good(KindsOf(kind))
  <2>1. CASE kind = "user_prompt"
    <3>1. KindsOf(kind) = <<"llm.request", "agent.busy">>
      BY <2>1, Zenon DEF KindsOf
    <3>2. /\ "llm.request" \in EventKinds /\ "agent.busy" \in EventKinds
          /\ "llm.request" # "agent.done" /\ ("agent.busy" = "agent.done" => "llm.request" = "llm.response")
      BY DEF EventKinds
    <3>3. Good(<<"llm.request", "agent.busy">>)
      BY <1>2, <3>2, Zenon
    <3> QED
      BY <3>1, <3>3, Zenon
  <2>2. CASE kind = "tool_log"
    <3>1. KindsOf(kind) = <<"tool.call", "agent.tooling">>
      BY <2>2, Zenon DEF KindsOf
    <3>2. /\ "tool.call" \in EventKinds /\ "agent.tooling" \in EventKinds
          /\ "tool.call" # "agent.done" /\ ("agent.tooling" = "agent.done" => "tool.call" = "llm.response")
      BY DEF EventKinds
    <3>3. Good(<<"tool.call", "agent.tooling">>)
      BY <1>2, <3>2, Zenon
    <3> QED
      BY <3>1, <3>3, Zenon
  <2>3. CASE kind = "tool_span"
    <3>1. KindsOf(kind) = <<"tool.result">>
      BY <2>3, Zenon DEF KindsOf
    <3>2. "tool.result" \in EventKinds /\ "tool.result" # "agent.done"
      BY DEF EventKinds
    <3>3. Good(<<"tool.result">>)
      BY <1>1, <3>2, Zenon
    <3> QED
      BY <3>1, <3>3, Zenon
  <2>4. CASE kind = "llm_final"
    <3>1. KindsOf(kind) = <<"llm.response", "agent.done">>
      BY <2>4, Zenon DEF KindsOf
    <3>2. /\ "llm.response" \in EventKinds /\ "agent.done" \in EventKinds
          /\ "llm.response" # "agent.done" /\ ("agent.done" = "agent.done" => "llm.response" = "llm.response")
      BY DEF EventKinds
    <3>3. Good(<<"llm.response", "agent.done">>)
      BY <1>2, <3>2, Zenon
    <3> QED
      BY <3>1, <3>3, Zenon
  <2>5. CASE kind = "llm_tool_call"
    <3>1. KindsOf(kind) = <<"agent.tooling">>
      BY <2>5, Zenon DEF KindsOf
    <3>2. "agent.tooling" \in EventKinds /\ "agent.tooling" # "agent.done"
      BY DEF EventKinds
    <3>3. Good(<<"agent.tooling">>)
      BY <1>1, <3>2, Zenon
    <3> QED
      BY <3>1, <3>3, Zenon
  <2>6. CASE kind \notin {"user_prompt", "tool_log", "tool_span", "llm_final",
                         "llm_tool_call"}
    <3>1. KindsOf(kind) = <<>>
      BY <2>6, Zenon DEF KindsOf
    <3> QED
      BY <1>3, <3>1
  <2> QED
    BY <2>1, <2>2, <2>3, <2>4, <2>5, <2>6
<1> QED
  BY <1>4 DEF Good

(* The records of a batch and the events they make, with their types.      *)
LEMMA EventsOfBatch ==
    ASSUME NEW b \in Batches, NEW now \in Nat, NEW x \in EventsOf(b)
    PROVE  /\ x = <<x[1], x[2]>> /\ x[2] \in 1..2
           /\ x[1] \in {1, 2} \X Nat /\ x[1] = <<x[1][1], x[1][2]>>
           /\ RecordAt(b, x[1]) \in [kind : STRING, time : Nat]
           /\ x[2] \in 1..Len(KindsOf(RecordAt(b, x[1]).kind))
           /\ EventAt(b, x, now) \in EventType
<1> DEFINE r == x[1]
           K == KindsOf(RecordAt(b, r).kind)
<1>1. /\ x \in Records(b) \X (1..2) /\ x[2] <= Len(K)
  BY DEF EventsOf
<1>2. r \in Records(b) /\ x[2] \in 1..2 /\ x = <<r, x[2]>>
  BY <1>1
<1>3. /\ Len(Post[b].logs) \in Nat /\ Len(Post[b].spans) \in Nat
      /\ \A i \in 1..Len(Post[b].logs) : Post[b].logs[i] \in [kind : STRING, time : Nat]
      /\ \A i \in 1..Len(Post[b].spans) : Post[b].spans[i] \in [kind : STRING, time : Nat]
  BY GeminiAssumption, LenProperties, ElementOfSeq
<1>4. \/ r[1] = 1 /\ r[2] \in 1..Len(Post[b].logs)
      \/ r[1] = 2 /\ r[2] \in 1..Len(Post[b].spans)
  BY <1>2 DEF Records
<1>5. r \in {1, 2} \X Nat /\ r = <<r[1], r[2]>>
  BY <1>2, <1>3 DEF Records
<1>6. RecordAt(b, r) \in [kind : STRING, time : Nat]
  BY <1>3, <1>4 DEF RecordAt
<1>7. K \in Seq(EventKinds) /\ Len(K) \in 0..2 /\ x[2] \in 1..Len(K)
  BY <1>1, <1>2, KindsOfRecord
<1>8. K[x[2]] \in EventKinds
  BY <1>7, ElementOfSeq
<1>9. TimestampOf(RecordAt(b, r), now) \in Nat
  BY <1>6 DEF TimestampOf
<1>10. EventAt(b, x, now) \in EventType
  BY <1>5, <1>8, <1>9 DEF EventAt, EventType
<1> QED
  BY <1>2, <1>5, <1>6, <1>7, <1>10

(* A batch makes finitely many events, so that they can be ranked.         *)
LEMMA FinitelyManyEvents ==
    ASSUME NEW b \in Batches
    PROVE  IsFiniteSet(EventsOf(b)) /\ Cardinality(EventsOf(b)) \in Nat
<1>1. Len(Post[b].logs) \in Nat /\ Len(Post[b].spans) \in Nat
  BY GeminiAssumption, LenProperties
<1>2. \A n \in Nat : IsFiniteSet(1..n)
  BY FS_Interval
<1>3. IsFiniteSet({1}) /\ IsFiniteSet({2})
  BY FS_Singleton
<1>4. /\ IsFiniteSet({1} \X (1..Len(Post[b].logs)))
      /\ IsFiniteSet({2} \X (1..Len(Post[b].spans)))
  BY <1>1, <1>2, <1>3, FS_Product
<1>5. IsFiniteSet(Records(b))
  BY <1>4, FS_Union DEF Records
<1>6. IsFiniteSet(Records(b) \X (1..2))
  BY <1>2, <1>5, FS_Product
<1>7. EventsOf(b) \in SUBSET (Records(b) \X (1..2))
  BY DEF EventsOf
<1>8. IsFiniteSet(EventsOf(b))
  BY <1>6, <1>7, FS_Subset
<1> QED
  BY <1>8, FS_CardinalityType

(* sort.SliceStable sees the events of a batch in a total order.           *)
LEMMA SortIsTotal ==
    ASSUME NEW b \in Batches, NEW now \in Nat
    PROVE  /\ \A x \in EventsOf(b) : SortedNoLater(b, x, x, now)
           /\ \A x, y \in EventsOf(b) :
                SortedNoLater(b, x, y, now) \/ SortedNoLater(b, y, x, now)
           /\ \A x, y \in EventsOf(b) :
                SortedNoLater(b, x, y, now) /\ SortedNoLater(b, y, x, now) => x = y
           /\ \A x, y, z \in EventsOf(b) :
                SortedNoLater(b, x, y, now) /\ SortedNoLater(b, y, z, now)
                  => SortedNoLater(b, x, z, now)
<1> DEFINE T(x) == EventAt(b, x, now).time
<1>1. \A x \in EventsOf(b) : T(x) \in Nat
  BY EventsOfBatch DEF EventType
<1>2. \A x, y \in EventsOf(b) :
         SortedNoLater(b, x, y, now) <=> (T(x) < T(y) \/ (T(x) = T(y) /\ MadeNoLater(x, y)))
  BY DEF SortedNoLater
<1> HIDE DEF T
<1>3. \A x \in EventsOf(b) : /\ x = <<x[1], x[2]>> /\ x[2] \in Nat
                             /\ x[1][1] \in Nat /\ x[1][2] \in Nat
                             /\ x[1] = <<x[1][1], x[1][2]>>
  BY EventsOfBatch
<1>4. \A x, y \in EventsOf(b) : MadeNoLater(x, y) <=>
         \/ x[1][1] < y[1][1]
         \/ x[1][1] = y[1][1] /\ x[1][2] < y[1][2]
         \/ x[1][1] = y[1][1] /\ x[1][2] = y[1][2] /\ x[2] <= y[2]
  BY <1>3 DEF MadeNoLater
<1>5. \A x, y \in EventsOf(b) :
         x[1][1] = y[1][1] /\ x[1][2] = y[1][2] /\ x[2] = y[2] => x = y
  BY <1>3
<1>6. /\ \A x \in EventsOf(b) : MadeNoLater(x, x)
      /\ \A x, y \in EventsOf(b) : MadeNoLater(x, y) \/ MadeNoLater(y, x)
      /\ \A x, y \in EventsOf(b) : MadeNoLater(x, y) /\ MadeNoLater(y, x) => x = y
      /\ \A x, y, z \in EventsOf(b) :
           MadeNoLater(x, y) /\ MadeNoLater(y, z) => MadeNoLater(x, z)
  BY <1>3, <1>4, <1>5
<1> QED
  BY <1>1, <1>2, <1>6

(* The rank of an event is its place in the sorted payload: no two share   *)
(* one, and with finitely many events every place is taken.                *)
LEMMA RankIsPlace ==
    ASSUME NEW b \in Batches, NEW now \in Nat
    PROVE  /\ \A x \in EventsOf(b) : Rank(b, x, now) \in 1..Cardinality(EventsOf(b))
           /\ \A x, y \in EventsOf(b) :
                x # y /\ SortedNoLater(b, x, y, now) => Rank(b, x, now) < Rank(b, y, now)
           /\ \A x, y \in EventsOf(b) : Rank(b, x, now) = Rank(b, y, now) => x = y
           /\ \A n \in 1..Cardinality(EventsOf(b)) :
                \E x \in EventsOf(b) : Rank(b, x, now) = n
<1> DEFINE E == EventsOf(b)
           Le(x, y) == SortedNoLater(b, x, y, now)
           Below(x) == {y \in E : Le(y, x)}
           R(x) == Rank(b, x, now)
           N == Cardinality(E)
<1>1. IsFiniteSet(E) /\ N \in Nat
  BY FinitelyManyEvents
<1>2. /\ \A x \in E : Le(x, x)
      /\ \A x, y \in E : Le(x, y) \/ Le(y, x)
      /\ \A x, y \in E : Le(x, y) /\ Le(y, x) => x = y
      /\ \A x, y, z \in E : Le(x, y) /\ Le(y, z) => Le(x, z)
  BY SortIsTotal
<1>3. \A x \in E : R(x) = Cardinality(Below(x))
  BY DEF Rank
<1> HIDE DEF E, Le, R
<1>4. \A x \in E : IsFiniteSet(Below(x)) /\ Cardinality(Below(x)) \in Nat
                    /\ Cardinality(Below(x)) <= N
  <2> TAKE x \in E
  <2>1. Below(x) \in SUBSET E
    OBVIOUS
  <2>2. IsFiniteSet(Below(x)) /\ Cardinality(Below(x)) <= Cardinality(E)
    BY <1>1, <2>1, FS_Subset
  <2> QED
    BY <2>2, FS_CardinalityType
<1>5. \A x \in E : R(x) \in 1..N
  <2> TAKE x \in E
  <2>1. Cardinality(Below(x)) # 0
    BY <1>2, <1>4, FS_EmptySet
  <2> QED
    BY <1>1, <1>3, <1>4, <2>1
<1>6. \A x, y \in E : x # y /\ Le(x, y) => R(x) < R(y)
  <2> SUFFICES ASSUME NEW x \in E, NEW y \in E, x # y, Le(x, y)
               PROVE  R(x) < R(y)
    OBVIOUS
  <2>1. Below(x) \in SUBSET Below(y)
    BY <1>2
  <2>2. y \in Below(y) /\ y \notin Below(x)
    BY <1>2
  <2>3. /\ Cardinality(Below(x)) <= Cardinality(Below(y))
        /\ Cardinality(Below(y)) = Cardinality(Below(x)) => Below(y) = Below(x)
    BY <1>4, <2>1, FS_Subset
  <2>4. Cardinality(Below(y)) # Cardinality(Below(x))
    BY <2>2, <2>3
  <2> QED
    BY <1>3, <1>4, <2>3, <2>4
<1>7. \A x, y \in E : R(x) = R(y) => x = y
  <2> SUFFICES ASSUME NEW x \in E, NEW y \in E, R(x) = R(y), x # y
               PROVE  FALSE
    OBVIOUS
  <2>1. R(x) \in Int /\ R(y) \in Int
    BY <1>1, <1>5
  <2>2. R(x) < R(y) \/ R(y) < R(x)
    BY <1>2, <1>6
  <2> QED
    BY <2>1, <2>2
<1>8. \A n \in 1..N : \E x \in E : R(x) = n
  <2> DEFINE f == [x \in E |-> R(x)]
  <2>1. f \in [E -> 1..N]
    BY <1>5
  <2>2. \A x, y \in E : f[x] = f[y] => x = y
    BY <1>7
  <2>3. f \in Injection(E, 1..N)
    BY <2>1, <2>2 DEF Injection, IsInjective
  <2>4. IsFiniteSet(1..N) /\ Cardinality(1..N) = N
    BY <1>1, FS_Interval
  <2>5. f \in Surjection(E, 1..N)
    BY <2>3, <2>4, FS_Injection
  <2>6. \A n \in 1..N : \E x \in E : f[x] = n
    BY <2>5 DEF Surjection
  <2> QED
    BY <2>6
<1> QED
  BY <1>5, <1>6, <1>7, <1>8 DEF E, Le, R

(* NormalizePayload is a permutation of the events of the batch, and       *)
(* agent.done stands after the llm.response of its span.                   *)
LEMMA NormalizedPayload ==
    ASSUME NEW b \in Batches, NEW now \in Nat
    PROVE  /\ NormalizePayload(b, now) \in Seq(EventType)
           /\ \A n \in 1..Len(NormalizePayload(b, now)) : \E x \in EventsOf(b) :
                NormalizePayload(b, now)[n] = EventAt(b, x, now)
           /\ \A x \in EventsOf(b) : \E n \in 1..Len(NormalizePayload(b, now)) :
                NormalizePayload(b, now)[n] = EventAt(b, x, now)
           /\ \A j \in 1..Len(NormalizePayload(b, now)) :
                NormalizePayload(b, now)[j].kind = "agent.done" =>
                  \E i \in 1..(j - 1) :
                    /\ NormalizePayload(b, now)[i].kind = "llm.response"
                    /\ NormalizePayload(b, now)[i].rec = NormalizePayload(b, now)[j].rec
<1> DEFINE P == NormalizePayload(b, now)
           E == EventsOf(b)
           R(x) == Rank(b, x, now)
           N == Cardinality(E)
           At(n) == CHOOSE x \in E : R(x) = n
           Ev(x) == EventAt(b, x, now)
<1>1. N \in Nat
  BY FinitelyManyEvents
<1>2. P = [n \in 1..N |-> Ev(At(n))]
  BY DEF NormalizePayload
<1>3. /\ \A x \in E : R(x) \in 1..N
      /\ \A x, y \in E : x # y /\ SortedNoLater(b, x, y, now) => R(x) < R(y)
      /\ \A x, y \in E : R(x) = R(y) => x = y
      /\ \A n \in 1..N : \E x \in E : R(x) = n
  BY RankIsPlace
<1>4. \A x \in E : Ev(x) \in EventType
  BY EventsOfBatch
<1> HIDE DEF R, E, Ev, N, P
<1>5. \A n \in 1..N : At(n) \in E /\ R(At(n)) = n
  BY <1>3
<1>6. \A x \in E : At(R(x)) = x
  BY <1>3, <1>5
<1> HIDE DEF At
<1>7. P \in Seq(EventType) /\ Len(P) = N
  BY <1>1, <1>2, <1>4, <1>5, IsASeq, LenProperties
<1>8. \A n \in 1..Len(P) : \E x \in E : P[n] = Ev(x)
  BY <1>2, <1>5, <1>7
<1>9. \A x \in E : \E n \in 1..Len(P) : P[n] = Ev(x)
  <2> TAKE x \in E
  <2>1. P[R(x)] = Ev(x)
    BY <1>2, <1>3, <1>6
  <2> QED
    BY <1>3, <1>7, <2>1
<1>10. ASSUME NEW j \in 1..Len(P), P[j].kind = "agent.done"
       PROVE  \E i \in 1..(j - 1) : P[i].kind = "llm.response" /\ P[i].rec = P[j].rec
  <2> DEFINE y == At(j)
             x == <<y[1], 1>>
             K == KindsOf(RecordAt(b, y[1]).kind)
  <2>1. y \in E /\ R(y) = j /\ P[j] = Ev(y)
    BY <1>2, <1>5, <1>7
  <2>2. y = <<y[1], y[2]>> /\ y[2] \in 1..Len(K) /\ y \in Records(b) \X (1..2)
    BY <2>1, EventsOfBatch DEF E, EventsOf
  <2>3. Ev(y).kind = K[y[2]] /\ Ev(y).rec = y[1]
    BY DEF Ev, EventAt
  <2>4. Len(K) \in 0..2 /\ y[2] = 2 /\ K[1] = "llm.response"
    BY <1>10, <2>1, <2>2, <2>3, KindsOfRecord
  <2>5. x \in E
    BY <2>2, <2>4 DEF E, EventsOf
  <2>6. Ev(x) = [kind |-> "llm.response", rec |-> y[1], time |-> Ev(y).time]
    BY <2>4 DEF Ev, EventAt
  <2>7. x # y /\ MadeNoLater(x, y)
    BY <2>2, <2>4 DEF MadeNoLater
  <2>8. SortedNoLater(b, x, y, now)
    BY <2>6, <2>7 DEF SortedNoLater, Ev
  <2>9. R(x) < R(y)
    BY <1>3, <2>1, <2>5, <2>7, <2>8
  <2>10. R(x) \in 1..(j - 1) /\ P[R(x)] = Ev(x)
    BY <1>1, <1>2, <1>3, <1>6, <1>7, <2>1, <2>5, <2>9
  <2> QED
    BY <2>1, <2>3, <2>6, <2>10
<1> QED
  BY <1>7, <1>8, <1>9, <1>10 DEF P, E, Ev

-----------------------------------------------------------------------------
(* The inductive invariant.                                                *)

(* Every event of the log of b is one of the batch, normalised at some     *)
(* time.                                                                   *)
FromBatch(b) ==
    \A j \in 1..Len(log[b]) : \E x \in EventsOf(b), t \in 1..clock : log[b][j] = EventAt(b, x, t)

(* A handler that publishes has the rest of a payload normalised at some   *)
(* time t in hand; the k events before it are out.                         *)
Rest(b, t, k) ==
    LET p == NormalizePayload(b, t)
    IN  /\ k < Len(p)
        /\ Len(todo[b]) = Len(p) - k
        /\ \A i \in 1..Len(todo[b]) : todo[b][i] = p[k + i]
        /\ \A i \in 1..k : \E j \in 1..Len(log[b]) : log[b][j] = p[i]

Publishing(b) ==
    hpc[b] = "publish" =>
        /\ ~Undecodable(b)
        /\ \E t \in 1..clock : \E k \in 0..Cardinality(EventsOf(b)) : Rest(b, t, k)

(* The event at x is out, with whatever time.                              *)
Out(b, x) ==
    \E j \in 1..Len(log[b]) :
        log[b][j].kind = EventAt(b, x, 0).kind /\ log[b][j].rec = x[1]

Accepted(b) == status[b] = 200 => \A x \in EventsOf(b) : Out(b, x)

DoneAfterResponse(b) ==
    \A j \in 1..Len(log[b]) : log[b][j].kind = "agent.done" =>
        \E i \in 1..(j - 1) :
            log[b][i].kind = "llm.response" /\ log[b][i].rec = log[b][j].rec

BatchInv(b) ==
    /\ FromBatch(b) /\ Publishing(b) /\ Accepted(b) /\ DoneAfterResponse(b)
    /\ Undecodable(b) => log[b] = <<>>

Inv == TypeOK /\ \A b \in Batches : BatchInv(b)

(* The next event of a hook, and what is left after it.                    *)
LEMMA NextOf ==
    ASSUME NEW S, NEW s \in Seq(S), s # <<>>
    PROVE  /\ Len(s) \in Nat \ {0}
           /\ Head(s) \in S /\ Head(s) = s[1]
           /\ Tail(s) \in Seq(S) /\ Len(Tail(s)) = Len(s) - 1
           /\ \A i \in 1..(Len(s) - 1) : Tail(s)[i] = s[i + 1]
           /\ Tail(s) = <<>> <=> Len(s) = 1
<1>1. Len(s) \in Nat \ {0}
  BY EmptySeq
<1>2. /\ Head(s) \in S /\ Tail(s) \in Seq(S) /\ Len(Tail(s)) = Len(s) - 1
      /\ \A i \in 1..(Len(s) - 1) : Tail(s)[i] = s[i + 1]
  BY HeadTailProperties
<1>3. Head(s) = s[1]
  BY <1>1
<1>4. Tail(s) = <<>> <=> Len(Tail(s)) = 0
  <2> DEFINE u == Tail(s)
  <2>1. u \in Seq(S)
    BY <1>2
  <2> HIDE DEF u
  <2>2. u = <<>> <=> Len(u) = 0
    BY <2>1, EmptySeq
  <2> QED
    BY <2>2 DEF u
<1> QED
  BY <1>1, <1>2, <1>3, <1>4

(* A step of a handler keeps the types.                                    *)
LEMMA HandlerKeepsTypes ==
    ASSUME TypeOK, NEW b \in Batches,
           \/ Export(b) \/ LoseAnswer(b) \/ ReadBodyFails(b)
           \/ HandlePayload(b) \/ PublishEvent(b)
    PROVE  TypeOK'
<1> DEFINE Codes == {0, 200, 400, 403, 404, 405, 500}
           Typed == /\ todo' \in [Batches -> Seq(EventType)]
                    /\ hpc' \in [Batches -> {"idle", "read", "publish"}]
                    /\ \A d \in Batches : hpc'[d] = "publish" <=> todo'[d] # <<>>
                    /\ status' \in [Batches -> Codes]
<1>a. /\ todo \in [Batches -> Seq(EventType)]
      /\ log \in [Batches -> Seq(EventType)]
      /\ hpc \in [Batches -> {"idle", "read", "publish"}]
      /\ \A d \in Batches : hpc[d] = "publish" <=> todo[d] # <<>>
      /\ status \in [Batches -> Codes]
  BY DEF TypeOK
<1>b. MaxSends \in Nat /\ MaxTime \in Nat \ {0} /\ MaxFaults \in Nat
  BY GeminiAssumption
<1>0. ASSUME NEW code \in Codes, Answer(b, code) PROVE Typed
  <2>1. <<>> \in Seq(EventType)
    BY EmptySeq
  <2> QED
    BY <1>0, <2>1 DEF Answer, TypeOK
<1>1. CASE Export(b)
  <2>1. Refusal(Post[b]) \in Codes
    BY DEF Refusal
  <2>2. Typed
    <3>1. CASE Refusal(Post[b]) # 0
      BY <1>0, <1>1, <2>1, <3>1 DEF Export
    <3>2. CASE Refusal(Post[b]) = 0
      <4>1. /\ hpc[b] = "idle" /\ hpc' = [hpc EXCEPT ![b] = "read"]
            /\ todo' = todo /\ status' = status
        BY <1>1, <3>2 DEF Export
      <4>2. todo' \in [Batches -> Seq(EventType)] /\ status' \in [Batches -> Codes]
        BY <1>a, <4>1, Zenon
      <4>3. hpc' \in [Batches -> {"idle", "read", "publish"}]
        BY <1>a, <4>1
      <4>4. ASSUME NEW d \in Batches PROVE hpc'[d] = "publish" <=> todo'[d] # <<>>
        <5>1. hpc'[d] = "publish" <=> hpc[d] = "publish"
          BY <1>a, <4>1
        <5> QED
          BY <1>a, <4>1, <5>1, Zenon
      <4> QED
        BY <4>2, <4>3, <4>4
    <3> QED
      BY <3>1, <3>2
  <2>3. sends' \in [Batches -> 0..MaxSends]
    BY <1>b, <1>1 DEF Export, TypeOK
  <2> QED
    BY <1>1, <2>2, <2>3 DEF Export, TypeOK
<1>2. CASE LoseAnswer(b)
  BY <1>b, <1>2 DEF LoseAnswer, Fault, TypeOK
<1>3. CASE ReadBodyFails(b)
  BY <1>b, <1>0, <1>3 DEF ReadBodyFails, Fault, TypeOK
<1>4. CASE HandlePayload(b)
  <2> DEFINE p == NormalizePayload(b, clock)
  <2>1. p \in Seq(EventType)
    BY <1>b, NormalizedPayload DEF TypeOK
  <2>2. CASE Undecodable(b) \/ p = <<>>
    <3>1. Answer(b, 500) \/ Answer(b, 200)
      BY <1>4, <2>2 DEF HandlePayload
    <3> QED
      BY <1>0, <1>4, <3>1 DEF HandlePayload, TypeOK
  <2>3. CASE ~Undecodable(b) /\ p # <<>>
    <3>1. /\ hpc' = [hpc EXCEPT ![b] = "publish"]
          /\ todo' = [todo EXCEPT ![b] = p] /\ status' = status
      BY <1>4, <2>3 DEF HandlePayload
    <3> HIDE DEF p
    <3>2. Typed
      BY <2>1, <2>3, <3>1 DEF TypeOK
    <3> QED
      BY <1>4, <3>2 DEF HandlePayload, TypeOK
  <2> QED
    BY <2>2, <2>3
<1>5. CASE PublishEvent(b)
  <2> DEFINE h == Head(todo[b])
             r == Tail(todo[b])
             a == Append(log[b], h)
  <2>1. todo[b] # <<>> /\ todo[b] \in Seq(EventType) /\ hpc[b] = "publish"
    BY <1>5 DEF PublishEvent, TypeOK
  <2>2. h \in EventType /\ r \in Seq(EventType) /\ (r = <<>> <=> Len(todo[b]) = 1)
    BY <2>1, NextOf
  <2>3. a \in Seq(EventType)
    BY <2>2, AppendProperties DEF TypeOK
  <2>4. log' = log \/ log' = [log EXCEPT ![b] = a]
    BY <1>5 DEF PublishEvent, Published
  <2>5. \/ Answer(b, 500) \/ Answer(b, 200)
        \/ /\ Len(todo[b]) # 1
           /\ todo' = [todo EXCEPT ![b] = r] /\ hpc' = hpc /\ status' = status
    BY <1>5 DEF PublishEvent
  <2> HIDE DEF h, r, a
  <2>6. log' \in [Batches -> Seq(EventType)]
    <3>1. CASE log' = log
      BY <1>a, <3>1
    <3>2. CASE log' = [log EXCEPT ![b] = a]
      BY <1>a, <2>3, <3>2
    <3> QED
      BY <2>4, <3>1, <3>2
  <2>7. ASSUME Len(todo[b]) # 1,
               todo' = [todo EXCEPT ![b] = r], hpc' = hpc, status' = status
        PROVE  Typed
    BY <1>a, <2>1, <2>2, <2>7
  <2>8. Typed
    BY <1>0, <2>5, <2>7
  <2>9. faults' \in 0..MaxFaults
    BY <1>b, <1>5 DEF PublishEvent, Fault, TypeOK
  <2> QED
    BY <1>5, <2>6, <2>8, <2>9 DEF PublishEvent, TypeOK
<1> QED
  BY <1>1, <1>2, <1>3, <1>4, <1>5

(* A batch whose handler does nothing keeps its invariant.                 *)
LEMMA Untouched ==
    ASSUME NEW d \in Batches, BatchInv(d), log'[d] = log[d], todo'[d] = todo[d],
           clock \in Nat, clock' \in {clock, clock + 1},
           hpc'[d] = "publish" => hpc[d] = "publish",
           status'[d] = 200 => status[d] = 200
    PROVE  BatchInv(d)'
<1>1. FromBatch(d)'
  <2>1. \A t \in 1..clock : t \in 1..clock'
    OBVIOUS
  <2> QED
    BY <2>1 DEF BatchInv, FromBatch
<1>2. Publishing(d)'
  <2> SUFFICES ASSUME hpc'[d] = "publish"
               PROVE  /\ ~Undecodable(d)
                      /\ \E t \in 1..clock' : \E k \in 0..Cardinality(EventsOf(d)) :
                           Rest(d, t, k)'
    BY DEF Publishing
  <2>1. PICK t \in 1..clock, k \in 0..Cardinality(EventsOf(d)) : Rest(d, t, k)
    BY DEF BatchInv, Publishing
  <2>2. Rest(d, t, k)'
    BY <2>1 DEF Rest
  <2>3. t \in 1..clock'
    OBVIOUS
  <2> QED
    BY <2>2, <2>3 DEF BatchInv, Publishing
<1>3. Accepted(d)'
  BY DEF BatchInv, Accepted, Out
<1>4. DoneAfterResponse(d)'
  BY DEF BatchInv, DoneAfterResponse
<1> QED
  BY <1>1, <1>2, <1>3, <1>4 DEF BatchInv

(* HandlePayload starts a payload with all of it in hand; a payload        *)
(* without events is accepted at once.                                     *)
LEMMA HandleKeeps ==
    ASSUME TypeOK, NEW b \in Batches, BatchInv(b), HandlePayload(b)
    PROVE  BatchInv(b)'
<1> DEFINE p == NormalizePayload(b, clock)
<1>0. clock \in Nat
  BY GeminiAssumption DEF TypeOK
<1>1. log'[b] = log[b] /\ clock' = clock
  BY DEF HandlePayload
<1>2. p \in Seq(EventType) /\ Len(p) \in Nat
  BY <1>0, NormalizedPayload, LenProperties
<1>3. CASE Undecodable(b)
  <2>1. status'[b] = 500 /\ hpc'[b] = "idle" /\ todo'[b] = <<>>
    BY <1>3 DEF HandlePayload, Answer, TypeOK
  <2>2. FromBatch(b)'
    BY <1>1, <2>1 DEF BatchInv, FromBatch
  <2>3. Publishing(b)' /\ Accepted(b)'
    BY <2>1 DEF Publishing, Accepted
  <2>4. DoneAfterResponse(b)' /\ log'[b] = <<>>
    BY <1>1, <1>3 DEF BatchInv, DoneAfterResponse
  <2> QED
    BY <2>2, <2>3, <2>4 DEF BatchInv
<1>4. CASE ~Undecodable(b) /\ p = <<>>
  <2>1. hpc'[b] = "idle"
    BY <1>4 DEF HandlePayload, Answer, TypeOK
  <2>2. EventsOf(b) = {}
    BY <1>0, <1>4, NormalizedPayload, EmptySeq
  <2> QED
    BY <1>1, <2>1, <2>2 DEF BatchInv, FromBatch, Publishing, Accepted, DoneAfterResponse
<1>5. CASE ~Undecodable(b) /\ p # <<>>
  <2>1. hpc'[b] = "publish" /\ todo'[b] = p /\ status'[b] = status[b]
    BY <1>5 DEF HandlePayload, TypeOK
  <2>2. Len(p) > 0
    BY <1>2, <1>5, EmptySeq
  <2>3. PICK t \in 1..clock : t = clock
    BY <1>0, GeminiAssumption DEF TypeOK
  <2>4. Rest(b, t, 0)'
    BY <1>1, <1>2, <2>1, <2>2, <2>3 DEF Rest
  <2>5. 0 \in 0..Cardinality(EventsOf(b))
    BY FinitelyManyEvents
  <2>6. Publishing(b)'
    BY <1>1, <1>5, <2>4, <2>5 DEF Publishing
  <2>7. FromBatch(b)'
    BY <1>1 DEF BatchInv, FromBatch
  <2>8. Accepted(b)'
    BY <1>1, <2>1 DEF BatchInv, Accepted, Out
  <2>9. DoneAfterResponse(b)'
    BY <1>1 DEF BatchInv, DoneAfterResponse
  <2> QED
    BY <1>5, <2>6, <2>7, <2>8, <2>9 DEF BatchInv
<1> QED
  BY <1>3, <1>4, <1>5

(* PublishEvent: the event in hand is of the payload, an agent.done finds  *)
(* the llm.response of its span in the log, and the answer 200 comes with  *)
(* the last event.                                                         *)
LEMMA PublishKeeps ==
    ASSUME TypeOK, NEW b \in Batches, BatchInv(b), PublishEvent(b)
    PROVE  BatchInv(b)'
<1> DEFINE l == log[b]
           m == log'[b]
           q == todo[b]
           h == Head(todo[b])
<1>1. /\ q # <<>> /\ q \in Seq(EventType) /\ l \in Seq(EventType) /\ Len(l) \in Nat
      /\ hpc[b] = "publish" /\ clock \in Nat /\ clock' = clock
  BY GeminiAssumption, LenProperties DEF PublishEvent, TypeOK
<1>2. PICK t \in 1..clock, k \in 0..Cardinality(EventsOf(b)) : Rest(b, t, k)
  BY <1>1 DEF BatchInv, Publishing
<1> DEFINE p == NormalizePayload(b, t)
<1>3. /\ p \in Seq(EventType) /\ Len(p) \in Nat
      /\ \A n \in 1..Len(p) : \E x \in EventsOf(b) : p[n] = EventAt(b, x, t)
      /\ \A x \in EventsOf(b) : \E n \in 1..Len(p) : p[n] = EventAt(b, x, t)
      /\ \A j \in 1..Len(p) : p[j].kind = "agent.done" =>
           \E i \in 1..(j - 1) : p[i].kind = "llm.response" /\ p[i].rec = p[j].rec
  <2>1. t \in Nat
    OBVIOUS
  <2> QED
    BY <2>1, NormalizedPayload, LenProperties
<1>4. /\ k \in Nat /\ k < Len(p) /\ Len(q) = Len(p) - k
      /\ \A i \in 1..Len(q) : q[i] = p[k + i]
      /\ \A i \in 1..k : \E j \in 1..Len(l) : l[j] = p[i]
  BY <1>2, FinitelyManyEvents DEF Rest
<1>5. /\ h \in EventType /\ h = p[k + 1] /\ k + 1 \in 1..Len(p)
      /\ Len(Tail(q)) = Len(q) - 1 /\ \A i \in 1..(Len(q) - 1) : Tail(q)[i] = q[i + 1]
  <2>1. /\ h \in EventType /\ h = q[1] /\ Len(q) \in Nat \ {0}
        /\ Len(Tail(q)) = Len(q) - 1 /\ \A i \in 1..(Len(q) - 1) : Tail(q)[i] = q[i + 1]
    BY <1>1, NextOf
  <2> QED
    BY <1>3, <1>4, <2>1
<1>6. ~Undecodable(b)
  BY <1>1 DEF BatchInv, Publishing
<1>7. \/ m = l
      \/ /\ m \in Seq(EventType) /\ Len(m) = Len(l) + 1
         /\ \A i \in 1..Len(l) : m[i] = l[i]
         /\ m[Len(l) + 1] = h
  <2>1. m = l \/ m = Append(l, h)
    BY DEF PublishEvent, Published, TypeOK
  <2>2. ASSUME m = Append(l, h)
        PROVE  /\ m \in Seq(EventType) /\ Len(m) = Len(l) + 1
               /\ \A i \in 1..Len(l) : m[i] = l[i]
               /\ m[Len(l) + 1] = h
    BY <1>1, <1>5, <2>2, AppendProperties
  <2> QED
    BY <2>1, <2>2
<1>8. /\ Len(m) \in Nat /\ Len(m) >= Len(l)
      /\ \A i \in 1..Len(l) : i \in 1..Len(m) /\ m[i] = l[i]
  BY <1>1, <1>7
<1>9. \/ status'[b] = 500 /\ hpc'[b] = "idle"
      \/ /\ Len(m) = Len(l) + 1 /\ m[Len(l) + 1] = h
         /\ \/ Len(q) = 1 /\ status'[b] = 200 /\ hpc'[b] = "idle"
            \/ /\ Len(q) # 1 /\ todo'[b] = Tail(q)
               /\ hpc'[b] = hpc[b] /\ status'[b] = status[b]
  <2>1. CASE log' = Published(b)
    <3>1. m = Append(l, h)
      BY <2>1 DEF Published, TypeOK
    <3>2. Len(m) = Len(l) + 1 /\ m[Len(l) + 1] = h
      BY <1>1, <1>5, <3>1, AppendProperties
    <3> QED
      BY <3>2 DEF PublishEvent, Answer, TypeOK
  <2>2. CASE log' # Published(b)
    BY <2>2 DEF PublishEvent, Answer, TypeOK
  <2> QED
    BY <2>1, <2>2
<1> HIDE DEF l, m, q, h, p
<1>10. FromBatch(b)'
  <2>1. \A j \in 1..Len(l) : \E x \in EventsOf(b), u \in 1..clock : l[j] = EventAt(b, x, u)
    BY DEF BatchInv, FromBatch, l
  <2>2. \E x \in EventsOf(b), u \in 1..clock : h = EventAt(b, x, u)
    BY <1>2, <1>3, <1>5
  <2>3. \A j \in 1..Len(m) : \E x \in EventsOf(b), u \in 1..clock : m[j] = EventAt(b, x, u)
    <3> TAKE j \in 1..Len(m)
    <3>1. CASE j \in 1..Len(l)
      BY <1>8, <2>1, <3>1
    <3>2. CASE j \notin 1..Len(l)
      <4>1. m[j] = h
        BY <1>1, <1>7, <1>8, <3>2 DEF l
      <4> QED
        BY <2>2, <4>1
    <3> QED
      BY <3>1, <3>2
  <2> QED
    BY <1>1, <2>3 DEF FromBatch, m
<1>11. DoneAfterResponse(b)'
  <2>1. \A j \in 1..Len(l) : l[j].kind = "agent.done" =>
           \E i \in 1..(j - 1) : l[i].kind = "llm.response" /\ l[i].rec = l[j].rec
    BY DEF BatchInv, DoneAfterResponse, l
  <2>2. ASSUME NEW j \in 1..Len(m), m[j].kind = "agent.done"
        PROVE  \E i \in 1..(j - 1) : m[i].kind = "llm.response" /\ m[i].rec = m[j].rec
    <3>1. Len(l) \in Nat
      BY <1>1 DEF l
    <3>2. CASE j \in 1..Len(l)
      <4>1. PICK i \in 1..(j - 1) : l[i].kind = "llm.response" /\ l[i].rec = l[j].rec
        BY <1>8, <2>1, <2>2, <3>2
      <4>2. i \in 1..Len(l)
        BY <3>1, <3>2
      <4> QED
        BY <1>8, <3>2, <4>1, <4>2
    <3>3. CASE j \notin 1..Len(l)
      <4>1. m[j] = h /\ j = Len(l) + 1
        BY <1>7, <1>8, <3>1, <3>3
      <4>2. PICK i \in 1..k : p[i].kind = "llm.response" /\ p[i].rec = h.rec
        <5>1. p[k + 1].kind = "agent.done" /\ k + 1 \in 1..Len(p) /\ (k + 1) - 1 = k
          BY <1>4, <1>5, <2>2, <4>1
        <5> QED
          BY <1>3, <1>5, <5>1
      <4>3. PICK n \in 1..Len(l) : l[n] = p[i]
        BY <1>4
      <4>4. n \in 1..(j - 1)
        BY <3>1, <4>1
      <4> QED
        BY <1>8, <4>1, <4>2, <4>3, <4>4
    <3> QED
      BY <3>2, <3>3
  <2> QED
    BY <2>2 DEF DoneAfterResponse, m
<1>12. ASSUME Len(m) = Len(l) + 1, m[Len(l) + 1] = h
       PROVE  \A i \in 1..(k + 1) : \E j \in 1..Len(m) : m[j] = p[i]
  <2> TAKE i \in 1..(k + 1)
  <2>1. CASE i \in 1..k
    BY <1>4, <1>8, <2>1
  <2>2. CASE i = k + 1
    BY <1>1, <1>5, <1>12, <2>2 DEF l
  <2> QED
    BY <1>4, <2>1, <2>2
<1>13. Accepted(b)'
  <2> SUFFICES ASSUME status'[b] = 200, NEW x \in EventsOf(b) PROVE Out(b, x)'
    BY DEF Accepted
  <2> SUFFICES \E j \in 1..Len(m) : m[j].kind = EventAt(b, x, 0).kind /\ m[j].rec = x[1]
    BY DEF Out, m
  <2>1. CASE status[b] = 200
    <3>1. \E j \in 1..Len(l) : l[j].kind = EventAt(b, x, 0).kind /\ l[j].rec = x[1]
      BY <2>1 DEF BatchInv, Accepted, Out, l
    <3> QED
      BY <1>8, <3>1
  <2>2. CASE status[b] # 200
    <3>1. Len(m) = Len(l) + 1 /\ m[Len(l) + 1] = h /\ Len(q) = 1
      BY <1>9, <2>2
    <3>2. k + 1 = Len(p)
      <4>1. Len(p) \in Nat
        BY <1>3
      <4>2. k \in Nat /\ Len(q) = Len(p) - k
        BY <1>4
      <4>3. ASSUME NEW a \in Nat, NEW c \in Nat, 1 = a - c PROVE c + 1 = a
        BY <4>3
      <4>4. 1 = Len(p) - k
        BY <3>1, <4>2
      <4> QED
        BY <4>1, <4>2, <4>3, <4>4
    <3>3. PICK n \in 1..Len(p) : p[n] = EventAt(b, x, t)
      BY <1>3
    <3>4. PICK j \in 1..Len(m) : m[j] = p[n]
      BY <1>12, <3>1, <3>2
    <3>5. EventAt(b, x, t).kind = EventAt(b, x, 0).kind /\ EventAt(b, x, t).rec = x[1]
      BY DEF EventAt
    <3> QED
      BY <3>3, <3>4, <3>5
  <2> QED
    BY <2>1, <2>2
<1>14. Publishing(b)'
  <2> SUFFICES ASSUME hpc'[b] = "publish"
               PROVE  \E u \in 1..clock' : \E n \in 0..Cardinality(EventsOf(b)) : Rest(b, u, n)'
    BY <1>6 DEF Publishing
  <2>1. /\ Len(m) = Len(l) + 1 /\ m[Len(l) + 1] = h
        /\ Len(q) # 1 /\ todo'[b] = Tail(q)
    BY <1>9
  <2>2. /\ k + 1 < Len(p) /\ Len(Tail(q)) = Len(p) - (k + 1)
        /\ \A i \in 1..Len(Tail(q)) : Tail(q)[i] = p[(k + 1) + i]
    <3>1. Len(q) \in Nat /\ Len(q) > 1
      BY <1>3, <1>4, <2>1
    <3>2. \A i \in 1..(Len(q) - 1) : i + 1 \in 1..Len(q) /\ Tail(q)[i] = p[k + (i + 1)]
      BY <1>4, <1>5, <3>1
    <3>3. Len(p) \in Nat /\ k \in Nat /\ Len(q) = Len(p) - k /\ Len(Tail(q)) = Len(q) - 1
      BY <1>3, <1>4, <1>5
    <3>4. k + 1 < Len(p) /\ Len(Tail(q)) = Len(p) - (k + 1)
      BY <3>1, <3>3
    <3>5. ASSUME NEW i \in 1..Len(Tail(q))
          PROVE  Tail(q)[i] = p[(k + 1) + i]
      <4>1. i \in 1..(Len(q) - 1) /\ k + (i + 1) = (k + 1) + i
        BY <3>1, <3>3
      <4> QED
        BY <3>2, <4>1
    <3> QED
      BY <3>4, <3>5
  <2>3. \A i \in 1..(k + 1) : \E j \in 1..Len(m) : m[j] = p[i]
    BY <1>12, <2>1
  <2>4. PICK n \in Nat : n = k + 1
    BY <1>4
  <2>5. Rest(b, t, n)'
    BY <2>1, <2>2, <2>3, <2>4 DEF Rest, m, p
  <2>6. n \in 0..Cardinality(EventsOf(b))
    <3>1. Len(p) = Cardinality(EventsOf(b))
      BY FinitelyManyEvents, LenProperties, <1>3 DEF p, NormalizePayload
    <3> QED
      BY <1>3, <1>4, <2>2, <2>4, <3>1
  <2> QED
    BY <1>1, <2>5, <2>6
<1> QED
  BY <1>6, <1>10, <1>11, <1>13, <1>14 DEF BatchInv

(* Inv is inductive.                                                       *)
LEMMA InvInit == Init => Inv
<1> SUFFICES ASSUME Init PROVE Inv
  OBVIOUS
<1>1. TypeOK
  <2>1. <<>> \in Seq(EventType)
    BY EmptySeq
  <2> QED
    BY <2>1, GeminiAssumption DEF Init, TypeOK
<1>2. ASSUME NEW b \in Batches PROVE BatchInv(b)
  <2>1. log[b] = <<>> /\ Len(log[b]) = 0 /\ hpc[b] = "idle" /\ status[b] = 0
    BY EmptySeq DEF Init
  <2> QED
    BY <2>1 DEF BatchInv, FromBatch, Publishing, Accepted, DoneAfterResponse
<1> QED
  BY <1>1, <1>2 DEF Inv

(* A step of one batch, of the clock or of the session keeps Inv.          *)
LEMMA InvStep == Inv /\ [Next]_vars => Inv'
<1> SUFFICES ASSUME Inv, [Next]_vars PROVE Inv'
  OBVIOUS
<1>0. TypeOK /\ clock \in Nat
  BY GeminiAssumption DEF Inv, TypeOK
<1>1. ASSUME NEW b \in Batches,
             \/ Export(b) \/ LoseAnswer(b) \/ ReadBodyFails(b)
             \/ HandlePayload(b) \/ PublishEvent(b)
      PROVE  Inv'
  <2>1. TypeOK'
    BY <1>0, <1>1, HandlerKeepsTypes
  <2>2. clock' = clock
    BY <1>1 DEF Export, LoseAnswer, ReadBodyFails, HandlePayload, PublishEvent
  <2>3. ASSUME NEW d \in Batches, d # b PROVE BatchInv(d)'
    <3>1. /\ log'[d] = log[d] /\ todo'[d] = todo[d]
          /\ hpc'[d] = hpc[d] /\ status'[d] = status[d]
      <4>1. CASE PublishEvent(b)
        <5>1. Published(b)[d] = log[d]
          BY <1>0, <2>3 DEF Published, TypeOK
        <5> QED
          BY <1>0, <2>3, <4>1, <5>1 DEF PublishEvent, Answer, TypeOK
      <4>2. CASE ~PublishEvent(b)
        BY <1>0, <1>1, <2>3, <4>2
        DEF Export, LoseAnswer, ReadBodyFails, HandlePayload, Answer, TypeOK
      <4> QED
        BY <4>1, <4>2
    <3> QED
      BY <1>0, <2>2, <3>1, Untouched DEF Inv
  <2>4. BatchInv(b)'
    <3>1. CASE HandlePayload(b)
      BY <1>0, <3>1, HandleKeeps DEF Inv
    <3>2. CASE PublishEvent(b)
      BY <1>0, <3>2, PublishKeeps DEF Inv
    <3>3. CASE Export(b) \/ LoseAnswer(b) \/ ReadBodyFails(b)
      <4>1. log'[b] = log[b]
        BY <3>3 DEF Export, LoseAnswer, ReadBodyFails
      <4>2. hpc'[b] # "publish" /\ (status'[b] = 200 => status[b] = 200)
        <5>1. Refusal(Post[b]) # 200
          BY DEF Refusal
        <5> QED
          BY <1>0, <3>3, <5>1 DEF Export, LoseAnswer, ReadBodyFails, Answer, TypeOK
      <4> QED
        BY <2>2, <4>1, <4>2
        DEF Inv, BatchInv, FromBatch, Publishing, Accepted, Out, DoneAfterResponse
    <3> QED
      BY <1>1, <3>1, <3>2, <3>3
  <2> QED
    BY <2>1, <2>3, <2>4 DEF Inv
<1>2. CASE Tick \/ ProviderExits \/ Stop \/ Shutdown \/ UNCHANGED vars
  <2>1. TypeOK'
    BY <1>0, <1>2, GeminiAssumption DEF Tick, ProviderExits, Stop, Shutdown, vars, TypeOK
  <2>2. /\ log' = log /\ todo' = todo /\ hpc' = hpc /\ status' = status
        /\ clock' \in {clock, clock + 1}
    BY <1>2 DEF Tick, ProviderExits, Stop, Shutdown, vars
  <2>3. ASSUME NEW d \in Batches PROVE BatchInv(d)'
    BY <1>0, <2>2, Untouched DEF Inv
  <2> QED
    BY <2>1, <2>3 DEF Inv
<1> QED
  BY <1>1, <1>2 DEF Next

(* The inductive invariant holds of every behaviour of the collector.      *)
THEOREM InvHolds == Spec => []Inv
BY InvInit, InvStep, PTL DEF Spec

(* An accepted batch is published whole, a payload that cannot be          *)
(* normalised not at all, and agent.done after its llm.response, however   *)
(* often the exporter posts and whatever fails.                            *)
THEOREM AcceptedBatchIsPublished == Spec => []BatchIsPublished
<1>1. Inv => BatchIsPublished
  <2> SUFFICES ASSUME Inv PROVE BatchIsPublished
    OBVIOUS
  <2>1. AcceptedIsPublished
    <3> SUFFICES ASSUME NEW b \in Batches, status[b] = 200,
                        NEW i \in 1..Len(NormalizePayload(b, clock))
                 PROVE  \E j \in 1..Len(log[b]) :
                          /\ log[b][j].kind = NormalizePayload(b, clock)[i].kind
                          /\ log[b][j].rec = NormalizePayload(b, clock)[i].rec
      BY DEF AcceptedIsPublished
    <3>1. clock \in Nat
      BY GeminiAssumption DEF Inv, TypeOK
    <3>2. PICK x \in EventsOf(b) : NormalizePayload(b, clock)[i] = EventAt(b, x, clock)
      BY <3>1, NormalizedPayload
    <3>3. Out(b, x)
      BY DEF Inv, BatchInv, Accepted
    <3>4. EventAt(b, x, clock).kind = EventAt(b, x, 0).kind /\ EventAt(b, x, clock).rec = x[1]
      BY DEF EventAt
    <3> QED
      BY <3>2, <3>3, <3>4 DEF Out
  <2>2. AllOrNothing
    BY DEF Inv, BatchInv, AllOrNothing
  <2>3. ResponseBeforeDone
    BY DEF Inv, BatchInv, DoneAfterResponse, ResponseBeforeDone
  <2> QED
    BY <2>1, <2>2, <2>3 DEF Inv, BatchIsPublished
<1> QED
  BY <1>1, InvHolds, PTL

(* A record with a time of its own makes the same events every time its    *)
(* batch is posted.                                                        *)
THEOREM RepetitionIsSame == Spec => []RepeatedIsSame
<1>1. Inv => RepeatedIsSame
  <2> SUFFICES ASSUME Inv, NEW b \in Batches,
                      NEW i \in 1..Len(log[b]), NEW j \in 1..Len(log[b]),
                      log[b][i].rec = log[b][j].rec, log[b][i].kind = log[b][j].kind,
                      RecordAt(b, log[b][i].rec).time # NoTime
               PROVE  log[b][i] = log[b][j]
    BY DEF RepeatedIsSame
  <2>1. PICK x \in EventsOf(b), t \in 1..clock : log[b][i] = EventAt(b, x, t)
    BY DEF Inv, BatchInv, FromBatch
  <2>2. PICK y \in EventsOf(b), u \in 1..clock : log[b][j] = EventAt(b, y, u)
    BY DEF Inv, BatchInv, FromBatch
  <2>3. x[1] = y[1] /\ RecordAt(b, x[1]).time # NoTime
    BY <2>1, <2>2 DEF EventAt
  <2>4. EventAt(b, x, t).time = EventAt(b, y, u).time
    BY <2>3 DEF EventAt, TimestampOf
  <2> QED
    BY <2>1, <2>2, <2>3, <2>4 DEF EventAt
<1> QED
  BY <1>1, InvHolds, PTL

-----------------------------------------------------------------------------
(* The refinement of LoopbackServer.                                       *)

Handling == {b \in Batches : hpc[b] # "idle"}
Counted == [b \in Batches |-> Len(log[b])]

(* A step of a batch is, for LoopbackServer, an arrival, an event, the     *)
(* return of a handler, or nothing.                                        *)
LEMMA HandlerRefines ==
    ASSUME TypeOK, NEW b \in Batches,
           \/ Export(b) \/ LoseAnswer(b) \/ ReadBodyFails(b)
           \/ HandlePayload(b) \/ PublishEvent(b)
    PROVE  /\ session' = session
           /\ \/ /\ session = "open" /\ b \notin Handling
                 /\ Handling' = Handling \cup {b} /\ Counted' = Counted
              \/ /\ b \in Handling /\ Handling' \in {Handling, Handling \ {b}}
                 /\ Counted' = [Counted EXCEPT ![b] = @ + 1]
              \/ /\ b \in Handling /\ Handling' = Handling \ {b} /\ Counted' = Counted
              \/ Handling' = Handling /\ Counted' = Counted
<1>1. session' = session
  BY DEF Export, LoseAnswer, ReadBodyFails, HandlePayload, PublishEvent
<1>2. \A d \in Batches : d # b => hpc'[d] = hpc[d]
  BY DEF Export, LoseAnswer, ReadBodyFails, HandlePayload, PublishEvent, Answer, TypeOK
<1>3. CASE PublishEvent(b)
  <2>1. b \in Handling /\ Handling' \in {Handling, Handling \ {b}}
    BY <1>2, <1>3 DEF PublishEvent, Answer, TypeOK, Handling
  <2>2. CASE log' = Published(b)
    <3> DEFINE a == Append(log[b], Head(todo[b]))
    <3>1. todo[b] \in Seq(EventType) /\ todo[b] # <<>> /\ log[b] \in Seq(EventType)
      BY <1>3 DEF PublishEvent, TypeOK
    <3>2. Len(a) = Len(log[b]) + 1
      BY <3>1, NextOf, AppendProperties
    <3>3. log'[b] = a /\ \A d \in Batches : d # b => log'[d] = log[d]
      BY <2>2 DEF Published, TypeOK
    <3> HIDE DEF a
    <3>4. Counted' = [Counted EXCEPT ![b] = @ + 1]
      BY <3>2, <3>3 DEF Counted
    <3> QED
      BY <1>1, <2>1, <3>4
  <2>3. CASE log' # Published(b)
    <3>1. log' = log /\ Answer(b, 500)
      BY <1>3, <2>3 DEF PublishEvent
    <3>2. Handling' = Handling \ {b}
      BY <1>2, <3>1 DEF Answer, TypeOK, Handling
    <3> QED
      BY <1>1, <2>1, <3>1, <3>2 DEF Counted
  <2> QED
    BY <2>2, <2>3
<1>4. CASE Export(b)
  <2>1. Counted' = Counted /\ session = "open" /\ b \notin Handling
    BY <1>4 DEF Export, Counted, Handling
  <2>2. Handling' = Handling \/ Handling' = Handling \cup {b}
    BY <1>2, <1>4 DEF Export, Answer, TypeOK, Handling
  <2> QED
    BY <1>1, <2>1, <2>2
<1>5. CASE LoseAnswer(b)
  BY <1>1, <1>5 DEF LoseAnswer, Counted, Handling
<1>6. CASE ReadBodyFails(b) \/ HandlePayload(b)
  <2>1. Counted' = Counted /\ b \in Handling
    BY <1>6 DEF ReadBodyFails, HandlePayload, Counted, Handling
  <2>2. Handling' = Handling \/ Handling' = Handling \ {b}
    BY <1>2, <1>6 DEF ReadBodyFails, HandlePayload, Answer, TypeOK, Handling
  <2> QED
    BY <1>1, <2>1, <2>2
<1> QED
  BY <1>3, <1>4, <1>5, <1>6

(* The collector implements LoopbackServer: Close returns when no batch is *)
(* handled, and only a handled batch publishes.                            *)
THEOREM CollectorImplementsServer == Spec => ImplementsServer
<1>1. Init => Server!ServerInit
  <2> SUFFICES ASSUME Init PROVE Server!ServerInit
    OBVIOUS
  <2>1. Handling = {}
    BY DEF Init, Handling
  <2>2. Len(<<>>) = 0
    BY EmptySeq
  <2>3. Counted = [b \in Batches |-> 0]
    BY <2>2 DEF Init, Counted
  <2>4. session = "open"
    BY DEF Init
  <2> QED
    BY <2>1, <2>3, <2>4 DEF Server!ServerInit, Handling, Counted
<1>2. Inv /\ [Next]_vars => [Server!ServerNext]_Server!server_vars
  <2> SUFFICES ASSUME Inv, [Next]_vars
               PROVE  Server!ServerNext \/ UNCHANGED Server!server_vars
    BY DEF Server!server_vars
  <2>0. TypeOK
    BY DEF Inv
  <2>1. ASSUME NEW b \in Batches,
               \/ Export(b) \/ LoseAnswer(b) \/ ReadBodyFails(b)
               \/ HandlePayload(b) \/ PublishEvent(b)
        PROVE  Server!ServerNext \/ UNCHANGED Server!server_vars
    <3>1. session' = session
      BY <2>0, <2>1, HandlerRefines
    <3>2. CASE /\ session = "open" /\ b \notin Handling
               /\ Handling' = Handling \cup {b} /\ Counted' = Counted
      <4>1. Server!Accept(b)
        BY <3>1, <3>2 DEF Server!Accept, Handling, Counted
      <4> QED
        BY <4>1 DEF Server!ServerNext
    <3>3. CASE /\ b \in Handling /\ Handling' \in {Handling, Handling \ {b}}
               /\ Counted' = [Counted EXCEPT ![b] = @ + 1]
      <4>1. Server!Emit(b)
        BY <3>1, <3>3 DEF Server!Emit, Handling, Counted
      <4> QED
        BY <4>1 DEF Server!ServerNext
    <3>4. CASE b \in Handling /\ Handling' = Handling \ {b} /\ Counted' = Counted
      <4>1. Server!Return(b)
        BY <3>1, <3>4 DEF Server!Return, Handling, Counted
      <4> QED
        BY <4>1 DEF Server!ServerNext
    <3>5. CASE Handling' = Handling /\ Counted' = Counted
      BY <3>1, <3>5 DEF Server!server_vars, Handling, Counted
    <3> QED
      BY <2>0, <2>1, <3>2, <3>3, <3>4, <3>5, HandlerRefines
  <2>2. CASE Tick \/ ProviderExits \/ UNCHANGED vars
    <3>1. session' = session /\ hpc' = hpc /\ log' = log
      BY <2>2 DEF Tick, ProviderExits, vars
    <3> QED
      BY <3>1 DEF Server!server_vars
  <2>3. CASE Stop
    <3>1. /\ session = "open" /\ session' = "stopping"
          /\ Handling' = Handling /\ Counted' = Counted
      BY <2>3 DEF Stop, Handling, Counted
    <3>2. Server!Stop
      BY <3>1 DEF Server!Stop, Handling, Counted
    <3> QED
      BY <3>2 DEF Server!ServerNext
  <2>4. CASE Shutdown
    <3>1. /\ session = "stopping" /\ session' = "closed" /\ Handling = {}
          /\ Handling' = Handling /\ Counted' = Counted
      BY <2>4 DEF Shutdown, Handling, Counted
    <3>2. Server!Drained
      BY <3>1 DEF Server!Drained, Handling, Counted
    <3> QED
      BY <3>2 DEF Server!ServerNext
  <2> QED
    BY <2>1, <2>2, <2>3, <2>4 DEF Next
<1> QED
  BY <1>1, <1>2, InvHolds, PTL DEF Spec, ImplementsServer, Server!ServerSpec

(* A server that keeps the promise has no handler left when it is closed:  *)
(* only Drained closes it, and nothing is accepted after Stop.             *)
LEMMA ClosedServerIsIdle == Server!ServerSpec => []Server!ClosedIsIdle
<1>1. Server!ServerInit => Server!ClosedIsIdle
  BY DEF Server!ServerInit, Server!ClosedIsIdle
<1>2. Server!ClosedIsIdle /\ [Server!ServerNext]_Server!server_vars
        => Server!ClosedIsIdle'
  <2> SUFFICES ASSUME Server!ClosedIsIdle, [Server!ServerNext]_Server!server_vars
               PROVE  Server!ClosedIsIdle'
    OBVIOUS
  <2>1. CASE Server!Listen
    BY <2>1 DEF Server!Listen, Server!ClosedIsIdle
  <2>2. CASE Server!Stop
    BY <2>2 DEF Server!Stop, Server!ClosedIsIdle
  <2>3. CASE Server!Drained
    BY <2>3 DEF Server!Drained, Server!ClosedIsIdle
  <2>4. ASSUME NEW h \in Batches,
               Server!Accept(h) \/ Server!Emit(h) \/ Server!Return(h)
        PROVE  Server!ClosedIsIdle'
    BY <2>4 DEF Server!Accept, Server!Emit, Server!Return, Server!ClosedIsIdle
  <2>5. CASE UNCHANGED Server!server_vars
    BY <2>5 DEF Server!server_vars, Server!ClosedIsIdle
  <2> QED
    BY <2>1, <2>2, <2>3, <2>4, <2>5 DEF Server!ServerNext
<1> QED
  BY <1>1, <1>2, PTL DEF Server!ServerSpec

(* After Close has returned nothing of Gemini's telemetry is published.    *)
THEOREM ClosedCollectorIsSilent == Spec => Server!ClosedIsSilent
<1>1. Server!ClosedIsIdle /\ [Server!ServerNext]_Server!server_vars
        => Server!SilentStep \/ UNCHANGED Server!server_vars
  BY DEF Server!ClosedIsIdle, Server!SilentStep, Server!ServerNext, Server!server_vars,
         Server!Listen, Server!Accept, Server!Emit, Server!Return, Server!Stop,
         Server!Drained
<1> QED
  BY <1>1, ClosedServerIsIdle, CollectorImplementsServer, PTL
  DEF ImplementsServer, Server!ServerSpec, Server!ClosedIsSilent
=============================================================================
