------------------------- MODULE GatewaySessionProofs -------------------------
(***************************************************************************)
(* Proofs about GatewaySession: what the exchanges publish, in which       *)
(* order, and that the session implements LoopbackServer.                  *)
(***************************************************************************)
EXTENDS GatewaySession, SequenceTheorems, TLAPS

-----------------------------------------------------------------------------
(* The inductive invariant.  Of an exchange e, m events of the request and *)
(* n of the answer are out; what its hook still holds is the rest of its   *)
(* leg, unless the provider hung up or the bus failed.                     *)

Hurt(e) == gone[e] \/ e \in lossy

Shape(e, m, n) ==
    /\ log[e] = First(Leg(e, "request"), m) \o First(Leg(e, "response"), n)
    /\ hpc[e] \in {"none", "read", "dial"} => m = 0 /\ n = 0 /\ todo[e] = <<>>
    /\ hpc[e] = "onRequest" =>
         /\ n = 0
         /\ todo[e] = After(Leg(e, "request"), m) \/ (todo[e] = <<>> /\ Hurt(e))
    /\ hpc[e] = "onResponse" =>
         /\ m = Len(Leg(e, "request")) \/ Hurt(e)
         /\ todo[e] = After(Leg(e, "response"), n) \/ (todo[e] = <<>> /\ Hurt(e))
    /\ hpc[e] = "relay" =>
         m = 0 /\ (todo[e] = After(Leg(e, "response"), n) \/ todo[e] = <<>>)
    /\ answer[e] = "upstream" =>
         /\ hpc[e] = "done"
         /\ \/ Hurt(e)
            \/ m = Len(Leg(e, "request")) /\ n = Len(Leg(e, "response"))

Shaped(e) ==
    \E m \in 0..Len(Leg(e, "request")), n \in 0..Len(Leg(e, "response")) : Shape(e, m, n)

(* Only a hijacked exchange dials and relays.                              *)
Route(e) ==
    /\ hpc[e] \in {"dial", "relay"} => e \in Hijacked
    /\ hpc[e] \in {"read", "onRequest", "onResponse"} => e \notin Hijacked

Inv == TypeOK /\ \A e \in Exchanges : Shaped(e) /\ Route(e)

-----------------------------------------------------------------------------
(* Splitting a sequence after its first k elements: how PublishMany moves  *)
(* one event from what is to be published to what is.                      *)
LEMMA SplitSequence ==
    ASSUME NEW S, NEW s \in Seq(S), NEW k \in 0..Len(s)
    PROVE  /\ First(s, k) \in Seq(S)
           /\ After(s, k) \in Seq(S)
           /\ After(s, k) = <<>> <=> k = Len(s)
           /\ k < Len(s) => /\ Tail(After(s, k)) = After(s, k + 1)
                            /\ Head(After(s, k)) \in S
                            /\ Append(First(s, k), Head(After(s, k))) = First(s, k + 1)
           /\ First(s, 0) = <<>>
           /\ First(s, Len(s)) = s
           /\ After(s, 0) = s
<1> DEFINE n == Len(s)
<1>1. n \in Nat /\ \A i \in 1..n : s[i] \in S
  BY LenProperties, ElementOfSeq
<1>2. /\ First(s, k) \in Seq(S)
      /\ Len(First(s, k)) = k
      /\ \A i \in 1..k : First(s, k)[i] = s[i]
  BY <1>1, SubSeqProperties DEF First
<1>3. /\ After(s, k) \in Seq(S)
      /\ Len(After(s, k)) = n - k
      /\ \A i \in 1..(n - k) : After(s, k)[i] = s[k + i]
  BY <1>1, SubSeqProperties DEF After
<1>4. After(s, k) = <<>> <=> k = n
  BY <1>1, <1>3, EmptySeq
<1>5. ASSUME k < n
      PROVE  /\ Tail(After(s, k)) = After(s, k + 1)
             /\ Head(After(s, k)) \in S
             /\ Append(First(s, k), Head(After(s, k))) = First(s, k + 1)
  <2>1. /\ After(s, k + 1) \in Seq(S)
        /\ Len(After(s, k + 1)) = n - (k + 1)
        /\ \A i \in 1..(n - (k + 1)) : After(s, k + 1)[i] = s[k + 1 + i]
    <3>1. k + 1 \in 0..n
      BY <1>1, <1>5
    <3>2. \A i \in (k + 1 + 1)..n : s[i] \in S
      BY <1>1
    <3> QED
      BY <1>1, <3>1, <3>2, SubSeqProperties DEF After
  <2>2. /\ First(s, k + 1) \in Seq(S)
        /\ Len(First(s, k + 1)) = k + 1
        /\ \A i \in 1..(k + 1) : First(s, k + 1)[i] = s[i]
    BY <1>1, <1>5, SubSeqProperties DEF First
  <2>3. Head(After(s, k)) = s[k + 1]
    BY <1>1, <1>3, <1>5
  <2>4. /\ Tail(After(s, k)) \in Seq(S)
        /\ Len(Tail(After(s, k))) = n - (k + 1)
        /\ \A i \in 1..(n - (k + 1)) : Tail(After(s, k))[i] = s[k + 1 + i]
    BY <1>1, <1>3, <1>5, HeadTailProperties
  <2>5. Tail(After(s, k)) = After(s, k + 1)
    <3> DEFINE a == Tail(After(s, k))
               b == After(s, k + 1)
    <3>1. /\ a \in Seq(S) /\ b \in Seq(S)
          /\ Len(a) = Len(b)
          /\ \A i \in 1..Len(a) : a[i] = b[i]
      BY <1>1, <2>1, <2>4
    <3> HIDE DEF a, b
    <3>2. a = b
      BY <3>1, SeqEqual
    <3> QED
      BY <3>2 DEF a, b
  <2>6. Append(First(s, k), Head(After(s, k))) = First(s, k + 1)
    <3> DEFINE t == Append(First(s, k), s[k + 1])
    <3>1. s[k + 1] \in S
      BY <1>1, <1>5
    <3>2. /\ t \in Seq(S)
          /\ Len(t) = k + 1
          /\ \A i \in 1..(k + 1) : t[i] = s[i]
      BY <1>1, <1>2, <3>1, AppendProperties
    <3>3. t = First(s, k + 1)
      BY <1>1, <2>2, <3>2, SeqEqual
    <3> QED
      BY <2>3, <3>3
  <2>7. s[k + 1] \in S
    BY <1>1, <1>5
  <2> QED
    BY <2>3, <2>5, <2>6, <2>7
<1>6. First(s, 0) = <<>>
  BY SubSeqEmpty DEF First
<1>7. First(s, n) = s
  BY SubSeqFull DEF First
<1>8. After(s, 0) = s
  BY SubSeqFull DEF After
<1> QED
  BY <1>2, <1>3, <1>4, <1>5, <1>6, <1>7, <1>8

(* The events of a leg.                                                    *)
LEMMA LegIsSequence ==
    ASSUME adapter \in {"claude", "codex"}, NEW e \in Exchanges
    PROVE  /\ Leg(e, "request") \in Seq(Event)
           /\ Leg(e, "response") \in Seq(Event)
<1>1. /\ RequestEvts[adapter][e] \in Seq(STRING)
      /\ ResponseEvts[adapter][e] \in Seq(STRING)
  BY GatewayAssumption
<1>2. ASSUME NEW kinds \in Seq(STRING), NEW l \in {"request", "response"}
      PROVE  [i \in 1..Len(kinds) |-> <<l, kinds[i]>>] \in Seq(Event)
  <2>1. Len(kinds) \in Nat /\ \A i \in 1..Len(kinds) : kinds[i] \in STRING
    BY LenProperties, ElementOfSeq
  <2>2. \A i \in 1..Len(kinds) : <<l, kinds[i]>> \in Event
    BY <2>1 DEF Event
  <2> QED
    BY <2>1, <2>2, IsASeq
<1> QED
  BY <1>1, <1>2 DEF Leg

-----------------------------------------------------------------------------
(* The type invariant.                                                     *)

(* A step of an exchange keeps the types (the handlers of gateway.go and   *)
(* proxy.go).                                                              *)
LEMMA ExchangeKeepsTypes ==
    ASSUME TypeOK, NEW e \in Exchanges, Request(e) \/ Disconnect(e) \/ Handle(e)
    PROVE  TypeOK'
<1> USE GatewayAssumption
<1>1. Leg(e, "request") \in Seq(Event) /\ Leg(e, "response") \in Seq(Event)
  BY LegIsSequence DEF TypeOK
<1>2. CASE Request(e)
  BY <1>2 DEF Request, Goto, TypeOK, ends, InHook
<1>3. CASE Disconnect(e)
  BY <1>3 DEF Disconnect, TypeOK, ends, InHook
<1>4. CASE ReadRequest(e)
  BY <1>1, <1>4 DEF ReadRequest, Answer, Goto, TypeOK, ends, InHook
<1>5. CASE PublishEvent(e)
  <2>1. Head(todo[e]) \in Event /\ Tail(todo[e]) \in Seq(Event)
    BY <1>5, HeadTailProperties DEF PublishEvent, TypeOK
  <2>2. Append(log[e], Head(todo[e])) \in Seq(Event)
    BY <2>1, AppendProperties DEF TypeOK
  <2>3. Published(e) \in [Exchanges -> Seq(Event)]
    BY <2>2 DEF Published, TypeOK
  <2>4. log' \in [Exchanges -> Seq(Event)]
    BY <1>5, <2>3 DEF PublishEvent, TypeOK
  <2>5. todo' \in [Exchanges -> Seq(Event)]
    <3>1. PICK v \in {<<>>, Tail(todo[e])} : todo' = [todo EXCEPT ![e] = v]
      BY <1>5 DEF PublishEvent, TypeOK
    <3>2. v \in Seq(Event) /\ todo \in [Exchanges -> Seq(Event)]
      BY <2>1, EmptySeq DEF TypeOK
    <3> QED
      BY <3>1, <3>2
  <2>6. \A d \in Exchanges : todo'[d] # <<>> => InHook(d)'
    BY <1>5 DEF PublishEvent, TypeOK, InHook
  <2>7. faults' \in 0..MaxFaults /\ lossy' \subseteq Exchanges
    BY <1>5 DEF PublishEvent, Fault, TypeOK
  <2> QED
    BY <1>5, <2>4, <2>5, <2>6, <2>7 DEF PublishEvent, TypeOK, ends
<1>6. CASE Forward(e)
  BY <1>1, <1>6 DEF Forward, Answer, Goto, TypeOK, ends, InHook
<1>7. CASE Reply(e)
  BY <1>7 DEF Reply, Answer, Goto, TypeOK, ends, InHook
<1>8. CASE Upgrade(e)
  BY <1>8 DEF Upgrade, Answer, Goto, TypeOK, ends, InHook
<1>9. CASE RelayFrame(e)
  BY <1>1, <1>9 DEF RelayFrame, TypeOK, ends, InHook
<1>10. CASE RelayEnds(e)
  BY <1>10 DEF RelayEnds, Goto, TypeOK, ends, InHook
<1> QED
  BY <1>2, <1>3, <1>4, <1>5, <1>6, <1>7, <1>8, <1>9, <1>10 DEF Handle

(* A step of the session keeps the types and leaves the exchanges alone    *)
(* (Prepare, Serve, Close, and the exit of the provider).                  *)
LEMMA SessionLeavesExchanges ==
    ASSUME TypeOK,
           \/ Prepare \/ ServeFails \/ ProviderExits
           \/ Stop \/ Shutdown \/ CloseTimesOut \/ UNCHANGED vars
    PROVE  TypeOK' /\ adapter' = adapter /\ UNCHANGED exchange_vars
<1> USE GatewayAssumption
<1>1. CASE Prepare
  BY <1>1 DEF Prepare, Fault, TypeOK, exchange_vars, InHook
<1>2. CASE ServeFails
  BY <1>2 DEF ServeFails, Fault, TypeOK, exchange_vars, InHook
<1>3. CASE ProviderExits
  BY <1>3 DEF ProviderExits, TypeOK, exchange_vars, InHook
<1>4. CASE Stop
  BY <1>4 DEF Stop, TypeOK, exchange_vars, InHook
<1>5. CASE Shutdown
  BY <1>5 DEF Shutdown, TypeOK, exchange_vars, InHook
<1>6. CASE CloseTimesOut
  BY <1>6 DEF CloseTimesOut, TypeOK, exchange_vars, InHook
<1>7. CASE UNCHANGED vars
  BY <1>7 DEF vars, TypeOK, exchange_vars, InHook
<1> QED
  BY <1>1, <1>2, <1>3, <1>4, <1>5, <1>6, <1>7

-----------------------------------------------------------------------------
(* What the exchanges publish.                                             *)

(* An exchange whose handler does not move keeps its shape, also when its  *)
(* connection ends meanwhile.                                              *)
LEMMA StandingStill ==
    ASSUME NEW d \in Exchanges, Shaped(d), Route(d),
           adapter' = adapter, hpc'[d] = hpc[d], todo'[d] = todo[d],
           log'[d] = log[d], answer'[d] = answer[d],
           Hurt(d) => Hurt(d)'
    PROVE  Shaped(d)' /\ Route(d)'
<1>1. Leg(d, "request")' = Leg(d, "request") /\ Leg(d, "response")' = Leg(d, "response")
  BY DEF Leg
<1>2. PICK m \in 0..Len(Leg(d, "request")), n \in 0..Len(Leg(d, "response")) : Shape(d, m, n)
  BY DEF Shaped
<1>3. Shape(d, m, n)'
  BY <1>1, <1>2 DEF Shape
<1>4. Shaped(d)'
  BY <1>1, <1>3 DEF Shaped
<1>5. Route(d)'
  BY DEF Route, Hijacked
<1> QED
  BY <1>4, <1>5

(* A step of the handler of e moves no other exchange.                     *)
LEMMA OthersStandStill ==
    ASSUME TypeOK, NEW e \in Exchanges, Request(e) \/ Disconnect(e) \/ Handle(e),
           NEW d \in Exchanges, d # e
    PROVE  /\ adapter' = adapter /\ hpc'[d] = hpc[d] /\ todo'[d] = todo[d]
           /\ log'[d] = log[d] /\ answer'[d] = answer[d]
           /\ Hurt(d)' = Hurt(d)
<1>1. CASE PublishEvent(e)
  <2>1. Published(e)[d] = log[d]
    BY DEF Published, TypeOK
  <2> QED
    BY <1>1, <2>1 DEF PublishEvent, ends, TypeOK, Hurt
<1>2. CASE ~PublishEvent(e)
  BY <1>2 DEF Handle, Request, Disconnect, ReadRequest, Forward, Reply, Upgrade,
              RelayFrame, RelayEnds, Goto, Answer, ends, TypeOK, Hurt
<1> QED
  BY <1>1, <1>2

(* PublishEvent moves the next event of the leg to the log.  The event is  *)
(* out in both outcomes but one, in which e is lossy and its hook done.    *)
LEMMA PublishKeepsShape ==
    ASSUME TypeOK, NEW e \in Exchanges, Shaped(e), Route(e), PublishEvent(e)
    PROVE  Shaped(e)' /\ Route(e)'
<1> DEFINE Q == Leg(e, "request")
           P == Leg(e, "response")
<1>1. Q' = Q /\ P' = P
  BY DEF PublishEvent, ends, Leg
<1>2. Q \in Seq(Event) /\ P \in Seq(Event)
  BY LegIsSequence DEF TypeOK
<1>3. Route(e)'
  BY DEF PublishEvent, ends, Route, Hijacked
<1>4. PICK m \in 0..Len(Q), n \in 0..Len(P) : Shape(e, m, n)
  BY DEF Shaped
<1>5. /\ InHook(e) /\ todo[e] # <<>> /\ hpc'[e] = hpc[e]
      /\ answer'[e] = answer[e] /\ answer[e] # "upstream"
      /\ Hurt(e) => Hurt(e)'
  BY <1>4 DEF PublishEvent, Shape, Hurt, InHook
<1>6. /\ First(Q, m) \in Seq(Event) /\ First(P, n) \in Seq(Event)
      /\ First(P, 0) = <<>> /\ First(Q, 0) = <<>>
      /\ Len(Q) \in Nat /\ Len(P) \in Nat
  <2>1. 0 \in 0..Len(Q) /\ 0 \in 0..Len(P) /\ Len(Q) \in Nat /\ Len(P) \in Nat
    BY <1>2, LenProperties
  <2> QED
    BY <1>2, <1>4, <2>1, SplitSequence
<1>7. \/ log'[e] = log[e] /\ todo'[e] = <<>> /\ Hurt(e)'
      \/ /\ log'[e] = Append(log[e], Head(todo[e]))
         /\ \/ todo'[e] = Tail(todo[e])
            \/ todo'[e] = <<>> /\ Hurt(e)'
  BY DEF PublishEvent, Published, TypeOK, Hurt
<1>8. CASE log'[e] = log[e] /\ todo'[e] = <<>> /\ Hurt(e)'
  <2>1. Shape(e, m, n)'
    BY <1>1, <1>4, <1>5, <1>8 DEF Shape, InHook
  <2> QED
    BY <1>1, <1>3, <1>4, <2>1 DEF Shaped
<1>9. CASE /\ log'[e] = Append(log[e], Head(todo[e]))
           /\ \/ todo'[e] = Tail(todo[e])
              \/ todo'[e] = <<>> /\ Hurt(e)'
  <2>1. CASE hpc[e] = "onRequest"
    <3>1. n = 0 /\ todo[e] = After(Q, m)
      BY <1>4, <1>5, <2>1 DEF Shape
    <3>2. m < Len(Q) /\ Tail(After(Q, m)) = After(Q, m + 1)
          /\ Append(First(Q, m), Head(After(Q, m))) = First(Q, m + 1)
      <4> HIDE DEF Q, P
      <4>1. After(Q, m) # <<>>
        BY <1>5, <3>1
      <4>2. m # Len(Q)
        BY <1>2, <1>4, <4>1, SplitSequence
      <4>3. m < Len(Q)
        BY <1>4, <1>6, <4>2
      <4> QED
        BY <1>2, <1>4, <4>3, SplitSequence
    <3>3. log[e] = First(Q, m)
      BY <1>4, <1>6, <3>1, ConcatEmptySeq DEF Shape
    <3>4. m + 1 \in 0..Len(Q) /\ First(Q, m + 1) \in Seq(Event)
      <4> HIDE DEF Q
      <4>1. PICK k \in 0..Len(Q) : k = m + 1
        BY <1>4, <1>6, <3>2
      <4>2. First(Q, k) \in Seq(Event)
        BY <1>2, SplitSequence
      <4> QED
        BY <4>1, <4>2
    <3>5. log'[e] = First(Q, m + 1) \o First(P, 0)
      BY <1>6, <1>9, <3>1, <3>2, <3>3, <3>4, ConcatEmptySeq
    <3>6. Shape(e, m + 1, 0)'
      BY <1>1, <1>5, <1>9, <2>1, <3>1, <3>2, <3>5 DEF Shape
    <3> QED
      BY <1>1, <1>3, <1>4, <3>1, <3>4, <3>6 DEF Shaped
  <2>2. CASE hpc[e] \in {"onResponse", "relay"}
    <3>1. todo[e] = After(P, n)
      BY <1>4, <1>5, <2>2 DEF Shape
    <3>2. n < Len(P) /\ Tail(After(P, n)) = After(P, n + 1)
          /\ Head(After(P, n)) \in Event
          /\ Append(First(P, n), Head(After(P, n))) = First(P, n + 1)
      <4> HIDE DEF Q, P
      <4>1. After(P, n) # <<>>
        BY <1>5, <3>1
      <4>2. n # Len(P)
        BY <1>2, <1>4, <4>1, SplitSequence
      <4>3. n < Len(P)
        BY <1>4, <1>6, <4>2
      <4> QED
        BY <1>2, <1>4, <4>3, SplitSequence
    <3>3. n + 1 \in 0..Len(P)
      BY <1>4, <1>6, <3>2
    <3>4. log'[e] = First(Q, m) \o First(P, n + 1)
      <4> DEFINE x == Head(After(P, n))
      <4>1. log[e] = First(Q, m) \o First(P, n)
        BY <1>4 DEF Shape
      <4>2. log'[e] = Append(First(Q, m) \o First(P, n), x)
        BY <1>9, <3>1, <4>1
      <4> HIDE DEF x
      <4>3. x \in Event
        BY <3>2 DEF x
      <4>4. Append(First(Q, m) \o First(P, n), x) = First(Q, m) \o Append(First(P, n), x)
        <5>1. ASSUME NEW a \in Seq(Event), NEW b \in Seq(Event)
              PROVE  Append(a \o b, x) = a \o Append(b, x)
          <6>1. <<x>> \in Seq(Event) /\ a \o b \in Seq(Event)
            BY <4>3, ConcatProperties
          <6>2. Append(a \o b, x) = (a \o b) \o <<x>> /\ Append(b, x) = b \o <<x>>
            BY <4>3, <6>1, AppendIsConcat
          <6>3. (a \o b) \o <<x>> = a \o (b \o <<x>>)
            BY <6>1, ConcatAssociative
          <6> QED
            BY <6>2, <6>3
        <5> QED
          BY <1>6, <5>1
      <4> QED
        BY <3>2, <4>2, <4>4 DEF x
    <3>5. Shape(e, m, n + 1)'
      BY <1>1, <1>4, <1>5, <1>9, <2>2, <3>1, <3>2, <3>4 DEF Shape
    <3> QED
      BY <1>1, <1>3, <1>4, <3>3, <3>5 DEF Shaped
  <2> QED
    BY <1>5, <2>1, <2>2 DEF InHook
<1> QED
  BY <1>7, <1>8, <1>9

(* The other steps of a handler: ReadRequest and Forward give its hook the *)
(* whole of a leg, Reply comes only when the hook is through.              *)
LEMMA HandlerKeepsShape ==
    ASSUME TypeOK, NEW e \in Exchanges, Shaped(e), Route(e),
           Request(e) \/ Disconnect(e) \/ Handle(e)
    PROVE  Shaped(e)' /\ Route(e)'
<1> DEFINE Q == Leg(e, "request")
           P == Leg(e, "response")
<1>1. CASE PublishEvent(e)
  BY <1>1, PublishKeepsShape
<1>2. CASE Disconnect(e)
  BY <1>2, StandingStill DEF Disconnect, ends, TypeOK, Hurt
<1>3. ASSUME ~PublishEvent(e), ~Disconnect(e)
      PROVE  Shaped(e)' /\ Route(e)'
  <2>1. adapter' = adapter /\ log' = log /\ gone' = gone /\ lossy' = lossy
    BY <1>3 DEF Handle, Request, ReadRequest, Forward, Reply, Upgrade, RelayFrame,
                RelayEnds, ends
  <2>2. Q' = Q /\ P' = P /\ Hijacked' = Hijacked /\ Hurt(e)' = Hurt(e)
    BY <2>1 DEF Leg, Hijacked, Hurt
  <2>3. Q \in Seq(Event) /\ P \in Seq(Event)
    BY LegIsSequence DEF TypeOK
  <2>4. Len(Q) \in Nat /\ Len(P) \in Nat
    BY <2>3, LenProperties
  <2>5. /\ After(Q, 0) = Q /\ After(P, 0) = P
        /\ First(Q, 0) = <<>> /\ First(P, 0) = <<>>
    <3>1. 0 \in 0..Len(Q) /\ 0 \in 0..Len(P)
      BY <2>4
    <3> QED
      BY <2>3, <3>1, SplitSequence
  <2>6. PICK m \in 0..Len(Q), n \in 0..Len(P) : Shape(e, m, n)
    BY DEF Shaped
  <2>7. /\ After(Q, m) = <<>> <=> m = Len(Q)
        /\ After(P, n) = <<>> <=> n = Len(P)
        /\ First(Q, m) \in Seq(Event) /\ First(P, n) \in Seq(Event)
        /\ Len(First(Q, m)) = m /\ Len(First(P, n)) = n
    <3>1. \A i \in 1..m : Q[i] \in Event
      BY <2>3, <2>4, <2>6, ElementOfSeq
    <3>2. \A i \in 1..n : P[i] \in Event
      BY <2>3, <2>4, <2>6, ElementOfSeq
    <3>3. Len(First(Q, m)) = m /\ Len(First(P, n)) = n
      BY <2>4, <2>6, <3>1, <3>2, SubSeqProperties DEF First
    <3> QED
      BY <2>3, <2>6, <3>3, SplitSequence
  <2>8. SUFFICES Shape(e, m, n)' /\ Route(e)'
    BY <2>2, <2>6 DEF Shaped
  <2> HIDE DEF Q, P
  <2>9. CASE Request(e)
    BY <2>1, <2>2, <2>6, <2>9 DEF Request, Goto, ends, TypeOK, Shape, Route, Q, P
  <2>10. CASE ReadRequest(e)
    BY <2>1, <2>2, <2>5, <2>6, <2>10 DEF ReadRequest, Answer, Goto, ends, TypeOK, Shape, Route, Q, P
  <2>11. CASE Forward(e)
    <3>1. n = 0 /\ (m = Len(Q) \/ Hurt(e))
      BY <2>6, <2>7, <2>11 DEF Forward, Shape, Q, P
    <3> QED
      BY <2>1, <2>2, <2>5, <2>6, <2>11, <3>1
      DEF Forward, Answer, Goto, ends, TypeOK, Shape, Route, Q, P
  <2>12. CASE Reply(e)
    <3>1. Hurt(e) \/ (m = Len(Q) /\ n = Len(P))
      BY <2>6, <2>7, <2>12 DEF Reply, Shape, Q, P
    <3> QED
      BY <2>1, <2>2, <2>6, <2>12, <3>1
      DEF Reply, Answer, Goto, ends, TypeOK, Shape, Route, Q, P
  <2>13. CASE Upgrade(e)
    BY <2>1, <2>2, <2>6, <2>13 DEF Upgrade, Answer, Goto, ends, TypeOK, Shape, Route, Q, P
  <2>14. CASE RelayFrame(e)
    <3>1. m = 0 /\ n = 0
      <4>1. Len(First(Q, m) \o First(P, n)) = m + n
        BY <2>7, ConcatProperties
      <4>2. First(Q, m) \o First(P, n) = <<>>
        BY <2>6, <2>14 DEF RelayFrame, Shape, Q, P
      <4> QED
        BY <2>4, <2>6, <4>1, <4>2
    <3> QED
      BY <2>1, <2>2, <2>5, <2>6, <2>14, <3>1 DEF RelayFrame, ends, TypeOK, Shape, Route, Q, P
  <2>15. CASE RelayEnds(e)
    BY <2>1, <2>2, <2>6, <2>15 DEF RelayEnds, Goto, ends, TypeOK, Shape, Route, Q, P
  <2> QED
    BY <1>3, <2>9, <2>10, <2>11, <2>12, <2>13, <2>14, <2>15 DEF Handle
<1> QED
  BY <1>1, <1>2, <1>3

(* Inv is inductive.                                                       *)
LEMMA InvInit == Init => Inv
<1> SUFFICES ASSUME Init PROVE Inv
  OBVIOUS
<1>1. TypeOK
  BY GatewayAssumption, EmptySeq DEF Init, TypeOK, InHook
<1>2. ASSUME NEW e \in Exchanges PROVE Shaped(e) /\ Route(e)
  <2> DEFINE Q == Leg(e, "request")
             P == Leg(e, "response")
  <2>1. Q \in Seq(Event) /\ P \in Seq(Event)
    BY <1>1, LegIsSequence DEF TypeOK
  <2>2. 0 \in 0..Len(Q) /\ 0 \in 0..Len(P)
    BY <2>1, LenProperties
  <2>3. First(Q, 0) = <<>> /\ First(P, 0) = <<>>
    BY <2>1, <2>2, SplitSequence
  <2>4. <<>> \o <<>> = <<>>
    BY EmptySeq, ConcatEmptySeq
  <2>5. Shape(e, 0, 0)
    BY <2>3, <2>4 DEF Init, Shape
  <2> QED
    BY <2>2, <2>5 DEF Shaped, Route, Init
<1> QED
  BY <1>1, <1>2 DEF Inv

(* A step of one exchange, or of the session, keeps Inv.                   *)
LEMMA InvStep == Inv /\ [Next]_vars => Inv'
<1> SUFFICES ASSUME Inv, [Next]_vars PROVE Inv'
  OBVIOUS
<1>1. ASSUME NEW e \in Exchanges, Request(e) \/ Disconnect(e) \/ Handle(e)
      PROVE  Inv'
  <2>1. TypeOK'
    BY <1>1, ExchangeKeepsTypes DEF Inv
  <2>2. Shaped(e)' /\ Route(e)'
    BY <1>1, HandlerKeepsShape DEF Inv
  <2>3. ASSUME NEW d \in Exchanges, d # e PROVE Shaped(d)' /\ Route(d)'
    <3>1. /\ adapter' = adapter /\ hpc'[d] = hpc[d] /\ todo'[d] = todo[d]
          /\ log'[d] = log[d] /\ answer'[d] = answer[d]
          /\ Hurt(d)' = Hurt(d)
      BY <1>1, <2>3, OthersStandStill DEF Inv
    <3> QED
      BY <3>1, StandingStill DEF Inv
  <2> QED
    BY <2>1, <2>2, <2>3 DEF Inv
<1>2. CASE \/ Prepare \/ ServeFails \/ ProviderExits
           \/ Stop \/ Shutdown \/ CloseTimesOut \/ UNCHANGED vars
  <2>1. TypeOK' /\ adapter' = adapter /\ UNCHANGED exchange_vars
    BY <1>2, SessionLeavesExchanges DEF Inv
  <2>2. ASSUME NEW d \in Exchanges PROVE Shaped(d)' /\ Route(d)'
    BY <2>1, StandingStill DEF Inv, exchange_vars, Hurt
  <2> QED
    BY <2>1, <2>2 DEF Inv
<1> QED
  BY <1>1, <1>2 DEF Next

(* Every behaviour of the session keeps the invariant.                     *)
THEOREM InvHolds == Spec => []Inv
BY InvInit, InvStep, PTL DEF Spec

(* Every behaviour of the session publishes in order: an answered exchange *)
(* has all of its events on the bus, and each leg is out as a prefix of    *)
(* what it says, whatever fails (gateway.go, handle; PublishMany).         *)
THEOREM PublishesInOrder == Spec => []PublishedInOrder
<1>1. Inv => PublishedInOrder
  <2> SUFFICES ASSUME Inv PROVE PublishedInOrder
    OBVIOUS
  <2>1. ASSUME NEW e \in Exchanges, answer[e] = "upstream", ~gone[e], e \notin lossy
        PROVE  log[e] = Leg(e, "request") \o Leg(e, "response")
    <3> DEFINE Q == Leg(e, "request")
               P == Leg(e, "response")
    <3>1. PICK m \in 0..Len(Q), n \in 0..Len(P) : Shape(e, m, n)
      BY DEF Inv, Shaped
    <3>2. m = Len(Q) /\ n = Len(P) /\ log[e] = First(Q, m) \o First(P, n)
      BY <2>1, <3>1 DEF Shape, Hurt
    <3>3. Q \in Seq(Event) /\ P \in Seq(Event)
      BY LegIsSequence DEF Inv, TypeOK
    <3>4. First(Q, Len(Q)) = Q /\ First(P, Len(P)) = P
      BY <3>1, <3>3, SplitSequence
    <3> QED
      BY <3>2, <3>4
  <2>2. LegsArePrefixes
    BY DEF Inv, Shaped, Shape, LegsArePrefixes
  <2> QED
    BY <2>1, <2>2 DEF Inv, PublishedInOrder, AnsweredIsPublished
<1> QED
  BY <1>1, InvHolds, PTL

-----------------------------------------------------------------------------
(* The refinement of LoopbackServer.                                       *)

HeldNow == {e \in Exchanges : Held(e)}
Counted == [e \in Exchanges |-> IF e \in Hijacked THEN 0 ELSE Len(log[e])]

(* A step of an exchange is, for LoopbackServer, the arrival of a request, *)
(* an event, the return of a handler, or nothing: only a request the       *)
(* server has accepted and not hijacked publishes.                         *)
LEMMA ExchangeRefines ==
    ASSUME Inv, NEW e \in Exchanges, Request(e) \/ Disconnect(e) \/ Handle(e)
    PROVE  /\ ServerState' = ServerState
           /\ \/ /\ ServerState = "up" /\ ~Held(e)
                 /\ HeldNow' = HeldNow \cup {e} /\ Counted' = Counted
              \/ /\ Held(e) /\ HeldNow' = HeldNow
                 /\ Counted' = [Counted EXCEPT ![e] = @ + 1]
              \/ /\ Held(e) /\ HeldNow' = HeldNow \ {e} /\ Counted' = Counted
              \/ HeldNow' = HeldNow /\ Counted' = Counted
<1>1. TypeOK /\ Route(e)
  BY DEF Inv
<1>2. session' = session /\ closeErr' = closeErr /\ Hijacked' = Hijacked
  BY DEF Handle, Request, Disconnect, ReadRequest, PublishEvent, Forward, Reply,
         Upgrade, RelayFrame, RelayEnds, ends, Hijacked
<1>3. ServerState' = ServerState
  BY <1>2 DEF ServerState
<1>4. CASE PublishEvent(e)
  <2>1. HeldNow' = HeldNow
    BY <1>4 DEF PublishEvent, HeldNow, Held, Active
  <2>2. CASE e \in Hijacked
    <3>1. \A d \in Exchanges : d \notin Hijacked => log'[d] = log[d]
      BY <1>1, <1>4, <2>2 DEF PublishEvent, Published, TypeOK
    <3> QED
      BY <1>2, <1>3, <2>1, <3>1 DEF Counted
  <2>3. CASE e \notin Hijacked
    <3>1. Held(e)
      BY <1>1, <1>4, <2>3 DEF PublishEvent, InHook, Route, Held, Active
    <3>2. CASE log' = log
      BY <1>2, <1>3, <2>1, <3>2 DEF Counted
    <3>3. CASE log' = Published(e)
      <4>1. Len(Append(log[e], Head(todo[e]))) = Len(log[e]) + 1
        BY <1>1, <1>4, HeadTailProperties, AppendProperties DEF PublishEvent, TypeOK
      <4>2. /\ log'[e] = Append(log[e], Head(todo[e]))
            /\ \A d \in Exchanges : d # e => log'[d] = log[d]
        BY <1>1, <3>3 DEF Published, TypeOK
      <4>3. Counted' = [Counted EXCEPT ![e] = @ + 1]
        BY <1>2, <2>3, <4>1, <4>2 DEF Counted
      <4> QED
        BY <1>3, <2>1, <3>1, <4>3
    <3> QED
      BY <1>4, <3>2, <3>3 DEF PublishEvent
  <2> QED
    BY <2>2, <2>3
<1>5. ASSUME ~PublishEvent(e)
      PROVE  /\ Counted' = Counted
             /\ \/ ServerState = "up" /\ ~Held(e) /\ HeldNow' = HeldNow \cup {e}
                \/ Held(e) /\ HeldNow' = HeldNow \ {e}
                \/ HeldNow' = HeldNow
  <2>1. log' = log
    BY <1>5 DEF Handle, Request, Disconnect, ReadRequest, Forward, Reply, Upgrade,
                RelayFrame, RelayEnds
  <2>2. Counted' = Counted
    BY <1>2, <2>1 DEF Counted
  <2>3. \A d \in Exchanges : d # e => hpc'[d] = hpc[d]
    BY <1>1, <1>5 DEF Handle, Request, Disconnect, ReadRequest, Forward, Reply, Upgrade,
                RelayFrame, RelayEnds, Goto, Answer, TypeOK
  <2>4. \A d \in Exchanges : d # e => Held(d)' = Held(d)
    BY <2>3 DEF Held, Active
  <2>5. CASE Request(e)
    <3>1. session = "open" /\ ~Held(e) /\ Held(e)'
      BY <1>1, <2>5 DEF Request, Goto, TypeOK, Held, Active
    <3>2. ServerState = "up"
      BY <3>1 DEF ServerState
    <3>3. HeldNow' = HeldNow \cup {e}
      BY <2>4, <3>1 DEF HeldNow
    <3> QED
      BY <2>2, <3>1, <3>2, <3>3
  <2>6. ASSUME ~Request(e) PROVE Held(e) \/ Held(e)' = Held(e)
    BY <1>1, <1>5, <2>6 DEF Handle, Disconnect, ReadRequest, Forward, Reply, Upgrade,
       RelayFrame, RelayEnds, Goto, Answer, TypeOK, Held, Active
  <2>7. CASE Held(e) /\ ~Held(e)'
    BY <2>2, <2>4, <2>7 DEF HeldNow
  <2>8. CASE Held(e)' = Held(e)
    BY <2>2, <2>4, <2>8 DEF HeldNow
  <2> QED
    BY <2>5, <2>6, <2>7, <2>8 DEF Held, Active
<1> QED
  BY <1>3, <1>4, <1>5

(* Every step of the session is a step of LoopbackServer or none of its    *)
(* business: Prepare listens, Close stops and, when no exchange is held,   *)
(* drains; after Codex's two seconds it is still stopping.                 *)
THEOREM SessionImplementsServer == Spec => ImplementsServer
<1>1. Init => Server!ServerInit
  <2> SUFFICES ASSUME Init PROVE Server!ServerInit
    OBVIOUS
  <2>1. ServerState = "down"
    BY DEF Init, ServerState
  <2>2. HeldNow = {}
    BY DEF Init, HeldNow, Held, Active
  <2>3. Len(<<>>) = 0
    BY EmptySeq
  <2>4. Counted = [e \in Exchanges |-> 0]
    BY <2>3 DEF Init, Counted
  <2> QED
    BY <2>1, <2>2, <2>4 DEF Server!ServerInit, HeldNow, Counted
<1>2. Inv /\ [Next]_vars => [Server!ServerNext]_Server!server_vars
  <2> SUFFICES ASSUME Inv, [Next]_vars
               PROVE  Server!ServerNext \/ UNCHANGED Server!server_vars
    BY DEF Server!server_vars
  <2>1. TypeOK
    BY DEF Inv
  <2>2. ASSUME NEW e \in Exchanges, Request(e) \/ Disconnect(e) \/ Handle(e)
        PROVE  Server!ServerNext \/ UNCHANGED Server!server_vars
    <3>1. ServerState' = ServerState
      BY <2>2, ExchangeRefines
    <3>2. CASE /\ ServerState = "up" /\ ~Held(e)
               /\ HeldNow' = HeldNow \cup {e} /\ Counted' = Counted
      <4>1. Server!Accept(e)
        BY <3>1, <3>2 DEF Server!Accept, HeldNow, Counted
      <4> QED
        BY <4>1 DEF Server!ServerNext
    <3>3. CASE /\ Held(e) /\ HeldNow' = HeldNow
               /\ Counted' = [Counted EXCEPT ![e] = @ + 1]
      <4>1. Server!Emit(e)
        BY <3>1, <3>3 DEF Server!Emit, HeldNow, Counted
      <4> QED
        BY <4>1 DEF Server!ServerNext
    <3>4. CASE Held(e) /\ HeldNow' = HeldNow \ {e} /\ Counted' = Counted
      <4>1. Server!Return(e)
        BY <3>1, <3>4 DEF Server!Return, HeldNow, Counted
      <4> QED
        BY <4>1 DEF Server!ServerNext
    <3>5. CASE HeldNow' = HeldNow /\ Counted' = Counted
      BY <3>1, <3>5 DEF Server!server_vars, HeldNow, Counted
    <3> QED
      BY <2>2, <3>2, <3>3, <3>4, <3>5, ExchangeRefines
  <2>3. ASSUME UNCHANGED exchange_vars, adapter' = adapter
        PROVE  HeldNow' = HeldNow /\ Counted' = Counted
    BY <2>3 DEF exchange_vars, HeldNow, Held, Active, Counted, Hijacked
  <2>4. CASE \/ Prepare \/ ServeFails \/ ProviderExits
             \/ Stop \/ Shutdown \/ CloseTimesOut \/ UNCHANGED vars
    <3>1. HeldNow' = HeldNow /\ Counted' = Counted
      BY <2>1, <2>3, <2>4, SessionLeavesExchanges
    <3>2. CASE Prepare
      <4>1. ServerState = "down" /\ ServerState' \in {"down", "up"}
        BY <3>2 DEF Prepare, ServerState
      <4>2. Server!Listen \/ UNCHANGED Server!server_vars
        BY <3>1, <4>1 DEF Server!Listen, Server!server_vars, HeldNow, Counted
      <4> QED
        BY <4>2 DEF Server!ServerNext
    <3>3. CASE ServeFails \/ ProviderExits \/ UNCHANGED vars
      <4>1. ServerState' = ServerState
        BY <3>3 DEF ServeFails, ProviderExits, vars, ServerState
      <4> QED
        BY <3>1, <4>1 DEF Server!server_vars, HeldNow, Counted
    <3>4. CASE Stop
      <4>1. ServerState = "up" /\ ServerState' = "stopping"
        BY <2>1, <3>4 DEF Stop, TypeOK, ServerState
      <4>2. Server!Stop
        BY <3>1, <4>1 DEF Server!Stop, HeldNow, Counted
      <4> QED
        BY <4>2 DEF Server!ServerNext
    <3>5. CASE Shutdown
      <4>1. ServerState = "stopping" /\ ServerState' = "closed"
        BY <2>1, <3>5 DEF Shutdown, TypeOK, ServerState
      <4>2. HeldNow = {}
        BY <3>5 DEF Shutdown, HeldNow
      <4>3. Server!Drained
        BY <3>1, <4>1, <4>2 DEF Server!Drained, HeldNow, Counted
      <4> QED
        BY <4>3 DEF Server!ServerNext
    <3>6. CASE CloseTimesOut
      <4>1. ServerState = "stopping" /\ ServerState' = "stopping"
        BY <2>1, <3>6 DEF CloseTimesOut, TypeOK, ServerState
      <4> QED
        BY <3>1, <4>1 DEF Server!server_vars, HeldNow, Counted
    <3> QED
      BY <2>4, <3>2, <3>3, <3>4, <3>5, <3>6
  <2> QED
    BY <2>2, <2>4 DEF Next
<1> QED
  BY <1>1, <1>2, InvHolds, PTL DEF Spec, ImplementsServer, Server!ServerSpec

(* A server that keeps the promise has no handler left when it is closed:  *)
(* only Drained closes it, and nothing is accepted after Stop.             *)
LEMMA ClosedServerIsIdle == Server!ServerSpec => []Server!ClosedIsIdle
<1>1. Server!ServerInit => Server!ClosedIsIdle
  BY DEF Server!ServerInit, Server!ClosedIsIdle
<1>2. Server!ClosedIsIdle /\ [Server!ServerNext]_Server!server_vars
        => Server!ClosedIsIdle'
  <2> SUFFICES ASSUME Server!ClosedIsIdle, [Server!ServerNext]_Server!server_vars
               PROVE  Server!ClosedIsIdle'
    OBVIOUS
  <2>1. CASE Server!Listen
    BY <2>1 DEF Server!Listen, Server!ClosedIsIdle
  <2>2. CASE Server!Stop
    BY <2>2 DEF Server!Stop, Server!ClosedIsIdle
  <2>3. CASE Server!Drained
    BY <2>3 DEF Server!Drained, Server!ClosedIsIdle
  <2>4. ASSUME NEW h \in Exchanges,
               Server!Accept(h) \/ Server!Emit(h) \/ Server!Return(h)
        PROVE  Server!ClosedIsIdle'
    BY <2>4 DEF Server!Accept, Server!Emit, Server!Return, Server!ClosedIsIdle
  <2>5. CASE UNCHANGED Server!server_vars
    BY <2>5 DEF Server!server_vars, Server!ClosedIsIdle
  <2> QED
    BY <2>1, <2>2, <2>3, <2>4, <2>5 DEF Server!ServerNext
<1> QED
  BY <1>1, <1>2, PTL DEF Server!ServerSpec

(* After a Close that has waited, no exchange publishes: the events of an  *)
(* HTTP exchange never reach a bus that RunCapture has taken down.         *)
THEOREM ClosedSessionIsSilent == Spec => Server!ClosedIsSilent
<1>1. Server!ClosedIsIdle /\ [Server!ServerNext]_Server!server_vars
        => Server!SilentStep \/ UNCHANGED Server!server_vars
  BY DEF Server!ClosedIsIdle, Server!SilentStep, Server!ServerNext, Server!server_vars,
         Server!Listen, Server!Accept, Server!Emit, Server!Return, Server!Stop,
         Server!Drained
<1> QED
  BY <1>1, ClosedServerIsIdle, SessionImplementsServer, PTL
  DEF ImplementsServer, Server!ServerSpec, Server!ClosedIsSilent
=============================================================================
