------------------------------ MODULE CodexProofs ------------------------------
(* What holds of the Codex adapter: of the websocket relay for any number  *)
(* of connections, any frames from either side and any number of failing   *)
(* publications, and of exchanges over plain HTTP for any conversation.    *)
EXTENDS CodexSession, CodexStream, SharedLemmas, FiniteSetTheorems, TLAPS

-----------------------------------------------------------------------------
(* What a frame says.                                                      *)

EventKinds == {"llm.response", "tool.call", "agent.done", "llm.request",
               "tool.result", "agent.error"}
EventSet   == [conn : Conns, frame : Nat, kind : EventKinds, text : Seq(Nat)]

(* What the hook of a direction may have to publish.                       *)
KindsOf(d) == IF d = "server" THEN {"llm.response", "tool.call", "agent.done"}
                              ELSE {"llm.request", "tool.result"}

Done(c, n) == Event(c, n, "agent.done", <<>>)

(* Trimming a text leaves a text.                                          *)
LEMMA TrimType ==
    ASSUME NEW t \in Seq(Nat)
    PROVE  Trim(t) \in Seq(Nat)
<1> DEFINE W == {i \in 1..Len(t) : t[i] # Blank}
<1>1. CASE W = {}
  BY <1>1 DEF Trim
<1>2. CASE W # {}
  <2>1. Len(t) \in Nat /\ W \subseteq 1..Len(t)
    OBVIOUS
  <2>2. Min(W) \in W /\ Max(W) \in W
    BY <1>2, <2>1, MinMax
  <2>3. PICK a \in 1..Len(t), b \in 1..Len(t) : a = Min(W) /\ b = Max(W)
    BY <2>1, <2>2
  <2> HIDE DEF W
  <2>4. SubSeq(t, a, b) \in Seq(Nat)
    BY <2>1, SubSeqProperties
  <2>5. Trim(t) = SubSeq(t, a, b)
    BY <1>2, <2>3 DEF Trim, W
  <2> QED
    BY <2>4, <2>5
<1> QED
  BY <1>1, <1>2

(* The text so far stays a text, and so is what an event says.             *)
LEMMA TextType ==
    ASSUME NEW c \in Conns, NEW n \in 1..Len(ServerScript[c]),
           state[c].text \in Seq(Nat)
    PROVE  /\ TextAfter(c, ServerScript[c][n]) \in Seq(Nat)
           /\ AssistantText(c, ServerScript[c][n]) \in Seq(Nat)
<1> DEFINE f == ServerScript[c][n]
           old == state[c].text
<1>1. f.text \in Seq(Nat)
  BY ScriptAssumption
<1>2. Trim(f.text) \in Seq(Nat) /\ Trim(old) \in Seq(Nat) /\ old \o f.text \in Seq(Nat)
  BY <1>1, TrimType, ConcatProperties
<1> HIDE DEF f
<1>3. TextAfter(c, f) \in {old \o f.text, f.text, Trim(f.text), old}
  <2>1. CASE f.type = "text.delta"
    BY <2>1, Zenon DEF TextAfter
  <2>2. CASE f.type = "text.done" /\ old = <<>>
    BY <2>2, Zenon DEF TextAfter
  <2>3. CASE f.type \in {"item", "completed"} /\ old = <<>>
    BY <2>3, Zenon DEF TextAfter
  <2>4. CASE /\ f.type # "text.delta"
             /\ ~(f.type = "text.done" /\ old = <<>>)
             /\ ~(f.type \in {"item", "completed"} /\ old = <<>>)
    BY <2>4, Zenon DEF TextAfter
  <2> QED
    BY <2>1, <2>2, <2>3, <2>4
<1>4. TextAfter(c, f) \in Seq(Nat)
  BY <1>1, <1>2, <1>3
<1>5. AssistantText(c, f) \in {f.text, Trim(TextAfter(c, f)), Trim(old), Trim(f.text)}
  <2>1. CASE f.type = "text.delta"
    BY <2>1, Zenon DEF AssistantText
  <2>2. CASE f.type = "text.done"
    BY <2>2, Zenon DEF AssistantText
  <2>3. CASE f.type = "completed" /\ Trim(f.text) = <<>>
    BY <2>3, Zenon DEF AssistantText
  <2>4. CASE /\ f.type # "text.delta" /\ f.type # "text.done"
             /\ ~(f.type = "completed" /\ Trim(f.text) = <<>>)
    BY <2>4, Zenon DEF AssistantText
  <2> QED
    BY <2>1, <2>2, <2>3, <2>4
<1>6. AssistantText(c, f) \in Seq(Nat)
  BY <1>1, <1>2, <1>4, <1>5, TrimType
<1> QED
  BY <1>4, <1>6 DEF f

(* The events of a frame of the API: an llm.response first, and an         *)
(* agent.done exactly if the frame completes a response.                   *)
LEMMA ResponseFrame ==
    ASSUME NEW c \in Conns, NEW n \in 1..Len(ServerScript[c]),
           state[c].text \in Seq(Nat), NEW q, q = ResponseMessageEvents(c, n)
    PROVE  /\ q \in Seq(EventSet) /\ q # <<>>
           /\ Head(q).kind = "llm.response"
           /\ \A e \in Items(q) :
                e.conn = c /\ e.kind \in KindsOf("server") /\ e.frame = n
           /\ ServerScript[c][n].type = "completed" => Done(c, n) \in Items(q)
           /\ \A e \in Items(q) : e.kind = "agent.done" =>
                ServerScript[c][n].type = "completed"
<1> DEFINE f == ServerScript[c][n]
           e1 == Event(c, n, "llm.response", AssistantText(c, f))
           e2 == Event(c, n, "tool.call", <<>>)
           s1 == <<e1>>
           s2 == [i \in 1..f.calls |-> e2]
           s3 == IF f.type = "completed" THEN <<Done(c, n)>> ELSE <<>>
<1>1. q = (s1 \o s2) \o s3
  BY DEF ResponseMessageEvents, Done
<1>2. f.calls \in Nat /\ n \in Nat
  BY ScriptAssumption
<1>3. e1 \in EventSet /\ e2 \in EventSet /\ Done(c, n) \in EventSet
  BY <1>2, TextType DEF EventSet, Event, EventKinds, Done
<1>4. /\ e1.conn = c /\ e1.kind = "llm.response" /\ e1.frame = n
      /\ e2.conn = c /\ e2.kind = "tool.call" /\ e2.frame = n
      /\ Done(c, n).conn = c /\ Done(c, n).kind = "agent.done" /\ Done(c, n).frame = n
  BY DEF Event, Done
<1> HIDE DEF e1, e2, f
<1>5. s1 \in Seq(EventSet) /\ s1 # <<>> /\ Head(s1) = e1 /\ Items(s1) = {e1}
  BY <1>3 DEF Items
<1>6. s2 \in Seq(EventSet) /\ Items(s2) \subseteq {e2}
  <2>1. s2 \in [1..f.calls -> EventSet]
    BY <1>3
  <2>2. s2 \in Seq(EventSet) /\ Len(s2) = f.calls
    BY <1>2, <2>1, SeqDef, LenProperties
  <2> QED
    BY <2>2 DEF Items
<1>7. /\ s3 \in Seq(EventSet)
      /\ Items(s3) = IF f.type = "completed" THEN {Done(c, n)} ELSE {}
  <2>1. CASE f.type = "completed"
    BY <1>3, <2>1 DEF Items
  <2>2. CASE f.type # "completed"
    BY <2>2 DEF Items
  <2> QED
    BY <2>1, <2>2
<1> HIDE DEF s1, s2, s3
<1> DEFINE s12 == s1 \o s2
<1>8. /\ s12 \in Seq(EventSet) /\ s12 # <<>> /\ Head(s12) = e1
      /\ Items(s12) = {e1} \cup Items(s2)
  BY <1>5, <1>6, ItemsOfConcat
<1>9. q = s12 \o s3
  BY <1>1
<1> HIDE DEF s12
<1>10. /\ q \in Seq(EventSet) /\ q # <<>> /\ Head(q) = e1
       /\ Items(q) = {e1} \cup Items(s2) \cup Items(s3)
  BY <1>7, <1>8, <1>9, ItemsOfConcat
<1> QED
  BY <1>4, <1>6, <1>7, <1>10 DEF KindsOf, f

(* The events of a frame of the provider.                                  *)
LEMMA RequestFrame ==
    ASSUME NEW c \in Conns, NEW n \in 1..Len(ClientScript[c]),
           NEW q, q = RequestMessageEvents(c, n)
    PROVE  /\ q \in Seq(EventSet)
           /\ \A e \in Items(q) :
                e.conn = c /\ e.kind \in KindsOf("client") /\ e.frame = n
<1> DEFINE m == ClientScript[c][n].results
           e1 == Event(c, n, "llm.request", <<>>)
           e2 == Event(c, n, "tool.result", <<>>)
           s1 == <<e1>>
           s2 == [i \in 1..m |-> e2]
<1>1. q = s1 \o s2
  BY DEF RequestMessageEvents
<1>2. m \in Nat /\ n \in Nat
  BY ScriptAssumption
<1>3. e1 \in EventSet /\ e2 \in EventSet
  BY <1>2 DEF EventSet, Event, EventKinds
<1>4. /\ e1.conn = c /\ e1.kind = "llm.request" /\ e1.frame = n
      /\ e2.conn = c /\ e2.kind = "tool.result" /\ e2.frame = n
  BY DEF Event
<1> HIDE DEF e1, e2, m
<1>5. s1 \in Seq(EventSet) /\ Items(s1) = {e1}
  BY <1>3 DEF Items
<1>6. s2 \in Seq(EventSet) /\ Items(s2) \subseteq {e2}
  <2>1. s2 \in [1..m -> EventSet]
    BY <1>3
  <2>2. s2 \in Seq(EventSet) /\ Len(s2) = m
    BY <1>2, <2>1, SeqDef, LenProperties
  <2> QED
    BY <2>2 DEF Items
<1> HIDE DEF s1, s2
<1>7. q \in Seq(EventSet) /\ Items(q) = {e1} \cup Items(s2)
  BY <1>1, <1>5, <1>6, ItemsOfConcat
<1> QED
  BY <1>4, <1>6, <1>7 DEF KindsOf

-----------------------------------------------------------------------------
(* The inductive invariant.  TLC checks it on the instance of              *)
(* MCCodexRelay.cfg.                                                       *)

TypeInv ==
    /\ main \in [Conns -> {"none", "dialed", "relay", "close", "report",
                           "emit", "last", "returned"}]
    /\ pipe \in [Conns -> [Dirs -> {"off", "read", "hook", "ended"}]]
    /\ todo \in [Conns -> [Dirs -> Seq(EventSet)]]
    /\ nread \in [Conns -> [Dirs -> Nat]]
    /\ sent \in [Conns -> [Dirs -> Nat]]
    /\ state \in [Conns -> [text : Seq(Nat), completed : BOOLEAN]]
    /\ errCh \in [Conns -> Seq([from : Dirs, how : {"normal", "abnormal", "closed"}])]
    /\ first \in [Conns -> [from : Dirs \cup {"none", "setup"},
                            how : {"none", "normal", "abnormal", "closed"}]]
    /\ cancelled \in [Conns -> BOOLEAN]
    /\ closed \in [Conns -> BOOLEAN]
    /\ log \in Seq(EventSet)
    /\ faults \in Nat /\ faults <= MaxFaults
    /\ late \subseteq Conns

(* Published, by what is in the log and not by where.                      *)
Out(c, kind) == \E e \in Items(log) : e.conn = c /\ e.kind = kind

(* A pipe has the frames it has read in hand or behind it, and its hook    *)
(* publishes events of the frame that was read last.                       *)
PipeInv(c) ==
    \A d \in Dirs :
        /\ nread[c][d] <= Len(Script(c, d)) /\ sent[c][d] <= nread[c][d]
        /\ pipe[c][d] = "hook" => sent[c][d] < nread[c][d]
        /\ pipe[c][d] = "off" => nread[c][d] = 0
        /\ todo[c][d] # <<>> => pipe[c][d] = "hook"
        /\ \A e \in Items(todo[c][d]) :
             e.conn = c /\ e.kind \in KindsOf(d) /\ e.frame = nread[c][d]

(* The errors that the pipes have sent and the handler has received.       *)
Ended(c) == (IF pipe[c]["client"] = "ended" THEN 1 ELSE 0)
              + (IF pipe[c]["server"] = "ended" THEN 1 ELSE 0)
Received(c) == IF first[c].from \in Dirs
                 THEN IF main[c] = "returned" THEN 2 ELSE 1
                 ELSE 0

(* Every pipe that has ended has sent one error, the handler has taken one *)
(* or both of them, and the context is over once it has taken one.         *)
ChannelInv(c) ==
    /\ first[c].from = "none" <=> main[c] \in {"none", "dialed", "relay"}
    /\ main[c] \in {"none", "dialed"} \/ first[c].from = "setup" =>
         \A d \in Dirs : pipe[c][d] = "off"
    /\ first[c].from = "setup" => main[c] \in {"report", "emit", "returned"}
    /\ cancelled[c] <=> first[c].from \in Dirs
    /\ first[c].from \in Dirs => pipe[c][first[c].from] = "ended"
    /\ \A e \in Items(errCh[c]) : pipe[c][e.from] = "ended"
    /\ Len(errCh[c]) + Received(c) = Ended(c)

(* A response is noted as completed before its agent.done is made, and as  *)
(* long as the context lasts and the bus answers no agent.done is lost.    *)
ResponseInv(c) ==
    /\ Out(c, "agent.done") => state[c].completed
    /\ (\E e \in Items(todo[c]["server"]) : e.kind = "agent.done") => state[c].completed
    /\ state[c].completed =>
         \E i \in 1..nread[c]["server"] : ServerScript[c][i].type = "completed"
    /\ faults = 0 /\ ~cancelled[c] =>
         \A i \in 1..nread[c]["server"] : ServerScript[c][i].type = "completed" =>
             Done(c, i) \in Items(log) \cup Items(todo[c]["server"])

(* How the end is reported.  Once the handler means to publish the error,  *)
(* no agent.done is out, and the context it would need is over.            *)
ReportInv(c) ==
    /\ faults = 0 /\ first[c].from = "server" /\ state[c].completed =>
         Out(c, "agent.done")
    /\ faults = 0 /\ main[c] \in {"last", "returned"} =>
         NormalClose(first[c]) \/ state[c].completed \/ Out(c, "agent.error")
    /\ (main[c] = "emit" \/ Out(c, "agent.error")) /\ c \notin late =>
         /\ ~Out(c, "agent.done")
         /\ first[c].from # "none"
         /\ todo[c]["server"] # <<>> => Head(todo[c]["server"]).kind # "agent.done"

ConnInv(c) == PipeInv(c) /\ ChannelInv(c) /\ ResponseInv(c) /\ ReportInv(c)

Inv == TypeInv /\ \A c \in Conns : ConnInv(c)

(* The invariant holds at the start.                                       *)
LEMMA InvInit == Init => Inv
<1> SUFFICES ASSUME Init PROVE Inv
  OBVIOUS
<1>1. TypeInv
  BY ScriptAssumption DEF Init, TypeInv, Dirs, NoError
<1>2. ASSUME NEW c \in Conns PROVE ConnInv(c)
  <2>1. \A d \in Dirs : Items(todo[c][d]) = {} /\ todo[c][d] = <<>>
    BY DEF Init, Items
  <2>2. Items(log) = {} /\ Items(errCh[c]) = {} /\ Len(errCh[c]) = 0
    BY DEF Init, Items
  <2>3. \A d \in Dirs : Len(Script(c, d)) \in Nat
    BY ScriptAssumption DEF Script
  <2>4. PipeInv(c)
    BY <2>1, <2>3 DEF Init, PipeInv
  <2>5. ChannelInv(c)
    BY <2>2 DEF Init, ChannelInv, Received, Ended, NoError, Dirs
  <2>6. ResponseInv(c)
    BY <2>1, <2>2 DEF Init, ResponseInv, Out, Dirs
  <2>7. ReportInv(c)
    BY <2>1, <2>2 DEF Init, ReportInv, Out, NoError, Dirs
  <2> QED
    BY <2>4, <2>5, <2>6, <2>7 DEF ConnInv
<1> QED
  BY <1>1, <1>2 DEF Inv

(* The types of what belongs to one connection.                            *)
LEMMA Typed ==
    ASSUME TypeInv, NEW c \in Conns, NEW d \in Dirs
    PROVE  /\ todo[c][d] \in Seq(EventSet)
           /\ nread[c][d] \in Nat /\ sent[c][d] \in Nat
           /\ state[c].text \in Seq(Nat) /\ state[c].completed \in BOOLEAN
           /\ errCh[c] \in Seq([from : Dirs, how : {"normal", "abnormal", "closed"}])
           /\ Len(errCh[c]) \in Nat
           /\ Len(Script(c, d)) \in Nat
<1>1. Len(Script(c, d)) \in Nat
  BY ScriptAssumption DEF Script
<1>2. errCh[c] \in Seq([from : Dirs, how : {"normal", "abnormal", "closed"}])
  BY DEF TypeInv
<1>3. Len(errCh[c]) \in Nat
  BY <1>2, LenProperties
<1>4. state[c] \in [text : Seq(Nat), completed : BOOLEAN]
  BY DEF TypeInv
<1>5. todo[c][d] \in Seq(EventSet) /\ nread[c][d] \in Nat /\ sent[c][d] \in Nat
  BY DEF TypeInv
<1> QED
  BY <1>1, <1>2, <1>3, <1>4, <1>5

(* A failing publication may be out all the same.                          *)
LEMMA FaultTypes ==
    ASSUME TypeInv, NEW e \in EventSet, PublishFault(e)
    PROVE  /\ log' \in Seq(EventSet)
           /\ faults' \in Nat /\ faults' <= MaxFaults /\ faults' # 0
           /\ Items(log) \subseteq Items(log') /\ Items(log') \subseteq Items(log) \cup {e}
<1>1. log \in Seq(EventSet) /\ faults \in Nat /\ MaxFaults \in Nat
  BY ScriptAssumption DEF TypeInv
<1>2. CASE log' = log
  BY <1>1, <1>2 DEF PublishFault
<1>3. CASE log' = Append(log, e)
  BY <1>1, <1>3, ItemsOfAppend DEF PublishFault
<1> QED
  BY <1>2, <1>3 DEF PublishFault

(* The events that a hook publishes are events of its connection.          *)
LEMMA HookEvent ==
    ASSUME Inv, NEW c \in Conns, NEW d \in Dirs, todo[c][d] # <<>>,
           NEW e, e = Head(todo[c][d])
    PROVE  /\ e \in EventSet /\ e \in Items(todo[c][d])
           /\ Tail(todo[c][d]) \in Seq(EventSet)
           /\ Items(todo[c][d]) = {e} \cup Items(Tail(todo[c][d]))
           /\ e.conn = c /\ e.kind \in KindsOf(d)
<1>1. todo[c][d] \in Seq(EventSet)
  BY Typed DEF Inv
<1>2. /\ e \in EventSet /\ Tail(todo[c][d]) \in Seq(EventSet)
      /\ Items(todo[c][d]) = {e} \cup Items(Tail(todo[c][d]))
  BY <1>1, ItemsOfTail
<1> QED
  BY <1>2 DEF Inv, ConnInv, PipeInv

(* A value set for one direction of one connection.                        *)
LEMMA SetAt ==
    ASSUME NEW A, NEW B, NEW V, NEW f \in [A -> [B -> V]], NEW a \in A, NEW b \in B,
           NEW v \in V, NEW g, g = [f EXCEPT ![a][b] = v]
    PROVE  /\ g \in [A -> [B -> V]]
           /\ g[a][b] = v
           /\ \A x \in A, y \in B : x # a \/ y # b => g[x][y] = f[x][y]
           /\ \A x \in A : x # a => g[x] = f[x]
<1> DEFINE h == [f[a] EXCEPT ![b] = v]
<1>1. h \in [B -> V] /\ h[b] = v /\ \A y \in B : y # b => h[y] = f[a][y]
  OBVIOUS
<1>2. g = [f EXCEPT ![a] = h]
  OBVIOUS
<1> HIDE DEF h
<1> QED
  BY <1>1, <1>2

(* Reading a frame: what the hook is left with.                            *)
LEMMA FrameRead ==
    ASSUME Inv, NEW c \in Conns, NEW d \in Dirs, ReadMessage(c, d)
    PROVE  /\ nread[c][d] + 1 \in 1..Len(Script(c, d))
           /\ todo'[c][d] \in Seq(EventSet)
           /\ todo' \in [Conns -> [Dirs -> Seq(EventSet)]]
           /\ \A x \in Conns, y \in Dirs : x # c \/ y # d => todo'[x][y] = todo[x][y]
           /\ \A e \in Items(todo'[c][d]) :
                e.conn = c /\ e.kind \in KindsOf(d) /\ e.frame = nread[c][d] + 1
           /\ d = "client" => state' = state
           /\ d = "server" =>
                LET f == ServerScript[c][nread[c][d] + 1] IN
                /\ todo'[c][d] # <<>> /\ Head(todo'[c][d]).kind = "llm.response"
                /\ f.type = "completed" => Done(c, nread[c][d] + 1) \in Items(todo'[c][d])
                /\ \A e \in Items(todo'[c][d]) : e.kind = "agent.done" => f.type = "completed"
                /\ state' = [state EXCEPT ![c] =
                               [text |-> TextAfter(c, f),
                                completed |-> @.completed \/ f.type = "completed"]]
                /\ TextAfter(c, f) \in Seq(Nat)
<1> DEFINE n == nread[c][d] + 1
<1>1. /\ nread[c][d] \in Nat /\ state[c].text \in Seq(Nat) /\ Len(Script(c, d)) \in Nat
      /\ todo \in [Conns -> [Dirs -> Seq(EventSet)]]
  BY Typed DEF Inv, TypeInv
<1>2. n \in 1..Len(Script(c, d))
  BY <1>1 DEF ReadMessage
<1> HIDE DEF n
<1>3. CASE d = "server"
  <2> DEFINE q == ResponseMessageEvents(c, n)
             f == ServerScript[c][n]
  <2>1. /\ todo' = [todo EXCEPT ![c][d] = q]
        /\ state' = [state EXCEPT ![c] =
                       [text |-> TextAfter(c, f),
                        completed |-> @.completed \/ f.type = "completed"]]
    BY <1>3 DEF ReadMessage, n
  <2> HIDE DEF q
  <2>2. n \in 1..Len(ServerScript[c])
    BY <1>2, <1>3 DEF Script
  <2>3. /\ q \in Seq(EventSet) /\ q # <<>>
        /\ Head(q).kind = "llm.response"
        /\ \A e \in Items(q) : e.conn = c /\ e.kind \in KindsOf("server") /\ e.frame = n
        /\ f.type = "completed" => Done(c, n) \in Items(q)
        /\ \A e \in Items(q) : e.kind = "agent.done" => f.type = "completed"
    BY <1>1, <2>2, ResponseFrame DEF q
  <2>4. TextAfter(c, f) \in Seq(Nat)
    BY <1>1, <2>2, TextType
  <2> HIDE DEF f
  <2>5. /\ todo'[c][d] = q /\ todo' \in [Conns -> [Dirs -> Seq(EventSet)]]
        /\ \A x \in Conns, y \in Dirs : x # c \/ y # d => todo'[x][y] = todo[x][y]
    BY <1>1, <2>1, <2>3, SetAt
  <2> QED
    BY <1>2, <1>3, <2>1, <2>3, <2>4, <2>5 DEF n, f
<1>4. CASE d = "client"
  <2> DEFINE q == RequestMessageEvents(c, n)
  <2>1. todo' = [todo EXCEPT ![c][d] = q] /\ state' = state
    BY <1>4 DEF ReadMessage, n
  <2> HIDE DEF q
  <2>2. n \in 1..Len(ClientScript[c])
    BY <1>2, <1>4 DEF Script
  <2>3. /\ q \in Seq(EventSet)
        /\ \A e \in Items(q) : e.conn = c /\ e.kind \in KindsOf("client") /\ e.frame = n
    BY <2>2, RequestFrame DEF q
  <2>4. /\ todo'[c][d] = q /\ todo' \in [Conns -> [Dirs -> Seq(EventSet)]]
        /\ \A x \in Conns, y \in Dirs : x # c \/ y # d => todo'[x][y] = todo[x][y]
    BY <1>1, <2>1, <2>3, SetAt
  <2> QED
    BY <1>2, <1>4, <2>1, <2>3, <2>4 DEF n
<1> QED
  BY <1>3, <1>4 DEF Dirs

(* Publishing an event of a hook: what is out, and what is left.           *)
LEMMA EventOut ==
    ASSUME Inv, NEW c \in Conns, NEW d \in Dirs, PublishMany(c, d)
    PROVE  /\ log' \in Seq(EventSet)
           /\ todo'[c][d] \in Seq(EventSet)
           /\ todo' \in [Conns -> [Dirs -> Seq(EventSet)]]
           /\ \A x \in Conns, y \in Dirs : x # c \/ y # d => todo'[x][y] = todo[x][y]
           /\ todo'[c][d] = <<>> \/ todo'[c][d] = Tail(todo[c][d])
           /\ Items(todo'[c][d]) \subseteq Items(todo[c][d])
           /\ Items(log) \subseteq Items(log')
           /\ Items(log') \subseteq Items(log) \cup {Head(todo[c][d])}
           /\ faults' \in Nat /\ faults' <= MaxFaults
           /\ faults' = 0 => faults = 0
           /\ late \subseteq late' /\ late' \subseteq late \cup {c}
           /\ cancelled[c] /\ c \notin late' => todo'[c][d] = <<>>
           /\ faults' = 0 /\ ~cancelled[c] =>
                Items(log') \cup Items(todo'[c][d]) = Items(log) \cup Items(todo[c][d])
<1> DEFINE e == Head(todo[c][d])
           rest == Tail(todo[c][d])
<1>1. todo[c][d] # <<>>
  BY DEF PublishMany
<1>2. /\ e \in EventSet /\ rest \in Seq(EventSet)
      /\ Items(todo[c][d]) = {e} \cup Items(rest)
  BY <1>1, HookEvent
<1>3. /\ log \in Seq(EventSet) /\ todo \in [Conns -> [Dirs -> Seq(EventSet)]]
      /\ faults \in Nat /\ faults <= MaxFaults /\ TypeInv
  BY DEF Inv, TypeInv
<1>4. <<>> \in Seq(EventSet) /\ Items(<<>>) = {}
  BY DEF Items
<1>5. /\ \/ todo' = [todo EXCEPT ![c][d] = rest]
         \/ todo' = [todo EXCEPT ![c][d] = <<>>]
      /\ \/ log' = Append(log, e) /\ faults' = faults
         \/ PublishFault(e) /\ late' = late
      /\ late' = late \/ late' = late \cup {c}
      /\ ~cancelled[c] /\ faults' = faults => todo' = [todo EXCEPT ![c][d] = rest]
      /\ cancelled[c] =>
           todo' = [todo EXCEPT ![c][d] = <<>>] \/ late' = late \cup {c}
  BY <1>3 DEF PublishMany, PublishFault
<1>6. faults' = faults \/ PublishFault(e)
  BY <1>5
<1> HIDE DEF e, rest
<1>7. /\ todo'[c][d] \in {<<>>, rest}
      /\ todo' \in [Conns -> [Dirs -> Seq(EventSet)]]
      /\ \A x \in Conns, y \in Dirs : x # c \/ y # d => todo'[x][y] = todo[x][y]
      /\ todo' = [todo EXCEPT ![c][d] = <<>>] => todo'[c][d] = <<>>
      /\ todo' = [todo EXCEPT ![c][d] = rest] => todo'[c][d] = rest
  <2>1. PICK v \in {<<>>, rest} : todo' = [todo EXCEPT ![c][d] = v]
    BY <1>5
  <2>2. v \in Seq(EventSet)
    BY <1>2, <1>4
  <2>3. /\ todo' \in [Conns -> [Dirs -> Seq(EventSet)]] /\ todo'[c][d] = v
        /\ \A x \in Conns, y \in Dirs : x # c \/ y # d => todo'[x][y] = todo[x][y]
    BY <1>3, <2>1, <2>2, SetAt
  <2>4. \A w \in {<<>>, rest} : todo' = [todo EXCEPT ![c][d] = w] => todo'[c][d] = w
    BY <1>3
  <2> QED
    BY <2>3, <2>4
<1>8. Items(todo'[c][d]) \subseteq Items(todo[c][d]) /\ todo'[c][d] \in Seq(EventSet)
  BY <1>2, <1>4, <1>7
<1>9. CASE log' = Append(log, e) /\ faults' = faults
  <2>1. Items(log') = Items(log) \cup {e} /\ log' \in Seq(EventSet)
    BY <1>2, <1>3, <1>9, ItemsOfAppend
  <2>2. ~cancelled[c] => Items(log') \cup Items(todo'[c][d]) = Items(log) \cup Items(todo[c][d])
    BY <1>2, <1>5, <1>7, <1>9, <2>1
  <2> QED
    BY <1>3, <1>5, <1>7, <1>8, <1>9, <2>1, <2>2 DEF e, rest
<1>10. CASE PublishFault(e) /\ late' = late
  <2>1. /\ log' \in Seq(EventSet)
        /\ faults' \in Nat /\ faults' <= MaxFaults /\ faults' # 0
        /\ Items(log) \subseteq Items(log') /\ Items(log') \subseteq Items(log) \cup {e}
    BY <1>2, <1>3, <1>10, FaultTypes
  <2>2. cancelled[c] /\ c \notin late' => todo'[c][d] = <<>>
    BY <1>5, <1>7, <1>10
  <2> QED
    BY <1>7, <1>8, <1>10, <2>1, <2>2 DEF e, rest
<1> QED
  BY <1>5, <1>9, <1>10

(* What a step of the handler does to the log.                             *)
LEMMA ErrorOut ==
    ASSUME Inv, NEW c \in Conns, PublishError(c), NEW e, e = Event(c, 0, "agent.error", <<>>)
    PROVE  /\ log' \in Seq(EventSet)
           /\ faults' \in Nat /\ faults' <= MaxFaults
           /\ faults' = 0 => faults = 0 /\ e \in Items(log')
           /\ Items(log) \subseteq Items(log') /\ Items(log') \subseteq Items(log) \cup {e}
           /\ e.conn = c /\ e.kind = "agent.error"
<1>1. TypeInv /\ log \in Seq(EventSet) /\ faults \in Nat /\ faults <= MaxFaults
  BY DEF Inv, TypeInv
<1>2. e \in EventSet /\ e.conn = c /\ e.kind = "agent.error"
  BY DEF EventSet, Event, EventKinds
<1>3. \/ log' = Append(log, e) /\ faults' = faults
      \/ PublishFault(e)
  BY DEF PublishError
<1>4. CASE log' = Append(log, e) /\ faults' = faults
  BY <1>1, <1>2, <1>4, ItemsOfAppend
<1>5. CASE PublishFault(e)
  BY <1>1, <1>2, <1>5, FaultTypes
<1> QED
  BY <1>3, <1>4, <1>5

(* Every step keeps the types.                                             *)
LEMMA TypeStep ==
    ASSUME Inv, [Next]_vars
    PROVE  TypeInv'
<1>1. TypeInv
  BY DEF Inv
<1>2. CASE UNCHANGED vars
  BY <1>1, <1>2 DEF TypeInv, vars
<1>3. ASSUME NEW c \in Conns, Dial(c) \/ Upgrade(c) \/ SetupFails(c)
      PROVE  TypeInv'
  <2>1. CASE Dial(c)
    BY <1>1, <2>1 DEF TypeInv, Dial, Goto
  <2>2. CASE Upgrade(c)
    <3>1. pipe' \in [Conns -> [Dirs -> {"off", "read", "hook", "ended"}]]
      BY <1>1, <2>2 DEF TypeInv, Upgrade
    <3> QED
      BY <1>1, <2>2, <3>1 DEF TypeInv, Upgrade, Goto
  <2>3. CASE SetupFails(c)
    <3>1. first' \in [Conns -> [from : Dirs \cup {"none", "setup"},
                               how : {"none", "normal", "abnormal", "closed"}]]
      BY <1>1, <2>3 DEF TypeInv, SetupFails
    <3> QED
      BY <1>1, <2>3, <3>1 DEF TypeInv, SetupFails, Goto
  <2> QED
    BY <1>3, <2>1, <2>2, <2>3
<1>4. ASSUME NEW c \in Conns, FirstError(c) \/ LastError(c)
      PROVE  TypeInv'
  <2>1. errCh[c] # <<>> /\ errCh' = [errCh EXCEPT ![c] = Tail(errCh[c])]
    BY <1>4 DEF FirstError, LastError
  <2> DEFINE S == [from : Dirs, how : {"normal", "abnormal", "closed"}]
  <2>2. errCh \in [Conns -> Seq(S)] /\ errCh[c] \in Seq(S)
    BY <1>1 DEF TypeInv
  <2> HIDE DEF S
  <2>3. Head(errCh[c]) \in S /\ Tail(errCh[c]) \in Seq(S)
    BY <2>1, <2>2, HeadTailProperties
  <2>4. errCh' \in [Conns -> Seq(S)]
    BY <2>1, <2>2, <2>3
  <2>5. first' \in [Conns -> [from : Dirs \cup {"none", "setup"},
                             how : {"none", "normal", "abnormal", "closed"}]]
    <3>1. CASE first' = first
      BY <1>1, <3>1 DEF TypeInv
    <3>2. CASE first' = [first EXCEPT ![c] = Head(errCh[c])]
      <4>1. Head(errCh[c]) \in [from : Dirs \cup {"none", "setup"},
                                how : {"none", "normal", "abnormal", "closed"}]
        BY <2>3 DEF S
      <4> QED
        BY <1>1, <3>2, <4>1 DEF TypeInv
    <3> QED
      BY <1>4, <3>1, <3>2 DEF FirstError, LastError
  <2>6. /\ cancelled' \in [Conns -> BOOLEAN]
        /\ main' \in [Conns -> {"none", "dialed", "relay", "close", "report",
                                "emit", "last", "returned"}]
    BY <1>1, <1>4 DEF TypeInv, FirstError, LastError, Goto
  <2>7. UNCHANGED <<pipe, todo, nread, sent, state, closed, log, faults, late>>
    BY <1>4 DEF FirstError, LastError
  <2> QED
    BY <1>1, <2>4, <2>5, <2>6, <2>7 DEF TypeInv, S
<1>5. ASSUME NEW c \in Conns, CloseBoth(c) \/ HandleWSError(c)
      PROVE  TypeInv'
  BY <1>1, <1>5 DEF TypeInv, CloseBoth, HandleWSError, Goto, Reported
<1>6. ASSUME NEW c \in Conns, PublishError(c)
      PROVE  TypeInv'
  <2>1. log' \in Seq(EventSet) /\ faults' \in Nat /\ faults' <= MaxFaults
    BY <1>6, ErrorOut
  <2> QED
    BY <1>1, <1>6, <2>1 DEF TypeInv, PublishError, Goto, Reported
<1>7. ASSUME NEW c \in Conns, NEW d \in Dirs, ReadMessage(c, d)
      PROVE  TypeInv'
  <2>1. todo' \in [Conns -> [Dirs -> Seq(EventSet)]]
    BY <1>7, FrameRead
  <2>2. state' \in [Conns -> [text : Seq(Nat), completed : BOOLEAN]]
    <3>1. CASE d = "client"
      BY <1>1, <1>7, <3>1, FrameRead DEF TypeInv
    <3>2. CASE d = "server"
      <4> DEFINE f == ServerScript[c][nread[c][d] + 1]
      <4>1. /\ state' = [state EXCEPT ![c] =
                          [text |-> TextAfter(c, f),
                           completed |-> @.completed \/ f.type = "completed"]]
            /\ TextAfter(c, f) \in Seq(Nat)
        BY <1>7, <3>2, FrameRead
      <4> HIDE DEF f
      <4>2. state[c].completed \in BOOLEAN
        BY <1>1, Typed
      <4>3. (state[c].completed \/ f.type = "completed") \in BOOLEAN
        OBVIOUS
      <4> QED
        BY <1>1, <4>1, <4>3 DEF TypeInv
    <3> QED
      BY <3>1, <3>2 DEF Dirs
  <2>3. /\ nread' \in [Conns -> [Dirs -> Nat]]
        /\ pipe' \in [Conns -> [Dirs -> {"off", "read", "hook", "ended"}]]
    BY <1>1, <1>7 DEF ReadMessage, TypeInv
  <2> QED
    BY <1>1, <1>7, <2>1, <2>2, <2>3 DEF TypeInv, ReadMessage
<1>8. ASSUME NEW c \in Conns, NEW d \in Dirs, PublishMany(c, d)
      PROVE  TypeInv'
  <2>1. /\ todo' \in [Conns -> [Dirs -> Seq(EventSet)]]
        /\ log' \in Seq(EventSet) /\ faults' \in Nat /\ faults' <= MaxFaults
        /\ late' \subseteq late \cup {c}
    BY <1>8, EventOut
  <2> QED
    BY <1>1, <1>8, <2>1 DEF TypeInv, PublishMany
<1>9. ASSUME NEW c \in Conns, NEW d \in Dirs, WriteMessage(c, d)
      PROVE  TypeInv'
  <2>1. /\ pipe' \in [Conns -> [Dirs -> {"off", "read", "hook", "ended"}]]
        /\ sent' \in [Conns -> [Dirs -> Nat]]
    BY <1>1, <1>9 DEF TypeInv, WriteMessage
  <2> QED
    BY <1>1, <1>9, <2>1 DEF TypeInv, WriteMessage
<1>10. ASSUME NEW c \in Conns, NEW d \in Dirs,
              NEW how \in {"normal", "abnormal", "closed"}, PipeEnds(c, d, how)
       PROVE  TypeInv'
  <2> DEFINE S == [from : Dirs, how : {"normal", "abnormal", "closed"}]
             r == [from |-> d, how |-> how]
  <2>1. errCh \in [Conns -> Seq(S)] /\ r \in S
    BY <1>1 DEF TypeInv
  <2>2. errCh' = [errCh EXCEPT ![c] = Append(@, r)]
    BY <1>10 DEF PipeEnds
  <2> HIDE DEF S, r
  <2>3. errCh' \in [Conns -> Seq(S)]
    BY <2>1, <2>2
  <2>4. pipe' \in [Conns -> [Dirs -> {"off", "read", "hook", "ended"}]]
    BY <1>1, <1>10 DEF TypeInv, PipeEnds
  <2> QED
    BY <1>1, <1>10, <2>3, <2>4 DEF TypeInv, PipeEnds, S
<1> QED
  BY <1>2, <1>3, <1>4, <1>5, <1>6, <1>7, <1>8, <1>9, <1>10
     DEF Next, Handler, Pipe, PeerEnds, WriteFails, ConnectionClosed

-----------------------------------------------------------------------------
(* Every step keeps the invariant of the connection it is a step of, and   *)
(* leaves the other connections alone.                                     *)

Untouched(c) ==
    /\ main'[c] = main[c] /\ pipe'[c] = pipe[c] /\ todo'[c] = todo[c]
    /\ nread'[c] = nread[c] /\ sent'[c] = sent[c] /\ state'[c] = state[c]
    /\ errCh'[c] = errCh[c] /\ first'[c] = first[c] /\ cancelled'[c] = cancelled[c]
    /\ Items(log) \subseteq Items(log')
    /\ \A e \in Items(log') : e \in Items(log) \/ e.conn # c
    /\ faults' = 0 => faults = 0
    /\ c \in late' <=> c \in late

(* A step of another connection keeps the invariant of this one.           *)
LEMMA UntouchedKeeps ==
    ASSUME NEW c \in Conns, ConnInv(c), Untouched(c)
    PROVE  ConnInv(c)'
<1>1. Out(c, "agent.done")' = Out(c, "agent.done")
  BY DEF Untouched, Out
<1>2. Out(c, "agent.error")' = Out(c, "agent.error")
  BY DEF Untouched, Out
<1>3. PipeInv(c)'
  BY DEF ConnInv, PipeInv, Untouched
<1>4. ChannelInv(c)'
  BY DEF ConnInv, ChannelInv, Received, Ended, Untouched
<1>5. ResponseInv(c)'
  BY <1>1 DEF ConnInv, ResponseInv, Untouched
<1>6. ReportInv(c)'
  BY <1>1, <1>2 DEF ConnInv, ReportInv, Untouched
<1> QED
  BY <1>3, <1>4, <1>5, <1>6 DEF ConnInv

(* Dialling and upgrading, and the failure of either.                      *)
LEMMA SetupKeeps ==
    ASSUME Inv, TypeInv', NEW c \in Conns, Dial(c) \/ Upgrade(c) \/ SetupFails(c)
    PROVE  ConnInv(c)'
<1>1. TypeInv /\ PipeInv(c) /\ ChannelInv(c) /\ ResponseInv(c) /\ ReportInv(c)
  BY DEF Inv, ConnInv
<1>2. /\ UNCHANGED <<todo, nread, sent, state, errCh, cancelled, log, faults, late>>
      /\ main[c] \in {"none", "dialed"}
      /\ main'[c] \in {"dialed", "relay", "report"}
      /\ main'[c] = "report" <=> first'[c].from = "setup"
      /\ first'[c] = first[c] \/ first'[c].from = "setup"
      /\ \/ pipe'[c] = pipe[c]
         \/ main'[c] = "relay" /\ (\A d \in Dirs : pipe'[c][d] = "read")
  <2>1. /\ main \in [Conns -> {"none", "dialed", "relay", "close", "report",
                               "emit", "last", "returned"}]
        /\ pipe \in [Conns -> [Dirs -> {"off", "read", "hook", "ended"}]]
        /\ first \in [Conns -> [from : Dirs \cup {"none", "setup"},
                                how : {"none", "normal", "abnormal", "closed"}]]
    BY <1>1 DEF TypeInv
  <2>2. main[c] \in {"none", "dialed"} /\ first[c].from # "setup"
    BY <1>1 DEF Dial, Upgrade, SetupFails, ChannelInv
  <2>3. CASE Dial(c)
    <3>1. main'[c] = "dialed" /\ first' = first /\ pipe' = pipe
      BY <2>1, <2>3 DEF Dial, Goto
    <3> QED
      BY <2>2, <2>3, <3>1 DEF Dial
  <2>4. CASE Upgrade(c)
    BY <2>1, <2>2, <2>4 DEF Upgrade, Goto
  <2>5. CASE SetupFails(c)
    <3>1. main'[c] = "report" /\ first'[c].from = "setup" /\ pipe' = pipe
      BY <2>1, <2>5 DEF SetupFails, Goto
    <3> QED
      BY <2>2, <2>5, <3>1 DEF SetupFails
  <2> QED
    BY <2>3, <2>4, <2>5
<1>3. first[c].from = "none" /\ \A d \in Dirs : pipe[c][d] = "off"
  BY <1>1, <1>2 DEF ChannelInv
<1>4. \A d \in Dirs : nread[c][d] = 0 /\ todo[c][d] = <<>>
  BY <1>1, <1>3 DEF PipeInv
<1>5. PipeInv(c)'
  BY <1>1, <1>2, <1>3, <1>4 DEF PipeInv
<1>6. Len(errCh[c]) = 0 /\ Items(errCh[c]) = {}
  <2>1. Len(errCh[c]) = 0
    BY <1>1, <1>3, Typed DEF ChannelInv, Received, Ended, Dirs
  <2> QED
    BY <2>1 DEF Items
<1>7. ChannelInv(c)'
  BY <1>1, <1>2, <1>3, <1>6 DEF ChannelInv, Received, Ended, Dirs
<1>8. ResponseInv(c)'
  BY <1>1, <1>2 DEF ResponseInv, Out
<1>9. /\ ~state[c].completed
      /\ c \notin late => ~Out(c, "agent.error")
      /\ main'[c] \notin {"emit", "last", "returned"}
  BY <1>1, <1>2, <1>3, <1>4 DEF ResponseInv, ReportInv, Dirs
<1>10. ReportInv(c)'
  BY <1>1, <1>2, <1>3, <1>9 DEF ReportInv, Out
<1> QED
  BY <1>5, <1>7, <1>8, <1>10 DEF ConnInv

(* The first error is received: the agent.done of a response that has      *)
(* completed is out if it is the API's side that ended.                    *)
LEMMA FirstErrorKeeps ==
    ASSUME Inv, TypeInv', NEW c \in Conns, FirstError(c)
    PROVE  ConnInv(c)'
<1>1. TypeInv /\ PipeInv(c) /\ ChannelInv(c) /\ ResponseInv(c) /\ ReportInv(c)
  BY DEF Inv, ConnInv
<1> DEFINE r == Head(errCh[c])
           S == [from : Dirs, how : {"normal", "abnormal", "closed"}]
<1>2. errCh[c] \in Seq(S) /\ errCh[c] # <<>>
  BY <1>1 DEF TypeInv, FirstError
<1> HIDE DEF S
<1>3. /\ r \in S /\ Items(errCh[c]) = {r} \cup Items(Tail(errCh[c]))
      /\ Len(Tail(errCh[c])) = Len(errCh[c]) - 1 /\ Len(errCh[c]) \in Nat
  BY <1>2, ItemsOfTail, HeadTailProperties, LenProperties
<1>4. /\ UNCHANGED <<pipe, todo, nread, sent, state, log, faults, late>>
      /\ main[c] = "relay" /\ main'[c] = "close"
      /\ first'[c] = r /\ errCh'[c] = Tail(errCh[c]) /\ cancelled'[c] = TRUE
  BY <1>1 DEF FirstError, Goto, TypeInv
<1>5. r.from \in Dirs /\ pipe[c][r.from] = "ended" /\ first[c].from = "none"
  BY <1>1, <1>3, <1>4 DEF ChannelInv, S
<1> HIDE DEF r
<1>6. PipeInv(c)'
  BY <1>1, <1>4 DEF PipeInv
<1>7. ChannelInv(c)'
  <2>1. Received(c) = 0 /\ Received(c)' = 1 /\ Ended(c)' = Ended(c)
    BY <1>4, <1>5 DEF Received, Ended, Dirs
  <2>2. Len(errCh[c]) = Ended(c)
    BY <1>1, <1>3, <2>1 DEF ChannelInv
  <2>3. (Len(errCh[c]) + Received(c) = Ended(c))'
    BY <1>3, <1>4, <2>1, <2>2
  <2> QED
    BY <1>1, <1>3, <1>4, <1>5, <2>3 DEF ChannelInv, Dirs
<1>8. ResponseInv(c)'
  BY <1>1, <1>4 DEF ResponseInv, Out
<1>9. faults = 0 /\ r.from = "server" /\ state[c].completed => Out(c, "agent.done")
  <2> SUFFICES ASSUME faults = 0, r.from = "server", state[c].completed
               PROVE  Out(c, "agent.done")
    OBVIOUS
  <2>1. ~cancelled[c] /\ todo[c]["server"] = <<>>
    BY <1>1, <1>5 DEF ChannelInv, PipeInv, Dirs
  <2>2. PICK i \in 1..nread[c]["server"] : ServerScript[c][i].type = "completed"
    BY <1>1 DEF ResponseInv
  <2>3. Done(c, i) \in Items(log) \cup Items(todo[c]["server"])
    BY <1>1, <2>1, <2>2 DEF ResponseInv
  <2>4. Items(todo[c]["server"]) = {}
    BY <2>1 DEF Items
  <2> QED
    BY <2>3, <2>4 DEF Out, Done, Event
<1>10. ReportInv(c)'
  BY <1>1, <1>4, <1>5, <1>9 DEF ReportInv, Out, Dirs
<1> QED
  BY <1>6, <1>7, <1>8, <1>10 DEF ConnInv

(* Closing both connections, and the decision whether to report.           *)
LEMMA DecisionKeeps ==
    ASSUME Inv, TypeInv', NEW c \in Conns, CloseBoth(c) \/ HandleWSError(c)
    PROVE  ConnInv(c)'
<1>1. TypeInv /\ PipeInv(c) /\ ChannelInv(c) /\ ResponseInv(c) /\ ReportInv(c)
  BY DEF Inv, ConnInv
<1>2. /\ UNCHANGED <<pipe, todo, nread, sent, state, errCh, first, cancelled,
                     log, faults, late>>
      /\ main[c] \in {"close", "report"}
      /\ main'[c] \in {"report", "emit", "last", "returned"}
      /\ main'[c] = "emit" => ~state[c].completed
      /\ main'[c] = "returned" => state[c].completed /\ first[c].from = "setup"
      /\ main'[c] = "last" => first[c].from # "setup" \/ main[c] = "close"
      /\ main'[c] = "last" => NormalClose(first[c]) \/ state[c].completed
  BY <1>1 DEF CloseBoth, HandleWSError, Goto, Reported, Completed, TypeInv
<1>3. first[c].from # "none" /\ (main[c] = "close" => first[c].from # "setup")
  BY <1>1, <1>2 DEF ChannelInv
<1>4. PipeInv(c)'
  BY <1>1, <1>2 DEF PipeInv
<1>5. ChannelInv(c)'
  <2>1. Received(c)' = Received(c) /\ Ended(c)' = Ended(c)
    BY <1>2 DEF Received, Ended, Dirs
  <2> QED
    BY <1>1, <1>2, <1>3, <2>1 DEF ChannelInv
<1>6. ResponseInv(c)'
  BY <1>1, <1>2 DEF ResponseInv, Out
<1>7. main'[c] = "emit" =>
        /\ ~Out(c, "agent.done")
        /\ todo[c]["server"] # <<>> => Head(todo[c]["server"]).kind # "agent.done"
  <2> SUFFICES ASSUME ~state[c].completed, todo[c]["server"] # <<>>
               PROVE  Head(todo[c]["server"]).kind # "agent.done"
    BY <1>1, <1>2 DEF ResponseInv
  <2>1. Head(todo[c]["server"]) \in Items(todo[c]["server"])
    BY HookEvent DEF Dirs
  <2> QED
    BY <1>1, <2>1 DEF ResponseInv
<1>8. ReportInv(c)'
  BY <1>1, <1>2, <1>3, <1>7 DEF ReportInv, Out
<1> QED
  BY <1>4, <1>5, <1>6, <1>8 DEF ConnInv

(* The error is published.                                                 *)
LEMMA ErrorKeeps ==
    ASSUME Inv, TypeInv', NEW c \in Conns, PublishError(c)
    PROVE  ConnInv(c)'
<1>1. TypeInv /\ PipeInv(c) /\ ChannelInv(c) /\ ResponseInv(c) /\ ReportInv(c)
  BY DEF Inv, ConnInv
<1> DEFINE e == Event(c, 0, "agent.error", <<>>)
<1>2. /\ UNCHANGED <<pipe, todo, nread, sent, state, errCh, first, cancelled, late>>
      /\ main[c] = "emit"
      /\ main'[c] = IF first[c].from = "setup" THEN "returned" ELSE "last"
  BY <1>1 DEF PublishError, Goto, Reported, TypeInv
<1>3. /\ faults' = 0 => faults = 0 /\ e \in Items(log')
      /\ Items(log) \subseteq Items(log') /\ Items(log') \subseteq Items(log) \cup {e}
      /\ e.conn = c /\ e.kind = "agent.error"
  BY ErrorOut
<1> HIDE DEF e
<1>4. Out(c, "agent.done")' = Out(c, "agent.done")
  BY <1>3 DEF Out
<1>5. faults' = 0 => Out(c, "agent.error")'
  BY <1>3 DEF Out
<1>6. PipeInv(c)'
  BY <1>1, <1>2 DEF PipeInv
<1>7. ChannelInv(c)'
  <2>1. Received(c)' = Received(c) /\ Ended(c)' = Ended(c)
    BY <1>2 DEF Received, Ended, Dirs
  <2> QED
    BY <1>1, <1>2, <2>1 DEF ChannelInv
<1>8. ResponseInv(c)'
  BY <1>1, <1>2, <1>3, <1>4 DEF ResponseInv
<1>9. ReportInv(c)'
  BY <1>1, <1>2, <1>3, <1>4, <1>5 DEF ReportInv
<1> QED
  BY <1>6, <1>7, <1>8, <1>9 DEF ConnInv

(* The other pipe's error is received, and the handler returns.            *)
LEMMA LastErrorKeeps ==
    ASSUME Inv, TypeInv', NEW c \in Conns, LastError(c)
    PROVE  ConnInv(c)'
<1>1. TypeInv /\ PipeInv(c) /\ ChannelInv(c) /\ ResponseInv(c) /\ ReportInv(c)
  BY DEF Inv, ConnInv
<1> DEFINE S == [from : Dirs, how : {"normal", "abnormal", "closed"}]
<1>2. errCh[c] \in Seq(S) /\ errCh[c] # <<>>
  BY <1>1 DEF TypeInv, LastError
<1> HIDE DEF S
<1>3. /\ Items(Tail(errCh[c])) \subseteq Items(errCh[c])
      /\ Len(Tail(errCh[c])) = Len(errCh[c]) - 1 /\ Len(errCh[c]) \in Nat
  BY <1>2, ItemsOfTail, HeadTailProperties, LenProperties
<1>4. /\ UNCHANGED <<pipe, todo, nread, sent, state, first, cancelled, log, faults, late>>
      /\ main[c] = "last" /\ main'[c] = "returned"
      /\ errCh'[c] = Tail(errCh[c])
  BY <1>1 DEF LastError, Goto, TypeInv
<1>5. first[c].from \in Dirs
  BY <1>1, <1>4 DEF ChannelInv, TypeInv
<1>6. PipeInv(c)'
  BY <1>1, <1>4 DEF PipeInv
<1>7. ChannelInv(c)'
  <2>1. Received(c) = 1 /\ Received(c)' = 2 /\ Ended(c)' = Ended(c)
    BY <1>4, <1>5 DEF Received, Ended, Dirs
  <2>2. Len(errCh[c]) + 1 = Ended(c)
    BY <1>1, <1>3, <2>1 DEF ChannelInv
  <2>3. (Len(errCh[c]) + Received(c) = Ended(c))'
    BY <1>3, <1>4, <2>1, <2>2
  <2> QED
    BY <1>1, <1>3, <1>4, <1>5, <2>3 DEF ChannelInv, Dirs
<1>8. ResponseInv(c)'
  BY <1>1, <1>4 DEF ResponseInv, Out
<1>9. ReportInv(c)'
  BY <1>1, <1>4 DEF ReportInv, Out
<1> QED
  BY <1>6, <1>7, <1>8, <1>9 DEF ConnInv

(* The errors in the channel name the sides that were read.                *)
LEMMA ErrorsNameSides ==
    ASSUME TypeInv, NEW c \in Conns
    PROVE  \A e \in Items(errCh[c]) : e.from \in Dirs
<1> DEFINE S == [from : Dirs, how : {"normal", "abnormal", "closed"}]
<1>1. errCh[c] \in Seq(S) /\ \A e \in S : e.from \in Dirs
  BY DEF TypeInv
<1> HIDE DEF S
<1> QED
  BY <1>1 DEF Items

(* A frame is read: the text and the completion are noted, and its events  *)
(* are in hand.                                                            *)
LEMMA ReadKeeps ==
    ASSUME Inv, TypeInv', NEW c \in Conns, NEW d \in Dirs, ReadMessage(c, d)
    PROVE  ConnInv(c)'
<1>1. TypeInv /\ PipeInv(c) /\ ChannelInv(c) /\ ResponseInv(c) /\ ReportInv(c)
  BY DEF Inv, ConnInv
<1> DEFINE n == nread[c][d] + 1
           q == todo'[c][d]
<1>2. /\ n \in 1..Len(Script(c, d)) /\ q \in Seq(EventSet)
      /\ \A x \in Conns, y \in Dirs : x # c \/ y # d => todo'[x][y] = todo[x][y]
      /\ \A e \in Items(q) : e.conn = c /\ e.kind \in KindsOf(d) /\ e.frame = n
      /\ d = "client" => state' = state
  BY FrameRead
<1>3. /\ UNCHANGED <<main, sent, errCh, first, cancelled, log, faults, late>>
      /\ pipe[c][d] = "read"
  BY DEF ReadMessage
<1>4. /\ nread'[c][d] = n /\ pipe'[c][d] = "hook"
      /\ \A y \in Dirs : y # d => nread'[c][y] = nread[c][y] /\ pipe'[c][y] = pipe[c][y]
  BY <1>1 DEF ReadMessage, TypeInv
<1>5. \A y \in Dirs : nread[c][y] \in Nat /\ sent[c][y] \in Nat /\ Len(Script(c, y)) \in Nat
  BY <1>1, Typed
<1>6. n \in Nat /\ sent[c][d] < n /\ n <= Len(Script(c, d)) /\ 1..n = 1..nread[c][d] \cup {n}
  BY <1>1, <1>2, <1>5 DEF PipeInv
<1>7. \A y \in Dirs : y # d => todo'[c][y] = todo[c][y]
  BY <1>2
<1>8. Items(todo'[c][d]) = Items(q)
  OBVIOUS
<1>9. d = "server" =>
        /\ q # <<>> /\ Head(q).kind = "llm.response"
        /\ ServerScript[c][n].type = "completed" => Done(c, n) \in Items(q)
        /\ \A e \in Items(q) : e.kind = "agent.done" => ServerScript[c][n].type = "completed"
        /\ state'[c].completed = (state[c].completed \/ ServerScript[c][n].type = "completed")
  <2> SUFFICES ASSUME d = "server"
               PROVE  /\ q # <<>> /\ Head(q).kind = "llm.response"
                      /\ ServerScript[c][n].type = "completed" => Done(c, n) \in Items(q)
                      /\ \A e \in Items(q) : e.kind = "agent.done" =>
                           ServerScript[c][n].type = "completed"
                      /\ state'[c].completed =
                           (state[c].completed \/ ServerScript[c][n].type = "completed")
    OBVIOUS
  <2> DEFINE f == ServerScript[c][n]
  <2>1. /\ q # <<>> /\ Head(q).kind = "llm.response"
        /\ f.type = "completed" => Done(c, n) \in Items(q)
        /\ \A e \in Items(q) : e.kind = "agent.done" => f.type = "completed"
        /\ state' = [state EXCEPT ![c] =
                       [text |-> TextAfter(c, f),
                        completed |-> @.completed \/ f.type = "completed"]]
    BY FrameRead
  <2>2. state \in [Conns -> [text : Seq(Nat), completed : BOOLEAN]]
    BY <1>1 DEF TypeInv
  <2> HIDE DEF f
  <2>3. state'[c].completed = (state[c].completed \/ f.type = "completed")
    BY <2>1, <2>2
  <2> QED
    BY <2>1, <2>3 DEF f
<1> HIDE DEF n, q
<1>10. PipeInv(c)'
  <2> SUFFICES ASSUME NEW y \in Dirs
               PROVE  /\ nread'[c][y] <= Len(Script(c, y)) /\ sent'[c][y] <= nread'[c][y]
                      /\ pipe'[c][y] = "hook" => sent'[c][y] < nread'[c][y]
                      /\ pipe'[c][y] = "off" => nread'[c][y] = 0
                      /\ todo'[c][y] # <<>> => pipe'[c][y] = "hook"
                      /\ \A e \in Items(todo'[c][y]) :
                           e.conn = c /\ e.kind \in KindsOf(y) /\ e.frame = nread'[c][y]
    BY DEF PipeInv, Script
  <2>1. CASE y = d
    BY <1>2, <1>3, <1>4, <1>5, <1>6, <1>8, <2>1
  <2>2. CASE y # d
    BY <1>1, <1>3, <1>4, <1>7, <2>2 DEF PipeInv
  <2> QED
    BY <2>1, <2>2
<1>11. ChannelInv(c)'
  <2>1. \A y \in Dirs : pipe'[c][y] = "ended" <=> pipe[c][y] = "ended"
    BY <1>3, <1>4
  <2>2. Received(c)' = Received(c) /\ Ended(c)' = Ended(c)
    BY <1>3, <2>1 DEF Received, Ended, Dirs
  <2>3. main[c] \notin {"none", "dialed"} /\ first[c].from # "setup"
    BY <1>1, <1>3 DEF ChannelInv
  <2>4. \A e \in Items(errCh[c]) : e.from \in Dirs
    BY <1>1, ErrorsNameSides
  <2> QED
    BY <1>1, <1>3, <2>1, <2>2, <2>3, <2>4 DEF ChannelInv
<1>12. Out(c, "agent.done")' = Out(c, "agent.done") /\ Out(c, "agent.error")' = Out(c, "agent.error")
  BY <1>3 DEF Out
<1>13. CASE d = "client"
  <2>1. /\ todo'[c]["server"] = todo[c]["server"] /\ nread'[c]["server"] = nread[c]["server"]
        /\ state' = state
    BY <1>2, <1>4, <1>7, <1>13 DEF Dirs
  <2>2. ResponseInv(c)'
    BY <1>1, <1>3, <1>12, <2>1 DEF ResponseInv
  <2>3. ReportInv(c)'
    BY <1>1, <1>3, <1>12, <2>1 DEF ReportInv
  <2> QED
    BY <1>10, <1>11, <2>2, <2>3 DEF ConnInv
<1>14. CASE d = "server"
  <2>1. /\ todo'[c]["server"] = q /\ nread'[c]["server"] = n
        /\ todo[c]["server"] = <<>> /\ pipe[c]["server"] = "read"
    BY <1>1, <1>3, <1>4, <1>14 DEF q, PipeInv
  <2>2. Items(todo[c]["server"]) = {}
    BY <2>1 DEF Items
  <2>3. ResponseInv(c)'
    BY <1>1, <1>3, <1>6, <1>9, <1>12, <1>14, <2>1, <2>2 DEF ResponseInv
  <2>4. first[c].from # "server"
    BY <1>1, <2>1 DEF ChannelInv, Dirs
  <2>5. ReportInv(c)'
    BY <1>1, <1>3, <1>9, <1>12, <1>14, <2>1, <2>4 DEF ReportInv
  <2> QED
    BY <1>10, <1>11, <2>3, <2>5 DEF ConnInv
<1> QED
  BY <1>13, <1>14 DEF Dirs

(* An event of the hook is published, or its publication fails.            *)
LEMMA HookKeeps ==
    ASSUME Inv, TypeInv', NEW c \in Conns, NEW d \in Dirs, PublishMany(c, d)
    PROVE  ConnInv(c)'
<1>1. TypeInv /\ PipeInv(c) /\ ChannelInv(c) /\ ResponseInv(c) /\ ReportInv(c)
  BY DEF Inv, ConnInv
<1> DEFINE e == Head(todo[c][d])
           q == todo'[c][d]
<1>2. /\ \A x \in Conns, y \in Dirs : x # c \/ y # d => todo'[x][y] = todo[x][y]
      /\ Items(q) \subseteq Items(todo[c][d])
      /\ Items(log) \subseteq Items(log') /\ Items(log') \subseteq Items(log) \cup {e}
      /\ faults' = 0 => faults = 0
      /\ late \subseteq late'
      /\ cancelled[c] /\ c \notin late' => q = <<>>
      /\ faults' = 0 /\ ~cancelled[c] =>
           Items(log') \cup Items(q) = Items(log) \cup Items(todo[c][d])
  BY EventOut
<1>3. /\ UNCHANGED <<main, pipe, nread, sent, state, errCh, first, cancelled>>
      /\ pipe[c][d] = "hook" /\ todo[c][d] # <<>>
  BY DEF PublishMany
<1>4. e \in Items(todo[c][d]) /\ e.conn = c /\ e.kind \in KindsOf(d)
  BY <1>3, HookEvent
<1>5. \A y \in Dirs : y # d => todo'[c][y] = todo[c][y]
  BY <1>2
<1>6. d = "server" => e = Head(todo[c]["server"])
  OBVIOUS
<1>7. todo'[c][d] = q
  OBVIOUS
<1> HIDE DEF e, q
<1>8. PipeInv(c)'
  <2> SUFFICES ASSUME NEW y \in Dirs
               PROVE  /\ nread[c][y] <= Len(Script(c, y)) /\ sent[c][y] <= nread[c][y]
                      /\ pipe[c][y] = "hook" => sent[c][y] < nread[c][y]
                      /\ pipe[c][y] = "off" => nread[c][y] = 0
                      /\ todo'[c][y] # <<>> => pipe[c][y] = "hook"
                      /\ \A i \in Items(todo'[c][y]) :
                           i.conn = c /\ i.kind \in KindsOf(y) /\ i.frame = nread[c][y]
    BY <1>3 DEF PipeInv, Script
  <2>1. CASE y = d
    BY <1>1, <1>2, <1>3, <1>7, <2>1 DEF PipeInv
  <2>2. CASE y # d
    BY <1>1, <1>5, <2>2 DEF PipeInv
  <2> QED
    BY <2>1, <2>2
<1>9. ChannelInv(c)'
  BY <1>1, <1>3 DEF ChannelInv, Received, Ended
<1>10. Out(c, "agent.error")' = Out(c, "agent.error")
  BY <1>2, <1>4 DEF Out, KindsOf
<1>11. CASE d = "client"
  <2>1. todo'[c]["server"] = todo[c]["server"]
    BY <1>5, <1>11 DEF Dirs
  <2>2. Out(c, "agent.done")' = Out(c, "agent.done")
    BY <1>2, <1>4, <1>11 DEF Out, KindsOf
  <2>3. ResponseInv(c)'
    BY <1>1, <1>2, <1>3, <2>1, <2>2 DEF ResponseInv
  <2>4. ReportInv(c)'
    BY <1>1, <1>2, <1>3, <1>10, <2>1, <2>2 DEF ReportInv
  <2> QED
    BY <1>8, <1>9, <2>3, <2>4 DEF ConnInv
<1>12. CASE d = "server"
  <2>1. /\ todo'[c]["server"] = q /\ e = Head(todo[c]["server"])
        /\ todo[c]["server"] # <<>> /\ e \in Items(todo[c]["server"])
        /\ pipe[c]["server"] = "hook"
    BY <1>3, <1>4, <1>6, <1>7, <1>12
  <2>2. Out(c, "agent.done")' => Out(c, "agent.done") \/ e.kind = "agent.done"
    BY <1>2 DEF Out
  <2>3. Out(c, "agent.done") => Out(c, "agent.done")'
    BY <1>2 DEF Out
  <2>4. ResponseInv(c)'
    BY <1>1, <1>2, <1>3, <1>12, <2>1, <2>2 DEF ResponseInv
  <2>5. first[c].from # "setup"
    BY <1>1, <2>1 DEF ChannelInv, Dirs
  <2>6. first[c].from # "none" => cancelled[c]
    BY <1>1, <2>5 DEF ChannelInv, TypeInv
  <2>7. ReportInv(c)'
    <3>1. (faults = 0 /\ first[c].from = "server" /\ state[c].completed => Out(c, "agent.done"))'
      BY <1>1, <1>2, <1>3, <2>3 DEF ReportInv
    <3>2. (faults = 0 /\ main[c] \in {"last", "returned"} =>
             NormalClose(first[c]) \/ state[c].completed \/ Out(c, "agent.error"))'
      BY <1>1, <1>2, <1>3, <1>10 DEF ReportInv
    <3>3. ASSUME main[c] = "emit" \/ Out(c, "agent.error"), c \notin late'
          PROVE  ~Out(c, "agent.done")' /\ first[c].from # "none" /\ q = <<>>
      <4>1. ~Out(c, "agent.done") /\ first[c].from # "none" /\ e.kind # "agent.done"
        BY <1>1, <1>2, <2>1, <3>3 DEF ReportInv
      <4> QED
        BY <1>2, <2>2, <2>6, <3>3, <4>1
    <3> QED
      BY <1>3, <1>10, <2>1, <3>1, <3>2, <3>3 DEF ReportInv
  <2> QED
    BY <1>8, <1>9, <2>4, <2>7 DEF ConnInv
<1> QED
  BY <1>11, <1>12 DEF Dirs

(* A frame is written to the other side.                                   *)
LEMMA WriteKeeps ==
    ASSUME Inv, TypeInv', NEW c \in Conns, NEW d \in Dirs, WriteMessage(c, d)
    PROVE  ConnInv(c)'
<1>1. TypeInv /\ PipeInv(c) /\ ChannelInv(c) /\ ResponseInv(c) /\ ReportInv(c)
  BY DEF Inv, ConnInv
<1>2. /\ UNCHANGED <<main, todo, nread, state, errCh, first, cancelled, log, faults, late>>
      /\ pipe[c][d] = "hook" /\ todo[c][d] = <<>>
  BY DEF WriteMessage
<1>3. /\ sent'[c][d] = sent[c][d] + 1 /\ pipe'[c][d] = "read"
      /\ \A y \in Dirs : y # d => sent'[c][y] = sent[c][y] /\ pipe'[c][y] = pipe[c][y]
  BY <1>1 DEF WriteMessage, TypeInv
<1>4. PipeInv(c)'
  <2> SUFFICES ASSUME NEW y \in Dirs
               PROVE  /\ nread[c][y] <= Len(Script(c, y)) /\ sent'[c][y] <= nread[c][y]
                      /\ pipe'[c][y] = "hook" => sent'[c][y] < nread[c][y]
                      /\ pipe'[c][y] = "off" => nread[c][y] = 0
                      /\ todo[c][y] # <<>> => pipe'[c][y] = "hook"
                      /\ \A i \in Items(todo[c][y]) :
                           i.conn = c /\ i.kind \in KindsOf(y) /\ i.frame = nread[c][y]
    BY <1>2 DEF PipeInv, Script
  <2>1. CASE y = d
    <3>1. nread[c][d] \in Nat /\ sent[c][d] \in Nat /\ sent[c][d] < nread[c][d]
      BY <1>1, <1>2, Typed DEF PipeInv
    <3> QED
      BY <1>1, <1>2, <1>3, <2>1, <3>1 DEF PipeInv
  <2>2. CASE y # d
    BY <1>1, <1>3, <2>2 DEF PipeInv
  <2> QED
    BY <2>1, <2>2
<1>5. ChannelInv(c)'
  <2>1. \A y \in Dirs : pipe'[c][y] = "ended" <=> pipe[c][y] = "ended"
    BY <1>2, <1>3
  <2>2. Received(c)' = Received(c) /\ Ended(c)' = Ended(c)
    BY <1>2, <2>1 DEF Received, Ended, Dirs
  <2>3. main[c] \notin {"none", "dialed"} /\ first[c].from # "setup"
    BY <1>1, <1>2 DEF ChannelInv
  <2>4. \A e \in Items(errCh[c]) : e.from \in Dirs
    BY <1>1, ErrorsNameSides
  <2> QED
    BY <1>1, <1>2, <2>1, <2>2, <2>3, <2>4 DEF ChannelInv
<1>6. ResponseInv(c)'
  BY <1>1, <1>2 DEF ResponseInv, Out
<1>7. ReportInv(c)'
  BY <1>1, <1>2 DEF ReportInv, Out
<1> QED
  BY <1>4, <1>5, <1>6, <1>7 DEF ConnInv

(* A pipe ends and sends its error.                                        *)
LEMMA EndKeeps ==
    ASSUME Inv, TypeInv', NEW c \in Conns, NEW d \in Dirs,
           NEW how \in {"normal", "abnormal", "closed"}, PipeEnds(c, d, how),
           pipe[c][d] \in {"read", "hook"}, todo[c][d] = <<>>
    PROVE  ConnInv(c)'
<1>1. TypeInv /\ PipeInv(c) /\ ChannelInv(c) /\ ResponseInv(c) /\ ReportInv(c)
  BY DEF Inv, ConnInv
<1>2. UNCHANGED <<main, todo, nread, sent, state, first, cancelled, log, faults, late>>
  BY DEF PipeEnds
<1>3. /\ pipe'[c][d] = "ended"
      /\ \A y \in Dirs : y # d => pipe'[c][y] = pipe[c][y]
  BY <1>1 DEF PipeEnds, TypeInv
<1>4. PipeInv(c)'
  <2> SUFFICES ASSUME NEW y \in Dirs
               PROVE  /\ nread[c][y] <= Len(Script(c, y)) /\ sent[c][y] <= nread[c][y]
                      /\ pipe'[c][y] = "hook" => sent[c][y] < nread[c][y]
                      /\ pipe'[c][y] = "off" => nread[c][y] = 0
                      /\ todo[c][y] # <<>> => pipe'[c][y] = "hook"
                      /\ \A i \in Items(todo[c][y]) :
                           i.conn = c /\ i.kind \in KindsOf(y) /\ i.frame = nread[c][y]
    BY <1>2 DEF PipeInv, Script
  <2> QED
    BY <1>1, <1>3 DEF PipeInv
<1>5. ChannelInv(c)'
  <2> DEFINE S == [from : Dirs, how : {"normal", "abnormal", "closed"}]
             r == [from |-> d, how |-> how]
  <2>1. errCh[c] \in Seq(S) /\ r \in S /\ r.from = d /\ errCh'[c] = Append(errCh[c], r)
    BY <1>1 DEF TypeInv, PipeEnds
  <2> HIDE DEF S, r
  <2>2. /\ Items(errCh'[c]) = Items(errCh[c]) \cup {r}
        /\ Len(errCh'[c]) = Len(errCh[c]) + 1 /\ Len(errCh[c]) \in Nat
    BY <2>1, ItemsOfAppend, AppendProperties, LenProperties
  <2>3. Ended(c)' = Ended(c) + 1 /\ Ended(c) \in Nat
    BY <1>3 DEF Ended, Dirs
  <2>4. Received(c)' = Received(c) /\ Received(c) \in Nat
    BY <1>2 DEF Received
  <2>5. (Len(errCh[c]) + Received(c) = Ended(c))'
    BY <1>1, <2>2, <2>3, <2>4 DEF ChannelInv
  <2>6. main[c] \notin {"none", "dialed"} /\ first[c].from # "setup"
    BY <1>1 DEF ChannelInv
  <2>7. \A e \in Items(errCh[c]) : e.from \in Dirs
    BY <1>1, ErrorsNameSides
  <2>8. (\A e \in Items(errCh[c]) : pipe[c][e.from] = "ended")'
    BY <1>1, <1>3, <2>1, <2>2, <2>7 DEF ChannelInv
  <2> QED
    BY <1>1, <1>2, <1>3, <2>5, <2>6, <2>8 DEF ChannelInv
<1>6. ResponseInv(c)'
  BY <1>1, <1>2 DEF ResponseInv, Out
<1>7. ReportInv(c)'
  BY <1>1, <1>2 DEF ReportInv, Out
<1> QED
  BY <1>4, <1>5, <1>6, <1>7 DEF ConnInv

(* The steps of one connection.                                            *)
StepOf(c) ==
    \/ Dial(c) \/ Upgrade(c) \/ SetupFails(c) \/ Handler(c)
    \/ \E d \in Dirs :
         \/ ReadMessage(c, d) \/ Pipe(c, d) \/ WriteFails(c, d)
         \/ \E how \in {"normal", "abnormal"} : PeerEnds(c, d, how)

(* A step of one connection leaves the other connections alone.            *)
LEMMA OthersUntouched ==
    ASSUME Inv, NEW c \in Conns, StepOf(c), NEW b \in Conns, b # c
    PROVE  Untouched(b)
<1>1. TypeInv
  BY DEF Inv
<1>2. /\ main'[b] = main[b] /\ errCh'[b] = errCh[b] /\ first'[b] = first[b]
      /\ cancelled'[b] = cancelled[b] /\ state'[b] = state[b]
  <2>1. CASE Dial(c) \/ Upgrade(c) \/ SetupFails(c)
    BY <1>1, <2>1 DEF TypeInv, Dial, Upgrade, SetupFails, Goto
  <2>2. CASE Handler(c)
    BY <1>1, <2>2 DEF TypeInv, Handler, FirstError, CloseBoth, HandleWSError,
                      PublishError, LastError, Goto
  <2>3. ASSUME NEW d \in Dirs, ReadMessage(c, d)
        PROVE  /\ main'[b] = main[b] /\ errCh'[b] = errCh[b] /\ first'[b] = first[b]
               /\ cancelled'[b] = cancelled[b] /\ state'[b] = state[b]
    BY <1>1, <2>3 DEF TypeInv, ReadMessage
  <2>4. ASSUME NEW d \in Dirs,
               \/ Pipe(c, d) \/ WriteFails(c, d)
               \/ \E how \in {"normal", "abnormal"} : PeerEnds(c, d, how)
        PROVE  /\ main'[b] = main[b] /\ errCh'[b] = errCh[b] /\ first'[b] = first[b]
               /\ cancelled'[b] = cancelled[b] /\ state'[b] = state[b]
    BY <1>1, <2>4 DEF TypeInv, Pipe, PublishMany, WriteMessage, ConnectionClosed,
                      WriteFails, PeerEnds, PipeEnds
  <2> QED
    BY <2>1, <2>2, <2>3, <2>4 DEF StepOf
<1>3. pipe'[b] = pipe[b] /\ nread'[b] = nread[b] /\ sent'[b] = sent[b]
  BY <1>1 DEF TypeInv, StepOf, Dial, Upgrade, SetupFails, Handler, FirstError, CloseBoth,
              HandleWSError, PublishError, LastError, ReadMessage, Pipe, PublishMany,
              WriteMessage, ConnectionClosed, WriteFails, PeerEnds, PipeEnds
<1>4. todo'[b] = todo[b]
  BY <1>1 DEF TypeInv, StepOf, Dial, Upgrade, SetupFails, Handler, FirstError, CloseBoth,
              HandleWSError, PublishError, LastError, ReadMessage, Pipe, PublishMany,
              WriteMessage, ConnectionClosed, WriteFails, PeerEnds, PipeEnds
<1>5. /\ Items(log) \subseteq Items(log')
      /\ \A e \in Items(log') : e \in Items(log) \/ e.conn # b
      /\ faults' = 0 => faults = 0
      /\ b \in late' <=> b \in late
  <2>1. CASE PublishError(c)
    <3>1. /\ Items(log) \subseteq Items(log')
          /\ Items(log') \subseteq Items(log) \cup {Event(c, 0, "agent.error", <<>>)}
          /\ faults' = 0 => faults = 0
      BY <2>1, ErrorOut
    <3> QED
      BY <2>1, <3>1 DEF PublishError, Event
  <2>2. ASSUME NEW d \in Dirs, PublishMany(c, d)
        PROVE  /\ Items(log) \subseteq Items(log')
               /\ \A e \in Items(log') : e \in Items(log) \/ e.conn # b
               /\ faults' = 0 => faults = 0
               /\ b \in late' <=> b \in late
    <3>1. /\ Items(log) \subseteq Items(log')
          /\ Items(log') \subseteq Items(log) \cup {Head(todo[c][d])}
          /\ faults' = 0 => faults = 0
          /\ late \subseteq late' /\ late' \subseteq late \cup {c}
      BY <2>2, EventOut
    <3>2. Head(todo[c][d]).conn = c
      BY <2>2, HookEvent DEF PublishMany
    <3> QED
      BY <3>1, <3>2
  <2>3. CASE log' = log /\ faults' = faults /\ late' = late
    BY <2>3
  <2>4. \/ PublishError(c) \/ (\E d \in Dirs : PublishMany(c, d))
        \/ log' = log /\ faults' = faults /\ late' = late
    BY DEF StepOf, Dial, Upgrade, SetupFails, Handler, FirstError, CloseBoth,
           HandleWSError, LastError, ReadMessage, Pipe,
           WriteMessage, ConnectionClosed, WriteFails, PeerEnds, PipeEnds
  <2> QED
    BY <2>1, <2>2, <2>3, <2>4
<1> QED
  BY <1>2, <1>3, <1>4, <1>5 DEF Untouched

(* Every step keeps the invariant.                                         *)
LEMMA InvStep ==
    ASSUME Inv, [Next]_vars
    PROVE  Inv'
<1>1. TypeInv'
  BY TypeStep
<1>2. CASE UNCHANGED vars
  <2>1. \A c \in Conns : Untouched(c)
    BY <1>2 DEF Untouched, vars
  <2> QED
    BY <1>1, <2>1, UntouchedKeeps DEF Inv
<1>3. ASSUME NEW c \in Conns, StepOf(c)
      PROVE  Inv'
  <2>1. ConnInv(c)'
    <3>1. CASE Dial(c) \/ Upgrade(c) \/ SetupFails(c)
      BY <1>1, <3>1, SetupKeeps
    <3>2. CASE Handler(c)
      BY <1>1, <3>2, FirstErrorKeeps, DecisionKeeps, ErrorKeeps, LastErrorKeeps DEF Handler
    <3>3. ASSUME NEW d \in Dirs, ReadMessage(c, d)
          PROVE  ConnInv(c)'
      BY <1>1, <3>3, ReadKeeps
    <3>4. ASSUME NEW d \in Dirs, PublishMany(c, d)
          PROVE  ConnInv(c)'
      BY <1>1, <3>4, HookKeeps
    <3>5. ASSUME NEW d \in Dirs, WriteMessage(c, d)
          PROVE  ConnInv(c)'
      BY <1>1, <3>5, WriteKeeps
    <3>6. ASSUME NEW d \in Dirs,
                 \/ ConnectionClosed(c, d) \/ WriteFails(c, d)
                 \/ \E how \in {"normal", "abnormal"} : PeerEnds(c, d, how)
          PROVE  ConnInv(c)'
      <4>1. pipe[c][d] = "read" => todo[c][d] = <<>>
        BY DEF Inv, ConnInv, PipeInv
      <4>2. pipe[c][d] \in {"read", "hook"} /\ todo[c][d] = <<>>
        BY <3>6, <4>1 DEF ConnectionClosed, WriteFails, PeerEnds
      <4>3. PICK how \in {"normal", "abnormal", "closed"} : PipeEnds(c, d, how)
        BY <3>6 DEF ConnectionClosed, WriteFails, PeerEnds
      <4> QED
        BY <1>1, <4>2, <4>3, EndKeeps
    <3> QED
      BY <1>3, <3>1, <3>2, <3>3, <3>4, <3>5, <3>6 DEF StepOf, Pipe
  <2>2. ASSUME NEW b \in Conns, b # c
        PROVE  ConnInv(b)'
    BY <1>3, <2>2, OthersUntouched, UntouchedKeeps DEF Inv
  <2> QED
    BY <1>1, <2>1, <2>2 DEF Inv
<1> QED
  BY <1>2, <1>3 DEF Next, StepOf

-----------------------------------------------------------------------------
(* Every behaviour of the relay keeps the invariant.                       *)
THEOREM InvHolds == Spec => []Inv
BY InvInit, InvStep, PTL DEF Spec

(* The types hold, a pipe never writes a frame it has not read, and the    *)
(* channel of two places never holds or has held more than two errors, so  *)
(* no pipe blocks on it (proxy.go, errCh).                                 *)
THEOREM TypeCorrect == Spec => []TypeOK
<1>1. Inv => TypeOK
  <2> SUFFICES ASSUME Inv PROVE TypeOK
    OBVIOUS
  <2>1. TypeInv
    BY DEF Inv
  <2>2. ASSUME NEW c \in Conns, NEW d \in Dirs
        PROVE  /\ nread[c][d] \in 0..Len(Script(c, d))
               /\ sent[c][d] \in 0..nread[c][d]
               /\ Len(todo[c][d]) > 0 => pipe[c][d] = "hook"
    <3>1. /\ todo[c][d] \in Seq(EventSet) /\ nread[c][d] \in Nat /\ sent[c][d] \in Nat
          /\ Len(Script(c, d)) \in Nat
      BY <2>1, Typed
    <3>2. /\ nread[c][d] <= Len(Script(c, d)) /\ sent[c][d] <= nread[c][d]
          /\ todo[c][d] # <<>> => pipe[c][d] = "hook"
      BY DEF Inv, ConnInv, PipeInv
    <3>3. Len(todo[c][d]) > 0 => todo[c][d] # <<>>
      BY <3>1
    <3> QED
      BY <3>1, <3>2, <3>3
  <2>3. ASSUME NEW c \in Conns
        PROVE  /\ Len(errCh[c]) + (IF first[c].from \in Dirs THEN 1 ELSE 0) <= 2
               /\ state[c].completed \in BOOLEAN
    <3>1. Len(errCh[c]) \in Nat /\ state[c].completed \in BOOLEAN
      BY <2>1, Typed DEF Dirs
    <3>2. Len(errCh[c]) + Received(c) = Ended(c)
      BY DEF Inv, ConnInv, ChannelInv
    <3>3. Ended(c) \in 0..2
      BY DEF Ended
    <3>4. PICK r \in 0..1 :
            r = (IF first[c].from \in Dirs THEN 1 ELSE 0) /\ r <= Received(c)
      BY DEF Received
    <3>5. Received(c) \in Nat
      BY DEF Received
    <3>6. \A k, l \in Nat : k + l \in 0..2 /\ r <= l => k + r <= 2
      OBVIOUS
    <3>7. Len(errCh[c]) + r <= 2
      BY <3>1, <3>2, <3>3, <3>4, <3>5, <3>6
    <3> QED
      BY <3>1, <3>4, <3>7
  <2>4. faults \in 0..MaxFaults
    BY <2>1, ScriptAssumption DEF TypeInv
  <2> QED
    BY <2>1, <2>2, <2>3, <2>4 DEF TypeInv, TypeOK
<1> QED
  BY <1>1, InvHolds, PTL

(* Published says of the log what Out says of the events in it.            *)
LEMMA PublishedIsOut == \A c \in Conns : \A kind : Published(c, kind) <=> Out(c, kind)
BY DEF Published, Out, Items

(* A connection is never reported both done and failed, unless a flush was *)
(* answered although its context was over (proxy.go: cancel, then          *)
(* emitWSError; codex.go: handleWSError).                                  *)
THEOREM NotBoth == Spec => []DoneOrError
<1>1. Inv => DoneOrError
  BY PublishedIsOut DEF Inv, ConnInv, ReportInv, DoneOrError
<1> QED
  BY <1>1, InvHolds, PTL

(* No handler returns without an account of how its connection ended, as   *)
(* long as the bus answers: agent.done, agent.error, a normal close before *)
(* a response completed, or a completion that the provider's own end cut   *)
(* short (handleResponsesWebSocket, from the first error on).              *)
THEOREM Accounted == Spec => []EndIsAccounted
<1>1. Inv => EndIsAccounted
  <2> SUFFICES ASSUME Inv, NEW c \in Conns, main[c] = "returned", faults = 0
               PROVE  \/ Published(c, "agent.done")
                      \/ Published(c, "agent.error")
                      \/ NormalClose(first[c]) /\ ~state[c].completed
                      \/ state[c].completed /\ first[c].from = "client"
    BY DEF EndIsAccounted
  <2>1. TypeInv /\ PipeInv(c) /\ ChannelInv(c) /\ ResponseInv(c) /\ ReportInv(c)
    BY DEF Inv, ConnInv
  <2>2. NormalClose(first[c]) \/ state[c].completed \/ Out(c, "agent.error")
    BY <2>1 DEF ReportInv
  <2>3. CASE first[c].from = "server" /\ state[c].completed
    BY <2>1, <2>3, PublishedIsOut DEF ReportInv
  <2>4. first[c].from = "setup" => ~state[c].completed
    <3> SUFFICES ASSUME first[c].from = "setup" PROVE ~state[c].completed
      OBVIOUS
    <3>1. nread[c]["server"] = 0
      BY <2>1 DEF ChannelInv, PipeInv, Dirs
    <3> QED
      BY <2>1, <3>1 DEF ResponseInv
  <2>5. first[c].from \in {"client", "server", "setup"}
    BY <2>1 DEF ChannelInv, TypeInv, Dirs
  <2> QED
    BY <2>2, <2>3, <2>4, <2>5, PublishedIsOut
<1> QED
  BY <1>1, InvHolds, PTL

(* What the provider has received is on the bus: while the connection      *)
(* lasts and the bus answers, there is an agent.done for every completed   *)
(* frame that was written to it (pipeWebSocket: the hook, then the write). *)
THEOREM Seen == Spec => []SeenIsPublished
<1>1. Inv => SeenIsPublished
  <2> SUFFICES ASSUME Inv, NEW c \in Conns, faults = 0, ~cancelled[c]
               PROVE  Cardinality({n \in 1..Len(log) :
                                     log[n].conn = c /\ log[n].kind = "agent.done"})
                        >= Cardinality({i \in 1..sent[c]["server"] :
                                          ServerScript[c][i].type = "completed"})
    BY DEF SeenIsPublished
  <2> DEFINE P == {n \in 1..Len(log) : log[n].conn = c /\ log[n].kind = "agent.done"}
             F == {i \in 1..sent[c]["server"] : ServerScript[c][i].type = "completed"}
             g == [i \in F |-> CHOOSE n \in P : log[n].frame = i]
  <2>1. TypeInv /\ PipeInv(c) /\ ResponseInv(c)
    BY DEF Inv, ConnInv
  <2>2. /\ sent[c]["server"] \in Nat /\ nread[c]["server"] \in Nat
        /\ todo[c]["server"] \in Seq(EventSet)
    BY <2>1, Typed DEF Dirs
  <2>3. ASSUME NEW i \in F
        PROVE  \E n \in P : log[n].frame = i
    <3>1. i \in 1..nread[c]["server"] /\ ServerScript[c][i].type = "completed"
      BY <2>1, <2>2 DEF PipeInv, Dirs
    <3>2. Done(c, i) \in Items(log) \cup Items(todo[c]["server"])
      BY <2>1, <3>1 DEF ResponseInv
    <3>3. Done(c, i) \notin Items(todo[c]["server"])
      <4> SUFFICES ASSUME Done(c, i) \in Items(todo[c]["server"]) PROVE FALSE
        OBVIOUS
      <4>1. Done(c, i).frame = nread[c]["server"] /\ Done(c, i).frame = i
        BY <2>1 DEF PipeInv, Dirs, Done, Event
      <4>2. todo[c]["server"] # <<>>
        BY DEF Items
      <4>3. sent[c]["server"] < nread[c]["server"]
        BY <2>1, <4>2 DEF PipeInv, Dirs
      <4> QED
        BY <2>2, <4>1, <4>3
    <3>4. PICK n \in 1..Len(log) : log[n] = Done(c, i)
      BY <3>2, <3>3 DEF Items
    <3> QED
      BY <3>4 DEF Done, Event
  <2>4. Len(log) \in Nat
    <3>1. log \in Seq(EventSet)
      BY <2>1 DEF TypeInv
    <3> QED
      BY <3>1, LenProperties
  <2>5. IsFiniteSet(P)
    <3>1. IsFiniteSet(1..Len(log)) /\ P \in SUBSET (1..Len(log))
      BY <2>4, FS_Interval
    <3> HIDE DEF P
    <3> QED
      BY <3>1, FS_Subset
  <2> HIDE DEF P, F
  <2>6. \A i \in F : g[i] \in P /\ log[g[i]].frame = i
    BY <2>3
  <2>7. g \in Injection(F, P)
    <3>1. g \in [F -> P]
      BY <2>6
    <3>2. \A i, k \in F : g[i] = g[k] => i = k
      BY <2>6
    <3> HIDE DEF g
    <3> QED
      BY <3>1, <3>2 DEF Injection, IsInjective
  <2> HIDE DEF g
  <2>8. Cardinality(F) <= Cardinality(P) /\ IsFiniteSet(F)
    BY <2>5, <2>7, FS_Injection
  <2>9. Cardinality(F) \in Nat /\ Cardinality(P) \in Nat
    BY <2>5, <2>8, FS_CardinalityType
  <2>10. Cardinality(P) >= Cardinality(F)
    BY <2>8, <2>9
  <2> QED
    BY <2>10 DEF P, F
<1> QED
  BY <1>1, InvHolds, PTL

-----------------------------------------------------------------------------
(* The text of the first response.                                         *)

(* What the API sends is one text, as its documentation has it: a reply    *)
(* that has deltas says nothing before they do, response.completed repeats *)
(* the text or has none, and response.output_text.done is not white space. *)
InOrder(c) ==
    LET k == FirstCompleted(c)
    IN  /\ \A i \in 1..(k - 1) :
             ServerScript[c][i].type = "text.done" =>
                 \/ ServerScript[c][i].text = <<>>
                 \/ Trim(ServerScript[c][i].text) # <<>>
        /\ Deltas(c, k) # <<>> =>
             \A i \in 1..(k - 1) :
                 ServerScript[c][i].type \in {"text.done", "item"}
                     /\ Trim(ServerScript[c][i].text) # <<>>
                   => Deltas(c, i) # <<>>
        /\ k # 0 => \/ Trim(ServerScript[c][k].text) = <<>>
                    \/ Trim(ServerScript[c][k].text) = Whole(c)

(* There is nothing to trim of a trimmed text.                             *)
LEMMA TrimTwice ==
    ASSUME NEW t \in Seq(Nat)
    PROVE  Trim(t) = <<>> \/ Trim(Trim(t)) = Trim(t)
<1> DEFINE W == {i \in 1..Len(t) : t[i] # Blank}
<1>1. CASE W = {}
  BY <1>1 DEF Trim
<1>2. CASE W # {}
  <2>1. Len(t) \in Nat /\ W \subseteq 1..Len(t)
    BY LenProperties
  <2>2. /\ Min(W) \in W /\ Max(W) \in W
        /\ \A i \in W : Min(W) <= i /\ i <= Max(W)
    <3>1. W \subseteq 1..Len(t) /\ W # {} /\ Len(t) \in Nat
      BY <1>2, <2>1
    <3> HIDE DEF W
    <3> QED
      BY <3>1, MinMax
  <2>3. PICK a \in W, b \in W : a = Min(W) /\ b = Max(W)
    BY <2>2
  <2>4. a \in 1..Len(t) /\ b \in 1..Len(t) /\ a <= b /\ t[a] # Blank /\ t[b] # Blank
    BY <2>1, <2>2, <2>3
  <2> DEFINE s == SubSeq(t, a, b)
             V == {i \in 1..Len(s) : s[i] # Blank}
  <2>5. Trim(t) = s
    BY <1>2, <2>3 DEF Trim
  <2> HIDE DEF W
  <2>6. /\ s \in Seq(Nat) /\ Len(s) = b - a + 1
        /\ \A i \in 1..(b - a + 1) : s[i] = t[a + i - 1]
    BY <2>1, <2>4, SubSeqProperties
  <2> HIDE DEF s
  <2>7. 1 \in V /\ Len(s) \in V /\ Len(s) \in Nat /\ V \subseteq 1..Len(s)
    <3>1. 1 \in 1..Len(s) /\ Len(s) \in 1..Len(s) /\ s[1] = t[a] /\ s[Len(s)] = t[b]
      BY <2>1, <2>4, <2>6
    <3>2. s[1] # Blank /\ s[Len(s)] # Blank
      BY <2>4, <3>1
    <3>3. Len(s) \in Nat
      BY <2>6, LenProperties
    <3> QED
      BY <3>1, <3>2, <3>3
  <2>8. Trim(s) = IF V = {} THEN <<>> ELSE SubSeq(s, Min(V), Max(V))
    BY DEF Trim
  <2> HIDE DEF V
  <2>9. Min(V) = 1 /\ Max(V) = Len(s)
    <3>1. V # {}
      BY <2>7
    <3>2. /\ Min(V) \in V /\ Max(V) \in V
          /\ \A i \in V : Min(V) <= i /\ i <= Max(V)
      BY <2>7, <3>1, MinMax
    <3>3. PICK x \in V, y \in V : x = Min(V) /\ y = Max(V)
      BY <3>2
    <3> QED
      BY <2>7, <3>2, <3>3
  <2>10. Trim(s) = s
    BY <2>6, <2>7, <2>8, <2>9, PrefixSteps
  <2> QED
    BY <2>5, <2>10
<1> QED
  BY <1>1, <1>2
(* The deltas of the first frames, and what they add.                      *)
LEMMA DeltasGrow ==
    ASSUME NEW c \in Conns
    PROVE  /\ Deltas(c, 0) = <<>>
           /\ \A n \in 0..Len(ServerScript[c]) : Deltas(c, n) \in Seq(Nat)
           /\ \A n \in 0..(Len(ServerScript[c]) - 1) :
                Deltas(c, n + 1) = Deltas(c, n) \o DeltaOf(ServerScript[c][n + 1])
<1> DEFINE m == Len(ServerScript[c])
           f == [i \in 1..m |-> DeltaOf(ServerScript[c][i])]
<1>1. m \in Nat /\ \A i \in 1..m : ServerScript[c][i].text \in Seq(Nat)
  BY ScriptAssumption
<1>2. \A i \in 1..m : f[i] = DeltaOf(ServerScript[c][i]) /\ f[i] \in Seq(Nat)
  BY <1>1 DEF DeltaOf
<1>3. \A k \in 0..m : [i \in 1..k |-> f[i]] = [i \in 1..k |-> DeltaOf(ServerScript[c][i])]
  BY <1>1
<1>4. \A k \in 0..m : Deltas(c, k) = FlattenSeq([i \in 1..k |-> f[i]])
  BY <1>3 DEF Deltas
<1> HIDE DEF m, f
<1>5. /\ FlattenSeq([i \in 1..0 |-> f[i]]) = <<>>
      /\ \A k \in 0..m : FlattenSeq([i \in 1..k |-> f[i]]) \in Seq(Nat)
      /\ \A k \in 0..(m - 1) :
           FlattenSeq([i \in 1..(k + 1) |-> f[i]])
             = FlattenSeq([i \in 1..k |-> f[i]]) \o f[k + 1]
  BY <1>1, <1>2, FlattenPrefixes
<1>6. \A n \in 0..(m - 1) : n \in 0..m /\ n + 1 \in 0..m /\ n + 1 \in 1..m
  BY <1>1
<1>7. 0 \in 0..m
  BY <1>1
<1>8. \A n \in 0..(m - 1) : Deltas(c, n + 1) = Deltas(c, n) \o DeltaOf(ServerScript[c][n + 1])
  BY <1>2, <1>4, <1>5, <1>6
<1> QED
  BY <1>4, <1>5, <1>7, <1>8 DEF m

(* Deltas that have said something go on having said it.                   *)
LEMMA DeltasLast ==
    ASSUME NEW c \in Conns, NEW n \in 0..Len(ServerScript[c]),
           NEW k \in n..Len(ServerScript[c]), Deltas(c, n) # <<>>
    PROVE  Deltas(c, k) # <<>>
<1> DEFINE m == Len(ServerScript[c])
           A == {i \in 0..(m - n) : Deltas(c, n + i) # <<>>}
<1>1. m \in Nat /\ n \in Nat /\ n <= m /\ k - n \in 0..(m - n) /\ m - n \in Nat
  BY ScriptAssumption
<1>2. 0 \in A
  BY <1>1
<1>3. ASSUME NEW i \in 0..(m - n - 1), i \in A
      PROVE  i + 1 \in A
  <2>1. n + i \in 0..(m - 1) /\ n + i \in 0..m /\ i + 1 \in 0..(m - n)
    BY <1>1
  <2>2. Deltas(c, n + i) \in Seq(Nat) /\ Deltas(c, n + i) # <<>>
    BY <1>3, <2>1, DeltasGrow
  <2>3. Deltas(c, (n + i) + 1) = Deltas(c, n + i) \o DeltaOf(ServerScript[c][(n + i) + 1])
    BY <2>1, DeltasGrow
  <2>4. ServerScript[c][(n + i) + 1].text \in Seq(Nat)
    BY <1>1, <2>1, ScriptAssumption
  <2>5. DeltaOf(ServerScript[c][(n + i) + 1]) \in Seq(Nat)
    BY <2>4 DEF DeltaOf
  <2>6. Deltas(c, (n + i) + 1) # <<>>
    BY <2>2, <2>3, <2>5
  <2>7. (n + i) + 1 = n + (i + 1)
    BY <1>1
  <2> QED
    BY <2>1, <2>6, <2>7
<1>4. \A i \in 0..((m - n) - 1) : i \in A => i + 1 \in A
  BY <1>3
<1> HIDE DEF A
<1>5. 0..(m - n) \subseteq A
  BY <1>1, <1>2, <1>4, Induction
<1>6. k - n \in A /\ n + (k - n) = k
  BY <1>1, <1>5
<1> QED
  BY <1>6 DEF A
(* The first frame that completes a response, if there is one.             *)
LEMMA FirstIsFirst ==
    ASSUME NEW c \in Conns
    PROVE  /\ FirstCompleted(c) \in 0..Len(ServerScript[c])
           /\ FirstCompleted(c) # 0 => ServerScript[c][FirstCompleted(c)].type = "completed"
           /\ \A i \in 1..(FirstCompleted(c) - 1) : ServerScript[c][i].type # "completed"
           /\ \A i \in 1..Len(ServerScript[c]) :
                ServerScript[c][i].type = "completed" => FirstCompleted(c) # 0
<1> DEFINE m == Len(ServerScript[c])
           F == {i \in 1..m : ServerScript[c][i].type = "completed"}
<1>1. m \in Nat /\ F \subseteq 1..m
  BY ScriptAssumption
<1>2. FirstCompleted(c) = IF F = {} THEN 0 ELSE Min(F)
  BY DEF FirstCompleted
<1>3. /\ \A i \in F : ServerScript[c][i].type = "completed"
      /\ \A i \in 1..m : ServerScript[c][i].type = "completed" => i \in F
  OBVIOUS
<1> HIDE DEF m, F
<1>4. CASE F = {}
  BY <1>1, <1>2, <1>3, <1>4 DEF m
<1>5. CASE F # {}
  <2>1. Min(F) \in F /\ \A y \in F : Min(F) <= y
    BY <1>1, <1>5, MinMax
  <2>2. PICK k \in F : k = Min(F)
    BY <2>1
  <2>3. k = FirstCompleted(c) /\ k \in 1..m /\ \A y \in F : k <= y
    BY <1>1, <1>2, <1>5, <2>1, <2>2
  <2>4. \A i \in 1..(k - 1) : i \notin F /\ i \in 1..m
    BY <1>1, <2>3
  <2> QED
    BY <1>1, <1>3, <2>2, <2>3, <2>4 DEF m
<1> QED
  BY <1>4, <1>5

(* A frame has a text of its own that counts.                              *)
Says(f) == f.type # "other" /\ Trim(f.text) # <<>>

(* One frame more is at most one text more, and the first one stays first. *)
LEMMA TextsGrow ==
    ASSUME NEW c \in Conns, NEW n \in Nat
    PROVE  /\ Texts(c, 0) = {}
           /\ Says(ServerScript[c][n + 1]) => Texts(c, n + 1) = Texts(c, n) \cup {n + 1}
           /\ ~Says(ServerScript[c][n + 1]) => Texts(c, n + 1) = Texts(c, n)
           /\ Texts(c, n) # {} => Min(Texts(c, n + 1)) = Min(Texts(c, n))
           /\ Texts(c, n) = {} /\ Says(ServerScript[c][n + 1]) =>
                Min(Texts(c, n + 1)) = n + 1
<1>1. Texts(c, 0) = {}
  <2>1. 1..0 = {}
    OBVIOUS
  <2> QED
    BY <2>1 DEF Texts
<1>2. 1..(n + 1) = (1..n) \cup {n + 1}
  OBVIOUS
<1>3. /\ Texts(c, n) = {i \in 1..n : Says(ServerScript[c][i])}
      /\ Texts(c, n + 1) = {i \in 1..(n + 1) : Says(ServerScript[c][i])}
  BY DEF Texts, Says
<1>4. Texts(c, n) \subseteq 1..n /\ Texts(c, n + 1) \subseteq 1..(n + 1)
  BY <1>3
<1>5. /\ Says(ServerScript[c][n + 1]) => Texts(c, n + 1) = Texts(c, n) \cup {n + 1}
      /\ ~Says(ServerScript[c][n + 1]) => Texts(c, n + 1) = Texts(c, n)
  BY <1>2, <1>3
<1>6. ASSUME Texts(c, n) # {}
      PROVE  Min(Texts(c, n + 1)) = Min(Texts(c, n))
  <2> DEFINE S == Texts(c, n)
             T == Texts(c, n + 1)
  <2>1. T = S \/ T = S \cup {n + 1}
    BY <1>5
  <2> HIDE DEF S, T
  <2>2. S \subseteq 1..n /\ T \subseteq 1..(n + 1) /\ S # {} /\ T # {} /\ n + 1 \in Nat
    BY <1>4, <1>6, <2>1 DEF S, T
  <2>3. Min(S) \in S /\ \A y \in S : Min(S) <= y
    BY <2>2, MinMax
  <2>4. Min(T) \in T /\ \A y \in T : Min(T) <= y
    BY <2>2, MinMax
  <2>5. PICK a \in 1..n, b \in 1..(n + 1) : a = Min(S) /\ b = Min(T)
    BY <2>2, <2>3, <2>4
  <2>6. a \in S /\ b \in T /\ (\A y \in S : a <= y) /\ (\A y \in T : b <= y)
    BY <2>3, <2>4, <2>5
  <2>7. b <= a /\ (a <= b \/ b = n + 1)
    BY <2>1, <2>6
  <2> QED
    BY <2>5, <2>7 DEF S, T
<1>7. ASSUME Texts(c, n) = {}, Says(ServerScript[c][n + 1])
      PROVE  Min(Texts(c, n + 1)) = n + 1
  <2>1. Texts(c, n + 1) = {n + 1} /\ n + 1 \in Nat
    BY <1>5, <1>7
  <2> DEFINE T == Texts(c, n + 1)
  <2> HIDE DEF T
  <2>2. T = {n + 1}
    BY <2>1 DEF T
  <2>3. Min(T) \in T
    BY <2>1, <2>2, MinMax
  <2> QED
    BY <2>2, <2>3 DEF T
<1> QED
  BY <1>1, <1>5, <1>6, <1>7
(* What the text builder holds after the first n frames, if none of them   *)
(* completed a response.                                                   *)
TextIs(c, n, t) ==
    /\ Deltas(c, n) # <<>> => t = Deltas(c, n)
    /\ Deltas(c, n) = <<>> /\ Deltas(c, FirstCompleted(c)) # <<>> => t = <<>>
    /\ Deltas(c, FirstCompleted(c)) = <<>> /\ Texts(c, n) = {} => t = <<>>
    /\ Deltas(c, FirstCompleted(c)) = <<>> /\ Texts(c, n) # {} =>
         t # <<>> /\ Trim(t) = Trim(ServerScript[c][Min(Texts(c, n))].text)

(* At first it holds nothing, and a frame more leaves it what it has to be. *)
LEMMA NoText == ASSUME NEW c \in Conns PROVE TextIs(c, 0, <<>>)
BY DeltasGrow, TextsGrow DEF TextIs

LEMMA NextText ==
    ASSUME NEW c \in Conns, InOrder(c), NEW n \in Nat, n + 1 < FirstCompleted(c),
           state[c].text \in Seq(Nat), TextIs(c, n, state[c].text)
    PROVE  TextIs(c, n + 1, TextAfter(c, ServerScript[c][n + 1]))
<1> DEFINE f == ServerScript[c][n + 1]
           old == state[c].text
           new == TextAfter(c, f)
           k == FirstCompleted(c)
           m == Len(ServerScript[c])
<1>1. /\ m \in Nat /\ k \in 0..m /\ n + 1 \in 1..(k - 1) /\ n + 1 \in 1..m
      /\ n \in 0..(m - 1) /\ n + 1 \in 0..m /\ n \in 0..m
      /\ k \in n..m /\ k \in (n + 1)..m
  <2>1. m \in Nat /\ k \in 0..m
    BY FirstIsFirst, ScriptAssumption
  <2> HIDE DEF k, m
  <2>2. n + 1 < k
    BY DEF k
  <2> QED
    BY <2>1, <2>2
<1>2. f.type \in FrameTypes /\ f.text \in Seq(Nat) /\ f.type # "completed"
  BY <1>1, FirstIsFirst, ScriptAssumption
<1>3. /\ Deltas(c, n) \in Seq(Nat)
      /\ Deltas(c, n + 1) = Deltas(c, n) \o DeltaOf(f)
  BY <1>1, DeltasGrow
<1>4. /\ Says(f) => Texts(c, n + 1) = Texts(c, n) \cup {n + 1}
      /\ ~Says(f) => Texts(c, n + 1) = Texts(c, n)
      /\ Texts(c, n) # {} => Min(Texts(c, n + 1)) = Min(Texts(c, n))
      /\ Texts(c, n) = {} /\ Says(f) => Min(Texts(c, n + 1)) = n + 1
  BY TextsGrow
<1>5. /\ Deltas(c, n) # <<>> => Deltas(c, k) # <<>>
      /\ Deltas(c, n + 1) # <<>> => Deltas(c, k) # <<>>
  BY <1>1, DeltasLast
<1>6. /\ f.type = "text.done" => f.text = <<>> \/ Trim(f.text) # <<>>
      /\ Deltas(c, k) # <<>> /\ f.type \in {"text.done", "item"} /\ Trim(f.text) # <<>> =>
           Deltas(c, n + 1) # <<>>
  BY <1>1 DEF InOrder
<1>7. Trim(<<>>) = <<>>
  <2>1. {i \in 1..Len(<<>>) : <<>>[i] # Blank} = {}
    OBVIOUS
  <2> QED
    BY <2>1 DEF Trim
<1>8. Trim(f.text) = <<>> \/ Trim(Trim(f.text)) = Trim(f.text)
  BY <1>2, TrimTwice
<1>9. TextIs(c, n, old)
  OBVIOUS
<1>10. old \in Seq(Nat)
  OBVIOUS
<1>11. /\ f.type = "text.delta" => new = old \o f.text
       /\ f.type = "text.done" => new = IF old = <<>> THEN f.text ELSE old
       /\ f.type = "item" => new = IF old = <<>> THEN Trim(f.text) ELSE old
       /\ f.type = "other" => new = old
  <2> HIDE DEF f
  <2>1. CASE f.type = "text.delta"
    BY <2>1 DEF TextAfter
  <2>2. CASE f.type = "text.done"
    BY <2>2 DEF TextAfter
  <2>3. CASE f.type = "item"
    BY <2>3 DEF TextAfter
  <2>4. CASE f.type = "other"
    BY <2>4 DEF TextAfter
  <2>5. CASE f.type \notin {"text.delta", "text.done", "item", "other"}
    BY <2>5
  <2> QED
    BY <2>1, <2>2, <2>3, <2>4, <2>5
<1>12. f.text = ServerScript[c][n + 1].text
  OBVIOUS
<1> HIDE DEF f, old, new, k, m
<1>13. CASE f.type = "text.delta"
  <2>1. Deltas(c, n + 1) = Deltas(c, n) \o f.text /\ new = old \o f.text
    BY <1>3, <1>11, <1>13 DEF DeltaOf
  <2>2. CASE Deltas(c, n) # <<>>
    <3>1. old = Deltas(c, n) /\ Deltas(c, n + 1) # <<>> /\ Deltas(c, k) # <<>>
      BY <1>2, <1>3, <1>5, <1>9, <2>1, <2>2 DEF TextIs
    <3> QED
      BY <2>1, <3>1 DEF TextIs, k, new, f
  <2>3. CASE Deltas(c, n) = <<>> /\ f.text # <<>>
    <3>1. Deltas(c, n + 1) = f.text
      BY <1>2, <2>1, <2>3
    <3>2. Deltas(c, n + 1) # <<>> /\ Deltas(c, k) # <<>>
      BY <1>5, <2>3, <3>1
    <3>3. old = <<>>
      BY <1>9, <2>3, <3>2 DEF TextIs, k
    <3>4. new = f.text
      BY <1>2, <2>1, <3>3
    <3> QED
      BY <3>1, <3>2, <3>4 DEF TextIs, k, new, f
  <2>4. CASE Deltas(c, n) = <<>> /\ f.text = <<>>
    <3>1. Deltas(c, n + 1) = Deltas(c, n) /\ new = old
      BY <1>10, <2>1, <2>4
    <3>2. ~Says(f)
      BY <1>7, <2>4 DEF Says
    <3>3. Texts(c, n + 1) = Texts(c, n)
      BY <1>4, <3>2
    <3> QED
      BY <1>9, <3>1, <3>3 DEF TextIs, new, f
  <2> QED
    BY <2>2, <2>3, <2>4
<1>14. CASE f.type # "text.delta"
  <2>1. Deltas(c, n + 1) = Deltas(c, n)
    BY <1>3, <1>14 DEF DeltaOf
  <2>2. f.type \in {"text.done", "item", "other"}
    BY <1>2, <1>14 DEF FrameTypes
  <2>3. CASE Deltas(c, n) # <<>>
    <3>1. old # <<>> /\ old = Deltas(c, n) /\ Deltas(c, k) # <<>>
      BY <1>5, <1>9, <2>3 DEF TextIs
    <3>2. new = old
      BY <1>11, <2>2, <3>1
    <3> QED
      BY <2>1, <2>3, <3>1, <3>2 DEF TextIs, k, new, f
  <2>4. CASE Deltas(c, n) = <<>> /\ Deltas(c, k) # <<>>
    <3>1. old = <<>>
      BY <1>9, <2>4 DEF TextIs, k
    <3>2. f.type \in {"text.done", "item"} => Trim(f.text) = <<>>
      BY <1>6, <2>1, <2>4
    <3>3. new = <<>>
      BY <1>6, <1>11, <2>2, <3>1, <3>2
    <3> QED
      BY <2>1, <2>4, <3>3 DEF TextIs, k, new, f
  <2>5. CASE Deltas(c, n) = <<>> /\ Deltas(c, k) = <<>> /\ Texts(c, n) # {}
    <3>1. old # <<>> /\ Trim(old) = Trim(ServerScript[c][Min(Texts(c, n))].text)
      BY <1>9, <2>5 DEF TextIs, k
    <3>2. new = old
      BY <1>11, <2>2, <3>1
    <3>3. Min(Texts(c, n + 1)) = Min(Texts(c, n)) /\ Texts(c, n + 1) # {}
      BY <1>4, <2>5
    <3> QED
      BY <2>1, <2>5, <3>1, <3>2, <3>3 DEF TextIs, k, new, f
  <2>6. CASE Deltas(c, n) = <<>> /\ Deltas(c, k) = <<>> /\ Texts(c, n) = {} /\ ~Says(f)
    <3>1. old = <<>> /\ Texts(c, n + 1) = {}
      BY <1>4, <1>9, <2>6 DEF TextIs, k
    <3>2. new = <<>>
      BY <1>6, <1>11, <2>2, <2>6, <3>1 DEF Says
    <3> QED
      BY <2>1, <2>6, <3>1, <3>2 DEF TextIs, k, new, f
  <2>7. CASE Deltas(c, n) = <<>> /\ Deltas(c, k) = <<>> /\ Texts(c, n) = {} /\ Says(f)
    <3>1. old = <<>> /\ Texts(c, n + 1) # {} /\ Min(Texts(c, n + 1)) = n + 1
      BY <1>4, <1>9, <2>7 DEF TextIs, k
    <3>2. f.type \in {"text.done", "item"} /\ Trim(f.text) # <<>>
      BY <2>2, <2>7 DEF Says
    <3>3. f.text # <<>>
      BY <1>7, <3>2
    <3>4. new # <<>> /\ Trim(new) = Trim(f.text)
      BY <1>8, <1>11, <3>1, <3>2, <3>3
    <3> QED
      BY <1>12, <2>1, <2>7, <3>1, <3>4 DEF TextIs, k, new, f
  <2> QED
    BY <2>3, <2>4, <2>5, <2>6, <2>7
<1> QED
  BY <1>13, <1>14 DEF new, f
(* The first event of a frame of the API.                                  *)
LEMMA FrameSpeaksFirst ==
    ASSUME NEW c \in Conns, NEW n \in 1..Len(ServerScript[c]),
           state[c].text \in Seq(Nat)
    PROVE  Head(ResponseMessageEvents(c, n))
             = Event(c, n, "llm.response", AssistantText(c, ServerScript[c][n]))
<1> DEFINE f == ServerScript[c][n]
           e1 == Event(c, n, "llm.response", AssistantText(c, f))
           e2 == Event(c, n, "tool.call", <<>>)
           s2 == [i \in 1..f.calls |-> e2]
           s3 == IF f.type = "completed" THEN <<Event(c, n, "agent.done", <<>>)>> ELSE <<>>
<1>1. ResponseMessageEvents(c, n) = (<<e1>> \o s2) \o s3
  BY DEF ResponseMessageEvents
<1>2. f.calls \in Nat /\ n \in Nat
  BY ScriptAssumption
<1>3. e1 \in EventSet /\ e2 \in EventSet /\ Event(c, n, "agent.done", <<>>) \in EventSet
  BY <1>2, TextType DEF EventSet, Event, EventKinds
<1>4. s3 \in Seq(EventSet)
  BY <1>3
<1> HIDE DEF e1, e2, f, s3
<1>5. s2 \in Seq(EventSet)
  <2>1. s2 \in [1..f.calls -> EventSet]
    BY <1>3
  <2> QED
    BY <1>2, <2>1, SeqDef
<1> HIDE DEF s2
<1>6. <<e1>> \o s2 \in Seq(EventSet) /\ Len(<<e1>> \o s2) > 0 /\ (<<e1>> \o s2)[1] = e1
  BY <1>3, <1>5
<1> DEFINE r == <<e1>> \o s2
<1>7. r \in Seq(EventSet) /\ Len(r) > 0 /\ r[1] = e1
  BY <1>6
<1> HIDE DEF r
<1>8. Head(r \o s3) = e1
  BY <1>4, <1>7
<1> QED
  BY <1>1, <1>8 DEF r, e1, f

(* The llm.response of the frame that completes the first response has the *)
(* whole text.                                                             *)
LEMMA WholeIsSaid ==
    ASSUME NEW c \in Conns, InOrder(c), FirstCompleted(c) # 0,
           TextIs(c, FirstCompleted(c) - 1, state[c].text)
    PROVE  AssistantText(c, ServerScript[c][FirstCompleted(c)]) = Whole(c)
<1> DEFINE k == FirstCompleted(c)
           f == ServerScript[c][k]
           old == state[c].text
<1>1. /\ k \in 1..Len(ServerScript[c]) /\ k - 1 \in Nat /\ (k - 1) + 1 = k
      /\ k - 1 \in 0..(Len(ServerScript[c]) - 1)
  <2>1. Len(ServerScript[c]) \in Nat /\ k \in 0..Len(ServerScript[c]) /\ k # 0
    BY FirstIsFirst, ScriptAssumption
  <2> HIDE DEF k
  <2> QED
    BY <2>1
<1>2. f.type = "completed"
  BY FirstIsFirst
<1>3. Trim(f.text) = <<>> \/ Trim(f.text) = Whole(c)
  BY DEF InOrder
<1>4. TextIs(c, k - 1, old)
  OBVIOUS
<1>5. Deltas(c, k - 1) \in Seq(Nat) /\ Deltas(c, k) = Deltas(c, k - 1) \o DeltaOf(f)
  <2>1. PICK p \in Nat : p = k - 1 /\ p + 1 = k /\ p \in 0..(Len(ServerScript[c]) - 1)
    BY <1>1
  <2>2. p \in 0..Len(ServerScript[c])
    BY <1>1, <2>1
  <2>3. /\ Deltas(c, p) \in Seq(Nat)
        /\ Deltas(c, p + 1) = Deltas(c, p) \o DeltaOf(ServerScript[c][p + 1])
    BY <2>1, <2>2, DeltasGrow
  <2> QED
    BY <2>1, <2>3
<1>6. Says(f) \/ Texts(c, k) = Texts(c, k - 1)
  <2>1. PICK p \in Nat : p = k - 1 /\ p + 1 = k
    BY <1>1
  <2>2. Says(ServerScript[c][p + 1]) \/ Texts(c, p + 1) = Texts(c, p)
    BY TextsGrow
  <2> QED
    BY <2>1, <2>2
<1> HIDE DEF f, k, old
<1>7. CASE Trim(f.text) # <<>>
  <2>1. AssistantText(c, f) = Trim(f.text)
    BY <1>2, <1>7 DEF AssistantText
  <2> QED
    BY <1>3, <1>7, <2>1 DEF f, k
<1>8. CASE Trim(f.text) = <<>>
  <2>1. AssistantText(c, f) = Trim(old)
    BY <1>2, <1>8 DEF AssistantText, old
  <2>2. Deltas(c, k) = Deltas(c, k - 1)
    BY <1>1, <1>2, <1>5 DEF DeltaOf
  <2>3. Texts(c, k) = Texts(c, k - 1)
    BY <1>1, <1>6, <1>8 DEF Says
  <2>4. Trim(<<>>) = <<>>
    <3>1. {i \in 1..Len(<<>>) : <<>>[i] # Blank} = {}
      OBVIOUS
    <3> QED
      BY <3>1 DEF Trim
  <2>5. CASE Deltas(c, k) # <<>>
    <3>1. old = Deltas(c, k)
      BY <1>4, <2>2, <2>5 DEF TextIs
    <3>2. Whole(c) = Trim(Deltas(c, k))
      BY <2>5 DEF Whole, k
    <3> QED
      BY <2>1, <3>1, <3>2 DEF f, k
  <2>6. CASE Deltas(c, k) = <<>> /\ Texts(c, k) # {}
    <3>1. Trim(old) = Trim(ServerScript[c][Min(Texts(c, k))].text)
      BY <1>4, <2>3, <2>6 DEF TextIs, k
    <3>2. Whole(c) = Trim(ServerScript[c][Min(Texts(c, k))].text)
      BY <2>6 DEF Whole, k
    <3> QED
      BY <2>1, <3>1, <3>2 DEF f, k
  <2>7. CASE Deltas(c, k) = <<>> /\ Texts(c, k) = {}
    <3>1. old = <<>>
      BY <1>4, <2>3, <2>7 DEF TextIs, k
    <3>2. Whole(c) = <<>>
      BY <2>7 DEF Whole, k
    <3> QED
      BY <2>1, <2>4, <3>1, <3>2 DEF f, k
  <2> QED
    BY <2>5, <2>6, <2>7
<1> QED
  BY <1>7, <1>8 DEF f, k

(* The events this is about.                                               *)
Reply(c) == Event(c, FirstCompleted(c), "llm.response", Whole(c))
IsFirstDone(c, e) == e.conn = c /\ e.kind = "agent.done" /\ e.frame = FirstCompleted(c)

(* The text builder is right until a response is completed, and the reply  *)
(* goes ahead of the agent.done, in the hook and in the log.               *)
BuilderInv(c) ==
    nread[c]["server"] < FirstCompleted(c) =>
        TextIs(c, nread[c]["server"], state[c].text)
AheadInv(c) ==
    \A e \in Items(todo[c]["server"]) : IsFirstDone(c, e) =>
        Reply(c) \in Items(log) \/ Head(todo[c]["server"]) = Reply(c)
BeforeInv(c) ==
    \A n \in 1..Len(log) : IsFirstDone(c, log[n]) =>
        \E j \in 1..(n - 1) : log[j] = Reply(c)

WholeInv(c) == BuilderInv(c) /\ AheadInv(c) /\ BeforeInv(c)

(* What gets into the log: an agent.error, or what a hook publishes next.  *)
LEMMA LogGrows ==
    ASSUME Inv, NEW c \in Conns, StepOf(c)
    PROVE  \/ log' = log
           \/ log' = Append(log, Event(c, 0, "agent.error", <<>>))
           \/ \E d \in Dirs : /\ PublishMany(c, d) /\ todo[c][d] # <<>>
                              /\ log' = Append(log, Head(todo[c][d]))
<1>1. CASE PublishError(c)
  BY <1>1 DEF PublishError, PublishFault
<1>2. ASSUME NEW d \in Dirs, PublishMany(c, d)
      PROVE  todo[c][d] # <<>> /\ (log' = log \/ log' = Append(log, Head(todo[c][d])))
  BY <1>2 DEF PublishMany, PublishFault
<1>3. PublishError(c) \/ (\E d \in Dirs : PublishMany(c, d)) \/ log' = log
  BY DEF StepOf, Dial, Upgrade, SetupFails, Handler, FirstError, CloseBoth,
         HandleWSError, LastError, ReadMessage, Pipe,
         WriteMessage, ConnectionClosed, WriteFails, PeerEnds, PipeEnds
<1> QED
  BY <1>1, <1>2, <1>3

(* The reply stays ahead in the log, whatever is published.                *)
LEMMA BeforeKeeps ==
    ASSUME Inv, NEW c \in Conns, WholeInv(c), NEW b \in Conns, StepOf(b)
    PROVE  BeforeInv(c)'
<1>1. TypeInv /\ log \in Seq(EventSet) /\ Len(log) \in Nat
  BY LenProperties DEF Inv, TypeInv
<1>2. CASE log' = log
  BY <1>2 DEF WholeInv, BeforeInv
<1>3. ASSUME NEW e \in EventSet, log' = Append(log, e),
             IsFirstDone(c, e) => Reply(c) \in Items(log)
      PROVE  BeforeInv(c)'
  <2>1. /\ Len(log') = Len(log) + 1 /\ log'[Len(log) + 1] = e
        /\ \A i \in 1..Len(log) : log'[i] = log[i]
    BY <1>1, <1>3, AppendProperties
  <2> SUFFICES ASSUME NEW n \in 1..Len(log'), IsFirstDone(c, log'[n])
               PROVE  \E j \in 1..(n - 1) : log'[j] = Reply(c)
    BY DEF BeforeInv, Reply, IsFirstDone
  <2>2. CASE n = Len(log) + 1
    <3>1. Reply(c) \in Items(log)
      BY <1>3, <2>1, <2>2
    <3>2. PICK j \in 1..Len(log) : log[j] = Reply(c)
      BY <3>1 DEF Items
    <3>3. j \in 1..(n - 1) /\ log'[j] = Reply(c)
      BY <1>1, <2>1, <2>2, <3>2
    <3> QED
      BY <3>3
  <2>3. CASE n # Len(log) + 1
    <3>1. n \in 1..Len(log) /\ log'[n] = log[n]
      BY <1>1, <2>1, <2>3
    <3>2. PICK j \in 1..(n - 1) : log[j] = Reply(c)
      BY <3>1 DEF WholeInv, BeforeInv
    <3>3. j \in 1..Len(log)
      BY <1>1, <3>1
    <3> QED
      BY <2>1, <3>2, <3>3
  <2> QED
    BY <2>2, <2>3
<1>4. CASE log' = Append(log, Event(b, 0, "agent.error", <<>>))
  <2>1. Event(b, 0, "agent.error", <<>>) \in EventSet
    BY DEF EventSet, Event, EventKinds
  <2>2. ~IsFirstDone(c, Event(b, 0, "agent.error", <<>>))
    BY DEF IsFirstDone, Event
  <2> QED
    BY <1>3, <1>4, <2>1, <2>2
<1>5. ASSUME NEW d \in Dirs, todo[b][d] # <<>>, log' = Append(log, Head(todo[b][d]))
      PROVE  BeforeInv(c)'
  <2>1. PICK e : e = Head(todo[b][d])
    OBVIOUS
  <2>2. e \in EventSet /\ e \in Items(todo[b][d]) /\ e.conn = b /\ e.kind \in KindsOf(d)
    BY <1>5, <2>1, HookEvent
  <2>3. ASSUME IsFirstDone(c, e)
        PROVE  Reply(c) \in Items(log)
    <3>1. b = c /\ d = "server" /\ e.kind = "agent.done"
      BY <2>2, <2>3 DEF IsFirstDone, KindsOf, Dirs
    <3>2. Reply(c) \in Items(log) \/ e = Reply(c)
      BY <2>1, <2>2, <2>3, <3>1 DEF WholeInv, AheadInv
    <3>3. Reply(c).kind = "llm.response"
      BY DEF Reply, Event
    <3> QED
      BY <3>1, <3>2, <3>3
  <2>4. log' = Append(log, e)
    BY <1>5, <2>1
  <2> QED
    BY <1>3, <2>2, <2>3, <2>4
<1> QED
  BY <1>2, <1>4, <1>5, LogGrows
(* A frame of the API that is read leaves the builder right, and its reply *)
(* is the first of its events.                                             *)
LEMMA ReadIsWhole ==
    ASSUME Inv, NEW c \in Conns, InOrder(c), WholeInv(c), ReadMessage(c, "server")
    PROVE  BuilderInv(c)' /\ AheadInv(c)'
<1>1. TypeInv /\ "server" \in Dirs /\ state[c].text \in Seq(Nat) /\ nread[c]["server"] \in Nat
  BY Typed DEF Inv, Dirs
<1>2. PICK n \in Nat : n = nread[c]["server"]
  BY <1>1
<1>3. n + 1 \in 1..Len(ServerScript[c])
  BY <1>1, <1>2, Typed DEF ReadMessage, Script
<1>4. PICK k \in 0..Len(ServerScript[c]) : k = FirstCompleted(c)
  BY FirstIsFirst
<1>5. nread'[c]["server"] = n + 1
  BY <1>1, <1>2 DEF ReadMessage, TypeInv
<1>6. state'[c].text = TextAfter(c, ServerScript[c][n + 1])
  <2>1. state \in [Conns -> [text : Seq(Nat), completed : BOOLEAN]]
    BY <1>1 DEF TypeInv
  <2>2. state' = [state EXCEPT ![c] =
                    [text |-> TextAfter(c, ServerScript[c][n + 1]),
                     completed |-> @.completed \/ ServerScript[c][n + 1].type = "completed"]]
    BY <1>2 DEF ReadMessage
  <2> QED
    BY <2>1, <2>2
<1>7. todo'[c]["server"] = ResponseMessageEvents(c, n + 1)
  <2>1. todo \in [Conns -> [Dirs -> Seq(EventSet)]]
    BY <1>1 DEF TypeInv
  <2>2. todo' = [todo EXCEPT ![c]["server"] = ResponseMessageEvents(c, n + 1)]
    BY <1>2 DEF ReadMessage
  <2> QED
    BY <1>1, <2>1, <2>2
<1>8. n < k => TextIs(c, n, state[c].text)
  BY <1>2, <1>4 DEF WholeInv, BuilderInv
<1>9. BuilderInv(c)'
  <2> SUFFICES ASSUME n + 1 < k
               PROVE  TextIs(c, n + 1, TextAfter(c, ServerScript[c][n + 1]))
    BY <1>4, <1>5, <1>6 DEF BuilderInv, TextIs
  <2>1. n < k
    BY <1>4
  <2> QED
    BY <1>1, <1>4, <1>8, <2>1, NextText
<1>10. AheadInv(c)'
  <2> DEFINE q == ResponseMessageEvents(c, n + 1)
  <2> SUFFICES ASSUME NEW e \in Items(q), IsFirstDone(c, e)
               PROVE  Head(q) = Reply(c)
    BY <1>7 DEF AheadInv, IsFirstDone, Reply
  <2>1. e.frame = n + 1
    BY <1>1, <1>3, ResponseFrame
  <2>2. k = n + 1 /\ k # 0 /\ k - 1 = n /\ n < k
    BY <1>4, <2>1 DEF IsFirstDone
  <2>3. TextIs(c, k - 1, state[c].text)
    BY <1>8, <2>2
  <2>4. AssistantText(c, ServerScript[c][k]) = Whole(c)
    BY <1>4, <2>2, <2>3, WholeIsSaid
  <2>5. Head(q) = Event(c, n + 1, "llm.response", AssistantText(c, ServerScript[c][n + 1]))
    BY <1>1, <1>3, FrameSpeaksFirst
  <2> QED
    BY <1>4, <2>2, <2>4, <2>5 DEF Reply
<1> QED
  BY <1>9, <1>10

(* So does every step, of this connection or of another.                   *)
LEMMA WholeStep ==
    ASSUME Inv, NEW c \in Conns, InOrder(c), WholeInv(c), [Next]_vars
    PROVE  WholeInv(c)'
<1>1. CASE UNCHANGED vars
  BY <1>1 DEF vars, WholeInv, BuilderInv, AheadInv, BeforeInv, TextIs, IsFirstDone, Reply
<1>2. ASSUME NEW b \in Conns, StepOf(b)
      PROVE  WholeInv(c)'
  <2>1. BeforeInv(c)'
    BY <1>2, BeforeKeeps
  <2>2. ASSUME todo'[c]["server"] = todo[c]["server"] /\ nread'[c]["server"] = nread[c]["server"],
               state'[c] = state[c], Items(log) \subseteq Items(log')
        PROVE  BuilderInv(c)' /\ AheadInv(c)'
    BY <2>2 DEF WholeInv, BuilderInv, AheadInv, TextIs, IsFirstDone, Reply
  <2>3. ASSUME b # c
        PROVE  BuilderInv(c)' /\ AheadInv(c)'
    BY <1>2, <2>2, <2>3, OthersUntouched DEF Untouched
  <2>4. Items(log) \subseteq Items(log')
    <3>1. log \in Seq(EventSet)
      BY DEF Inv, TypeInv
    <3>2. ASSUME NEW e, log' = Append(log, e)
          PROVE  Items(log) \subseteq Items(log')
      <4>1. Len(log) \in Nat /\ Len(log') = Len(log) + 1 /\ \A i \in 1..Len(log) : log'[i] = log[i]
        BY <3>1, <3>2
      <4> QED
        BY <4>1 DEF Items
    <3> QED
      BY <1>2, <3>2, LogGrows
  <2>5. ASSUME NEW d \in Dirs, ReadMessage(c, d)
        PROVE  BuilderInv(c)' /\ AheadInv(c)'
    <3>1. CASE d = "server"
      BY <2>5, <3>1, ReadIsWhole
    <3>2. CASE d = "client"
      <4>1. todo \in [Conns -> [Dirs -> Seq(EventSet)]] /\ nread \in [Conns -> [Dirs -> Nat]]
        BY DEF Inv, TypeInv
      <4>2. state' = state /\ nread'[c]["server"] = nread[c]["server"]
        BY <2>5, <3>2, <4>1 DEF ReadMessage
      <4>3. todo'[c]["server"] = todo[c]["server"]
        BY <2>5, <3>2, FrameRead DEF Dirs
      <4> QED
        BY <2>2, <2>4, <4>2, <4>3
    <3> QED
      BY <3>1, <3>2 DEF Dirs
  <2>6. ASSUME NEW d \in Dirs, PublishMany(c, d)
        PROVE  BuilderInv(c)' /\ AheadInv(c)'
    <3>1. state' = state /\ nread' = nread
      BY <2>6 DEF PublishMany
    <3>2. CASE d = "client"
      <4>1. todo'[c]["server"] = todo[c]["server"]
        BY <2>6, <3>2, EventOut DEF Dirs
      <4> QED
        BY <2>2, <2>4, <3>1, <4>1
    <3>3. CASE d = "server"
      <4>1. BuilderInv(c)'
        BY <3>1 DEF WholeInv, BuilderInv, TextIs
      <4>2. /\ todo[c]["server"] # <<>>
            /\ todo'[c]["server"] = <<>> \/ log' = Append(log, Head(todo[c]["server"]))
        <5>1. todo \in [Conns -> [Dirs -> Seq(EventSet)]]
          BY DEF Inv, TypeInv
        <5> QED
          BY <2>6, <3>3, <5>1 DEF PublishMany, PublishFault, Dirs
      <4>3. Items(todo'[c]["server"]) \subseteq Items(todo[c]["server"])
        BY <2>6, <3>3, EventOut
      <4>4. AheadInv(c)'
        <5> SUFFICES ASSUME NEW e \in Items(todo'[c]["server"]), IsFirstDone(c, e)
                     PROVE  Reply(c) \in Items(log')
          BY DEF AheadInv, IsFirstDone, Reply
        <5>1. Reply(c) \in Items(log) \/ Head(todo[c]["server"]) = Reply(c)
          BY <4>3 DEF WholeInv, AheadInv
        <5>2. todo'[c]["server"] # <<>>
          BY DEF Items
        <5>3. log' = Append(log, Head(todo[c]["server"])) /\ log \in Seq(EventSet)
          BY <4>2, <5>2 DEF Inv, TypeInv
        <5>4. Head(todo[c]["server"]) \in Items(log')
          <6>1. PICK x : x = Head(todo[c]["server"])
            OBVIOUS
          <6>2. Len(log) \in Nat /\ Len(log') = Len(log) + 1 /\ log'[Len(log) + 1] = x
            BY <5>3, <6>1
          <6> QED
            BY <6>1, <6>2 DEF Items
        <5> QED
          BY <2>4, <5>1, <5>4
      <4> QED
        BY <4>1, <4>4
    <3> QED
      BY <3>2, <3>3 DEF Dirs
  <2>7. ASSUME b = c, \A d \in Dirs : ~ReadMessage(c, d) /\ ~PublishMany(c, d)
        PROVE  BuilderInv(c)' /\ AheadInv(c)'
    <3>1. todo' = todo /\ nread' = nread /\ state' = state
      BY <1>2, <2>7 DEF StepOf, Dial, Upgrade, SetupFails, Handler, FirstError, CloseBoth,
           HandleWSError, PublishError, LastError, Pipe,
           WriteMessage, ConnectionClosed, WriteFails, PeerEnds, PipeEnds
    <3> QED
      BY <2>2, <2>4, <3>1
  <2> QED
    BY <2>1, <2>3, <2>5, <2>6, <2>7 DEF WholeInv
<1> QED
  BY <1>1, <1>2 DEF Next, StepOf

(* When the agent.done of a connection's first response is on the bus, so  *)
(* is the llm.response of its frame, before it and with the whole text,    *)
(* whatever publications failed and whichever peer was lost (messages.go,  *)
(* PublishMany), as long as the API sends one text.                        *)
THEOREM WholeText ==
    ASSUME \A c \in Conns : InOrder(c)
    PROVE  Spec => []WholeTextBeforeDone
<1> DEFINE AllWhole == \A c \in Conns : WholeInv(c)
<1>1. Init => AllWhole
  <2> SUFFICES ASSUME Init, NEW c \in Conns PROVE WholeInv(c)
    OBVIOUS
  <2>1. /\ todo[c]["server"] = <<>> /\ state[c].text = <<>> /\ log = <<>>
        /\ nread[c]["server"] = 0
    BY DEF Init, Dirs
  <2>2. BuilderInv(c)
    BY <2>1, NoText DEF BuilderInv
  <2>3. AheadInv(c) /\ BeforeInv(c)
    BY <2>1 DEF AheadInv, BeforeInv, Items
  <2> QED
    BY <2>2, <2>3 DEF WholeInv
<1>2. Inv /\ AllWhole /\ [Next]_vars => AllWhole'
  BY WholeStep
<1>3. Inv /\ AllWhole => WholeTextBeforeDone
  <2> SUFFICES ASSUME Inv, AllWhole, NEW n \in 1..Len(log),
                      log[n].kind = "agent.done",
                      log[n].frame = FirstCompleted(log[n].conn)
               PROVE  \E k \in 1..(n - 1) :
                        log[k] = Event(log[n].conn, log[n].frame, "llm.response",
                                       Whole(log[n].conn))
    BY DEF WholeTextBeforeDone
  <2>1. log[n] \in EventSet
    BY DEF Inv, TypeInv
  <2>2. PICK c \in Conns : c = log[n].conn
    BY <2>1 DEF EventSet
  <2>3. IsFirstDone(c, log[n])
    BY <2>2 DEF IsFirstDone
  <2>4. PICK j \in 1..(n - 1) : log[j] = Reply(c)
    BY <2>3 DEF WholeInv, BeforeInv
  <2> QED
    BY <2>2, <2>4 DEF Reply
<1> HIDE DEF AllWhole
<1> QED
  BY <1>1, <1>2, <1>3, InvHolds, PTL DEF Spec

-----------------------------------------------------------------------------
(* Exchanges over plain HTTP.                                              *)

Pair       == Nat \X Nat
OutputItem == [type : {"message", "function_call"}, pieces : Nat]
HTTPKinds  == {"llm.request", "tool.result", "llm.response", "tool.call",
               "agent.done"}
HTTPEvent  == [kind : HTTPKinds, id : Pair \cup {<<>>}, words : Seq(Pair)]

(* The words of an item, and what the frames of the first n items of an    *)
(* output say: each message in pieces and as a whole.                      *)
WordsIn(o, i)  == [k \in 1..o[i].pieces |-> <<i, k>>]
Pieces(i, n)   == [k \in 1..n |-> <<i, k>>]
Heard(o, n)    == FlattenSeq([i \in 1..n |-> WordsIn(o, i) \o WordsIn(o, i)])
Written(o, n)  == FlattenSeq([i \in 1..n |-> WordsIn(o, i)])
CallIn(r, o, i) == IF o[i].type = "function_call" THEN <<<<r, i>>>> ELSE <<>>
CallsIn(r, o)  == FlattenSeq([i \in 1..Len(o) |-> CallIn(r, o, i)])

(* What is heard grows by an item twice over, what is written by the item. *)
LEMMA WordsGrow ==
    ASSUME NEW o \in Seq(OutputItem)
    PROVE  /\ Len(o) \in Nat
           /\ \A i \in 1..Len(o) : WordsIn(o, i) \in Seq(Pair)
           /\ Heard(o, 0) = <<>> /\ Written(o, 0) = <<>>
           /\ \A n \in 0..Len(o) : Heard(o, n) \in Seq(Pair) /\ Written(o, n) \in Seq(Pair)
           /\ \A n \in 0..(Len(o) - 1) :
                /\ Heard(o, n + 1) = Heard(o, n) \o (WordsIn(o, n + 1) \o WordsIn(o, n + 1))
                /\ Written(o, n + 1) = Written(o, n) \o WordsIn(o, n + 1)
<1>1. Len(o) \in Nat /\ \A i \in 1..Len(o) : o[i] \in OutputItem
  OBVIOUS
<1>2. ASSUME NEW i \in 1..Len(o) PROVE WordsIn(o, i) \in Seq(Pair)
  <2>1. o[i].pieces \in Nat /\ i \in Nat
    BY <1>1 DEF OutputItem
  <2>2. \A k \in 1..o[i].pieces : <<i, k>> \in Pair
    BY <2>1 DEF Pair
  <2> QED
    BY <2>1, <2>2 DEF WordsIn
<1> DEFINE f == [i \in 1..Len(o) |-> WordsIn(o, i) \o WordsIn(o, i)]
           g == [i \in 1..Len(o) |-> WordsIn(o, i)]
<1>3. \A i \in 1..Len(o) : f[i] \in Seq(Pair) /\ g[i] \in Seq(Pair)
  BY <1>2
<1>4. ASSUME NEW n \in 0..Len(o)
      PROVE  /\ Heard(o, n) = FlattenSeq([i \in 1..n |-> f[i]])
             /\ Written(o, n) = FlattenSeq([i \in 1..n |-> g[i]])
  <2>1. \A i \in 1..n : i \in 1..Len(o)
    BY <1>1
  <2>2. /\ [i \in 1..n |-> WordsIn(o, i) \o WordsIn(o, i)] = [i \in 1..n |-> f[i]]
        /\ [i \in 1..n |-> WordsIn(o, i)] = [i \in 1..n |-> g[i]]
    BY <2>1
  <2> QED
    BY <2>2 DEF Heard, Written
<1>5. \A n \in 0..(Len(o) - 1) :
        /\ f[n + 1] = WordsIn(o, n + 1) \o WordsIn(o, n + 1)
        /\ g[n + 1] = WordsIn(o, n + 1)
  BY <1>1
<1> HIDE DEF f, g
<1>6. /\ FlattenSeq([i \in 1..0 |-> f[i]]) = <<>>
      /\ \A k \in 0..Len(o) : FlattenSeq([i \in 1..k |-> f[i]]) \in Seq(Pair)
      /\ \A k \in 0..(Len(o) - 1) :
           FlattenSeq([i \in 1..(k + 1) |-> f[i]])
             = FlattenSeq([i \in 1..k |-> f[i]]) \o f[k + 1]
  BY <1>1, <1>3, FlattenPrefixes
<1>7. /\ FlattenSeq([i \in 1..0 |-> g[i]]) = <<>>
      /\ \A k \in 0..Len(o) : FlattenSeq([i \in 1..k |-> g[i]]) \in Seq(Pair)
      /\ \A k \in 0..(Len(o) - 1) :
           FlattenSeq([i \in 1..(k + 1) |-> g[i]])
             = FlattenSeq([i \in 1..k |-> g[i]]) \o g[k + 1]
  BY <1>1, <1>3, FlattenPrefixes
<1>8. 0 \in 0..Len(o) /\ \A n \in 0..(Len(o) - 1) : n \in 0..Len(o) /\ n + 1 \in 0..Len(o)
  BY <1>1
<1>9. ASSUME NEW n \in 0..(Len(o) - 1)
      PROVE  /\ Heard(o, n + 1) = Heard(o, n) \o (WordsIn(o, n + 1) \o WordsIn(o, n + 1))
             /\ Written(o, n + 1) = Written(o, n) \o WordsIn(o, n + 1)
  BY <1>4, <1>5, <1>6, <1>7, <1>8
<1>10. Heard(o, 0) = <<>> /\ Written(o, 0) = <<>>
  BY <1>4, <1>6, <1>7, <1>8
<1>11. \A n \in 0..Len(o) : Heard(o, n) \in Seq(Pair) /\ Written(o, n) \in Seq(Pair)
  BY <1>4, <1>6, <1>7
<1> QED
  BY <1>1, <1>2, <1>9, <1>10, <1>11

(* Where nothing is written nothing is heard.                              *)
LEMMA SilenceIsHeard ==
    ASSUME NEW o \in Seq(OutputItem), Written(o, Len(o)) = <<>>
    PROVE  Heard(o, Len(o)) = <<>>
<1> DEFINE A == {n \in 0..Len(o) : Written(o, n) = <<>> => Heard(o, n) = <<>>}
<1>1. Len(o) \in Nat /\ 0 \in A
  BY WordsGrow
<1>2. ASSUME NEW k \in 0..(Len(o) - 1), k \in A
      PROVE  k + 1 \in A
  <2>1. k \in 0..Len(o) /\ k + 1 \in 0..Len(o) /\ k + 1 \in 1..Len(o)
    BY <1>1
  <2>2. PICK p, w : p = Written(o, k) /\ w = WordsIn(o, k + 1)
    OBVIOUS
  <2>3. p \in Seq(Pair) /\ w \in Seq(Pair) /\ Written(o, k + 1) = p \o w
        /\ Heard(o, k + 1) = Heard(o, k) \o (w \o w)
    BY <2>1, <2>2, WordsGrow
  <2>4. ASSUME p \o w = <<>> PROVE p = <<>> /\ w = <<>>
    <3>1. Len(p) \in Nat /\ Len(w) \in Nat /\ Len(p) + Len(w) = Len(p \o w)
      BY <2>3, ConcatProperties
    <3>2. Len(p \o w) = 0
      BY <2>4
    <3>3. Len(p) = 0 /\ Len(w) = 0
      BY <3>1, <3>2
    <3> QED
      BY <2>3, <3>3, EmptySeq
  <2>5. ASSUME p \o w = <<>> PROVE Heard(o, k + 1) = <<>>
    <3>1. Heard(o, k) = <<>>
      BY <1>2, <2>2, <2>4, <2>5
    <3> DEFINE e == <<>>
    <3>2. e \in Seq(Pair) /\ e = <<>>
      OBVIOUS
    <3> HIDE DEF e
    <3>3. e \o e = e
      BY <3>2, ConcatEmptySeq
    <3>4. Heard(o, k + 1) = e \o (e \o e)
      BY <2>3, <2>4, <2>5, <3>1, <3>2
    <3> QED
      BY <3>2, <3>3, <3>4
  <2> QED
    BY <2>1, <2>3, <2>5
<1> HIDE DEF A
<1>3. 0..Len(o) \subseteq A
  BY <1>1, <1>2, Induction
<1>4. Len(o) \in A
  BY <1>1, <1>3
<1> QED
  BY <1>4 DEF A
(* The calls of an output are ids.                                         *)
LEMMA CallsAreIds ==
    ASSUME NEW r \in Nat, NEW o \in Seq(OutputItem)
    PROVE  CallsIn(r, o) \in Seq(Pair)
<1> DEFINE f == [i \in 1..Len(o) |-> CallIn(r, o, i)]
<1>1. Len(o) \in Nat
  OBVIOUS
<1>2. ASSUME NEW i \in 1..Len(o) PROVE f[i] \in Seq(Pair)
  <2>1. <<r, i>> \in Pair
    BY <1>1 DEF Pair
  <2>2. CASE o[i].type = "function_call"
    BY <2>1, <2>2 DEF CallIn
  <2>3. CASE o[i].type # "function_call"
    BY <2>3 DEF CallIn
  <2> QED
    BY <2>2, <2>3
<1>3. CallsIn(r, o) = FlattenSeq([i \in 1..Len(o) |-> f[i]])
  <2>1. [i \in 1..Len(o) |-> CallIn(r, o, i)] = [i \in 1..Len(o) |-> f[i]]
    OBVIOUS
  <2> QED
    BY <2>1 DEF CallsIn
<1> HIDE DEF f
<1>4. \A k \in 0..Len(o) : FlattenSeq([i \in 1..k |-> f[i]]) \in Seq(Pair)
  BY <1>1, <1>2, FlattenPrefixes
<1>5. Len(o) \in 0..Len(o)
  BY <1>1
<1> QED
  BY <1>3, <1>4, <1>5

(* What is published of a request: a result for each output it holds, if   *)
(* it can be read.                                                         *)
LEMMA RequestItems ==
    ASSUME NEW ids \in Seq(Pair), NEW readable \in BOOLEAN
    PROVE  /\ RequestEvents(ids, readable) \in Seq(HTTPEvent)
           /\ \A e \in Items(RequestEvents(ids, readable)) :
                e.kind \in {"llm.request", "tool.result"}
           /\ readable => Items(ids) \subseteq
                {e.id : e \in {x \in Items(RequestEvents(ids, readable)) :
                                 x.kind = "tool.result"}}
<1> DEFINE found == ExtractToolResults(ids, readable)
           a == NewEvent("llm.request", <<>>, <<>>)
           q == <<a>>
           t == [i \in 1..Len(found) |-> NewEvent("tool.result", found[i], <<>>)]
<1>1. found \in Seq(Pair) /\ (readable => found = ids)
  BY DEF ExtractToolResults
<1>2. a \in HTTPEvent /\ a.kind = "llm.request"
  BY DEF NewEvent, HTTPEvent, HTTPKinds
<1>3. RequestEvents(ids, readable) = q \o t
  BY DEF RequestEvents
<1> HIDE DEF found, a
<1>4. Len(found) \in Nat /\ \A i \in 1..Len(found) : found[i] \in Pair
  BY <1>1
<1>5. ASSUME NEW i \in 1..Len(found)
      PROVE  t[i] \in HTTPEvent /\ t[i].kind = "tool.result" /\ t[i].id = found[i]
  BY <1>4 DEF NewEvent, HTTPEvent, HTTPKinds
<1>6. t \in Seq(HTTPEvent) /\ Len(t) = Len(found)
  BY <1>4, <1>5
<1>7. q \in Seq(HTTPEvent) /\ Len(q) = 1 /\ q[1] = a
  BY <1>2
<1> HIDE DEF t, q
<1>8. /\ q \o t \in Seq(HTTPEvent)
      /\ Items(q \o t) = Items(q) \cup Items(t)
  BY <1>6, <1>7, ItemsOfConcat
<1>9. /\ \A e \in Items(q) : e = a
      /\ \A e \in Items(t) : e.kind = "tool.result"
      /\ \A i \in 1..Len(found) : t[i] \in Items(t)
  BY <1>5, <1>6, <1>7 DEF Items
<1>10. ASSUME readable, NEW x \in Items(ids)
       PROVE  x \in {e.id : e \in {y \in Items(q \o t) : y.kind = "tool.result"}}
  <2>1. PICK i \in 1..Len(found) : x = found[i]
    BY <1>1, <1>10 DEF Items
  <2>2. t[i] \in Items(q \o t) /\ t[i].kind = "tool.result" /\ t[i].id = x
    BY <1>5, <1>8, <1>9, <2>1
  <2> QED
    BY <2>2
<1>11. \A e \in Items(q \o t) : e.kind \in {"llm.request", "tool.result"}
  BY <1>2, <1>8, <1>9
<1> QED
  BY <1>3, <1>8, <1>10, <1>11

(* What is published of a response: its text once, its calls, and that it  *)
(* is done if it is.                                                       *)
LEMMA ResponseItems ==
    ASSUME NEW w \in Seq(Pair), NEW calls \in Seq(Pair), NEW done \in BOOLEAN,
           NEW v, v = ResponseEvents(w, calls, done)
    PROVE  /\ v \in Seq(HTTPEvent)
           /\ NewEvent("llm.response", <<>>, w) \in Items(v)
           /\ \A e \in Items(v) : /\ e.kind \in {"llm.response", "tool.call", "agent.done"}
                                  /\ e.kind = "llm.response" => e.words = w
           /\ done <=> \E e \in Items(v) : e.kind = "agent.done"
           /\ {e.id : e \in {x \in Items(v) : x.kind = "tool.call"}} = Items(calls)
<1> DEFINE a == NewEvent("llm.response", <<>>, w)
           d == NewEvent("agent.done", <<>>, <<>>)
           q == <<a>>
           t == [i \in 1..Len(calls) |-> NewEvent("tool.call", calls[i], <<>>)]
           u == IF done THEN <<d>> ELSE <<>>
<1>1. a \in HTTPEvent /\ a.kind = "llm.response" /\ a.words = w
  BY DEF NewEvent, HTTPEvent, HTTPKinds
<1>2. d \in HTTPEvent /\ d.kind = "agent.done"
  BY DEF NewEvent, HTTPEvent, HTTPKinds
<1>3. v = (q \o t) \o u
  BY DEF ResponseEvents
<1>4. Len(calls) \in Nat /\ \A i \in 1..Len(calls) : calls[i] \in Pair
  OBVIOUS
<1>5. ASSUME NEW i \in 1..Len(calls)
      PROVE  t[i] \in HTTPEvent /\ t[i].kind = "tool.call" /\ t[i].id = calls[i]
  BY <1>4 DEF NewEvent, HTTPEvent, HTTPKinds
<1>6. t \in Seq(HTTPEvent) /\ Len(t) = Len(calls)
  BY <1>4, <1>5
<1> HIDE DEF a, d
<1>7. q \in Seq(HTTPEvent) /\ Len(q) = 1 /\ q[1] = a
  BY <1>1
<1>8. /\ u \in Seq(HTTPEvent)
      /\ done => Len(u) = 1 /\ u[1] = d
      /\ ~done => Len(u) = 0
  BY <1>2
<1> HIDE DEF t, q, u
<1>9. /\ q \o t \in Seq(HTTPEvent)
      /\ Items(q \o t) = Items(q) \cup Items(t)
  BY <1>6, <1>7, ItemsOfConcat
<1>10. PICK b \in Seq(HTTPEvent) : b = q \o t
  BY <1>9
<1>11. /\ b \o u \in Seq(HTTPEvent)
       /\ Items(b \o u) = Items(b) \cup Items(u)
  BY <1>8, <1>10, ItemsOfConcat
<1>12. Items(v) = (Items(q) \cup Items(t)) \cup Items(u) /\ v \in Seq(HTTPEvent)
  BY <1>3, <1>9, <1>10, <1>11
<1>13. Items(q) = {a}
  BY <1>7 DEF Items
<1>14. /\ done => Items(u) = {d}
       /\ ~done => Items(u) = {}
  BY <1>8 DEF Items
<1>15. Items(t) = {t[i] : i \in 1..Len(calls)}
  BY <1>6 DEF Items
<1>16. \A e \in Items(t) : e.kind = "tool.call"
  BY <1>5, <1>15
<1>17. \A e \in Items(v) : e = a \/ e \in Items(t) \/ (done /\ e = d)
  BY <1>12, <1>13, <1>14
<1>18. ASSUME NEW e \in Items(v)
       PROVE  /\ e.kind \in {"llm.response", "tool.call", "agent.done"}
              /\ e.kind = "llm.response" => e.words = w
              /\ e.kind = "agent.done" => done
              /\ e.kind = "tool.call" => e \in Items(t)
  BY <1>1, <1>2, <1>16, <1>17
<1>19. done => d \in Items(v)
  BY <1>12, <1>14
<1>20. {e.id : e \in {x \in Items(v) : x.kind = "tool.call"}} = Items(calls)
  <2>1. ASSUME NEW e \in Items(v), e.kind = "tool.call"
        PROVE  e.id \in Items(calls)
    <3>1. PICK i \in 1..Len(calls) : e = t[i]
      BY <1>15, <1>18, <2>1
    <3> QED
      BY <1>5, <3>1 DEF Items
  <2>2. ASSUME NEW i \in 1..Len(calls)
        PROVE  \E e \in Items(v) : e.kind = "tool.call" /\ e.id = calls[i]
    <3>1. t[i] \in Items(v)
      BY <1>12, <1>15
    <3> QED
      BY <1>5, <3>1
  <2> QED
    BY <2>1, <2>2 DEF Items
<1>21. a \in Items(v)
  BY <1>12, <1>13
<1> QED
  BY <1>2, <1>12, <1>18, <1>19, <1>20, <1>21 DEF a

(* Of the events of a round, the answer's alone say that it is done, what  *)
(* it calls and what was said.                                             *)
LEMMA RoundItems ==
    ASSUME NEW ids \in Seq(Pair), NEW readable \in BOOLEAN, NEW v \in Seq(HTTPEvent),
           events = RequestEvents(ids, readable) \o v
    PROVE  /\ "agent.done" \in Kinds(events) <=> \E e \in Items(v) : e.kind = "agent.done"
           /\ Ids("tool.call", events)
                = {e.id : e \in {x \in Items(v) : x.kind = "tool.call"}}
           /\ \A e : (e \in Range(events) /\ e.kind = "llm.response")
                       <=> (e \in Items(v) /\ e.kind = "llm.response")
<1>1. PICK r : r = RequestEvents(ids, readable)
  OBVIOUS
<1>2. /\ r \in Seq(HTTPEvent) /\ events = r \o v
      /\ \A e \in Items(r) : e.kind \in {"llm.request", "tool.result"}
  BY <1>1, RequestItems
<1>3. events \in Seq(HTTPEvent) /\ Items(events) = Items(r) \cup Items(v)
  BY <1>2, ItemsOfConcat
<1>4. Range(events) = Items(events)
  <2>1. DOMAIN events = 1..Len(events)
    BY <1>3
  <2> QED
    BY <2>1 DEF Range, Items
<1>5. Kinds(events) = {e.kind : e \in Items(events)}
  BY DEF Kinds, Items
<1>6. \A k : Ids(k, events) = {e.id : e \in {x \in Items(events) : x.kind = k}}
  BY DEF Ids, Items
<1>7. \A e \in Items(events) :
        e.kind \in {"agent.done", "tool.call", "llm.response"} => e \in Items(v)
  BY <1>2, <1>3
<1>8. \A e \in Items(v) : e \in Items(events)
  BY <1>3
<1>9. "agent.done" \in Kinds(events) <=> \E e \in Items(v) : e.kind = "agent.done"
  BY <1>5, <1>7, <1>8
<1>10. {x \in Items(events) : x.kind = "tool.call"} = {x \in Items(v) : x.kind = "tool.call"}
  BY <1>7, <1>8
<1>11. ASSUME NEW e
       PROVE (e \in Range(events) /\ e.kind = "llm.response")
                       <=> (e \in Items(v) /\ e.kind = "llm.response")
  BY <1>4, <1>7, <1>8
<1> QED
  BY <1>6, <1>9, <1>10, <1>11
-----------------------------------------------------------------------------
(* The invariant: what the text builder holds by the frames read, and what *)
(* the answer made of it.                                                  *)

StreamTypes ==
    /\ pc \in {"idle", "asked", "frames", "answered"} /\ round \in Nat
    /\ output \in Seq(OutputItem) /\ delivered \in Seq(Nat) /\ ended \in Nat
    /\ text \in Seq(Pair) /\ final \in {"nil", "output", "empty"}
    /\ completed \in BOOLEAN
    /\ history \in Seq(Pair)

FramesHeard ==
    /\ Open <= Len(output) /\ (ended = Open \/ ended + 1 = Open)
    /\ ended = Open => text = Heard(output, ended)
    /\ ended # Open => text = Heard(output, ended) \o Pieces(Open, delivered[Open])
    /\ completed => ended = Len(output)
    /\ ~completed => final = "nil"
    /\ pc = "asked" => ~completed

AnswerSays(v) ==
    \/ ~completed /\ fault \in {"none", "request"} /\ v = ResponseEvents(AllWords, Calls, TRUE)
    \/ ~completed /\ fault \in {"chat", "incomplete"} /\ v = ResponseEvents(AllWords, Calls, FALSE)
    \/ fault \in {"unreadable", "compressed"} /\ v = ResponseEvents(<<>>, <<>>, FALSE)
    \/ /\ completed /\ fault \in {"none", "request"}
       /\ v = ResponseEvents(FinalText, ToolCalls(final), TRUE)
    \/ ~completed /\ fault = "cut" /\ v = ResponseEvents(FinalText, ToolCalls(final), FALSE)
    \/ fault = "broken" /\ v = <<>>

RoundSaid ==
    /\ pc \in {"asked", "frames"} =>
         fault \in {"none", "request"} /\ events = RequestEvents(history, fault = "none")
    /\ pc = "answered" =>
         \E readable \in BOOLEAN, v \in Seq(HTTPEvent) :
            AnswerSays(v) /\ events = RequestEvents(history, readable) \o v

CallsAnswered == called \subseteq Items(history)

StreamInv == StreamTypes /\ FramesHeard /\ RoundSaid /\ CallsAnswered

(* The output as the model names its words and calls.                      *)
LEMMA OutputNamed ==
    ASSUME StreamTypes
    PROVE  /\ AllWords = Written(output, Len(output)) /\ Doubled = Heard(output, Len(output))
           /\ Calls = CallsIn(round, output)
           /\ AllWords \in Seq(Pair) /\ Calls \in Seq(Pair) /\ Doubled \in Seq(Pair)
           /\ FinalText \in Seq(Pair) /\ ToolCalls(final) \in Seq(Pair)
           /\ \A i : Words(i) = WordsIn(output, i)
<1>1. \A i : Words(i) = WordsIn(output, i)
  BY DEF Words, WordsIn
<1>2. AllWords = Written(output, Len(output)) /\ Doubled = Heard(output, Len(output))
  BY <1>1 DEF AllWords, Written, Doubled, Heard
<1>3. \A i : CallOf(i) = CallIn(round, output, i)
  BY DEF CallOf, CallIn, Id
<1>4. Calls = CallsIn(round, output)
  BY <1>3 DEF Calls, CallsIn
<1>5. Len(output) \in 0..Len(output)
  BY DEF StreamTypes
<1>6. AllWords \in Seq(Pair) /\ Doubled \in Seq(Pair)
  BY <1>2, <1>5, WordsGrow DEF StreamTypes
<1>7. Calls \in Seq(Pair)
  BY <1>4, CallsAreIds DEF StreamTypes
<1>8. <<>> \in Seq(Pair)
  OBVIOUS
<1>9. ToolCalls(final) \in Seq(Pair)
  <2>1. ToolCalls(final) = Calls \/ ToolCalls(final) = <<>>
    BY DEF ToolCalls
  <2> QED
    BY <1>7, <1>8, <2>1
<1>10. FinalText \in Seq(Pair)
  <2>1. FinalText = AllWords \/ FinalText = text \/ FinalText = <<>>
    BY DEF FinalText, Text
  <2> QED
    BY <1>6, <1>8, <2>1 DEF StreamTypes
<1> QED
  BY <1>1, <1>2, <1>4, <1>6, <1>7, <1>9, <1>10

(* A reply that does not change keeps its words and calls.                 *)
LEMMA SameOutput ==
    ASSUME output' = output, round' = round, text' = text, final' = final
    PROVE  /\ AllWords' = AllWords /\ Calls' = Calls
           /\ FinalText' = FinalText /\ ToolCalls(final)' = ToolCalls(final)
<1>1. AllWords' = AllWords
  BY DEF AllWords, Words
<1>2. Calls' = Calls
  BY DEF Calls, CallOf, Id
<1>3. FinalText' = FinalText
  BY <1>1 DEF FinalText, Text
<1>4. ToolCalls(final)' = ToolCalls(final)
  BY <1>2 DEF ToolCalls
<1> QED
  BY <1>1, <1>2, <1>3, <1>4

(* A conversation begins with the invariant.                               *)
LEMMA StreamInitInv == StreamInit => StreamInv
<1> SUFFICES ASSUME StreamInit PROVE StreamInv
  OBVIOUS
<1>1. /\ <<>> \in Seq(OutputItem) /\ <<>> \in Seq(Nat) /\ <<>> \in Seq(Pair)
      /\ Len(<<>>) = 0
  OBVIOUS
<1>2. StreamTypes
  BY <1>1 DEF StreamInit, StreamTypes
<1>3. FramesHeard
  <2>1. Open = 0 /\ Len(output) = 0 /\ ended = 0 /\ text = <<>>
    BY DEF StreamInit, Open
  <2>2. Heard(output, 0) = <<>>
    BY <1>2, WordsGrow DEF StreamTypes
  <2>3. final = "nil" /\ completed = FALSE
    BY DEF StreamInit
  <2> QED
    BY <2>1, <2>2, <2>3 DEF FramesHeard
<1>4. RoundSaid /\ CallsAnswered
  BY DEF StreamInit, RoundSaid, CallsAnswered
<1> QED
  BY <1>2, <1>3, <1>4 DEF StreamInv

(* The API's replies are sequences of items.                               *)
LEMMA OutputsAreItems == Outputs \subseteq Seq(OutputItem)
<1>1. OutputItems \subseteq OutputItem
  BY CodexStreamAssumption DEF OutputItems, OutputItem
<1>2. ASSUME NEW o \in Outputs PROVE o \in Seq(OutputItem)
  <2>1. PICK n \in 0..MaxItems : o \in [1..n -> OutputItems]
    BY DEF Outputs
  <2>2. n \in Nat
    BY <2>1, CodexStreamAssumption
  <2>3. o \in [1..n -> OutputItem]
    BY <1>1, <2>1
  <2> QED
    BY <2>2, <2>3
<1> QED
  BY <1>2

(* Types are kept.                                                         *)
LEMMA StepStreamTypes ==
    ASSUME StreamTypes, [StreamNext]_streamVars
    PROVE  StreamTypes'
<1> USE DEF StreamTypes
<1>1. CASE Request
  <2>1. output' \in Seq(OutputItem)
    BY <1>1, OutputsAreItems DEF Request
  <2>2. /\ pc' = "asked" /\ round' = round + 1 /\ history' = history
        /\ delivered' = <<>> /\ ended' = 0 /\ text' = <<>>
        /\ final' = "nil" /\ completed' = FALSE
    BY <1>1 DEF Request
  <2>3. <<>> \in Seq(Nat) /\ <<>> \in Seq(Pair)
    OBVIOUS
  <2>4. delivered' \in Seq(Nat) /\ text' \in Seq(Pair)
    BY <2>2, <2>3
  <2>5. round' \in Nat /\ history' \in Seq(Pair) /\ ended' \in Nat /\ completed' \in BOOLEAN
    <3>1. round' = round + 1 /\ ended' = 0 /\ completed' = FALSE /\ history' = history
      BY <2>2
    <3>2. round \in Nat /\ history \in Seq(Pair)
      OBVIOUS
    <3>3. round' \in Nat
      BY <3>1, <3>2
    <3>4. ended' \in Nat /\ completed' \in BOOLEAN
      BY <3>1
    <3> QED
      BY <3>1, <3>2, <3>3, <3>4
  <2>6. pc' = "asked" /\ final' = "nil"
    BY <2>2
  <2> QED
    BY <2>1, <2>4, <2>5, <2>6
<1>2. CASE \/ WholeResponse \/ StreamStarts \/ StreamEnds \/ StreamBreaks
           \/ StreamCompressed
  <2>1. /\ pc' \in {"frames", "answered"} /\ UNCHANGED <<round, output, history>>
        /\ UNCHANGED <<delivered, ended, text, final, completed>>
    BY <1>2 DEF WholeResponse, StreamStarts, StreamEnds, StreamBreaks,
                StreamCompressed, Answered, conversation
  <2> QED
    BY <2>1
<1>3. CASE OutputItemAdded
  <2>1. /\ delivered' = Append(delivered, 0) /\ UNCHANGED <<round, output, history>>
        /\ UNCHANGED <<pc, ended, text, final, completed>>
    BY <1>3 DEF OutputItemAdded, conversation
  <2>2. delivered' \in Seq(Nat)
    BY <2>1
  <2> QED
    BY <2>1, <2>2
<1>4. CASE OutputTextDelta
  <2>1. /\ delivered' = [delivered EXCEPT ![Open] = @ + 1]
        /\ text' = Append(text, <<Open, delivered'[Open]>>)
        /\ UNCHANGED <<round, output, history>> /\ UNCHANGED <<pc, ended, final, completed>>
    BY <1>4 DEF OutputTextDelta, conversation
  <2>2. Open \in 1..Len(delivered)
    <3>1. ended < Open /\ ended \in Nat /\ Open = Len(delivered) /\ Open \in Nat
      BY <1>4 DEF OutputTextDelta, InItem, Open
    <3> QED
      BY <3>1
  <2>3. delivered' \in Seq(Nat) /\ delivered'[Open] \in Nat
    BY <2>1, <2>2
  <2>4. <<Open, delivered'[Open]>> \in Pair
    BY <2>2, <2>3 DEF Pair
  <2>5. text' \in Seq(Pair)
    BY <2>1, <2>4
  <2> QED
    BY <2>1, <2>3, <2>5
<1>5. CASE OutputItemDone
  <2>1. /\ text' = text \o Words(Open) /\ ended' = ended + 1
        /\ UNCHANGED <<round, output, history>>
        /\ UNCHANGED <<pc, delivered, final, completed>>
    BY <1>5 DEF OutputItemDone, conversation
  <2>2. ASSUME NEW n \in Nat, NEW i \in Nat PROVE Pieces(i, n) \in Seq(Pair)
    <3>1. \A k \in 1..n : <<i, k>> \in Pair
      BY DEF Pair
    <3> QED
      BY <3>1 DEF Pieces
  <2>3. Words(Open) = Pieces(Open, delivered[Open]) /\ Open \in Nat
    BY <1>5 DEF OutputItemDone, Words, Pieces, Open
  <2>4. delivered[Open] \in Nat
    <3>1. Open \in 1..Len(delivered)
      <4>1. ended < Open /\ ended \in Nat /\ Open = Len(delivered) /\ Open \in Nat
        BY <1>5 DEF OutputItemDone, InItem, Open
      <4> QED
        BY <4>1
    <3> QED
      BY <3>1
  <2>5. Words(Open) \in Seq(Pair)
    BY <2>2, <2>3, <2>4
  <2>6. text' \in Seq(Pair)
    BY <2>1, <2>5, ConcatProperties
  <2> QED
    BY <2>1, <2>6
<1>6. CASE ResponseCompleted
  <2>1. /\ completed' = TRUE /\ final' \in {"nil", "output", "empty"}
        /\ UNCHANGED <<round, output, history>>
        /\ UNCHANGED <<pc, delivered, ended, text>>
    BY <1>6, CodexStreamAssumption DEF ResponseCompleted, conversation
  <2> QED
    BY <2>1
<1>7. CASE Proceed
  <2>1. /\ pc' = "idle"
        /\ UNCHANGED <<round, output, delivered, ended, text, final, completed>>
        /\ \/ history' = history \o <<>>
           \/ history' = history \o Calls
    BY <1>7 DEF Proceed
  <2>2. Calls \in Seq(Pair) /\ <<>> \in Seq(Pair)
    BY OutputNamed
  <2>3. history' \in Seq(Pair)
    BY <2>1, <2>2, ConcatProperties
  <2> QED
    BY <2>1, <2>3
<1>8. CASE UNCHANGED streamVars
  BY <1>8 DEF streamVars
<1> QED
  BY <1>1, <1>2, <1>3, <1>4, <1>5, <1>6, <1>7, <1>8 DEF StreamNext
(* The pieces of a message, one by one.                                    *)
LEMMA PiecesGrow ==
    ASSUME NEW i \in Nat, NEW n \in Nat
    PROVE  /\ Pieces(i, n) \in Seq(Pair) /\ <<i, n + 1>> \in Pair
           /\ Pieces(i, n + 1) = Append(Pieces(i, n), <<i, n + 1>>)
<1>1. \A k \in Nat : <<i, k>> \in Pair
  BY DEF Pair
<1>2. Pieces(i, n) \in Seq(Pair) /\ Pieces(i, n + 1) \in Seq(Pair)
  BY <1>1 DEF Pieces
<1>3. /\ Len(Pieces(i, n)) = n /\ Len(Pieces(i, n + 1)) = n + 1
      /\ \A k \in 1..n : Pieces(i, n)[k] = <<i, k>>
      /\ \A k \in 1..(n + 1) : Pieces(i, n + 1)[k] = <<i, k>>
  BY DEF Pieces
<1> DEFINE p == Pieces(i, n)
           q == Pieces(i, n + 1)
           e == <<i, n + 1>>
<1>4. e \in Pair /\ p \in Seq(Pair) /\ q \in Seq(Pair) /\ Len(p) = n /\ Len(q) = n + 1
  BY <1>1, <1>2, <1>3
<1>5. q[n + 1] = e /\ \A k \in 1..n : q[k] = p[k]
  BY <1>3
<1> HIDE DEF p, q, e
<1>6. /\ Append(p, e) \in Seq(Pair) /\ Len(Append(p, e)) = n + 1
      /\ \A k \in 1..n : Append(p, e)[k] = p[k]
      /\ Append(p, e)[n + 1] = e
  BY <1>4, AppendProperties
<1>7. ASSUME NEW k \in 1..Len(q) PROVE q[k] = Append(p, e)[k]
  <2>1. k \in 1..n \/ k = n + 1
    BY <1>4
  <2> QED
    BY <1>5, <1>6, <2>1
<1>8. q = Append(p, e)
  BY <1>4, <1>6, <1>7, SeqEqual
<1>9. e \in Pair /\ p \in Seq(Pair)
  BY <1>4
<1> QED
  BY <1>8, <1>9 DEF p, q, e

(* The builder holds what was heard: a piece is added to what is open, and *)
(* the end of an item adds the whole again.                                *)
LEMMA StepFramesHeard ==
    ASSUME StreamTypes, FramesHeard, StreamNext
    PROVE  FramesHeard'
<1>1. /\ Open \in Nat /\ ended \in Nat /\ Len(output) \in Nat
      /\ Open = Len(delivered)
  BY DEF StreamTypes, Open
<1>2. CASE Request
  <2>1. /\ pc' = "asked" /\ delivered' = <<>> /\ ended' = 0 /\ text' = <<>>
        /\ final' = "nil" /\ completed' = FALSE /\ output' \in Seq(OutputItem)
    BY <1>2, OutputsAreItems DEF Request
  <2>2. PICK o \in Seq(OutputItem) : o = output'
    BY <2>1
  <2>3. Heard(o, 0) = <<>> /\ Len(o) \in Nat
    BY <2>2, WordsGrow
  <2>4. Open' = 0 /\ Len(output)' \in Nat
    <3>1. Len(<<>>) = 0
      OBVIOUS
    <3> QED
      BY <2>1, <2>2, <2>3, <3>1 DEF Open
  <2>5. text' = Heard(o, ended')
    BY <2>1, <2>3
  <2> QED
    BY <2>1, <2>2, <2>4, <2>5 DEF FramesHeard
<1>3. CASE \/ WholeResponse \/ StreamStarts \/ StreamEnds \/ StreamBreaks
           \/ StreamCompressed \/ Proceed
  <2>1. /\ pc' \in {"frames", "answered", "idle"}
        /\ UNCHANGED <<output, delivered, ended, text, final, completed>>
    BY <1>3 DEF WholeResponse, StreamStarts, StreamEnds, StreamBreaks,
                StreamCompressed, Answered, conversation, Proceed
  <2>2. pc' # "asked"
    BY <2>1
  <2>3. Open' = Open
    BY <2>1 DEF Open
  <2> QED
    BY <2>1, <2>2, <2>3 DEF FramesHeard
<1>4. CASE OutputItemAdded
  <2>1. /\ delivered' = Append(delivered, 0)
        /\ UNCHANGED <<output, pc, ended, text, final, completed>>
        /\ ~(ended < Open) /\ Open < Len(output) /\ pc = "frames"
    BY <1>4 DEF OutputItemAdded, conversation, InItem, Streaming
  <2>2. ended = Open /\ text = Heard(output, ended)
    BY <1>1, <2>1 DEF FramesHeard
  <2>3. Open' = Open + 1 /\ delivered'[Open + 1] = 0
    <3>1. delivered \in Seq(Nat) /\ 0 \in Nat
      BY DEF StreamTypes
    <3>2. Len(Append(delivered, 0)) = Len(delivered) + 1
          /\ Append(delivered, 0)[Len(delivered) + 1] = 0
      BY <3>1, AppendProperties
    <3> QED
      BY <2>1, <3>2 DEF Open
  <2>4. PICK i \in Nat : i = Open + 1
    BY <1>1
  <2>5. Pieces(i, 0) = <<>>
    <3>1. 1..0 = {}
      OBVIOUS
    <3> QED
      BY <3>1 DEF Pieces
  <2>6. Heard(output, ended) \in Seq(Pair)
    BY <1>1, <2>1, <2>2, WordsGrow DEF StreamTypes
  <2>7. Heard(output, ended) \o <<>> = Heard(output, ended)
    BY <2>6, ConcatEmptySeq
  <2>8. text' = Heard(output, ended)' \o Pieces(Open, delivered[Open])'
    BY <2>1, <2>2, <2>3, <2>4, <2>5, <2>7
  <2>9. ended' + 1 = Open' /\ ended' # Open' /\ Open' <= Len(output)'
    BY <1>1, <2>1, <2>2, <2>3
  <2>10. (completed' => ended' = Len(output)') /\ (~completed' => final' = "nil")
         /\ (pc' = "asked" => ~completed')
    BY <2>1 DEF FramesHeard
  <2> QED
    BY <2>8, <2>9, <2>10 DEF FramesHeard
<1>5. CASE OutputTextDelta
  <2>1. /\ delivered' = [delivered EXCEPT ![Open] = @ + 1]
        /\ text' = Append(text, <<Open, delivered'[Open]>>)
        /\ UNCHANGED <<output, pc, ended, final, completed>>
        /\ ended < Open
    BY <1>5 DEF OutputTextDelta, conversation, InItem
  <2>2. /\ Open \in 1..Len(delivered) /\ ended + 1 = Open /\ ended # Open
        /\ text = Heard(output, ended) \o Pieces(Open, delivered[Open])
    BY <1>1, <2>1 DEF FramesHeard
  <2>3. PICK i \in Nat, n \in Nat : i = Open /\ n = delivered[Open]
    <3>1. delivered \in Seq(Nat)
      BY DEF StreamTypes
    <3>2. delivered[Open] \in Nat /\ Open \in Nat
      BY <1>1, <2>2, <3>1
    <3> QED
      BY <3>2
  <2>4. Open' = Open /\ delivered'[Open] = n + 1
    BY <2>1, <2>2, <2>3 DEF Open, StreamTypes
  <2>5. PICK h \in Seq(Pair) : h = Heard(output, ended)
    <3>1. ended \in 0..Len(output)
      BY <1>1, <2>2 DEF FramesHeard
    <3> QED
      BY <3>1, WordsGrow DEF StreamTypes
  <2>6. /\ Pieces(i, n) \in Seq(Pair) /\ <<i, n + 1>> \in Pair
        /\ Pieces(i, n + 1) = Append(Pieces(i, n), <<i, n + 1>>)
    BY PiecesGrow
  <2>7. text' = h \o Pieces(i, n + 1)
    <3>1. PICK p \in Seq(Pair), e \in Pair : p = Pieces(i, n) /\ e = <<i, n + 1>>
      BY <2>6
    <3>2. Append(h \o p, e) = h \o Append(p, e)
      <4>1. /\ h \o p \in Seq(Pair) /\ <<e>> \in Seq(Pair)
            /\ h \in Seq(Pair) /\ p \in Seq(Pair)
        BY <2>5, <3>1, ConcatProperties
      <4>2. Append(h \o p, e) = (h \o p) \o <<e>> /\ Append(p, e) = p \o <<e>>
        BY <3>1, <4>1, AppendIsConcat
      <4>3. (h \o p) \o <<e>> = h \o (p \o <<e>>)
        BY <4>1, ConcatAssociative
      <4> QED
        BY <4>2, <4>3
    <3>3. text' = Append(h \o p, e)
      BY <2>1, <2>2, <2>3, <2>4, <2>5, <3>1
    <3> QED
      BY <2>6, <3>1, <3>2, <3>3
  <2>8. text' = Heard(output, ended)' \o Pieces(Open, delivered[Open])'
    BY <2>1, <2>3, <2>4, <2>5, <2>7
  <2>9. ended' + 1 = Open' /\ ended' # Open' /\ Open' <= Len(output)'
    BY <2>1, <2>2, <2>4 DEF FramesHeard
  <2>10. (completed' => ended' = Len(output)') /\ (~completed' => final' = "nil")
         /\ (pc' = "asked" => ~completed')
    BY <2>1 DEF FramesHeard
  <2> QED
    BY <2>8, <2>9, <2>10 DEF FramesHeard
<1>6. CASE OutputItemDone
  <2>1. /\ text' = text \o Words(Open) /\ ended' = ended + 1
        /\ UNCHANGED <<output, pc, delivered, final, completed>>
        /\ ended < Open /\ ~completed
        /\ delivered[Open] = output[Open].pieces
    BY <1>6 DEF OutputItemDone, conversation, InItem, Streaming
  <2>2. /\ ended + 1 = Open /\ ended # Open
        /\ text = Heard(output, ended) \o Pieces(Open, delivered[Open])
        /\ ended \in 0..(Len(output) - 1)
    BY <1>1, <2>1 DEF FramesHeard
  <2>3. PICK h, w : h = Heard(output, ended) /\ w = WordsIn(output, ended + 1)
    OBVIOUS
  <2>4. /\ h \in Seq(Pair) /\ w \in Seq(Pair)
        /\ Heard(output, ended + 1) = h \o (w \o w)
    <3>1. ended \in 0..Len(output) /\ ended + 1 \in 1..Len(output)
      BY <1>1, <2>2
    <3> QED
      BY <2>2, <2>3, <3>1, WordsGrow DEF StreamTypes
  <2>5. Pieces(Open, delivered[Open]) = w /\ Words(Open) = w
    BY <2>1, <2>2, <2>3 DEF Pieces, WordsIn, Words
  <2>6. (h \o w) \o w = h \o (w \o w)
    BY <2>4, ConcatAssociative
  <2>7. text' = (h \o w) \o w
    BY <2>1, <2>2, <2>3, <2>5
  <2>8. text' = Heard(output', ended')
    BY <2>1, <2>4, <2>6, <2>7
  <2>9. ended' = Open' /\ Open' <= Len(output)'
    BY <2>1, <2>2 DEF FramesHeard, Open
  <2>10. ~completed' /\ final' = "nil"
    BY <2>1 DEF FramesHeard
  <2> QED
    BY <2>8, <2>9, <2>10 DEF FramesHeard
<1>7. CASE ResponseCompleted
  <2>1. /\ UNCHANGED <<output, pc, delivered, ended, text>> /\ pc = "frames"
        /\ completed' = TRUE /\ ended = Len(output)
    BY <1>7 DEF ResponseCompleted, conversation, Streaming
  <2>2. Open' = Open /\ pc' # "asked"
    BY <2>1 DEF Open
  <2> QED
    BY <2>1, <2>2 DEF FramesHeard
<1> QED
  BY <1>2, <1>3, <1>4, <1>5, <1>6, <1>7 DEF StreamNext
(* An answer is added to the events of its request.                        *)
LEMMA AnswerGiven ==
    ASSUME RoundSaid, pc \in {"asked", "frames"}, pc' = "answered", history' = history,
           NEW v \in Seq(HTTPEvent), AnswerSays(v)', events' = events \o v
    PROVE  RoundSaid'
<1>1. events = RequestEvents(history, fault = "none")
  BY DEF RoundSaid
<1>2. PICK readable \in BOOLEAN : readable = (fault = "none")
  OBVIOUS
<1>3. events' = RequestEvents(history', readable) \o v
  BY <1>1, <1>2
<1>4. \E r \in BOOLEAN, w \in Seq(HTTPEvent) :
         AnswerSays(w)' /\ events' = RequestEvents(history', r) \o w
  BY <1>3
<1> QED
  BY <1>4 DEF RoundSaid

(* What is published of a round is said by where the answer ended.         *)
LEMMA StepRoundSaid ==
    ASSUME StreamTypes, FramesHeard, RoundSaid, StreamNext
    PROVE  RoundSaid'
<1>1. CASE Request
  <2>1. PICK readable \in BOOLEAN :
          /\ events' = RequestEvents(history, readable)
          /\ fault' = IF readable THEN "none" ELSE "request"
    BY <1>1 DEF Request
  <2>2. pc' = "asked" /\ history' = history
    BY <1>1 DEF Request
  <2>3. fault' \in {"none", "request"} /\ events' = RequestEvents(history', fault' = "none")
    <3>1. CASE readable = TRUE
      BY <2>1, <2>2, <3>1
    <3>2. CASE readable = FALSE
      <4>1. fault' = "request" /\ (fault' = "none") = FALSE
        BY <2>1, <3>2
      <4> QED
        BY <2>1, <2>2, <3>2, <4>1
    <3> QED
      BY <3>1, <3>2
  <2> QED
    BY <2>2, <2>3 DEF RoundSaid
<1>2. CASE \/ StreamStarts \/ OutputItemAdded \/ OutputTextDelta
           \/ OutputItemDone \/ ResponseCompleted
  <2>1. /\ pc \in {"asked", "frames"} /\ pc' = "frames"
        /\ UNCHANGED <<fault, events, history>>
    BY <1>2 DEF StreamStarts, OutputItemAdded, OutputTextDelta, OutputItemDone,
                ResponseCompleted, Streaming, conversation
  <2> QED
    BY <2>1 DEF RoundSaid
<1> DEFINE Kept == /\ pc \in {"asked", "frames"} /\ fault \in {"none", "request"}
                   /\ UNCHANGED <<round, output, text, final, completed, history>>
<1>3. ASSUME Kept
      PROVE  /\ AllWords' = AllWords /\ Calls' = Calls
             /\ FinalText' = FinalText /\ ToolCalls(final)' = ToolCalls(final)
             /\ AllWords \in Seq(Pair) /\ Calls \in Seq(Pair)
             /\ FinalText \in Seq(Pair) /\ ToolCalls(final) \in Seq(Pair)
             /\ completed' = completed
  BY <1>3, SameOutput, OutputNamed
<1>4. ASSUME NEW w \in Seq(Pair), NEW calls \in Seq(Pair), NEW done \in BOOLEAN
      PROVE  ResponseEvents(w, calls, done) \in Seq(HTTPEvent)
  BY ResponseItems
<1>5. <<>> \in Seq(Pair) /\ <<>> \in Seq(HTTPEvent)
  OBVIOUS
<1>6. CASE WholeResponse
  <2>1. Kept /\ pc = "asked"
    BY <1>6 DEF WholeResponse, conversation, RoundSaid
  <2>2. ~completed /\ pc' = "answered" /\ history' = history
    BY <1>6, <2>1 DEF FramesHeard, WholeResponse, Answered
  <2>3. PICK body \in {"output", "choices", "raw"}, status \in {"completed", ""} :
          Answered(ResponseEvents(Text(body), ToolCalls(body),
                                  body = "output" /\ status = "completed"),
                   CASE body = "choices" -> "chat"
                     [] body = "raw"     -> "unreadable"
                     [] body = "output"  ->
                          IF status = "completed" THEN "none" ELSE "incomplete")
    BY <1>6 DEF WholeResponse
  <2>4. CASE body = "output" /\ status = "completed"
    <3>0. PICK v : v = ResponseEvents(AllWords, Calls, TRUE)
      OBVIOUS
    <3>1. Text(body) = AllWords /\ ToolCalls(body) = Calls
      BY <2>4 DEF Text, ToolCalls
    <3>2. (CASE body = "choices" -> "chat"
             [] body = "raw"     -> "unreadable"
             [] body = "output"  ->
                  IF status = "completed" THEN "none" ELSE "incomplete") = "none"
      BY <2>4
    <3>3. (body = "output" /\ status = "completed") = TRUE
      BY <2>4
    <3>4. Answered(v, "none")
      BY <2>3, <3>0, <3>1, <3>2, <3>3
    <3>5. events' = events \o v /\ fault' = fault
      BY <3>4 DEF Answered
    <3>6. v \in Seq(HTTPEvent) /\ v = ResponseEvents(AllWords', Calls', TRUE)
      BY <1>3, <1>4, <2>1, <3>0
    <3>7. AnswerSays(v)'
      BY <1>3, <2>1, <2>2, <3>5, <3>6 DEF AnswerSays
    <3> QED
      BY <2>1, <2>2, <3>5, <3>6, <3>7, AnswerGiven
  <2>5. CASE body = "choices" \/ (body = "output" /\ status = "")
    <3>0. PICK v : v = ResponseEvents(AllWords, Calls, FALSE)
      OBVIOUS
    <3>1. Text(body) = AllWords /\ ToolCalls(body) = Calls
      BY <2>5 DEF Text, ToolCalls
    <3>2. PICK why \in {"chat", "incomplete"} :
            (CASE body = "choices" -> "chat"
               [] body = "raw"     -> "unreadable"
               [] body = "output"  ->
                    IF status = "completed" THEN "none" ELSE "incomplete") = why
      BY <2>5
    <3>3. (body = "output" /\ status = "completed") = FALSE
      BY <2>5
    <3>4. Answered(v, why)
      BY <2>3, <3>0, <3>1, <3>2, <3>3
    <3>5. events' = events \o v /\ fault' = why
      BY <3>2, <3>4 DEF Answered
    <3>6. v \in Seq(HTTPEvent) /\ v = ResponseEvents(AllWords', Calls', FALSE)
      BY <1>3, <1>4, <2>1, <3>0
    <3>7. AnswerSays(v)'
      BY <1>3, <2>1, <2>2, <3>2, <3>5, <3>6 DEF AnswerSays
    <3> QED
      BY <2>1, <2>2, <3>5, <3>6, <3>7, AnswerGiven
  <2>6. CASE body = "raw"
    <3> DEFINE v == ResponseEvents(<<>>, <<>>, FALSE)
    <3>1. Text(body) = <<>> /\ ToolCalls(body) = <<>>
      BY <2>6 DEF Text, ToolCalls
    <3>2. (CASE body = "choices" -> "chat"
             [] body = "raw"     -> "unreadable"
             [] body = "output"  ->
                  IF status = "completed" THEN "none" ELSE "incomplete") = "unreadable"
      BY <2>6
    <3>3. (body = "output" /\ status = "completed") = FALSE
      BY <2>6
    <3>4. Answered(v, "unreadable")
      BY <2>3, <3>1, <3>2, <3>3
    <3>5. events' = events \o v /\ fault' = "unreadable"
      BY <3>4 DEF Answered
    <3>6. v \in Seq(HTTPEvent)
      BY <1>4, <1>5
    <3>7. AnswerSays(v)'
      BY <3>5 DEF AnswerSays
    <3> HIDE DEF v
    <3> QED
      BY <2>1, <2>2, <3>5, <3>6, <3>7, AnswerGiven
  <2> QED
    BY <2>4, <2>5, <2>6
<1>7. CASE StreamEnds
  <2>0. PICK v : v = ResponseEvents(FinalText, ToolCalls(final), completed)
    OBVIOUS
  <2>1. Kept /\ pc' = "answered" /\ history' = history
    BY <1>7 DEF StreamEnds, conversation, RoundSaid, Answered
  <2>2. Answered(v, IF completed THEN "none" ELSE "cut")
    BY <1>7, <2>0 DEF StreamEnds
  <2>3. /\ events' = events \o v
        /\ completed => fault' = fault
        /\ ~completed => fault' = "cut"
    BY <2>2 DEF Answered
  <2>4. /\ v \in Seq(HTTPEvent) /\ completed \in BOOLEAN
        /\ v = ResponseEvents(FinalText', ToolCalls(final)', completed')
    <3>1. completed \in BOOLEAN
      BY DEF StreamTypes
    <3> QED
      BY <1>3, <1>4, <2>0, <2>1, <3>1
  <2>5. AnswerSays(v)'
    <3>1. CASE completed
      <4>1. completed' = TRUE /\ completed'
        BY <1>3, <2>1, <2>4, <3>1
      <4> QED
        BY <1>3, <2>1, <2>3, <2>4, <3>1, <4>1 DEF AnswerSays
    <3>2. CASE ~completed
      <4>1. completed' = FALSE /\ ~completed'
        BY <1>3, <2>1, <2>4, <3>2
      <4> QED
        BY <1>3, <2>1, <2>3, <2>4, <3>2, <4>1 DEF AnswerSays
    <3> QED
      BY <3>1, <3>2
  <2> QED
    BY <2>1, <2>3, <2>4, <2>5, AnswerGiven
<1>8. CASE StreamBreaks
  <2> DEFINE v == <<>>
  <2>1. /\ Kept /\ pc' = "answered" /\ history' = history
        /\ events' = events \o v /\ fault' = "broken"
    BY <1>8 DEF StreamBreaks, conversation, RoundSaid, Answered
  <2>2. AnswerSays(v)'
    BY <2>1 DEF AnswerSays
  <2>3. v \in Seq(HTTPEvent)
    BY <1>5
  <2> HIDE DEF v
  <2> QED
    BY <2>1, <2>2, <2>3, AnswerGiven
<1>9. CASE StreamCompressed
  <2> DEFINE v == ResponseEvents(<<>>, <<>>, FALSE)
  <2>1. /\ Kept /\ pc' = "answered" /\ history' = history
        /\ events' = events \o v /\ fault' = "compressed"
    BY <1>9 DEF StreamCompressed, conversation, RoundSaid, Answered
  <2>2. AnswerSays(v)'
    BY <2>1 DEF AnswerSays
  <2>3. v \in Seq(HTTPEvent)
    BY <1>4, <1>5
  <2> HIDE DEF v
  <2> QED
    BY <2>1, <2>2, <2>3, AnswerGiven
<1>10. CASE Proceed
  <2>1. pc' = "idle"
    BY <1>10 DEF Proceed
  <2> QED
    BY <2>1 DEF RoundSaid
<1> QED
  BY <1>1, <1>2, <1>6, <1>7, <1>8, <1>9, <1>10 DEF StreamNext
(* What an answer says: whether it is done, what it calls, what it tells.  *)
LEMMA AnswerMeans ==
    ASSUME StreamTypes, FramesHeard, RoundSaid, pc = "answered"
    PROVE  /\ "agent.done" \in Kinds(events) <=> fault \in {"none", "request"}
           /\ fault \in {"none", "request"} =>
                \E w \in Seq(Pair), calls \in Seq(Pair) :
                   /\ \/ ~completed /\ w = AllWords /\ calls = Calls
                      \/ completed /\ w = FinalText /\ calls = ToolCalls(final)
                   /\ Said = w /\ Ids("tool.call", events) = Items(calls)
           /\ Ids("tool.call", events) \subseteq Items(Calls)
           /\ fault \in {"cut", "broken", "unreadable"} => Ids("tool.call", events) = {}
<1>1. PICK readable \in BOOLEAN, v \in Seq(HTTPEvent) :
         AnswerSays(v) /\ events = RequestEvents(history, readable) \o v
  BY DEF RoundSaid
<1>2. /\ "agent.done" \in Kinds(events) <=> \E e \in Items(v) : e.kind = "agent.done"
      /\ Ids("tool.call", events) = {e.id : e \in {x \in Items(v) : x.kind = "tool.call"}}
      /\ \A e : (e \in Range(events) /\ e.kind = "llm.response")
                  <=> (e \in Items(v) /\ e.kind = "llm.response")
  BY <1>1, RoundItems DEF StreamTypes
<1>3. /\ AllWords \in Seq(Pair) /\ Calls \in Seq(Pair)
      /\ FinalText \in Seq(Pair) /\ ToolCalls(final) \in Seq(Pair)
      /\ <<>> \in Seq(Pair) /\ Items(<<>>) = {}
  BY OutputNamed DEF Items
<1>4. ASSUME NEW w \in Seq(Pair), NEW calls \in Seq(Pair), NEW done \in BOOLEAN,
             v = ResponseEvents(w, calls, done)
      PROVE  /\ "agent.done" \in Kinds(events) <=> done
             /\ Ids("tool.call", events) = Items(calls)
             /\ Said = w
  <2>1. /\ NewEvent("llm.response", <<>>, w) \in Items(v)
        /\ \A e \in Items(v) : e.kind = "llm.response" => e.words = w
        /\ done <=> \E e \in Items(v) : e.kind = "agent.done"
        /\ {e.id : e \in {x \in Items(v) : x.kind = "tool.call"}} = Items(calls)
    BY <1>4, ResponseItems
  <2>2. NewEvent("llm.response", <<>>, w).kind = "llm.response"
    BY DEF NewEvent
  <2>3. \E e \in Range(events) : e.kind = "llm.response"
    BY <1>2, <2>1, <2>2
  <2>4. PICK e : e = CHOOSE x \in Range(events) : x.kind = "llm.response"
    OBVIOUS
  <2>5. e \in Range(events) /\ e.kind = "llm.response"
    BY <2>3, <2>4
  <2>6. e.words = w
    BY <1>2, <2>1, <2>5
  <2>7. Said = w
    BY <2>4, <2>6 DEF Said
  <2> QED
    BY <1>2, <2>1, <2>7
<1>5. final = "nil" => ToolCalls(final) = <<>>
  BY DEF ToolCalls
<1>6. ToolCalls(final) = Calls \/ ToolCalls(final) = <<>>
  BY DEF ToolCalls
<1>7. CASE ~completed /\ fault \in {"none", "request"} /\ v = ResponseEvents(AllWords, Calls, TRUE)
  BY <1>3, <1>4, <1>7
<1>8. CASE /\ ~completed /\ fault \in {"chat", "incomplete"}
           /\ v = ResponseEvents(AllWords, Calls, FALSE)
  BY <1>3, <1>4, <1>8
<1>9. CASE fault \in {"unreadable", "compressed"} /\ v = ResponseEvents(<<>>, <<>>, FALSE)
  BY <1>3, <1>4, <1>9
<1>10. CASE /\ completed /\ fault \in {"none", "request"}
            /\ v = ResponseEvents(FinalText, ToolCalls(final), TRUE)
  BY <1>3, <1>4, <1>6, <1>10
<1>11. CASE ~completed /\ fault = "cut" /\ v = ResponseEvents(FinalText, ToolCalls(final), FALSE)
  BY <1>3, <1>4, <1>5, <1>11 DEF FramesHeard
<1>12. CASE fault = "broken" /\ v = <<>>
  <2>1. Items(v) = {}
    BY <1>3, <1>12
  <2> QED
    BY <1>2, <1>12, <2>1
<1> QED
  BY <1>1, <1>7, <1>8, <1>9, <1>10, <1>11, <1>12 DEF AnswerSays

(* Every call that was published will be answered by the conversation.     *)
LEMMA StepCallsAnswered ==
    ASSUME StreamTypes, FramesHeard, RoundSaid, CallsAnswered, StreamNext
    PROVE  CallsAnswered'
<1>1. CASE Proceed
  <2>1. /\ pc = "answered" /\ called' = called \cup Ids("tool.call", events)
        /\ history' = history \o (IF fault \in {"cut", "broken", "unreadable"}
                                  THEN <<>> ELSE Calls)
    BY <1>1 DEF Proceed
  <2>2. /\ Calls \in Seq(Pair) /\ <<>> \in Seq(Pair) /\ history \in Seq(Pair)
    BY OutputNamed DEF StreamTypes
  <2>3. CASE fault \in {"cut", "broken", "unreadable"}
    <3>1. called' = called
      BY <2>1, <2>3, AnswerMeans
    <3>2. Items(history \o <<>>) = Items(history) \cup Items(<<>>)
      BY <2>2, ItemsOfConcat
    <3>3. history' = history \o <<>>
      BY <2>1, <2>3
    <3>4. Items(history)' = Items(history) \cup Items(<<>>)
      BY <3>2, <3>3
    <3> QED
      BY <3>1, <3>4 DEF CallsAnswered
  <2>4. CASE fault \notin {"cut", "broken", "unreadable"}
    <3>1. Items(history \o Calls) = Items(history) \cup Items(Calls)
      BY <2>2, ItemsOfConcat
    <3>2. history' = history \o Calls
      BY <2>1, <2>4
    <3>3. Items(history)' = Items(history) \cup Items(Calls)
      BY <3>1, <3>2
    <3>4. Ids("tool.call", events) \subseteq Items(Calls)
      BY <2>1, AnswerMeans
    <3> QED
      BY <2>1, <3>3, <3>4 DEF CallsAnswered
  <2> QED
    BY <2>3, <2>4
<1>2. CASE ~Proceed
  <2>1. history' = history /\ called' = called
    BY <1>2 DEF StreamNext, Request, WholeResponse, StreamStarts, OutputItemAdded,
                OutputTextDelta, OutputItemDone, ResponseCompleted, StreamEnds,
                StreamBreaks, StreamCompressed, conversation
  <2> QED
    BY <2>1 DEF CallsAnswered
<1> QED
  BY <1>1, <1>2

(* What the summary of an exchange over HTTP rests on.                     *)
THEOREM StreamInvHolds == StreamSpec => []StreamInv
<1>1. StreamInv /\ [StreamNext]_streamVars => StreamInv'
  <2> SUFFICES ASSUME StreamInv, [StreamNext]_streamVars PROVE StreamInv'
    OBVIOUS
  <2> USE DEF StreamInv
  <2>1. CASE StreamNext
    BY <2>1, StepStreamTypes, StepFramesHeard, StepRoundSaid, StepCallsAnswered
  <2>2. CASE UNCHANGED streamVars
    <3>1. StreamTypes'
      BY StepStreamTypes
    <3>2. UNCHANGED <<pc, round, output, delivered, ended, text, final, completed,
                      fault, events, history, called>>
      BY <2>2 DEF streamVars
    <3>3. FramesHeard'
      BY <3>2 DEF FramesHeard, Open
    <3>4. CallsAnswered'
      BY <3>2 DEF CallsAnswered
    <3>5. ASSUME NEW v PROVE AnswerSays(v)' = AnswerSays(v)
      <4>1. /\ AllWords' = AllWords /\ Calls' = Calls
            /\ FinalText' = FinalText /\ ToolCalls(final)' = ToolCalls(final)
        BY <3>2, SameOutput
      <4> QED
        BY <3>2, <4>1 DEF AnswerSays
    <3>6. RoundSaid'
      BY <3>2, <3>5 DEF RoundSaid
    <3> QED
      BY <3>1, <3>3, <3>4, <3>6
  <2> QED
    BY <2>1, <2>2
<1> QED
  BY <1>1, StreamInitInv, PTL DEF StreamSpec

(* A turn is reported done exactly when the API has said so in a body the  *)
(* adapter can read, and with what the model wrote, or, where              *)
(* response.completed repeats nothing, all of it twice (ResponseEvents,    *)
(* summarizeEventStream).                                                  *)
THEOREM TurnsReported == StreamSpec => []TurnIsReported
<1>1. StreamInv => TurnIsReported
  <2> SUFFICES ASSUME StreamInv, pc = "answered"
               PROVE  /\ "agent.done" \in Kinds(events) <=> fault \in {"none", "request"}
                      /\ "agent.done" \in Kinds(events) =>
                           Said = IF Streamed /\ final # "output" THEN Doubled ELSE AllWords
    BY DEF TurnIsReported
  <2> USE DEF StreamInv
  <2>1. "agent.done" \in Kinds(events) <=> fault \in {"none", "request"}
    BY AnswerMeans
  <2>2. ASSUME fault \in {"none", "request"}
        PROVE  Said = IF Streamed /\ final # "output" THEN Doubled ELSE AllWords
    <3>1. \/ ~completed /\ Said = AllWords
          \/ completed /\ Said = FinalText
      BY <2>2, AnswerMeans
    <3>2. CASE ~completed
      BY <3>1, <3>2 DEF Streamed
    <3>3. CASE completed
      <4>1. /\ AllWords = Written(output, Len(output))
            /\ Doubled = Heard(output, Len(output))
        BY OutputNamed
      <4>2. text = Doubled
        <5>1. ended = Len(output) /\ ended = Open
          <6>1. Open \in Nat /\ Len(output) \in Nat /\ ended \in Nat
            BY DEF StreamTypes, Open
          <6> QED
            BY <3>3, <6>1 DEF FramesHeard
        <5> QED
          BY <4>1, <5>1 DEF FramesHeard
      <4>3. AllWords = <<>> => Doubled = <<>>
        BY <4>1, SilenceIsHeard DEF StreamTypes
      <4>4. CASE final = "output"
        <5>1. FinalText = IF AllWords # <<>> THEN AllWords ELSE text
          BY <4>4 DEF FinalText, Text
        <5>2. FinalText = AllWords
          BY <4>2, <4>3, <5>1
        <5> QED
          BY <3>1, <3>3, <4>4, <5>2
      <4>5. CASE final # "output"
        <5>1. final \notin {"output", "choices"}
          BY <4>5 DEF StreamTypes
        <5>2. Text(final) = <<>>
          BY <5>1 DEF Text
        <5>3. FinalText = text
          BY <5>2 DEF FinalText
        <5> QED
          BY <3>1, <3>3, <4>2, <4>5, <5>3 DEF Streamed
      <4> QED
        BY <4>4, <4>5
    <3> QED
      BY <3>2, <3>3
  <2> QED
    BY <2>1, <2>2
<1> QED
  BY <1>1, StreamInvHolds, PTL

(* Every call that was published has its result in each later request that *)
(* can be read, and a response's calls are published if response.completed *)
(* repeats them (RequestEvents, summarizeDecodedResponse).                 *)
THEOREM CallsMatched == StreamSpec => []CallsMatchResults
<1>1. StreamInv => CallsMatchResults
  <2> SUFFICES ASSUME StreamInv PROVE CallsMatchResults
    OBVIOUS
  <2> USE DEF StreamInv
  <2>1. ASSUME pc \in {"asked", "frames"}, fault # "request"
        PROVE  called \subseteq Ids("tool.result", events)
    <3>1. fault = "none" /\ events = RequestEvents(history, TRUE)
      <4>1. fault = "none" /\ events = RequestEvents(history, fault = "none")
        BY <2>1 DEF RoundSaid
      <4>2. (fault = "none") = TRUE
        BY <4>1
      <4> QED
        BY <4>1, <4>2
    <3>2. Items(history) \subseteq
            {e.id : e \in {x \in Items(RequestEvents(history, TRUE)) :
                             x.kind = "tool.result"}}
      BY RequestItems DEF StreamTypes
    <3>3. Ids("tool.result", events)
            = {e.id : e \in {x \in Items(events) : x.kind = "tool.result"}}
      BY DEF Ids, Items
    <3> QED
      BY <3>1, <3>2, <3>3 DEF CallsAnswered
  <2>2. ASSUME pc = "answered", fault = "none", Streamed => final = "output"
        PROVE  Ids("tool.call", events) = Range(Calls)
    <3>1. PICK calls \in Seq(Pair) :
            /\ (~completed /\ calls = Calls) \/ (completed /\ calls = ToolCalls(final))
            /\ Ids("tool.call", events) = Items(calls)
      BY <2>2, AnswerMeans
    <3>2. calls = Calls
      BY <2>2, <3>1 DEF ToolCalls, Streamed
    <3>3. Calls \in Seq(Pair)
      BY OutputNamed
    <3>4. DOMAIN Calls = 1..Len(Calls)
      BY <3>3
    <3>5. Range(Calls) = Items(Calls)
      BY <3>4 DEF Range, Items
    <3> QED
      BY <3>1, <3>2, <3>5
  <2> QED
    BY <2>1, <2>2 DEF CallsMatchResults
<1> QED
  BY <1>1, StreamInvHolds, PTL
=============================================================================
