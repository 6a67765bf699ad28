-------------------------- MODULE ClaudeStreamProofs --------------------------
(***************************************************************************)
(* What holds of the Claude adapter for messages of any number of blocks   *)
(* and pieces and conversations of any number of rounds: a message gives   *)
(* the same events whole or in frames, a turn is done only of a whole      *)
(* reply, and every tool call has its result in later requests.            *)
(***************************************************************************)
EXTENDS ClaudeStream, SharedLemmas

-----------------------------------------------------------------------------
(* The data: words, blocks as normalizeResponse sees them, and tool calls. *)

Word         == Nat \X Nat
Tags         == {"text", "tool_use", "thinking"}
MessageBlock == [type : Tags, id : Nat \X Nat, words : Seq(Word)]
CallEvent    == [kind : {"tool.call"}, id : Nat \X Nat, payload : Seq(Word)]

(* A block more is a call more, if it is a tool's.                         *)
LEMMA CallsGrow ==
    /\ ToolCalls(<<>>) = <<>>
    /\ \A c \in Seq(MessageBlock) :
         /\ ToolCalls(c) \in Seq(CallEvent)
         /\ \A b \in MessageBlock : ToolCalls(Append(c, b)) = ToolCalls(c) \o CallOf(b)
<1> DEFINE g == [b \in MessageBlock |-> CallOf(b)]
<1>1. ASSUME NEW b \in MessageBlock
      PROVE  g[b] = CallOf(b) /\ CallOf(b) \in Seq(CallEvent)
  <2>1. b.type = "tool_use" => Event("tool.call", b.id, b.words) \in CallEvent
    BY DEF MessageBlock, CallEvent, Event
  <2> QED
    BY <2>1 DEF CallOf
<1> HIDE DEF g
<1>2. Makes(g, MessageBlock, CallEvent)
  BY <1>1 DEF Makes
<1>3. ASSUME NEW c \in Seq(MessageBlock)
      PROVE  ToolCalls(c) = Collect(g, c)
  <2>1. \A i \in 1..Len(c) : g[c[i]] = CallOf(c[i])
    BY <1>1, ElementOfSeq
  <2>2. [i \in 1..Len(c) |-> g[c[i]]] = [i \in 1..Len(c) |-> CallOf(c[i])]
    BY <2>1
  <2> QED
    BY <2>2 DEF ToolCalls, Collect
<1>4. <<>> \in Seq(MessageBlock)
  BY EmptySeq
<1>5. ASSUME NEW c \in Seq(MessageBlock)
      PROVE  /\ ToolCalls(c) \in Seq(CallEvent)
             /\ \A b \in MessageBlock :
                  ToolCalls(Append(c, b)) = ToolCalls(c) \o CallOf(b)
  <2>1. /\ Collect(g, c) \in Seq(CallEvent)
        /\ \A b \in MessageBlock :
             Collect(g, Append(c, b)) = Collect(g, c) \o g[b]
    BY <1>2, CollectStep
  <2>2. \A b \in MessageBlock : Append(c, b) \in Seq(MessageBlock)
    BY AppendProperties
  <2> QED
    BY <1>1, <1>3, <2>1, <2>2
<1>6. ToolCalls(<<>>) = <<>>
  BY <1>2, <1>3, <1>4, CollectStep
<1> QED
  BY <1>5, <1>6

(* A block more says its words more.                                       *)
LEMMA SpokenGrows ==
    /\ Spoken(<<>>) = <<>>
    /\ \A c \in Seq(MessageBlock) :
         /\ Spoken(c) \in Seq(Word)
         /\ \A b \in MessageBlock : Spoken(Append(c, b)) = Spoken(c) \o b.words
<1> DEFINE g == [b \in MessageBlock |-> b.words]
<1>1. ASSUME NEW b \in MessageBlock
      PROVE  g[b] = b.words /\ b.words \in Seq(Word)
  BY DEF MessageBlock
<1> HIDE DEF g
<1>2. Makes(g, MessageBlock, Word)
  BY <1>1 DEF Makes
<1>3. ASSUME NEW c \in Seq(MessageBlock)
      PROVE  Spoken(c) = Collect(g, c)
  <2>1. \A i \in 1..Len(c) : g[c[i]] = c[i].words
    BY <1>1, ElementOfSeq
  <2>2. [i \in 1..Len(c) |-> g[c[i]]] = [i \in 1..Len(c) |-> c[i].words]
    BY <2>1
  <2> QED
    BY <2>2 DEF Spoken, Collect
<1>4. <<>> \in Seq(MessageBlock)
  BY EmptySeq
<1>5. ASSUME NEW c \in Seq(MessageBlock)
      PROVE  /\ Spoken(c) \in Seq(Word)
             /\ \A b \in MessageBlock : Spoken(Append(c, b)) = Spoken(c) \o b.words
  <2>1. /\ Collect(g, c) \in Seq(Word)
        /\ \A b \in MessageBlock :
             Collect(g, Append(c, b)) = Collect(g, c) \o g[b]
    BY <1>2, CollectStep
  <2>2. \A b \in MessageBlock : Append(c, b) \in Seq(MessageBlock)
    BY AppendProperties
  <2> QED
    BY <1>1, <1>3, <2>1, <2>2
<1>6. Spoken(<<>>) = <<>>
  BY <1>2, <1>3, <1>4, CollectStep
<1> QED
  BY <1>5, <1>6

(* A message has a tool call exactly if it has a tool block.               *)
LEMMA CallsOfTools ==
    ASSUME NEW c \in Seq(MessageBlock)
    PROVE  (\E i \in 1..Len(c) : c[i].type = "tool_use") <=> ToolCalls(c) # <<>>
<1> DEFINE HasTool(s) == \E i \in 1..Len(s) : s[i].type = "tool_use"
           A == {s \in Seq(MessageBlock) : HasTool(s) <=> ToolCalls(s) # <<>>}
<1>1. <<>> \in A
  BY CallsGrow, EmptySeq
<1>2. ASSUME NEW s \in Seq(MessageBlock), NEW b \in MessageBlock, s \in A
      PROVE  Append(s, b) \in A
  <2>1. /\ Append(s, b) \in Seq(MessageBlock)
        /\ Len(s) \in Nat /\ Len(Append(s, b)) = Len(s) + 1
        /\ \A i \in 1..Len(s) : Append(s, b)[i] = s[i]
        /\ Append(s, b)[Len(s) + 1] = b
    BY AppendProperties, LenProperties
  <2>2. HasTool(Append(s, b)) <=> HasTool(s) \/ b.type = "tool_use"
    <3>1. ASSUME HasTool(Append(s, b))
          PROVE  HasTool(s) \/ b.type = "tool_use"
      <4>1. PICK i \in 1..(Len(s) + 1) : Append(s, b)[i].type = "tool_use"
        BY <2>1, <3>1
      <4>2. i \in 1..Len(s) \/ i = Len(s) + 1
        BY <2>1
      <4> QED
        BY <2>1, <4>1, <4>2
    <3>2. ASSUME HasTool(s) \/ b.type = "tool_use"
          PROVE  HasTool(Append(s, b))
      <4>1. \A i \in 1..Len(s) : i \in 1..(Len(s) + 1)
        BY <2>1
      <4>2. Len(s) + 1 \in 1..(Len(s) + 1)
        BY <2>1
      <4> QED
        BY <2>1, <3>2, <4>1, <4>2
    <3> QED
      BY <3>1, <3>2
  <2>3. /\ ToolCalls(Append(s, b)) = ToolCalls(s) \o CallOf(b)
        /\ ToolCalls(s) \in Seq(CallEvent)
    BY CallsGrow
  <2>4. CASE b.type = "tool_use"
    <3>1. CallOf(b) = <<Event("tool.call", b.id, b.words)>>
      BY <2>4 DEF CallOf
    <3>2. Event("tool.call", b.id, b.words) \in CallEvent
      BY DEF MessageBlock, CallEvent, Event
    <3>3. ToolCalls(Append(s, b)) # <<>>
      BY <2>3, <3>1, <3>2, ConcatEqualIffEmpty
    <3> QED
      BY <2>1, <2>2, <2>4, <3>3
  <2>5. CASE b.type # "tool_use"
    <3>1. ToolCalls(Append(s, b)) = ToolCalls(s)
      BY <2>3, <2>5, ConcatEmptySeq DEF CallOf
    <3>2. HasTool(s) <=> ToolCalls(s) # <<>>
      BY <1>2
    <3> QED
      BY <2>1, <2>2, <2>5, <3>1, <3>2
  <2> QED
    BY <2>4, <2>5
<1> HIDE DEF A
<1>3. Seq(MessageBlock) \subseteq A
  BY <1>1, <1>2, SeqInduction
<1> QED
  BY <1>3 DEF A
-----------------------------------------------------------------------------
(* The words of a payload.                                                 *)

Marks == {Nothing, Quoted}

(* PiecesOf takes a payload apart where one can.                           *)
LEMMA PiecesOfParts ==
    /\ PiecesOf(<<>>) = <<>>
    /\ \A p \in Seq(Word), q \in Seq(Word) : PiecesOf(p \o q) = PiecesOf(p) \o PiecesOf(q)
    /\ \A w \in Marks : PiecesOf(<<w>>) = <<>>
    /\ \A p \in Seq(Word \ Marks) : PiecesOf(p) = p
<1> DEFINE g == [w \in Word |-> IF w \in Marks THEN <<>> ELSE <<w>>]
<1>1. ASSUME NEW w \in Word
      PROVE  /\ g[w] = IF w \in Marks THEN <<>> ELSE <<w>>
             /\ g[w] \in Seq(Word)
  OBVIOUS
<1>2. ASSUME NEW w \in Word \ Marks
      PROVE  g[w] = <<w>> /\ g[w] \in Seq(Word \ Marks)
  OBVIOUS
<1> HIDE DEF g
<1>3. Makes(g, Word, Word) /\ Makes(g, Word \ Marks, Word \ Marks)
  BY <1>1, <1>2 DEF Makes
<1>4. ASSUME NEW p \in Seq(Word)
      PROVE  PiecesOf(p) = Collect(g, p)
  <2>1. \A i \in 1..Len(p) : g[p[i]] = IF p[i] \in Marks THEN <<>> ELSE <<p[i]>>
    BY <1>1, ElementOfSeq
  <2>2. [i \in 1..Len(p) |-> g[p[i]]]
          = [i \in 1..Len(p) |-> IF p[i] \in Marks THEN <<>> ELSE <<p[i]>>]
    BY <2>1
  <2> QED
    BY <2>2 DEF PiecesOf, Collect, Marks
<1>5. \A p \in Seq(Word), q \in Seq(Word) :
        p \o q \in Seq(Word) /\ Collect(g, p \o q) = Collect(g, p) \o Collect(g, q)
  BY <1>3, CollectConcat, ConcatProperties
<1>6. <<>> \in Seq(Word)
  BY EmptySeq
<1>7. PiecesOf(<<>>) = <<>>
  BY <1>3, <1>4, <1>6, CollectStep
<1>8. ASSUME NEW w \in Marks
      PROVE  PiecesOf(<<w>>) = <<>>
  <2>1. w \in Word
    BY DEF Marks, Nothing, Quoted, Word
  <2>2. g[w] = <<>>
    BY <1>1, <2>1
  <2>3. <<w>> \in Seq(Word) /\ Collect(g, <<w>>) = g[w]
    BY <1>3, <2>1, CollectOne
  <2>4. PiecesOf(<<w>>) = Collect(g, <<w>>)
    BY <1>4, <2>3
  <2> QED
    BY <2>2, <2>3, <2>4
<1>9. ASSUME NEW p \in Seq(Word \ Marks)
      PROVE  PiecesOf(p) = p
  <2>1. p \in Seq(Word)
    BY SeqMonotonic
  <2>2. Collect(g, p) = p
    BY <1>2, <1>3, CollectAll
  <2> QED
    BY <1>4, <2>1, <2>2
<1> QED
  BY <1>4, <1>5, <1>7, <1>8, <1>9

(* TextOf too: of the pieces of one block it takes all or none.            *)
LEMMA TextOfParts ==
    /\ TextOf(<<>>) = <<>>
    /\ \A p \in Seq(Word), q \in Seq(Word) :
         TextOf(p) \in Seq(Word) /\ TextOf(p \o q) = TextOf(p) \o TextOf(q)
    /\ \A n \in Nat : \A p \in Seq({n} \X Nat) :
         TextOf(p) = IF reply.content[n].type = "text" THEN p ELSE <<>>
<1> DEFINE g == [w \in Word |-> IF IsText(w) THEN <<w>> ELSE <<>>]
<1>1. ASSUME NEW w \in Word
      PROVE  /\ g[w] = IF IsText(w) THEN <<w>> ELSE <<>>
             /\ g[w] \in Seq(Word)
  BY DEF IsText
<1> HIDE DEF g
<1>2. Makes(g, Word, Word)
  BY <1>1 DEF Makes
<1>3. ASSUME NEW p \in Seq(Word)
      PROVE  TextOf(p) = Collect(g, p)
  <2>1. \A i \in 1..Len(p) : g[p[i]] = IF IsText(p[i]) THEN <<p[i]>> ELSE <<>>
    BY <1>1, ElementOfSeq
  <2>2. [i \in 1..Len(p) |-> g[p[i]]]
          = [i \in 1..Len(p) |-> IF IsText(p[i]) THEN <<p[i]>> ELSE <<>>]
    BY <2>1
  <2> QED
    BY <2>2 DEF TextOf, Collect
<1>4. \A p \in Seq(Word), q \in Seq(Word) :
        /\ Collect(g, p) \in Seq(Word)
        /\ p \o q \in Seq(Word) /\ Collect(g, p \o q) = Collect(g, p) \o Collect(g, q)
  <2>1. \A p \in Seq(Word) : Collect(g, p) \in Seq(Word)
    BY <1>2, CollectStep
  <2>2. \A p \in Seq(Word), q \in Seq(Word) :
          p \o q \in Seq(Word) /\ Collect(g, p \o q) = Collect(g, p) \o Collect(g, q)
    BY <1>2, CollectConcat, ConcatProperties
  <2> QED
    BY <2>1, <2>2
<1>5. <<>> \in Seq(Word)
  BY EmptySeq
<1>6. TextOf(<<>>) = <<>>
  BY <1>2, <1>3, <1>5, CollectStep
<1>7. ASSUME NEW n \in Nat, NEW p \in Seq({n} \X Nat)
      PROVE  TextOf(p) = IF reply.content[n].type = "text" THEN p ELSE <<>>
  <2> DEFINE D == {n} \X Nat
  <2>1. D \subseteq Word /\ p \in Seq(D)
    BY DEF Word
  <2>2. p \in Seq(Word)
    BY <2>1, SeqMonotonic
  <2>3. \A w \in D : IsText(w) <=> reply.content[n].type = "text"
    BY DEF IsText
  <2> HIDE DEF D
  <2>4. CASE reply.content[n].type = "text"
    <3>1. \A w \in D : g[w] = <<w>>
      BY <1>1, <2>1, <2>3, <2>4
    <3>2. Makes(g, D, D)
      <4>1. \A w \in D : <<w>> \in Seq(D)
        OBVIOUS
      <4> QED
        BY <3>1, <4>1 DEF Makes
    <3>3. Collect(g, p) = p
      BY <2>1, <3>1, <3>2, CollectAll
    <3> QED
      BY <1>3, <2>2, <2>4, <3>3
  <2>5. CASE reply.content[n].type # "text"
    <3>1. \A w \in D : g[w] = <<>>
      BY <1>1, <2>1, <2>3, <2>5
    <3>2. Makes(g, D, Word)
      BY <1>5, <3>1 DEF Makes
    <3>3. Collect(g, p) = <<>>
      BY <2>1, <3>1, <3>2, CollectNone
    <3> QED
      BY <1>3, <2>2, <2>5, <3>3
  <2> QED
    BY <2>4, <2>5
<1> QED
  BY <1>3, <1>4, <1>6, <1>7

(* The pieces of a block are words of its own and no marks.                *)
LEMMA PiecesAreWords ==
    ASSUME NEW i \in Nat \ {0}, NEW n \in Nat
    PROVE  /\ Pieces(i, n) \in Seq({i} \X Nat)
           /\ Pieces(i, n) \in Seq(Word \ Marks)
           /\ Pieces(i, n) \in Seq(Word)
           /\ Len(Pieces(i, n)) = n
           /\ \A k \in 1..n : Pieces(i, n)[k] = <<i, k>>
           /\ Pieces(i, n + 1) = Append(Pieces(i, n), Piece(i, n + 1))
           /\ Pieces(i, 0) = <<>>
<1>1. \A m \in Nat : /\ Pieces(i, m) \in Seq({i} \X Nat)
                     /\ Len(Pieces(i, m)) = m
                     /\ \A k \in 1..m : Pieces(i, m)[k] = <<i, k>>
  BY DEF Pieces, Piece
<1>2. {i} \X Nat \subseteq Word \ Marks /\ {i} \X Nat \subseteq Word
  BY DEF Word, Marks, Nothing, Quoted
<1>3. Pieces(i, n) \in Seq(Word \ Marks) /\ Pieces(i, n) \in Seq(Word)
  BY <1>1, <1>2, SeqMonotonic
<1>4. Pieces(i, n + 1) = Append(Pieces(i, n), Piece(i, n + 1))
  <2> DEFINE D == {i} \X Nat
             e == Piece(i, n + 1)
             o == Pieces(i, n)
             p == Pieces(i, n + 1)
             q == Append(o, e)
  <2>1. e = <<i, n + 1>> /\ e \in D
    BY DEF Piece
  <2>2. o \in Seq(D) /\ Len(o) = n /\ \A k \in 1..n : o[k] = <<i, k>>
    BY <1>1
  <2>3. n + 1 \in Nat
    OBVIOUS
  <2>4. /\ p \in Seq(D) /\ Len(p) = n + 1
        /\ \A k \in 1..(n + 1) : p[k] = <<i, k>>
    BY <1>1, <2>3
  <2> HIDE DEF D, e, o, p
  <2>5. /\ q \in Seq(D) /\ Len(q) = n + 1
        /\ \A k \in 1..n : q[k] = <<i, k>>
        /\ q[n + 1] = <<i, n + 1>>
    BY <2>1, <2>2, AppendProperties
  <2> HIDE DEF q
  <2>6. \A k \in 1..(n + 1) : p[k] = q[k]
    <3>1. \A k \in 1..(n + 1) : k \in 1..n \/ k = n + 1
      OBVIOUS
    <3> QED
      BY <2>4, <2>5, <3>1
  <2>7. p = q
    BY <2>4, <2>5, <2>6, SeqEqual
  <2> QED
    BY <2>7 DEF e, o, p, q
<1>5. Pieces(i, 0) = <<>>
  BY DEF Pieces
<1> QED
  BY <1>1, <1>3, <1>4, <1>5
-----------------------------------------------------------------------------
(* The parser between two frames: a block is what was sent of it.          *)

StreamBlock == [type : Tags, id : Nat \X Nat, text : Seq(Word), input : Seq(Word)]

BlockSent(b, id, p) ==
    [type  |-> b.type,
     id    |-> id,
     text  |-> IF b.type = "text" THEN p ELSE <<>>,
     input |-> IF b.type = "tool_use" THEN <<Nothing>> \o p ELSE <<>>]

BlockAt(i) == BlockSent(reply.content[i], Id(i), Pieces(i, sent[i]))

ReplyInv ==
    /\ round \in Nat
    /\ reply.content \in Seq([type : Tags, pieces : Nat])
    /\ reply.stop \in {"end_turn", "max_tokens", "tool_use"}

BlocksInv ==
    /\ sent \in Seq(Nat)
    /\ blocks \in Seq(StreamBlock)
    /\ Len(blocks) = Len(sent)
    /\ Len(sent) <= Len(reply.content)
    /\ \A i \in 1..Len(sent) :
         blocks[i] = BlockAt(i) /\ sent[i] <= reply.content[i].pieces

AllSent == Open = Len(reply.content) /\ OpenIsWhole

(* A tool's input as JSON and as the stream leaves it hold the same        *)
(* pieces; only the stream quotes, and only an input that has pieces.      *)
LEMMA ToolInputs ==
    ASSUME ReplyInv, NEW i \in 1..Len(reply.content), NEW n \in Nat,
           NEW w, w = FinalizeInputJSON(<<Nothing>> \o Pieces(i, n), i)
    PROVE  /\ w \in Seq(Word)
           /\ n = reply.content[i].pieces =>
                /\ PiecesOf(w) = Pieces(i, n)
                /\ Quoted \in Range(w) <=> n # 0
                /\ n = 0 => w = <<Nothing>>
<1> DEFINE p == Pieces(i, n)
           o == <<Nothing>>
           u == o \o p
           q == <<Quoted>>
<1>1. i \in Nat \ {0} /\ reply.content[i].pieces \in Nat
  <2> DEFINE c == reply.content
  <2>1. c \in Seq([type : Tags, pieces : Nat]) /\ i \in 1..Len(c)
    BY DEF ReplyInv
  <2> HIDE DEF c
  <2>2. c[i] \in [type : Tags, pieces : Nat]
    BY <2>1, ElementOfSeq
  <2>3. Len(c) \in Nat
    BY <2>1, LenProperties
  <2>4. i \in Nat \ {0}
    BY <2>1, <2>3
  <2>5. c[i].pieces \in Nat
    BY <2>2
  <2> QED
    BY <2>4, <2>5 DEF c
<1>2. /\ p \in Seq(Word) /\ p \in Seq(Word \ Marks) /\ Len(p) = n
      /\ PiecesOf(p) = p
      /\ \A k \in 1..n : p[k] = <<i, k>>
  BY <1>1, PiecesAreWords, PiecesOfParts
<1>3. /\ o \in Seq(Word) /\ q \in Seq(Word) /\ Len(o) = 1 /\ Len(q) = 1
      /\ PiecesOf(o) = <<>> /\ PiecesOf(q) = <<>>
      /\ o[1] = Nothing /\ q[1] = Quoted
  <2>1. Nothing \in Marks /\ Quoted \in Marks /\ Marks \subseteq Word
    BY DEF Marks, Nothing, Quoted, Word
  <2> QED
    BY <2>1, PiecesOfParts
<1>4. w = FinalizeInputJSON(u, i)
  OBVIOUS
<1>5. n = 0 => p = <<>>
  BY <1>2, EmptySeq
<1> HIDE DEF p, o, q
<1>6. /\ u \in Seq(Word) /\ Len(u) = 1 + n /\ PiecesOf(u) = p
      /\ \A k \in 1..(1 + n) : u[k] = IF k <= 1 THEN o[k] ELSE p[k - 1]
  <2>1. PiecesOf(u) = PiecesOf(o) \o PiecesOf(p)
    BY <1>2, <1>3, PiecesOfParts
  <2>2. \A s \in Seq(Word) : <<>> \o s = s
    BY ConcatEmptySeq
  <2>3. /\ u \in Seq(Word) /\ Len(u) = 1 + n
        /\ \A k \in 1..(1 + n) : u[k] = IF k <= 1 THEN o[k] ELSE p[k - 1]
    BY <1>2, <1>3, ConcatProperties
  <2> QED
    BY <1>2, <1>3, <2>1, <2>2, <2>3
<1>7. n = 0 => u = o
  BY <1>3, <1>5, ConcatEmptySeq
<1> HIDE DEF u
<1> DEFINE v == q \o u
<1>8. /\ v \in Seq(Word) /\ PiecesOf(v) = p
      /\ 1 \in DOMAIN v /\ v[1] = Quoted
  <2>1. PiecesOf(v) = PiecesOf(q) \o PiecesOf(u)
    BY <1>3, <1>6, PiecesOfParts
  <2>2. \A s \in Seq(Word) : <<>> \o s = s
    BY ConcatEmptySeq
  <2>3. /\ v \in Seq(Word) /\ Len(v) = Len(q) + Len(u)
        /\ \A k \in 1..(Len(q) + Len(u)) :
             v[k] = IF k <= Len(q) THEN q[k] ELSE u[k - Len(q)]
    BY <1>3, <1>6, ConcatProperties
  <2>4. 1 \in 1..(Len(q) + Len(u)) /\ 1 <= Len(q)
    BY <1>3, <1>6
  <2>5. v[1] = q[1] /\ 1 \in DOMAIN v
    BY <2>3, <2>4, LenProperties
  <2>6. PiecesOf(v) = p
    BY <1>2, <1>3, <1>6, <2>1, <2>2
  <2> QED
    BY <1>3, <2>3, <2>5, <2>6
<1>9. w = IF Decodes(u, i) THEN u ELSE v
  BY <1>4 DEF FinalizeInputJSON, q
<1> HIDE DEF v
<1>10. w \in Seq(Word)
  BY <1>6, <1>8, <1>9
<1>11. ASSUME n = reply.content[i].pieces
       PROVE  Decodes(u, i) <=> n = 0
  <2>1. Decodes(u, i) <=> u = o \/ u = p
    BY <1>11 DEF Decodes, o, p
  <2>2. Len(u) = 1 + n /\ Len(o) = 1 /\ Len(p) = n
    BY <1>2, <1>3, <1>6
  <2>3. u # p
    <3>1. Len(u) # Len(p)
      BY <2>2
    <3> QED
      BY <3>1
  <2>4. u = o => n = 0
    <3>1. u = o => Len(u) = Len(o)
      OBVIOUS
    <3> QED
      BY <2>2, <3>1
  <2> QED
    BY <1>7, <2>1, <2>3, <2>4
<1>12. ASSUME n = reply.content[i].pieces
       PROVE  Quoted \in Range(w) <=> n # 0
  <2>1. CASE n = 0
    <3>1. w = o
      BY <1>7, <1>9, <1>11, <1>12, <2>1
    <3>2. Range(w) = {Nothing}
      BY <1>3, <3>1 DEF Range
    <3> QED
      BY <2>1, <3>2 DEF Nothing, Quoted
  <2>2. CASE n # 0
    <3>1. w = v
      BY <1>9, <1>11, <1>12, <2>2
    <3>2. 1 \in DOMAIN w /\ w[1] = Quoted
      BY <1>3, <1>8, <3>1
    <3> QED
      BY <2>2, <3>2 DEF Range
  <2> QED
    BY <2>1, <2>2
<1> QED
  BY <1>6, <1>7, <1>8, <1>9, <1>10, <1>11, <1>12 DEF o, p
-----------------------------------------------------------------------------
(* Two lists of calls for the same tools with the same pieces, of which    *)
(* only the first quotes.                                                  *)
SameCall(a, b) ==
    /\ a.id = b.id
    /\ PiecesOf(a.payload) = PiecesOf(b.payload)
    /\ Quoted \in Range(a.payload) <=> PiecesOf(b.payload) # <<>>

Alike(s, t) ==
    /\ Len(s) = Len(t)
    /\ \A i \in 1..Len(s) : SameCall(s[i], t[i])

(* They stay alike when both get a call more that is the same.             *)
LEMMA AlikeAppend ==
    ASSUME NEW s \in Seq(CallEvent), NEW t \in Seq(CallEvent),
           NEW a \in CallEvent, NEW b \in CallEvent,
           Alike(s, t), SameCall(a, b)
    PROVE  Alike(s \o <<a>>, t \o <<b>>)
<1> DEFINE ss == Append(s, a)
           tt == Append(t, b)
<1>1. ss = s \o <<a>> /\ tt = t \o <<b>>
  BY AppendIsConcat
<1>2. /\ Len(s) \in Nat /\ Len(t) = Len(s)
      /\ Len(ss) = Len(s) + 1 /\ Len(tt) = Len(s) + 1
      /\ \A i \in 1..Len(s) : ss[i] = s[i] /\ tt[i] = t[i]
      /\ ss[Len(s) + 1] = a /\ tt[Len(s) + 1] = b
  BY AppendProperties, LenProperties DEF Alike
<1>3. \A i \in 1..Len(s) : SameCall(s[i], t[i])
  BY DEF Alike
<1> HIDE DEF ss, tt
<1>4. ASSUME NEW i \in 1..(Len(s) + 1)
      PROVE  SameCall(ss[i], tt[i])
  <2>1. i \in 1..Len(s) \/ i = Len(s) + 1
    BY <1>2
  <2> QED
    BY <1>2, <1>3, <2>1
<1>5. Alike(ss, tt)
  BY <1>2, <1>4 DEF Alike
<1> QED
  BY <1>1, <1>5

(* What becomes of a block of the stream is a block of a message.          *)
LEMMA KeptIsBlock ==
    ASSUME ReplyInv, BlocksInv, NEW i \in 1..Len(blocks)
    PROVE  /\ i \in 1..Len(reply.content) /\ i \in Nat \ {0}
           /\ sent[i] \in Nat /\ reply.content[i].pieces \in Nat
           /\ reply.content[i].type \in Tags /\ Id(i) \in Nat \X Nat
           /\ blocks[i] = BlockAt(i)
           /\ Kept(blocks[i], i) \in Seq(MessageBlock)
<1>1. /\ blocks \in Seq(StreamBlock) /\ sent \in Seq(Nat)
      /\ reply.content \in Seq([type : Tags, pieces : Nat])
      /\ round \in Nat /\ blocks[i] = BlockAt(i)
      /\ Len(blocks) = Len(sent) /\ Len(sent) <= Len(reply.content)
  BY DEF ReplyInv, BlocksInv
<1>2. i \in 1..Len(reply.content) /\ i \in 1..Len(sent) /\ i \in Nat \ {0}
  BY <1>1, LenProperties
<1>3. sent[i] \in Nat /\ reply.content[i] \in [type : Tags, pieces : Nat]
  BY <1>1, <1>2, ElementOfSeq
<1>4. Id(i) \in Nat \X Nat
  BY <1>1, <1>2 DEF Id
<1>5. blocks[i] \in StreamBlock
  BY <1>1, ElementOfSeq
<1> DEFINE b == blocks[i]
           w == FinalizeInputJSON(b.input, i)
<1>6. b.type \in Tags /\ b.id \in Nat \X Nat /\ b.text \in Seq(Word)
  BY <1>5 DEF StreamBlock
<1>7. b.type = "tool_use" => w \in Seq(Word)
  <2>1. b.type = "tool_use" => b.input = <<Nothing>> \o Pieces(i, sent[i])
    BY <1>1 DEF BlockAt, BlockSent
  <2> QED
    BY <1>2, <1>3, <2>1, ToolInputs
<1> HIDE DEF w
<1>8. Kept(b, i) \in Seq(MessageBlock)
  <2>1. CASE b.type = "text"
    <3>1. Kept(b, i) = <<[type |-> b.type, id |-> b.id, words |-> b.text]>>
      BY <2>1, Zenon DEF Kept
    <3>2. [type |-> b.type, id |-> b.id, words |-> b.text] \in MessageBlock
      BY <1>6 DEF MessageBlock
    <3> QED
      BY <3>1, <3>2
  <2>2. CASE b.type = "tool_use"
    <3>1. Kept(b, i) = <<[type |-> b.type, id |-> b.id, words |-> w]>>
      <4>1. b.type # "text"
        BY <2>2
      <4> QED
        BY <2>2, <4>1 DEF Kept, w
    <3>2. [type |-> b.type, id |-> b.id, words |-> w] \in MessageBlock
      BY <1>6, <1>7, <2>2 DEF MessageBlock
    <3> QED
      BY <3>1, <3>2
  <2>3. CASE b.type \notin {"text", "tool_use"}
    <3>1. Kept(b, i) = <<>>
      BY <2>3 DEF Kept
    <3> QED
      BY <3>1
  <2> QED
    BY <2>1, <2>2, <2>3
<1>9. reply.content[i].type \in Tags /\ reply.content[i].pieces \in Nat
  BY <1>3
<1> QED
  BY <1>1, <1>2, <1>3, <1>4, <1>8, <1>9

(* Of a block that came whole.                                             *)
JSONBlock(i) ==
    LET b == reply.content[i] IN
      [type |-> b.type, id |-> Id(i),
       words |-> IF b.type = "tool_use" /\ b.pieces = 0 THEN <<Nothing>>
                 ELSE Pieces(i, b.pieces)]

(* The message as JSON is a message, and its calls do not quote.           *)
LEMMA JSONIsContent ==
    ASSUME ReplyInv
    PROVE  /\ \A i \in 1..Len(reply.content) : JSONBlock(i) \in MessageBlock
           /\ \A k \in 0..Len(reply.content) :
                [i \in 1..k |-> JSONBlock(i)] \in Seq(MessageBlock)
           /\ JSONContent = [i \in 1..Len(reply.content) |-> JSONBlock(i)]
           /\ Len(reply.content) \in Nat
<1> DEFINE c == reply.content
<1>1. c \in Seq([type : Tags, pieces : Nat]) /\ round \in Nat
  BY DEF ReplyInv
<1>2. ASSUME NEW i \in 1..Len(c)
      PROVE  JSONBlock(i) \in MessageBlock
  <2> HIDE DEF c
  <2>0. c[i] \in [type : Tags, pieces : Nat] /\ Len(c) \in Nat
    BY <1>1, ElementOfSeq, LenProperties
  <2>1. c[i] \in [type : Tags, pieces : Nat] /\ i \in Nat \ {0}
    BY <2>0
  <2>2. Pieces(i, c[i].pieces) \in Seq(Word)
    BY <2>1, PiecesAreWords
  <2>3. Nothing \in Word
    BY DEF Nothing, Word
  <2>4. Id(i) \in Nat \X Nat
    BY <1>1, <2>1 DEF Id
  <2> DEFINE w == IF c[i].type = "tool_use" /\ c[i].pieces = 0 THEN <<Nothing>>
                  ELSE Pieces(i, c[i].pieces)
  <2>5. w \in Seq(Word)
    BY <2>2, <2>3
  <2>6. JSONBlock(i) = [type |-> c[i].type, id |-> Id(i), words |-> w]
    BY DEF JSONBlock, c
  <2> HIDE DEF w
  <2> QED
    BY <2>1, <2>4, <2>5, <2>6 DEF MessageBlock
<1>3. Len(c) \in Nat
  BY <1>1, LenProperties
<1>4. ASSUME NEW k \in 0..Len(c)
      PROVE  [i \in 1..k |-> JSONBlock(i)] \in Seq(MessageBlock)
  <2> HIDE DEF c
  <2>1. k \in Nat /\ \A i \in 1..k : i \in 1..Len(c)
    BY <1>3
  <2>2. \A i \in 1..k : JSONBlock(i) \in MessageBlock
    BY <1>2, <2>1 DEF c
  <2> QED
    BY <2>1, <2>2
<1>5. JSONContent = [i \in 1..Len(c) |-> JSONBlock(i)]
  BY DEF JSONContent, JSONBlock
<1> QED
  BY <1>2, <1>3, <1>4, <1>5
(* The calls of the message as JSON do not quote.                          *)
LEMMA JSONCallsUnquoted ==
    ASSUME ReplyInv
    PROVE  \A e \in Range(ToolCalls(JSONContent)) : Quoted \notin Range(e.payload)
<1> DEFINE D == {b \in MessageBlock : Quoted \notin Range(b.words)}
           E == {e \in CallEvent : Quoted \notin Range(e.payload)}
           g == [b \in D |-> CallOf(b)]
           n == Len(reply.content)
           J == [i \in 1..n |-> JSONBlock(i)]
<1>1. ASSUME NEW b \in D
      PROVE  g[b] = CallOf(b) /\ g[b] \in Seq(E)
  <2>1. b.type = "tool_use" => Event("tool.call", b.id, b.words) \in E
    BY DEF MessageBlock, CallEvent, Event
  <2> HIDE DEF E
  <2> QED
    BY <2>1 DEF CallOf
<1> HIDE DEF g
<1>2. Makes(g, D, E)
  BY <1>1 DEF Makes
<1>3. n \in Nat /\ JSONContent = J /\ \A i \in 1..n : JSONBlock(i) \in MessageBlock
  BY JSONIsContent
<1>4. ASSUME NEW i \in 1..n
      PROVE  Quoted \notin Range(JSONBlock(i).words)
  <2> DEFINE w == JSONBlock(i).words
             m == reply.content[i].pieces
  <2>1. i \in Nat \ {0} /\ reply.content[i] \in [type : Tags, pieces : Nat]
    <3>1. reply.content \in Seq([type : Tags, pieces : Nat])
      BY DEF ReplyInv
    <3>2. reply.content[i] \in [type : Tags, pieces : Nat]
      BY <3>1, ElementOfSeq
    <3>3. i \in Nat \ {0}
      BY <1>3
    <3> QED
      BY <3>2, <3>3
  <2>2. w = <<Nothing>> \/ w = Pieces(i, m)
    BY DEF JSONBlock
  <2>3. m \in Nat
    BY <2>1
  <2> HIDE DEF w, m
  <2>4. CASE w = <<Nothing>>
    BY <2>4 DEF Range, Nothing, Quoted, w
  <2>5. CASE w = Pieces(i, m)
    <3>1. w \in Seq(Word \ Marks)
      BY <2>1, <2>3, <2>5, PiecesAreWords
    <3>2. \A k \in DOMAIN w : w[k] \in Word \ Marks
      BY <3>1, LenProperties, ElementOfSeq
    <3> QED
      BY <3>2 DEF Range, Marks, w
  <2> QED
    BY <2>2, <2>4, <2>5
<1>5. J \in Seq(D)
  <2>1. \A i \in 1..n : JSONBlock(i) \in D
    BY <1>3, <1>4
  <2> HIDE DEF D, n
  <2> QED
    BY <1>3, <2>1
<1>6. Collect(g, J) \in Seq(E)
  <2> HIDE DEF D, E, J
  <2> QED
    BY <1>2, <1>5, CollectStep
<1>7. ToolCalls(J) = Collect(g, J)
  <2> HIDE DEF D, E, J
  <2>1. \A i \in 1..Len(J) : g[J[i]] = CallOf(J[i])
    BY <1>1, <1>5, ElementOfSeq
  <2>2. [i \in 1..Len(J) |-> g[J[i]]] = [i \in 1..Len(J) |-> CallOf(J[i])]
    BY <2>1
  <2> QED
    BY <2>2 DEF ToolCalls, Collect
<1>8. ToolCalls(JSONContent) \in Seq(E)
  <2> HIDE DEF J, E
  <2> QED
    BY <1>3, <1>6, <1>7
<1>9. \A e \in Range(ToolCalls(JSONContent)) : e \in E
  <2> DEFINE t == ToolCalls(JSONContent)
  <2>1. t \in Seq(E)
    BY <1>8
  <2> HIDE DEF t, E
  <2>2. \A k \in DOMAIN t : t[k] \in E
    BY <2>1, LenProperties, ElementOfSeq
  <2> QED
    BY <2>2 DEF Range, t
<1> QED
  BY <1>9

-----------------------------------------------------------------------------
(* What is left of a reply that came in frames is what is left of it as    *)
(* JSON: the same calls, and without tools the same text and nothing else. *)
IsSpoken(p) == \A k \in 1..Len(p) : IsText(p[k])

LEMMA SameContent ==
    ASSUME ReplyInv, BlocksInv, AllSent
    PROVE  /\ StreamContent \in Seq(MessageBlock)
           /\ Alike(ToolCalls(StreamContent), ToolCalls(JSONContent))
           /\ (\A i \in 1..Len(reply.content) : reply.content[i].type # "tool_use") =>
                /\ TextOf(Spoken(StreamContent)) = TextOf(Spoken(JSONContent))
                /\ IsSpoken(Spoken(StreamContent))
<1> DEFINE n == Len(reply.content)
           f == [i \in 1..n |-> Kept(blocks[i], i)]
           S(k) == FlattenSeq([i \in 1..k |-> f[i]])
           J(k) == [i \in 1..k |-> JSONBlock(i)]
           NoTool(k) == \A i \in 1..k : reply.content[i].type # "tool_use"
           SameText(s, j) == /\ TextOf(Spoken(s)) = TextOf(Spoken(j))
                             /\ IsSpoken(Spoken(s))
           A == {k \in 0..n : /\ Alike(ToolCalls(S(k)), ToolCalls(J(k)))
                              /\ NoTool(k) => SameText(S(k), J(k))}
<1>1. /\ n \in Nat /\ n = Len(blocks) /\ n = Len(sent)
      /\ \A i \in 1..n : sent[i] = reply.content[i].pieces
      /\ JSONContent = J(n)
      /\ \A k \in 0..n : J(k) \in Seq(MessageBlock)
      /\ \A i \in 1..n : JSONBlock(i) \in MessageBlock
  BY JSONIsContent DEF BlocksInv, AllSent, Open, OpenIsWhole
<1>2. \A i \in 1..n : f[i] = Kept(blocks[i], i) /\ f[i] \in Seq(MessageBlock)
  BY <1>1, KeptIsBlock
<1>3. f = [i \in 1..n |-> f[i]] /\ f = [i \in 1..n |-> Kept(blocks[i], i)]
  OBVIOUS
<1> HIDE DEF f
<1>4. /\ S(0) = <<>>
      /\ \A k \in 0..n : S(k) \in Seq(MessageBlock)
      /\ \A k \in 0..(n - 1) : S(k + 1) = S(k) \o f[k + 1]
  <2> HIDE DEF n
  <2> QED
    BY <1>1, <1>2, FlattenPrefixes
<1>5. StreamContent = S(n)
  BY <1>1, <1>3 DEF StreamContent
<1>6. J(0) = <<>>
  OBVIOUS
<1>7. ASSUME NEW k \in 0..(n - 1)
      PROVE  J(k + 1) = Append(J(k), JSONBlock(k + 1))
  <2>1. Len(J(k)) = k /\ J(k) \in Seq(MessageBlock) /\ J(k + 1) \in Seq(MessageBlock)
        /\ Len(J(k + 1)) = k + 1 /\ k + 1 \in 1..n
    <3>1. k \in 0..n /\ k + 1 \in 0..n /\ k \in Nat
      BY <1>1
    <3> QED
      BY <1>1, <3>1
  <2>2. JSONBlock(k + 1) \in MessageBlock
    BY <1>1, <2>1
  <2> DEFINE q == Append(J(k), JSONBlock(k + 1))
  <2>3. /\ q \in Seq(MessageBlock) /\ Len(q) = k + 1
        /\ \A i \in 1..k : q[i] = J(k)[i]
        /\ q[k + 1] = JSONBlock(k + 1)
    <3> HIDE DEF J
    <3> QED
      BY <2>1, <2>2, AppendProperties
  <2> HIDE DEF q
  <2>4. \A i \in 1..(k + 1) : q[i] = J(k + 1)[i]
    BY <2>3
  <2>5. q = J(k + 1)
    <3> HIDE DEF J
    <3> QED
      BY <2>1, <2>3, <2>4, SeqEqual
  <2> QED
    BY <2>5 DEF q
<1>8. <<>> \o <<>> = <<>>
  OBVIOUS
<1> HIDE DEF S, J, n
<1>9. 0 \in A
  <2>1. Alike(ToolCalls(<<>>), ToolCalls(<<>>))
    <3>1. Len(<<>>) = 0
      OBVIOUS
    <3> QED
      BY <3>1, CallsGrow DEF Alike
  <2>2. SameText(<<>>, <<>>)
    <3>1. IsSpoken(<<>>)
      BY DEF IsSpoken
    <3> QED
      BY <3>1, SpokenGrows
  <2>3. 0 \in 0..n
    BY <1>1
  <2>4. S(0) = <<>> /\ J(0) = <<>>
    BY <1>4, <1>6
  <2> HIDE DEF SameText, NoTool
  <2>5. Alike(ToolCalls(S(0)), ToolCalls(J(0))) /\ SameText(S(0), J(0))
    BY <2>1, <2>2, <2>4, Zenon
  <2> QED
    BY <2>3, <2>5
<1>10. ASSUME NEW k \in 0..(n - 1), k \in A
       PROVE  k + 1 \in A
  <2> DEFINE i  == k + 1
             s  == S(k)
             j  == J(k)
             m  == reply.content[i].pieces
             type == reply.content[i].type
             p  == Pieces(i, m)
             jb == JSONBlock(i)
  <2>0. k \in 0..n /\ i \in 1..n /\ i \in 0..n
    BY <1>1
  <2>1. /\ s \in Seq(MessageBlock) /\ j \in Seq(MessageBlock)
        /\ S(i) = s \o f[i] /\ J(i) = Append(j, jb)
        /\ jb \in MessageBlock
        /\ Alike(ToolCalls(s), ToolCalls(j))
        /\ NoTool(k) => SameText(s, j)
    BY <1>1, <1>4, <1>7, <1>10, <2>0
  <2>2. /\ i \in Nat \ {0} /\ m \in Nat /\ type \in Tags /\ Id(i) \in Nat \X Nat
        /\ f[i] = Kept(BlockAt(i), i) /\ sent[i] = m
        /\ i \in 1..Len(reply.content)
    <3>1. i \in 1..Len(blocks)
      BY <1>1, <2>0
    <3> QED
      BY <1>1, <1>2, <2>0, <3>1, KeptIsBlock
  <2>3. /\ p \in Seq({i} \X Nat) /\ p \in Seq(Word \ Marks) /\ p \in Seq(Word)
        /\ Len(p) = m /\ PiecesOf(p) = p
        /\ \A l \in 1..m : p[l] = <<i, l>>
        /\ TextOf(p) = IF type = "text" THEN p ELSE <<>>
    BY <2>2, PiecesAreWords, PiecesOfParts, TextOfParts
  <2>4. jb = [type |-> type, id |-> Id(i),
              words |-> IF type = "tool_use" /\ m = 0 THEN <<Nothing>> ELSE p]
    BY DEF JSONBlock
  <2>5. NoTool(i) => NoTool(k) /\ type # "tool_use"
    BY <1>1, <2>0
  <2>6. /\ ToolCalls(s) \in Seq(CallEvent) /\ ToolCalls(j) \in Seq(CallEvent)
        /\ ToolCalls(J(i)) = ToolCalls(j) \o CallOf(jb)
        /\ Spoken(s) \in Seq(Word) /\ Spoken(j) \in Seq(Word)
        /\ Spoken(J(i)) = Spoken(j) \o jb.words
    BY <2>1, CallsGrow, SpokenGrows
  <2>7. BlockAt(i).type = type /\ BlockAt(i).id = Id(i)
        /\ BlockAt(i).text = (IF type = "text" THEN p ELSE <<>>)
        /\ BlockAt(i).input = (IF type = "tool_use" THEN <<Nothing>> \o p ELSE <<>>)
    BY <2>2 DEF BlockAt, BlockSent
  <2> SUFFICES i \in A
    OBVIOUS
  <2> HIDE DEF i, s, j, m, type, p, jb, NoTool
  <2>8. ASSUME Alike(ToolCalls(S(i)), ToolCalls(J(i))),
               NoTool(i) => SameText(S(i), J(i))
        PROVE  i \in A
    <3> HIDE DEF SameText
    <3> QED
      BY <2>0, <2>8
  <2> HIDE DEF A
  <2>9. CASE type = "text"
    <3>1. f[i] = <<[type |-> type, id |-> Id(i), words |-> p]>>
      BY <2>2, <2>7, <2>9, Zenon DEF Kept
    <3>2. jb = [type |-> type, id |-> Id(i), words |-> p]
      BY <2>4, <2>9
    <3>3. S(i) = Append(s, jb)
      BY <2>1, <3>1, <3>2, AppendIsConcat
    <3>4. CallOf(jb) = <<>> /\ jb.words = p
      BY <2>9, <3>2 DEF CallOf
    <3>5. ToolCalls(S(i)) = ToolCalls(s) /\ ToolCalls(J(i)) = ToolCalls(j)
      BY <2>1, <2>6, <3>3, <3>4, CallsGrow, ConcatEmptySeq
    <3>6. Spoken(S(i)) = Spoken(s) \o p /\ Spoken(J(i)) = Spoken(j) \o p
      BY <2>1, <2>6, <3>3, <3>4, SpokenGrows
    <3>7. ASSUME NoTool(i)
          PROVE  SameText(S(i), J(i))
      <4>1. TextOf(Spoken(s)) = TextOf(Spoken(j)) /\ IsSpoken(Spoken(s))
        BY <2>1, <2>5, <3>7
      <4>2. TextOf(Spoken(S(i))) = TextOf(Spoken(J(i)))
        <5>1. /\ TextOf(Spoken(s) \o p) = TextOf(Spoken(s)) \o TextOf(p)
              /\ TextOf(Spoken(j) \o p) = TextOf(Spoken(j)) \o TextOf(p)
          BY <2>3, <2>6, TextOfParts
        <5> QED
          BY <3>6, <4>1, <5>1
      <4>3. \A l \in 1..m : IsText(p[l])
        BY <2>3, <2>9 DEF IsText, type
      <4> DEFINE q == Spoken(s)
                 r == Spoken(s) \o p
      <4>4. /\ q \in Seq(Word) /\ Len(q) \in Nat /\ Len(r) = Len(q) + Len(p)
            /\ \A l \in 1..(Len(q) + Len(p)) :
                 r[l] = IF l <= Len(q) THEN q[l] ELSE p[l - Len(q)]
        BY <2>3, <2>6, ConcatProperties, LenProperties
      <4>5. \A l \in 1..Len(q) : IsText(q[l])
        BY <4>1 DEF IsSpoken
      <4> HIDE DEF q, r
      <4>6. ASSUME NEW l \in 1..Len(r)
            PROVE  IsText(r[l])
        <5>1. l \in 1..Len(q) \/ (~(l <= Len(q)) /\ l - Len(q) \in 1..m)
          BY <2>2, <2>3, <4>4
        <5>2. r[l] = IF l <= Len(q) THEN q[l] ELSE p[l - Len(q)]
          BY <4>4
        <5>3. l \in 1..Len(q) => l <= Len(q)
          BY <4>4
        <5> QED
          BY <4>3, <4>5, <5>1, <5>2, <5>3
      <4>7. IsSpoken(Spoken(S(i)))
        BY <3>6, <4>6 DEF IsSpoken, r
      <4> QED
        BY <4>2, <4>7
    <3> QED
      BY <2>1, <2>8, <3>5, <3>7
  <2>10. CASE type = "tool_use"
    <3> DEFINE w  == FinalizeInputJSON(<<Nothing>> \o p, i)
               kb == [type |-> type, id |-> Id(i), words |-> w]
               a  == Event("tool.call", Id(i), w)
               b  == Event("tool.call", Id(i), jb.words)
    <3>0. w = FinalizeInputJSON(<<Nothing>> \o Pieces(i, m), i)
      BY DEF p
    <3> HIDE DEF w
    <3>1. /\ w \in Seq(Word) /\ PiecesOf(w) = p
          /\ Quoted \in Range(w) <=> m # 0
      BY <2>2, <3>0, ToolInputs DEF p, m
    <3>2. f[i] = <<kb>>
      <4>1. type # "text"
        BY <2>10
      <4> QED
        BY <2>2, <2>7, <2>10, <4>1 DEF Kept, w
    <3>3. kb \in MessageBlock
      BY <2>2, <3>1 DEF MessageBlock
    <3>4. jb.words = (IF m = 0 THEN <<Nothing>> ELSE p) /\ jb.words \in Seq(Word)
      <4>1. Nothing \in Word
        BY DEF Nothing, Word
      <4> QED
        BY <2>3, <2>4, <2>10, <4>1
    <3>5. PiecesOf(jb.words) = p /\ (p # <<>> <=> m # 0)
      <4>1. p = <<>> <=> m = 0
        BY <2>3, EmptySeq
      <4>2. PiecesOf(<<Nothing>>) = <<>>
        BY PiecesOfParts DEF Marks
      <4> QED
        BY <2>3, <3>4, <4>1, <4>2
    <3>6. CallOf(kb) = <<a>> /\ CallOf(jb) = <<b>>
      BY <2>4, <2>10 DEF CallOf
    <3>7. a \in CallEvent /\ b \in CallEvent /\ SameCall(a, b)
      <4>1. a.id = Id(i) /\ b.id = Id(i) /\ a.payload = w /\ b.payload = jb.words
        BY DEF Event
      <4>2. a \in CallEvent /\ b \in CallEvent
        BY <2>2, <3>1, <3>4 DEF CallEvent, Event
      <4> HIDE DEF a, b
      <4> QED
        BY <3>1, <3>5, <4>1, <4>2 DEF SameCall
    <3> HIDE DEF a, b, kb
    <3>8. S(i) = Append(s, kb)
      BY <2>1, <3>2, <3>3, AppendIsConcat
    <3>9. ToolCalls(S(i)) = ToolCalls(s) \o <<a>> /\ ToolCalls(J(i)) = ToolCalls(j) \o <<b>>
      BY <2>1, <2>6, <3>3, <3>6, <3>8, CallsGrow
    <3>10. Alike(ToolCalls(S(i)), ToolCalls(J(i)))
      BY <2>1, <2>6, <3>7, <3>9, AlikeAppend
    <3> QED
      BY <2>5, <2>8, <2>10, <3>10
  <2>11. CASE type \notin {"text", "tool_use"}
    <3>1. f[i] = <<>>
      BY <2>2, <2>7, <2>11 DEF Kept
    <3>2. S(i) = s
      BY <2>1, <3>1, ConcatEmptySeq
    <3>3. CallOf(jb) = <<>> /\ jb.words = p
      BY <2>4, <2>11 DEF CallOf
    <3>4. ToolCalls(J(i)) = ToolCalls(j)
      BY <2>6, <3>3, ConcatEmptySeq
    <3>5. TextOf(Spoken(J(i))) = TextOf(Spoken(j))
      <4>1. TextOf(p) = <<>> /\ TextOf(Spoken(j)) \in Seq(Word)
        BY <2>3, <2>6, <2>11, TextOfParts
      <4>2. TextOf(Spoken(j) \o p) = TextOf(Spoken(j)) \o TextOf(p)
        BY <2>3, <2>6, TextOfParts
      <4> QED
        BY <2>6, <3>3, <4>1, <4>2, ConcatEmptySeq
    <3> QED
      BY <2>1, <2>5, <2>8, <3>2, <3>4, <3>5
  <2> QED
    BY <2>2, <2>9, <2>10, <2>11
<1> HIDE DEF A
<1>11. 0..n \subseteq A
  BY <1>1, <1>9, <1>10, Induction
<1>12. n \in A
  BY <1>1, <1>11
<1>13. /\ Alike(ToolCalls(S(n)), ToolCalls(J(n)))
       /\ NoTool(n) => SameText(S(n), J(n))
  <2> HIDE DEF NoTool, SameText
  <2> QED
    BY <1>12 DEF A
<1>14. n \in 0..n
  BY <1>1
<1> QED
  BY <1>1, <1>4, <1>5, <1>13, <1>14 DEF n
-----------------------------------------------------------------------------
(* The events of an answer.                                                *)
Happenings == {"llm.request", "agent.busy", "tool.result", "llm.response",
               "tool.call", "agent.tooling", "agent.done", "agent.error"}

AnyEvent == [kind : Happenings, id : (Nat \X Nat) \cup {<<>>}, payload : Seq(Word)]

(* Those of a message: its text, then its calls, then the verdict.         *)
LEMMA AnswerParts ==
    ASSUME NEW c \in Seq(MessageBlock), NEW stop,
           NEW v, v = OfMessage(c, stop),
           NEW t, t = ToolCalls(c),
           NEW d, d = Verdict(c, stop)
    PROVE  /\ v \in Seq(AnyEvent) /\ t \in Seq(CallEvent)
           /\ Len(t) \in Nat /\ Len(d) \in Nat
           /\ d = IF t # <<>> THEN <<Plain("agent.tooling")>>
                  ELSE IF stop = "end_turn" THEN <<Plain("agent.done")>> ELSE <<>>
           /\ Len(v) = 1 + Len(t) + Len(d)
           /\ v[1] = Event("llm.response", <<>>, Spoken(c))
           /\ \A i \in 1..Len(t) : v[1 + i] = t[i] /\ t[i] \in CallEvent
           /\ \A i \in 1..Len(d) : v[1 + Len(t) + i] = d[i]
<1> DEFINE e == Event("llm.response", <<>>, Spoken(c))
           o == <<e>>
<1>1. t \in Seq(CallEvent) /\ CallEvent \subseteq AnyEvent
  <2>1. ASSUME NEW a \in CallEvent
        PROVE  a \in AnyEvent
    BY DEF CallEvent, AnyEvent, Happenings
  <2> QED
    BY <2>1, CallsGrow
<1>2. e \in AnyEvent
  <2>1. Spoken(c) \in Seq(Word)
    BY SpokenGrows
  <2> QED
    BY <2>1 DEF Event, AnyEvent, Happenings
<1>3. d = IF t # <<>> THEN <<Plain("agent.tooling")>>
          ELSE IF stop = "end_turn" THEN <<Plain("agent.done")>> ELSE <<>>
  BY CallsOfTools DEF Verdict
<1>4. Plain("agent.tooling") \in AnyEvent /\ Plain("agent.done") \in AnyEvent
  BY DEF Plain, Event, AnyEvent, Happenings
<1>5. d \in Seq(AnyEvent)
  BY <1>3, <1>4
<1>6. v = (o \o t) \o d
  BY DEF OfMessage
<1>7. o \in Seq(AnyEvent) /\ Len(o) = 1 /\ o[1] = e /\ t \in Seq(AnyEvent)
  BY <1>1, <1>2, SeqMonotonic
<1> HIDE DEF o, e
<1> DEFINE u == o \o t
<1>8. /\ u \in Seq(AnyEvent) /\ Len(u) = Len(o) + Len(t)
      /\ \A i \in 1..(Len(o) + Len(t)) :
           u[i] = IF i <= Len(o) THEN o[i] ELSE t[i - Len(o)]
  BY <1>7, ConcatProperties
<1>9. Len(t) \in Nat /\ Len(d) \in Nat /\ \A i \in 1..Len(t) : t[i] \in CallEvent
  BY <1>1, <1>5, LenProperties, ElementOfSeq
<1> HIDE DEF u
<1>10. /\ v \in Seq(AnyEvent) /\ Len(v) = Len(u) + Len(d)
       /\ \A i \in 1..(Len(u) + Len(d)) :
            v[i] = IF i <= Len(u) THEN u[i] ELSE d[i - Len(u)]
  BY <1>5, <1>6, <1>8, ConcatProperties DEF u
<1>11. Len(u) = 1 + Len(t)
  BY <1>7, <1>8
<1>12. v[1] = e
  <2>1. 1 \in 1..(Len(u) + Len(d)) /\ 1 <= Len(u) /\ 1 \in 1..(Len(o) + Len(t)) /\ 1 <= Len(o)
    BY <1>7, <1>9, <1>11
  <2> QED
    BY <1>7, <1>8, <1>10, <2>1
<1>13. ASSUME NEW i \in 1..Len(t)
       PROVE  v[1 + i] = t[i]
  <2> DEFINE k == 1 + i
  <2>1. /\ k \in 1..(Len(u) + Len(d)) /\ k <= Len(u)
        /\ k \in 1..(Len(o) + Len(t)) /\ ~(k <= Len(o)) /\ k - Len(o) = i
    BY <1>7, <1>9, <1>11
  <2> HIDE DEF k
  <2>2. v[k] = t[i]
    BY <1>8, <1>10, <2>1
  <2> QED
    BY <2>2 DEF k
<1>14. ASSUME NEW i \in 1..Len(d)
       PROVE  v[1 + Len(t) + i] = d[i]
  <2> DEFINE k == 1 + Len(t) + i
  <2>1. k \in 1..(Len(u) + Len(d)) /\ ~(k <= Len(u)) /\ k - Len(u) = i
    BY <1>9, <1>11
  <2> HIDE DEF k
  <2>2. v[k] = d[i]
    BY <1>10, <2>1
  <2> QED
    BY <2>2 DEF k
<1>15. Len(v) = 1 + Len(t) + Len(d)
  BY <1>9, <1>10, <1>11
<1> QED
  BY <1>1, <1>3, <1>9, <1>10, <1>12, <1>13, <1>14, <1>15 DEF e

(* Those of the request: one result for each id of the conversation.       *)
LEMMA RequestParts ==
    ASSUME NEW h \in Seq(Nat \X Nat), NEW r, r = NormalizeRequest(h)
    PROVE  /\ r \in Seq(AnyEvent) /\ Len(r) = 2 + Len(h) /\ Len(h) \in Nat
           /\ \A i \in 1..Len(h) : r[2 + i] = Event("tool.result", h[i], <<>>)
           /\ \A i \in 1..Len(r) : r[i].kind # "tool.call"
<1> DEFINE o == <<Plain("llm.request"), Plain("agent.busy")>>
           q == [i \in 1..Len(h) |-> Event("tool.result", h[i], <<>>)]
<1>1. Len(h) \in Nat /\ \A i \in 1..Len(h) : h[i] \in Nat \X Nat
  BY LenProperties, ElementOfSeq
<1>2. \A i \in 1..Len(h) : Event("tool.result", h[i], <<>>) \in AnyEvent
  <2>1. <<>> \in Seq(Word)
    BY EmptySeq
  <2> QED
    BY <1>1, <2>1 DEF Event, AnyEvent, Happenings
<1>3. /\ q \in Seq(AnyEvent) /\ Len(q) = Len(h)
      /\ \A i \in 1..Len(h) : q[i] = Event("tool.result", h[i], <<>>)
  BY <1>1, <1>2
<1>4. Plain("llm.request") \in AnyEvent /\ Plain("agent.busy") \in AnyEvent
  BY DEF Plain, Event, AnyEvent, Happenings
<1>5. /\ o \in Seq(AnyEvent) /\ Len(o) = 2
      /\ o[1].kind # "tool.call" /\ o[2].kind # "tool.call"
  BY <1>4 DEF Plain, Event
<1>6. r = o \o q
  BY DEF NormalizeRequest
<1> HIDE DEF o, q
<1>7. /\ r \in Seq(AnyEvent) /\ Len(r) = Len(o) + Len(q)
      /\ \A i \in 1..(Len(o) + Len(q)) :
           r[i] = IF i <= Len(o) THEN o[i] ELSE q[i - Len(o)]
  <2>1. q \in Seq(AnyEvent) /\ o \in Seq(AnyEvent)
    BY <1>3, <1>5
  <2>2. /\ o \o q \in Seq(AnyEvent) /\ Len(o \o q) = Len(o) + Len(q)
        /\ \A i \in 1..(Len(o) + Len(q)) :
             (o \o q)[i] = IF i <= Len(o) THEN o[i] ELSE q[i - Len(o)]
    BY <2>1, ConcatProperties
  <2> QED
    BY <1>6, <2>2
<1>8. ASSUME NEW i \in 1..Len(h)
      PROVE  r[2 + i] = Event("tool.result", h[i], <<>>)
  <2> DEFINE k == 2 + i
  <2>1. k \in 1..(Len(o) + Len(q)) /\ ~(k <= Len(o)) /\ k - Len(o) = i
    BY <1>1, <1>3, <1>5
  <2> HIDE DEF k
  <2>2. r[k] = q[i]
    BY <1>7, <2>1
  <2> QED
    BY <1>3, <2>2 DEF k
<1>9. ASSUME NEW i \in 1..Len(r)
      PROVE  r[i].kind # "tool.call"
  <2>1. \/ i <= Len(o) /\ i \in {1, 2}
        \/ ~(i <= Len(o)) /\ i - Len(o) \in 1..Len(h)
    BY <1>1, <1>3, <1>5, <1>7
  <2>2. r[i] = IF i <= Len(o) THEN o[i] ELSE q[i - Len(o)]
    BY <1>7
  <2>3. \A k \in 1..Len(h) : q[k].kind # "tool.call"
    <3>1. \A k \in 1..Len(h) : Event("tool.result", h[k], <<>>).kind = "tool.result"
      BY DEF Event
    <3> QED
      BY <1>3, <3>1
  <2> QED
    BY <1>5, <2>1, <2>2, <2>3
<1> QED
  BY <1>1, <1>3, <1>5, <1>7, <1>8, <1>9
-----------------------------------------------------------------------------
(* The inductive invariant.  A turn is sent in order, so only the last     *)
(* started block can be incomplete, and the stop reason comes after all.   *)
FramesInv ==
    /\ pc \in {"idle", "asked", "frames", "answered"}
    /\ \A i \in 1..Len(sent) : i # Len(sent) => sent[i] = reply.content[i].pieces
    /\ stopReason # "" => stopReason = reply.stop /\ AllSent
    /\ pc = "asked" => sent = <<>> /\ blocks = <<>> /\ stopReason = ""

(* What the handler has published of the round.                            *)
AnswerIs(evts) == events = NormalizeRequest(history) \o evts

EventsInv ==
    /\ pc \in {"asked", "frames"} =>
         events = NormalizeRequest(history) /\ fault = "none"
    /\ pc = "answered" =>
         \/ /\ fault = "none" /\ sent = <<>>
            /\ AnswerIs(OfMessage(JSONContent, reply.stop))
         \/ /\ fault = "none" /\ stopReason # ""
            /\ AnswerIs(OfMessage(StreamContent, stopReason))
         \/ fault = "cut" /\ AnswerIs(OfMessage(StreamContent, ""))
         \/ fault \in {"encoding", "broken"} /\ AnswerIs(Failed(200))
         \/ fault = "unreadable" /\ \E s \in {200, 500} : AnswerIs(NoMessage(s))
         \/ fault = "status" /\ AnswerIs(NoMessage(500))

HistoryInv ==
    /\ history \in Seq(Nat \X Nat)
    /\ called \subseteq Range(history)

IInv == ReplyInv /\ BlocksInv /\ FramesInv /\ EventsInv /\ HistoryInv

(* A conversation begins with the invariant.                               *)
LEMMA InitInv == Init => IInv
<1> SUFFICES ASSUME Init PROVE IInv
  OBVIOUS
<1>1. <<>> \in Seq([type : Tags, pieces : Nat]) /\ <<>> \in Seq(Nat)
      /\ <<>> \in Seq(StreamBlock) /\ <<>> \in Seq(Nat \X Nat) /\ Len(<<>>) = 0
  OBVIOUS
<1>2. ReplyInv
  BY <1>1 DEF Init, ReplyInv
<1>3. /\ Len(sent) = 0 /\ Len(blocks) = 0 /\ Len(reply.content) = 0
      /\ sent \in Seq(Nat) /\ blocks \in Seq(StreamBlock)
      /\ pc = "idle" /\ stopReason = ""
  BY <1>1 DEF Init
<1>4. BlocksInv /\ FramesInv
  <2>1. 1..Len(sent) = {} /\ Len(blocks) = Len(sent) /\ Len(sent) <= Len(reply.content)
    <3>1. Len(sent) = 0 /\ Len(blocks) = 0 /\ Len(reply.content) = 0
      BY <1>3
    <3>2. 1..0 = {} /\ 0 <= 0
      OBVIOUS
    <3> QED
      BY <3>1, <3>2, Zenon
  <2>2. BlocksInv
    BY <1>3, <2>1 DEF BlocksInv
  <2>3. FramesInv
    BY <1>3, <2>1 DEF FramesInv
  <2> QED
    BY <2>2, <2>3
<1>5. EventsInv /\ HistoryInv
  BY <1>1 DEF Init, EventsInv, HistoryInv
<1> QED
  BY <1>2, <1>4, <1>5 DEF IInv

(* Only a request changes the reply.                                       *)
LEMMA StepReply == ReplyInv /\ [Next]_vars => ReplyInv'
<1> SUFFICES ASSUME ReplyInv, [Next]_vars PROVE ReplyInv'
  OBVIOUS
<1>1. CASE Request
  <2>1. reply' \in Replies /\ round' = round + 1
    BY <1>1 DEF Request
  <2>2. reply'.content \in Contents /\ reply'.stop \in {"end_turn", "max_tokens", "tool_use"}
    BY <2>1 DEF Replies
  <2> DEFINE B == {Block("text", k) : k \in 1..MaxPieces}
                    \cup {Block("tool_use", k) : k \in 0..MaxPieces}
                    \cup {Block("thinking", 1)}
  <2>3. PICK n \in 0..MaxBlocks : reply'.content \in [1..n -> B]
    BY <2>2 DEF Contents
  <2>4. B \subseteq [type : Tags, pieces : Nat]
    BY ClaudeAssumption DEF Block, Tags
  <2>5. n \in Nat
    BY ClaudeAssumption
  <2> DEFINE c == reply'.content
  <2>6. c \in [1..n -> [type : Tags, pieces : Nat]]
    BY <2>3, <2>4
  <2> HIDE DEF B, c
  <2>7. c \in Seq([type : Tags, pieces : Nat])
    BY <2>5, <2>6, SeqDef
  <2> QED
    BY <2>1, <2>2, <2>7 DEF ReplyInv, c
<1>2. CASE ~Request
  <2>1. UNCHANGED <<round, reply>>
    BY <1>2 DEF Next, vars, WholeResponse, MessageStart, ContentBlockStart,
       ContentBlockDelta, MessageDelta, StreamEnds, StreamBreaks, Proceed
  <2> QED
    BY <2>1 DEF ReplyInv
<1> QED
  BY <1>1, <1>2

(* A piece more of a block of text or of a tool, or of another.            *)
LEMMA BlockGrows ==
    ASSUME NEW b, NEW id, NEW q \in Seq(Word), NEW p \in Word,
           b.type \in Tags, id \in Nat \X Nat,
           NEW old, old = BlockSent(b, id, q),
           NEW new, new = BlockSent(b, id, Append(q, p))
    PROVE  /\ new \in StreamBlock /\ old.type = b.type
           /\ b.type = "text" => new = [old EXCEPT !.text = Append(old.text, p)]
           /\ b.type = "tool_use" => new = [old EXCEPT !.input = Append(old.input, p)]
           /\ b.type \notin {"text", "tool_use"} => new = old
<1> DEFINE o == <<Nothing>>
           e == <<>>
           r == Append(q, p)
           type == b.type
<1>1. o \in Seq(Word) /\ e \in Seq(Word) /\ r \in Seq(Word)
  <2>1. Nothing \in Word
    BY DEF Nothing, Word
  <2> QED
    BY <2>1, AppendProperties
<1>2. /\ old = [type |-> type, id |-> id,
                text |-> IF type = "text" THEN q ELSE e,
                input |-> IF type = "tool_use" THEN o \o q ELSE e]
      /\ new = [type |-> type, id |-> id,
                text |-> IF type = "text" THEN r ELSE e,
                input |-> IF type = "tool_use" THEN o \o r ELSE e]
  BY DEF BlockSent
<1>3. type \in Tags
  OBVIOUS
<1> HIDE DEF o, e, r, type
<1>4. Append(o \o q, p) = o \o r /\ o \o q \in Seq(Word) /\ o \o r \in Seq(Word)
  <2>1. /\ r = q \o <<p>> /\ <<p>> \in Seq(Word)
        /\ o \o q \in Seq(Word) /\ o \o r \in Seq(Word)
        /\ Append(o \o q, p) = (o \o q) \o <<p>>
    BY <1>1, AppendIsConcat, ConcatProperties DEF r
  <2>2. (o \o q) \o <<p>> = o \o (q \o <<p>>)
    BY <1>1, <2>1, ConcatAssociative
  <2> QED
    BY <2>1, <2>2
<1>5. CASE type = "text"
  <2>1. /\ old = [type |-> type, id |-> id, text |-> q, input |-> e]
        /\ new = [type |-> type, id |-> id, text |-> r, input |-> e]
    BY <1>2, <1>5
  <2>2. new = [old EXCEPT !.text = r]
    BY <2>1
  <2>3. old.text = q
    BY <2>1
  <2>4. new = [old EXCEPT !.text = Append(old.text, p)]
    BY <2>2, <2>3 DEF r
  <2>5. new \in StreamBlock
    BY <1>1, <1>3, <2>1 DEF StreamBlock
  <2>6. old.type = type
    BY <2>1
  <2> QED
    BY <1>5, <2>4, <2>5, <2>6 DEF type
<1>6. CASE type = "tool_use"
  <2>1. /\ old = [type |-> type, id |-> id, text |-> e, input |-> o \o q]
        /\ new = [type |-> type, id |-> id, text |-> e, input |-> o \o r]
    BY <1>2, <1>6
  <2>2. new = [old EXCEPT !.input = o \o r]
    <3> DEFINE s == o \o r
               t == o \o q
    <3>1. /\ old = [type |-> type, id |-> id, text |-> e, input |-> t]
          /\ new = [type |-> type, id |-> id, text |-> e, input |-> s]
      BY <2>1
    <3> HIDE DEF s, t
    <3>2. new = [old EXCEPT !.input = s]
      BY <3>1
    <3> QED
      BY <3>2 DEF s
  <2>3. old.input = o \o q
    BY <2>1
  <2>4. new = [old EXCEPT !.input = Append(old.input, p)]
    BY <1>4, <2>2, <2>3
  <2>5. new \in StreamBlock
    BY <1>1, <1>3, <1>4, <2>1 DEF StreamBlock
  <2>6. old.type = type
    BY <2>1
  <2> QED
    BY <1>6, <2>4, <2>5, <2>6 DEF type
<1>7. CASE type \notin {"text", "tool_use"}
  <2>1. /\ old = [type |-> type, id |-> id, text |-> e, input |-> e]
        /\ new = [type |-> type, id |-> id, text |-> e, input |-> e]
    BY <1>2, <1>7
  <2>2. new \in StreamBlock
    BY <1>1, <1>3, <2>1 DEF StreamBlock
  <2> QED
    BY <1>7, <2>1, <2>2 DEF type
<1> QED
  BY <1>5, <1>6, <1>7

(* A sequence with one member replaced.                                    *)
LEMMA Replaced ==
    ASSUME NEW S, NEW s \in Seq(S), NEW i \in 1..Len(s), NEW e \in S,
           NEW t, t = [s EXCEPT ![i] = e]
    PROVE  /\ t \in Seq(S) /\ Len(t) = Len(s)
           /\ \A k \in 1..Len(s) : t[k] = IF k = i THEN e ELSE s[k]
BY ExceptSeq

(* Where neither the reply nor the blocks change, no block does.           *)
LEMMA SameBlocks ==
    BlocksInv /\ UNCHANGED <<round, reply, sent, blocks>> => BlocksInv'
BY DEF BlocksInv, BlockAt, Id

(* An answer in one piece says one of four things.                         *)
LEMMA WholeAnswer ==
    WholeResponse =>
        \/ Answered(Failed(200), "encoding")
        \/ \E status \in {200, 500} : Answered(NoMessage(status), "unreadable")
        \/ Answered(NoMessage(500), "status")
        \/ Answered(OfMessage(JSONContent, reply.stop), "none")
<1> SUFFICES ASSUME WholeResponse
             PROVE  \/ Answered(Failed(200), "encoding")
                    \/ \E status \in {200, 500} : Answered(NoMessage(status), "unreadable")
                    \/ Answered(NoMessage(500), "status")
                    \/ Answered(OfMessage(JSONContent, reply.stop), "none")
  OBVIOUS
<1>1. PICK header \in Encodings, broken \in {<<>>, <<"broken">>}, status \in {200, 500} :
        LET body == DecodeResponseBody(header,
                                       ParseContentEncodings(header) \o broken)
        IN  CASE body = <<"error">> -> Answered(Failed(status), "encoding")
              [] body \notin {<<>>, <<"error">>} ->
                   Answered(NoMessage(status), "unreadable")
              [] body = <<>> /\ status >= 400 ->
                   Answered(NoMessage(status), "status")
              [] body = <<>> /\ status < 400 ->
                   Answered(OfMessage(JSONContent, reply.stop), "none")
  BY Zenon DEF WholeResponse
<1> DEFINE body == DecodeResponseBody(header, ParseContentEncodings(header) \o broken)
<1>2. <<"error">> # <<>>
  OBVIOUS
<1>3. \/ status = 200 /\ ~(status >= 400) /\ status < 400
      \/ status = 500 /\ status >= 400
  OBVIOUS
<1> HIDE DEF body
<1>4. \/ Answered(Failed(status), "encoding")
      \/ Answered(NoMessage(status), "unreadable")
      \/ status >= 400 /\ Answered(NoMessage(status), "status")
      \/ Answered(OfMessage(JSONContent, reply.stop), "none")
  BY <1>1, <1>2, <1>3 DEF body
<1>5. Failed(status) = Failed(200)
  BY DEF Failed
<1> QED
  BY <1>3, <1>4, <1>5

(* Every frame keeps the blocks what was sent of them.                     *)
LEMMA StepBlocks ==
    ReplyInv /\ BlocksInv /\ FramesInv /\ [Next]_vars => BlocksInv' /\ FramesInv'
<1> SUFFICES ASSUME ReplyInv, BlocksInv, FramesInv, [Next]_vars
             PROVE  BlocksInv' /\ FramesInv'
  OBVIOUS
<1>0. /\ reply.content \in Seq([type : Tags, pieces : Nat])
      /\ Len(reply.content) \in Nat
      /\ sent \in Seq(Nat) /\ blocks \in Seq(StreamBlock)
      /\ Len(sent) \in Nat /\ Len(blocks) = Len(sent)
      /\ Len(sent) <= Len(reply.content)
  BY LenProperties DEF ReplyInv, BlocksInv
<1>1. CASE Request
  <2>1. ReplyInv'
    BY StepReply
  <2>2. sent' = <<>> /\ blocks' = <<>> /\ stopReason' = "" /\ pc' = "asked"
    BY <1>1 DEF Request
  <2>3. Len(<<>>) = 0 /\ <<>> \in Seq(Nat) /\ <<>> \in Seq(StreamBlock)
    OBVIOUS
  <2>4. Len(reply'.content) \in Nat
    BY <2>1, LenProperties DEF ReplyInv
  <2>5. /\ Len(sent') = 0 /\ Len(blocks') = 0
        /\ sent' \in Seq(Nat) /\ blocks' \in Seq(StreamBlock)
    BY <2>2, <2>3
  <2>6. 1..Len(sent') = {} /\ Len(blocks') = Len(sent') /\ Len(sent') <= Len(reply'.content)
    <3>1. 1..0 = {}
      OBVIOUS
    <3> QED
      BY <2>4, <2>5, <3>1
  <2>7. BlocksInv'
    BY <2>5, <2>6 DEF BlocksInv
  <2>8. FramesInv'
    BY <2>2, <2>6 DEF FramesInv
  <2> QED
    BY <2>7, <2>8
<1>2. CASE ContentBlockStart
  <2> PICK l \in Nat : l = Len(sent)
    BY <1>0
  <2> PICK i \in Nat \ {0} : i = l + 1
    OBVIOUS
  <2> DEFINE c == reply.content
             b == c[i]
             n == [type |-> b.type, id |-> Id(i), text |-> <<>>,
                   input |-> IF b.type = "tool_use" THEN <<Nothing>> ELSE <<>>]
  <2>1. pc = "frames" /\ stopReason = "" /\ OpenIsWhole /\ l < Len(c)
    BY <1>2 DEF ContentBlockStart, Open
  <2>01. blocks' = Append(blocks, n)
    BY <1>2 DEF ContentBlockStart, Open
  <2>02. /\ sent' = Append(sent, 0)
         /\ pc' = pc /\ round' = round /\ reply' = reply /\ stopReason' = stopReason
    BY <1>2 DEF ContentBlockStart
  <2>2. /\ \A k \in 1..l : sent[k] = c[k].pieces
        /\ \A k \in 1..l : blocks[k] = BlockAt(k) /\ sent[k] <= c[k].pieces
    BY <2>1 DEF OpenIsWhole, Open, BlocksInv
  <2>3. /\ l \in Nat /\ Len(c) \in Nat /\ l = Len(sent) /\ l = Len(blocks)
        /\ c \in Seq([type : Tags, pieces : Nat]) /\ c = reply.content
    BY <1>0
  <2> HIDE DEF c
  <2>4. i \in 1..Len(c) /\ i \in Nat \ {0} /\ \A k \in 1..i : k \in 1..l \/ k = i
    <3>1. l \in Nat /\ Len(c) \in Nat /\ l < Len(c)
      BY <2>1, <2>3
    <3> HIDE DEF n, b
    <3> QED
      BY <3>1
  <2>5. b \in [type : Tags, pieces : Nat] /\ Id(i) \in Nat \X Nat
    <3>1. b \in [type : Tags, pieces : Nat]
      BY <2>3, <2>4, ElementOfSeq
    <3> QED
      BY <2>4, <3>1 DEF Id, ReplyInv
  <2>6. Nothing \in Word /\ <<>> \in Seq(Word)
    BY DEF Nothing, Word
  <2>7. n \in StreamBlock
    BY <2>5, <2>6 DEF StreamBlock
  <2>8. Pieces(i, 0) = <<>> /\ <<Nothing>> \o Pieces(i, 0) = <<Nothing>>
    <3> DEFINE o == <<Nothing>>
    <3>1. Pieces(i, 0) = <<>>
      BY <2>4, PiecesAreWords
    <3>2. o \in Seq(Word)
      BY <2>6
    <3> HIDE DEF o
    <3>3. o \o <<>> = o
      BY <3>2, ConcatEmptySeq
    <3> QED
      BY <3>1, <3>3 DEF o
  <2>9. /\ sent' \in Seq(Nat) /\ Len(sent') = l + 1
        /\ \A k \in 1..l : sent'[k] = sent[k]
        /\ sent'[l + 1] = 0
    <3>1. sent \in Seq(Nat) /\ 0 \in Nat /\ l = Len(sent) /\ sent' = Append(sent, 0)
      BY <1>0, <2>02, <2>3
    <3> HIDE DEF n, b
    <3> QED
      BY <3>1, AppendProperties
  <2>10. n = BlockSent(b, Id(i), Pieces(i, 0))
    <3> DEFINE p == Pieces(i, 0)
               o == <<Nothing>>
    <3>1. p = <<>> /\ o \o p = o
      BY <2>8
    <3>2. n = [type |-> b.type, id |-> Id(i), text |-> p,
               input |-> IF b.type = "tool_use" THEN o ELSE p]
      BY <3>1
    <3>3. BlockSent(b, Id(i), p)
            = [type |-> b.type, id |-> Id(i), text |-> p,
               input |-> IF b.type = "tool_use" THEN o ELSE p]
      <4>1. /\ (IF b.type = "text" THEN p ELSE <<>>) = p
            /\ (IF b.type = "tool_use" THEN o \o p ELSE <<>>)
                 = (IF b.type = "tool_use" THEN o ELSE p)
        <5> HIDE DEF b, o, p
        <5> QED
          BY <3>1
      <4> QED
        BY <4>1 DEF BlockSent
    <3> HIDE DEF b, o, p, n
    <3> QED
      BY <3>2, <3>3 DEF p
  <2> HIDE DEF n
  <2>11. /\ blocks' \in Seq(StreamBlock) /\ Len(blocks') = l + 1
         /\ \A k \in 1..l : blocks'[k] = blocks[k]
         /\ blocks'[l + 1] = n
    <3>1. /\ blocks \in Seq(StreamBlock) /\ l = Len(blocks)
          /\ blocks' = Append(blocks, n) /\ n \in StreamBlock
      BY <1>0, <2>01, <2>3, <2>7
    <3> HIDE DEF b
    <3> QED
      BY <3>1, AppendProperties
  <2>12. ASSUME NEW k \in 1..i
         PROVE  blocks'[k] = BlockAt(k)' /\ sent'[k] <= reply'.content[k].pieces
    <3>0. reply'.content = c /\ reply' = reply /\ round' = round
      BY <2>02, <2>3
    <3>1. CASE k \in 1..l
      <4>1. BlockAt(k)' = BlockAt(k)
        BY <2>9, <3>0, <3>1 DEF BlockAt, Id
      <4> QED
        BY <2>2, <2>9, <2>11, <3>0, <3>1, <4>1
    <3>2. CASE k = i
      <4>1. blocks'[i] = n /\ sent'[i] = 0
        BY <2>9, <2>11
      <4>2. 0 <= b.pieces
        BY <2>5
      <4>3. BlockAt(i)' = BlockSent(b, Id(i), Pieces(i, 0))
        BY <3>0, <4>1 DEF BlockAt, Id
      <4>4. blocks'[i] = BlockAt(i)' /\ sent'[i] <= reply'.content[i].pieces
        BY <2>10, <3>0, <4>1, <4>2, <4>3
      <4> QED
        BY <3>2, <4>4 DEF BlockAt, Id
    <3> QED
      BY <2>4, <3>1, <3>2
  <2>13. /\ Len(sent') = i /\ Len(blocks') = i /\ i <= Len(reply'.content)
         /\ reply'.content = c
    <3>1. reply'.content = c
      BY <2>02, <2>3
    <3>2. i = l + 1 /\ i <= Len(c)
      BY <2>3, <2>4
    <3> QED
      BY <2>9, <2>11, <3>1, <3>2
  <2>14. BlocksInv'
    BY <2>9, <2>11, <2>12, <2>13 DEF BlocksInv
  <2>15. FramesInv'
    <3>1. \A k \in 1..i : k # i => sent'[k] = c[k].pieces
      BY <2>2, <2>4, <2>9
    <3> QED
      BY <2>1, <2>02, <2>13, <3>1 DEF FramesInv
  <2> QED
    BY <2>14, <2>15
<1>3. CASE ContentBlockDelta
  <2> PICK i \in Nat : i = Len(sent)
    BY <1>0
  <2> DEFINE c == reply.content
             b == c[i]
             old == blocks[i]
             m == sent[i]
             p == Piece(i, m + 1)
             bs == CASE old.type = "text" -> [blocks EXCEPT ![i].text = Append(@, p)]
                     [] old.type = "tool_use" -> [blocks EXCEPT ![i].input = Append(@, p)]
                     [] OTHER -> blocks
  <2>1. pc = "frames" /\ stopReason = "" /\ sent # <<>> /\ ~OpenIsWhole
    BY <1>3 DEF ContentBlockDelta
  <2>2. blocks' = bs
    <3>1. Open = i /\ Last(sent) = m
      BY DEF Open, Last
    <3> HIDE DEF p
    <3> QED
      BY <1>3, <3>1 DEF ContentBlockDelta, p
  <2>3. sent' = [sent EXCEPT ![i] = m + 1]
    BY <1>3 DEF ContentBlockDelta, Open
  <2>4. pc' = pc /\ round' = round /\ reply' = reply /\ stopReason' = stopReason
    BY <1>3 DEF ContentBlockDelta
  <2>5. i \in Nat \ {0} /\ i \in 1..i
    <3>1. i # 0
      BY <1>0, <2>1, EmptySeq
    <3> QED
      BY <3>1
  <2>6. /\ i = Len(sent) /\ i = Len(blocks) /\ i <= Len(c)
        /\ c \in Seq([type : Tags, pieces : Nat])
        /\ DOMAIN sent = 1..i /\ DOMAIN blocks = 1..i
        /\ \A k \in 1..i : sent[k] \in Nat /\ blocks[k] \in StreamBlock
        /\ \A k \in 1..i : blocks[k] = BlockAt(k) /\ sent[k] <= c[k].pieces
        /\ \A k \in 1..i : k # i => sent[k] = c[k].pieces
        /\ \A k \in 1..i : c[k] \in [type : Tags, pieces : Nat]
    <3>1. \A k \in 1..i : blocks[k] = BlockAt(k) /\ sent[k] <= c[k].pieces
      BY DEF BlocksInv
    <3>2. \A k \in 1..i : k # i => sent[k] = c[k].pieces
      BY DEF FramesInv
    <3>3. \A k \in 1..i : k \in 1..Len(c)
      BY <1>0
    <3>4. \A k \in 1..i : c[k] \in [type : Tags, pieces : Nat]
      BY <1>0, <3>3, ElementOfSeq
    <3>5. \A k \in 1..i : sent[k] \in Nat /\ blocks[k] \in StreamBlock
      BY <1>0, ElementOfSeq
    <3> QED
      BY <1>0, <3>1, <3>2, <3>4, <3>5, LenProperties
  <2>7. m \in Nat /\ m + 1 <= b.pieces /\ old \in StreamBlock /\ b.type \in Tags
    <3>1. \E k \in 1..i : sent[k] # c[k].pieces
      BY <2>1 DEF OpenIsWhole, Open
    <3>2. m # b.pieces
      BY <2>6, <3>1
    <3>3. m \in Nat /\ m <= b.pieces /\ b \in [type : Tags, pieces : Nat] /\ old \in StreamBlock
      BY <2>5, <2>6
    <3> HIDE DEF m, b, old
    <3> QED
      BY <3>2, <3>3
  <2>8. /\ Pieces(i, m + 1) = Append(Pieces(i, m), p)
        /\ Pieces(i, m) \in Seq(Word) /\ p \in Word
    <3>1. m + 1 \in Nat /\ m \in Nat /\ i \in Nat \ {0}
      BY <2>5, <2>7
    <3>2. p \in Word
      BY <3>1 DEF Piece, Word
    <3>3. \A n \in Nat : /\ Pieces(i, n + 1) = Append(Pieces(i, n), Piece(i, n + 1))
                         /\ Pieces(i, n) \in Seq(Word)
      BY <3>1, PiecesAreWords
    <3> HIDE DEF m
    <3> QED
      BY <3>1, <3>2, <3>3
  <2>9. old = BlockSent(b, Id(i), Pieces(i, m))
    BY <2>5, <2>6 DEF BlockAt
  <2> DEFINE new == BlockSent(b, Id(i), Pieces(i, m + 1))
  <2>10. /\ bs \in Seq(StreamBlock) /\ Len(bs) = i
         /\ \A k \in 1..i : bs[k] = IF k = i THEN new ELSE blocks[k]
    <3> DEFINE q == Pieces(i, m)
    <3>1. /\ q \in Seq(Word) /\ p \in Word /\ b.type \in Tags /\ Id(i) \in Nat \X Nat
          /\ old = BlockSent(b, Id(i), q) /\ new = BlockSent(b, Id(i), Append(q, p))
      BY <2>5, <2>7, <2>8, <2>9 DEF Id, ReplyInv
    <3>0. old = blocks[i]
      OBVIOUS
    <3> HIDE DEF p, q, old, b, new, m
    <3>2. /\ new \in StreamBlock /\ old.type = b.type
          /\ b.type = "text" => new = [old EXCEPT !.text = Append(old.text, p)]
          /\ b.type = "tool_use" => new = [old EXCEPT !.input = Append(old.input, p)]
          /\ b.type \notin {"text", "tool_use"} => new = old
      BY <3>1, BlockGrows
    <3>3. CASE b.type \in {"text", "tool_use"}
      <4>1. ASSUME b.type = "text"
            PROVE  bs = [blocks EXCEPT ![i] = new]
        <5>1. bs = [blocks EXCEPT ![i].text = Append(@, p)]
          BY <3>2, <4>1, Zenon
        <5>2. bs = [blocks EXCEPT ![i] = [old EXCEPT !.text = Append(old.text, p)]]
          BY <3>0, <5>1
        <5> QED
          BY <3>2, <4>1, <5>2
      <4>2. ASSUME b.type = "tool_use"
            PROVE  bs = [blocks EXCEPT ![i] = new]
        <5>0. old.type # "text" /\ old.type = "tool_use"
          BY <3>2, <4>2
        <5>1. bs = [blocks EXCEPT ![i].input = Append(@, p)]
          BY <5>0
        <5>2. bs = [blocks EXCEPT ![i] = [old EXCEPT !.input = Append(old.input, p)]]
          BY <3>0, <5>1
        <5> QED
          BY <3>2, <4>2, <5>2
      <4> HIDE DEF bs
      <4>3. bs = [blocks EXCEPT ![i] = new]
        BY <3>3, <4>1, <4>2
      <4>4. blocks \in Seq(StreamBlock) /\ i \in 1..Len(blocks) /\ i = Len(blocks)
        BY <1>0, <2>5, <2>6
      <4> QED
        BY <3>2, <4>3, <4>4, Replaced
    <3>4. CASE b.type \notin {"text", "tool_use"}
      <4>1. bs = blocks
        BY <3>2, <3>4
      <4>2. new = old
        BY <3>2, <3>4
      <4> QED
        BY <1>0, <2>6, <4>1, <4>2 DEF old
    <3> QED
      BY <3>3, <3>4
  <2> HIDE DEF bs
  <2>11. /\ sent' \in Seq(Nat) /\ Len(sent') = i
         /\ \A k \in 1..i : sent'[k] = IF k = i THEN m + 1 ELSE sent[k]
    <3>1. m + 1 \in Nat /\ i \in 1..Len(sent) /\ i = Len(sent) /\ sent \in Seq(Nat)
      BY <1>0, <2>5, <2>7
    <3> DEFINE e == m + 1
    <3>2. e \in Nat /\ sent' = [sent EXCEPT ![i] = e]
      BY <2>3, <3>1
    <3> HIDE DEF e, new, p, old
    <3>3. /\ sent' \in Seq(Nat) /\ Len(sent') = i
          /\ \A k \in 1..i : sent'[k] = IF k = i THEN e ELSE sent[k]
      BY <3>1, <3>2, Replaced
    <3> QED
      BY <3>3 DEF e
  <2>12. blocks' \in Seq(StreamBlock) /\ Len(blocks') = i
    BY <2>2, <2>10
  <2>13. ASSUME NEW k \in 1..i
         PROVE  blocks'[k] = BlockAt(k)' /\ sent'[k] <= reply'.content[k].pieces
    <3>1. /\ BlockAt(k) = BlockSent(c[k], <<round, k>>, Pieces(k, sent[k]))
          /\ BlockAt(k)' = BlockSent(c[k], <<round, k>>, Pieces(k, sent'[k]))
          /\ reply'.content = c
      BY <2>4 DEF BlockAt, Id
    <3>2. CASE k = i
      <4>1. BlockAt(k)' = new
        BY <2>11, <3>1, <3>2 DEF Id
      <4>2. sent'[k] <= c[k].pieces
        BY <2>7, <2>11, <3>2
      <4> QED
        BY <2>2, <2>10, <3>1, <3>2, <4>1, <4>2
    <3>3. CASE k # i
      <4>1. sent'[k] = sent[k] /\ blocks'[k] = blocks[k]
        BY <2>2, <2>10, <2>11, <3>3
      <4> QED
        BY <2>6, <3>1, <4>1
    <3> QED
      BY <3>2, <3>3
  <2>14. BlocksInv'
    <3>1. i <= Len(reply'.content)
      BY <2>4, <2>6
    <3> QED
      BY <2>11, <2>12, <2>13, <3>1 DEF BlocksInv
  <2>15. FramesInv'
    <3>1. \A k \in 1..i : k # i => sent'[k] = c[k].pieces
      BY <2>6, <2>11
    <3> QED
      BY <2>1, <2>4, <2>11, <3>1 DEF FramesInv
  <2> QED
    BY <2>14, <2>15
<1>4. CASE MessageDelta
  <2>1. /\ UNCHANGED <<round, reply, sent, blocks>> /\ pc' = pc /\ pc = "frames"
        /\ stopReason' = reply.stop /\ AllSent
    BY <1>4 DEF MessageDelta, AllSent
  <2>2. BlocksInv'
    BY <2>1, SameBlocks
  <2>3. AllSent' /\ stopReason' = reply'.stop
    BY <2>1 DEF AllSent, Open, OpenIsWhole
  <2>4. FramesInv'
    BY <2>1, <2>3 DEF FramesInv
  <2> QED
    BY <2>2, <2>4
<1>5. CASE WholeResponse \/ MessageStart \/ StreamEnds \/ StreamBreaks \/ Proceed
           \/ UNCHANGED vars
  <2>1. /\ UNCHANGED <<round, reply, sent, blocks, stopReason>>
        /\ pc' \in {"idle", "frames", "answered"} \/ pc' = pc
    <3>1. CASE WholeResponse
      <4>1. UNCHANGED <<round, reply, sent, blocks, stopReason>>
        BY <3>1 DEF WholeResponse
      <4>2. \A evts, why : Answered(evts, why) => pc' = "answered"
        BY DEF Answered
      <4> QED
        BY <3>1, <4>1, <4>2, WholeAnswer
    <3>2. CASE MessageStart \/ StreamEnds \/ StreamBreaks \/ Proceed
      BY <3>2 DEF MessageStart, StreamEnds, StreamBreaks, Proceed, Answered
    <3>3. CASE UNCHANGED vars
      BY <3>3 DEF vars
    <3> QED
      BY <1>5, <3>1, <3>2, <3>3
  <2>2. BlocksInv'
    BY <2>1, SameBlocks
  <2>3. FramesInv'
    BY <2>1 DEF FramesInv, AllSent, Open, OpenIsWhole
  <2> QED
    BY <2>2, <2>3
<1> QED
  BY <1>1, <1>2, <1>3, <1>4, <1>5 DEF Next

(* What the handler publishes of the round.                                *)
LEMMA StepEvents == IInv /\ [Next]_vars => EventsInv'
<1> SUFFICES ASSUME IInv, [Next]_vars PROVE EventsInv'
  OBVIOUS
<1> USE DEF IInv
<1>1. CASE Request
  BY <1>1 DEF Request, EventsInv
<1>2. CASE WholeResponse
  <2>1. /\ pc = "asked" /\ events = NormalizeRequest(history) /\ sent = <<>>
        /\ UNCHANGED <<round, reply, sent, blocks, stopReason, history, called>>
    BY <1>2 DEF WholeResponse, EventsInv, FramesInv
  <2>2. JSONContent' = JSONContent
    BY <2>1 DEF JSONContent, Id
  <2> DEFINE Said(evts, why) == /\ pc' = "answered" /\ fault' = why
                                /\ events' = NormalizeRequest(history) \o evts
  <2>3. \A evts, why : Answered(evts, why) => Said(evts, why)
    BY <2>1 DEF Answered
  <2>4. \/ Said(Failed(200), "encoding")
        \/ \E status \in {200, 500} : Said(NoMessage(status), "unreadable")
        \/ Said(NoMessage(500), "status")
        \/ Said(OfMessage(JSONContent, reply.stop), "none")
    <3> HIDE DEF Said
    <3> QED
      BY <1>2, <2>3, WholeAnswer
  <2> QED
    BY <2>1, <2>2, <2>4 DEF EventsInv, AnswerIs
<1>3. CASE MessageStart \/ ContentBlockStart \/ ContentBlockDelta \/ MessageDelta
  <2>1. /\ pc \in {"asked", "frames"} /\ pc' = "frames"
        /\ UNCHANGED <<fault, events, history>>
    BY <1>3 DEF MessageStart, ContentBlockStart, ContentBlockDelta, MessageDelta
  <2> QED
    BY <2>1 DEF EventsInv
<1>4. CASE StreamEnds \/ StreamBreaks
  <2>1. /\ events = NormalizeRequest(history) /\ pc' = "answered"
        /\ UNCHANGED <<round, reply, sent, blocks, stopReason, history, called>>
    BY <1>4 DEF StreamEnds, StreamBreaks, Answered, EventsInv
  <2>2. StreamContent' = StreamContent
    BY <2>1 DEF StreamContent, Kept, FinalizeInputJSON, Decodes
  <2>3. CASE StreamEnds
    <3>1. /\ events' = events \o OfMessage(StreamContent, stopReason)
          /\ fault' = IF stopReason = "" THEN "cut" ELSE "none"
      BY <2>3 DEF StreamEnds, Answered
    <3> QED
      BY <2>1, <2>2, <3>1 DEF EventsInv, AnswerIs
  <2>4. CASE StreamBreaks
    <3>1. events' = events \o Failed(200) /\ fault' = "broken"
      BY <2>4 DEF StreamBreaks, Answered
    <3> QED
      BY <2>1, <3>1 DEF EventsInv, AnswerIs
  <2> QED
    BY <1>4, <2>3, <2>4
<1>5. CASE Proceed
  BY <1>5 DEF Proceed, EventsInv
<1>6. CASE UNCHANGED vars
  <2>1. JSONContent' = JSONContent
    BY <1>6 DEF vars, JSONContent, Id
  <2>2. StreamContent' = StreamContent
    BY <1>6 DEF vars, StreamContent, Kept, FinalizeInputJSON, Decodes
  <2>3. UNCHANGED <<pc, events, history, reply, stopReason, fault, sent>>
    BY <1>6 DEF vars
  <2>4. UNCHANGED <<NormalizeRequest(history), OfMessage(JSONContent, reply.stop),
                    OfMessage(StreamContent, stopReason), OfMessage(StreamContent, "")>>
    BY <2>1, <2>2, <2>3
  <2>5. CASE pc # "answered"
    BY <2>3, <2>4, <2>5 DEF EventsInv
  <2>6. CASE fault = "none" /\ sent = <<>> /\ AnswerIs(OfMessage(JSONContent, reply.stop))
             /\ pc = "answered"
    BY <2>3, <2>4, <2>6 DEF EventsInv, AnswerIs
  <2>7. CASE fault = "none" /\ stopReason # "" /\ AnswerIs(OfMessage(StreamContent, stopReason))
             /\ pc = "answered"
    BY <2>3, <2>4, <2>7 DEF EventsInv, AnswerIs
  <2>8. CASE fault = "cut" /\ AnswerIs(OfMessage(StreamContent, "")) /\ pc = "answered"
    BY <2>3, <2>4, <2>8 DEF EventsInv, AnswerIs
  <2>9. CASE fault \in {"encoding", "broken"} /\ AnswerIs(Failed(200)) /\ pc = "answered"
    BY <2>3, <2>4, <2>9 DEF EventsInv, AnswerIs
  <2>10. CASE /\ fault = "unreadable" /\ pc = "answered"
              /\ \E s \in {200, 500} : AnswerIs(NoMessage(s))
    <3>1. PICK s \in {200, 500} : AnswerIs(NoMessage(s))
      BY <2>10
    <3>2. AnswerIs(NoMessage(s))'
      BY <2>3, <2>4, <3>1 DEF AnswerIs
    <3> QED
      BY <2>3, <2>10, <3>2 DEF EventsInv
  <2>11. CASE fault = "status" /\ AnswerIs(NoMessage(500)) /\ pc = "answered"
    BY <2>3, <2>4, <2>11 DEF EventsInv, AnswerIs
  <2> QED
    BY <2>5, <2>6, <2>7, <2>8, <2>9, <2>10, <2>11, Zenon DEF EventsInv
<1> QED
  BY <1>1, <1>2, <1>3, <1>4, <1>5, <1>6 DEF Next

(* The calls among the events of a message are those of its blocks.        *)
LEMMA CallPlace ==
    ASSUME NEW c \in Seq(MessageBlock), NEW stop,
           NEW v, v = OfMessage(c, stop), NEW t, t = ToolCalls(c)
    PROVE  \A k \in 1..Len(v) :
             v[k].kind = "tool.call" => \E m \in 1..Len(t) : k = 1 + m /\ v[k] = t[m]
<1> SUFFICES ASSUME NEW k \in 1..Len(v), v[k].kind = "tool.call"
             PROVE  \E m \in 1..Len(t) : k = 1 + m /\ v[k] = t[m]
  OBVIOUS
<1> DEFINE d == Verdict(c, stop)
<1>1. /\ Len(t) \in Nat /\ Len(d) \in Nat
      /\ d = IF t # <<>> THEN <<Plain("agent.tooling")>>
             ELSE IF stop = "end_turn" THEN <<Plain("agent.done")>> ELSE <<>>
      /\ Len(v) = 1 + Len(t) + Len(d)
      /\ v[1] = Event("llm.response", <<>>, Spoken(c))
      /\ \A i \in 1..Len(t) : v[1 + i] = t[i]
      /\ \A i \in 1..Len(d) : v[1 + Len(t) + i] = d[i]
  BY AnswerParts
<1>2. \A i \in 1..Len(d) : d[i].kind # "tool.call"
  <2>1. Len(d) <= 1 /\ (d # <<>> => d[1].kind \in {"agent.tooling", "agent.done"})
    BY <1>1 DEF Plain, Event
  <2>2. \A i \in 1..Len(d) : i = 1
    BY <1>1, <2>1
  <2>3. Len(<<>>) = 0
    OBVIOUS
  <2> HIDE DEF d
  <2>4. \A i \in 1..Len(d) : d # <<>>
    BY <2>3
  <2> QED
    BY <2>1, <2>2, <2>4
<1>3. v[1].kind # "tool.call"
  BY <1>1 DEF Event
<1> HIDE DEF d
<1>4. /\ Len(t) \in Nat /\ Len(d) \in Nat /\ Len(v) = 1 + Len(t) + Len(d)
      /\ k \in Nat /\ k # 1 /\ k >= 1 /\ k <= Len(v)
  BY <1>1, <1>3
<1>5. k - 1 \in Nat /\ k - 1 >= 1
  BY <1>4
<1> PICK m \in Nat : m = k - 1
  BY <1>5
<1>6. k = 1 + m /\ m >= 1
  BY <1>4
<1>7. m <= Len(t)
  <2>1. ASSUME ~(m <= Len(t)) PROVE FALSE
    <3>0. m - Len(t) \in Nat
      BY <1>4, <2>1
    <3> PICK l \in Nat : l = m - Len(t)
      BY <3>0
    <3>1. l \in 1..Len(d) /\ k = 1 + Len(t) + l
      BY <1>4, <1>6, <2>1
    <3>2. v[1 + Len(t) + l] = d[l]
      BY <1>1, <3>1
    <3> QED
      BY <1>2, <3>1, <3>2
  <2> QED
    BY <2>1
<1>8. m \in 1..Len(t)
  BY <1>4, <1>6, <1>7
<1> QED
  BY <1>1, <1>6, <1>8

(* So are those among the events of a round.                               *)
LEMMA CallIds ==
    ASSUME NEW h \in Seq(Nat \X Nat), NEW c \in Seq(MessageBlock), NEW stop,
           NEW x \in Ids("tool.call", NormalizeRequest(h) \o OfMessage(c, stop))
    PROVE  \E i \in 1..Len(ToolCalls(c)) : ToolCalls(c)[i].id = x
<1> DEFINE r == NormalizeRequest(h)
           v == OfMessage(c, stop)
           e == NormalizeRequest(h) \o v
           t == ToolCalls(c)
<1>0. v = OfMessage(c, stop) /\ e = NormalizeRequest(h) \o v /\ t = ToolCalls(c)
  OBVIOUS
<1> SUFFICES \E i \in 1..Len(t) : t[i].id = x
  OBVIOUS
<1>1. PICK i \in 1..Len(e) : e[i].kind = "tool.call" /\ e[i].id = x
  BY DEF Ids
<1> HIDE DEF v, e, t
<1>2. /\ r \in Seq(AnyEvent) /\ Len(r) \in Nat
      /\ \A j \in 1..Len(r) : r[j].kind # "tool.call"
  BY RequestParts, LenProperties
<1>3. v \in Seq(AnyEvent) /\ Len(v) \in Nat
  BY <1>0, AnswerParts, LenProperties
<1>4. e = r \o v
  BY <1>0
<1> HIDE DEF r
<1>5. /\ Len(e) = Len(r) + Len(v)
      /\ \A j \in 1..(Len(r) + Len(v)) : e[j] = IF j <= Len(r) THEN r[j] ELSE v[j - Len(r)]
  BY <1>2, <1>3, <1>4, ConcatProperties
<1>6. i \in 1..(Len(r) + Len(v))
  BY <1>5
<1>7. ~(i <= Len(r))
  <2>1. ASSUME i <= Len(r) PROVE FALSE
    <3>1. i \in 1..Len(r)
      BY <1>2, <1>3, <1>6, <2>1
    <3>2. e[i] = r[i]
      BY <1>5, <1>6, <2>1
    <3> QED
      BY <1>1, <1>2, <3>1, <3>2
  <2> QED
    BY <2>1
<1>8. i - Len(r) \in 1..Len(v)
  BY <1>2, <1>3, <1>6, <1>7
<1> PICK k \in 1..Len(v) : k = i - Len(r)
  BY <1>8
<1>9. e[i] = v[k]
  BY <1>5, <1>6, <1>7
<1>10. \E m \in 1..Len(t) : k = 1 + m /\ v[k] = t[m]
  <2>1. \A j \in 1..Len(v) :
          v[j].kind = "tool.call" => \E m \in 1..Len(t) : j = 1 + m /\ v[j] = t[m]
    BY <1>0, CallPlace
  <2> QED
    BY <1>1, <1>9, <2>1
<1> QED
  BY <1>1, <1>9, <1>10

(* The message of a whole stream and the message as JSON.                  *)
LEMMA ContentTypes ==
    ASSUME ReplyInv, BlocksInv
    PROVE  StreamContent \in Seq(MessageBlock) /\ JSONContent \in Seq(MessageBlock)
<1> DEFINE n == Len(blocks)
           f == [i \in 1..n |-> Kept(blocks[i], i)]
<1>1. n \in Nat /\ \A i \in 1..n : f[i] \in Seq(MessageBlock)
  BY KeptIsBlock, LenProperties DEF BlocksInv
<1>2. StreamContent = FlattenSeq(f) /\ f = [i \in 1..n |-> f[i]] /\ n \in 0..n
  BY <1>1 DEF StreamContent
<1>3. JSONContent \in Seq(MessageBlock)
  <2>1. Len(reply.content) \in 0..Len(reply.content)
    BY JSONIsContent
  <2> QED
    BY <2>1, JSONIsContent
<1> HIDE DEF n, f
<1>4. \A k \in 0..n : FlattenSeq([i \in 1..k |-> f[i]]) \in Seq(MessageBlock)
  BY <1>1, FlattenPrefixes
<1>5. FlattenSeq([i \in 1..n |-> f[i]]) \in Seq(MessageBlock)
  BY <1>2, <1>4
<1> QED
  BY <1>2, <1>3, <1>5

(* A call is made known only of a reply whose calls the conversation then  *)
(* holds.                                                                  *)
LEMMA StepHistory == IInv /\ [Next]_vars => HistoryInv'
<1> SUFFICES ASSUME IInv, [Next]_vars PROVE HistoryInv'
  OBVIOUS
<1> USE DEF IInv
<1>1. CASE Proceed /\ fault = "none"
  <2> DEFINE t == ToolCalls(JSONContent)
             q == [i \in 1..Len(t) |-> t[i].id]
  <2>1. /\ pc = "answered" /\ history' = history \o q
        /\ called' = called \cup Ids("tool.call", events)
    BY <1>1 DEF Proceed
  <2>2. /\ JSONContent \in Seq(MessageBlock) /\ StreamContent \in Seq(MessageBlock)
        /\ t \in Seq(CallEvent) /\ history \in Seq(Nat \X Nat)
    BY ContentTypes, CallsGrow DEF HistoryInv
  <2>3. Len(t) \in Nat /\ \A i \in 1..Len(t) : t[i] \in CallEvent
    BY <2>2, LenProperties, ElementOfSeq
  <2>4. ASSUME NEW x \in Ids("tool.call", events)
        PROVE  \E i \in 1..Len(t) : t[i].id = x
    <3>1. CASE AnswerIs(OfMessage(JSONContent, reply.stop))
      <4>1. x \in Ids("tool.call", NormalizeRequest(history) \o OfMessage(JSONContent, reply.stop))
        BY <3>1 DEF AnswerIs
      <4> QED
        BY <2>2, <4>1, CallIds
    <3>2. CASE stopReason # "" /\ AnswerIs(OfMessage(StreamContent, stopReason))
      <4> DEFINE s == ToolCalls(StreamContent)
      <4>1. x \in Ids("tool.call", NormalizeRequest(history) \o OfMessage(StreamContent, stopReason))
        BY <3>2 DEF AnswerIs
      <4>2. Alike(s, t)
        BY <3>2, SameContent DEF FramesInv
      <4>3. Len(s) = Len(t) /\ \A i \in 1..Len(s) : s[i].id = t[i].id
        BY <4>2 DEF Alike, SameCall
      <4>4. \E i \in 1..Len(s) : s[i].id = x
        BY <2>2, <4>1, CallIds
      <4> HIDE DEF s, t
      <4> QED
        BY <4>3, <4>4
    <3> QED
      BY <1>1, <2>1, <3>1, <3>2 DEF EventsInv
  <2>5. /\ q \in Seq(Nat \X Nat) /\ Len(q) = Len(t)
        /\ \A i \in 1..Len(t) : q[i] = t[i].id
    <3> HIDE DEF t
    <3>1. \A i \in 1..Len(t) : t[i].id \in Nat \X Nat
      BY <2>3 DEF CallEvent
    <3> QED
      BY <2>3, <3>1
  <2> HIDE DEF t, q
  <2>6. history' \in Seq(Nat \X Nat) /\ Range(history') = Range(history) \cup Range(q)
    BY <2>1, <2>2, <2>5, ConcatProperties, RangeConcatenation
  <2>7. Range(q) = {t[i].id : i \in 1..Len(t)}
    <3>1. DOMAIN q = 1..Len(t)
      BY <2>5, LenProperties
    <3> QED
      BY <2>5, <3>1 DEF Range
  <2> QED
    BY <2>1, <2>4, <2>6, <2>7 DEF HistoryInv
<1>2. CASE ~(Proceed /\ fault = "none")
  <2>1. UNCHANGED <<history, called>>
    BY <1>2 DEF Next, vars, Request, WholeResponse, MessageStart, ContentBlockStart,
       ContentBlockDelta, MessageDelta, StreamEnds, StreamBreaks, Proceed
  <2> QED
    BY <2>1 DEF HistoryInv
<1> QED
  BY <1>1, <1>2

(* The invariant of every conversation.                                    *)
THEOREM Invariant == Spec => []IInv
<1>1. IInv /\ [Next]_vars => IInv'
  BY StepReply, StepBlocks, StepEvents, StepHistory DEF IInv
<1> QED
  BY <1>1, InitInv, PTL DEF Spec

-----------------------------------------------------------------------------
(* What follows from it.                                                   *)

(* What a round has said begins with what its request said.                *)
LEMMA SaidOfRound ==
    ASSUME IInv, pc # "idle"
    PROVE  \E v \in Seq(AnyEvent) : events = NormalizeRequest(history) \o v
<1> USE DEF IInv
<1>1. StreamContent \in Seq(MessageBlock) /\ JSONContent \in Seq(MessageBlock)
  BY ContentTypes
<1>2. \A stop : /\ OfMessage(JSONContent, stop) \in Seq(AnyEvent)
                /\ OfMessage(StreamContent, stop) \in Seq(AnyEvent)
  BY <1>1, AnswerParts
<1>3. \A k \in {"llm.response", "agent.error"} : Plain(k) \in AnyEvent
  BY DEF Plain, Event, AnyEvent, Happenings
<1>4. \A status \in {200, 500} :
        Failed(status) \in Seq(AnyEvent) /\ NoMessage(status) \in Seq(AnyEvent)
  <2> DEFINE a == Plain("llm.response")
             b == Plain("agent.error")
             e == <<>>
  <2>1. a \in AnyEvent /\ b \in AnyEvent
    BY <1>3
  <2> HIDE DEF a, b
  <2>2. <<a>> \in Seq(AnyEvent) /\ <<b>> \in Seq(AnyEvent) /\ <<a, b>> \in Seq(AnyEvent)
        /\ e \in Seq(AnyEvent)
    BY <2>1
  <2>3. <<a>> \o <<b>> \in Seq(AnyEvent) /\ <<a>> \o e \in Seq(AnyEvent)
    <3> HIDE DEF e
    <3> QED
      BY <2>2, ConcatProperties
  <2>4. \A status : /\ Failed(status) = <<a, b>>
                    /\ NoMessage(status) = <<a>> \o (IF status >= 400 THEN <<b>> ELSE e)
    BY DEF Failed, NoMessage, a, b
  <2> HIDE DEF e
  <2> QED
    BY <2>2, <2>3, <2>4
<1>5. CASE pc \in {"asked", "frames"}
  <2>1. events = NormalizeRequest(history) /\ history \in Seq(Nat \X Nat)
    BY <1>5 DEF EventsInv, HistoryInv
  <2>2. NormalizeRequest(history) \in Seq(AnyEvent)
    BY <2>1, RequestParts
  <2>3. events = NormalizeRequest(history) \o <<>> /\ <<>> \in Seq(AnyEvent)
    BY <2>1, <2>2, ConcatEmptySeq
  <2> QED
    BY <2>3
<1>6. CASE pc = "answered"
  <2> DEFINE Starts == \E v \in Seq(AnyEvent) : events = NormalizeRequest(history) \o v
  <2> SUFFICES Starts
    OBVIOUS
  <2>1. ASSUME NEW v \in Seq(AnyEvent), AnswerIs(v) PROVE Starts
    BY <2>1 DEF AnswerIs
  <2>2. \/ AnswerIs(OfMessage(JSONContent, reply.stop))
        \/ AnswerIs(OfMessage(StreamContent, stopReason))
        \/ AnswerIs(OfMessage(StreamContent, ""))
        \/ AnswerIs(Failed(200))
        \/ \E s \in {200, 500} : AnswerIs(NoMessage(s))
        \/ AnswerIs(NoMessage(500))
    BY <1>6, Zenon DEF EventsInv
  <2> HIDE DEF Starts
  <2>3. 500 \in {200, 500} /\ 200 \in {200, 500}
    OBVIOUS
  <2>4. CASE AnswerIs(OfMessage(JSONContent, reply.stop))
    BY <1>2, <2>1, <2>4
  <2>5. CASE \/ AnswerIs(OfMessage(StreamContent, stopReason))
             \/ AnswerIs(OfMessage(StreamContent, ""))
    BY <1>2, <2>1, <2>5
  <2>6. CASE AnswerIs(Failed(200))
    BY <1>4, <2>1, <2>3, <2>6
  <2>7. CASE \/ \E s \in {200, 500} : AnswerIs(NoMessage(s))
             \/ AnswerIs(NoMessage(500))
    BY <1>4, <2>1, <2>3, <2>7
  <2> QED
    BY <2>2, <2>4, <2>5, <2>6, <2>7, Zenon
<1> QED
  BY <1>5, <1>6 DEF FramesInv

(* A tool call of a reply the provider took has its result in every later  *)
(* request, for conversations of any length.                               *)
THEOREM ResultsThroughout == Spec => []ResultOfEveryCall
<1>1. IInv => ResultOfEveryCall
  <2> SUFFICES ASSUME IInv, pc # "idle", NEW x \in called
               PROVE  x \in Ids("tool.result", events)
    BY DEF ResultOfEveryCall
  <2> DEFINE r == NormalizeRequest(history)
  <2>1. history \in Seq(Nat \X Nat) /\ x \in Range(history)
    BY DEF IInv, HistoryInv
  <2>2. PICK i \in 1..Len(history) : history[i] = x
    BY <2>1, LenProperties DEF Range
  <2>3. /\ r \in Seq(AnyEvent) /\ Len(r) = 2 + Len(history) /\ Len(history) \in Nat
        /\ r[2 + i] = Event("tool.result", history[i], <<>>)
    BY <2>1, RequestParts
  <2>4. PICK v \in Seq(AnyEvent) : events = r \o v
    BY SaidOfRound
  <2> HIDE DEF r
  <2>5. Len(v) \in Nat
    BY LenProperties
  <2> PICK k \in Nat : k = 2 + i
    BY <2>3
  <2>6. k <= Len(r) /\ k \in 1..(Len(r) + Len(v))
    BY <2>3, <2>5
  <2>7. /\ Len(events) = Len(r) + Len(v)
        /\ \A j \in 1..(Len(r) + Len(v)) :
             events[j] = IF j <= Len(r) THEN r[j] ELSE v[j - Len(r)]
    <3>1. r \in Seq(AnyEvent) /\ events = r \o v
      BY <2>3, <2>4
    <3> QED
      BY <3>1, ConcatProperties
  <2>8. events[k] = Event("tool.result", x, <<>>) /\ k \in 1..Len(events)
    BY <2>2, <2>3, <2>6, <2>7
  <2>9. events[k].kind = "tool.result" /\ events[k].id = x
    BY <2>8 DEF Event
  <2> QED
    BY <2>8, <2>9 DEF Ids
<1> QED
  BY <1>1, Invariant, PTL

(* The events of an answer are those after the request's.                  *)
LEMMA AnswerIsAll ==
    ASSUME NEW h \in Seq(Nat \X Nat), NEW v \in Seq(AnyEvent), h = history,
           events = NormalizeRequest(h) \o v
    PROVE  AnswerEvents = v
<1> DEFINE r == NormalizeRequest(h)
<1>1. r \in Seq(AnyEvent) /\ events = r \o v /\ r = NormalizeRequest(history)
  BY RequestParts
<1> HIDE DEF r
<1>2. Len(r) \in Nat /\ Len(v) \in Nat /\ Len(events) = Len(r) + Len(v)
  BY <1>1, LenProperties, ConcatProperties
<1>3. SubSeq(r \o v, Len(r) + 1, Len(r \o v)) = v
  BY <1>1, SubSeqOfConcat2
<1> QED
  BY <1>1, <1>3 DEF AnswerEvents

(* Where the calls are alike, the kinds of the events are the same.        *)
LEMMA SameShape ==
    ASSUME NEW b \in Seq(MessageBlock), NEW c \in Seq(MessageBlock), NEW stop,
           Alike(ToolCalls(b), ToolCalls(c))
    PROVE  Kinds(OfMessage(b, stop)) = Kinds(OfMessage(c, stop))
<1> DEFINE s == ToolCalls(b)
           t == ToolCalls(c)
           d == Verdict(c, stop)
           e == Verdict(b, stop)
           v == OfMessage(b, stop)
           w == OfMessage(c, stop)
<1>0. s = ToolCalls(b) /\ e = Verdict(b, stop) /\ v = OfMessage(b, stop)
  OBVIOUS
<1>00. t = ToolCalls(c) /\ d = Verdict(c, stop) /\ w = OfMessage(c, stop)
  OBVIOUS
<1>1. Len(s) = Len(t)
  BY DEF Alike
<1> HIDE DEF s, t, d, e, v, w
<1>2. /\ s \in Seq(CallEvent) /\ Len(s) \in Nat
      /\ e = IF s # <<>> THEN <<Plain("agent.tooling")>>
             ELSE IF stop = "end_turn" THEN <<Plain("agent.done")>> ELSE <<>>
      /\ Len(v) = 1 + Len(s) + Len(e)
      /\ v[1] = Event("llm.response", <<>>, Spoken(b))
      /\ \A i \in 1..Len(s) : v[1 + i] = s[i] /\ s[i] \in CallEvent
      /\ \A i \in 1..Len(e) : v[1 + Len(s) + i] = e[i]
  BY <1>0, AnswerParts
<1>3. /\ t \in Seq(CallEvent) /\ Len(t) \in Nat /\ Len(d) \in Nat
      /\ d = IF t # <<>> THEN <<Plain("agent.tooling")>>
             ELSE IF stop = "end_turn" THEN <<Plain("agent.done")>> ELSE <<>>
      /\ Len(w) = 1 + Len(t) + Len(d)
      /\ w[1] = Event("llm.response", <<>>, Spoken(c))
      /\ \A i \in 1..Len(t) : w[1 + i] = t[i] /\ t[i] \in CallEvent
      /\ \A i \in 1..Len(d) : w[1 + Len(t) + i] = d[i]
  BY <1>00, AnswerParts
<1>4. (s = <<>>) <=> (t = <<>>)
  <2>1. (s = <<>> <=> Len(s) = 0) /\ (t = <<>> <=> Len(t) = 0)
    BY <1>2, <1>3, EmptySeq
  <2> QED
    BY <1>1, <2>1
<1>5. e = d
  BY <1>2, <1>3, <1>4
<1>6. v[1].kind = "llm.response" /\ w[1].kind = "llm.response"
  BY <1>2, <1>3 DEF Event
<1>7. /\ Len(s) \in Nat /\ Len(t) = Len(s) /\ Len(d) \in Nat
      /\ Len(v) = 1 + Len(s) + Len(d) /\ Len(w) = 1 + Len(s) + Len(d)
  BY <1>1, <1>2, <1>3, <1>5
<1>8. \A i \in 1..Len(s) : v[1 + i].kind = w[1 + i].kind
  <2>1. \A x \in CallEvent : x.kind = "tool.call"
    BY DEF CallEvent
  <2> QED
    BY <1>1, <1>2, <1>3, <2>1
<1>9. \A i \in 1..Len(d) : v[1 + Len(s) + i] = w[1 + Len(s) + i]
  BY <1>1, <1>2, <1>3, <1>5
<1>10. ASSUME NEW k \in 1..Len(v)
       PROVE  v[k].kind = w[k].kind
  <2>1. k = 1 \/ k - 1 \in 1..Len(s) \/ k - 1 - Len(s) \in 1..Len(d)
    BY <1>7
  <2>2. CASE k = 1
    BY <1>6, <2>2
  <2>3. CASE k - 1 \in 1..Len(s)
    <3> PICK i \in 1..Len(s) : i = k - 1
      BY <2>3
    <3>1. k = 1 + i
      BY <1>7
    <3> QED
      BY <1>8, <3>1
  <2>4. CASE k - 1 - Len(s) \in 1..Len(d)
    <3> PICK i \in 1..Len(d) : i = k - 1 - Len(s)
      BY <2>4
    <3>1. k = 1 + Len(s) + i
      BY <1>7
    <3> QED
      BY <1>9, <3>1
  <2> QED
    BY <2>1, <2>2, <2>3, <2>4
<1>11. Kinds(v) = Kinds(w)
  <2>1. [i \in 1..Len(v) |-> v[i].kind] = [i \in 1..Len(v) |-> w[i].kind]
    BY <1>10
  <2>2. Len(v) = Len(w)
    BY <1>7
  <2> QED
    BY <2>1, <2>2 DEF Kinds
<1> QED
  BY <1>11 DEF v, w

(* The answer is that of the message as JSON, or that of the whole stream. *)
LEMMA FaultlessAnswer ==
    ASSUME IInv, pc = "answered", fault = "none"
    PROVE  \/ sent = <<>> /\ AnswerEvents = OfMessage(JSONContent, reply.stop)
           \/ AllSent /\ AnswerEvents = OfMessage(StreamContent, reply.stop)
<1> USE DEF IInv
<1>1. /\ StreamContent \in Seq(MessageBlock) /\ JSONContent \in Seq(MessageBlock)
      /\ history \in Seq(Nat \X Nat)
  BY ContentTypes DEF HistoryInv
<1>2. \/ sent = <<>> /\ AnswerIs(OfMessage(JSONContent, reply.stop))
      \/ AllSent /\ AnswerIs(OfMessage(StreamContent, reply.stop))
  BY DEF EventsInv, FramesInv
<1>3. \A v \in Seq(AnyEvent) : AnswerIs(v) => AnswerEvents = v
  BY <1>1, AnswerIsAll DEF AnswerIs
<1>4. /\ OfMessage(JSONContent, reply.stop) \in Seq(AnyEvent)
      /\ OfMessage(StreamContent, reply.stop) \in Seq(AnyEvent)
  BY <1>1, AnswerParts
<1> QED
  BY <1>2, <1>3, <1>4

(* A message gives the same events whole or in frames, and its calls hold  *)
(* the same pieces; the stream's alone are quoted (parseStreamingResponse  *)
(* against normalizeResponse of the JSON), for messages of any size.       *)
THEOREM SameThroughout == Spec => []SameEitherWay
<1>1. IInv => SameEitherWay
  <2> SUFFICES ASSUME IInv, pc = "answered", fault = "none"
               PROVE  SameEitherWay
    BY DEF SameEitherWay
  <2> DEFINE b == StreamContent
             c == JSONContent
             stop == reply.stop
             s == ToolCalls(b)
             t == ToolCalls(c)
             v == AnswerEvents
             w == OfMessage(c, stop)
  <2>1. b \in Seq(MessageBlock) /\ c \in Seq(MessageBlock) /\ ReplyInv /\ BlocksInv
    BY ContentTypes DEF IInv
  <2>2. \/ sent = <<>> /\ v = w
        \/ AllSent /\ v = OfMessage(b, stop)
    BY FaultlessAnswer
  <2>3. \A m \in 1..Len(t) : Quoted \notin Range(t[m].payload)
    <3>1. \A e \in Range(t) : Quoted \notin Range(e.payload)
      BY <2>1, JSONCallsUnquoted
    <3>2. t \in Seq(CallEvent)
      BY <2>1, CallsGrow
    <3>3. \A m \in 1..Len(t) : t[m] \in Range(t)
      <4> HIDE DEF t
      <4> QED
        BY <3>2, LenProperties DEF Range
    <3> QED
      BY <3>1, <3>3
  <2>4. AllSent /\ sent = <<>> => t = <<>>
    <3>1. SUFFICES ASSUME AllSent, sent = <<>> PROVE t = <<>>
      OBVIOUS
    <3>2. Len(reply.content) = 0
      BY <3>1 DEF AllSent, Open
    <3>3. JSONContent = [i \in 1..0 |-> JSONBlock(i)]
      BY <2>1, <3>2, JSONIsContent
    <3>4. JSONContent = <<>>
      BY <3>3
    <3> QED
      BY <3>4, CallsGrow
  <2>5. AllSent => Alike(s, t)
    BY <2>1, SameContent
  <2>6. Kinds(v) = Kinds(w)
    BY <2>1, <2>2, <2>5, SameShape
  <2>7. \A i \in 1..Len(w) : w[i].kind = "tool.call" =>
          \E m \in 1..Len(t) : i = 1 + m /\ w[i] = t[m]
    BY <2>1, CallPlace
  <2>8. AllSent => \A m \in 1..Len(t) :
                     OfMessage(b, stop)[1 + m] = s[m] /\ SameCall(s[m], t[m])
    <3>1. \A m \in 1..Len(s) : OfMessage(b, stop)[1 + m] = s[m]
      BY <2>1, AnswerParts
    <3> QED
      BY <2>5, <3>1 DEF Alike
  <2> HIDE DEF b, c, stop, s, t, v, w
  <2>9. ASSUME NEW i \in 1..Len(w), w[i].kind = "tool.call"
        PROVE  /\ v[i].id = w[i].id
               /\ PiecesOf(v[i].payload) = PiecesOf(w[i].payload)
               /\ Quoted \in Range(v[i].payload)
                    <=> sent # <<>> /\ PiecesOf(w[i].payload) # <<>>
    <3> PICK m \in 1..Len(t) : i = 1 + m /\ w[i] = t[m]
      BY <2>7, <2>9
    <3>1. CASE sent = <<>> /\ v = w
      BY <2>3, <3>1
    <3>2. CASE AllSent /\ v = OfMessage(b, stop)
      <4>1. v[i] = s[m] /\ SameCall(s[m], t[m])
        BY <2>8, <3>2
      <4>2. sent # <<>>
        <5>1. SUFFICES ASSUME sent = <<>> PROVE FALSE
          OBVIOUS
        <5>2. t = <<>>
          BY <2>4, <3>2, <5>1
        <5> QED
          BY <5>2
      <4> QED
        BY <4>1, <4>2 DEF SameCall
    <3> QED
      BY <2>2, <3>1, <3>2
  <2> QED
    BY <2>6, <2>9 DEF SameEitherWay, v, w, c, stop
<1> QED
  BY <1>1, Invariant, PTL

(* The verdict of a message is its last event: tooling if it calls a tool, *)
(* else done if the model ended its turn.                                  *)
LEMMA VerdictOfMessage ==
    ASSUME NEW c \in Seq(MessageBlock), NEW stop, NEW v, v = OfMessage(c, stop)
    PROVE  /\ Len(v) >= 1 /\ v[1].kind = "llm.response" /\ v[1].payload = Spoken(c)
           /\ ToolCalls(c) # <<>> => "agent.tooling" \in Range(Kinds(v))
           /\ ToolCalls(c) = <<>> /\ stop = "end_turn" => "agent.done" \in Range(Kinds(v))
           /\ "agent.done" \in Range(Kinds(v)) => ToolCalls(c) = <<>> /\ stop = "end_turn"
<1> DEFINE t == ToolCalls(c)
           d == Verdict(c, stop)
<1>1. /\ v \in Seq(AnyEvent) /\ Len(t) \in Nat /\ Len(d) \in Nat
      /\ d = IF t # <<>> THEN <<Plain("agent.tooling")>>
             ELSE IF stop = "end_turn" THEN <<Plain("agent.done")>> ELSE <<>>
      /\ Len(v) = 1 + Len(t) + Len(d)
      /\ v[1] = Event("llm.response", <<>>, Spoken(c))
      /\ \A i \in 1..Len(t) : v[1 + i] = t[i] /\ t[i] \in CallEvent
      /\ \A i \in 1..Len(d) : v[1 + Len(t) + i] = d[i]
  BY AnswerParts
<1>2. v[1].kind = "llm.response" /\ v[1].payload = Spoken(c)
  BY <1>1 DEF Event
<1>3. /\ t # <<>> => Len(d) = 1 /\ d[1].kind = "agent.tooling"
      /\ t = <<>> /\ stop = "end_turn" => Len(d) = 1 /\ d[1].kind = "agent.done"
      /\ t = <<>> /\ stop # "end_turn" => Len(d) = 0
  BY <1>1 DEF Plain, Event
<1> HIDE DEF t, d
<1>4. Range(Kinds(v)) = {v[i].kind : i \in 1..Len(v)}
  BY <1>1 DEF Range, Kinds
<1>5. Len(d) = 1 => d[1].kind \in Range(Kinds(v))
  <2>1. SUFFICES ASSUME Len(d) = 1 PROVE d[1].kind \in Range(Kinds(v))
    OBVIOUS
  <2>2. 1 + Len(t) + 1 \in 1..Len(v)
    BY <1>1, <2>1
  <2>3. v[1 + Len(t) + 1] = d[1]
    BY <1>1, <2>1
  <2> QED
    BY <1>4, <2>2, <2>3
<1>6. ASSUME NEW k \in 1..Len(v), v[k].kind = "agent.done"
      PROVE  t = <<>> /\ stop = "end_turn"
  <2>1. k = 1 \/ k - 1 \in 1..Len(t) \/ (Len(d) = 1 /\ k = 1 + Len(t) + 1)
    BY <1>1, <1>3
  <2>2. k # 1
    BY <1>2, <1>6
  <2>3. k - 1 \notin 1..Len(t)
    <3>1. ASSUME NEW i \in 1..Len(t), i = k - 1 PROVE FALSE
      <4>1. k = 1 + i
        BY <1>1, <3>1
      <4>2. v[k] \in CallEvent
        BY <1>1, <4>1
      <4> QED
        BY <1>6, <4>2 DEF CallEvent
    <3> QED
      BY <3>1
  <2>4. Len(d) = 1 /\ v[k] = d[1]
    <3>1. Len(d) = 1 /\ k = 1 + Len(t) + 1
      BY <2>1, <2>2, <2>3
    <3>2. v[1 + Len(t) + 1] = d[1]
      BY <1>1, <3>1
    <3> QED
      BY <3>1, <3>2
  <2> QED
    BY <1>3, <1>6, <2>4
<1>7. Len(v) >= 1
  BY <1>1
<1> QED
  BY <1>2, <1>3, <1>4, <1>5, <1>6, <1>7 DEF t

(* What is said of a body that could not be read, or of an error status.   *)
LEMMA VerdictOfFailure ==
    /\ "agent.error" \in Range(Kinds(Failed(200)))
    /\ "agent.done" \notin Range(Kinds(Failed(200)))
    /\ "agent.error" \in Range(Kinds(NoMessage(500)))
    /\ \A status \in {200, 500} : "agent.done" \notin Range(Kinds(NoMessage(status)))
    /\ Failed(200) \in Seq(AnyEvent)
    /\ \A status \in {200, 500} : NoMessage(status) \in Seq(AnyEvent)
<1> DEFINE a == Plain("llm.response")
           b == Plain("agent.error")
           e == <<>>
<1>1. /\ a \in AnyEvent /\ b \in AnyEvent
      /\ a.kind = "llm.response" /\ b.kind = "agent.error"
  BY DEF Plain, Event, AnyEvent, Happenings
<1> HIDE DEF a, b
<1>2. /\ <<a>> \in Seq(AnyEvent) /\ <<b>> \in Seq(AnyEvent) /\ e \in Seq(AnyEvent)
      /\ <<a, b>> \in Seq(AnyEvent)
  BY <1>1
<1> HIDE DEF e
<1>3. <<a>> \o e = <<a>> /\ <<a>> \o <<b>> = <<a, b>>
  <2>1. <<a>> \o e = <<a>>
    BY <1>2, ConcatEmptySeq DEF e
  <2>2. <<a>> \o <<b>> = Append(<<a>>, b)
    BY <1>1, <1>2, AppendIsConcat
  <2>3. Append(<<a>>, b) = <<a, b>>
    <3> DEFINE r == Append(<<a>>, b)
               t == <<a, b>>
    <3>1. r \in Seq(AnyEvent) /\ Len(r) = 2 /\ r[1] = a /\ r[2] = b
      BY <1>1, <1>2
    <3>2. t \in Seq(AnyEvent) /\ Len(t) = 2 /\ t[1] = a /\ t[2] = b
      BY <1>2
    <3> HIDE DEF r, t
    <3>3. ASSUME NEW i \in 1..Len(r) PROVE r[i] = t[i]
      BY <3>1, <3>2
    <3>4. r = t
      BY <3>1, <3>2, <3>3, SeqEqual
    <3> QED
      BY <3>4 DEF r, t
  <2> QED
    BY <2>1, <2>2, <2>3
<1>4. Failed(200) = <<a, b>> /\ NoMessage(200) = <<a>> /\ NoMessage(500) = <<a, b>>
  <2>1. \A s : NoMessage(s) = <<a>> \o (IF s >= 400 THEN <<b>> ELSE e)
    BY DEF NoMessage, a, b, e
  <2>2. ~(200 >= 400) /\ 500 >= 400
    OBVIOUS
  <2>3. Failed(200) = <<a, b>>
    BY DEF Failed, a, b
  <2> QED
    BY <1>3, <2>1, <2>2, <2>3
<1>5. /\ Range(Kinds(<<a>>)) = {"llm.response"}
      /\ Range(Kinds(<<a, b>>)) = {"llm.response", "agent.error"}
  <2>1. /\ DOMAIN Kinds(<<a>>) = {1} /\ Kinds(<<a>>)[1] = "llm.response"
        /\ DOMAIN Kinds(<<a, b>>) = {1, 2}
        /\ Kinds(<<a, b>>)[1] = "llm.response" /\ Kinds(<<a, b>>)[2] = "agent.error"
    BY <1>1 DEF Kinds
  <2> QED
    BY <2>1 DEF Range
<1>6. /\ "agent.done" \notin {"llm.response"}
      /\ "agent.done" \notin {"llm.response", "agent.error"}
      /\ "agent.error" \in {"llm.response", "agent.error"}
  OBVIOUS
<1>7. /\ "agent.done" \notin Range(Kinds(NoMessage(200)))
      /\ "agent.done" \notin Range(Kinds(NoMessage(500)))
      /\ NoMessage(200) \in Seq(AnyEvent) /\ NoMessage(500) \in Seq(AnyEvent)
  <2> DEFINE one == <<a>>
             two == <<a, b>>
  <2>1. /\ NoMessage(200) = one /\ NoMessage(500) = two
        /\ one \in Seq(AnyEvent) /\ two \in Seq(AnyEvent)
    BY <1>2, <1>4
  <2> HIDE DEF one, two
  <2>2. NoMessage(200) \in Seq(AnyEvent) /\ NoMessage(500) \in Seq(AnyEvent)
    BY <2>1
  <2>3. "agent.done" \notin Range(Kinds(<<a>>)) /\ "agent.done" \notin Range(Kinds(<<a, b>>))
    BY <1>5, <1>6, Zenon
  <2>4. /\ Range(Kinds(NoMessage(200))) = Range(Kinds(<<a>>))
        /\ Range(Kinds(NoMessage(500))) = Range(Kinds(<<a, b>>))
    BY <2>1 DEF one, two
  <2> QED
    BY <2>2, <2>3, <2>4
<1>8. ASSUME NEW status \in {200, 500}
      PROVE  /\ "agent.done" \notin Range(Kinds(NoMessage(status)))
             /\ NoMessage(status) \in Seq(AnyEvent)
  <2>1. status = 200 \/ status = 500
    OBVIOUS
  <2> QED
    BY <1>7, <2>1, Zenon
<1>9. /\ "agent.error" \in Range(Kinds(<<a, b>>))
      /\ "agent.done" \notin Range(Kinds(<<a, b>>))
  BY <1>5, <1>6, Zenon
<1>10. Failed(200) = <<a, b>> /\ NoMessage(500) = <<a, b>> /\ <<a, b>> \in Seq(AnyEvent)
  BY <1>2, <1>4, Zenon
<1>11. /\ Range(Kinds(Failed(200))) = Range(Kinds(<<a, b>>))
       /\ Range(Kinds(NoMessage(500))) = Range(Kinds(<<a, b>>))
  BY <1>10
<1>12. Failed(200) \in Seq(AnyEvent)
  BY <1>10
<1> QED
  BY <1>8, <1>9, <1>11, <1>12

(* agent.done is published only of a reply that came whole and after all   *)
(* of its text, and a turn is left without a verdict only for the reasons  *)
(* VerdictIsDue lists (normalizeResponse).                                 *)
THEOREM VerdictThroughout == Spec => []VerdictIsDue
<1>1. IInv => VerdictIsDue
  <2> SUFFICES ASSUME IInv, pc = "answered" PROVE VerdictIsDue
    BY DEF VerdictIsDue, DoneIsWhole, SilentOnlyIf
  <2> DEFINE v == AnswerEvents
             b == StreamContent
             c == JSONContent
             stop == reply.stop
  <2>1. /\ b \in Seq(MessageBlock) /\ c \in Seq(MessageBlock)
        /\ ReplyInv /\ BlocksInv /\ history \in Seq(Nat \X Nat)
    BY ContentTypes DEF IInv, HistoryInv
  <2>2. /\ stop # "" /\ "" # "end_turn"
        /\ \A w \in Seq(AnyEvent) : AnswerIs(w) => v = w
    BY <2>1, AnswerIsAll DEF AnswerIs, ReplyInv
  <2>3. \/ fault = "none" /\ sent = <<>> /\ v = OfMessage(c, stop)
        \/ fault = "none" /\ AllSent /\ v = OfMessage(b, stop)
        \/ fault = "cut" /\ v = OfMessage(b, "")
        \/ fault \in {"encoding", "broken"} /\ v = Failed(200)
        \/ fault = "unreadable" /\ \E status \in {200, 500} : v = NoMessage(status)
        \/ fault = "status" /\ v = NoMessage(500)
    <3>1. OfMessage(b, "") \in Seq(AnyEvent)
      BY <2>1, AnswerParts
    <3>2. CASE fault = "none"
      BY <2>2, <3>2, FaultlessAnswer
    <3>3. CASE fault = "cut"
      <4>1. AnswerIs(OfMessage(b, ""))
        BY <3>3 DEF IInv, EventsInv
      <4> QED
        BY <2>2, <3>1, <3>3, <4>1
    <3>4. CASE fault \in {"encoding", "broken"}
      <4>1. AnswerIs(Failed(200))
        BY <3>4 DEF IInv, EventsInv
      <4>2. Failed(200) \in Seq(AnyEvent)
        BY VerdictOfFailure
      <4> QED
        BY <2>2, <3>4, <4>1, <4>2
    <3>5. CASE fault = "unreadable"
      <4>1. \E s \in {200, 500} : AnswerIs(NoMessage(s))
        BY <3>5 DEF IInv, EventsInv
      <4>2. ASSUME NEW s \in {200, 500}, AnswerIs(NoMessage(s))
            PROVE  v = NoMessage(s)
        <5>1. PICK w : w = NoMessage(s)
          OBVIOUS
        <5>2. w \in Seq(AnyEvent) /\ AnswerIs(w)
          BY <4>2, <5>1, VerdictOfFailure
        <5>3. v = w
          BY <2>1, <5>2, AnswerIsAll DEF AnswerIs
        <5> QED
          BY <5>1, <5>3
      <4>3. \E s \in {200, 500} : v = NoMessage(s)
        BY <4>1, <4>2
      <4> QED
        BY <3>5, <4>3
    <3>6. CASE fault = "status"
      <4>1. AnswerIs(NoMessage(500))
        BY <3>6 DEF IInv, EventsInv
      <4>2. NoMessage(500) \in Seq(AnyEvent)
        BY VerdictOfFailure
      <4> QED
        BY <2>2, <3>6, <4>1, <4>2
    <3>7. fault \in {"none", "cut", "encoding", "broken", "unreadable", "status"}
      BY DEF IInv, EventsInv
    <3> QED
      BY <3>2, <3>3, <3>4, <3>5, <3>6, <3>7
  <2> HIDE DEF v, b, c, stop
  <2>4. SilentOnlyIf
    <3>1. ASSUME NEW m \in {b, c}, v = OfMessage(m, stop), stop = "end_turn"
          PROVE  {"agent.done", "agent.tooling"} \cap Range(Kinds(v)) # {}
      BY <2>1, <3>1, VerdictOfMessage
    <3>2. \/ {"agent.done", "agent.tooling", "agent.error"} \cap Range(Kinds(v)) # {}
          \/ fault \in {"cut", "unreadable"}
          \/ fault = "none" /\ stop # "end_turn"
      <4>1. CASE fault = "none" /\ v = OfMessage(c, stop)
        BY <3>1, <4>1
      <4>2. CASE fault = "none" /\ v = OfMessage(b, stop)
        BY <3>1, <4>2
      <4>3. CASE v = Failed(200) \/ v = NoMessage(500)
        BY <4>3, VerdictOfFailure
      <4> QED
        BY <2>3, <4>1, <4>2, <4>3
    <3> QED
      BY <3>2 DEF SilentOnlyIf, v, stop
  <2>5. ASSUME "agent.done" \in Range(Kinds(v))
        PROVE  /\ fault = "none" /\ Kinds(v)[1] = "llm.response"
               /\ TextOf(Head(v).payload) = TextOf(Spoken(c))
               /\ sent # <<>> => IsSpoken(Head(v).payload)
    <3>1. ASSUME NEW m \in {b, c}, NEW s, v = OfMessage(m, s)
          PROVE  /\ Kinds(v)[1] = "llm.response" /\ Head(v).payload = Spoken(m)
                 /\ ToolCalls(m) = <<>> /\ s = "end_turn"
      <4>1. /\ Len(v) >= 1 /\ v[1].kind = "llm.response" /\ v[1].payload = Spoken(m)
            /\ ToolCalls(m) = <<>> /\ s = "end_turn"
        BY <2>1, <2>5, <3>1, VerdictOfMessage
      <4>2. v \in Seq(AnyEvent)
        BY <2>1, <3>1, AnswerParts
      <4>3. Len(v) \in Nat
        BY <4>2, LenProperties
      <4>4. 1 \in 1..Len(v)
        BY <4>1, <4>3
      <4>5. Kinds(v)[1] = v[1].kind
        BY <4>4 DEF Kinds
      <4>6. Head(v) = v[1]
        BY <4>2, <4>4
      <4> QED
        BY <4>1, <4>5, <4>6
    <3>2. \/ fault = "none" /\ sent = <<>> /\ v = OfMessage(c, stop)
          \/ fault = "none" /\ AllSent /\ v = OfMessage(b, stop)
      <4>1. ~(v = OfMessage(b, ""))
        BY <2>2, <3>1
      <4>2. ~(v = Failed(200)) /\ \A status \in {200, 500} : ~(v = NoMessage(status))
        BY <2>5, VerdictOfFailure
      <4>3. 500 \in {200, 500}
        OBVIOUS
      <4> QED
        BY <2>3, <4>1, <4>2, <4>3
    <3>3. CASE sent = <<>> /\ v = OfMessage(c, stop)
      BY <3>1, <3>2, <3>3
    <3>4. CASE AllSent /\ v = OfMessage(b, stop)
      <4>1. ToolCalls(b) = <<>> /\ Kinds(v)[1] = "llm.response" /\ Head(v).payload = Spoken(b)
        BY <3>1, <3>4
      <4>2. Alike(ToolCalls(b), ToolCalls(c))
        BY <2>1, <3>4, SameContent DEF b, c
      <4>3. ToolCalls(c) = <<>>
        <5>1. ToolCalls(c) \in Seq(CallEvent) /\ Len(ToolCalls(c)) = 0
          <6>1. Len(<<>>) = 0
            OBVIOUS
          <6> QED
            BY <2>1, <4>1, <4>2, <6>1, CallsGrow DEF Alike
        <5> QED
          BY <5>1, EmptySeq
      <4>4. \A i \in 1..Len(reply.content) : reply.content[i].type # "tool_use"
        <5>1. \A i \in 1..Len(c) : c[i].type # "tool_use"
          BY <2>1, <4>3, CallsOfTools
        <5>2. /\ c = [i \in 1..Len(reply.content) |-> JSONBlock(i)]
              /\ Len(reply.content) \in Nat
          BY <2>1, JSONIsContent DEF c
        <5>3. \A i \in 1..Len(reply.content) : c[i].type = reply.content[i].type
          BY <5>2 DEF JSONBlock
        <5>4. Len(c) = Len(reply.content)
          BY <5>2
        <5> QED
          BY <5>1, <5>3, <5>4
      <4>5. TextOf(Spoken(b)) = TextOf(Spoken(c)) /\ IsSpoken(Spoken(b))
        BY <2>1, <3>4, <4>4, SameContent DEF b, c
      <4> QED
        BY <3>2, <4>1, <4>5
    <3> QED
      BY <3>2, <3>3, <3>4
  <2>6. DoneIsWhole
    BY <2>5 DEF DoneIsWhole, IsSpoken, v, c
  <2> QED
    BY <2>4, <2>6 DEF VerdictIsDue
<1> QED
  BY <1>1, Invariant, PTL
=============================================================================
