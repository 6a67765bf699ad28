----------------------------- MODULE ClaudeStream -----------------------------
(***************************************************************************)
(* What the Claude adapter makes of an exchange: normalizeRequest for the  *)
(* request, and for the answer decodeResponseBody, the parser of event     *)
(* streams (parseStreamingResponse) and normalizeResponse.                 *)
(*                                                                         *)
(* The API composes a message of content blocks and sends it whole, as     *)
(* JSON, or in frames; it may stop before the end.  The provider answers   *)
(* tool calls in its next request, which repeats the conversation.         *)
(* Texts and tool inputs are sequences of the pieces they are sent in; a   *)
(* piece of JSON says nothing by itself, only the whole decodes.           *)
(***************************************************************************)
EXTENDS Naturals, Sequences, FiniteSets, SequencesExt

CONSTANTS
    MaxBlocks,  \* bound: blocks of a message
    MaxPieces,  \* bound: pieces of a block
    MaxRounds,  \* bound: requests of the conversation
    Encodings   \* Content-Encoding headers, sequences of names

ASSUME ClaudeAssumption ==
    MaxBlocks \in Nat /\ MaxPieces \in Nat /\ MaxRounds \in Nat

VARIABLES
    pc,         \* "idle", "asked", "frames" or "answered"
    round,      \* requests sent
    reply,      \* what the API answers: its content and stop_reason
    sent,       \* frames of content sent: per started block, its pieces
    blocks,     \* the stream blocks of the parser, by index
    stopReason, \* StopReason of the envelope
    fault,      \* history: what went wrong with the answer
    events,     \* the events of the round
    history,    \* tool_use ids whose results the conversation holds
    called      \* history: ids in tool.call events of whole replies

vars == <<pc, round, reply, sent, blocks, stopReason, fault, events, history,
          called>>

-----------------------------------------------------------------------------
(* The API (external): messages and their pieces.                          *)

Block(type, n) == [type |-> type, pieces |-> n]

Contents == UNION {[1..n -> {Block("text", k)     : k \in 1..MaxPieces}
                            \cup {Block("tool_use", k) : k \in 0..MaxPieces}
                            \cup {Block("thinking", 1)}] : n \in 0..MaxBlocks}

Replies == [content : Contents, stop : {"end_turn", "max_tokens", "tool_use"}]

Piece(i, k) == <<i, k>>
Pieces(i, n) == [k \in 1..n |-> Piece(i, k)]

(* The input `{}`: of a tool without arguments, and of every tool_use      *)
(* block when it starts.                                                   *)
Nothing == <<0, 0>>

(* What follows is a string.                                               *)
Quoted == <<0, 1>>

-----------------------------------------------------------------------------
(* Events: kind, tool id and, for llm.response and tool.call, the payload. *)

Event(kind, id, payload) == [kind |-> kind, id |-> id, payload |-> payload]
Plain(kind) == Event(kind, <<>>, <<>>)

Ids(kind, evts) == {evts[i].id : i \in {j \in 1..Len(evts) : evts[j].kind = kind}}
Kinds(evts) == [i \in 1..Len(evts) |-> evts[i].kind]

(* Mutant: only the results of the last message.                           *)
NormalizeRequest_LastMessage(ids) ==
    <<Plain("llm.request"), Plain("agent.busy")>> \o
    (IF ids = <<>> THEN <<>> ELSE <<Event("tool.result", Last(ids), <<>>)>>)

(* normalizeRequest: the tool results of the whole conversation.           *)
NormalizeRequest(ids) ==
    <<Plain("llm.request"), Plain("agent.busy")>> \o
    [i \in 1..Len(ids) |-> Event("tool.result", ids[i], <<>>)]

(* extractText over the content: text blocks give their text, and a block  *)
(* without one every string it holds (processor.go).                       *)
Spoken(content) ==
    FlattenSeq([i \in 1..Len(content) |-> content[i].words])

CallOf(b) == IF b.type = "tool_use" THEN <<Event("tool.call", b.id, b.words)>>
             ELSE <<>>

ToolCalls(content) == FlattenSeq([i \in 1..Len(content) |-> CallOf(content[i])])

Verdict(content, stop) ==
    IF \E i \in 1..Len(content) : content[i].type = "tool_use"
    THEN <<Plain("agent.tooling")>>
    ELSE IF stop = "end_turn" THEN <<Plain("agent.done")>> ELSE <<>>

(* The events of a message that could be read.                             *)
OfMessage(content, stop) ==
    <<Event("llm.response", <<>>, Spoken(content))>>
      \o ToolCalls(content) \o Verdict(content, stop)

(* decode_error and stream_decode_error.                                   *)
Failed(status) == <<Plain("llm.response"), Plain("agent.error")>>

(* No JSON, or JSON that says error: an error only if the status says so.  *)
NoMessage(status) ==
    <<Plain("llm.response")>> \o
    (IF status >= 400 THEN <<Plain("agent.error")>> ELSE <<>>)

-----------------------------------------------------------------------------
(* Decompression: layers of encodings on the body, the outermost last.     *)

Known == {"gzip", "deflate", "br"}

DecodeEncoding(encoding, layers) ==
    IF encoding \notin Known \/ layers = <<"error">> THEN layers
    ELSE IF layers # <<>> /\ Last(layers) = encoding THEN Front(layers)
    ELSE <<"error">>

ParseContentEncodings(header) == SelectSeq(header, LAMBDA e : e # "identity")

(* decodeResponseBody undoes the encodings of the header from the last on. *)
DecodeResponseBody(header, layers) ==
    FoldRight(DecodeEncoding, ParseContentEncodings(header), layers)

-----------------------------------------------------------------------------
Init ==
    /\ pc = "idle"
    /\ round = 0
    /\ reply = [content |-> <<>>, stop |-> "end_turn"]
    /\ sent = <<>>
    /\ blocks = <<>>
    /\ stopReason = ""
    /\ fault = "none"
    /\ events = <<>>
    /\ history = <<>>
    /\ called = {}

(* The provider sends its next request.                                    *)
Request ==
    /\ pc = "idle" /\ round < MaxRounds
    /\ pc' = "asked"
    /\ round' = round + 1
    /\ reply' \in Replies
    /\ events' = NormalizeRequest(history)
    /\ sent' = <<>> /\ blocks' = <<>> /\ stopReason' = "" /\ fault' = "none"
    /\ UNCHANGED <<history, called>>

(* The answer is complete; the handler publishes what it makes of it.      *)
Answered(evts, why) ==
    /\ pc' = "answered"
    /\ events' = events \o evts
    /\ fault' = why

Id(i) == <<round, i>>

(* The message as JSON: every block with all it holds.                     *)
JSONContent ==
    [i \in 1..Len(reply.content) |->
       LET b == reply.content[i] IN
         [type |-> b.type, id |-> Id(i),
          words |-> IF b.type = "tool_use" /\ b.pieces = 0 THEN <<Nothing>>
                    ELSE Pieces(i, b.pieces)]]

(* An answer in one piece, under every encoding; the body may be broken.   *)
WholeResponse ==
    /\ pc = "asked"
    /\ \E header \in Encodings, broken \in {<<>>, <<"broken">>},
          status \in {200, 500} :
         LET body == DecodeResponseBody(header,
                                        ParseContentEncodings(header) \o broken)
         IN  CASE body = <<"error">> -> Answered(Failed(status), "encoding")
               [] body \notin {<<>>, <<"error">>} ->
                    Answered(NoMessage(status), "unreadable")
               [] body = <<>> /\ status >= 400 ->
                    Answered(NoMessage(status), "status")
               [] body = <<>> /\ status < 400 ->
                    Answered(OfMessage(JSONContent, reply.stop), "none")
    /\ UNCHANGED <<round, reply, sent, blocks, stopReason, history, called>>

-----------------------------------------------------------------------------
(* A stream, frame by frame.                                               *)

MessageStart ==
    /\ pc = "asked"
    /\ pc' = "frames"
    /\ UNCHANGED <<round, reply, sent, blocks, stopReason, fault, events,
                   history, called>>

(* The frame of the content the API sends next.                            *)
Open == Len(sent)
OpenIsWhole == \A i \in 1..Open : sent[i] = reply.content[i].pieces

ContentBlockStart ==
    /\ pc = "frames" /\ stopReason = ""
    /\ OpenIsWhole /\ Open < Len(reply.content)
    /\ LET b == reply.content[Open + 1] IN
         blocks' = Append(blocks,
           [type |-> b.type, id |-> Id(Open + 1), text |-> <<>>,
            input |-> IF b.type = "tool_use" THEN <<Nothing>> ELSE <<>>])
    /\ sent' = Append(sent, 0)
    /\ UNCHANGED <<pc, round, reply, stopReason, fault, events, history, called>>

(* Mutant: the delta replaces the text.                                    *)
ContentBlockDelta_Replace ==
    /\ pc = "frames" /\ stopReason = ""
    /\ sent # <<>> /\ ~OpenIsWhole
    /\ LET p == Piece(Open, Last(sent) + 1) IN
         blocks' = CASE blocks[Open].type = "text" ->
                          [blocks EXCEPT ![Open].text = <<p>>]
                     [] blocks[Open].type = "tool_use" ->
                          [blocks EXCEPT ![Open].input = Append(@, p)]
                     [] OTHER -> blocks
    /\ sent' = [sent EXCEPT ![Open] = @ + 1]
    /\ UNCHANGED <<pc, round, reply, stopReason, fault, events, history, called>>

(* text_delta and input_json_delta; others, as of thoughts, are passed by. *)
ContentBlockDelta ==
    /\ pc = "frames" /\ stopReason = ""
    /\ sent # <<>> /\ ~OpenIsWhole
    /\ LET p == Piece(Open, Last(sent) + 1) IN
         blocks' = CASE blocks[Open].type = "text" ->
                          [blocks EXCEPT ![Open].text = Append(@, p)]
                     [] blocks[Open].type = "tool_use" ->
                          [blocks EXCEPT ![Open].input = Append(@, p)]
                     [] OTHER -> blocks
    /\ sent' = [sent EXCEPT ![Open] = @ + 1]
    /\ UNCHANGED <<pc, round, reply, stopReason, fault, events, history, called>>

(* Mutant: the stop reason of message_delta is not read.                   *)
MessageDelta_Unread ==
    /\ pc = "frames" /\ stopReason = ""
    /\ OpenIsWhole /\ Open = Len(reply.content)
    /\ stopReason' = "unread"
    /\ UNCHANGED <<pc, round, reply, sent, blocks, fault, events, history, called>>

(* All blocks are out: message_delta with the stop reason.                 *)
MessageDelta ==
    /\ pc = "frames" /\ stopReason = ""
    /\ OpenIsWhole /\ Open = Len(reply.content)
    /\ stopReason' = reply.stop
    /\ UNCHANGED <<pc, round, reply, sent, blocks, fault, events, history, called>>

(* json.Unmarshal takes a whole input and nothing else (external).         *)
Decodes(input, i) ==
    input \in {<<Nothing>>, Pieces(i, reply.content[i].pieces)}

(* finalizeInputJSON: the input if it decodes, else its bytes as a string. *)
FinalizeInputJSON(input, i) ==
    IF Decodes(input, i) THEN input ELSE <<Quoted>> \o input

(* What becomes of the block with index i: only text and tool_use stay.    *)
Kept(b, i) ==
    CASE b.type = "text" -> <<[type |-> b.type, id |-> b.id, words |-> b.text]>>
      [] b.type = "tool_use" ->
           <<[type |-> b.type, id |-> b.id,
              words |-> FinalizeInputJSON(b.input, i)]>>
      [] OTHER -> <<>>

(* The blocks in the order of their indexes.                               *)
StreamContent == FlattenSeq([i \in 1..Len(blocks) |-> Kept(blocks[i], i)])

(* The body ends: after message_stop, after an error frame, which the      *)
(* parser passes by, or anywhere else.                                     *)
StreamEnds ==
    /\ pc = "frames"
    /\ Answered(OfMessage(StreamContent, stopReason),
                IF stopReason = "" THEN "cut" ELSE "none")
    /\ UNCHANGED <<round, reply, sent, blocks, stopReason, history, called>>

(* A frame that is no JSON, or longer than the scanner takes: the whole    *)
(* stream is given up.                                                     *)
StreamBreaks ==
    /\ pc = "frames"
    /\ Answered(Failed(200), "broken")
    /\ UNCHANGED <<round, reply, sent, blocks, stopReason, history, called>>

(* The provider goes on.  It runs the tools of a whole reply; anything     *)
(* else it asks for again.                                                 *)
Proceed ==
    /\ pc = "answered"
    /\ pc' = "idle"
    /\ LET calls == ToolCalls(JSONContent)
       IN  IF fault = "none"
           THEN /\ history' = history \o [i \in 1..Len(calls) |-> calls[i].id]
                /\ called' = called \cup Ids("tool.call", events)
           ELSE UNCHANGED <<history, called>>
    /\ UNCHANGED <<round, reply, sent, blocks, stopReason, fault, events>>

Next ==
    \/ Request \/ WholeResponse \/ MessageStart
    \/ ContentBlockStart \/ ContentBlockDelta \/ MessageDelta
    \/ StreamEnds \/ StreamBreaks \/ Proceed

Spec == Init /\ [][Next]_vars
-----------------------------------------------------------------------------
(* The answer's own events, after those of the request.                    *)
AnswerEvents == SubSeq(events, Len(NormalizeRequest(history)) + 1, Len(events))

(* What a payload holds of its block's pieces.                             *)
PiecesOf(words) ==
    FlattenSeq([k \in 1..Len(words) |->
                  IF words[k] \in {Nothing, Quoted} THEN <<>> ELSE <<words[k]>>])

(* What it holds of the text blocks of the reply.                          *)
IsText(word) == reply.content[word[1]].type = "text"
TextOf(words) ==
    FlattenSeq([k \in 1..Len(words) |->
                  IF IsText(words[k]) THEN <<words[k]>> ELSE <<>>])

(* A message gives the same events in the same order whether it was sent   *)
(* whole or in frames, and a tool.call holds every piece of its input in   *)
(* order (parseStreamingResponse against normalizeResponse of the JSON).   *)
(* A streamed input with arguments is no object, though: its bytes follow  *)
(* the `{}` its block began with, as a string.                             *)
SameEitherWay ==
    pc = "answered" /\ fault = "none" =>
        LET whole == OfMessage(JSONContent, reply.stop)
        IN  /\ Kinds(AnswerEvents) = Kinds(whole)
            /\ \A i \in 1..Len(whole) : whole[i].kind = "tool.call" =>
                 /\ AnswerEvents[i].id = whole[i].id
                 /\ PiecesOf(AnswerEvents[i].payload) = PiecesOf(whole[i].payload)
                 /\ Quoted \in Range(AnswerEvents[i].payload)
                      <=> sent # <<>> /\ PiecesOf(whole[i].payload) # <<>>

DoneIsWhole ==
    pc = "answered" /\ "agent.done" \in Range(Kinds(AnswerEvents)) =>
        LET words == Head(AnswerEvents).payload
        IN  /\ fault = "none"
            /\ Kinds(AnswerEvents)[1] = "llm.response"
            /\ TextOf(words) = TextOf(Spoken(JSONContent))
            /\ sent # <<>> => \A i \in 1..Len(words) : IsText(words[i])

SilentOnlyIf ==
    pc = "answered" =>
        \/ {"agent.done", "agent.tooling", "agent.error"}
             \cap Range(Kinds(AnswerEvents)) # {}
        \/ fault \in {"cut", "unreadable"}
        \/ fault = "none" /\ reply.stop # "end_turn"

(* agent.done is published only of a reply that came whole, and the        *)
(* llm.response before it holds all of its text, in order; of a stream it  *)
(* holds nothing else, no thought and no tool input.  A turn is left       *)
(* without a verdict, neither done nor tooling nor error, only when a      *)
(* stream stops early or says so in an error frame, when a body cannot be  *)
(* read although its status is fine, or when the model stopped for another *)
(* reason (normalizeResponse).                                             *)
VerdictIsDue == DoneIsWhole /\ SilentOnlyIf

(* A tool.call of a reply the provider took is matched by a tool.result    *)
(* of the same id in every later request, as each repeats the conversation *)
(* (normalizeRequest).                                                     *)
ResultOfEveryCall ==
    pc # "idle" => called \subseteq Ids("tool.result", events)
=============================================================================
