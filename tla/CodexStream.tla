------------------------------ MODULE CodexStream ------------------------------
(***************************************************************************)
(* What the Codex adapter makes of an exchange over plain HTTP:            *)
(* RequestEvents for the request, ResponseEvents for the answer, which is  *)
(* an event stream, a response object or a chat completion.  (CodexSession *)
(* models the same API over a websocket.)                                  *)
(*                                                                         *)
(* A response is a sequence of output items, messages and function calls.  *)
(* A stream announces each item, sends a message piece by piece and again  *)
(* as a whole, ends the item, and closes with response.completed, which    *)
(* may repeat the output, leave it empty or carry no response at all.      *)
(***************************************************************************)
EXTENDS Naturals, Sequences, FiniteSets, SequencesExt

CONSTANTS
    MaxItems,   \* bound: output items of a response
    MaxPieces,  \* bound: pieces of a message
    MaxRounds,  \* bound: requests of the conversation
    Finals      \* what response.completed carries: "output", "empty", "none"

ASSUME CodexStreamAssumption ==
    /\ MaxItems \in Nat /\ MaxPieces \in Nat /\ MaxRounds \in Nat
    /\ Finals \subseteq {"output", "empty", "none"}

VARIABLES
    pc,         \* "idle", "asked", "frames" or "answered"
    round,      \* requests sent
    output,     \* the items of the API's response
    delivered,  \* per item announced: pieces sent
    ended,      \* items ended: their texts were sent again as a whole
    text,       \* the text builder of summarizeEventStream
    final,      \* finalResponse: "nil", or what response.completed carried
    completed,  \* completed of summarizeEventStream
    fault,      \* history: what went wrong with the answer
    events,     \* the events of the round
    history,    \* ids of the function_call_outputs the conversation holds
    called      \* history: ids of the tool.call events so far

streamVars == <<pc, round, output, delivered, ended, text, final, completed,
                fault, events, history, called>>
conversation == <<round, output, history, called>>

-----------------------------------------------------------------------------
(* The API (external).                                                     *)

OutputItems == {[type |-> "message", pieces |-> k] : k \in 1..MaxPieces}
                 \cup {[type |-> "function_call", pieces |-> 0]}
Outputs == UNION {[1..n -> OutputItems] : n \in 0..MaxItems}

Id(i) == <<round, i>>
Words(i) == [k \in 1..output[i].pieces |-> <<i, k>>]
AllWords == FlattenSeq([i \in 1..Len(output) |-> Words(i)])
CallOf(i) == IF output[i].type = "function_call" THEN <<Id(i)>> ELSE <<>>
Calls == FlattenSeq([i \in 1..Len(output) |-> CallOf(i)])

-----------------------------------------------------------------------------
(* Events: kind, call id and, for llm.response, the assistant text.        *)

NewEvent(kind, id, words) == [kind |-> kind, id |-> id, words |-> words]
Ids(kind, evts) ==
    {evts[i].id : i \in {j \in 1..Len(evts) : evts[j].kind = kind}}
Kinds(evts) == {evts[i].kind : i \in 1..Len(evts)}

(* extractToolResults: the outputs anywhere in the body; a body that       *)
(* cannot be decoded is kept raw and holds none.                           *)
ExtractToolResults(ids, readable) == IF readable THEN ids ELSE <<>>

(* Mutant: only the newest result.                                         *)
RequestEvents_Newest(ids, readable) ==
    LET found == ExtractToolResults(ids, readable)
    IN  <<NewEvent("llm.request", <<>>, <<>>)>> \o
        (IF found = <<>> THEN <<>>
         ELSE <<NewEvent("tool.result", Last(found), <<>>)>>)

RequestEvents(ids, readable) ==
    LET found == ExtractToolResults(ids, readable)
    IN  <<NewEvent("llm.request", <<>>, <<>>)>> \o
        [i \in 1..Len(found) |-> NewEvent("tool.result", found[i], <<>>)]

(* ResponseEvents of a summary.  The status code is not looked at.         *)
ResponseEvents(words, calls, done) ==
    <<NewEvent("llm.response", <<>>, words)>>
      \o [i \in 1..Len(calls) |-> NewEvent("tool.call", calls[i], <<>>)]
      \o (IF done THEN <<NewEvent("agent.done", <<>>, <<>>)>> ELSE <<>>)

(* summarizeDecodedResponse: the items of an output, or the choices of a   *)
(* chat completion; any other body has neither text nor calls.             *)
ToolCalls(body) == IF body \in {"output", "choices"} THEN Calls ELSE <<>>
Text(body) == IF body \in {"output", "choices"} THEN AllWords ELSE <<>>

-----------------------------------------------------------------------------
StreamInit ==
    /\ pc = "idle"
    /\ round = 0
    /\ output = <<>>
    /\ delivered = <<>> /\ ended = 0 /\ text = <<>>
    /\ final = "nil" /\ completed = FALSE
    /\ fault = "none"
    /\ events = <<>>
    /\ history = <<>> /\ called = {}

(* The provider sends its next request, maybe in an encoding the adapter   *)
(* does not know.                                                          *)
Request ==
    /\ pc = "idle" /\ round < MaxRounds
    /\ pc' = "asked"
    /\ round' = round + 1
    /\ output' \in Outputs
    /\ \E readable \in BOOLEAN :
         /\ events' = RequestEvents(history, readable)
         /\ fault' = IF readable THEN "none" ELSE "request"
    /\ delivered' = <<>> /\ ended' = 0 /\ text' = <<>>
    /\ final' = "nil" /\ completed' = FALSE
    /\ UNCHANGED <<history, called>>

Answered(evts, why) ==
    /\ pc' = "answered"
    /\ events' = events \o evts
    /\ fault' = IF why = "none" THEN fault ELSE why

(* A response object, completed or not, a chat completion, which has no    *)
(* status, or a body that is an error or does not decode.                  *)
WholeResponse ==
    /\ pc = "asked"
    /\ \E body \in {"output", "choices", "raw"}, status \in {"completed", ""} :
         Answered(ResponseEvents(Text(body), ToolCalls(body),
                                 body = "output" /\ status = "completed"),
                  CASE body = "choices" -> "chat"
                    [] body = "raw"     -> "unreadable"
                    [] body = "output"  ->
                         IF status = "completed" THEN "none" ELSE "incomplete")
    /\ UNCHANGED <<conversation, delivered, ended, text, final, completed>>

-----------------------------------------------------------------------------
(* A stream, frame by frame.                                               *)

StreamStarts ==
    /\ pc = "asked"
    /\ pc' = "frames"
    /\ UNCHANGED <<conversation, delivered, ended, text, final, completed, fault,
                   events>>

Streaming == pc = "frames" /\ ~completed

(* The item announced and not yet ended.                                   *)
Open == Len(delivered)
InItem == ended < Open

(* output_item.added; its content is empty.                                *)
OutputItemAdded ==
    /\ Streaming /\ ~InItem /\ Open < Len(output)
    /\ delivered' = Append(delivered, 0)
    /\ UNCHANGED <<conversation, pc, ended, text, final, completed, fault,
                   events>>

OutputTextDelta ==
    /\ Streaming /\ InItem
    /\ delivered[Open] < output[Open].pieces
    /\ delivered' = [delivered EXCEPT ![Open] = @ + 1]
    /\ text' = Append(text, <<Open, delivered'[Open]>>)
    /\ UNCHANGED <<conversation, pc, ended, final, completed, fault,
                   events>>

(* output_text.done, which repeats the text of the pieces, and             *)
(* output_item.done.                                                       *)
OutputItemDone ==
    /\ Streaming /\ InItem
    /\ delivered[Open] = output[Open].pieces
    /\ text' = text \o Words(Open)
    /\ ended' = ended + 1
    /\ UNCHANGED <<conversation, pc, delivered, final, completed, fault,
                   events>>

ResponseCompleted ==
    /\ Streaming /\ ended = Len(output)
    /\ completed' = TRUE
    /\ \E f \in Finals : final' = IF f = "none" THEN "nil" ELSE f
    /\ UNCHANGED <<conversation, pc, delivered, ended, text, fault, events>>

(* Mutant: the text of the frames is used although there is an output.     *)
FinalText_OfFrames == text

(* The text of the final response; if it has none, what the frames held.   *)
(* The items of the frames stand in for a missing response, but are not of *)
(* the type the summary looks for: final is "nil", and gives nothing.      *)
FinalText == IF Text(final) # <<>> THEN Text(final) ELSE text

(* The body ends: completed, failed with a frame the summary passes by, or *)
(* broken off.                                                             *)
StreamEnds ==
    /\ pc = "frames"
    /\ Answered(ResponseEvents(FinalText, ToolCalls(final), completed),
                IF completed THEN "none" ELSE "cut")
    /\ UNCHANGED <<conversation, delivered, ended, text, final, completed>>

(* A frame that is no JSON: ResponseEvents fails, nothing is published.    *)
StreamBreaks ==
    /\ pc = "frames"
    /\ Answered(<<>>, "broken")
    /\ UNCHANGED <<conversation, delivered, ended, text, final, completed>>

(* A stream under a Content-Encoding is read as it is: no frame is found.  *)
StreamCompressed ==
    /\ pc = "asked"
    /\ Answered(ResponseEvents(<<>>, <<>>, FALSE), "compressed")
    /\ UNCHANGED <<conversation, delivered, ended, text, final, completed>>

(* The provider goes on with what it got.                                  *)
Proceed ==
    /\ pc = "answered"
    /\ pc' = "idle"
    /\ history' = history \o (IF fault \in {"cut", "broken", "unreadable"}
                              THEN <<>> ELSE Calls)
    /\ called' = called \cup Ids("tool.call", events)
    /\ UNCHANGED <<round, output, delivered, ended, text, final, completed, fault,
                   events>>

StreamNext ==
    \/ Request \/ WholeResponse \/ StreamStarts
    \/ OutputItemAdded \/ OutputTextDelta \/ OutputItemDone \/ ResponseCompleted
    \/ StreamEnds \/ StreamBreaks \/ StreamCompressed \/ Proceed

StreamSpec == StreamInit /\ [][StreamNext]_streamVars

-----------------------------------------------------------------------------
(* The text of the llm.response of this round.                             *)
Said == (CHOOSE e \in Range(events) : e.kind = "llm.response").words

(* The answer came in frames.                                              *)
Streamed == completed

(* Every message twice: the pieces, and the whole.                         *)
Doubled == FlattenSeq([i \in 1..Len(output) |-> Words(i) \o Words(i)])

(* A turn is reported done exactly when the API has said so in a body the  *)
(* adapter can read: never for a stream that broke off, and always         *)
(* otherwise, but for chat completions, compressed and broken streams.     *)
(* What is spoken then is what the model wrote, every word once and in     *)
(* order, although a stream sends each text three times; only when         *)
(* response.completed does not repeat the output, each message is said     *)
(* twice over (ResponseEvents, summarizeEventStream).                      *)
TurnIsReported ==
    pc = "answered" =>
        /\ "agent.done" \in Kinds(events) <=> fault \in {"none", "request"}
        /\ "agent.done" \in Kinds(events) =>
             Said = IF Streamed /\ final # "output" THEN Doubled ELSE AllWords

(* A function call of a response is published, if response.completed       *)
(* repeats it, and its result is in every later request that can be read   *)
(* (summarizeDecodedResponse, RequestEvents).                              *)
CallsMatchResults ==
    /\ pc \in {"asked", "frames"} /\ fault # "request" =>
           called \subseteq Ids("tool.result", events)
    /\ pc = "answered" /\ fault = "none" /\ (Streamed => final = "output") =>
           Ids("tool.call", events) = Range(Calls)
=============================================================================
