--------------------------- MODULE MCEventPipeline ---------------------------
(* Small instances of EventPipeline for TLC.  With two clock units to the  *)
(* second, an even time is an exact second.                                *)
EXTENDS EventPipeline

Event(kind, req, turn, text, at) ==
    [kind |-> kind, req |-> req, turn |-> turn, text |-> text, at |-> at]

(* One request per turn, as Claude and Codex over HTTP have it: two        *)
(* responses with text and the end of the turn; then a turn with two       *)
(* responses within one second.                                            *)
TurnsScript == <<
    Event("llm.response", "r1", 1, 1, 1),
    Event("llm.response", "r1", 1, 2, 2),
    Event("agent.done",   "r1", 1, 0, 2),
    Event("llm.response", "r2", 2, 3, 4),
    Event("llm.response", "r2", 2, 4, 5),
    Event("agent.done",   "r2", 2, 0, 5) >>

(* Codex, two responses over one websocket: the RequestID is that of the   *)
(* connection (CodexSession).                                              *)
WebsocketScript == <<
    Event("llm.response", "c1", 1, 1, 1),
    Event("agent.done",   "c1", 1, 0, 1),
    Event("llm.request",  "c1", 2, 0, 3),
    Event("llm.response", "c1", 2, 2, 5),
    Event("agent.done",   "c1", 2, 0, 5) >>
=============================================================================
