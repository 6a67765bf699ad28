--------------------------- MODULE MCGatewaySession ---------------------------
(* A small instance of GatewaySession for TLC.                             *)
EXTENDS GatewaySession, TLC

CONSTANTS x1, x2

(* Claude: a request that ends in a tool call, then one with its result    *)
(* that ends the turn.  Codex: an exchange over HTTP and a websocket.      *)
RequestKinds ==
    ("claude" :> ((x1 :> <<"llm.request", "agent.busy">>) @@
                  (x2 :> <<"llm.request", "agent.busy", "tool.result">>))) @@
    ("codex"  :> ((x1 :> <<"llm.request">>) @@ (x2 :> <<>>)))

ResponseKinds ==
    ("claude" :> ((x1 :> <<"llm.response", "tool.call", "agent.tooling">>) @@
                  (x2 :> <<"llm.response", "agent.done">>))) @@
    ("codex"  :> ((x1 :> <<"llm.response", "agent.done">>) @@
                  (x2 :> <<"llm.response", "agent.done">>)))
=============================================================================
