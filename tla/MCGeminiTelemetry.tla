-------------------------- MODULE MCGeminiTelemetry --------------------------
(* A small instance of GeminiTelemetry for TLC.                            *)
EXTENDS GeminiTelemetry, TLC

CONSTANTS logs, traces, bad, stray

Record(kind, time) == [kind |-> kind, time |-> time]
Request(path, ls, ss) ==
    [method |-> "POST", path |-> path, remote |-> "loopback", logs |-> ls, spans |-> ss]

(* A prompt without a time; the log and the spans of a turn out of order;  *)
(* a batch that cannot be normalised; one from another host.               *)
Posts ==
    (logs   :> Request("/v1/logs", <<Record("user_prompt", NoTime)>>, <<>>)) @@
    (traces :> Request("/", <<Record("tool_log", 1), Record("other", 1)>>,
                 <<Record("llm_final", 2), Record("tool_span", 1),
                   Record("llm_no_text", 1), Record("llm_tool_call", 1)>>)) @@
    (bad    :> Request("/", <<Record("user_prompt", 1)>>, <<Record("llm_bad", 2)>>)) @@
    (stray  :> [Request("/", <<>>, <<Record("llm_final", 1)>>) EXCEPT !.remote = "lan"])
=============================================================================
