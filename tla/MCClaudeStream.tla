----------------------------- MODULE MCClaudeStream -----------------------------
(* Small instances of ClaudeStream for TLC.                                *)
EXTENDS ClaudeStream

(* None, one, two, one that is passed by and one that is not known.        *)
Headers == {<<>>, <<"gzip">>, <<"deflate", "br">>, <<"identity", "br">>,
            <<"zstd">>, <<"gzip", "zstd">>}
=============================================================================
