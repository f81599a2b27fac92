----------------------------- MODULE MCPipeline -----------------------------
(***************************************************************************)
(* Small instances of Pipeline for TLC.                                    *)
(***************************************************************************)
EXTENDS Pipeline, TLC

CONSTANTS r1, r2, w1, w2

\* Two clients.  The first sends one key twice around a line that does not parse;
\* the second sends a value of that key too.  Both keys are of internal metrics.
MixedLines == 1 .. 5
MixedValid == MixedLines \ {2}
MixedKey == <<"count", "bad", "count", "alloc", "count">>
MixedScript == (r1 :> <<1, 2, 3>>) @@ (r2 :> <<4, 5>>)

\* One client that sends two values of one key; then another key.
OneClientLines == 1 .. 3
OneClientKey == <<"a", "a", "b">>
OneClientScript == r1 :> <<1, 2, 3>>

OneReader == {r1}
TwoReaders == {r1, r2}
OneWorker == {w1}
TwoWorkers == {w1, w2}
=============================================================================
