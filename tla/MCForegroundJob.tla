--------------------------- MODULE MCForegroundJob ---------------------------
(* Two members: one may exit, stop or be killed while the other runs.        *)
EXTENDS ForegroundJob

\* A split pipeline with pipefail, and a negated converged command.
MCOptions == {[pipefail |-> TRUE, inverted |-> FALSE, converged |-> FALSE],
              [pipefail |-> FALSE, inverted |-> TRUE, converged |-> TRUE]}
=============================================================================
