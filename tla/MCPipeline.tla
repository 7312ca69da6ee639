----------------------------- MODULE MCPipeline -----------------------------
(* Pipelines of three stages for TLC, the middle one a host process with   *)
(* copiers on both of its sides.                                           *)
EXTENDS Pipeline, TLC

\* The code asks of a status only whether it is 0.
MCStatuses == {0, 1}

MCExternal == {2}

MCModes ==
  {[pipefail |-> TRUE, negated |-> FALSE], [pipefail |-> FALSE, negated |-> TRUE]}

=============================================================================
