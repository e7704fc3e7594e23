--------------------------- MODULE MCEdgeDecision ---------------------------
(***************************************************************************)
(* EdgeDecision for TLC: three nodes, so that there are majorities, and    *)
(* two confidences, so that there are ties; in a single-edge session and   *)
(* with a failed node, two images follow each other.                       *)
(***************************************************************************)
EXTENDS EdgeDecision

MCNodes == 1..3

MCConfidences == {1, 2}
=============================================================================
