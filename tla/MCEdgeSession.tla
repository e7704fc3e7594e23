---------------------------- MODULE MCEdgeSession ----------------------------
(***************************************************************************)
(* EdgeSession on small instances: MCEdgeSession.cfg for the properties    *)
(* that hold, StaleMetrics.cfg for the one that does not.                  *)
(***************************************************************************)
EXTENDS EdgeSession

=============================================================================
