---------------------------- MODULE MCGatewayRuns ----------------------------
(***************************************************************************)
(* GatewayRuns on a small instance: see MCGatewayRuns.cfg.                 *)
(***************************************************************************)
EXTENDS GatewayRuns

\* One size, different from the 1 a request adds to the other counters.
MCSizes == {2}

=============================================================================
