---------------------------- MODULE MCLiveMonitor ----------------------------
(***************************************************************************)
(* LiveMonitor on small instances: MCLiveMonitor.cfg for the properties    *)
(* that hold, LiveTwoLoops.cfg and LiveLockedOut.cfg for the two that do   *)
(* not.  One tab with two calls under way is enough for a double click, a  *)
(* stale poll, and a start and a stop at the same time.                    *)
(***************************************************************************)
EXTENDS LiveMonitor

=============================================================================
