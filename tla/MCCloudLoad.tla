----------------------------- MODULE MCCloudLoad -----------------------------
(***************************************************************************)
(* CloudLoad for TLC: two servers, a service that outlasts several         *)
(* samples, uploads shorter and longer than the time between two samples,  *)
(* and samples that upload always, never, at an idle cloud only, and at a  *)
(* cloud that is not saturated.                                            *)
(***************************************************************************)
EXTENDS CloudLoad

Signal(outage, cold, weak, gain) ==
    [outage |-> outage, cold |-> cold, weak |-> weak, gain |-> gain]

MCSignals ==
    {Signal(TRUE, TRUE, FALSE, 9),      \* the link is down
     Signal(FALSE, TRUE, TRUE, -1),     \* no gallery yet
     Signal(FALSE, FALSE, TRUE, 9),     \* the weak-link guard
     Signal(FALSE, FALSE, FALSE, 0),    \* not worth it
     Signal(FALSE, FALSE, FALSE, 3),    \* worth a cloud with a free server
     Signal(FALSE, FALSE, FALSE, 9)}    \* worth a saturated cloud

MCEdgeMs == {1, 3}

MCNetMs == {0, 1, 5}
=============================================================================
