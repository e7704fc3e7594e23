---------------------------- MODULE MCFleetRoute ----------------------------
(***************************************************************************)
(* FleetRoute for TLC: two calls at a time on two nodes, with the agent as *)
(* it is configured, guarded, and in its older mode.                       *)
(***************************************************************************)
EXTENDS FleetRoute, TLC

MCConfigs ==
    {[guard |-> FALSE, snap |-> FALSE, block |-> FALSE, cascade |-> FALSE],
     [guard |-> TRUE,  snap |-> FALSE, block |-> FALSE, cascade |-> FALSE],
     [guard |-> FALSE, snap |-> TRUE,  block |-> TRUE,  cascade |-> TRUE]}

Symmetry == Permutations(Threads) \union Permutations(Nodes)
=============================================================================
