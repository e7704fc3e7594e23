----------------------- MODULE MCConflictArbitration -----------------------
(***************************************************************************)
(* ConflictArbitration for TLC: four nodes, which may split evenly, scores *)
(* on both sides of the threshold and on it, and links and confidences on  *)
(* both sides of every test.  With ConflictWeight = 4, a sample of gain -2 *)
(* is worth an upload if and only if the nodes split evenly.               *)
(***************************************************************************)
EXTENDS ConflictArbitration

MCSignals ==
    [outage : {FALSE}, cold : {FALSE}, weak : BOOLEAN, forced : BOOLEAN, gain : {-2, 1}]
        \union [outage : {TRUE}, cold : {FALSE}, weak : {FALSE}, forced : {FALSE}, gain : {1}]
        \union [outage : {FALSE}, cold : {TRUE}, weak : {TRUE}, forced : {FALSE}, gain : {-2}]
=============================================================================
