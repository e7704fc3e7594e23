------------------------------- MODULE Breaker -------------------------------
(***************************************************************************)
(* The state of a circuit breaker and what its methods make of it:         *)
(* CloudCircuitBreaker in third_part/cloud-edge-xj/control/                *)
(* circuit_breaker.py, enabled.  No variables: CircuitBreaker drives these *)
(* operators with many callers, EdgeSession with the one main.py has.      *)
(*                                                                         *)
(* Whether the recovery timeout has elapsed is for the module with the     *)
(* clock to say.  The text of the last error is left out.                  *)
(***************************************************************************)
EXTENDS Naturals

CONSTANT Threshold     \* failure_threshold

\* The constructor takes max(1, failure_threshold).
ASSUME ThresholdAssumption == Threshold \in Nat \ {0}

BreakerState == {"closed", "open", "half_open"}

Breaker == [state : BreakerState, failures : Nat]

Closed == [state |-> "closed", failures |-> 0]

\* before_request lets the caller through; elapsed is what the caller's
\* reading of the clock says about the recovery timeout.
Admits(b, elapsed) == b.state = "closed" \/ (b.state = "open" /\ elapsed)

\* Faulty variant of Admitted: the state stays "open" during the probe.
AdmittedUnmarked(b) == b

\* The first caller after the timeout becomes the probe.
Admitted(b) ==
    IF b.state = "open" THEN [b EXCEPT !.state = "half_open"] ELSE b

\* Faulty variant of Opens: a failed probe is treated as any other failure.
OpensAtThreshold(b, force) == force \/ b.failures + 1 >= Threshold

\* Faulty variant of Opens: off by one at the threshold.
OpensAboveThreshold(b, force) ==
    force \/ b.state = "half_open" \/ b.failures + 1 > Threshold

\* record_failure opens the breaker, or opens it anew.
Opens(b, force) ==
    force \/ b.state = "half_open" \/ b.failures + 1 >= Threshold

Failed(b, force) ==
    [state |-> IF Opens(b, force) THEN "open" ELSE b.state,
     failures |-> b.failures + 1]

=============================================================================
