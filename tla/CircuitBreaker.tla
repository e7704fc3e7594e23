--------------------------- MODULE CircuitBreaker ---------------------------
(***************************************************************************)
(* The circuit breaker with the callers its lock is there for:             *)
(* SyncHandler.upload_result and mark_cloud_unavailable in                 *)
(* third_part/cloud-edge-xj/control/sync_handler.py around                 *)
(* CloudCircuitBreaker.  main.py has one caller; both classes are written  *)
(* for several threads (a lock in one, thread-local results in the other). *)
(*                                                                         *)
(* before_request reads the clock before it takes the lock, so reading and *)
(* admission are two steps.  The call to the cloud is the time between an  *)
(* admission and its outcome; the outcome is recorded under the lock.      *)
(*                                                                         *)
(* Instants are kept as ages: a variable that holds one says how many      *)
(* ticks ago it was.  Nothing depends on an age beyond MaxAge, so ages     *)
(* stop there; and a caller holds its reading for MaxLag ticks at most.    *)
(***************************************************************************)
EXTENDS Breaker, FiniteSets

CONSTANTS Callers,      \* threads that review results in the cloud
          Timeout,      \* recovery_timeout_seconds, in ticks
          NoTime,       \* the None of _opened_at
          MaxLag,       \* bound: ticks from reading the clock to having the lock
          MaxFailures   \* bound: consecutive failures counted

ASSUME CallersAssumption ==
    /\ Timeout \in Nat \ {0}
    /\ MaxLag \in Nat
    /\ MaxFailures \in Nat
    /\ NoTime \notin Nat

MaxAge == Timeout + MaxLag

Ages == 0..MaxAge

VARIABLES
    breaker,    \* _state and _consecutive_failures
    openedAt,   \* _opened_at
    now,        \* the local "now" of a caller that has read the clock
    call,       \* what a caller does, with state_before while in the cloud
    reachable,  \* external: the cloud answers
    opened      \* history: the latest failure that opened the breaker

vars == <<breaker, openedAt, now, call, reachable, opened>>

InCloud == {"closed", "half_open"}

Init ==
    /\ breaker = Closed
    /\ openedAt = NoTime
    /\ now = [c \in Callers |-> 0]
    /\ call = [c \in Callers |-> "idle"]
    /\ reachable \in BOOLEAN
    /\ opened = MaxAge

-----------------------------------------------------------------------------

\* now = monotonic(), outside the lock.
ReadClock(c) ==
    /\ call[c] = "idle"
    /\ call' = [call EXCEPT ![c] = "reading"]
    /\ UNCHANGED <<breaker, openedAt, now, reachable, opened>>

\* remaining <= 0: the caller's now is later than _opened_at by the timeout.
Elapsed(c) == openedAt - now[c] >= Timeout

\* The caller needs its now no more.
Leave(c, place) ==
    /\ call' = [call EXCEPT ![c] = place]
    /\ now' = [now EXCEPT ![c] = 0]

Admit(c) ==
    /\ call[c] = "reading"
    /\ Admits(breaker, Elapsed(c))
    /\ breaker' = Admitted(breaker)
    /\ Leave(c, breaker'.state)
    /\ UNCHANGED <<openedAt, reachable, opened>>

\* Faulty variant of OpenedAt: _opened_at is set when the breaker leaves
\* "closed", and a failed probe does not start a new recovery timeout.
OpenedAtFirst(force) ==
    IF breaker.state = "closed" /\ Opens(breaker, force) THEN 0 ELSE openedAt

\* _opened_at after a failure: monotonic() when it opens the breaker, or opens
\* it anew.
OpenedAt(force) == IF Opens(breaker, force) THEN 0 ELSE openedAt

RecordFailure(force) ==
    /\ breaker.failures < MaxFailures
    /\ breaker' = Failed(breaker, force)
    /\ openedAt' = OpenedAt(force)
    /\ opened' = IF Opens(breaker, force) THEN 0 ELSE opened

\* Faulty variant of Refuse: before_request is called inside the try block, and
\* its CircuitOpenError is recorded like a failure of the cloud.
RefuseAsFailure(c) ==
    /\ call[c] = "reading"
    /\ ~ Admits(breaker, Elapsed(c))
    /\ Leave(c, "idle")
    /\ RecordFailure(FALSE)
    /\ UNCHANGED reachable

\* CircuitOpenError: the task falls back to the edge at once.
Refuse(c) ==
    /\ call[c] = "reading"
    /\ ~ Admits(breaker, Elapsed(c))
    /\ Leave(c, "idle")
    /\ UNCHANGED <<breaker, openedAt, reachable, opened>>

Succeed(c) ==
    /\ call[c] \in InCloud
    /\ reachable
    /\ breaker' = Closed
    /\ openedAt' = NoTime
    /\ call' = [call EXCEPT ![c] = "idle"]
    /\ UNCHANGED <<now, reachable, opened>>

Fail(c) ==
    /\ call[c] \in InCloud
    /\ ~ reachable
    /\ RecordFailure(FALSE)
    /\ call' = [call EXCEPT ![c] = "idle"]
    /\ UNCHANGED <<now, reachable>>

\* mark_cloud_unavailable, when the registration of the run failed.
MarkUnavailable(c) ==
    /\ call[c] = "idle"
    /\ ~ reachable
    /\ RecordFailure(TRUE)
    /\ UNCHANGED <<now, call, reachable>>

Older(age) == IF age < MaxAge THEN age + 1 ELSE MaxAge

\* Time passes: every instant is a tick longer ago.
Tick ==
    /\ \A c \in Callers : now[c] < MaxLag
    /\ openedAt' = IF openedAt = NoTime THEN NoTime ELSE Older(openedAt)
    /\ opened' = Older(opened)
    /\ now' = [c \in Callers |-> IF call[c] = "reading" THEN now[c] + 1 ELSE now[c]]
    /\ UNCHANGED <<breaker, call, reachable>>

\* External: the connection to the cloud is lost or comes back.
Switch ==
    /\ reachable' = ~ reachable
    /\ UNCHANGED <<breaker, openedAt, now, call, opened>>

Step(c) == ReadClock(c) \/ Admit(c) \/ Refuse(c) \/ Succeed(c) \/ Fail(c)

Next ==
    \/ \E c \in Callers : Step(c) \/ MarkUnavailable(c)
    \/ Tick
    \/ Switch

(***************************************************************************)
(* Tasks keep coming, every call to the cloud ends (the client has         *)
(* connection and read timeouts), and time passes.  Neither the state of   *)
(* the connection nor mark_cloud_unavailable is under a fairness           *)
(* condition.                                                              *)
(***************************************************************************)
Fairness == WF_vars(Tick) /\ \A c \in Callers : WF_vars(Step(c))

Spec == Init /\ [][Next]_vars /\ Fairness

-----------------------------------------------------------------------------
(* Properties. *)

\* Every variable holds values of its type; an opened breaker has an _opened_at
\* to compare with, as the assert in before_request says.
TypeOK ==
    /\ breaker \in Breaker
    /\ openedAt \in Ages \union {NoTime}
    /\ openedAt = NoTime => breaker.state = "closed"
    /\ now \in [Callers -> 0..MaxLag]
    /\ call \in [Callers -> {"idle", "reading"} \union InCloud]
    /\ reachable \in BOOLEAN
    /\ opened \in Ages

\* A half-open breaker refuses everybody, so it must be waiting for a call that
\* is still under way and whose outcome will move it: the breaker cannot be
\* left half-open by late outcomes of older calls or by a forced opening.
ProbeOutstanding ==
    breaker.state = "half_open" => \E c \in Callers : call[c] = "half_open"

\* The breaker is closed only while fewer failures than the threshold were
\* counted since the last success, whatever calls admitted before an opening
\* report after it.
ClosedBelowThreshold ==
    breaker.state = "closed" => breaker.failures < Threshold

\* No caller reaches the cloud through an opened breaker before the recovery
\* timeout has passed since the latest failure that opened it: a failed probe, a
\* late outcome or a forced opening starts the timeout anew, also for a caller
\* that has read its clock before.
QuietWhileOpen ==
    [][\A c \in Callers :
          call[c] = "reading" /\ call'[c] \in InCloud
              => breaker.state = "closed" \/ opened >= Timeout]_vars

\* When the cloud stays reachable the breaker closes for good: refusals,
\* probes and late outcomes cannot keep it open.
Recovers == <>[]reachable => <>[](breaker.state = "closed")

=============================================================================
