------------------------ MODULE CircuitBreakerProofs ------------------------
(***************************************************************************)
(* Proofs about CircuitBreaker for any set of callers, any threshold and   *)
(* any bound.  The inductive invariant adds one fact to the properties the *)
(* runs check: while the breaker is not closed, _opened_at is the instant  *)
(* of the latest failure that opened it.                                   *)
(***************************************************************************)
EXTENDS CircuitBreaker, TLAPS

\* What a caller compares its reading with is the latest opening.
OpenedAtLatest == breaker.state # "closed" => openedAt = opened

IInv == TypeOK /\ ProbeOutstanding /\ ClosedBelowThreshold /\ OpenedAtLatest

-----------------------------------------------------------------------------

LEMMA ClosedBreaker ==
    /\ Closed \in Breaker
    /\ Closed.state = "closed"
    /\ Closed.failures < Threshold
  BY ThresholdAssumption DEF Closed, Breaker, BreakerState

LEMMA AgesAreNaturals ==
    /\ Ages \subseteq Nat /\ 0 \in Ages /\ MaxAge \in Ages
    /\ NoTime \notin Ages
    /\ 0 \in 0..MaxLag
  BY CallersAssumption DEF Ages, MaxAge

LEMMA InitIInv == Init => IInv
<1> SUFFICES ASSUME Init PROVE IInv
  OBVIOUS
<1>1. TypeOK
  BY ClosedBreaker, AgesAreNaturals DEF Init, TypeOK
<1>2. ProbeOutstanding /\ ClosedBelowThreshold /\ OpenedAtLatest
  BY ClosedBreaker DEF Init, ProbeOutstanding, ClosedBelowThreshold, OpenedAtLatest
<1> QED
  BY <1>1, <1>2 DEF IInv

\* What record_failure does to the breaker, by the state it finds.
LEMMA FailedState ==
    ASSUME NEW b \in Breaker, NEW force \in BOOLEAN
    PROVE  /\ Failed(b, force) \in Breaker
           /\ Failed(b, force).state # "half_open"
           /\ Failed(b, force).state = "closed" =>
                  /\ b.state = "closed"
                  /\ Failed(b, force).failures < Threshold
           /\ Failed(b, force).state = "open" /\ ~ Opens(b, force) => b.state = "open"
  BY ThresholdAssumption DEF Breaker, BreakerState, Failed, Opens

\* Recording a failure keeps the parts of the invariant that speak of the
\* breaker and the clock, whatever else the step does.
LEMMA RecordFailureKeeps ==
    ASSUME IInv, NEW force \in BOOLEAN, RecordFailure(force)
    PROVE  /\ breaker' \in Breaker
           /\ breaker'.state # "half_open"
           /\ openedAt' \in Ages \union {NoTime}
           /\ openedAt' = NoTime => breaker'.state = "closed"
           /\ opened' \in Ages
           /\ ClosedBelowThreshold'
           /\ OpenedAtLatest'
<1>1. breaker \in Breaker /\ breaker' = Failed(breaker, force)
  BY DEF IInv, TypeOK, RecordFailure
<1>2. breaker' \in Breaker /\ breaker'.state # "half_open" /\ ClosedBelowThreshold'
  BY <1>1, FailedState DEF ClosedBelowThreshold
<1>3. CASE Opens(breaker, force)
  <2>1. openedAt' = 0 /\ opened' = 0
    BY <1>3 DEF RecordFailure, OpenedAt
  <2> QED
    BY <1>2, <2>1, AgesAreNaturals DEF OpenedAtLatest
<1>4. CASE ~ Opens(breaker, force)
  <2>1. openedAt' = openedAt /\ opened' = opened
    BY <1>4 DEF RecordFailure, OpenedAt
  <2>2. breaker'.state = breaker.state
    BY <1>1, <1>4 DEF Failed
  <2> QED
    BY <1>2, <2>1, <2>2 DEF IInv, TypeOK, OpenedAtLatest
<1> QED
  BY <1>3, <1>4

LEMMA NextIInv == IInv /\ [Next]_vars => IInv'
<1> SUFFICES ASSUME IInv, [Next]_vars
             PROVE  IInv'
  OBVIOUS
<1>0. /\ breaker \in [state : BreakerState, failures : Nat]
      /\ call \in [Callers -> {"idle", "reading"} \union InCloud]
      /\ now \in [Callers -> 0..MaxLag]
      /\ openedAt \in Ages \union {NoTime} /\ opened \in Ages
      /\ openedAt = NoTime => breaker.state = "closed"
      /\ reachable \in BOOLEAN
  BY DEF IInv, TypeOK, Breaker
<1>1. ASSUME NEW c \in Callers, ReadClock(c)
      PROVE  IInv'
  <2>1. TypeOK'
    BY <1>0, <1>1 DEF ReadClock, TypeOK, Breaker
  <2>2. ProbeOutstanding'
    BY <1>0, <1>1 DEF ReadClock, ProbeOutstanding, IInv
  <2>3. ClosedBelowThreshold' /\ OpenedAtLatest'
    BY <1>0, <1>1 DEF ReadClock, ClosedBelowThreshold, OpenedAtLatest, IInv
  <2> QED
    BY <2>1, <2>2, <2>3 DEF IInv
<1>2. ASSUME NEW c \in Callers, Admit(c)
      PROVE  IInv'
  <2>1. CASE breaker.state = "closed"
    <3>1. breaker' = breaker /\ call' = [call EXCEPT ![c] = "closed"]
      BY <1>2, <2>1 DEF Admit, Leave, Admitted
    <3>2. TypeOK'
      BY <1>0, <1>2, <3>1, AgesAreNaturals DEF Admit, Leave, TypeOK, Breaker, InCloud
    <3>3. ProbeOutstanding' /\ ClosedBelowThreshold' /\ OpenedAtLatest'
      BY <1>2, <2>1, <3>1 DEF Admit, ProbeOutstanding, ClosedBelowThreshold,
                              OpenedAtLatest, IInv
    <3> QED
      BY <3>2, <3>3 DEF IInv
  <2>2. CASE breaker.state = "open"
    <3>1. /\ breaker' \in [state : BreakerState, failures : Nat]
          /\ breaker'.state = "half_open"
      BY <1>0, <1>2, <2>2 DEF Admit, Admitted, BreakerState
    <3>2. call' = [call EXCEPT ![c] = "half_open"]
      BY <1>2, <3>1 DEF Admit, Leave
    <3>3. TypeOK'
      BY <1>0, <1>2, <2>2, <3>1, <3>2, AgesAreNaturals
      DEF Admit, Leave, TypeOK, Breaker, InCloud
    <3>4. ProbeOutstanding'
      BY <1>0, <3>2 DEF ProbeOutstanding
    <3>5. ClosedBelowThreshold' /\ OpenedAtLatest'
      BY <1>2, <2>2, <3>1 DEF Admit, ClosedBelowThreshold, OpenedAtLatest, IInv
    <3> QED
      BY <3>3, <3>4, <3>5 DEF IInv
  <2> QED
    BY <1>2, <2>1, <2>2 DEF Admit, Admits
<1>3. ASSUME NEW c \in Callers, Refuse(c)
      PROVE  IInv'
  <2>1. TypeOK'
    BY <1>0, <1>3, AgesAreNaturals DEF Refuse, Leave, TypeOK, Breaker
  <2>2. ProbeOutstanding'
    BY <1>0, <1>3 DEF Refuse, Leave, ProbeOutstanding, IInv
  <2>3. ClosedBelowThreshold' /\ OpenedAtLatest'
    BY <1>0, <1>3 DEF Refuse, ClosedBelowThreshold, OpenedAtLatest, IInv
  <2> QED
    BY <2>1, <2>2, <2>3 DEF IInv
<1>4. ASSUME NEW c \in Callers, Succeed(c)
      PROVE  IInv'
  <2>1. breaker' = Closed /\ openedAt' = NoTime
    BY <1>4 DEF Succeed
  <2>2. TypeOK'
    <3>1. call' \in [Callers -> {"idle", "reading"} \union InCloud]
      BY <1>0, <1>4 DEF Succeed
    <3>2. now' = now /\ opened' = opened /\ reachable' = reachable
      BY <1>4 DEF Succeed
    <3> QED
      BY <1>0, <2>1, <3>1, <3>2, ClosedBreaker DEF TypeOK
  <2>3. ProbeOutstanding' /\ ClosedBelowThreshold' /\ OpenedAtLatest'
    BY <2>1, ClosedBreaker DEF ProbeOutstanding, ClosedBelowThreshold, OpenedAtLatest
  <2> QED
    BY <2>2, <2>3 DEF IInv
<1>5. ASSUME NEW c \in Callers, Fail(c)
      PROVE  IInv'
  <2>1. TypeOK'
    BY <1>0, <1>5, RecordFailureKeeps DEF Fail, TypeOK
  <2> QED
    BY <1>5, <2>1, RecordFailureKeeps DEF Fail, IInv, ProbeOutstanding
<1>6. ASSUME NEW c \in Callers, MarkUnavailable(c)
      PROVE  IInv'
  <2>1. TypeOK'
    BY <1>0, <1>6, RecordFailureKeeps DEF MarkUnavailable, TypeOK
  <2> QED
    BY <1>6, <2>1, RecordFailureKeeps DEF MarkUnavailable, IInv, ProbeOutstanding
<1>7. CASE Tick
  <2>1. \A age \in Ages : Older(age) \in Ages
    BY CallersAssumption DEF Older, Ages, MaxAge
  <2>2. openedAt' \in Ages \union {NoTime} /\ opened' \in Ages
    BY <1>0, <1>7, <2>1 DEF Tick
  <2>3. openedAt' = NoTime => openedAt = NoTime
    BY <1>0, <1>7, <2>1, AgesAreNaturals DEF Tick
  <2>4. now' \in [Callers -> 0..MaxLag]
    <3> SUFFICES ASSUME NEW c \in Callers
                 PROVE  (IF call[c] = "reading" THEN now[c] + 1 ELSE now[c]) \in 0..MaxLag
      BY <1>7 DEF Tick
    <3>1. now[c] \in 0..MaxLag /\ now[c] < MaxLag
      BY <1>0, <1>7 DEF Tick
    <3> QED
      BY <3>1, CallersAssumption
  <2>5. breaker' = breaker /\ call' = call /\ reachable' = reachable
    BY <1>7 DEF Tick
  <2>6. TypeOK'
    BY <1>0, <2>2, <2>3, <2>4, <2>5 DEF TypeOK, Breaker
  <2>7. OpenedAtLatest'
    BY <1>0, <1>7, <2>5, AgesAreNaturals DEF Tick, OpenedAtLatest, IInv
  <2>8. ProbeOutstanding' /\ ClosedBelowThreshold'
    BY <2>5 DEF ProbeOutstanding, ClosedBelowThreshold, IInv
  <2> QED
    BY <2>6, <2>7, <2>8 DEF IInv
<1>8. CASE Switch
  BY <1>0, <1>8 DEF Switch, IInv, TypeOK, Breaker, ProbeOutstanding,
                    ClosedBelowThreshold, OpenedAtLatest
<1>9. CASE UNCHANGED vars
  BY <1>0, <1>9 DEF vars, IInv, TypeOK, Breaker, ProbeOutstanding,
                    ClosedBelowThreshold, OpenedAtLatest
<1> QED
  BY <1>1, <1>2, <1>3, <1>4, <1>5, <1>6, <1>7, <1>8, <1>9 DEF Next, Step

THEOREM Invariance == Spec => []IInv
<1>1. Init => IInv
  BY InitIInv
<1>2. IInv /\ [Next]_vars => IInv'
  BY NextIInv
<1> QED
  BY <1>1, <1>2, PTL DEF Spec

-----------------------------------------------------------------------------

\* Every reachable state of the breaker and its callers is well typed.
THEOREM TypeCorrect == Spec => []TypeOK
<1>1. IInv => TypeOK
  BY DEF IInv
<1> QED
  BY <1>1, Invariance, PTL

\* Whenever the breaker is half-open, a probe is under way whose outcome will
\* move it: for any number of callers, no interleaving leaves it stuck there.
THEOREM ProbeAlwaysOutstanding == Spec => []ProbeOutstanding
<1>1. IInv => ProbeOutstanding
  BY DEF IInv
<1> QED
  BY <1>1, Invariance, PTL

\* A closed breaker has counted fewer failures than its threshold.
THEOREM ClosedMeansBelow == Spec => []ClosedBelowThreshold
<1>1. IInv => ClosedBelowThreshold
  BY DEF IInv
<1> QED
  BY <1>1, Invariance, PTL

\* No call starts through an opened breaker before the recovery timeout of its
\* latest opening: a reading is never later than the present, so a caller that
\* finds the timeout elapsed by its reading is not early.
THEOREM QuietUntilCooled == Spec => QuietWhileOpen
<1> DEFINE Quiet(c) ==
      call[c] = "reading" /\ call'[c] \in InCloud
          => breaker.state = "closed" \/ opened >= Timeout
<1>1. IInv /\ [Next]_vars => [\A c \in Callers : Quiet(c)]_vars
  <2> SUFFICES ASSUME IInv, Next, NEW c \in Callers,
                      call[c] = "reading", call'[c] \in InCloud
               PROVE  breaker.state = "closed" \/ opened >= Timeout
    BY DEF Quiet
  <2>0. call \in [Callers -> {"idle", "reading"} \union InCloud]
    BY DEF IInv, TypeOK
  <2>1. ASSUME NEW d \in Callers, Admit(d), breaker.state = "open"
        PROVE  opened >= Timeout
    <3>1. Elapsed(d)
      BY <2>1 DEF Admit, Admits
    <3>2. openedAt = opened
      BY <2>1 DEF OpenedAtLatest, IInv
    <3>3. opened \in Nat /\ now[d] \in Nat /\ Timeout \in Nat
      BY AgesAreNaturals, CallersAssumption DEF IInv, TypeOK
    <3> QED
      BY <3>1, <3>2, <3>3 DEF Elapsed
  <2>2. ASSUME NEW d \in Callers,
               ReadClock(d) \/ Refuse(d) \/ Succeed(d) \/ Fail(d) \/ MarkUnavailable(d)
        PROVE  FALSE
    BY <2>0, <2>2 DEF ReadClock, Refuse, Leave, Succeed, Fail, MarkUnavailable, InCloud
  <2>3. ASSUME Tick \/ Switch
        PROVE  FALSE
    BY <2>3 DEF Tick, Switch, InCloud
  <2>4. ASSUME NEW d \in Callers, Admit(d)
        PROVE  breaker.state \in {"open", "closed"}
    BY <2>4 DEF Admit, Admits
  <2> QED
    BY <2>1, <2>2, <2>3, <2>4 DEF Next, Step
<1>2. Spec => [][\A c \in Callers : Quiet(c)]_vars
  BY <1>1, Invariance, PTL DEF Spec
<1> QED
  BY <1>2 DEF QuietWhileOpen

=============================================================================
