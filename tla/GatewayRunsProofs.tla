-------------------------- MODULE GatewayRunsProofs --------------------------
(***************************************************************************)
(* Proofs about GatewayRuns: type correctness, the inductive invariant     *)
(* behind the safety invariants that MCGatewayRuns checks, and the         *)
(* refinement of RunLedger.                                                *)
(***************************************************************************)
EXTENDS GatewayRuns, FiniteSetTheorems, TLAPS

USE GatewayAssumption

(***************************************************************************)
(* The inductive invariant.  TypeOK is not inductive alone: in_flight - 1  *)
(* is a natural number only because in_flight counts the threads inside a  *)
(* request, and one of them is the thread that leaves.                     *)
(***************************************************************************)
Finishing == {"draining", "sampling"}

\* At most one thread finishes a run, and the run is closed meanwhile.
SoleFinisher ==
    /\ \A t \in Threads : pc[t] \in Finishing => runs[run[t]].status = "finishing"
    /\ \A t, u \in Threads :
          pc[t] \in Finishing /\ pc[u] \in Finishing /\ run[t] = run[u] => t = u

\* What the finisher copied is final: nothing was in flight any more.
CopyIsFinal ==
    \A t \in Threads : pc[t] = "sampling" =>
        /\ runs[run[t]].in_flight = 0
        /\ copied[t] = Totals(runs[run[t]])

\* An unknown run has no counts, an unfinished one no metrics, and a finished
\* one its final counts as metrics.
RecordShape ==
    \A r \in RunIds :
        /\ runs[r].status = "absent" => runs[r] = NoRun
        /\ runs[r].status # "finished" => runs[r].finished_metrics = Zero
        /\ runs[r].status = "finished" =>
              /\ runs[r].in_flight = 0
              /\ runs[r].finished_metrics = Totals(runs[r])

IInv ==
    /\ TypeOK
    /\ InFlightExact
    /\ Balanced
    /\ SoleFinisher
    /\ CopyIsFinal
    /\ RecordShape
    /\ ReportsAgree

-----------------------------------------------------------------------------
(* Facts about the data. *)

LEMMA NoCallType == NoCall \in RunIds
  BY DEF NoCall

LEMMA RecordTypes ==
    /\ Zero \in Counters
    /\ NoRun \in Run
    /\ FreshRun \in Run
    /\ \A record \in Run : Totals(record) \in Counters
  BY DEF Zero, Counters, NoRun, FreshRun, Run, Status, Totals

LEMMA InspectingFinite ==
    \A r \in RunIds : IsFiniteSet(Inspecting(r)) /\ Cardinality(Inspecting(r)) \in Nat
<1> TAKE r \in RunIds
<1>1. Inspecting(r) \subseteq Threads
  BY DEF Inspecting
<1> QED
  BY <1>1, FS_Subset, FS_CardinalityType

\* A step in which no thread enters or leaves an accepted request.
LEMMA InspectingSame ==
    ASSUME \A t \in Threads : (pc[t] = "inspecting") <=> (pc'[t] = "inspecting"),
           \A t \in Threads : pc[t] = "inspecting" => run'[t] = run[t]
    PROVE  \A r \in RunIds : Inspecting(r)' = Inspecting(r)
  BY DEF Inspecting

\* A thread that enters a request of run r is one more inside r.
LEMMA InspectingEnter ==
    ASSUME TypeOK, NEW t \in Threads, NEW r \in RunIds, NEW n \in Sizes,
           BeginRequest(t, r, n)
    PROVE  \A q \in RunIds :
               Cardinality(Inspecting(q)') =
                   Cardinality(Inspecting(q)) + (IF q = r THEN 1 ELSE 0)
<1> TAKE q \in RunIds
<1>1. CASE q = r
  <2>1. Inspecting(q)' = Inspecting(q) \union {t} /\ t \notin Inspecting(q)
    BY <1>1 DEF Inspecting, BeginRequest, TypeOK
  <2> QED
    BY <1>1, <2>1, InspectingFinite, FS_AddElement
<1>2. CASE q # r
  <2>1. Inspecting(q)' = Inspecting(q)
    BY <1>2 DEF Inspecting, BeginRequest, TypeOK
  <2> QED
    BY <1>2, <2>1, InspectingFinite
<1> QED
  BY <1>1, <1>2

\* A thread that leaves a request of run r was one of those inside r.
LEMMA InspectingLeave ==
    ASSUME TypeOK, NEW t \in Threads, NEW s \in BOOLEAN, FinishRequest(t, s)
    PROVE  /\ Cardinality(Inspecting(run[t])) > 0
           /\ \A q \in RunIds :
                 Cardinality(Inspecting(q)') =
                     Cardinality(Inspecting(q)) - (IF q = run[t] THEN 1 ELSE 0)
<1>1. t \in Inspecting(run[t]) /\ run[t] \in RunIds
  BY DEF Inspecting, FinishRequest, TypeOK
<1>2. Cardinality(Inspecting(run[t])) > 0
  BY <1>1, InspectingFinite, FS_EmptySet
<1>3. ASSUME NEW q \in RunIds
      PROVE  Cardinality(Inspecting(q)') =
                 Cardinality(Inspecting(q)) - (IF q = run[t] THEN 1 ELSE 0)
  <2>1. CASE q = run[t]
    <3>1. Inspecting(q)' = Inspecting(q) \ {t}
      BY <2>1 DEF Inspecting, FinishRequest, Return, TypeOK
    <3> QED
      BY <1>1, <2>1, <3>1, InspectingFinite, FS_RemoveElement
  <2>2. CASE q # run[t]
    <3>1. Inspecting(q)' = Inspecting(q)
      BY <2>2 DEF Inspecting, FinishRequest, Return, TypeOK
    <3> QED
      BY <2>2, <3>1, InspectingFinite
  <2> QED
    BY <2>1, <2>2
<1> QED
  BY <1>2, <1>3

-----------------------------------------------------------------------------
(* Type correctness of a step. *)

LEMMA TypeStep == TypeOK /\ InFlightExact /\ [Next]_vars => TypeOK'
<1> SUFFICES ASSUME TypeOK, InFlightExact, [Next]_vars PROVE TypeOK'
  OBVIOUS
<1> USE NoCallType, RecordTypes DEF TypeOK
<1>1. ASSUME NEW t \in Threads, Register(t) PROVE TypeOK'
  BY <1>1 DEF Register, Return, Pc
<1>2. ASSUME NEW t \in Threads, Drained(t) PROVE TypeOK'
  <2>1. Totals(runs[run[t]]) \in Counters
    OBVIOUS
  <2> QED
    BY <1>2, <2>1 DEF Drained, DrainOrCopy, Pc
<1>3. ASSUME NEW t \in Threads, Publish(t) PROVE TypeOK'
  <2>1. runs' \in [RunIds -> Run]
    BY <1>3 DEF Publish, Run, Status
  <2> QED
    BY <1>3, <2>1 DEF Publish, Return, Pc
<1>4. ASSUME NEW t \in Threads, Awaited(t) PROVE TypeOK'
  <2>1. runs[run[t]].finished_metrics \in Counters
    BY DEF Run
  <2> QED
    BY <1>4, <2>1 DEF Awaited, Return, Pc
<1>5. ASSUME NEW t \in Threads, NEW s \in BOOLEAN, FinishRequest(t, s) PROVE TypeOK'
  <2>1. runs[run[t]].in_flight \in Nat \ {0}
    BY <1>5, InspectingLeave DEF InFlightExact, Run
  <2>2. runs' \in [RunIds -> Run]
    BY <1>5, <2>1 DEF FinishRequest, Run
  <2> QED
    BY <1>5, <2>2 DEF FinishRequest, Return, Pc
<1>6. ASSUME NEW t \in Threads, NEW r \in RunIds, StartUnknown(t, r) PROVE TypeOK'
  BY <1>6 DEF StartUnknown, Pc
<1>7. ASSUME NEW t \in Threads, NEW r \in RunIds, ReplayFinished(t, r) PROVE TypeOK'
  BY <1>7 DEF ReplayFinished, Run
<1>8. ASSUME NEW t \in Threads, NEW r \in RunIds, FinishActive(t, r) PROVE TypeOK'
  <2>1. runs' \in [RunIds -> Run] /\ Totals(runs[r]) \in Counters
    BY <1>8 DEF FinishActive, Run, Status
  <2> QED
    BY <1>8, <2>1 DEF FinishActive, DrainOrCopy, Pc
<1>9. ASSUME NEW t \in Threads, NEW r \in RunIds, FinishFinishing(t, r) PROVE TypeOK'
  BY <1>9 DEF FinishFinishing, Pc
<1>10. ASSUME NEW t \in Threads, NEW r \in RunIds, NEW n \in Sizes, BeginRequest(t, r, n)
       PROVE TypeOK'
  <2>1. runs' \in [RunIds -> Run]
    BY <1>10 DEF BeginRequest, Run
  <2> QED
    BY <1>10, <2>1 DEF BeginRequest, Pc
<1>11. CASE Restart
  BY <1>11 DEF Restart, Pc
<1>12. CASE UNCHANGED vars
  BY <1>12 DEF vars
<1> QED
  BY <1>1, <1>2, <1>3, <1>4, <1>5, <1>6, <1>7, <1>8, <1>9, <1>10, <1>11, <1>12
  DEF Next, Step, Call

-----------------------------------------------------------------------------
(* The inductive invariant. *)

LEMMA InitIInv == Init => IInv
<1> SUFFICES ASSUME Init PROVE IInv
  OBVIOUS
<1>1. TypeOK
  BY NoCallType, RecordTypes DEF Init, TypeOK, Pc
<1>2. InFlightExact
  <2>1. \A r \in RunIds : Inspecting(r) = {}
    BY DEF Init, Inspecting
  <2> QED
    BY <2>1, FS_EmptySet DEF Init, InFlightExact, NoRun
<1>3. Balanced /\ SoleFinisher /\ CopyIsFinal /\ RecordShape /\ ReportsAgree
  BY DEF Init, Balanced, SoleFinisher, Finishing, CopyIsFinal, RecordShape, ReportsAgree,
         NoRun
<1> QED
  BY <1>1, <1>2, <1>3 DEF IInv

\* Nothing but BeginRequest, FinishRequest and Restart changes who inspects
\* or what is in flight, so the exact count carries over.
LEMMA InFlightSame ==
    ASSUME TypeOK, InFlightExact,
           \A t \in Threads : (pc[t] = "inspecting") <=> (pc'[t] = "inspecting"),
           \A t \in Threads : pc[t] = "inspecting" => run'[t] = run[t],
           \A r \in RunIds : runs'[r].in_flight = runs[r].in_flight
    PROVE  InFlightExact'
  BY InspectingSame DEF InFlightExact

LEMMA NextIInv == IInv /\ [Next]_vars => IInv'
<1> SUFFICES ASSUME IInv, [Next]_vars PROVE IInv'
  OBVIOUS
<1> USE DEF IInv
<1>0. TypeOK'
  BY TypeStep
<1>1. ASSUME NEW t \in Threads, Register(t) PROVE IInv'
  <2> USE <1>1 DEF Register, Return, TypeOK
  <2>1. InFlightExact'
    <3>1. \A r \in RunIds : runs'[r].in_flight = runs[r].in_flight
      BY DEF RecordShape, FreshRun, NoRun
    <3> QED
      BY <3>1, InFlightSame
  <2>2. Balanced'
    BY DEF Balanced, FreshRun, NoRun
  <2>3. SoleFinisher' /\ CopyIsFinal'
    BY DEF SoleFinisher, CopyIsFinal, Finishing
  <2>4. RecordShape' /\ ReportsAgree'
    BY DEF RecordShape, ReportsAgree, FreshRun, NoRun
  <2> QED
    BY <1>0, <2>1, <2>2, <2>3, <2>4
<1>2. ASSUME NEW t \in Threads, Drained(t) PROVE IInv'
  <2> USE <1>2 DEF Drained, DrainOrCopy, TypeOK
  <2>1. InFlightExact'
    BY InFlightSame
  <2>2. Balanced' /\ RecordShape' /\ ReportsAgree'
    BY DEF Balanced, RecordShape, ReportsAgree
  <2>3. SoleFinisher'
    BY DEF SoleFinisher, Finishing
  <2>4. CopyIsFinal'
    BY DEF CopyIsFinal
  <2> QED
    BY <1>0, <2>1, <2>2, <2>3, <2>4
<1>3. ASSUME NEW t \in Threads, Publish(t) PROVE IInv'
  <2> USE <1>3 DEF Publish, Return, TypeOK
  <2>1. /\ runs[run[t]] \in Run
        /\ runs[run[t]].status = "finishing"
        /\ runs[run[t]].in_flight = 0
        /\ copied[t] = Totals(runs[run[t]])
    BY DEF SoleFinisher, CopyIsFinal, Finishing
  <2>2. /\ \A r \in RunIds : r # run[t] => runs'[r] = runs[r]
        /\ runs'[run[t]] = [runs[run[t]] EXCEPT !.status = "finished",
                                                !.finished_metrics = copied[t]]
        /\ Totals(runs'[run[t]]) = Totals(runs[run[t]])
    BY DEF Run, Totals
  <2>3. InFlightExact'
    <3>1. \A r \in RunIds : runs'[r].in_flight = runs[r].in_flight
      BY <2>1, <2>2 DEF Run
    <3> QED
      BY <3>1, InFlightSame
  <2>4. Balanced'
    BY DEF Balanced, Run
  <2>5. SoleFinisher' /\ CopyIsFinal'
    BY <2>2 DEF SoleFinisher, CopyIsFinal, Finishing
  <2>6. RecordShape'
    <3>1. /\ runs'[run[t]].status = "finished"
          /\ runs'[run[t]].in_flight = 0
          /\ runs'[run[t]].finished_metrics = Totals(runs'[run[t]])
      BY <2>1, <2>2 DEF Run
    <3> HIDE DEF Publish, Return, TypeOK
    <3> QED
      BY <2>2, <3>1 DEF RecordShape
  <2>7. ReportsAgree'
    BY <2>1, <2>2 DEF ReportsAgree, Run
  <2> QED
    BY <1>0, <2>3, <2>4, <2>5, <2>6, <2>7
<1>4. ASSUME NEW t \in Threads, Awaited(t) PROVE IInv'
  <2> USE <1>4 DEF Awaited, Return, TypeOK
  <2>1. InFlightExact'
    BY InFlightSame
  <2>2. Balanced' /\ RecordShape'
    BY DEF Balanced, RecordShape
  <2>3. SoleFinisher' /\ CopyIsFinal'
    BY DEF SoleFinisher, CopyIsFinal, Finishing
  <2>4. ReportsAgree'
    BY DEF ReportsAgree
  <2> QED
    BY <1>0, <2>1, <2>2, <2>3, <2>4
<1>5. ASSUME NEW t \in Threads, NEW s \in BOOLEAN, FinishRequest(t, s) PROVE IInv'
  <2> USE <1>5 DEF FinishRequest, Return, TypeOK
  <2>1. runs[run[t]] \in Run /\ runs[run[t]].in_flight > 0
    BY InspectingLeave DEF InFlightExact
  <2>2. /\ \A r \in RunIds : r # run[t] => runs'[r] = runs[r]
        /\ runs'[run[t]].in_flight = runs[run[t]].in_flight - 1
        /\ runs'[run[t]].requests = runs[run[t]].requests
        /\ runs'[run[t]].succeeded = runs[run[t]].succeeded + (IF s THEN 1 ELSE 0)
        /\ runs'[run[t]].failed = runs[run[t]].failed + (IF s THEN 0 ELSE 1)
        /\ runs'[run[t]].status = runs[run[t]].status
        /\ runs'[run[t]].finished_metrics = runs[run[t]].finished_metrics
    BY <2>1 DEF Run
  <2>3. runs[run[t]].status \in {"active", "finishing"}
    BY <2>1 DEF RecordShape, NoRun, Run, Status
  <2>4. InFlightExact'
    <3> SUFFICES ASSUME NEW q \in RunIds
                 PROVE  runs'[q].in_flight = Cardinality(Inspecting(q)')
      BY DEF InFlightExact
    <3>1. runs[q] \in Run /\ runs[q].in_flight = Cardinality(Inspecting(q))
      BY DEF InFlightExact
    <3>2. Cardinality(Inspecting(q)') = Cardinality(Inspecting(q)) - (IF q = run[t] THEN 1 ELSE 0)
      BY InspectingLeave
    <3>3. runs[q].in_flight \in Nat
      BY <3>1 DEF Run
    <3> HIDE DEF IInv, FinishRequest, Return, TypeOK
    <3>4. CASE q = run[t]
      BY <2>2, <3>1, <3>2, <3>3, <3>4
    <3>5. CASE ~(q = run[t])
      BY <2>2, <3>1, <3>2, <3>3, <3>5
    <3> QED
      BY <3>4, <3>5
  <2>5. Balanced'
    <3> SUFFICES ASSUME NEW q \in RunIds
                 PROVE  runs'[q].requests =
                            runs'[q].succeeded + runs'[q].failed + runs'[q].in_flight
      BY DEF Balanced
    <3>1. /\ runs[q] \in Run
          /\ runs[q].requests = runs[q].succeeded + runs[q].failed + runs[q].in_flight
      BY DEF Balanced
    <3> HIDE DEF FinishRequest, Return, TypeOK
    <3>2. CASE q = run[t]
      BY <2>2, <3>1, <3>2 DEF Run
    <3> QED
      BY <2>2, <3>1, <3>2
  <2>6. SoleFinisher'
    <3>1. \A r \in RunIds : runs'[r].status = runs[r].status
      BY <2>2
    <3>2. \A u \in Threads : pc'[u] \in Finishing =>
              pc[u] \in Finishing /\ run'[u] = run[u]
      BY DEF Finishing
    <3>3. \A u \in Threads : run[u] \in RunIds
      OBVIOUS
    <3> HIDE DEF FinishRequest, Return, TypeOK
    <3> QED
      BY <3>1, <3>2, <3>3 DEF SoleFinisher
  <2>7. CopyIsFinal'
    <3> SUFFICES ASSUME NEW u \in Threads, pc'[u] = "sampling"
                 PROVE  /\ runs'[run'[u]].in_flight = 0
                        /\ copied'[u] = Totals(runs'[run'[u]])
      BY DEF CopyIsFinal
    <3>1. pc[u] = "sampling" /\ run'[u] = run[u] /\ copied'[u] = copied[u] /\ run[u] \in RunIds
      OBVIOUS
    <3>2. runs[run[u]].in_flight = 0 /\ copied[u] = Totals(runs[run[u]])
      BY <3>1 DEF CopyIsFinal
    <3> HIDE DEF FinishRequest, Return, TypeOK
    <3>3. run[u] # run[t]
      BY <2>1, <3>2
    <3>4. runs'[run[u]] = runs[run[u]]
      BY <2>2, <3>1, <3>3
    <3> QED
      BY <3>1, <3>2, <3>4
  <2>8. RecordShape'
    <3> SUFFICES ASSUME NEW q \in RunIds
                 PROVE  /\ runs'[q].status = "absent" => runs'[q] = NoRun
                        /\ runs'[q].status # "finished" => runs'[q].finished_metrics = Zero
                        /\ runs'[q].status = "finished" =>
                              /\ runs'[q].in_flight = 0
                              /\ runs'[q].finished_metrics = Totals(runs'[q])
      BY DEF RecordShape
    <3> HIDE DEF FinishRequest, Return, TypeOK
    <3>1. CASE q = run[t]
      BY <2>2, <2>3, <3>1 DEF RecordShape
    <3>2. CASE q # run[t]
      BY <2>2, <3>2 DEF RecordShape
    <3> QED
      BY <3>1, <3>2
  <2>9. ReportsAgree'
    <3>1. reports' = reports /\ run[t] \in RunIds
      OBVIOUS
    <3> HIDE DEF FinishRequest, Return, TypeOK
    <3> QED
      BY <2>2, <3>1 DEF ReportsAgree
  <2> QED
    BY <1>0, <2>4, <2>5, <2>6, <2>7, <2>8, <2>9
<1>6. ASSUME NEW t \in Threads, NEW r \in RunIds, StartUnknown(t, r) PROVE IInv'
  <2> USE <1>6 DEF StartUnknown, TypeOK
  <2>1. InFlightExact'
    BY InFlightSame
  <2>2. Balanced' /\ RecordShape' /\ ReportsAgree'
    BY DEF Balanced, RecordShape, ReportsAgree
  <2>3. SoleFinisher' /\ CopyIsFinal'
    BY DEF SoleFinisher, CopyIsFinal, Finishing
  <2> QED
    BY <1>0, <2>1, <2>2, <2>3
<1>7. ASSUME NEW t \in Threads, NEW r \in RunIds, ReplayFinished(t, r) PROVE IInv'
  <2> USE <1>7 DEF ReplayFinished, TypeOK
  <2>1. InFlightExact'
    BY InFlightSame
  <2>2. Balanced' /\ RecordShape' /\ SoleFinisher' /\ CopyIsFinal'
    BY DEF Balanced, RecordShape, SoleFinisher, CopyIsFinal
  <2>3. ReportsAgree'
    BY DEF ReportsAgree
  <2> QED
    BY <1>0, <2>1, <2>2, <2>3
<1>8. ASSUME NEW t \in Threads, NEW r \in RunIds, FinishActive(t, r) PROVE IInv'
  <2> USE <1>8 DEF FinishActive, DrainOrCopy, TypeOK
  <2>1. /\ \A q \in RunIds : q # r => runs'[q] = runs[q]
        /\ runs'[r] = [runs[r] EXCEPT !.status = "finishing"]
        /\ runs'[r].status = "finishing"
        /\ runs'[r].in_flight = runs[r].in_flight
        /\ Totals(runs'[r]) = Totals(runs[r])
        /\ runs'[r].finished_metrics = runs[r].finished_metrics
    BY DEF Run, Totals
  <2>2. InFlightExact'
    BY <2>1, InFlightSame
  <2>3. Balanced'
    BY DEF Balanced, Run
  <2>4. SoleFinisher'
    BY <2>1 DEF SoleFinisher, Finishing
  <2>5. CopyIsFinal'
    BY <2>1 DEF CopyIsFinal, SoleFinisher, Finishing
  <2>6. RecordShape' /\ ReportsAgree'
    BY <2>1 DEF RecordShape, ReportsAgree
  <2> QED
    BY <1>0, <2>2, <2>3, <2>4, <2>5, <2>6
<1>9. ASSUME NEW t \in Threads, NEW r \in RunIds, FinishFinishing(t, r) PROVE IInv'
  <2> USE <1>9 DEF FinishFinishing, TypeOK
  <2>1. InFlightExact'
    BY InFlightSame
  <2>2. Balanced' /\ RecordShape' /\ ReportsAgree'
    BY DEF Balanced, RecordShape, ReportsAgree
  <2>3. SoleFinisher' /\ CopyIsFinal'
    BY DEF SoleFinisher, CopyIsFinal, Finishing
  <2> QED
    BY <1>0, <2>1, <2>2, <2>3
<1>10. ASSUME NEW t \in Threads, NEW r \in RunIds, NEW n \in Sizes, BeginRequest(t, r, n)
       PROVE IInv'
  <2> USE <1>10 DEF BeginRequest, Refuses, TypeOK
  <2>1. runs[r] \in Run /\ runs[r].status = "active"
    OBVIOUS
  <2>2. /\ \A q \in RunIds : q # r => runs'[q] = runs[q]
        /\ runs'[r].in_flight = runs[r].in_flight + 1
        /\ runs'[r].requests = runs[r].requests + 1
        /\ runs'[r].succeeded = runs[r].succeeded
        /\ runs'[r].failed = runs[r].failed
        /\ runs'[r].status = "active"
        /\ runs'[r].finished_metrics = runs[r].finished_metrics
    BY <2>1 DEF Run
  <2>3. InFlightExact'
    <3> SUFFICES ASSUME NEW q \in RunIds
                 PROVE  runs'[q].in_flight = Cardinality(Inspecting(q)')
      BY DEF InFlightExact
    <3>1. runs[q] \in Run /\ runs[q].in_flight = Cardinality(Inspecting(q))
      BY DEF InFlightExact
    <3>2. Cardinality(Inspecting(q)') = Cardinality(Inspecting(q)) + (IF q = r THEN 1 ELSE 0)
      BY InspectingEnter
    <3>3. runs[q].in_flight \in Nat
      BY <3>1 DEF Run
    <3> HIDE DEF IInv, BeginRequest, Refuses, TypeOK
    <3>4. CASE q = r
      BY <2>2, <3>1, <3>2, <3>3, <3>4
    <3>5. CASE ~(q = r)
      BY <2>2, <3>1, <3>2, <3>3, <3>5
    <3> QED
      BY <3>4, <3>5
  <2>4. Balanced'
    <3> SUFFICES ASSUME NEW q \in RunIds
                 PROVE  runs'[q].requests =
                            runs'[q].succeeded + runs'[q].failed + runs'[q].in_flight
      BY DEF Balanced
    <3>1. /\ runs[q] \in Run
          /\ runs[q].requests = runs[q].succeeded + runs[q].failed + runs[q].in_flight
      BY DEF Balanced
    <3> HIDE DEF BeginRequest, Refuses, TypeOK
    <3>2. CASE q = r
      BY <2>2, <3>1, <3>2 DEF Run
    <3> QED
      BY <2>2, <3>1, <3>2
  <2>5. SoleFinisher'
    BY <2>1, <2>2 DEF SoleFinisher, Finishing
  <2>6. CopyIsFinal'
    <3> SUFFICES ASSUME NEW u \in Threads, pc'[u] = "sampling"
                 PROVE  /\ runs'[run'[u]].in_flight = 0
                        /\ copied'[u] = Totals(runs'[run'[u]])
      BY DEF CopyIsFinal
    <3>1. pc[u] = "sampling" /\ run'[u] = run[u] /\ copied'[u] = copied[u] /\ run[u] \in RunIds
      OBVIOUS
    <3>2. /\ runs[run[u]].in_flight = 0 /\ copied[u] = Totals(runs[run[u]])
          /\ runs[run[u]].status = "finishing"
      BY <3>1 DEF CopyIsFinal, SoleFinisher, Finishing
    <3>3. runs'[run[u]] = runs[run[u]]
      BY <2>1, <2>2, <3>1, <3>2
    <3> HIDE DEF BeginRequest, Refuses, TypeOK
    <3> QED
      BY <3>1, <3>2, <3>3
  <2>7. RecordShape'
    <3> SUFFICES ASSUME NEW q \in RunIds
                 PROVE  /\ runs'[q].status = "absent" => runs'[q] = NoRun
                        /\ runs'[q].status # "finished" => runs'[q].finished_metrics = Zero
                        /\ runs'[q].status = "finished" =>
                              /\ runs'[q].in_flight = 0
                              /\ runs'[q].finished_metrics = Totals(runs'[q])
      BY DEF RecordShape
    <3> HIDE DEF BeginRequest, Refuses, TypeOK
    <3>1. CASE q = r
      BY <2>1, <2>2, <3>1 DEF RecordShape
    <3>2. CASE q # r
      BY <2>2, <3>2 DEF RecordShape
    <3> QED
      BY <3>1, <3>2
  <2>8. ReportsAgree'
    <3>1. reports' = reports
      OBVIOUS
    <3> HIDE DEF BeginRequest, Refuses, TypeOK
    <3> QED
      BY <2>1, <2>2, <3>1 DEF ReportsAgree
  <2> QED
    BY <1>0, <2>3, <2>4, <2>5, <2>6, <2>7, <2>8
<1>11. CASE Restart
  <2> USE <1>11 DEF Restart
  <2>1. InFlightExact'
    <3>1. \A r \in RunIds : Inspecting(r)' = {}
      BY DEF Inspecting
    <3> QED
      BY <3>1, FS_EmptySet DEF InFlightExact, NoRun
  <2>2. Balanced' /\ SoleFinisher' /\ CopyIsFinal' /\ RecordShape' /\ ReportsAgree'
    BY DEF Balanced, SoleFinisher, Finishing, CopyIsFinal, RecordShape, ReportsAgree, NoRun
  <2> QED
    BY <1>0, <2>1, <2>2
<1>12. CASE UNCHANGED vars
  BY <1>0, <1>12 DEF vars, InFlightExact, Inspecting, Balanced, SoleFinisher, CopyIsFinal,
                     RecordShape, ReportsAgree
<1> QED
  BY <1>1, <1>2, <1>3, <1>4, <1>5, <1>6, <1>7, <1>8, <1>9, <1>10, <1>11, <1>12
  DEF Next, Step, Call

THEOREM Invariance == Spec => []IInv
  BY InitIInv, NextIInv, PTL DEF Spec

-----------------------------------------------------------------------------
(* What follows from the invariant. *)

\* Type correctness of the registry, for every number of runs and threads.
THEOREM TypeCorrect == Spec => []TypeOK
  BY Invariance, PTL DEF IInv

\* The counter that finish waits for is exact: _finish_request undoes
\* _begin_request on every path.
THEOREM InFlightCounted == Spec => []InFlightExact
  BY Invariance, PTL DEF IInv

\* A finished run has no request outstanding and its metrics cover them all.
THEOREM FinishedComplete == Spec => []FinishedIsComplete
<1>1. IInv => FinishedIsComplete
  <2> SUFFICES ASSUME IInv, NEW r \in RunIds, runs[r].status = "finished"
               PROVE  /\ Inspecting(r) = {}
                      /\ runs[r].finished_metrics = Totals(runs[r])
    BY DEF FinishedIsComplete
  <2>1. Cardinality(Inspecting(r)) = 0
    BY DEF IInv, RecordShape, InFlightExact
  <2> QED
    BY <2>1, InspectingFinite, FS_EmptySet DEF IInv, RecordShape
<1> QED
  BY <1>1, Invariance, PTL

\* All metrics handed out for a run in the life of the process are the same.
THEOREM ReportsConsistent == Spec => []ReportsAgree
  BY Invariance, PTL DEF IInv

\* What CountersOnlyGrow says of one run in one step.
Grown(r) ==
    /\ runs'[r].requests >= runs[r].requests
    /\ runs'[r].succeeded >= runs[r].succeeded
    /\ runs'[r].failed >= runs[r].failed

LEMMA GrownStep ==
    ASSUME IInv, [Next]_vars, restarts' = restarts, NEW r \in RunIds
    PROVE  Grown(r)
<1>0. /\ runs[r] \in Run /\ runs'[r] \in Run
      /\ runs \in [RunIds -> Run] /\ run \in [Threads -> RunIds]
  BY TypeStep DEF IInv, TypeOK
<1>1. ASSUME runs' = runs PROVE Grown(r)
  BY <1>0, <1>1 DEF Run, Grown
<1>2. ASSUME NEW t \in Threads, Register(t) PROVE Grown(r)
  <2>1. runs'[r] = runs[r] \/ runs[r] = NoRun
    BY <1>0, <1>2 DEF Register, IInv, RecordShape
  <2> QED
    BY <1>0, <2>1 DEF Run, NoRun, Grown
<1>3. ASSUME NEW t \in Threads, Publish(t) PROVE Grown(r)
  BY <1>0, <1>3 DEF Publish, Run, Grown
<1>4. ASSUME NEW t \in Threads, NEW q \in RunIds, FinishActive(t, q) PROVE Grown(r)
  BY <1>0, <1>4 DEF FinishActive, Run, Grown
<1>5. ASSUME NEW t \in Threads, NEW s \in BOOLEAN, FinishRequest(t, s) PROVE Grown(r)
  <2>1. CASE r = run[t]
    BY <1>0, <1>5, <2>1 DEF FinishRequest, Run, Grown
  <2>2. CASE r # run[t]
    <3>1. runs'[r] = runs[r]
      BY <1>0, <1>5, <2>2 DEF FinishRequest
    <3> QED
      BY <1>0, <3>1 DEF Run, Grown
  <2> QED
    BY <2>1, <2>2
<1>6. ASSUME NEW t \in Threads, NEW q \in RunIds, NEW n \in Sizes, BeginRequest(t, q, n)
      PROVE  Grown(r)
  BY <1>0, <1>6 DEF BeginRequest, Run, Grown
<1>7. ASSUME Restart PROVE Grown(r)
  BY <1>7 DEF Restart, IInv, TypeOK, Grown
<1>8. ASSUME NEW t \in Threads, Drained(t) \/ Awaited(t) PROVE runs' = runs
  BY <1>8 DEF Drained, Awaited
<1>9. ASSUME NEW t \in Threads, NEW q \in RunIds,
             StartUnknown(t, q) \/ ReplayFinished(t, q) \/ FinishFinishing(t, q)
      PROVE  runs' = runs
  BY <1>9 DEF StartUnknown, ReplayFinished, FinishFinishing
<1>10. CASE UNCHANGED vars
  BY <1>1, <1>10 DEF vars
<1>11. ASSUME NEW t \in Threads, Step(t) PROVE Grown(r)
  BY <1>1, <1>2, <1>3, <1>5, <1>8, <1>11 DEF Step
<1>12. ASSUME NEW t \in Threads, NEW q \in RunIds, Call(t, q) PROVE Grown(r)
  BY <1>1, <1>4, <1>6, <1>9, <1>12 DEF Call
<1> QED
  BY <1>7, <1>10, <1>11, <1>12 DEF Next

\* No step but a restart lowers a counter of a run: start is idempotent.
THEOREM CountersMonotone == Spec => CountersOnlyGrow
<1> DEFINE Grow == restarts' = restarts => \A r \in RunIds :
                       /\ runs'[r].requests >= runs[r].requests
                       /\ runs'[r].succeeded >= runs[r].succeeded
                       /\ runs'[r].failed >= runs[r].failed
<1>1. IInv /\ [Next]_vars => [Grow]_vars
  BY GrownStep DEF Grown
<1> QED
  BY <1>1, Invariance, PTL DEF Spec, CountersOnlyGrow

\* The phases of a run, each with the ones a single step may lead to.
Phases == {<<s, s>> : s \in Status}
              \union {<<"absent", "active">>, <<"active", "finishing">>, <<"finishing", "finished">>}

\* One step of a living process, seen from run r: its status moves on by one phase
\* at most, a finished record stays as it is, and what callers were told stays told.
Onward(r) ==
    /\ <<runs[r].status, runs'[r].status>> \in Phases
    /\ runs[r].status = "finished" => runs'[r] = runs[r]
    /\ reports[r] \subseteq reports'[r]

LEMMA OnwardStep ==
    ASSUME IInv, [Next]_vars, restarts' = restarts, NEW r \in RunIds
    PROVE  Onward(r)
<1>0. /\ runs[r] \in Run /\ runs'[r] \in Run
      /\ runs \in [RunIds -> Run] /\ run \in [Threads -> RunIds]
      /\ reports \in [RunIds -> SUBSET Counters]
  BY TypeStep DEF IInv, TypeOK
<1> DEFINE kept == reports[r] \subseteq reports'[r]
<1>1. ASSUME runs' = runs, kept PROVE Onward(r)
  BY <1>0, <1>1 DEF Run, Onward, Phases
<1>2. ASSUME NEW t \in Threads, Register(t) PROVE Onward(r)
  <2>1. runs'[r] = runs[r] \/ (runs[r].status = "absent" /\ runs'[r] = FreshRun)
    BY <1>0, <1>2 DEF Register
  <2>2. FreshRun.status = "active"
    BY DEF FreshRun, NoRun
  <2>3. <<runs[r].status, runs'[r].status>> \in Phases
    BY <1>0, <2>1, <2>2 DEF Run, Phases
  <2> QED BY <1>2, <2>1, <2>3 DEF Register, Onward
<1>3. ASSUME NEW t \in Threads, Publish(t) PROVE Onward(r)
  <2>1. runs[run[t]].status = "finishing"
    BY <1>3 DEF Publish, IInv, SoleFinisher, Finishing
  <2>2. runs'[r] = runs[r] \/ (r = run[t] /\ runs'[r].status = "finished")
    BY <1>0, <1>3 DEF Publish, Run
  <2>3. <<runs[r].status, runs'[r].status>> \in Phases
    BY <1>0, <2>1, <2>2 DEF Run, Phases
  <2>4. kept
    BY <1>0, <1>3 DEF Publish
  <2> QED BY <2>1, <2>2, <2>3, <2>4 DEF Onward
<1>4. ASSUME NEW t \in Threads, NEW q \in RunIds, FinishActive(t, q) PROVE Onward(r)
  <2>1. runs'[r] = runs[r] \/ (runs[r].status = "active" /\ runs'[r].status = "finishing")
    BY <1>0, <1>4 DEF FinishActive, Run
  <2>2. <<runs[r].status, runs'[r].status>> \in Phases
    BY <1>0, <2>1 DEF Run, Phases
  <2> QED BY <1>4, <2>1, <2>2 DEF FinishActive, Onward
<1>5. ASSUME NEW t \in Threads, NEW s \in BOOLEAN, FinishRequest(t, s) PROVE Onward(r)
  <2>1. runs'[r] = runs[r] \/ (r = run[t] /\ runs'[r].status = runs[r].status)
    BY <1>0, <1>5 DEF FinishRequest, Run
  <2>2. runs[run[t]].in_flight # 0
    BY <1>0, <1>5, InspectingLeave DEF IInv, InFlightExact
  <2>3. runs[run[t]].status # "finished"
    BY <1>0, <2>2 DEF IInv, RecordShape
  <2>4. <<runs[r].status, runs'[r].status>> \in Phases
    BY <1>0, <2>1 DEF Run, Phases
  <2> QED BY <1>5, <2>1, <2>3, <2>4 DEF FinishRequest, Onward
<1>6. ASSUME NEW t \in Threads, NEW q \in RunIds, NEW n \in Sizes, BeginRequest(t, q, n)
      PROVE  Onward(r)
  <2>1. runs'[r] = runs[r] \/ (runs[r].status = "active" /\ runs'[r].status = "active")
    BY <1>0, <1>6 DEF BeginRequest, Refuses, Run
  <2>2. <<runs[r].status, runs'[r].status>> \in Phases
    BY <1>0, <2>1 DEF Run, Phases
  <2> QED BY <1>6, <2>1, <2>2 DEF BeginRequest, Onward
<1>7. ASSUME Restart PROVE Onward(r)
  BY <1>7 DEF Restart, IInv, TypeOK
<1>8. ASSUME NEW t \in Threads, Drained(t) \/ Awaited(t) PROVE runs' = runs /\ kept
  BY <1>0, <1>8 DEF Drained, Awaited
<1>9. ASSUME NEW t \in Threads, NEW q \in RunIds,
             StartUnknown(t, q) \/ ReplayFinished(t, q) \/ FinishFinishing(t, q)
      PROVE  runs' = runs /\ kept
  BY <1>0, <1>9 DEF StartUnknown, ReplayFinished, FinishFinishing
<1>10. CASE UNCHANGED vars
  BY <1>1, <1>10 DEF vars
<1> HIDE DEF kept
<1>11. ASSUME NEW t \in Threads, Step(t) PROVE Onward(r)
  BY <1>1, <1>2, <1>3, <1>5, <1>8, <1>11 DEF Step
<1>12. ASSUME NEW t \in Threads, NEW q \in RunIds, Call(t, q) PROVE Onward(r)
  BY <1>1, <1>4, <1>6, <1>9, <1>12 DEF Call
<1> QED
  BY <1>7, <1>10, <1>11, <1>12 DEF Next

\* The life of a run has one direction: no late start reopens it, no late request or
\* second finish touches a record that was reported, as long as the process lives.
THEOREM RunsOnlyMoveOn ==
    Spec => [][restarts' = restarts => \A r \in RunIds :
                   /\ <<runs[r].status, runs'[r].status>> \in Phases
                   /\ runs[r].status = "finished" => runs'[r] = runs[r]
                   /\ reports[r] \subseteq reports'[r]]_vars
<1> DEFINE MoveOn == restarts' = restarts => \A r \in RunIds :
                         /\ <<runs[r].status, runs'[r].status>> \in Phases
                         /\ runs[r].status = "finished" => runs'[r] = runs[r]
                         /\ reports[r] \subseteq reports'[r]
<1>1. IInv /\ [Next]_vars => [MoveOn]_vars
  BY OnwardStep DEF Onward
<1> QED
  BY <1>1, Invariance, PTL DEF Spec

-----------------------------------------------------------------------------
(* The refinement of RunLedger. *)

LEMMA LedgerInit == Init => Ledger!Init
<1> SUFFICES ASSUME Init PROVE Ledger!Init
  OBVIOUS
<1>1. \A r \in RunIds : Inspecting(r) = {}
  BY DEF Init, Inspecting
<1>2. \A r \in RunIds : Account(r) = Ledger!Unopened
  BY <1>1, FS_EmptySet
  DEF Init, Account, NoRun, Zero, Ledger!Unopened, Ledger!NothingCounted
<1> QED
  BY <1>2 DEF Accounts, Ledger!Init

\* A step that changes neither the records nor who inspects is no step of the
\* ledger.
LEMMA AccountsSame ==
    ASSUME \A t \in Threads : (pc[t] = "inspecting") <=> (pc'[t] = "inspecting"),
           \A t \in Threads : pc[t] = "inspecting" => run'[t] = run[t],
           runs' = runs
    PROVE  Accounts' = Accounts
  BY InspectingSame DEF Accounts, Account

\* A step that changes the account of one run only, from one record to another.
LEMMA AccountsExcept ==
    ASSUME NEW r \in RunIds,
           \A q \in RunIds : q # r => Account(q)' = Account(q)
    PROVE  Accounts' = [Accounts EXCEPT ![r] = Account(r)']
  BY DEF Accounts

LEMMA LedgerStep == IInv /\ IInv' /\ [Next]_vars => Ledger!Next \/ UNCHANGED Accounts
<1> SUFFICES ASSUME IInv, IInv', [Next]_vars
             PROVE  Ledger!Next \/ UNCHANGED Accounts
  OBVIOUS
<1>0. TypeOK /\ \A r \in RunIds : runs[r] \in Run
  BY DEF IInv, TypeOK
<1>1. ASSUME NEW t \in Threads, Register(t)
      PROVE  Ledger!Next \/ UNCHANGED Accounts
  <2>1. CASE runs' = runs
    BY <1>0, <1>1, <2>1, AccountsSame DEF Register, Return, TypeOK
  <2>2. CASE runs' # runs
    <3>0. PICK r \in RunIds : r = run[t]
      BY DEF IInv, TypeOK
    <3>1. runs[r].status = "absent" /\ runs[r] = NoRun
          /\ runs' = [runs EXCEPT ![r] = FreshRun]
      BY <1>0, <1>1, <2>2, <3>0 DEF Register, TypeOK, IInv, RecordShape
    <3>2. \A q \in RunIds : Inspecting(q)' = Inspecting(q)
      BY <1>0, <1>1, InspectingSame DEF Register, Return, TypeOK
    <3>3. Cardinality(Inspecting(r)) = 0
      BY <3>1 DEF IInv, InFlightExact, NoRun
    <3>4. Account(r) = Ledger!Unopened /\ Account(r)' = Ledger!Opened
      BY <1>0, <3>1, <3>2, <3>3
      DEF Account, NoRun, FreshRun, Zero, TypeOK, Ledger!Unopened, Ledger!Opened,
          Ledger!NothingCounted
    <3>5. \A q \in RunIds : q # r => Account(q)' = Account(q)
      BY <1>0, <3>1, <3>2 DEF Account, TypeOK
    <3>6. Accounts' = [Accounts EXCEPT ![r] = Ledger!Opened]
      BY <3>1, <3>4, <3>5, AccountsExcept
    <3>7. Ledger!Open(r)
      BY <3>1, <3>4, <3>6 DEF Accounts, Ledger!Open, Ledger!Unopened
    <3> QED
      BY <3>1, <3>7 DEF Ledger!Next
  <2> QED
    BY <2>1, <2>2
<1>2. ASSUME NEW t \in Threads, Drained(t) \/ Awaited(t)
      PROVE  UNCHANGED Accounts
  BY <1>0, <1>2, AccountsSame DEF Drained, DrainOrCopy, Awaited, Return, TypeOK
<1>3. ASSUME NEW t \in Threads, NEW r \in RunIds,
             StartUnknown(t, r) \/ ReplayFinished(t, r) \/ FinishFinishing(t, r)
      PROVE  UNCHANGED Accounts
  BY <1>0, <1>3, AccountsSame DEF StartUnknown, ReplayFinished, FinishFinishing, TypeOK
<1>4. ASSUME NEW t \in Threads, Publish(t)
      PROVE  Ledger!Next
  <2>0. PICK r \in RunIds : r = run[t]
    BY <1>0 DEF TypeOK
  <2>1. /\ runs[r].status = "finishing"
        /\ runs[r].in_flight = 0
        /\ copied[t] = Totals(runs[r])
        /\ runs' = [runs EXCEPT ![r].status = "finished",
                                ![r].finished_metrics = copied[t]]
    BY <1>4, <2>0 DEF Publish, IInv, SoleFinisher, CopyIsFinal, Finishing
  <2>2. \A q \in RunIds : Inspecting(q)' = Inspecting(q)
    BY <1>0, <1>4, InspectingSame DEF Publish, Return, TypeOK
  <2>3. /\ Account(r).phase = "finishing"
        /\ Account(r).outstanding = 0
        /\ Account(r).requests = Account(r).succeeded + Account(r).failed
    BY <1>0, <2>1 DEF Account, IInv, InFlightExact, Balanced, Run
  <2>4. Account(r)' = Ledger!Reported(Account(r))
    <3>1. runs'[r] = [runs[r] EXCEPT !.status = "finished",
                                    !.finished_metrics = copied[t]]
      BY <1>0, <2>1 DEF TypeOK
    <3>2. Ledger!Totals(Account(r)) = copied[t]
      BY <2>1 DEF Account, Ledger!Totals, Totals
    <3>3. Cardinality(Inspecting(r))' = 0
      BY <2>2, <2>3 DEF Account
    <3>4. runs[r] \in Run
      BY <1>0
    <3>5. /\ runs'[r].status = "finished"
          /\ runs'[r].finished_metrics = copied[t]
          /\ runs'[r].requests = runs[r].requests
          /\ runs'[r].succeeded = runs[r].succeeded
          /\ runs'[r].failed = runs[r].failed
          /\ runs'[r].bytes = runs[r].bytes
      BY <3>1, <3>4 DEF Run
    <3>6. Ledger!Reported(Account(r)) =
              [phase |-> "finished", outstanding |-> 0,
               requests |-> runs[r].requests, succeeded |-> runs[r].succeeded,
               failed |-> runs[r].failed, bytes |-> runs[r].bytes,
               report |-> copied[t]]
      BY <3>2 DEF Ledger!Reported, Account
    <3> QED
      BY <3>3, <3>5, <3>6 DEF Account
  <2>5. \A q \in RunIds : q # r => Account(q)' = Account(q)
    BY <1>0, <2>1, <2>2 DEF Account, TypeOK
  <2>6. Accounts' = [Accounts EXCEPT ![r] = Account(r)']
    BY <2>5, AccountsExcept
  <2>7. Ledger!Publish(r)
    <3>1. Accounts[r] = Account(r)
      BY DEF Accounts
    <3> QED
      BY <2>3, <2>4, <2>6, <3>1 DEF Ledger!Publish
  <2> QED
    BY <2>7 DEF Ledger!Next
<1>5. ASSUME NEW t \in Threads, NEW s \in BOOLEAN, FinishRequest(t, s)
      PROVE  Ledger!Next
  <2>0. PICK r \in RunIds : r = run[t]
    BY <1>0 DEF TypeOK
  <2>1. /\ Cardinality(Inspecting(r)) \in Nat \ {0}
        /\ \A q \in RunIds : Cardinality(Inspecting(q)') =
               Cardinality(Inspecting(q)) - (IF q = r THEN 1 ELSE 0)
    BY <1>0, <1>5, <2>0, InspectingLeave, InspectingFinite
  <2>2. runs[r].status \in {"active", "finishing"}
    BY <1>0, <2>1 DEF IInv, InFlightExact, RecordShape, NoRun, Run, Status
  <2>3. runs' = [runs EXCEPT
                    ![r].in_flight = @ - 1,
                    ![r].succeeded = IF s THEN @ + 1 ELSE @,
                    ![r].failed = IF s THEN @ ELSE @ + 1]
    BY <1>5, <2>0 DEF FinishRequest
  <2>4. /\ Account(r).phase \in {"active", "finishing"}
        /\ Account(r).outstanding > 0
    BY <2>1, <2>2 DEF Account
  <2>5. Account(r)' = [Account(r) EXCEPT
            !.outstanding = Account(r).outstanding - 1,
            !.succeeded = Account(r).succeeded + (IF s THEN 1 ELSE 0),
            !.failed = Account(r).failed + (IF s THEN 0 ELSE 1)]
    BY <1>0, <2>1, <2>3 DEF Account, TypeOK, Run
  <2>6. \A q \in RunIds : q # r => Account(q)' = Account(q)
    BY <1>0, <2>1, <2>3, InspectingFinite DEF Account, TypeOK
  <2>7. Accounts' = [Accounts EXCEPT ![r] = Account(r)']
    BY <2>6, AccountsExcept
  <2>8. Ledger!Settle(r, s)
    <3>1. Accounts[r] = Account(r)
      BY DEF Accounts
    <3> QED
      BY <2>4, <2>5, <2>7, <3>1 DEF Ledger!Settle
  <2> QED
    BY <2>8 DEF Ledger!Next
<1>6. ASSUME NEW t \in Threads, NEW r \in RunIds, FinishActive(t, r)
      PROVE  Ledger!Next
  <2>1. \A q \in RunIds : Inspecting(q)' = Inspecting(q)
    BY <1>0, <1>6, InspectingSame DEF FinishActive, DrainOrCopy, TypeOK
  <2>2. Account(r).phase = "active" /\ Account(r)' = [Account(r) EXCEPT !.phase = "finishing"]
    BY <1>0, <1>6, <2>1 DEF FinishActive, Account, TypeOK, Run
  <2>3. \A q \in RunIds : q # r => Account(q)' = Account(q)
    BY <1>0, <1>6, <2>1 DEF FinishActive, Account, TypeOK
  <2>4. Accounts' = [Accounts EXCEPT ![r] = Account(r)']
    BY <2>3, AccountsExcept
  <2>5. Ledger!Close(r)
    BY <2>2, <2>4 DEF Accounts, Ledger!Close
  <2> QED
    BY <2>5 DEF Ledger!Next
<1>7. ASSUME NEW t \in Threads, NEW r \in RunIds, NEW n \in Sizes, BeginRequest(t, r, n)
      PROVE  Ledger!Next
  <2>1. \A q \in RunIds : Cardinality(Inspecting(q)') =
            Cardinality(Inspecting(q)) + (IF q = r THEN 1 ELSE 0)
    BY <1>0, <1>7, InspectingEnter
  <2>2. /\ Account(r).phase = "active"
        /\ Account(r)' = [Account(r) EXCEPT
              !.outstanding = Account(r).outstanding + 1,
              !.requests = Account(r).requests + 1,
              !.bytes = Account(r).bytes + n]
    BY <1>0, <1>7, <2>1 DEF BeginRequest, Refuses, Account, TypeOK, Run
  <2>3. \A q \in RunIds : q # r => Account(q)' = Account(q)
    BY <1>0, <1>7, <2>1, InspectingFinite DEF BeginRequest, Account, TypeOK
  <2>4. Accounts' = [Accounts EXCEPT ![r] = Account(r)']
    BY <2>3, AccountsExcept
  <2>5. Ledger!Accept(r, n)
    <3>1. Accounts[r] = Account(r)
      BY DEF Accounts
    <3> QED
      BY <2>2, <2>4, <3>1 DEF Ledger!Accept
  <2> QED
    BY <2>5 DEF Ledger!Next
<1>8. ASSUME Restart
      PROVE  Ledger!Next
  <2>1. \A r \in RunIds : Inspecting(r)' = {}
    BY <1>8 DEF Restart, Inspecting
  <2>2. \A r \in RunIds : Account(r)' = Ledger!Unopened
    BY <1>8, <2>1, FS_EmptySet
    DEF Restart, Account, NoRun, Zero, Ledger!Unopened, Ledger!NothingCounted
  <2> QED
    BY <2>2 DEF Accounts, Ledger!Forget, Ledger!Next
<1>9. CASE UNCHANGED vars
  BY <1>9, AccountsSame DEF vars
<1>10. ASSUME NEW t \in Threads, Step(t) PROVE Ledger!Next \/ UNCHANGED Accounts
  BY <1>1, <1>2, <1>4, <1>5, <1>10 DEF Step
<1>11. ASSUME NEW t \in Threads, NEW r \in RunIds, Call(t, r)
       PROVE  Ledger!Next \/ UNCHANGED Accounts
  BY <1>3, <1>6, <1>7, <1>11 DEF Call
<1> QED
  BY <1>8, <1>9, <1>10, <1>11 DEF Next

\* The registry with all its threads implements the ledger.
THEOREM Refinement == Spec => ImplementsLedger
  BY LedgerInit, LedgerStep, Invariance, PTL DEF Spec, ImplementsLedger, Ledger!Spec

-----------------------------------------------------------------------------
(* Waiting.  FinishAnswered is a liveness property; what can be proved of it *)
(* is that no thread waits for a notification that nobody will give.        *)

\* What the threads in wait() wait for has not happened yet, and a run that is being
\* finished has its finisher.
WaitInv ==
    /\ \A t \in Threads : pc[t] = "awaiting" => runs[run[t]].status \in {"finishing", "finished"}
    /\ \A t \in waitset :
          \/ pc[t] = "draining" /\ runs[run[t]].in_flight # 0
          \/ pc[t] = "awaiting" /\ runs[run[t]].status = "finishing"
    /\ \A r \in RunIds : runs[r].status = "finishing" =>
          \E u \in Threads : pc[u] \in Finishing /\ run[u] = r

\* A thread that waits is owed its notification by a thread that does not wait, at
\* work on the same run: the finisher, or a request that is still in flight.
NobodyWaitsInVain ==
    \A t \in waitset : \E u \in Threads \ waitset :
        run[u] = run[t] /\ pc[u] \in Finishing \union {"inspecting"}

LEMMA InitWait == Init => WaitInv
BY DEF Init, WaitInv, NoRun

LEMMA NextWait == IInv /\ WaitInv /\ [Next]_vars => WaitInv'
<1> SUFFICES ASSUME IInv, WaitInv, [Next]_vars PROVE WaitInv'
  OBVIOUS
<1> USE DEF IInv, TypeOK
<1>1. ASSUME NEW t \in Threads, Register(t) PROVE WaitInv'
  <2>1. \A r \in RunIds : runs[r].status # "absent" => runs'[r] = runs[r]
    BY <1>1 DEF Register
  <2>2. \A r \in RunIds : runs'[r].status = "finishing" => runs[r].status = "finishing"
    BY <1>1 DEF Register, FreshRun, NoRun
  <2>3. \A u \in waitset : runs[run[u]].status = "finishing"
    BY DEF WaitInv, SoleFinisher, Finishing
  <2>4. \A u \in Threads : u # t => pc'[u] = pc[u] /\ run'[u] = run[u]
    BY <1>1 DEF Register, Return
  <2>5. waitset' = waitset /\ t \notin waitset /\ pc[t] \notin Finishing /\ pc'[t] = "idle"
    BY <1>1 DEF Register, Return, WaitInv, Finishing
  <2> QED BY <2>1, <2>2, <2>3, <2>4, <2>5 DEF WaitInv, Finishing
<1>2. ASSUME NEW t \in Threads, Drained(t) PROVE WaitInv'
  BY <1>2 DEF Drained, DrainOrCopy, WaitInv, Finishing
<1>3. ASSUME NEW t \in Threads, Publish(t) PROVE WaitInv'
  <2>1. \A r \in RunIds : r # run[t] => runs'[r] = runs[r]
    BY <1>3 DEF Publish
  <2>2. runs'[run[t]].status = "finished" /\ waitset' = {}
    BY <1>3 DEF Publish, Run
  <2>3. /\ \A u \in Threads : u # t => pc'[u] = pc[u] /\ run'[u] = run[u]
        /\ pc'[t] = "idle"
    BY <1>3 DEF Publish, Return
  <2> QED BY <2>1, <2>2, <2>3 DEF WaitInv
<1>4. ASSUME NEW t \in Threads, Awaited(t) PROVE WaitInv'
  BY <1>4 DEF Awaited, Return, WaitInv, Finishing
<1>5. ASSUME NEW t \in Threads, NEW s \in BOOLEAN, FinishRequest(t, s) PROVE WaitInv'
  <2>1. \A r \in RunIds : runs'[r].status = runs[r].status
    BY <1>5 DEF FinishRequest, Run
  <2>2. /\ \A u \in Threads : u # t => pc'[u] = pc[u] /\ run'[u] = run[u]
        /\ pc'[t] = "idle" /\ pc[t] = "inspecting" /\ waitset' = {}
    BY <1>5 DEF FinishRequest, Return
  <2> QED BY <2>1, <2>2 DEF WaitInv, Finishing
<1>6. ASSUME NEW t \in Threads, NEW r \in RunIds, StartUnknown(t, r) PROVE WaitInv'
  BY <1>6 DEF StartUnknown, WaitInv, Finishing
<1>7. ASSUME NEW t \in Threads, NEW r \in RunIds, ReplayFinished(t, r) PROVE WaitInv'
  BY <1>7 DEF ReplayFinished, WaitInv
<1>8. ASSUME NEW t \in Threads, NEW r \in RunIds, FinishActive(t, r) PROVE WaitInv'
  <2>1. /\ \A q \in RunIds : q # r => runs'[q] = runs[q]
        /\ runs'[r].status = "finishing" /\ runs'[r].in_flight = runs[r].in_flight
    BY <1>8 DEF FinishActive, Run
  <2>2. /\ \A u \in Threads : u # t => pc'[u] = pc[u] /\ run'[u] = run[u]
        /\ run'[t] = r /\ pc[t] = "idle"
        /\ pc'[t] = IF runs[r].in_flight # 0 THEN "draining" ELSE "sampling"
        /\ waitset' = IF runs[r].in_flight # 0 THEN waitset \union {t} ELSE waitset
    BY <1>8 DEF FinishActive, DrainOrCopy
  <2>3. \A u \in Threads : pc[u] = "awaiting" => run[u] # r
    BY <1>8 DEF FinishActive, WaitInv
  <2>4. \A u \in waitset : u \in Threads /\ u # t
    BY <2>2 DEF WaitInv
  <2> QED BY <2>1, <2>2, <2>3, <2>4 DEF WaitInv, Finishing
<1>9. ASSUME NEW t \in Threads, NEW r \in RunIds, FinishFinishing(t, r) PROVE WaitInv'
  BY <1>9 DEF FinishFinishing, WaitInv, Finishing
<1>10. ASSUME NEW t \in Threads, NEW r \in RunIds, NEW n \in Sizes, BeginRequest(t, r, n)
       PROVE  WaitInv'
  <2>1. /\ \A q \in RunIds : q # r => runs'[q] = runs[q]
        /\ runs'[r].status = runs[r].status /\ runs[r].status = "active"
    BY <1>10 DEF BeginRequest, Refuses, Run
  <2>2. /\ \A u \in Threads : u # t => pc'[u] = pc[u] /\ run'[u] = run[u]
        /\ pc'[t] = "inspecting" /\ pc[t] = "idle" /\ waitset' = waitset
    BY <1>10 DEF BeginRequest
  <2>3. \A u \in waitset : u \in Threads /\ u # t /\ run[u] # r
    BY <2>1, <2>2 DEF WaitInv, SoleFinisher, Finishing
  <2> QED BY <2>1, <2>2, <2>3 DEF WaitInv, Finishing
<1>11. CASE Restart
  BY <1>11 DEF Restart, WaitInv, NoRun
<1>12. CASE UNCHANGED vars
  BY <1>12 DEF vars, WaitInv
<1> QED
  BY <1>1, <1>2, <1>3, <1>4, <1>5, <1>6, <1>7, <1>8, <1>9, <1>10, <1>11, <1>12
  DEF Next, Step, Call

\* The chain of waiting threads ends at one that works: a second finish call waits
\* for the finisher, the finisher for a request, and a request waits for nobody.
LEMMA WaitEnds == IInv /\ WaitInv => NobodyWaitsInVain
<1> SUFFICES ASSUME IInv, WaitInv, NEW t \in waitset
             PROVE  \E u \in Threads \ waitset :
                        run[u] = run[t] /\ pc[u] \in Finishing \union {"inspecting"}
  BY DEF NobodyWaitsInVain
<1>1. t \in Threads /\ run[t] \in RunIds
  BY DEF IInv, TypeOK
<1>2. ASSUME NEW u \in Threads, u \in waitset, pc[u] = "draining", run[u] = run[t]
      PROVE  \E v \in Threads \ waitset : run[v] = run[t] /\ pc[v] = "inspecting"
  <2>1. runs[run[t]].in_flight # 0
    BY <1>2 DEF WaitInv
  <2>2. Inspecting(run[t]) # {}
    BY <1>1, <2>1, FS_EmptySet DEF IInv, InFlightExact
  <2>3. PICK v \in Threads : pc[v] = "inspecting" /\ run[v] = run[t]
    BY <2>2 DEF Inspecting
  <2>4. v \notin waitset
    BY <2>3 DEF WaitInv
  <2> QED BY <2>3, <2>4
<1>3. CASE pc[t] = "draining"
  BY <1>1, <1>2, <1>3
<1>4. CASE pc[t] = "awaiting"
  <2>1. runs[run[t]].status = "finishing"
    BY <1>4 DEF WaitInv
  <2>2. PICK u \in Threads : pc[u] \in Finishing /\ run[u] = run[t]
    BY <1>1, <2>1 DEF WaitInv
  <2>3. CASE u \notin waitset
    BY <2>2, <2>3
  <2>4. CASE u \in waitset
    <3>1. pc[u] = "draining"
      BY <2>2, <2>4 DEF WaitInv, Finishing
    <3> QED BY <1>2, <2>2, <2>4, <3>1
  <2> QED BY <2>3, <2>4
<1> QED BY <1>3, <1>4 DEF WaitInv

\* Whatever the threads interleave, none of them is left in wait() by all others:
\* every notification that is waited for has a thread that will give it.
THEOREM NoLostWakeup == Spec => []NobodyWaitsInVain
<1>1. Init => IInv /\ WaitInv
  BY InitIInv, InitWait
<1>2. IInv /\ WaitInv /\ [Next]_vars => IInv' /\ WaitInv'
  BY NextIInv, NextWait
<1> QED BY <1>1, <1>2, WaitEnds, PTL DEF Spec

=============================================================================
