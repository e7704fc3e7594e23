-------------------------- MODULE EdgeSessionProofs --------------------------
(***************************************************************************)
(* Proofs about EdgeSession, for any number of images, handler threads and *)
(* restarts.  The gateway's part of the state is that of GatewayRuns with  *)
(* one run; what its theorems need of it is proved here for the steps the  *)
(* session makes it take.  After the properties of the runs come the       *)
(* condition for an upload to be counted twice, the completeness of the    *)
(* composition and the variant of the session.                             *)
(***************************************************************************)
EXTENDS EdgeSession, FiniteSetTheorems, TLAPS

-----------------------------------------------------------------------------
(* The inductive invariant. *)

\* The registry: types, the exact count of requests in flight, and no counts
\* without a run.
Registry ==
    /\ Gateway!TypeOK
    /\ Gateway!InFlightExact
    /\ runs[RunId].status = "absent" => runs[RunId] = Gateway!NoRun

\* The client waits for the request that belongs to the place main() is at.
Asking ==
    /\ at \in {"starting", "registering"} => asked.kind = "start"
    /\ at = "inspecting" => asked.kind = "inspect" /\ registered
    /\ at = "reading" => asked.kind = "none" /\ registered
    /\ at = "finishing" => asked.kind = "finish"
    /\ at \in {"boot", "between", "done"} => asked.kind = "none"

\* A thread holds the request that brought it to its place.
Serving ==
    \A t \in Threads :
        /\ pc[t] = "starting" => job[t].kind = "start"
        /\ pc[t] = "inspecting" => job[t].kind = "inspect"
        /\ pc[t] \in {"draining", "sampling"} => job[t].kind = "finish"

\* Nobody finishes the run before the session asks for it.
NotFinished ==
    at \notin {"finishing", "done"} =>
        /\ \A m \in wire : m.kind # "finish"
        /\ \A t \in Threads : pc[t] \notin {"draining", "sampling"}
        /\ runs[RunId].status \in {"absent", "active"}

\* A gateway that was not restarted since knows the run it confirmed.
Known ==
    ~ forgotten /\ (registered \/ (asked.kind = "start" /\ Answered("ok"))) =>
        runs[RunId].status # "absent"

\* The results delivered are covered by the counts, at each place on the way of
\* the counts to main().
Covered ==
    /\ delivered <= runs[RunId].succeeded
    /\ \A t \in Threads : pc[t] = "sampling" => delivered <= copied[t].succeeded
    /\ asked.kind = "finish" /\ Answered("ok") => delivered <= reply.totals.succeeded
    /\ \A totals \in report : delivered <= totals.succeeded
    /\ at # "done" => report = {}

Edged ==
    /\ at \in Places
    /\ task \in 0..Tasks
    /\ registered \in BOOLEAN
    /\ breaker \in Breaker
    /\ cooled \in BOOLEAN
    /\ metrics \in 0..Tasks
    /\ counted \in [1..Tasks -> Nat]
    /\ report \subseteq Gateway!Counters
    /\ failed \in BOOLEAN

Transported ==
    /\ asked \in Request \union {NoRequest}
    /\ reply \in Answers \union {NoAnswer}
    /\ wire \subseteq Request
    /\ job \in [Threads -> Request \union {NoRequest}]
    /\ delivered \in Nat
    /\ forgotten \in BOOLEAN

IInv ==
    /\ Registry
    /\ Edged
    /\ Transported
    /\ Asking
    /\ Serving
    /\ NotFinished
    /\ Known
    /\ Covered
    /\ RefusedOnlyAfterRestart
    /\ HalfOpenIsProbe

-----------------------------------------------------------------------------
(* The registry. *)

LEMMA RecordTypes ==
    /\ Gateway!Zero \in Gateway!Counters
    /\ Gateway!NoRun \in Gateway!Run
    /\ Gateway!FreshRun \in Gateway!Run
    /\ Gateway!FreshRun.in_flight = 0
    /\ Gateway!FreshRun.status = "active"
    /\ Gateway!FreshRun.succeeded = 0
    /\ Gateway!NoRun.in_flight = 0
    /\ Gateway!NoRun.status = "absent"
    /\ Gateway!NoRun.succeeded = 0
    /\ \A record \in Gateway!Run : Gateway!Totals(record) \in Gateway!Counters
  BY DEF Gateway!Zero, Gateway!Counters, Gateway!NoRun, Gateway!FreshRun, Gateway!Run,
         Gateway!Status, Gateway!Totals

\* The operator of the instance is that of FiniteSets.
LEMMA SameCardinality == \A S : Gateway!Cardinality(S) = Cardinality(S)
  BY DEF Gateway!Cardinality, Cardinality

LEMMA InspectingFinite ==
    IsFiniteSet(Gateway!Inspecting(RunId)) /\ Cardinality(Gateway!Inspecting(RunId)) \in Nat
<1>1. Gateway!Inspecting(RunId) \subseteq Threads
  BY DEF Gateway!Inspecting
<1> QED
  BY <1>1, SessionAssumption, FS_Subset, FS_CardinalityType

\* There is one run only.
LEMMA OneRun ==
    ASSUME Gateway!TypeOK
    PROVE  /\ \A t \in Threads : run[t] = RunId
           /\ runs \in [{RunId} -> Gateway!Run]
           /\ runs[RunId] \in Gateway!Run
  BY DEF Gateway!TypeOK

\* What the registry promises is about runs[RunId] and who inspects.
LEMMA RegistrySame ==
    ASSUME Registry, Gateway!TypeOK',
           \A t \in Threads : (pc[t] = "inspecting") <=> (pc'[t] = "inspecting"),
           runs'[RunId].in_flight = runs[RunId].in_flight,
           runs'[RunId].status = "absent" => runs'[RunId] = Gateway!NoRun
    PROVE  Registry'
<1>1. \A t \in Threads : run[t] = RunId /\ run'[t] = RunId
  BY DEF Registry, Gateway!TypeOK
<1>2. Gateway!Inspecting(RunId)' = Gateway!Inspecting(RunId)
  BY <1>1 DEF Gateway!Inspecting
<1> QED
  BY <1>2 DEF Registry, Gateway!InFlightExact

LEMMA StartKeeps ==
    ASSUME Registry, NEW t \in Threads, Gateway!StartUnknown(t, RunId)
    PROVE  Registry'
<1>1. Gateway!TypeOK'
  BY DEF Registry, Gateway!TypeOK, Gateway!StartUnknown, Gateway!Pc
<1> QED
  BY <1>1, RegistrySame DEF Registry, Gateway!TypeOK, Gateway!StartUnknown

LEMMA ReplayKeeps ==
    ASSUME Registry, NEW t \in Threads, Gateway!ReplayFinished(t, RunId)
    PROVE  Registry'
<1>1. Gateway!TypeOK'
  BY OneRun DEF Registry, Gateway!TypeOK, Gateway!ReplayFinished, Gateway!Run
<1> QED
  BY <1>1, RegistrySame DEF Registry, Gateway!TypeOK, Gateway!ReplayFinished

LEMMA RegisterKeeps ==
    ASSUME Registry, NEW t \in Threads, Gateway!Register(t)
    PROVE  Registry'
<1>1. run[t] = RunId /\ runs \in [{RunId} -> Gateway!Run]
  BY OneRun DEF Registry
<1>2. Gateway!NoCall \in {RunId}
  BY DEF Gateway!NoCall
<1>3. Gateway!TypeOK'
  BY <1>1, <1>2, RecordTypes
  DEF Registry, Gateway!TypeOK, Gateway!Register, Gateway!Return, Gateway!Pc
<1>4. runs'[RunId] = IF runs[RunId].status = "absent" THEN Gateway!FreshRun ELSE runs[RunId]
  BY <1>1 DEF Gateway!Register
<1>5. runs'[RunId].in_flight = runs[RunId].in_flight
  BY <1>4, RecordTypes DEF Registry
<1>6. runs'[RunId].status # "absent"
  BY <1>4, RecordTypes
<1>7. \A u \in Threads : (pc[u] = "inspecting") <=> (pc'[u] = "inspecting")
  BY DEF Registry, Gateway!TypeOK, Gateway!Register, Gateway!Return
<1> QED
  BY <1>3, <1>5, <1>6, <1>7, RegistrySame

LEMMA CopyKeeps ==
    ASSUME Registry, NEW t \in Threads, Gateway!DrainOrCopy(t, RunId, runs[RunId])
    PROVE  /\ pc' \in [Threads -> Gateway!Pc]
           /\ copied' \in [Threads -> Gateway!Counters]
           /\ waitset' \subseteq Threads
<1>1. Gateway!Totals(runs[RunId]) \in Gateway!Counters
  BY OneRun, RecordTypes DEF Registry
<1> QED
  BY <1>1 DEF Registry, Gateway!TypeOK, Gateway!DrainOrCopy, Gateway!Pc

LEMMA FinishKeeps ==
    ASSUME Registry, NEW t \in Threads, Gateway!FinishActive(t, RunId)
    PROVE  Registry'
<1>1. runs \in [{RunId} -> Gateway!Run] /\ runs[RunId] \in Gateway!Run
  BY OneRun DEF Registry
<1>2. runs' \in [{RunId} -> Gateway!Run]
  BY <1>1 DEF Gateway!FinishActive, Gateway!Run, Gateway!Status
<1>3. Gateway!TypeOK'
  BY <1>2, CopyKeeps DEF Registry, Gateway!TypeOK, Gateway!FinishActive
<1>4. runs'[RunId].in_flight = runs[RunId].in_flight /\ runs'[RunId].status = "finishing"
  BY <1>1 DEF Gateway!FinishActive, Gateway!Run
<1>5. \A u \in Threads : (pc[u] = "inspecting") <=> (pc'[u] = "inspecting")
  BY DEF Registry, Gateway!TypeOK, Gateway!FinishActive, Gateway!DrainOrCopy
<1> QED
  BY <1>3, <1>4, <1>5, RegistrySame

LEMMA DrainedKeeps ==
    ASSUME Registry, NEW t \in Threads, Gateway!Drained(t)
    PROVE  Registry'
<1>1. run[t] = RunId
  BY OneRun DEF Registry
<1>2. Gateway!DrainOrCopy(t, RunId, runs[RunId])
  BY <1>1 DEF Gateway!Drained
<1>3. Gateway!TypeOK'
  BY <1>2, CopyKeeps DEF Registry, Gateway!TypeOK, Gateway!Drained
<1>4. \A u \in Threads : (pc[u] = "inspecting") <=> (pc'[u] = "inspecting")
  BY <1>2 DEF Registry, Gateway!TypeOK, Gateway!Drained, Gateway!DrainOrCopy
<1>5. runs' = runs
  BY DEF Gateway!Drained
<1> QED
  BY <1>3, <1>4, <1>5, RegistrySame DEF Registry

LEMMA PublishKeeps ==
    ASSUME Registry, NEW t \in Threads, Gateway!Publish(t)
    PROVE  /\ Registry'
           /\ runs'[RunId].succeeded = runs[RunId].succeeded
           /\ runs'[RunId].status = "finished"
<1>1. run[t] = RunId /\ runs \in [{RunId} -> Gateway!Run] /\ runs[RunId] \in Gateway!Run
  BY OneRun DEF Registry
<1>2. Gateway!NoCall \in {RunId}
  BY DEF Gateway!NoCall
<1>3. runs' = [runs EXCEPT ![RunId].status = "finished",
                           ![RunId].finished_metrics = copied[t]]
  BY <1>1 DEF Gateway!Publish
<1>4. copied[t] \in Gateway!Counters
  BY DEF Registry, Gateway!TypeOK
<1>5. runs' \in [{RunId} -> Gateway!Run]
  BY <1>1, <1>3, <1>4 DEF Gateway!Run, Gateway!Status
<1>6. Gateway!TypeOK'
  BY <1>1, <1>2, <1>4, <1>5, RecordTypes
  DEF Registry, Gateway!TypeOK, Gateway!Publish, Gateway!Return, Gateway!Pc
<1>7. /\ runs'[RunId].in_flight = runs[RunId].in_flight
      /\ runs'[RunId].status = "finished"
      /\ runs'[RunId].succeeded = runs[RunId].succeeded
  BY <1>1, <1>3 DEF Gateway!Run
<1>8. \A u \in Threads : (pc[u] = "inspecting") <=> (pc'[u] = "inspecting")
  BY DEF Registry, Gateway!TypeOK, Gateway!Publish, Gateway!Return
<1> QED
  BY <1>6, <1>7, <1>8, RegistrySame

LEMMA BeginKeeps ==
    ASSUME Registry, NEW t \in Threads, Gateway!BeginRequest(t, RunId, 1)
    PROVE  /\ Registry'
           /\ runs'[RunId].succeeded = runs[RunId].succeeded
           /\ runs'[RunId].status = runs[RunId].status
<1>1. runs \in [{RunId} -> Gateway!Run] /\ runs[RunId] \in Gateway!Run
  BY OneRun DEF Registry
<1>2. runs' = [runs EXCEPT ![RunId].in_flight = @ + 1,
                           ![RunId].requests = @ + 1,
                           ![RunId].bytes = @ + 1]
  BY DEF Gateway!BeginRequest
<1>3. runs' \in [{RunId} -> Gateway!Run]
  BY <1>1, <1>2 DEF Gateway!Run
<1>4. Gateway!TypeOK'
  BY <1>3 DEF Registry, Gateway!TypeOK, Gateway!BeginRequest, Gateway!Pc
<1>5. /\ runs'[RunId].in_flight = runs[RunId].in_flight + 1
      /\ runs'[RunId].status = runs[RunId].status
      /\ runs'[RunId].succeeded = runs[RunId].succeeded
  BY <1>1, <1>2 DEF Gateway!Run
<1>6. /\ Gateway!Inspecting(RunId)' = Gateway!Inspecting(RunId) \union {t}
      /\ t \notin Gateway!Inspecting(RunId)
  BY DEF Registry, Gateway!Inspecting, Gateway!BeginRequest, Gateway!TypeOK
<1>7. Cardinality(Gateway!Inspecting(RunId)') = Cardinality(Gateway!Inspecting(RunId)) + 1
  BY <1>6, InspectingFinite, FS_AddElement
<1>8. Gateway!InFlightExact'
  BY <1>5, <1>7, SameCardinality DEF Registry, Gateway!InFlightExact
<1>9. runs[RunId].status = "active"
  BY DEF Gateway!BeginRequest, Gateway!Refuses
<1> QED
  BY <1>4, <1>5, <1>8, <1>9 DEF Registry

LEMMA EndKeeps ==
    ASSUME Registry, NEW t \in Threads, NEW success \in BOOLEAN,
           Gateway!FinishRequest(t, success)
    PROVE  /\ Registry'
           /\ runs'[RunId].succeeded = runs[RunId].succeeded + (IF success THEN 1 ELSE 0)
           /\ runs'[RunId].status = runs[RunId].status
<1>1. run[t] = RunId /\ runs \in [{RunId} -> Gateway!Run] /\ runs[RunId] \in Gateway!Run
  BY OneRun DEF Registry
<1>2. runs' = [runs EXCEPT
                  ![RunId].in_flight = @ - 1,
                  ![RunId].succeeded = IF success THEN @ + 1 ELSE @,
                  ![RunId].failed = IF success THEN @ ELSE @ + 1]
  BY <1>1 DEF Gateway!FinishRequest
<1>3. t \in Gateway!Inspecting(RunId)
  BY <1>1 DEF Gateway!Inspecting, Gateway!FinishRequest
<1>4. /\ runs[RunId].in_flight = Cardinality(Gateway!Inspecting(RunId))
      /\ runs[RunId].in_flight \in Nat \ {0}
  BY <1>1, <1>3, InspectingFinite, FS_EmptySet, SameCardinality DEF Registry, Gateway!InFlightExact
<1>5. runs' \in [{RunId} -> Gateway!Run]
  BY <1>1, <1>2, <1>4 DEF Gateway!Run
<1>6. Gateway!NoCall \in {RunId}
  BY DEF Gateway!NoCall
<1>7. Gateway!TypeOK'
  BY <1>5, <1>6, RecordTypes
  DEF Registry, Gateway!TypeOK, Gateway!FinishRequest, Gateway!Return, Gateway!Pc
<1>8. /\ runs'[RunId].in_flight = runs[RunId].in_flight - 1
      /\ runs'[RunId].status = runs[RunId].status
      /\ runs'[RunId].succeeded = runs[RunId].succeeded + (IF success THEN 1 ELSE 0)
  BY <1>1, <1>2 DEF Gateway!Run
<1>9. Gateway!Inspecting(RunId)' = Gateway!Inspecting(RunId) \ {t}
  <2>1. \A u \in Threads : run[u] = RunId /\ run'[u] = RunId
    BY <1>7, OneRun DEF Registry, Gateway!TypeOK
  <2> QED
    BY <2>1 DEF Registry, Gateway!Inspecting, Gateway!FinishRequest, Gateway!Return, Gateway!TypeOK
<1>10. Cardinality(Gateway!Inspecting(RunId)') = Cardinality(Gateway!Inspecting(RunId)) - 1
  BY <1>3, <1>9, InspectingFinite, FS_RemoveElement
<1>11. Gateway!InFlightExact'
  BY <1>4, <1>8, <1>10, SameCardinality DEF Gateway!InFlightExact
<1>12. runs[RunId].status # "absent"
  BY <1>4, RecordTypes DEF Registry
<1> QED
  BY <1>7, <1>8, <1>11, <1>12 DEF Registry

LEMMA RestartKeeps ==
    ASSUME Registry, Gateway!Restart
    PROVE  Registry' /\ runs'[RunId] = Gateway!NoRun
<1>1. Gateway!NoCall \in {RunId}
  BY DEF Gateway!NoCall
<1>2. Gateway!TypeOK'
  BY <1>1, RecordTypes DEF Registry, Gateway!TypeOK, Gateway!Restart, Gateway!Pc
<1>3. (\A t \in Threads : pc'[t] = "idle") /\ runs'[RunId] = Gateway!NoRun
  BY DEF Gateway!Restart
<1>4. Gateway!Inspecting(RunId)' = {}
  BY <1>3 DEF Gateway!Inspecting
<1>5. Gateway!InFlightExact'
  BY <1>3, <1>4, FS_EmptySet, SameCardinality, RecordTypes DEF Gateway!InFlightExact
<1> QED
  BY <1>2, <1>3, <1>5 DEF Registry

-----------------------------------------------------------------------------
(* The edge. *)

LEMMA BreakerTypes ==
    /\ Closed \in Breaker /\ Closed.state = "closed"
    /\ \A b \in Breaker :
          /\ Admitted(b) \in Breaker
          /\ \A force \in BOOLEAN :
                /\ Failed(b, force) \in Breaker
                /\ Failed(b, force).state # "half_open"
  BY DEF Closed, Breaker, BreakerState, Admitted, Failed, Opens

LEMMA RequestTypes ==
    /\ NoRequest.kind = "none" /\ NoAnswer.status = "none"
    /\ \A kind \in {"start", "inspect", "finish"}, n \in 0..Tasks :
          [kind |-> kind, task |-> n] \in Request
    /\ \A m \in Request : m.kind \in {"start", "inspect", "finish"}
    /\ \A status \in {"ok", "unregistered", "error"}, totals \in Gateway!Counters :
          [status |-> status, totals |-> totals] \in Answers
    /\ \A answer \in Answers : answer.totals \in Gateway!Counters
  BY DEF NoRequest, NoAnswer, Request, Answers

\* A step of the edge leaves the gateway alone.
LEMMA EdgeApart ==
    ASSUME Edge
    PROVE  UNCHANGED <<gateway, job, delivered, forgotten>>
  BY DEF Edge, Boot, BootRegistered, BootFails, EdgeTask, CloudTask, Registered,
         RegistrationFails, ReadImage, Unreadable,
         Reviewed, InspectionFails, LastTaskDone, RunFinished,
         FinishFails, Send, EndCall, transport, history

LEMMA GatewayIdle ==
    ASSUME Registry, UNCHANGED gateway
    PROVE  Registry'
<1> USE DEF gateway
<1>1. Gateway!TypeOK'
  BY DEF Registry, Gateway!TypeOK
<1> QED
  BY <1>1, RegistrySame DEF Registry

\* Of the requests only these three things become.
LEMMA EdgeCalls ==
    ASSUME Edged, Edge
    PROVE  \/ UNCHANGED transport
           \/ EndCall
           \/ \E kind \in {"start", "inspect", "finish"}, n \in 0..Tasks :
                 /\ Send(kind, n)
                 /\ kind = "finish" => at' = "finishing"
<1>1. CASE Boot \/ CloudTask \/ ReadImage \/ LastTaskDone
  <2>1. 0 \in 0..Tasks /\ Tasks \in 0..Tasks /\ task \in 0..Tasks
    BY SessionAssumption DEF Edged
  <2>2. task < Tasks => task + 1 \in 0..Tasks
    BY <2>1, SessionAssumption
  <2> QED
    BY <1>1, <2>1, <2>2 DEF Boot, CloudTask, ReadImage, LastTaskDone
<1>2. CASE ~ (Boot \/ CloudTask \/ ReadImage \/ LastTaskDone)
  BY <1>2 DEF Edge, BootRegistered, BootFails, EdgeTask, Registered, RegistrationFails,
              Unreadable, Reviewed, InspectionFails, RunFinished, FinishFails
<1> QED
  BY <1>1, <1>2

LEMMA EdgeTransported ==
    ASSUME Edged, Transported, Edge
    PROVE  Transported'
<1>1. UNCHANGED <<job, delivered, forgotten>>
  BY EdgeApart
<1>2. /\ asked' \in Request \union {NoRequest}
      /\ reply' \in Answers \union {NoAnswer}
      /\ wire' \subseteq Request
  BY EdgeCalls, RequestTypes DEF Transported, transport, EndCall, Send
<1> QED
  BY <1>1, <1>2 DEF Transported

LEMMA EdgeEdged ==
    ASSUME Edged, Transported, Edge
    PROVE  Edged'
<1> USE SessionAssumption, BreakerTypes
<1>1. at' \in Places
  BY DEF Edged, Places, InReview, Edge, Boot, BootRegistered, BootFails,
         EdgeTask, CloudTask, Registered,
         RegistrationFails, ReadImage, Unreadable,
         Reviewed, InspectionFails, LastTaskDone, RunFinished,
         FinishFails
<1>2. task' \in 0..Tasks
  <2>1. task' = task \/ (task < Tasks /\ task' = task + 1)
    BY DEF Edge, Boot, BootRegistered, BootFails, EdgeTask, CloudTask, Registered,
           RegistrationFails, ReadImage, Unreadable,
           Reviewed, InspectionFails, LastTaskDone, RunFinished,
           FinishFails
  <2> QED
    BY <2>1 DEF Edged
<1>3. registered' \in BOOLEAN
  BY DEF Edged, Edge, Boot, BootRegistered, BootFails, EdgeTask, CloudTask, Registered,
         RegistrationFails, ReadImage, Unreadable,
         Reviewed, InspectionFails, LastTaskDone, RunFinished,
         FinishFails
<1>4. breaker' \in Breaker /\ cooled' \in BOOLEAN /\ failed' \in BOOLEAN
  BY DEF Edged, Edge, Boot, BootRegistered, BootFails, EdgeTask, CloudTask, Registered,
         RegistrationFails, ReadImage, Unreadable,
         Reviewed, InspectionFails, LastTaskDone, RunFinished,
         FinishFails, CloudFailed, CloudWorked
<1>5. metrics' \in 0..Tasks
  <2>1. metrics' = metrics \/ metrics' = 0 \/ metrics' = task
    BY DEF Edge, Boot, BootRegistered, BootFails, EdgeTask, CloudTask, Registered,
           RegistrationFails, ReadImage, Unreadable,
           Reviewed, InspectionFails, LastTaskDone, RunFinished,
           FinishFails
  <2> QED
    BY <2>1 DEF Edged
<1>6. counted' \in [1..Tasks -> Nat]
  <2>1. counted' = counted \/ Count(metrics) \/ Count(task)
    BY DEF Edge, Boot, BootRegistered, BootFails, EdgeTask, CloudTask, Registered,
           RegistrationFails, ReadImage, Unreadable,
           Reviewed, InspectionFails, LastTaskDone, RunFinished,
           FinishFails
  <2> QED
    BY <2>1 DEF Edged, Count
<1>7. report' \subseteq Gateway!Counters
  <2>1. CASE RunFinished
    BY <2>1, RequestTypes DEF RunFinished, Answered, Transported, NoAnswer
  <2>2. CASE ~ RunFinished
    BY <2>2 DEF Edged, Edge, Boot, BootRegistered, BootFails, EdgeTask, CloudTask,
                Registered, RegistrationFails, ReadImage, Unreadable,
                Reviewed, InspectionFails, LastTaskDone,
                FinishFails
  <2> QED
    BY <2>1, <2>2
<1> QED
  BY <1>1, <1>2, <1>3, <1>4, <1>5, <1>6, <1>7 DEF Edged

LEMMA EdgeAsking ==
    ASSUME Asking, Edge
    PROVE  Asking'
<1> USE RequestTypes DEF Asking, Send, EndCall
<1>1. CASE Boot
  BY <1>1 DEF Boot
<1>2. CASE BootRegistered \/ BootFails
  BY <1>2 DEF BootRegistered, BootFails
<1>3. CASE EdgeTask
  BY <1>3 DEF EdgeTask, transport
<1>4. CASE CloudTask
  BY <1>4 DEF CloudTask, transport
<1>5. CASE Registered \/ RegistrationFails \/ ReadImage \/ Unreadable
  <2>1. CASE Registered
    BY <2>1 DEF Registered
  <2>2. CASE RegistrationFails
    BY <2>2 DEF RegistrationFails
  <2>3. CASE ReadImage
    BY <2>3 DEF ReadImage
  <2>4. CASE Unreadable
    BY <2>4 DEF Unreadable, transport
  <2> QED
    BY <1>5, <2>1, <2>2, <2>3, <2>4
<1>6. CASE Reviewed \/ InspectionFails
  BY <1>6 DEF Reviewed, InspectionFails
<1>7. CASE LastTaskDone
  BY <1>7 DEF LastTaskDone, transport
<1>8. CASE RunFinished \/ FinishFails
  BY <1>8 DEF RunFinished, FinishFails
<1> QED
  BY <1>1, <1>2, <1>3, <1>4, <1>5, <1>6, <1>7, <1>8 DEF Edge

LEMMA EdgeHalfOpen ==
    ASSUME Edged, HalfOpenIsProbe, Edge
    PROVE  HalfOpenIsProbe'
  BY BreakerTypes
  DEF HalfOpenIsProbe, InReview, Edged, Edge, Boot, BootRegistered, BootFails,
      EdgeTask, CloudTask,
      Registered, RegistrationFails, ReadImage, Unreadable,
      Reviewed, InspectionFails, LastTaskDone, RunFinished,
      FinishFails, CloudFailed, CloudWorked

LEMMA EdgeNotFinished ==
    ASSUME Edged, NotFinished, Edge
    PROVE  NotFinished'
<1>1. UNCHANGED gateway
  BY EdgeApart
<1>2. at' \notin {"finishing", "done"} => at \notin {"finishing", "done"}
  BY DEF Edge, Boot, BootRegistered, BootFails, EdgeTask, CloudTask, Registered,
         RegistrationFails, ReadImage, Unreadable,
         Reviewed, InspectionFails, LastTaskDone, RunFinished,
         FinishFails
<1>3. \A m \in wire' : m \in wire \/ m.kind # "finish" \/ at' = "finishing"
  BY EdgeCalls DEF Send, EndCall, transport
<1> QED
  BY <1>1, <1>2, <1>3 DEF NotFinished, gateway

\* A call that is over leaves no answer behind.
LEMMA EdgeAnswers ==
    ASSUME Edged, Edge
    PROVE  \/ reply'.status = "none"
           \/ UNCHANGED transport /\ UNCHANGED registered /\ UNCHANGED report
  BY RequestTypes
  DEF Edge, Boot, BootRegistered, BootFails, EdgeTask, CloudTask, Registered,
      RegistrationFails, ReadImage, Unreadable,
      Reviewed, InspectionFails, LastTaskDone, RunFinished,
      FinishFails, Send, EndCall, transport

LEMMA EdgeKnown ==
    ASSUME Edged, Asking, Known, Edge
    PROVE  Known'
<1>1. UNCHANGED gateway /\ UNCHANGED forgotten
  BY EdgeApart
<1>2. registered' => registered \/ (asked.kind = "start" /\ Answered("ok"))
  BY DEF Asking, Edge, Boot, BootRegistered, BootFails, EdgeTask, CloudTask, Registered,
         RegistrationFails, ReadImage, Unreadable,
         Reviewed, InspectionFails, LastTaskDone, RunFinished,
         FinishFails
<1> QED
  BY <1>1, <1>2, EdgeAnswers DEF Known, Answered, gateway, transport

LEMMA EdgeCovered ==
    ASSUME Edged, Asking, Covered, Edge
    PROVE  Covered'
<1>1. UNCHANGED gateway /\ UNCHANGED delivered
  BY EdgeApart
<1>2. report' = report \/ (RunFinished /\ report' = {reply.totals})
  BY DEF Edge, Boot, BootRegistered, BootFails, EdgeTask, CloudTask, Registered,
         RegistrationFails, ReadImage, Unreadable,
         Reviewed, InspectionFails, LastTaskDone, RunFinished,
         FinishFails
<1>3. RunFinished => asked.kind = "finish" /\ Answered("ok") /\ at' = "done"
  BY DEF RunFinished, Asking
<1>4. \A totals \in report' : delivered' <= totals.succeeded
  BY <1>1, <1>2, <1>3 DEF Covered
<1>5. at' # "done" => at # "done"
  BY DEF Edge, Boot, BootRegistered, BootFails, EdgeTask, CloudTask, Registered,
         RegistrationFails, ReadImage, Unreadable,
         Reviewed, InspectionFails, LastTaskDone, RunFinished,
         FinishFails
<1>6. at' # "done" => report' = {}
  BY <1>2, <1>3, <1>5 DEF Covered
<1>7. asked'.kind = "finish" /\ Answered("ok")' => delivered' <= reply'.totals.succeeded
  BY <1>1, EdgeAnswers DEF Covered, Answered, transport
<1> QED
  BY <1>1, <1>4, <1>6, <1>7 DEF Covered, gateway

LEMMA EdgeRefused ==
    ASSUME Edged, RefusedOnlyAfterRestart, Edge
    PROVE  RefusedOnlyAfterRestart'
  BY EdgeAnswers, EdgeApart DEF RefusedOnlyAfterRestart, Answered, transport

LEMMA EdgeKeeps ==
    ASSUME IInv, Edge
    PROVE  IInv'
<1>1. UNCHANGED gateway /\ UNCHANGED job
  BY EdgeApart
<1>2. Registry' /\ Serving'
  BY <1>1, GatewayIdle DEF IInv, Serving, gateway
<1> QED
  BY <1>2, EdgeEdged, EdgeTransported, EdgeAsking, EdgeHalfOpen, EdgeNotFinished,
     EdgeKnown, EdgeCovered, EdgeRefused
  DEF IInv

-----------------------------------------------------------------------------
(* The gateway, as the session sees it. *)

\* A step that is not the edge's.
LEMMA EdgeIdle ==
    ASSUME IInv, UNCHANGED edge, UNCHANGED asked
    PROVE  Edged' /\ Asking' /\ HalfOpenIsProbe'
<1> USE DEF edge
<1>1. Edged'
  BY DEF IInv, Edged
<1>2. Asking'
  BY DEF IInv, Asking
<1>3. HalfOpenIsProbe'
  BY DEF IInv, HalfOpenIsProbe
<1> QED
  BY <1>1, <1>2, <1>3

LEMMA RespondTypes ==
    ASSUME Transported, NEW m, NEW status \in {"ok", "unregistered", "error"},
           NEW totals \in Gateway!Counters, Respond(m, status, totals)
    PROVE  /\ asked' = asked
           /\ reply' \in Answers \union {NoAnswer}
           /\ delivered' \in Nat
           /\ forgotten' \in BOOLEAN
  BY RequestTypes DEF Transported, Respond

\* What the client is told, and what that does to the history.
LEMMA RespondSays ==
    ASSUME Transported, NEW m, NEW status \in {"ok", "unregistered", "error"},
           NEW totals, Respond(m, status, totals)
    PROVE  /\ m = asked => reply'.status = status /\ reply'.totals = totals
           /\ m # asked => reply' = reply
           /\ m = asked /\ m.kind = "start" => ~ forgotten'
           /\ ~ (m = asked /\ m.kind = "start") => forgotten' = forgotten
           /\ delivered' = delivered + 1 \/ delivered' = delivered
           /\ ~ (m = asked /\ m.kind = "inspect" /\ status = "ok") => delivered' = delivered
  BY DEF Transported, Respond

LEMMA TakeUpKeeps ==
    ASSUME Transported, NEW t \in Threads, NEW m \in wire, TakeUp(t, m)
    PROVE  /\ Transported'
           /\ UNCHANGED <<asked, reply, delivered, forgotten>>
           /\ wire' \subseteq wire
           /\ job'[t] = m
           /\ \A u \in Threads \ {t} : job'[u] = job[u]
<1>1. UNCHANGED <<asked, reply, delivered, forgotten>> /\ wire' \subseteq wire
  BY DEF TakeUp, history
<1>2. job' = [job EXCEPT ![t] = m] /\ m \in Request
  BY DEF TakeUp, Transported
<1> QED
  BY <1>1, <1>2 DEF Transported

LEMMA AnswerKeeps ==
    ASSUME Transported, NEW t \in Threads, NEW m \in wire,
           NEW status \in {"ok", "unregistered", "error"},
           NEW totals \in Gateway!Counters, AnswerAtOnce(t, m, status, totals)
    PROVE  /\ Transported'
           /\ Respond(m, status, totals)
           /\ wire' \subseteq wire
           /\ job' = job
           /\ asked' = asked
  BY RespondTypes DEF AnswerAtOnce, Transported

LEMMA FinishAnswers ==
    ASSUME Transported, NEW t \in Threads,
           NEW status \in {"ok", "unregistered", "error"},
           NEW totals \in Gateway!Counters, Finish(t, status, totals)
    PROVE  /\ Transported'
           /\ Respond(job[t], status, totals)
           /\ wire' = wire
           /\ asked' = asked
           /\ \A u \in Threads \ {t} : job'[u] = job[u]
<1>1. Respond(job[t], status, totals) /\ wire' = wire /\ job' = [job EXCEPT ![t] = NoRequest]
  BY DEF Finish
<1> QED
  BY <1>1, RespondTypes DEF Transported

\* A call that is answered leaves the thread idle.
LEMMA Returned ==
    ASSUME Registry, NEW t \in Threads, Gateway!Return(t)
    PROVE  /\ pc'[t] = "idle"
           /\ \A u \in Threads \ {t} : pc'[u] = pc[u] /\ copied'[u] = copied[u]
  BY DEF Registry, Gateway!TypeOK, Gateway!Return

-----------------------------------------------------------------------------
(* POST /v1/runs/start *)

LEMMA StartTaken ==
    ASSUME IInv, NEW t \in Threads, NEW m \in wire, m.kind = "start",
           Gateway!StartUnknown(t, RunId), TakeUp(t, m), UNCHANGED edge
    PROVE  IInv'
<1>1. Registry' /\ Transported'
  BY StartKeeps, TakeUpKeeps DEF IInv
<1>2. UNCHANGED <<asked, reply, delivered, forgotten>> /\ wire' \subseteq wire
  BY TakeUpKeeps DEF IInv
<1>3. /\ UNCHANGED <<runs, copied>>
      /\ pc'[t] = "starting"
      /\ \A u \in Threads \ {t} : pc'[u] = pc[u]
  BY DEF Gateway!StartUnknown, IInv, Registry, Gateway!TypeOK
<1>4. Serving'
  BY <1>3, TakeUpKeeps DEF IInv, Serving
<1>5. NotFinished'
  BY <1>2, <1>3 DEF IInv, NotFinished, edge
<1>6. Known' /\ RefusedOnlyAfterRestart'
  BY <1>2, <1>3 DEF IInv, Known, RefusedOnlyAfterRestart, Answered, edge
<1>7. Covered'
  BY <1>2, <1>3 DEF IInv, Covered, Answered, edge
<1> QED
  BY <1>1, <1>2, <1>4, <1>5, <1>6, <1>7, EdgeIdle DEF IInv

\* A start that is answered at once, from a run the gateway has.
LEMMA StartAnswered ==
    ASSUME IInv, NEW t \in Threads, NEW m \in wire, m.kind = "start",
           NEW totals \in Gateway!Counters, AnswerAtOnce(t, m, "ok", totals),
           Registry', runs' = runs, pc' = pc, copied' = copied,
           runs[RunId].status # "absent", UNCHANGED edge
    PROVE  IInv'
<1>1. Transported' /\ wire' \subseteq wire /\ job' = job /\ asked' = asked
  BY AnswerKeeps DEF IInv
<1>2. /\ delivered' = delivered
      /\ forgotten' => forgotten
      /\ reply' = reply \/ (asked.kind = "start" /\ reply'.status = "ok")
  BY AnswerKeeps, RespondSays DEF IInv, Transported
<1>3. Serving'
  BY <1>1 DEF IInv, Serving
<1>4. NotFinished'
  BY <1>1 DEF IInv, NotFinished, edge
<1>5. Known'
  BY <1>1 DEF Known
<1>6. RefusedOnlyAfterRestart'
  <2>1. m = asked => reply'.status = "ok"
    BY AnswerKeeps, RespondSays DEF IInv
  <2>2. m # asked => reply' = reply /\ forgotten' = forgotten
    BY AnswerKeeps, RespondSays DEF IInv
  <2> QED
    BY <2>1, <2>2 DEF IInv, RefusedOnlyAfterRestart, Answered
<1>7. Covered'
  BY <1>1, <1>2 DEF IInv, Covered, Answered, edge
<1> QED
  BY <1>1, <1>3, <1>4, <1>5, <1>6, <1>7, EdgeIdle DEF IInv

LEMMA ServeStartKeeps ==
    ASSUME IInv, NEW t \in Threads, NEW m \in wire, ServeStart(t, m), UNCHANGED edge
    PROVE  IInv'
<1>1. CASE Gateway!StartUnknown(t, RunId) /\ TakeUp(t, m)
  BY <1>1, StartTaken DEF ServeStart
<1>2. CASE /\ runs[RunId].status \in {"active", "finishing"}
           /\ AnswerAtOnce(t, m, "ok", Gateway!Zero)
           /\ UNCHANGED gateway
  <2>1. Registry' /\ Gateway!Zero \in Gateway!Counters
    BY <1>2, GatewayIdle, RecordTypes DEF IInv
  <2> QED
    BY <1>2, <2>1, StartAnswered DEF ServeStart, gateway
<1>3. CASE /\ Gateway!ReplayFinished(t, RunId)
           /\ AnswerAtOnce(t, m, "ok", runs[RunId].finished_metrics)
  <2>1. Registry' /\ runs[RunId].finished_metrics \in Gateway!Counters
    BY <1>3, ReplayKeeps, OneRun DEF IInv, Registry, Gateway!Run
  <2>2. runs[RunId].status = "finished" /\ UNCHANGED <<runs, pc, copied>>
    BY <1>3 DEF Gateway!ReplayFinished
  <2> QED
    BY <1>3, <2>1, <2>2, StartAnswered DEF ServeStart
<1> QED
  BY <1>1, <1>2, <1>3 DEF ServeStart

\* The run is there when the start is answered.
LEMMA RegisteredKeeps ==
    ASSUME IInv, NEW t \in Threads, Gateway!Register(t), Finish(t, "ok", Gateway!Zero),
           UNCHANGED edge
    PROVE  IInv'
<1>1. job[t].kind = "start" /\ Gateway!Zero \in Gateway!Counters
  BY RecordTypes DEF IInv, Serving, Gateway!Register
<1>2. Transported' /\ wire' = wire /\ asked' = asked
  BY <1>1, FinishAnswers DEF IInv
<1>3. Registry'
  BY RegisterKeeps DEF IInv
<1>4. /\ delivered' = delivered
      /\ forgotten' => forgotten
      /\ reply' = reply \/ (asked.kind = "start" /\ reply'.status = "ok")
      /\ reply'.status = "unregistered" => reply' = reply /\ forgotten' = forgotten
  BY <1>1, FinishAnswers, RespondSays DEF IInv, Transported
<1>5. /\ runs'[RunId].status \in {runs[RunId].status, "active"} \ {"absent"}
      /\ runs'[RunId].succeeded = runs[RunId].succeeded
  <2>1. run[t] = RunId /\ runs \in [{RunId} -> Gateway!Run]
    BY OneRun DEF IInv, Registry
  <2>2. runs'[RunId] = IF runs[RunId].status = "absent" THEN Gateway!FreshRun ELSE runs[RunId]
    BY <2>1 DEF Gateway!Register
  <2> QED
    BY <2>2, RecordTypes DEF IInv, Registry
<1>6. pc'[t] = "idle" /\ \A u \in Threads \ {t} : pc'[u] = pc[u] /\ copied'[u] = copied[u]
  BY Returned DEF IInv, Gateway!Register
<1>7. Serving'
  BY <1>1, <1>6, FinishAnswers DEF IInv, Serving
<1>8. NotFinished'
  BY <1>2, <1>5, <1>6 DEF IInv, NotFinished, edge
<1>9. Known'
  BY <1>5 DEF Known
<1>10. RefusedOnlyAfterRestart'
  BY <1>4 DEF IInv, RefusedOnlyAfterRestart, Answered
<1>11. Covered'
  BY <1>2, <1>4, <1>5, <1>6 DEF IInv, Covered, Answered, edge
<1> QED
  BY <1>2, <1>3, <1>7, <1>8, <1>9, <1>10, <1>11, EdgeIdle DEF IInv

-----------------------------------------------------------------------------
(* POST /v1/inspect *)

LEMMA InspectTaken ==
    ASSUME IInv, NEW t \in Threads, NEW m \in wire, m.kind = "inspect",
           Gateway!BeginRequest(t, RunId, 1), TakeUp(t, m), UNCHANGED edge
    PROVE  IInv'
<1>1. Registry' /\ Transported'
  BY BeginKeeps, TakeUpKeeps DEF IInv
<1>2. UNCHANGED <<asked, reply, delivered, forgotten>> /\ wire' \subseteq wire
  BY TakeUpKeeps DEF IInv
<1>3. /\ runs'[RunId].succeeded = runs[RunId].succeeded
      /\ runs'[RunId].status = runs[RunId].status
  BY BeginKeeps DEF IInv
<1>4. copied' = copied /\ pc'[t] = "inspecting" /\ \A u \in Threads \ {t} : pc'[u] = pc[u]
  BY DEF Gateway!BeginRequest, IInv, Registry, Gateway!TypeOK
<1>5. Serving'
  BY <1>4, TakeUpKeeps DEF IInv, Serving
<1>6. NotFinished'
  BY <1>2, <1>3, <1>4 DEF IInv, NotFinished, edge
<1>7. Known' /\ RefusedOnlyAfterRestart'
  BY <1>2, <1>3 DEF IInv, Known, RefusedOnlyAfterRestart, Answered, edge
<1>8. Covered'
  BY <1>2, <1>3, <1>4 DEF IInv, Covered, Answered, edge
<1> QED
  BY <1>1, <1>2, <1>5, <1>6, <1>7, <1>8, EdgeIdle DEF IInv

\* The session waits for this inspection, so it holds the run for registered and
\* has not asked for its end: only a gateway that forgot the run refuses it.
LEMMA InspectRefused ==
    ASSUME IInv, NEW t \in Threads, NEW m \in wire, m.kind = "inspect",
           Gateway!Refuses(RunId), AnswerAtOnce(t, m, "unregistered", Gateway!Zero),
           UNCHANGED gateway, UNCHANGED edge
    PROVE  IInv'
<1>1. Transported' /\ wire' \subseteq wire /\ job' = job /\ asked' = asked
  BY AnswerKeeps, RecordTypes DEF IInv
<1>2. /\ delivered' = delivered
      /\ forgotten' = forgotten
      /\ reply' = reply \/ (m = asked /\ reply'.status = "unregistered")
  BY AnswerKeeps, RecordTypes, RespondSays DEF IInv, Transported
<1>3. Registry'
  BY GatewayIdle DEF IInv
<1>4. m = asked => at = "inspecting" /\ registered
  BY RequestTypes DEF IInv, Edged, Asking, Places, InReview
<1>5. m = asked => runs[RunId].status = "absent"
  BY <1>4 DEF IInv, NotFinished, Gateway!Refuses
<1>6. m = asked => forgotten
  BY <1>4, <1>5 DEF IInv, Known, Transported
<1>7. Serving'
  BY <1>1 DEF IInv, Serving, gateway
<1>8. NotFinished'
  BY <1>1 DEF IInv, NotFinished, gateway, edge
<1>9. RefusedOnlyAfterRestart'
  BY <1>2, <1>6 DEF IInv, RefusedOnlyAfterRestart, Answered
<1>10. Known'
  BY <1>1, <1>2 DEF IInv, Known, Answered, gateway, edge
<1>11. Covered'
  BY <1>1, <1>2 DEF IInv, Covered, Answered, gateway, edge
<1> QED
  BY <1>1, <1>3, <1>7, <1>8, <1>9, <1>10, <1>11, EdgeIdle DEF IInv

LEMMA ServeInspectKeeps ==
    ASSUME IInv, NEW t \in Threads, NEW m \in wire, ServeInspect(t, m), UNCHANGED edge
    PROVE  IInv'
  BY InspectTaken, InspectRefused DEF ServeInspect

\* A result is delivered only to a session that waits for it, and which has then
\* not asked for its metrics.
LEMMA InspectedKeeps ==
    ASSUME IInv, NEW t \in Threads, NEW success \in BOOLEAN, Inspected(t, success),
           UNCHANGED edge
    PROVE  IInv'
<1> DEFINE status == IF success THEN "ok" ELSE "error"
<1>1. /\ Gateway!FinishRequest(t, success)
      /\ Finish(t, status, Gateway!Zero)
      /\ status \in {"ok", "unregistered", "error"}
      /\ status # "unregistered"
      /\ status = "ok" => success
  BY DEF Inspected
<1> HIDE DEF status
<1>2. job[t].kind = "inspect" /\ Gateway!Zero \in Gateway!Counters
  BY <1>1, RecordTypes DEF IInv, Serving, Gateway!FinishRequest
<1>3. Transported' /\ wire' = wire /\ asked' = asked
  BY <1>1, <1>2, FinishAnswers DEF IInv
<1>4. /\ Registry'
      /\ runs'[RunId].succeeded = runs[RunId].succeeded + (IF success THEN 1 ELSE 0)
      /\ runs'[RunId].status = runs[RunId].status
  BY <1>1, EndKeeps DEF IInv
<1>5. /\ forgotten' = forgotten
      /\ reply' = reply \/ (asked.kind = "inspect" /\ reply'.status # "unregistered")
      /\ delivered' = delivered \/ (delivered' = delivered + 1 /\ success /\ asked.kind = "inspect")
  BY <1>1, <1>2, FinishAnswers, RespondSays DEF IInv, Transported
<1>6. pc'[t] = "idle" /\ \A u \in Threads \ {t} : pc'[u] = pc[u] /\ copied'[u] = copied[u]
  BY <1>1, Returned DEF IInv, Gateway!FinishRequest
<1>7. Serving'
  BY <1>1, <1>2, <1>6, FinishAnswers DEF IInv, Serving
<1>8. NotFinished'
  BY <1>3, <1>4, <1>6 DEF IInv, NotFinished, edge
<1>9. Known'
  BY <1>3, <1>4, <1>5 DEF IInv, Known, Answered, edge
<1>10. RefusedOnlyAfterRestart'
  BY <1>5 DEF IInv, RefusedOnlyAfterRestart, Answered
<1>11. Covered'
  <2>1. runs[RunId].succeeded \in Nat /\ delivered \in Nat
    BY OneRun DEF IInv, Registry, Transported, Gateway!Run
  <2>2. CASE delivered' = delivered
    <3>1. asked.kind = "finish" => reply' = reply
      BY <1>5
    <3> QED
      BY <1>3, <1>4, <1>6, <2>1, <2>2, <3>1 DEF IInv, Covered, Answered, edge
  <2>3. CASE delivered' = delivered + 1 /\ success /\ asked.kind = "inspect"
    <3>1. at = "inspecting"
      BY <2>3 DEF IInv, Edged, Asking, Places, InReview
    <3>2. report = {} /\ \A u \in Threads : pc[u] # "sampling"
      BY <3>1 DEF IInv, Covered, NotFinished
    <3> QED
      BY <1>3, <1>4, <1>6, <2>1, <2>3, <3>2 DEF IInv, Covered, Answered, edge
  <2> QED
    BY <1>5, <2>2, <2>3
<1> QED
  BY <1>3, <1>4, <1>7, <1>8, <1>9, <1>10, <1>11, EdgeIdle DEF IInv

-----------------------------------------------------------------------------
(* POST /v1/runs/finish *)

\* Whoever waits or copies, what is copied covers what was delivered.
LEMMA CopyCovers ==
    ASSUME Registry, NEW t \in Threads, Gateway!DrainOrCopy(t, RunId, runs[RunId])
    PROVE  /\ pc'[t] \in {"draining", "sampling"}
           /\ \A u \in Threads \ {t} : pc'[u] = pc[u] /\ copied'[u] = copied[u]
           /\ pc'[t] = "sampling" => copied'[t].succeeded = runs[RunId].succeeded
  BY DEF Registry, Gateway!TypeOK, Gateway!DrainOrCopy, Gateway!Totals

LEMMA FinishTaken ==
    ASSUME IInv, NEW t \in Threads, NEW m \in wire, m.kind = "finish",
           Gateway!FinishActive(t, RunId), TakeUp(t, m), UNCHANGED edge
    PROVE  IInv'
<1>1. Registry' /\ Transported'
  BY FinishKeeps, TakeUpKeeps DEF IInv
<1>2. UNCHANGED <<asked, reply, delivered, forgotten>> /\ wire' \subseteq wire
  BY TakeUpKeeps DEF IInv
<1>3. /\ runs'[RunId].succeeded = runs[RunId].succeeded
      /\ runs'[RunId].status = "finishing"
  BY OneRun DEF IInv, Registry, Gateway!FinishActive, Gateway!Run
<1>4. Gateway!DrainOrCopy(t, RunId, runs[RunId])
  BY DEF Gateway!FinishActive
<1>5. Serving'
  BY <1>4, CopyCovers, TakeUpKeeps DEF IInv, Serving
<1>6. NotFinished'
  BY DEF IInv, NotFinished, edge
<1>7. Known' /\ RefusedOnlyAfterRestart'
  BY <1>2, <1>3 DEF IInv, Known, RefusedOnlyAfterRestart, Answered, edge
<1>8. Covered'
  BY <1>2, <1>3, <1>4, CopyCovers DEF IInv, Covered, Answered, edge
<1> QED
  BY <1>1, <1>2, <1>5, <1>6, <1>7, <1>8, EdgeIdle DEF IInv

LEMMA FinishRejected ==
    ASSUME IInv, NEW t \in Threads, NEW m \in wire, m.kind = "finish",
           AnswerAtOnce(t, m, "error", Gateway!Zero), UNCHANGED gateway, UNCHANGED edge
    PROVE  IInv'
<1>1. Transported' /\ wire' \subseteq wire /\ job' = job /\ asked' = asked
  BY AnswerKeeps, RecordTypes DEF IInv
<1>2. /\ delivered' = delivered
      /\ forgotten' = forgotten
      /\ reply' = reply \/ reply'.status = "error"
  BY AnswerKeeps, RecordTypes, RespondSays DEF IInv, Transported
<1>3. Registry'
  BY GatewayIdle DEF IInv
<1>4. Serving'
  BY <1>1 DEF IInv, Serving, gateway
<1>5. NotFinished'
  BY <1>1 DEF IInv, NotFinished, gateway, edge
<1>6. Known' /\ RefusedOnlyAfterRestart'
  BY <1>1, <1>2 DEF IInv, Known, RefusedOnlyAfterRestart, Answered, gateway, edge
<1>7. Covered'
  BY <1>1, <1>2 DEF IInv, Covered, Answered, gateway, edge
<1> QED
  BY <1>1, <1>3, <1>4, <1>5, <1>6, <1>7, EdgeIdle DEF IInv

LEMMA ServeFinishKeeps ==
    ASSUME IInv, NEW t \in Threads, NEW m \in wire, ServeFinish(t, m), UNCHANGED edge
    PROVE  IInv'
  BY FinishTaken, FinishRejected DEF ServeFinish

LEMMA DrainedStep ==
    ASSUME IInv, NEW t \in Threads, Gateway!Drained(t), UNCHANGED <<transport, history>>,
           UNCHANGED edge
    PROVE  IInv'
<1>1. Registry'
  BY DrainedKeeps DEF IInv
<1>2. Transported'
  BY DEF IInv, Transported, transport, history
<1>3. runs' = runs /\ pc[t] = "draining" /\ Gateway!DrainOrCopy(t, RunId, runs[RunId])
  BY OneRun DEF IInv, Registry, Gateway!Drained
<1>4. job[t].kind = "finish"
  BY <1>3 DEF IInv, Serving
<1>5. Serving'
  BY <1>3, <1>4, CopyCovers DEF IInv, Serving, transport
<1>6. NotFinished'
  BY <1>3, CopyCovers DEF IInv, NotFinished, transport, edge
<1>7. Known' /\ RefusedOnlyAfterRestart'
  BY <1>3 DEF IInv, Known, RefusedOnlyAfterRestart, Answered, transport, history, edge
<1>8. Covered'
  BY <1>3, CopyCovers DEF IInv, Covered, Answered, transport, history, edge
<1> QED
  BY <1>1, <1>2, <1>5, <1>6, <1>7, <1>8, EdgeIdle DEF IInv, transport

LEMMA PublishedKeeps ==
    ASSUME IInv, NEW t \in Threads, Gateway!Publish(t), Finish(t, "ok", copied[t]),
           UNCHANGED edge
    PROVE  IInv'
<1>1. /\ job[t].kind = "finish" /\ pc[t] = "sampling"
      /\ copied[t] \in Gateway!Counters
  BY DEF IInv, Registry, Gateway!TypeOK, Serving, Gateway!Publish
<1>2. Transported' /\ wire' = wire /\ asked' = asked
  BY <1>1, FinishAnswers DEF IInv
<1>3. /\ Registry'
      /\ runs'[RunId].succeeded = runs[RunId].succeeded
      /\ runs'[RunId].status = "finished"
  BY PublishKeeps DEF IInv
<1>4. /\ forgotten' = forgotten
      /\ delivered' = delivered
      /\ reply' = reply
           \/ (asked.kind = "finish" /\ reply'.status = "ok" /\ reply'.totals = copied[t])
  BY <1>1, FinishAnswers, RespondSays DEF IInv, Transported
<1>5. pc'[t] = "idle" /\ \A u \in Threads \ {t} : pc'[u] = pc[u] /\ copied'[u] = copied[u]
  BY Returned DEF IInv, Gateway!Publish
<1>6. Serving'
  BY <1>1, <1>5, FinishAnswers DEF IInv, Serving
<1>7. NotFinished'
  BY <1>1 DEF IInv, NotFinished, edge
<1>8. Known'
  BY <1>3 DEF Known
<1>9. RefusedOnlyAfterRestart'
  BY <1>4 DEF IInv, RefusedOnlyAfterRestart, Answered
<1>10. Covered'
  BY <1>1, <1>2, <1>3, <1>4, <1>5 DEF IInv, Covered, Answered, edge
<1> QED
  BY <1>2, <1>3, <1>6, <1>7, <1>8, <1>9, <1>10, EdgeIdle DEF IInv

-----------------------------------------------------------------------------
(* The session. *)

LEMMA ServeKeeps ==
    ASSUME IInv, NEW t \in Threads, Serve(t)
    PROVE  IInv'
<1>1. UNCHANGED edge
  BY DEF Serve
<1>2. CASE \E m \in wire : ServeStart(t, m) \/ ServeInspect(t, m) \/ ServeFinish(t, m)
  BY <1>1, <1>2, ServeStartKeeps, ServeInspectKeeps, ServeFinishKeeps
<1>3. CASE Work(t)
  BY <1>1, <1>3, RegisteredKeeps, DrainedStep, PublishedKeeps, InspectedKeeps DEF Work
<1> QED
  BY <1>2, <1>3 DEF Serve

LEMMA CoolKeeps ==
    ASSUME IInv, Cool
    PROVE  IInv'
<1> USE DEF Cool, gateway, transport, history
<1>1. Registry'
  BY GatewayIdle DEF IInv
<1>2. Edged' /\ Transported' /\ Asking' /\ HalfOpenIsProbe'
  BY DEF IInv, Edged, Transported, Asking, HalfOpenIsProbe
<1>3. Serving' /\ NotFinished'
  BY DEF IInv, Serving, NotFinished
<1>4. Known' /\ Covered' /\ RefusedOnlyAfterRestart'
  BY DEF IInv, Known, Covered, RefusedOnlyAfterRestart, Answered
<1> QED
  BY <1>1, <1>2, <1>3, <1>4 DEF IInv

LEMMA RestartStep ==
    ASSUME IInv, Restart
    PROVE  IInv'
<1>1. Registry' /\ runs'[RunId] = Gateway!NoRun
  BY RestartKeeps DEF IInv, Restart
<1>2. UNCHANGED edge /\ UNCHANGED <<asked, reply, wire>> /\ delivered' = 0 /\ forgotten'
  BY DEF Restart
<1>3. Transported'
  BY <1>2 DEF IInv, Transported, Restart
<1>4. \A t \in Threads : pc'[t] = "idle"
  BY DEF Restart, Gateway!Restart
<1>5. Serving'
  BY <1>4 DEF Serving
<1>6. NotFinished'
  BY <1>1, <1>2, <1>4, RecordTypes DEF IInv, NotFinished, edge
<1>7. Known' /\ RefusedOnlyAfterRestart'
  BY <1>2 DEF Known, RefusedOnlyAfterRestart
<1>8. Covered'
  <2>1. \A totals \in report : 0 <= totals.succeeded
    BY DEF IInv, Edged, Gateway!Counters
  <2>2. asked.kind = "finish" /\ Answered("ok") => 0 <= reply.totals.succeeded
    BY RequestTypes DEF IInv, Transported, Answered, Gateway!Counters
  <2> QED
    BY <1>1, <1>2, <1>4, <2>1, <2>2, RecordTypes DEF IInv, Covered, Answered, edge
<1> QED
  BY <1>1, <1>2, <1>3, <1>5, <1>6, <1>7, <1>8, EdgeIdle DEF IInv

\* IInv holds in every reachable state, for any number of images, handler
\* threads and restarts and any breaker threshold.
THEOREM Inductive == Spec => []IInv
<1>1. Init => IInv
  <2> SUFFICES ASSUME Init PROVE IInv
    OBVIOUS
  <2>1. Gateway!NoCall \in {RunId}
    BY DEF Gateway!NoCall
  <2>2. Gateway!TypeOK
    BY <2>1, RecordTypes DEF Init, Gateway!Init, Gateway!TypeOK, Gateway!Pc
  <2>3. (\A t \in Threads : pc[t] = "idle") /\ runs[RunId] = Gateway!NoRun
    BY DEF Init, Gateway!Init
  <2>4. Gateway!InFlightExact
    <3>1. Gateway!Inspecting(RunId) = {}
      BY <2>3 DEF Gateway!Inspecting
    <3> QED
      BY <2>3, <3>1, FS_EmptySet, SameCardinality, RecordTypes DEF Gateway!InFlightExact
  <2>5. Registry
    BY <2>2, <2>3, <2>4 DEF Registry
  <2>6. Edged
    <3>1. 0 \in 0..Tasks
      BY SessionAssumption
    <3>2. counted \in [1..Tasks -> Nat]
      BY DEF Init
    <3>3. breaker \in Breaker
      BY BreakerTypes DEF Init
    <3> QED
      BY <3>1, <3>2, <3>3 DEF Init, Edged, Places, InReview
  <2>7. Transported
    BY DEF Init, Transported
  <2>8. Asking /\ Serving /\ NotFinished
    BY <2>3, RequestTypes, RecordTypes DEF Init, Asking, Serving, NotFinished
  <2>9. Known /\ Covered /\ RefusedOnlyAfterRestart /\ HalfOpenIsProbe
    BY <2>3, RequestTypes, RecordTypes, BreakerTypes
    DEF Init, Known, Covered, RefusedOnlyAfterRestart, HalfOpenIsProbe, Answered
  <2> QED
    BY <2>5, <2>6, <2>7, <2>8, <2>9 DEF IInv
<1>2. IInv /\ [Next]_vars => IInv'
  <2> SUFFICES ASSUME IInv, [Next]_vars PROVE IInv'
    OBVIOUS
  <2>1. CASE Edge
    BY <2>1, EdgeKeeps
  <2>2. CASE Cool
    BY <2>2, CoolKeeps
  <2>3. CASE Restart
    BY <2>3, RestartStep
  <2>4. CASE \E t \in Threads : Serve(t)
    BY <2>4, ServeKeeps
  <2>5. CASE UNCHANGED vars
    <3> USE <2>5 DEF vars, edge, transport, history
    <3>1. Registry' /\ Edged' /\ Asking' /\ HalfOpenIsProbe'
      BY GatewayIdle, EdgeIdle DEF IInv
    <3>2. Transported' /\ Serving' /\ NotFinished'
      BY DEF IInv, Transported, Serving, NotFinished, gateway
    <3>3. Known' /\ Covered' /\ RefusedOnlyAfterRestart'
      BY DEF IInv, Known, Covered, RefusedOnlyAfterRestart, Answered, gateway
    <3> QED
      BY <3>1, <3>2, <3>3 DEF IInv
  <2> QED
    BY <2>1, <2>2, <2>3, <2>4, <2>5 DEF Next
<1> QED
  BY <1>1, <1>2, PTL DEF Spec

\* The variables of a session keep their types.
THEOREM TypeCorrect == Spec => []TypeOK
<1>1. IInv => TypeOK
  BY DEF IInv, Registry, Edged, Transported, TypeOK
<1> QED
  BY <1>1, Inductive, PTL

\* However calls fail, the breaker is half-open only inside the probe.
THEOREM ProbeOnly == Spec => []HalfOpenIsProbe
BY Inductive, PTL DEF IInv

\* A session's inspection is refused only by a gateway that was restarted since
\* it confirmed the run.
THEOREM RefusedCorrect == Spec => []RefusedOnlyAfterRestart
BY Inductive, PTL DEF IInv

\* Results reach the edge counted, and its run metrics cover them.
THEOREM DeliveredCorrect == Spec => []DeliveredIsCounted
<1>1. IInv => DeliveredIsCounted
  BY DEF IInv, Covered, DeliveredIsCounted
<1> QED
  BY <1>1, Inductive, PTL

\* After a failure the breaker is not closed, at the default threshold.
FailedOpens == failed => breaker.state # "closed"

LEMMA FailureOpens ==
    ASSUME Threshold = 1
    PROVE  Spec => []FailedOpens
<1>1. \A b \in Breaker, force \in BOOLEAN : Failed(b, force).state = "open"
  BY ThresholdAssumption DEF Breaker, Failed, Opens
<1>2. Init => FailedOpens
  BY DEF Init, FailedOpens
<1>3. IInv /\ FailedOpens /\ [Next]_vars => FailedOpens'
  <2> SUFFICES ASSUME IInv, FailedOpens, [Next]_vars PROVE FailedOpens'
    OBVIOUS
  <2>1. CASE Edge
    <3>1. \/ failed' = failed /\ breaker' = breaker
          \/ CloudFailed(TRUE) \/ CloudFailed(FALSE) \/ CloudWorked
          \/ failed' = failed /\ breaker' = Admitted(breaker)
      BY <2>1
      DEF Edge, Boot, BootRegistered, BootFails, EdgeTask, CloudTask, Registered,
          RegistrationFails, ReadImage, Unreadable,
          Reviewed, InspectionFails, LastTaskDone, RunFinished,
          FinishFails
    <3>2. breaker \in Breaker
      BY DEF IInv, Edged
    <3>3. Admitted(breaker).state = "closed" => breaker.state = "closed"
      BY <3>2 DEF Admitted, Breaker
    <3>4. CASE CloudFailed(TRUE) \/ CloudFailed(FALSE)
      BY <1>1, <3>2, <3>4 DEF FailedOpens, CloudFailed
    <3>5. CASE CloudWorked
      BY <3>5 DEF FailedOpens, CloudWorked
    <3>6. CASE failed' = failed /\ breaker' \in {breaker, Admitted(breaker)}
      BY <3>3, <3>6 DEF FailedOpens
    <3> QED
      BY <3>1, <3>4, <3>5, <3>6
  <2>2. CASE ~ Edge
    BY <2>2 DEF Next, Cool, Restart, Serve, edge, vars, FailedOpens
  <2> QED
    BY <2>1, <2>2
<1> QED
  BY <1>2, <1>3, Inductive, PTL DEF Spec

\* With the default threshold every attempt after a failure waits for the
\* recovery timeout to pass.
THEOREM AttemptsCorrect ==
    ASSUME Threshold = 1
    PROVE  Spec => AttemptsSpaced
<1>1. ASSUME FailedOpens, [Next]_vars, IInv
      PROVE  [at = "between" /\ at' \in InReview /\ failed => cooled]_vars
  <2>1. CASE CloudTask
    BY <1>1, <2>1 DEF CloudTask, Admits, FailedOpens, InReview
  <2>2. CASE Edge /\ ~ CloudTask
    BY <2>2 DEF InReview, Edge, Boot, BootRegistered, BootFails, EdgeTask, Registered,
                RegistrationFails, ReadImage, Unreadable,
                Reviewed, InspectionFails, LastTaskDone, RunFinished,
                FinishFails
  <2>3. CASE ~ Edge
    <3>1. at' = at \/ at \in InReview
      BY <1>1, <2>3 DEF Next, Cool, Restart, Serve, edge, vars
    <3> QED
      BY <3>1 DEF InReview
  <2> QED
    BY <2>1, <2>2, <2>3
<1> QED
  BY <1>1, FailureOpens, Inductive, PTL DEF Spec, AttemptsSpaced

-----------------------------------------------------------------------------
(* What is added to the upload volume.  The request of a task is added up    *)
(* again only by a task that fails before its own request: the condition of  *)
(* the finding that the run StaleMetrics shows.                              *)

\* The tasks whose requests have not been added up yet.
Uncounted(n) == n > task \/ (n = task /\ at \in InReview)

\* The metrics that are kept are of a task begun; without a restart those a
\* failing registration would add up again are still those of no task.
OnceInv ==
    /\ metrics <= task
    /\ \A n \in 1..Tasks : Uncounted(n) => counted[n] = 0
    /\ restarts = 0 =>
           /\ ~ forgotten
           /\ at = "registering" => ~ registered
           /\ at # "done" /\ ~ registered => metrics = 0

\* The steps of the edge that add nothing up.
LEMMA NotCounting ==
    ASSUME IInv, OnceInv, counted' = counted,
           \/ task' = task /\ (at' \in InReview => at \in InReview)
           \/ task' = task + 1
    PROVE  \A n \in 1..Tasks : Uncounted(n)' => counted'[n] = 0
<1>1. task \in Nat
  BY SessionAssumption DEF IInv, Edged
<1> SUFFICES ASSUME NEW n \in 1..Tasks, Uncounted(n)'
             PROVE  Uncounted(n)
  BY DEF OnceInv
<1> QED
  BY <1>1 DEF Uncounted

\* The steps that end a review and add up metrics m.
LEMMA CountingOnce ==
    ASSUME IInv, OnceInv, NEW m \in Nat, m <= task, Count(m), at' = "between", task' = task
    PROVE  \A n \in 1..Tasks : Uncounted(n)' => counted'[n] = 0
<1>1. task \in Nat
  BY SessionAssumption DEF IInv, Edged
<1> SUFFICES ASSUME NEW n \in 1..Tasks, Uncounted(n)'
             PROVE  counted'[n] = 0
  OBVIOUS
<1>2. n > task
  BY DEF Uncounted, InReview
<1>3. counted[n] = 0
  BY <1>2 DEF OnceInv, Uncounted
<1> QED
  BY <1>1, <1>2, <1>3 DEF Count

LEMMA EdgeOnce ==
    ASSUME IInv, OnceInv, Edge
    PROVE  OnceInv'
<1>1. UNCHANGED <<gateway, forgotten>>
  BY EdgeApart
<1>2. restarts' = restarts /\ (restarts = 0 => ~ forgotten')
  BY <1>1 DEF OnceInv, gateway
<1>3. restarts = 0 => ~ Answered("unregistered")
  BY DEF IInv, RefusedOnlyAfterRestart, OnceInv
<1>4. registered \in BOOLEAN /\ task \in Nat /\ metrics \in Nat /\ metrics <= task
  BY SessionAssumption DEF IInv, Edged, OnceInv
<1>5. CASE Boot \/ BootRegistered \/ BootFails \/ LastTaskDone \/ RunFinished \/ FinishFails
  <2>1. counted' = counted /\ task' = task /\ at' \notin InReview /\ metrics' = metrics
    BY <1>5 DEF Boot, BootRegistered, BootFails, LastTaskDone, RunFinished, FinishFails,
                InReview
  <2>2. restarts = 0 /\ at' # "done" /\ ~ registered' => metrics' = 0
    BY <1>5 DEF OnceInv, Boot, BootRegistered, BootFails, LastTaskDone, RunFinished,
                FinishFails
  <2>3. at' # "registering"
    BY <2>1 DEF InReview
  <2> QED
    BY <1>2, <1>4, <2>1, <2>2, <2>3, NotCounting DEF OnceInv
<1>6. CASE EdgeTask \/ CloudTask
  <2>1. counted' = counted /\ task' = task + 1 /\ metrics' = metrics
    BY <1>6 DEF EdgeTask, CloudTask
  <2>2. /\ at' = "registering" => ~ registered'
        /\ restarts = 0 /\ at' # "done" /\ ~ registered' => metrics' = 0
    BY <1>6 DEF OnceInv, EdgeTask, CloudTask
  <2> QED
    BY <1>2, <1>4, <2>1, <2>2, NotCounting DEF OnceInv
<1>7. CASE Registered \/ ReadImage
  <2>1. /\ counted' = counted /\ task' = task /\ metrics' \in {metrics, 0}
        /\ at \in InReview /\ at' # "registering"
    BY <1>7 DEF Registered, ReadImage, InReview
  <2>2. registered'
    BY <1>7 DEF Registered, ReadImage, IInv, Asking
  <2> QED
    BY <1>2, <1>4, <2>1, <2>2, NotCounting DEF OnceInv
<1>8. CASE RegistrationFails \/ Unreadable
  <2>1. /\ at # "done" /\ at' = "between" /\ task' = task
        /\ registered' = registered /\ metrics' = metrics /\ Count(metrics)
    BY <1>8 DEF RegistrationFails, Unreadable
  <2>2. \A n \in 1..Tasks : Uncounted(n)' => counted'[n] = 0
    BY <1>4, <2>1, CountingOnce
  <2>3. restarts = 0 /\ ~ registered' => metrics' = 0
    BY <2>1 DEF OnceInv
  <2> QED
    BY <1>2, <1>4, <2>1, <2>2, <2>3 DEF OnceInv
<1>9. CASE Reviewed \/ InspectionFails
  <2>1. /\ at = "inspecting" /\ at' = "between" /\ task' = task /\ Count(task)
        /\ metrics' = task
    BY <1>9 DEF Reviewed, InspectionFails
  <2>2. registered
    BY <2>1 DEF IInv, Asking
  <2>3. restarts = 0 => registered'
    BY <1>3, <1>9, <2>2 DEF Reviewed, InspectionFails
  <2>4. \A n \in 1..Tasks : Uncounted(n)' => counted'[n] = 0
    BY <1>4, <2>1, CountingOnce
  <2> QED
    BY <1>2, <1>4, <2>1, <2>3, <2>4 DEF OnceInv
<1> QED
  BY <1>5, <1>6, <1>7, <1>8, <1>9 DEF Edge

\* Only a restart of the gateway is counted in restarts, or forgets a run.
LEMMA ServeRemembers ==
    ASSUME NEW t \in Threads, Serve(t)
    PROVE  restarts' = restarts /\ (forgotten' => forgotten)
<1>1. ASSUME Work(t)
      PROVE  restarts' = restarts /\ (forgotten' => forgotten)
  <2>1. CASE Gateway!Register(t) /\ Finish(t, "ok", Gateway!Zero)
    BY <2>1 DEF Finish, Respond, Gateway!Register
  <2>2. CASE Gateway!Drained(t) /\ UNCHANGED <<transport, history>>
    BY <2>2 DEF history, Gateway!Drained
  <2>3. CASE Gateway!Publish(t) /\ Finish(t, "ok", copied[t])
    BY <2>3 DEF Finish, Respond, Gateway!Publish
  <2>4. CASE \E success \in BOOLEAN : Inspected(t, success)
    <3>1. PICK success \in BOOLEAN : Inspected(t, success)
      BY <2>4
    <3>2. restarts' = restarts
      BY <3>1 DEF Inspected, Gateway!FinishRequest
    <3>3. Finish(t, IF success THEN "ok" ELSE "error", Gateway!Zero)
      BY <3>1 DEF Inspected
    <3> QED
      BY <3>2, <3>3 DEF Finish, Respond
  <2> QED
    BY <1>1, <2>1, <2>2, <2>3, <2>4 DEF Work
<1>2. ASSUME NEW m \in wire, ServeStart(t, m) \/ ServeInspect(t, m) \/ ServeFinish(t, m)
      PROVE  restarts' = restarts /\ (forgotten' => forgotten)
  <2>1. ASSUME TakeUp(t, m) PROVE forgotten' => forgotten
    BY <2>1 DEF TakeUp, history
  <2>2. ASSUME NEW status, NEW totals, AnswerAtOnce(t, m, status, totals)
        PROVE  forgotten' => forgotten
    BY <2>2 DEF AnswerAtOnce, Respond
  <2>3. CASE ServeStart(t, m)
    <3>1. CASE Gateway!StartUnknown(t, RunId) /\ TakeUp(t, m)
      BY <2>1, <3>1 DEF Gateway!StartUnknown
    <3>2. CASE AnswerAtOnce(t, m, "ok", Gateway!Zero) /\ UNCHANGED gateway
      BY <2>2, <3>2 DEF gateway
    <3>3. CASE /\ Gateway!ReplayFinished(t, RunId)
               /\ AnswerAtOnce(t, m, "ok", runs[RunId].finished_metrics)
      BY <2>2, <3>3 DEF Gateway!ReplayFinished
    <3> QED
      BY <2>3, <3>1, <3>2, <3>3 DEF ServeStart
  <2>4. CASE ServeInspect(t, m)
    <3>1. CASE Gateway!BeginRequest(t, RunId, 1) /\ TakeUp(t, m)
      BY <2>1, <3>1 DEF Gateway!BeginRequest
    <3>2. CASE AnswerAtOnce(t, m, "unregistered", Gateway!Zero) /\ UNCHANGED gateway
      BY <2>2, <3>2 DEF gateway
    <3> QED
      BY <2>4, <3>1, <3>2 DEF ServeInspect
  <2>5. CASE ServeFinish(t, m)
    <3>1. CASE Gateway!FinishActive(t, RunId) /\ TakeUp(t, m)
      BY <2>1, <3>1 DEF Gateway!FinishActive
    <3>2. CASE AnswerAtOnce(t, m, "error", Gateway!Zero) /\ UNCHANGED gateway
      BY <2>2, <3>2 DEF gateway
    <3> QED
      BY <2>5, <3>1, <3>2 DEF ServeFinish
  <2> QED
    BY <1>2, <2>3, <2>4, <2>5
<1> QED
  BY <1>1, <1>2 DEF Serve

LEMMA OnceKept == Spec => []OnceInv
<1>1. Init => OnceInv
  BY SessionAssumption DEF Init, OnceInv
<1>2. IInv /\ OnceInv /\ [Next]_vars => OnceInv'
  <2> SUFFICES ASSUME IInv, OnceInv, [Next]_vars PROVE OnceInv'
    OBVIOUS
  <2>1. CASE Edge
    BY <2>1, EdgeOnce
  <2>2. CASE Cool
    BY <2>2 DEF Cool, OnceInv, Uncounted, gateway, history
  <2>3. CASE Restart
    <3>1. restarts \in Nat
      BY DEF IInv, Registry, Gateway!TypeOK
    <3>2. restarts' # 0 /\ UNCHANGED edge
      BY <2>3, <3>1 DEF Restart, Gateway!Restart
    <3> QED
      BY <3>2 DEF OnceInv, Uncounted, edge
  <2>4. CASE \E t \in Threads : Serve(t)
    <3>1. PICK t \in Threads : Serve(t)
      BY <2>4
    <3>2. restarts' = restarts /\ (forgotten' => forgotten)
      BY <3>1, ServeRemembers
    <3>3. UNCHANGED edge
      BY <3>1 DEF Serve
    <3> QED
      BY <3>2, <3>3 DEF OnceInv, Uncounted, edge
  <2>5. CASE UNCHANGED vars
    BY <2>5 DEF vars, edge, gateway, history, OnceInv, Uncounted
  <2> QED
    BY <2>1, <2>2, <2>3, <2>4, <2>5 DEF Next
<1> QED
  BY <1>1, <1>2, Inductive, PTL DEF Spec

\* The request of a task that was added up before is added up again only by a task
\* whose image cannot be read, or whose re-registration fails after a restart of
\* the gateway: no other failure, and no late answer, counts an upload twice.
THEOREM CountedOnce ==
    Spec => [][\A n \in 1..Tasks : counted[n] > 0 /\ counted'[n] # counted[n]
                  => Unreadable \/ (RegistrationFails /\ restarts > 0)]_vars
<1>1. ASSUME IInv, OnceInv, [Next]_vars, NEW n \in 1..Tasks,
             counted[n] > 0, counted'[n] # counted[n]
      PROVE  Unreadable \/ (RegistrationFails /\ restarts > 0)
  <2>1. Edge
    BY <1>1 DEF Next, Cool, Restart, Serve, edge, vars
  <2>2. task \in Nat /\ counted \in [1..Tasks -> Nat]
    BY <1>1, SessionAssumption DEF IInv, Edged
  <2>3. CASE Reviewed \/ InspectionFails
    <3>1. at = "inspecting" /\ Count(task)
      BY <2>3 DEF Reviewed, InspectionFails
    <3>2. n = task
      BY <1>1, <2>2, <3>1 DEF Count
    <3>3. counted[n] = 0
      BY <1>1, <3>1, <3>2 DEF OnceInv, Uncounted, InReview
    <3> QED
      BY <1>1, <3>3
  <2>4. CASE RegistrationFails
    <3>1. at = "registering" /\ Count(metrics)
      BY <2>4 DEF RegistrationFails
    <3>2. n = metrics
      BY <1>1, <2>2, <3>1 DEF Count
    <3>3. n # 0
      BY SessionAssumption
    <3>4. restarts # 0
      BY <1>1, <3>1, <3>2, <3>3 DEF OnceInv
    <3>5. restarts \in Nat
      BY <1>1 DEF IInv, Registry, Gateway!TypeOK
    <3> QED
      BY <2>4, <3>4, <3>5
  <2>5. CASE ~ (Reviewed \/ InspectionFails \/ RegistrationFails \/ Unreadable)
    BY <1>1, <2>1, <2>5 DEF Edge, Boot, BootRegistered, BootFails, EdgeTask, CloudTask,
                            Registered, ReadImage, LastTaskDone, RunFinished, FinishFails
  <2> QED
    BY <2>3, <2>4, <2>5
<1>2. IInv /\ OnceInv /\ [Next]_vars =>
          [\A n \in 1..Tasks : counted[n] > 0 /\ counted'[n] # counted[n]
               => Unreadable \/ (RegistrationFails /\ restarts > 0)]_vars
  BY <1>1
<1> QED
  BY <1>2, OnceKept, Inductive, PTL DEF Spec

-----------------------------------------------------------------------------
(* The gateway serves all that is sent.  ServeFinish has no case for a run    *)
(* that is being finished, and GatewayRuns bounds the requests of a run: with *)
(* one finish and one inspection per image, neither leaves a request          *)
(* unserved.                                                                  *)

\* The images whose inspection is on the wire.
Pending == {n \in 0..Tasks : [kind |-> "inspect", task |-> n] \in wire}

\* The last image whose inspection can have been sent.
Sent == IF at \in {"registering", "reading"} THEN task - 1 ELSE task

Budget ==
    /\ \A n \in Pending : n <= Sent
    /\ runs[RunId].requests + Cardinality(Pending) <= Sent

FinishOnce ==
    /\ \A m, n \in wire : m.kind = "finish" /\ n.kind = "finish" => m = n
    /\ (\E m \in wire : m.kind = "finish") =>
           /\ runs[RunId].status \in {"absent", "active"}
           /\ \A t \in Threads : pc[t] \notin {"draining", "sampling"}

\* Every request on the wire meets a case of ServeInspect or ServeFinish (those of
\* ServeStart are all there are).
Servable ==
    \A m \in wire :
        /\ m.kind = "inspect" =>
               Gateway!Refuses(RunId) \/ runs[RunId].requests < Tasks
        /\ m.kind = "finish" => runs[RunId].status \in {"absent", "active"}

LEMMA PendingFinite == IsFiniteSet(Pending) /\ Cardinality(Pending) \in Nat
<1>1. Pending \subseteq 0..Tasks
  BY DEF Pending
<1>2. IsFiniteSet(0..Tasks)
  BY SessionAssumption, FS_Interval
<1> QED
  BY <1>1, <1>2, FS_Subset, FS_CardinalityType

\* The edge sends an inspection of the image after the last one, or none.
LEMMA EdgeSends ==
    ASSUME IInv, Edge
    PROVE  \/ Pending' = Pending /\ Sent <= Sent'
           \/ Pending' = Pending \union {Sent'} /\ Sent' = Sent + 1
<1>0. task \in Nat /\ Tasks \in Nat /\ task <= Tasks
  BY SessionAssumption DEF IInv, Edged
<1>1. ASSUME wire' = wire PROVE Pending' = Pending
  BY <1>1 DEF Pending
<1>2. ASSUME NEW kind \in {"start", "finish"}, NEW n, Send(kind, n)
      PROVE  Pending' = Pending
  BY <1>2 DEF Pending, Send
<1>3. ASSUME NEW n \in 0..Tasks, Send("inspect", n)
      PROVE  Pending' = Pending \union {n}
  BY <1>3 DEF Pending, Send
<1>4. CASE Boot
  BY <1>0, <1>2, <1>4 DEF Boot, Sent
<1>5. CASE CloudTask
  <2>1. task' = task + 1 /\ at = "between" /\ at' \in {"registering", "reading"}
    BY <1>5 DEF CloudTask
  <2>2. wire' = wire \/ Send("start", task + 1)
    BY <1>5 DEF CloudTask, transport
  <2>3. Pending' = Pending
    BY <1>1, <1>2, <2>2
  <2> QED
    BY <1>0, <2>1, <2>3 DEF Sent
<1>6. CASE ReadImage
  <2>1. at = "reading" /\ at' = "inspecting" /\ task' = task /\ Send("inspect", task)
    BY <1>6 DEF ReadImage
  <2>2. Pending' = Pending \union {task}
    BY <1>0, <1>3, <2>1
  <2> QED
    BY <1>0, <2>1, <2>2 DEF Sent
<1>9. CASE Registered
  <2>1. /\ at = "registering" /\ at' = "reading" /\ task' = task /\ wire' = wire
    BY <1>9 DEF Registered, EndCall
  <2> QED
    BY <1>0, <1>1, <2>1 DEF Sent
<1>7. CASE LastTaskDone
  <2>1. wire' = wire \/ Send("finish", Tasks)
    BY <1>7 DEF LastTaskDone, transport
  <2>2. Pending' = Pending
    BY <1>1, <1>2, <2>1
  <2>3. /\ at' \notin {"registering", "reading"} /\ at \notin {"registering", "reading"}
        /\ task' = task
    BY <1>7 DEF LastTaskDone
  <2> QED
    BY <1>0, <2>2, <2>3 DEF Sent
<1>8. CASE \/ BootRegistered \/ BootFails \/ EdgeTask \/ RegistrationFails \/ Unreadable
           \/ Reviewed \/ InspectionFails \/ RunFinished \/ FinishFails
  <2>1. wire' = wire
    BY <1>8 DEF BootRegistered, BootFails, EdgeTask, RegistrationFails, Unreadable,
                Reviewed, InspectionFails, RunFinished, FinishFails, EndCall, transport
  <2>2. at' \notin {"registering", "reading"} /\ task' \in {task, task + 1}
    BY <1>8 DEF BootRegistered, BootFails, EdgeTask, RegistrationFails, Unreadable,
                Reviewed, InspectionFails, RunFinished, FinishFails
  <2> QED
    BY <1>0, <1>1, <2>1, <2>2 DEF Sent
<1> QED
  BY <1>4, <1>5, <1>6, <1>7, <1>8, <1>9 DEF Edge

\* A finish is sent when none was sent and nobody finishes the run.
LEMMA EdgeFinishes ==
    ASSUME IInv, FinishOnce, Edge
    PROVE  FinishOnce'
<1>1. runs' = runs /\ pc' = pc
  BY EdgeApart DEF gateway
<1>2. CASE \A m \in wire' : m.kind = "finish" => m \in wire
  BY <1>1, <1>2 DEF FinishOnce
<1>3. CASE LastTaskDone /\ Send("finish", Tasks)
  <2>1. at = "between" /\ wire' = wire \union {asked'}
    BY <1>3 DEF LastTaskDone, Send
  <2>2. /\ \A m \in wire : m.kind # "finish"
        /\ \A t \in Threads : pc[t] \notin {"draining", "sampling"}
        /\ runs[RunId].status \in {"absent", "active"}
    BY <2>1 DEF IInv, NotFinished
  <2> QED
    BY <1>1, <2>1, <2>2 DEF FinishOnce
<1>4. ASSUME ~ (LastTaskDone /\ Send("finish", Tasks))
      PROVE  \A m \in wire' : m.kind = "finish" => m \in wire
  <2>1. ASSUME NEW kind \in {"start", "inspect"}, NEW n, Send(kind, n)
        PROVE  \A m \in wire' : m.kind = "finish" => m \in wire
    BY <2>1 DEF Send
  <2>2. CASE Boot
    BY <2>1, <2>2 DEF Boot
  <2>3. CASE CloudTask
    BY <2>1, <2>3 DEF CloudTask, transport
  <2>4. CASE ReadImage
    BY <2>1, <2>4 DEF ReadImage
  <2>5. CASE LastTaskDone
    BY <1>4, <2>5 DEF LastTaskDone, transport
  <2>6. CASE \/ BootRegistered \/ BootFails \/ EdgeTask \/ Registered \/ RegistrationFails
             \/ Unreadable \/ Reviewed \/ InspectionFails \/ RunFinished \/ FinishFails
    BY <2>6 DEF BootRegistered, BootFails, EdgeTask, Registered, RegistrationFails,
                Unreadable, Reviewed, InspectionFails, RunFinished, FinishFails, EndCall, transport
  <2> QED
    BY <2>2, <2>3, <2>4, <2>5, <2>6 DEF Edge
<1> QED
  BY <1>2, <1>3, <1>4

\* A thread takes an inspection off the wire when it counts one.
LEMMA ServeSpends ==
    ASSUME IInv, NEW t \in Threads, Serve(t)
    PROVE  /\ wire' \subseteq wire
           /\ \/ runs'[RunId].requests \in {runs[RunId].requests, 0}
              \/ \E n \in Pending : /\ Pending' = Pending \ {n}
                                    /\ runs'[RunId].requests = runs[RunId].requests + 1
<1>0. /\ run[t] = RunId /\ runs \in [{RunId} -> Gateway!Run] /\ runs[RunId] \in Gateway!Run
  BY OneRun DEF IInv, Registry
<1>1. CASE Work(t)
  <2>1. wire' = wire
    BY <1>1 DEF Work, Inspected, Finish, transport
  <2>2. runs'[RunId].requests \in {runs[RunId].requests, 0}
    <3>1. CASE Gateway!Register(t)
      BY <1>0, <3>1 DEF Gateway!Register, Gateway!FreshRun, Gateway!NoRun
    <3>2. CASE Gateway!Drained(t)
      BY <3>2 DEF Gateway!Drained
    <3>3. CASE Gateway!Publish(t)
      BY <1>0, <3>3 DEF Gateway!Publish, Gateway!Run
    <3>4. ASSUME NEW success \in BOOLEAN, Gateway!FinishRequest(t, success)
          PROVE  runs'[RunId].requests = runs[RunId].requests
      BY <1>0, <3>4 DEF Gateway!FinishRequest, Gateway!Run
    <3> QED
      BY <1>1, <3>1, <3>2, <3>3, <3>4 DEF Work, Inspected
  <2> QED
    BY <2>1, <2>2
<1>2. ASSUME NEW m \in wire, ServeStart(t, m) \/ ServeInspect(t, m) \/ ServeFinish(t, m)
      PROVE  /\ wire' = wire \ {m}
             /\ \/ runs'[RunId].requests = runs[RunId].requests
                \/ /\ m.kind = "inspect"
                   /\ runs'[RunId].requests = runs[RunId].requests + 1
  <2>1. wire' = wire \ {m}
    BY <1>2 DEF ServeStart, ServeInspect, ServeFinish, TakeUp, AnswerAtOnce
  <2>2. CASE ServeStart(t, m)
    <3>1. runs' = runs
      BY <2>2 DEF ServeStart, Gateway!StartUnknown, Gateway!ReplayFinished, gateway
    <3> QED
      BY <2>1, <3>1
  <2>3. CASE ServeInspect(t, m)
    <3>1. CASE Gateway!BeginRequest(t, RunId, 1)
      <4>1. runs'[RunId].requests = runs[RunId].requests + 1
        BY <1>0, <3>1 DEF Gateway!BeginRequest, Gateway!Run
      <4> QED
        BY <2>1, <2>3, <4>1 DEF ServeInspect
    <3>2. CASE UNCHANGED gateway
      BY <2>1, <3>2 DEF gateway
    <3> QED
      BY <2>3, <3>1, <3>2 DEF ServeInspect
  <2>4. CASE ServeFinish(t, m)
    <3>1. CASE Gateway!FinishActive(t, RunId)
      <4>1. runs'[RunId].requests = runs[RunId].requests
        BY <1>0, <3>1 DEF Gateway!FinishActive, Gateway!Run
      <4> QED
        BY <2>1, <4>1
    <3>2. CASE UNCHANGED gateway
      BY <2>1, <3>2 DEF gateway
    <3> QED
      BY <2>4, <3>1, <3>2 DEF ServeFinish
  <2> QED
    BY <1>2, <2>2, <2>3, <2>4
<1>3. CASE \E m \in wire : ServeStart(t, m) \/ ServeInspect(t, m) \/ ServeFinish(t, m)
  <2>1. PICK m \in wire : ServeStart(t, m) \/ ServeInspect(t, m) \/ ServeFinish(t, m)
    BY <1>3
  <2>2. m \in Request
    BY DEF IInv, Transported
  <2>3. ASSUME m.kind = "inspect"
        PROVE  m.task \in Pending /\ Pending' = Pending \ {m.task}
    <3>1. m = [kind |-> "inspect", task |-> m.task] /\ m.task \in 0..Tasks
      BY <2>2, <2>3 DEF Request
    <3>2. wire' = wire \ {m}
      BY <1>2, <2>1
    <3>3. \A n \in 0..Tasks : [kind |-> "inspect", task |-> n] = m <=> n = m.task
      BY <3>1
    <3> QED
      BY <3>1, <3>2, <3>3 DEF Pending
  <2> QED
    BY <1>2, <2>1, <2>3
<1> QED
  BY <1>1, <1>3 DEF Serve

\* A finish that is taken up was the only one.
LEMMA ServeFinishes ==
    ASSUME IInv, FinishOnce, NEW t \in Threads, Serve(t)
    PROVE  FinishOnce'
<1>0. /\ run[t] = RunId /\ runs \in [{RunId} -> Gateway!Run] /\ runs[RunId] \in Gateway!Run
      /\ pc \in [Threads -> Gateway!Pc]
  BY OneRun DEF IInv, Registry, Gateway!TypeOK
<1>1. wire' \subseteq wire
  BY ServeSpends
<1>2. \A m, n \in wire' : m.kind = "finish" /\ n.kind = "finish" => m = n
  BY <1>1 DEF FinishOnce
<1>3. SUFFICES ASSUME \E m \in wire' : m.kind = "finish"
               PROVE  /\ runs'[RunId].status \in {"absent", "active"}
                      /\ \A u \in Threads : pc'[u] \notin {"draining", "sampling"}
  BY <1>2 DEF FinishOnce
<1>4. /\ runs[RunId].status \in {"absent", "active"}
      /\ \A u \in Threads : pc[u] \notin {"draining", "sampling"}
  BY <1>1, <1>3 DEF FinishOnce
<1>5. CASE Gateway!Register(t)
  <2>1. \A u \in Threads : pc'[u] \in {pc[u], "idle"}
    BY <1>0, <1>5 DEF Gateway!Register, Gateway!Return
  <2>2. runs'[RunId].status \in {runs[RunId].status, "active"}
    BY <1>0, <1>5, RecordTypes DEF Gateway!Register
  <2> QED
    BY <1>4, <2>1, <2>2
<1>6. ~ Gateway!Drained(t) /\ ~ Gateway!Publish(t)
  BY <1>4 DEF Gateway!Drained, Gateway!Publish
<1>7. ASSUME NEW success \in BOOLEAN, Gateway!FinishRequest(t, success)
      PROVE  /\ runs'[RunId].status = runs[RunId].status
             /\ \A u \in Threads : pc'[u] \in {pc[u], "idle"}
  <2>1. runs'[RunId].status = runs[RunId].status
    BY <1>7, EndKeeps DEF IInv
  <2> QED
    BY <1>0, <1>7, <2>1 DEF Gateway!FinishRequest, Gateway!Return
<1>8. ASSUME NEW m \in wire, ServeStart(t, m) \/ ServeInspect(t, m) \/ ServeFinish(t, m)
      PROVE  /\ runs'[RunId].status = runs[RunId].status
             /\ \A u \in Threads : pc'[u] \in {pc[u], "starting", "inspecting"}
  <2>1. CASE ServeStart(t, m)
    <3>1. CASE Gateway!StartUnknown(t, RunId)
      BY <1>0, <3>1 DEF Gateway!StartUnknown
    <3>2. CASE UNCHANGED gateway \/ Gateway!ReplayFinished(t, RunId)
      BY <3>2 DEF gateway, Gateway!ReplayFinished
    <3> QED
      BY <2>1, <3>1, <3>2 DEF ServeStart
  <2>2. CASE ServeInspect(t, m)
    <3>1. CASE Gateway!BeginRequest(t, RunId, 1)
      <4>1. runs'[RunId].status = runs[RunId].status
        BY <3>1, BeginKeeps DEF IInv
      <4> QED
        BY <1>0, <3>1, <4>1 DEF Gateway!BeginRequest
    <3>2. CASE UNCHANGED gateway
      BY <3>2 DEF gateway
    <3> QED
      BY <2>2, <3>1, <3>2 DEF ServeInspect
  <2>3. CASE ServeFinish(t, m)
    <3>1. wire' = wire \ {m} /\ m.kind = "finish"
      BY <2>3 DEF ServeFinish, TakeUp, AnswerAtOnce
    <3> QED
      BY <1>3, <3>1 DEF FinishOnce
  <2> QED
    BY <1>8, <2>1, <2>2, <2>3
<1>9. CASE Work(t)
  <2>1. CASE Gateway!Register(t)
    BY <1>5, <2>1
  <2>2. CASE \E success \in BOOLEAN : Gateway!FinishRequest(t, success)
    BY <1>4, <1>7, <2>2
  <2> QED
    BY <1>6, <1>9, <2>1, <2>2 DEF Work, Inspected
<1>10. CASE \E m \in wire : ServeStart(t, m) \/ ServeInspect(t, m) \/ ServeFinish(t, m)
  BY <1>4, <1>8, <1>10
<1> QED
  BY <1>9, <1>10 DEF Serve

LEMMA BudgetKept == IInv /\ Budget /\ [Next]_vars => Budget'
<1> SUFFICES ASSUME IInv, Budget, [Next]_vars PROVE Budget'
  OBVIOUS
<1>0. /\ task \in Nat /\ Sent \in Int
      /\ runs[RunId].requests \in Nat
      /\ IsFiniteSet(Pending) /\ Cardinality(Pending) \in Nat
  <2>1. runs[RunId] \in Gateway!Run
    BY OneRun DEF IInv, Registry
  <2> QED
    BY <2>1, SessionAssumption, PendingFinite DEF IInv, Edged, Sent, Gateway!Run
<1>1. CASE Edge
  <2>1. runs' = runs
    BY <1>1, EdgeApart DEF gateway
  <2>2. task' \in Nat
    BY <1>1, EdgeEdged, SessionAssumption DEF IInv, Edged
  <2>3. Sent' \in Int
    BY <2>2 DEF Sent
  <2>4. CASE Pending' = Pending /\ Sent <= Sent'
    <3>1. \A n \in Pending : n \in Int
      BY SessionAssumption DEF Pending
    <3> QED
      BY <1>0, <2>1, <2>3, <2>4, <3>1 DEF Budget
  <2>5. CASE Pending' = Pending \union {Sent'} /\ Sent' = Sent + 1
    <3>1. Sent' \notin Pending
      BY <1>0, <2>5 DEF Budget
    <3>2. Cardinality(Pending') = Cardinality(Pending) + 1
      BY <1>0, <2>5, <3>1, FS_AddElement
    <3>3. \A n \in Pending : n \in Int
      BY SessionAssumption DEF Pending
    <3> QED
      BY <1>0, <2>1, <2>5, <3>2, <3>3 DEF Budget
  <2> QED
    BY <1>1, <2>4, <2>5, EdgeSends
<1>2. CASE Cool \/ UNCHANGED vars
  BY <1>2 DEF Cool, vars, gateway, edge, transport, Budget, Pending, Sent
<1>3. CASE Restart
  <2>1. wire' = wire /\ at' = at /\ task' = task /\ runs'[RunId] = Gateway!NoRun
    BY <1>3 DEF Restart, Gateway!Restart, edge
  <2>2. Pending' = Pending /\ Sent' = Sent /\ runs'[RunId].requests = 0
    BY <2>1 DEF Pending, Sent, Gateway!NoRun
  <2> QED
    BY <1>0, <2>2 DEF Budget
<1>4. ASSUME NEW t \in Threads, Serve(t)
      PROVE  Budget'
  <2>1. Sent' = Sent
    BY <1>4 DEF Serve, edge, Sent
  <2>2. wire' \subseteq wire
    BY <1>4, ServeSpends
  <2>3. Pending' \subseteq Pending
    BY <2>2 DEF Pending
  <2>4. Cardinality(Pending') \in Nat /\ Cardinality(Pending') <= Cardinality(Pending)
    BY <1>0, <2>3, FS_Subset, FS_CardinalityType
  <2>5. CASE runs'[RunId].requests \in {runs[RunId].requests, 0}
    BY <1>0, <2>1, <2>3, <2>4, <2>5 DEF Budget
  <2>6. CASE \E n \in Pending : /\ Pending' = Pending \ {n}
                                /\ runs'[RunId].requests = runs[RunId].requests + 1
    <3>1. Cardinality(Pending') = Cardinality(Pending) - 1
      BY <1>0, <2>6, FS_RemoveElement
    <3> QED
      BY <1>0, <2>1, <2>3, <2>6, <3>1 DEF Budget
  <2> QED
    BY <1>4, <2>5, <2>6, ServeSpends
<1> QED
  BY <1>1, <1>2, <1>3, <1>4 DEF Next

LEMMA FinishOnceKept == IInv /\ FinishOnce /\ [Next]_vars => FinishOnce'
<1> SUFFICES ASSUME IInv, FinishOnce, [Next]_vars PROVE FinishOnce'
  OBVIOUS
<1>1. CASE Edge
  BY <1>1, EdgeFinishes
<1>2. CASE Cool \/ UNCHANGED vars
  BY <1>2 DEF Cool, vars, gateway, transport, FinishOnce
<1>3. CASE Restart
  <2>1. /\ wire' = wire /\ runs'[RunId] = Gateway!NoRun
        /\ \A t \in Threads : pc'[t] = "idle"
    BY <1>3 DEF Restart, Gateway!Restart
  <2> QED
    BY <2>1, RecordTypes DEF FinishOnce
<1>4. ASSUME NEW t \in Threads, Serve(t)
      PROVE  FinishOnce'
  BY <1>4, ServeFinishes
<1> QED
  BY <1>1, <1>2, <1>3, <1>4 DEF Next

\* Every request on the wire, however late it is, meets an answer of do_POST that
\* the module has: the bound on the requests of a run cuts nothing off, and no
\* finish meets a run that is being finished.
THEOREM NothingUnserved == Spec => []Servable
<1>1. Init => Budget /\ FinishOnce
  <2> SUFFICES ASSUME Init PROVE Budget /\ FinishOnce
    OBVIOUS
  <2>1. wire = {} /\ at = "boot" /\ task = 0 /\ runs[RunId] = Gateway!NoRun
    BY DEF Init, Gateway!Init
  <2>2. Pending = {} /\ Sent = 0
    BY <2>1 DEF Pending, Sent
  <2>3. Cardinality(Pending) = 0
    BY <2>2, FS_EmptySet
  <2> QED
    BY <2>1, <2>2, <2>3 DEF Budget, FinishOnce, Gateway!NoRun
<1>2. ASSUME IInv, Budget, FinishOnce
      PROVE  Servable
  <2> SUFFICES ASSUME NEW m \in wire
               PROVE  /\ m.kind = "inspect" => runs[RunId].requests < Tasks
                      /\ m.kind = "finish" => runs[RunId].status \in {"absent", "active"}
    BY DEF Servable
  <2>1. ASSUME m.kind = "inspect"
        PROVE  runs[RunId].requests < Tasks
    <3>1. m = [kind |-> "inspect", task |-> m.task] /\ m.task \in 0..Tasks
      BY <1>2, <2>1 DEF IInv, Transported, Request
    <3>2. Pending # {}
      BY <3>1 DEF Pending
    <3>3. Cardinality(Pending) \in Nat \ {0}
      BY <3>2, PendingFinite, FS_EmptySet
    <3>4. Sent <= Tasks /\ Sent \in Int
      BY <1>2, SessionAssumption DEF IInv, Edged, Sent
    <3>5. runs[RunId].requests \in Nat
      BY <1>2, OneRun DEF IInv, Registry, Gateway!Run
    <3> QED
      BY <1>2, <3>3, <3>4, <3>5, SessionAssumption DEF Budget
  <2> QED
    BY <1>2, <2>1 DEF FinishOnce
<1> QED
  BY <1>1, <1>2, BudgetKept, FinishOnceKept, Inductive, PTL DEF Spec

\* A session drives the gateway only through steps of GatewayRuns: what is proved
\* of every behaviour of the registry is true of the one a session talks to.
THEOREM DrivesRegistry == Spec => Gateway!Init /\ [][Gateway!Next]_gateway
<1>1. Init => Gateway!Init
  BY DEF Init
<1>2. [Next]_vars => [Gateway!Next]_gateway
  <2> SUFFICES ASSUME [Next]_vars PROVE Gateway!Next \/ UNCHANGED gateway
    BY DEF gateway
  <2>1. CASE Edge
    BY <2>1, EdgeApart
  <2>2. CASE Cool \/ UNCHANGED vars
    BY <2>2 DEF Cool, vars
  <2>3. CASE Restart
    BY <2>3 DEF Restart, Gateway!Next
  <2>4. ASSUME NEW t \in Threads, Serve(t)
        PROVE  Gateway!Next \/ UNCHANGED gateway
    <3>1. CASE Work(t)
      <4>1. Gateway!Step(t)
        BY <3>1 DEF Work, Inspected, Gateway!Step
      <4> QED
        BY <4>1 DEF Gateway!Next
    <3>2. ASSUME NEW m \in wire, ServeStart(t, m) \/ ServeInspect(t, m) \/ ServeFinish(t, m)
          PROVE  Gateway!Call(t, RunId) \/ UNCHANGED gateway
      <4>1. CASE ServeStart(t, m)
        BY <4>1 DEF ServeStart, Gateway!Call
      <4>2. CASE ServeInspect(t, m)
        BY <4>2 DEF ServeInspect, Gateway!Call
      <4>3. CASE ServeFinish(t, m)
        BY <4>3 DEF ServeFinish, Gateway!Call
      <4> QED
        BY <3>2, <4>1, <4>2, <4>3
    <3> QED
      BY <2>4, <3>1, <3>2 DEF Serve, Gateway!Next
  <2> QED
    BY <2>1, <2>2, <2>3, <2>4 DEF Next
<1> QED
  BY <1>1, <1>2, PTL DEF Spec

-----------------------------------------------------------------------------
(* The variant of the session, on which SessionEnds rests: what the edge has *)
(* still to do, which each of its steps makes less.                          *)

\* Steps to the next place between two images, or to the end.
Rank == [boot |-> 4, starting |-> 3, between |-> 2, registering |-> 5, reading |-> 4,
         inspecting |-> 3, finishing |-> 1, done |-> 0]

Remaining == 4 * (Tasks - task) + Rank[at]

\* The loop is over when the run is finished.
LoopOver == at \in {"finishing", "done"} => task = Tasks

LEMMA LoopOverKept == IInv /\ LoopOver /\ [Next]_vars => LoopOver'
<1> SUFFICES ASSUME IInv, LoopOver, [Next]_vars PROVE LoopOver'
  OBVIOUS
<1>1. CASE Edge
  BY <1>1 DEF LoopOver, Edge, Boot, BootRegistered, BootFails, EdgeTask, CloudTask,
              Registered, RegistrationFails, ReadImage, Unreadable,
              Reviewed, InspectionFails, LastTaskDone,
              RunFinished, FinishFails
<1>2. CASE ~ Edge
  BY <1>2 DEF LoopOver, Next, Cool, Restart, Serve, edge, vars
<1> QED
  BY <1>1, <1>2

\* Whatever fails and however often the gateway restarts, each step of the edge
\* brings the session nearer to its end, no step of anybody else takes it back,
\* and there is nothing left to do only at the end, with all images handled.
THEOREM SessionAdvances ==
    Spec => /\ [](Remaining \in Nat /\ (Remaining = 0 <=> at = "done" /\ task = Tasks))
            /\ [][IF Edge THEN Remaining' < Remaining ELSE Remaining' = Remaining]_vars
<1>1. Init => LoopOver
  BY DEF Init, LoopOver
<1>2. ASSUME IInv, LoopOver
      PROVE  Remaining \in Nat /\ (Remaining = 0 <=> at = "done" /\ task = Tasks)
  <2>1. task \in Nat /\ Tasks \in Nat /\ task <= Tasks
    BY <1>2, SessionAssumption DEF IInv, Edged
  <2>2. Rank[at] \in 0..5 /\ (Rank[at] = 0 <=> at = "done")
    BY <1>2 DEF IInv, Edged, Rank, Places, InReview
  <2>3. at = "done" => task = Tasks
    BY <1>2 DEF LoopOver
  <2> QED
    BY <2>1, <2>2, <2>3 DEF Remaining
<1>3. ASSUME IInv, [Next]_vars
      PROVE  [IF Edge THEN Remaining' < Remaining ELSE Remaining' = Remaining]_vars
  <2>1. task \in Nat /\ Tasks \in Nat /\ task <= Tasks
    BY <1>3, SessionAssumption DEF IInv, Edged
  <2>2. CASE Edge
    <3>0. /\ Rank["boot"] = 4 /\ Rank["starting"] = 3 /\ Rank["between"] = 2
          /\ Rank["registering"] = 5 /\ Rank["reading"] = 4 /\ Rank["inspecting"] = 3
          /\ Rank["finishing"] = 1 /\ Rank["done"] = 0
      BY DEF Rank
    <3>1. \/ task' = task /\ Rank[at'] < Rank[at]
          \/ task' = task + 1 /\ at = "between"
      <4>1. CASE EdgeTask \/ CloudTask
        BY <4>1 DEF EdgeTask, CloudTask
      <4>2. CASE Boot \/ BootRegistered \/ BootFails
        <5>1. /\ \/ at = "boot" /\ at' = "starting"
                 \/ at = "starting" /\ at' = "between"
              /\ task' = task
          BY <4>2 DEF Boot, BootRegistered, BootFails
        <5> QED
          BY <3>0, <5>1
      <4>3. CASE Registered \/ ReadImage
        <5>1. /\ \/ at = "registering" /\ at' = "reading"
                 \/ at = "reading" /\ at' = "inspecting"
              /\ task' = task
          BY <4>3 DEF Registered, ReadImage
        <5> QED
          BY <3>0, <5>1
      <4>4. CASE RegistrationFails \/ Unreadable
        <5>1. at \in {"registering", "reading"} /\ at' = "between" /\ task' = task
          BY <4>4 DEF RegistrationFails, Unreadable
        <5> QED
          BY <3>0, <5>1
      <4>5. CASE Reviewed \/ InspectionFails
        <5>1. at = "inspecting" /\ at' = "between" /\ task' = task
          BY <4>5 DEF Reviewed, InspectionFails
        <5> QED
          BY <3>0, <5>1
      <4>6. CASE LastTaskDone
        <5>1. at = "between" /\ at' \in {"finishing", "done"} /\ task' = task
          BY <4>6 DEF LastTaskDone
        <5> QED
          BY <3>0, <5>1
      <4>7. CASE RunFinished \/ FinishFails
        <5>1. at = "finishing" /\ at' = "done" /\ task' = task
          BY <4>7 DEF RunFinished, FinishFails
        <5> QED
          BY <3>0, <5>1
      <4> QED
        BY <2>2, <4>1, <4>2, <4>3, <4>4, <4>5, <4>6, <4>7 DEF Edge
    <3>2. Rank[at] \in 0..5 /\ Rank[at'] \in 0..5 /\ Rank["between"] = 2
      BY <1>3, <2>2, EdgeEdged DEF IInv, Edged, Rank, Places, InReview
    <3> QED
      BY <2>1, <2>2, <3>1, <3>2 DEF Remaining
  <2>3. CASE ~ Edge
    BY <1>3, <2>3 DEF Remaining, Next, Cool, Restart, Serve, edge, vars
  <2> QED
    BY <2>2, <2>3
<1> QED
  BY <1>1, <1>2, <1>3, LoopOverKept, Inductive, PTL DEF Spec

=============================================================================
