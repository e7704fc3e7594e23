----------------------------- MODULE EdgeSession -----------------------------
(***************************************************************************)
(* One evaluation session, end to end: the main loop of an edge site       *)
(* (main.py, edge/edge_service.py, control/sync_handler.py and             *)
(* cloud/gateway_client.py, all in third_part/cloud-edge-xj) against the   *)
(* run registry of the cloud gateway (GatewayRuns), over HTTP.             *)
(*                                                                         *)
(* The edge is one thread: it registers its run, handles its images one    *)
(* after the other, and asks for the metrics of the run at the end.  A     *)
(* request that is sent may reach the gateway at any later time or never.  *)
(* The client may give up on it at any moment: the connection is refused,  *)
(* it times out, or the answer does not come back.  The gateway serves it  *)
(* all the same, late and with nobody to answer to, because its model may  *)
(* take longer (60 s) than the client waits (10 s).  A gateway restart     *)
(* ends the handler threads and forgets the run.                           *)
(***************************************************************************)
EXTENDS Breaker, FiniteSets

CONSTANTS RunId,         \* the run_id of the session
          Threads,       \* handler threads of the gateway
          Tasks,         \* number of images in the datasets
          MaxRestarts    \* bound: restarts of the gateway

ASSUME SessionAssumption ==
    /\ IsFiniteSet(Threads)
    /\ Tasks \in Nat
    /\ MaxRestarts \in Nat

VARIABLES
    runs, pc, run, copied, waitset, reports, restarts,   \* see GatewayRuns
    at,           \* where main() is
    task,         \* tasks begun
    registered,   \* run_registered
    breaker,      \* the circuit breaker
    cooled,       \* its recovery timeout has passed
    metrics,      \* last_call_metrics: the task whose request they are of, or 0
    counted,      \* MetricsCollector: how often a task's request was added up
    asked,        \* the request the client waits for
    reply,        \* its answer
    wire,         \* requests that were sent and not taken up
    job,          \* the request a handler thread serves
    report,       \* the run metrics main() got from finish_run, if any
    delivered,    \* history: inspections answered since the gateway started
    forgotten,    \* history: restarted since it last confirmed the run
    failed        \* history: the last call to the cloud failed

gateway == <<runs, pc, run, copied, waitset, reports, restarts>>
edge == <<at, task, registered, breaker, cooled, metrics, counted, failed, report>>
transport == <<asked, reply, wire, job>>
history == <<delivered, forgotten>>
vars == <<gateway, edge, transport, history>>

Gateway == INSTANCE GatewayRuns WITH
               RunIds <- {RunId}, Sizes <- {1}, MaxRequests <- Tasks

-----------------------------------------------------------------------------
(* Data. *)

\* Where main() is; the middle ones are inside a review.
InReview == {"registering", "reading", "inspecting"}

Places == {"boot", "starting", "between", "finishing", "done"} \union InReview

\* The request of kind k that serves task n; 0 is the registration before the
\* first task.
Request == [kind : {"start", "inspect", "finish"}, task : 0..Tasks]

NoRequest == [kind |-> "none", task |-> 0]

\* HTTP 200, a 422 that names the run_id, any other error.
Answers == [status : {"ok", "unregistered", "error"}, totals : Gateway!Counters]

NoAnswer == [status |-> "none", totals |-> Gateway!Zero]

Answered(status) == reply.status = status

\* Faulty variant of Unanswered: the session waits without a timeout.
AnsweredWithError == reply.status \in {"unregistered", "error"}

\* The call raises: no answer, or one that raise_for_status rejects.
Unanswered == reply.status \in {"none", "unregistered", "error"}

Init ==
    /\ Gateway!Init
    /\ at = "boot"
    /\ task = 0
    /\ registered = FALSE
    /\ breaker = Closed
    /\ cooled = FALSE
    /\ metrics = 0
    /\ counted = [n \in 1..Tasks |-> 0]
    /\ asked = NoRequest
    /\ reply = NoAnswer
    /\ wire = {}
    /\ job = [t \in Threads |-> NoRequest]
    /\ report = {}
    /\ delivered = 0
    /\ forgotten = FALSE
    /\ failed = FALSE

-----------------------------------------------------------------------------
(* The edge: calls and their outcomes. *)

Send(kind, n) ==
    /\ asked' = [kind |-> kind, task |-> n]
    /\ wire' = wire \union {asked'}
    /\ reply' = NoAnswer
    /\ UNCHANGED job

\* The call returns or raises; an answer that comes later finds nobody.
EndCall ==
    /\ asked' = NoRequest
    /\ reply' = NoAnswer
    /\ UNCHANGED <<wire, job>>

\* record_failure
CloudFailed(force) ==
    /\ breaker' = Failed(breaker, force)
    /\ cooled' = (cooled /\ ~ Opens(breaker, force))
    /\ failed' = TRUE

\* record_success
CloudWorked ==
    /\ breaker' = Closed
    /\ cooled' = FALSE
    /\ failed' = FALSE

\* record_success of MetricsCollector adds the request_body_bytes of m.
Count(m) ==
    counted' = [n \in 1..Tasks |-> IF n = m THEN counted[n] + 1 ELSE counted[n]]

\* main() registers the run before it loads the images.
Boot ==
    /\ at = "boot"
    /\ at' = "starting"
    /\ Send("start", 0)
    /\ UNCHANGED <<gateway, task, registered, breaker, cooled, metrics, counted,
                   failed, report, history>>

BootRegistered ==
    /\ at = "starting"
    /\ Answered("ok")
    /\ registered' = TRUE
    /\ at' = "between"
    /\ EndCall
    /\ UNCHANGED <<gateway, task, breaker, cooled, metrics, counted, failed,
                   report, history>>

\* Faulty variant of BootFails: main() logs the error and goes on.
BootFailureLogged ==
    /\ at = "starting"
    /\ Unanswered
    /\ failed' = TRUE
    /\ at' = "between"
    /\ EndCall
    /\ UNCHANGED <<gateway, task, registered, breaker, cooled, metrics, counted,
                   report, history>>

\* mark_cloud_unavailable opens the breaker whatever its threshold.
BootFails ==
    /\ at = "starting"
    /\ Unanswered
    /\ CloudFailed(TRUE)
    /\ at' = "between"
    /\ EndCall
    /\ UNCHANGED <<gateway, task, registered, metrics, counted, report, history>>

\* Faulty variant of EdgeTask: the loop runs once too often.
EdgeTaskBeyondLast ==
    /\ at = "between"
    /\ task <= Tasks
    /\ task' = task + 1
    /\ UNCHANGED <<gateway, at, registered, breaker, cooled, metrics, counted,
                   failed, report, transport, history>>

\* The decision policy keeps the task at the edge, or the breaker refuses it: the
\* edge result stands, and the task's event carries no communication metrics.
EdgeTask ==
    /\ at = "between"
    /\ task < Tasks
    /\ task' = task + 1
    /\ UNCHANGED <<gateway, at, registered, breaker, cooled, metrics, counted,
                   failed, report, transport, history>>

\* The breaker lets the task through; inspect_image registers the run first
\* when it has to.
CloudTask ==
    /\ at = "between"
    /\ task < Tasks
    /\ Admits(breaker, cooled)
    /\ breaker' = Admitted(breaker)
    /\ task' = task + 1
    /\ IF registered
       THEN at' = "reading" /\ UNCHANGED transport
       ELSE at' = "registering" /\ Send("start", task + 1)
    /\ UNCHANGED <<gateway, registered, cooled, metrics, counted, failed, report, history>>

\* start_run returned: the same call goes on.
Registered ==
    /\ at = "registering"
    /\ Answered("ok")
    /\ registered' = TRUE
    /\ at' = "reading"
    /\ EndCall
    /\ UNCHANGED <<gateway, task, breaker, cooled, metrics, counted, failed, report, history>>

\* The image is read, last_call_metrics reset, and the request sent.
ReadImage ==
    /\ at = "reading"
    /\ metrics' = 0
    /\ at' = "inspecting"
    /\ Send("inspect", task)
    /\ UNCHANGED <<gateway, task, registered, breaker, cooled, counted, failed,
                   report, history>>

\* read_bytes raises inside inspect_image: a failure of the cloud to the breaker,
\* booked with the metrics of the last inspection.
Unreadable ==
    /\ at = "reading"
    /\ CloudFailed(FALSE)
    /\ Count(metrics)
    /\ at' = "between"
    /\ UNCHANGED <<gateway, task, registered, metrics, report, transport, history>>

\* Faulty variant of RegistrationFails: start_run runs before the try block, and
\* its exception passes the breaker by.
RegistrationRaises ==
    /\ at = "registering"
    /\ Unanswered
    /\ at' = "between"
    /\ failed' = TRUE
    /\ EndCall
    /\ UNCHANGED <<gateway, task, registered, breaker, cooled, metrics, counted,
                   report, history>>

\* Faulty variant of RegistrationFails: run_registered is set before the status
\* of the answer is looked at.
RegistrationAssumed ==
    /\ at = "registering"
    /\ Unanswered
    /\ CloudFailed(FALSE)
    /\ Count(metrics)
    /\ registered' = TRUE
    /\ at' = "between"
    /\ EndCall
    /\ UNCHANGED <<gateway, task, metrics, report, history>>

\* start_run raised inside inspect_image: upload_result copies last_call_metrics
\* as the last inspection left them into the event of this task.
RegistrationFails ==
    /\ at = "registering"
    /\ Unanswered
    /\ CloudFailed(FALSE)
    /\ Count(metrics)
    /\ at' = "between"
    /\ EndCall
    /\ UNCHANGED <<gateway, task, registered, metrics, report, history>>

Reviewed ==
    /\ at = "inspecting"
    /\ Answered("ok")
    /\ CloudWorked
    /\ metrics' = task
    /\ Count(task)
    /\ at' = "between"
    /\ EndCall
    /\ UNCHANGED <<gateway, task, registered, report, history>>

\* A 422 that names the run_id makes the next probe register again.
InspectionFails ==
    /\ at = "inspecting"
    /\ Unanswered
    /\ CloudFailed(FALSE)
    /\ metrics' = task
    /\ Count(task)
    /\ registered' = (registered /\ ~ Answered("unregistered"))
    /\ at' = "between"
    /\ EndCall
    /\ UNCHANGED <<gateway, task, report, history>>

\* The images are done; a registered run is finished, breaker or not.
LastTaskDone ==
    /\ at = "between"
    /\ task = Tasks
    /\ IF registered
       THEN at' = "finishing" /\ Send("finish", Tasks)
       ELSE at' = "done" /\ UNCHANGED transport
    /\ UNCHANGED <<gateway, task, registered, breaker, cooled, metrics, counted,
                   failed, report, history>>

RunFinished ==
    /\ at = "finishing"
    /\ Answered("ok")
    /\ registered' = FALSE
    /\ report' = {reply.totals}
    /\ at' = "done"
    /\ EndCall
    /\ UNCHANGED <<gateway, task, breaker, cooled, metrics, counted, failed, history>>

\* "Cloud gateway metrics collection failed" is logged.
FinishFails ==
    /\ at = "finishing"
    /\ Unanswered
    /\ at' = "done"
    /\ EndCall
    /\ UNCHANGED <<gateway, task, registered, breaker, cooled, metrics, counted,
                   failed, report, history>>

\* The recovery timeout of the breaker passes.
Cool ==
    /\ breaker.state = "open"
    /\ ~ cooled
    /\ cooled' = TRUE
    /\ UNCHANGED <<gateway, at, task, registered, breaker, metrics, counted,
                   failed, report, transport, history>>

Edge ==
    \/ Boot \/ BootRegistered \/ BootFails
    \/ EdgeTask \/ CloudTask
    \/ Registered \/ RegistrationFails \/ ReadImage \/ Unreadable
    \/ Reviewed \/ InspectionFails
    \/ LastTaskDone \/ RunFinished \/ FinishFails

-----------------------------------------------------------------------------
(* The gateway: GatewayRuns with the requests that drive it and the answers  *)
(* of do_POST.                                                               *)

\* The answer to request m reaches the client if it still waits for m.
Respond(m, status, totals) ==
    /\ reply' = IF m = asked THEN [status |-> status, totals |-> totals] ELSE reply
    /\ forgotten' = (forgotten /\ ~ (m = asked /\ m.kind = "start"))
    /\ delivered' = IF m = asked /\ m.kind = "inspect" /\ status = "ok"
                    THEN delivered + 1 ELSE delivered
    /\ UNCHANGED asked

\* A free thread takes request m up and stays with it ...
TakeUp(t, m) ==
    /\ m \in wire
    /\ job[t] = NoRequest
    /\ wire' = wire \ {m}
    /\ job' = [job EXCEPT ![t] = m]
    /\ UNCHANGED <<asked, reply, history>>

\* ... or answers it at once, the registry unchanged.
AnswerAtOnce(t, m, status, totals) ==
    /\ m \in wire
    /\ job[t] = NoRequest
    /\ wire' = wire \ {m}
    /\ Respond(m, status, totals)
    /\ UNCHANGED job

ServeStart(t, m) ==
    /\ m.kind = "start"
    /\ \/ Gateway!StartUnknown(t, RunId) /\ TakeUp(t, m)
       \/ /\ runs[RunId].status \in {"active", "finishing"}
          /\ AnswerAtOnce(t, m, "ok", Gateway!Zero)
          /\ UNCHANGED gateway
       \/ /\ Gateway!ReplayFinished(t, RunId)
          /\ AnswerAtOnce(t, m, "ok", runs[RunId].finished_metrics)

ServeInspect(t, m) ==
    /\ m.kind = "inspect"
    /\ \/ Gateway!BeginRequest(t, RunId, 1) /\ TakeUp(t, m)
       \/ /\ Gateway!Refuses(RunId)
          /\ AnswerAtOnce(t, m, "unregistered", Gateway!Zero)
          /\ UNCHANGED gateway

\* A session sends one finish, so its run is not being finished already.
ServeFinish(t, m) ==
    /\ m.kind = "finish"
    /\ \/ Gateway!FinishActive(t, RunId) /\ TakeUp(t, m)
       \/ /\ runs[RunId].status = "absent"
          /\ AnswerAtOnce(t, m, "error", Gateway!Zero)
          /\ UNCHANGED gateway

\* The thread answers the request it serves.
Finish(t, status, totals) ==
    /\ Respond(job[t], status, totals)
    /\ job' = [job EXCEPT ![t] = NoRequest]
    /\ UNCHANGED wire

\* Faulty variant of Inspected: the result is sent before it is counted.
InspectedUncounted(t, success) ==
    /\ pc[t] = "inspecting"
    /\ job[t] # NoRequest
    /\ success
    /\ Finish(t, "ok", Gateway!Zero)
    /\ UNCHANGED gateway

\* inspect returns or raises, after its finally clause counted the outcome.
Inspected(t, success) ==
    /\ Gateway!FinishRequest(t, success)
    /\ Finish(t, IF success THEN "ok" ELSE "error", Gateway!Zero)

\* A thread goes on with the request it serves.
Work(t) ==
    \/ Gateway!Register(t) /\ Finish(t, "ok", Gateway!Zero)
    \/ Gateway!Drained(t) /\ UNCHANGED <<transport, history>>
    \/ Gateway!Publish(t) /\ Finish(t, "ok", copied[t])
    \/ \E success \in BOOLEAN : Inspected(t, success)

Serve(t) ==
    /\ \/ Work(t)
       \/ \E m \in wire : ServeStart(t, m) \/ ServeInspect(t, m) \/ ServeFinish(t, m)
    /\ UNCHANGED edge

\* The gateway process is restarted; what it was serving gets no answer.
Restart ==
    /\ Gateway!Restart
    /\ job' = [t \in Threads |-> NoRequest]
    /\ delivered' = 0
    /\ forgotten' = TRUE
    /\ UNCHANGED <<edge, asked, reply, wire>>

-----------------------------------------------------------------------------

Next == Edge \/ Cool \/ Restart \/ \E t \in Threads : Serve(t)

(***************************************************************************)
(* Only the edge is sure to go on: it is one thread, and each of its calls *)
(* ends with an answer or a timeout.  Whether the gateway answers is left  *)
(* open.                                                                   *)
(***************************************************************************)
Spec == Init /\ [][Next]_vars /\ WF_vars(Edge)

-----------------------------------------------------------------------------
(* Properties. *)

\* Every variable of the session holds values of its type.
TypeOK ==
    /\ Gateway!TypeOK
    /\ at \in Places
    /\ task \in 0..Tasks
    /\ registered \in BOOLEAN
    /\ breaker \in Breaker
    /\ cooled \in BOOLEAN
    /\ metrics \in 0..Tasks
    /\ counted \in [1..Tasks -> Nat]
    /\ asked \in Request \union {NoRequest}
    /\ reply \in Answers \union {NoAnswer}
    /\ wire \subseteq Request
    /\ job \in [Threads -> Request \union {NoRequest}]
    /\ report \subseteq Gateway!Counters
    /\ delivered \in Nat
    /\ forgotten \in BOOLEAN
    /\ failed \in BOOLEAN

\* The breaker is half-open only while the session is inside the probe: every
\* way out of a review, a failed re-registration and an image that cannot be read
\* too, tells the breaker.  Left half-open it would refuse all remaining tasks.
HalfOpenIsProbe ==
    breaker.state = "half_open" => at \in InReview

\* A session's inspection is refused for its run_id only when the gateway was
\* restarted since it confirmed the run; late requests that nobody waits for
\* and the order of registration and inspection never cause it.
RefusedOnlyAfterRestart == Answered("unregistered") => forgotten

\* A result the edge uses is counted by the gateway before the edge has it, and
\* the metrics a session gets at its end cover all its reviewed tasks, while
\* requests that nobody waits for any more are served and drained as well.
DeliveredIsCounted ==
    /\ delivered <= runs[RunId].succeeded
    /\ ~ forgotten => \A totals \in report : delivered <= totals.succeeded

\* "After the first failure of the start-up registration or of a review, tasks
\* that need one do not go to the network; after the cooling time one probe is
\* let through" (README, section on the loss of the network), with the default
\* threshold of 1: each attempt after a failure waits for the timeout.
AttemptsSpaced ==
    [][at = "between" /\ at' \in InReview /\ failed => cooled]_vars

\* No failure of the network or the gateway, at any moment, keeps the session
\* from its end: with all its images handled and its summary written.
SessionEnds == <>(at = "done" /\ task = Tasks)

\* The upload volume is that of the inspection requests (README, section on the
\* metrics): the request of a task is not added up again for another one.
UploadCountedOnce == \A n \in 1..Tasks : counted[n] <= 1

=============================================================================
