# CloudEdge-abnormal in TLA+

This directory models the parts of CloudEdge-abnormal whose correctness depends
on the order in which things happen: the cloud gateway and the edge sites that
talk to it, the circuit breaker between them, the fleet and the live monitor of
the web console, and the loops that route and arbitrate a batch. The
specifications are written from the source; every definition that models code is
listed in `PROJECT.json` under `map` with the lines it stands for.

## 1. The system

The repository inspects images of products for anomalies. A small detector at an
*edge* site looks at every image; a vision-language model in the *cloud* reviews
the difficult ones. Three subsystems carry logic of their own.

**A. Cloud-edge inspection** (`src/third_part/cloud-edge-xj`), two programs.

| part | state it keeps | operations | talks to |
| --- | --- | --- | --- |
| gateway run registry, `cloud/gateway_server.py` | `_runs` under the condition variable `_runs_condition` | start, finish and inspect, one thread per HTTP call | edge sites by HTTP, the model, the GPU monitor |
| gateway client, `cloud/gateway_client.py` | `run_registered`, `last_call_metrics` | `start_run`, `inspect_image`, `finish_run` | gateway |
| circuit breaker, `control/circuit_breaker.py` | state, consecutive failures, time of opening, under a lock | `before_request`, `record_success`, `record_failure` | sync handler |
| sync handler, `control/sync_handler.py` | the last event and metrics, per thread | `upload_result`, `mark_cloud_unavailable` | breaker, client |
| edge service, `edge/edge_service.py`; multi-node service, `edge/multi_node_service.py` | none between tasks | `handle_task`: detect, decide, upload, fall back | detector, decision policy, sync handler |
| metrics collector, `common/metrics.py`; `main.py`, `evaluate.py` | totals of a session | `record_success`, `record_error`, `finalize` | all of the above |

**B. Web console** (`src/web`). One process: FastAPI endpoints, a network sampler
thread, the loop of the live monitor. Shared state: the fleet with its network
simulators and its counters (`fleet_service`, `src/src/edge_fleet.py`, under
`_net_lock`), and the monitor (`live_service`, under its own `_lock`).
`demo_service` makes the routing decision for an image and tries the upload.

**C. Core library** (`src/src`). Routing algorithms and the admission of a batch
(`collab_routing`), a queueing simulator of the cloud (`cloud_load.py`), the
consensus of several nodes (`collab_conflict.py`), network simulation, the route
agent (a language model that chooses the route).

Left aside: `models/`, `third_part/Cloud-abnormal-cx/dinov3` and `edge/methods`
(vendored or numerical code), training and benchmark scripts, pages and styles.

### What is hard, and what correct means

*Gateway registry.* Handler threads interleave at every lock release; `start`
and `finish` each give the lock up to sample the GPU, `finish` waits for
requests and other `finish` calls wait for it, on one condition variable. All of
it is lost in a restart. Correct: a run is opened once, counts every accepted
request once, is closed once, and its metrics are complete and the same for all
who ask; a finish call is answered.

*Breaker.* The lock is there for several threads. Outcomes arrive late, the clock
is read before the lock is taken. Correct: never half-open without a probe,
closed only below the threshold, nobody through before the timeout, closed again
when the cloud is back.

*Edge session.* The client gives up after 10 s where the gateway may take 60 s;
requests get lost or arrive late; the gateway restarts. Correct: the session
always ends, attempts after a failure are spaced, refusals have a cause, the
gateway's numbers cover what the edge used.

*Live monitor.* Tabs with several calls under way, the loop thread, `tick_now`
calls, a join with a timeout, a non-reentrant lock. Correct: every call is answered, one loop at a
time, counters add up.

*Edge verdict.* Node threads end in any order or raise, the cloud call fails, and
two services write the outcome in their own ways. Correct: the verdict is the
vote of all nodes, an uncertain part is not passed when the cloud is lost (the
fail-safe of the README of `cloud-edge-xj`), and the totals of a session balance.

*Cloud load.* The simulator retires, promotes and admits in one call; the router
decides on a load that is out of date when the upload is over. Correct: requests
are conserved and served in order, the servers are not exceeded and not idle
while a request waits, and a saturated cloud is spared.

*Fleet.* A call that routes an image takes `_net_lock` several times and gives it
up in between, while other calls run and users cut links and switch the active
node. Correct: the load that is charged is the number of uploads under way, also
after an upload that raised; each call is booked once, on its own node; a link
that is cut all along is never used; the agent's guard is no laxer than the
policy in its prompt.

*Conflict.* The router, the link, the reviewer and the vote each may settle a
sample, and the summary counts them from different fields. Correct: the rates
and the path counts of the summary agree; only a trusted review overturns nodes
that agree.

## 2. Modules

| module | models | runs | proofs |
| --- | --- | --- | --- |
| `RunLedger` | the promise of the gateway about a run: no threads, no lock | as `ImplementsLedger` | refined by `GatewayRuns` |
| `GatewayRuns` | the run registry, `gateway_server.py` | `gateway_runs` | `GatewayRunsProofs` |
| `Breaker` | the breaker's state as a record, and its methods as operators | (through the next two) | (through the next) |
| `CircuitBreaker` | `CloudCircuitBreaker` with several `SyncHandler` callers | `circuit_breaker` | `CircuitBreakerProofs` |
| `EdgeSession` | `main.py` with client, breaker and metrics, composed with `GatewayRuns` over a network | `edge_session`, `stale_metrics` | `EdgeSessionProofs` |
| `EdgeDecision` | `handle_task` of both edge services, the vote, the fail-safe, the counters of the summary | `edge_decision` | `EdgeDecisionProofs` |
| `CloudLoad` | `cloud_load.py` with the cost-risk router and the loop that drives both | `cloud_load`, `future_load` | `CloudLoadProofs` |
| `LiveMonitor` | `live_service.py`, its endpoints and the console's button | `live_monitor`, `live_two_loops`, `live_locked_out` | `LiveMonitorProofs` |
| `RouteAgent` | the decision of the route agent: bands, prompt policy, guard, parsing; no variables | (through the next) | (through the next) |
| `FleetRoute` | `run_demo` and `run_route_decision` on the shared fleet, its network and its users | `fleet_route` | `FleetRouteProofs` |
| `ConflictArbitration` | `collab_conflict.py` driven by `bench_conflict_arbitration.py` | `conflict_arbitration` | `ConflictArbitrationProofs` |

`MC...` modules and `.cfg` files give the constants values.
Operators whose comment begins "Faulty variant of" are not part of any
specification: each is the operator it names with a plausible bug, put in its
place to see that a property notices (`mutants` in `PROJECT.json`).

### GatewayRuns

An action is one critical section of the code: from taking `_runs_condition` to
releasing it, by leaving the `with` block or by `wait()`. `pc[t]` says where
handler thread `t` stands between two of them, `waitset` holds the threads in
`wait()`, and `notify_all` empties it. A notified thread must get the lock and
test its condition again (`Drained`, `Awaited`).

| code | actions |
| --- | --- |
| start, unknown run: release, sample, second look-up | `StartUnknown`, `Register` |
| start or finish of a finished run | `ReplayFinished` |
| finish: close, wait for `in_flight`, copy, sample, publish | `FinishActive`, `Drained`, `Publish` |
| finish while another finishes | `FinishFinishing`, `Awaited` |
| inspect | `BeginRequest`, `FinishRequest` (from its `finally`) |
| the process ends and starts | `Restart` |

A start of an active run, a finish of an unknown one, and a refused inspection
change nothing and are no actions here (`EdgeSession` has them, with their
answers). GPU numbers and start times are left out; of the two byte counters,
updated together, one is kept. `reports` is a history variable: the metrics
handed to callers. The finisher's local `counters` is `copied`, because the
lock is free between the copy and the publication.

### Breaker and CircuitBreaker

Instants are ages: `openedAt` and the `now` of a caller say how many ticks ago the
clock was read for them, `Tick` makes all of them older, and a difference of
instants is the difference of their ages (`Elapsed`). `before_request` reads the
clock outside the lock, so a caller first reads (`ReadClock`) and is admitted or
refused later, with the reading it has; an opening in between sets `_opened_at`
(`OpenedAt`) later than that reading. `opened` is a history variable, the latest
failure that opened the breaker, which `QuietWhileOpen` holds `_opened_at` against.
A caller in the cloud holds the state it was admitted in.

### EdgeSession

The edge is one thread (`at` is its place in `main()`), as in the code. A request
goes into the set `wire` and may be served at any time or never. The client may
give up at any moment, which is why `Unanswered` includes having no answer; a
later answer finds nobody (`Respond` compares the request with `asked`). The
gateway's side are the actions of `GatewayRuns`, unchanged, each tied to the
request that caused it. `RegistrationFails` counts `metrics` as it finds it:
that is the order of statements in `inspect_image`.

An upload is two steps at the least: the registration is checked or asked for, then
the image is read (place "reading"). The image may fail to be read (`Unreadable`),
which is a failed review like a failed request (`path.read_bytes()` is inside the
try block of `upload_result`), and like a failed registration it comes before the
metrics of the last call are reset. `ReadImage` resets them and sends the request.

`EdgeTask` stands for every task without an upload: the decision policy kept it,
or the breaker refused it. Whether an image needs the cloud is left open.

### EdgeDecision

`config` says which of the two services `main()` made and whether the fail-safe is
on. `Judge(n, j)` ends the thread of node `n`, with a judgement or with the value
`Raised`; the main thread goes on when all have ended (`AllDone`: `list(map)` and
the end of the `with` block). The three outcomes of `handle_task` are the
operators `Local`, `Reviewed` and `Fallback`, records with the fields of the
metadata that decide something or are counted; `Return` hands one to
`record_success` (`SuccessCounters`), `Raise` stands for the except branch of
`main()`. In a single-edge session there is one judge and no conflict.

Whether an image is complex enough for an upload is left open: `Ask` is possible
for every image, `Agree` only without a conflict. The cloud call is one step that
returns any label or fails; what happens inside is `EdgeSession`. The model keeps
a difference between the services: with the fail-safe off, a failed review of a
"normal" is passed as provisional by the multi-edge service and diverted by the
single-edge service.

### CloudLoad

`sim` is the simulator as a record, and its methods are operators on it:
`Advanced` is `advance`, `Submitted` is `submit`. The heap of end times is a
function from the number of a request to its end time, so that order can be
spoken of; the code's list of arrival times is read nowhere and is the queue of
numbers here. Times are integers.

The loop is one action per statement that decides: `Arrive` (edge latency,
`advance`, the signal), `StayLocal` or `Upload` (the router), `UploadLost` or
`Submit`. A signal is what the router sees except the load: outage, cold start,
the weak-link guard, and the utility at an idle cloud as one integer (`gain`) in
the unit of `CloudWeight`. `Worth` compares `gain` with the charge for the load,
both multiplied by `MaxInflight` to stay in the integers.

### LiveMonitor

Every section under `_lock` is one action, guarded by `Unlocked`; the only code
that waits while holding the lock is `start()` of a running monitor, which then
holds it for ever (`lock`). `stop()` is four steps, because it sets the event,
reads `_thread` and joins without the lock. A tick that raises outside the handler
of one node is not counted: the loop logs it and goes on (`LoopTickFails`), a
`tick_now` call ends with it (`TickNowRaises`).

Calls are kept apart from tabs. The console does not disable its button and polls
beside it, so a tab may have any number of calls under way: it presses the button
it sees (`shown`; `Click`) or polls (`Poll`) in any state of its other calls, and
an answer is shown when it arrives (`Shows`), a stale one too.

### RouteAgent and FleetRoute

`RouteAgent` has what `decide` of the agent makes of the bands it is shown
(`Context`), the answer it gets and its options; the number behind a band is
never looked at again, so there is none. `PromptAllows` is the decision policy
written in the prompt, `HardRouteAllows` the six rules of the guard in the order
of the code. The answer of the model is any of: cloud, local, nothing that can be
parsed.

In `FleetRoute` a record `call[t]` holds the locals of `run_demo` that decide
something, and an action is one section of it under `_net_lock` or one call it
makes without.

| code | actions |
| --- | --- |
| look up or activate the node | `Begin` |
| link, load, router; an exception there | `RouteByRules`, `RouteRaises` |
| the agent: block on outage, ask, parse, ask again, guard, snap | `RouteByAgent`, `AskAgain`, `Answered`, `AgentFails` |
| count in, upload, `finally` count out | `Enter`, `SendOk` / `SendFails` / `SendRaises`, `Leave` |
| `record_path` | `Book` |
| the review of an image that got through (`live_cloud`) | place "reviewing", `EndReview` |
| disconnect, restore, `set_profile`, `set_active` | `Cut`, `Rejoin`, `SetActive` |

A link that is cut reads as an outage. One that is not may read as anything, an
outage too, at every look: `ContextsNow`. A review comes after the upload was counted
out and does not touch the counter. `addressed`, `reviews` and `blackout`
are history variables, the account the statistics are held against.

### ConflictArbitration

The loop of `run_route_arbitrate`, one action per statement that decides: `Take`,
`Route`, `Upload`, `Vote` or `Review`, `Arbitrate`. Scores are integers (the
weight of a vote is the distance to the threshold plus the smallest unit). The
router's utility is `gain` plus the charge for the conflict, multiplied by the
number of other nodes to stay in the integers. The operators that `summarize`
evaluates (`arb_ok`, `fail_safe`, `path_counts`) have its names.

## 3. Runs

| run | instance | distinct states | outcome |
| --- | --- | --- | --- |
| `gateway_runs` | 3 threads, 2 runs, 2 requests per run, 1 restart | about 77,000 | passes |
| `circuit_breaker` | 3 callers, threshold 3, timeout of 2 ticks, 5 failures counted | about 8,000 | passes |
| `edge_session` | 3 images, 3 handler threads, threshold 1, 1 restart | about 291,000 | passes |
| `stale_metrics` | the same with 2 threads | | `UploadCountedOnce` violated |
| `edge_decision` | 3 nodes, 2 confidences, 2 images | about 9,000 | passes |
| `cloud_load` | 2 servers, service 4, edge 1 or 3, network 0, 1 or 5, 6 samples | about 61,000 | passes |
| `future_load` | the same | | `CountsOnlyArrived` violated |
| `live_monitor` | 1 tab, 2 calls at once, 1 node, 2 starts, 2 ticks | about 209,000 | passes |
| `live_two_loops` | 1 tab, 1 call, 2 starts, 3 ticks | | `OneLoopTicks` violated |
| `live_locked_out` | 1 tab, 2 calls at once, 1 start | | `CallsAnswered` violated |
| `fleet_route` | 2 threads, 2 nodes, capacity 2, 1 retry, 2 calls, 3 sets of options | about 182,000 | passes |
| `conflict_arbitration` | 4 nodes, 3 scores, 2 samples, both arbiters | about 47,000 | passes |

Why the bounds are enough. *Gateway*: with three threads a run can have two
finishers and a request, two requests and a finisher, or two starts and a
request at once, which are all the kinds of waiting there are; two runs share
the condition variable, so a notification for one wakes waiters of the other.
The proofs cover the safety properties for all values. *Breaker*: three callers
allow a probe, a late outcome and a refused caller; threshold 3 keeps two
failures apart from an opening; a timeout of 2 ticks tells a new opening from
one that is half over, and `MaxLag` of 1 lets a caller have a reading older than
an opening. Ages stop at the timeout plus that lag: beyond it no comparison changes. *Session*: three images are a failure, a probe
and a task after it; three handler threads hold two requests nobody waits for
beside the current one; threshold 1 is the default of `config.yaml`. *Decision*:
three nodes have majorities against a more confident minority, two confidences
have ties, two images show that nothing is left over from the first. *Load*:
a service is longer than two samples, so both servers and the queue fill within
six; uploads take less and more than the time to the next sample; the signals
hold each branch of the router. *Monitor*:
two starts make two loops, and two calls at once make a stop race a start, a
click race a poll and an answer overtake another. A second tab would add another
value of `shown`, which only decides what a click asks for; stale answers give one
tab both values already. *Fleet*: two
calls and two nodes let one call move the active node between two steps of the
other and be charged for its upload; one retry gives both ways out of the retry
loop, and the three sets of
options are the agent without a guard, with it, and with the rules in charge. At a
capacity of 2 a call reads low pressure or, when the other is under way, middle:
high pressure needs a third call, and a cold start an empty gallery, which the
console does not have. `GuardSound` covers these, as it covers all contexts. A
call that raised gives its place in `MaxCalls` back, so a later one sees what it
left. *Conflict*: four nodes split evenly, three to one and not at all; the scores
lie below, on and above the threshold with different weights, so that the
majority and the weighted vote differ; with a gain of -2 the charge for the
conflict decides the upload, which is worth it if and only if the nodes split
evenly; two samples show a row left over from the first. `MaxRequests`,
`MaxRestarts`, `MaxFailures`, `MaxStarts`, `MaxTicks` and `MaxCalls` are bounds of
the model and appear in guards only.

`Samples` and `Tasks` are sizes of the input.

`fleet_route` uses symmetry, of threads and of nodes: it checks no liveness, and
nothing in the module tells two threads or two nodes apart. The others do not: most
check liveness, and the nodes of a vote and the requests of a queue are ordered.
`CHECK_DEADLOCK FALSE` is set where the system may stop: a session, a benchmark
and the calls of a fleet end, and a monitor nobody uses, or that has locked
everybody out, does nothing.

### What the properties say

* `InFlightExact`, `FinishedIsComplete`, `ReportsAgree`, `CountersOnlyGrow`: the
  promise of the registry, in parts. `ImplementsLedger`: as a whole, `Accounts`
  being the refinement mapping; the number outstanding is computed from the
  threads, not from the counter that could be wrong.
* `FinishAnswered`: no finish call waits for ever.
* `ProbeOutstanding`, `ClosedBelowThreshold`, `QuietWhileOpen`, `Recovers`: the
  breaker as in section 1.
* `HalfOpenIsProbe`: each way out of a review tells the breaker. `AttemptsSpaced`:
  after a failure the next attempt waits for the timeout.
  `RefusedOnlyAfterRestart`: a refused run_id means the gateway was restarted.
  `DeliveredIsCounted`: what the edge used, the gateway has counted, and the
  metrics of the run cover it. `SessionEnds`: no failure holds the session up.
* `VoteDecides`: the edge's label has the most votes, and among equals the most
  confident voter, with the sets counted anew from the judgements.
  `EveryNodeHeard`: no decision without every node. `UnsureNeverPassed`: the
  fail-safe of the README. `CountsAddUp`: images, reviews and fallbacks balance.
  `SessionDone`: a node that fails does not hold up the session.
* `SummaryAddsUp`, `NoIdleServer`, `FirstComeFirstServed`: the simulator is the
  queue its docstring names. `QueuedIsWorthIt`: although the load is read before
  the upload and used after it, only cold starts and requests worth a saturated
  cloud ever wait.
* `StatsAddUp`: the counters are consistent whenever they can be read, with
  overlapping loops and resets. `LoopsEnd`, `StopReturns`: stopping works, also
  for a loop its stop call did not wait for.

* `InflightIsUploads`: what the counter the router charges for counts, through every
  exception: the uploads on their way, and no reviews (see the end of this section).
  `CallsBooked`: the node's
  statistics against the calls it was sent. `BlackoutStaysLocal`: the outage gate
  over all steps of a call. `GuardedByPrompt`: guard and prompt, two texts that
  are maintained apart.
* `SummaryAgrees`: rates and path counts are two accounts of the same samples.
  `OverruledByTrustedOnly`: what it takes to overturn the nodes or to pass a part
  they do not agree on.

### Findings

1. *An upload is counted twice* (`stale_metrics`). `inspect_image` resets
   `last_call_metrics` after it re-registers the run and reads the image. When either
   fails, the task is booked with the request of the previous inspection. The
   README of `cloud-edge-xj` (line 72) says that the upload volume is that of
   inspection requests. The gateway's counters replace the client's when the edge
   gets them; when the finish call gets no answer, the wrong number stays. An image
   that cannot be read is enough; with a failing registration it takes a restart of
   the gateway, and nothing else does it (`CountedOnce`).
2. *Two loops* (`live_two_loops`). `stop()` gives up joining after 3 s; a start
   that follows clears the event before the old loop has looked at it.
3. *The monitor locks everybody out* (`live_locked_out`). `start()` of a running
   monitor calls `status()` with the lock held. A double click on the button of a
   single tab is enough: it says "start" until the first call is answered, and is not
   disabled meanwhile. So is a second tab, or a stale poll.
4. *The router is charged too early* (`future_load`). The benchmarks submit a
   request at the time its upload is over, which is later than the arrival of the
   next sample when the network is slow. The simulator's clock is then ahead, and
   the next decision is taken on a load that holds a request still on its way; the
   comment above the loop says the load is that of the sample's arrival. Uploads
   that take no longer than the edge between two samples do no harm (`RealLoad`).

Seen while modelling, and no finding: the guard of the agent is stricter than the
policy it is said to enforce (a part of middle uncertainty on a good link with a
free cloud is in the prompt and refused by rule R6), which `GuardedByPrompt` does
not forbid; with `enforce_context_rules` the router's verdict replaces the
guard's, a refusal too; a part settled by the fallback vote after an unsure
review is labelled `CLOUD_ARBITRATED` and not provisional; with one dissenter of
three `conflict_score` is 1/2 and no split of more than two nodes gives the 1 that
its comment names.

`FleetCloudState` calls its `inflight` "cloud reviewer occupancy"
(`src/src/edge_fleet.py:257`), but `run_demo` counts a call out when its upload is over
(`web/services/demo_service.py:150-152`) and has the image reviewed afterwards
(`:303-304`): while a reviewer works the counter may be 0, and the router and the agent
read low pressure. The number that the code keeps is what `InflightIsUploads` states,
and the model has the reviews beside it; as an occupancy of the reviewer it would be
wrong in every call that is reviewed. There is no run for it, since one such call with
no other beside it shows the disagreement.

## 4. Fairness

`GatewayRuns`: weak fairness for the next step of a thread that serves a call
and is not in `wait()`. Python schedules runnable threads, a section holds the
lock for a bounded time, and the model call has a timeout
(`model_timeout`, 60 s). No fairness for callers. `CircuitBreaker`: the callers' steps (tasks keep
coming, calls have timeouts) and the passing of time; none for the connection
or `mark_cloud_unavailable`. `EdgeSession`: the edge only, whose calls all have
timeouts (0.5 s to connect, 10 s to read); the gateway may never answer.
`LiveMonitor`: the loops and the calls that were begun; nobody has to click.
`EdgeDecision`: the main thread and each node's thread, whose steps are local
computations or a cloud call with a timeout. `CloudLoad`, `FleetRoute` and
`ConflictArbitration` state no fairness and check no liveness: an upload that is
never submitted, or a language model that never answers, is no concern of them.

## 5. Proofs

All theorems hold for every value of the constants under the modules' `ASSUME`s
(finite sets of threads and calls, natural sizes, a threshold of at least one: the
constructor takes `max(1, ...)`; at least one server, as configured, and at least
two nodes, which the constructor of the multi-edge service demands; a fleet with a
capacity of at least one, as configured).

*GatewayRuns.* The invariant `IInv` of `GatewayRunsProofs` strengthens the
properties by what makes them inductive: the counters of a record balance
(`Balanced`); a run has at most one thread that finishes it, and is closed
meanwhile (`SoleFinisher`); the counters this thread copied are the totals of the
record, with nothing in flight (`CopyIsFinal`); an unknown run has no counts and
a finished one its final counts as metrics (`RecordShape`). With one finisher per run
and no new requests after the closing, the copy stays equal to the totals while
the lock is free: that is the heart of `FinishedComplete` and
`ReportsConsistent`. `Refinement` maps each action to a step of `RunLedger` or
to a stutter; `InFlightExact` enters because the ledger's outstanding number is
the cardinality of a set of threads and the code tests a counter.
`RunsOnlyMoveOn` is the life of a run in one formula: its status takes one phase
at a time and never goes back, a finished record does not change and what was
reported of it stays reported, in every step but a restart.

`NoLostWakeup` is the safety `FinishAnswered` rests on. Each thread in the wait set
has, on its own run, a thread outside it that is inspecting or finishing, and whose
end notifies (`NobodyWaitsInVain`). The invariant behind it (`WaitInv`) says what a
waiter waits for: a draining one for a record that still has requests in flight, an
awaiting one for a run that is still being finished; and a run that is being
finished has its finisher. Sections that change either condition notify, so a stale
waiter is never left in the set. What is left to TLC is that these threads go on.
Theorems: `Invariance`, `TypeCorrect`, `InFlightCounted`, `FinishedComplete`,
`ReportsConsistent`, `CountersMonotone`, `Refinement`, `RunsOnlyMoveOn`,
`NoLostWakeup`.

*CircuitBreaker.* `ProbeOutstanding` is not inductive by itself because late
outcomes of callers admitted while closed and of earlier probes mix; the
invariant of `CircuitBreakerProofs` joins the two state properties and adds
`OpenedAtLatest`: while the breaker is not closed, `_opened_at` is the instant of the
latest failure that opened it, so that a reading which is later by the timeout is
later than that failure by as much, and so is the admission. Theorems: `Invariance`, `TypeCorrect`, `ProbeAlwaysOutstanding`,
`ClosedMeansBelow`, `QuietUntilCooled`.

*CloudLoad.* `FirstComeFirstServed` is not inductive: a request in service must be
older than the waiting ones for a reason. The invariant of `CloudLoadProofs` says
that the waiting requests are the last ones submitted, without a gap and in
order (`waiting[i] = n_submitted - queue + i`), so that a promotion takes the
oldest and what is left is still a suffix. Conservation needs that retired,
kept and promoted requests are disjoint sets of finite cardinality. For
`QueuedIsWorthIt` it adds that while an upload is under way the router wanted it
at the present load (`UploadWanted`): no other sample submits in between, and
moving the clock can only lower the load, so a request that finds all servers
taken was wanted at a saturated cloud.

`RealLoad` gives a condition under which finding 4 does not occur: if no upload
takes longer than the edge does between any two samples, the router is charged only
for requests that have reached the cloud. Requests are put into service at the time
they arrive (`AdvancedStarts`, `SubmittedStarts`), so all that is in service
started by the clock of the loop while a sample is routed, and by the earliest
arrival of the next one after it (`StartInv`). The instance of the runs, with
uploads of 5 and samples 1 apart, is outside the condition. Theorems: `Inductive`,
`TypeCorrect`, `SummaryCorrect`, `WorkConserving`, `ServedInOrder`,
`ShedsUnderLoad`, `RealLoad`.

*EdgeDecision.* The invariant of `EdgeDecisionProofs` carries what was known of the
judgements to the outcome: while the cloud is asked every judge is heard
(`Heard`), and an outcome agrees with the judgements it rests on (`Settled`).
That the vote has a winner is `WinnerExists`, for any finite number of nodes: a
finite set of numbers has a least and a greatest element (`FiniteLeast`,
`FiniteGreatest`, from the well-foundedness of strict inclusion on finite sets).
The counters balance because each outcome adds as much to the reviews wanted as
to those had or replaced (`ReturnCounted`). Theorems: `Inductive`, `TypeCorrect`,
`MajorityDecides`, `AllHeard`, `FailsSafe`, `SummaryCorrect`.

*EdgeSession.* The invariant of `EdgeSessionProofs` follows the requests and the
counts through both programs. Who waits for what is determined by where `main()`
is (`Asking`), and a handler thread holds the request that brought it to its place
(`Serving`). Nobody finishes the run before the session asks for it, not even a
late request (`NotFinished`); a gateway that was not restarted knows the run it
confirmed (`Known`). So a refused inspection that the session still waits for
means an unknown run, hence a restart. `Covered` has the delivered results below
the count at each place on its way: the record, the finisher's copy, the
answer, the report. A result is delivered only to a session that is inspecting,
and then no finisher has copied anything: that is why the late requests do no
harm. The registry's part (`Registry`) is proved again for one run, because the
proof system cannot use the theorems of a module that is instantiated.

Four theorems are about the composition and the session's way to its end.
`DrivesRegistry`: each step of a session is a step of `GatewayRuns` or leaves the
registry alone. `NothingUnserved` says that the composition does not hide
anything by what it leaves out: `ServeFinish` has no case for a run that is being
finished, and `GatewayRuns` bounds the requests of a run, here by `Tasks`. Neither
matters, because there is one finish (`FinishOnce`) and the requests counted and
the inspections on the wire together are no more than the images sent (`Budget`,
a cardinality). `CountedOnce` gives the conditions of finding 1: a request that was
added up is added up again only by a task whose image cannot be read, or by one
whose re-registration fails after a restart of the gateway; no other failure and no
late answer does it. Its invariant (`OnceInv`) says that a task is not added up before
its review has ended, that the metrics kept are of a task begun, and that those a
failing registration would add again are of none, since without a restart the client
never loses its registration in the middle of a session; it rests on `RefusedCorrect`. `SessionAdvances` is the variant of the session:
`Remaining` is a natural number, each step of the edge makes it less, nobody else's
step changes it, and it is 0 only at the end with all images handled. With it
`SessionEnds` needs no more than that the edge can always take a step while it is
not done, which TLC shows.

Theorems: `Inductive`, `TypeCorrect`, `ProbeOnly`, `RefusedCorrect`,
`DeliveredCorrect`, `DrivesRegistry`, `NothingUnserved`, `CountedOnce`,
`SessionAdvances`, and `AttemptsCorrect` for a threshold of 1, where a failure
always leaves the breaker open or half-open.

*LiveMonitor.* Types and the balance of the counters are inductive together, for
any number of tabs, calls, loops and nodes: a tick, a recording and a reset are single
sections. Theorems: `Inductive`, `TypeCorrect`, `StatsCorrect`.

*FleetRoute.* The invariant of `FleetRouteProofs` says what the place of a call
tells of its path (`CallsInv`), and what a call whose link was cut all along can
have decided (`DarkInv`). The counters are cardinalities of sets of threads: a
step changes the place of one thread, so each set gains or loses one element
(`OneElement`), and the number and the set move together. Theorems: `Inductive`,
`TypeCorrect`, `InflightCounted`, `Booked`, `OutageGate`, `GuardSound`. The last is
an action property and needs from the invariant only the types: the rules of the
guard are compared with the policy for all bands.

*ConflictArbitration.* What a row says of its path and what it says of its upload
agree (`RowAgrees`), because an upload that got through always has a decision
when the sample is arbitrated (`ReviewInv`): without the fallback vote it would
not. The counts of the summary are then sizes of the same sets.

`OverruledCorrect` needs what the votes compute. A decision of the cloud without a
trusted review is the weighted vote of the nodes (`DecisionInv`), and until the next
sample is taken the last row is that of the scores and the review that are still
there (`LastInv`; both with `IInv` make `VInv`).
Of the votes the proof needs that nodes that agree win both (`VoteOfAgreeing`). The
weights are positive, because a score at the threshold still weighs the least
amount the code gives it (`WeightPositive`). The weighted sum is a fold over a set,
a recursive function on its parts; that it exists is shown by induction over their
size (`EveryNumber`, from the well-foundedness of the natural numbers; `TableStep`,
`TableExists`), and that the sum over a non-empty set is positive, and over the
empty one 0, along the same parts (`WeightsPositive`). `AgreementKept` states the
result for all scores. Theorems: `Inductive`, `TypeCorrect`, `SummaryCorrect`,
`OverruledCorrect`, `AgreementKept`.

Model-checked only: liveness (`FinishAnswered`, `Recovers`, `SessionEnds`,
`SessionDone`, `LoopsEnd`, `StopReturns`), which is out of the proof system's reach,
as is `ENABLED`; for two of them the safety they rest on is proved (`NoLostWakeup`,
`SessionAdvances`). Every other property of the passing runs is a theorem. The
invariants and variants that the runs do not check (`WaitInv` and
`NobodyWaitsInVain`, `OnceInv`, `Budget`, `FinishOnce`, the two claims of
`SessionAdvances`, `StartInv`, the formula of `RunsOnlyMoveOn`) were
first found to hold on the instances of the runs, or on smaller ones.

## 6. Not modelled

* *The greater part of the repository by lines* is numerical: the encoders and
  model definitions under `models/`, the vendored `dinov3` and `open_clip` trees,
  detectors, training, fine-tuning and benchmark scripts. They compute tensors and
  tables in one thread. Their results appear as outcomes: a judgement, a
  confidence, a gain. The share of lines that `map` covers is small for this
  reason, and it would not be right to enlarge it by transcribing arithmetic.
* *Numbers inside modelled parts*: image quality scores and their calibration,
  the floating-point terms of the routing utility, random delays and losses of the
  simulated networks, latencies and ground truth in the metrics.
* *The legacy network mode* (`network_env.enabled: false`), with static profiles
  per node and a saved profile for restore. The configured mode is the physical one.
* *The network sampler* of the console and its history: it appends points that
  are only drawn. `recent_cloud`, the fairness record of the fleet, is in no decision
  of the modelled router.
* *Loading of models*: the lazy loaders and the one language model all threads
  share. `FleetRoute` lets a model answer anything or raise; two calls at once
  into the library are outside `src/`.
* *The live model in the cloud* after a demo upload, files that are
  uploaded through the console, pages and plots, prompts, result files: I/O.
* *Errors of the file system* outside the try blocks, which end `main()`. An image
  that cannot be read for its upload is inside one, and modelled (`Unreadable`).
* *`evaluate.py`*: its loop is that of `main.py` with one dataset, its report is numbers.
* *Stopping the gateway* is a crash (`Restart`): `server_close` at an interrupt
  does not save the runs either. The GPU monitor's samples are not part of the
  registry's state.

## 7. Plan

What a later extension could take up, in this order:

1. The legacy network mode: the order of saving and applying in `disconnect` and
   `restore` matters there (`web/api/network.py`).
2. Errors of the file system that end `main()` in `EdgeSession`: it then ends without
   finishing its run, and the gateway keeps it active.
3. The calibration of the decision policy: its cached threshold against the
   ratio it aims at.
