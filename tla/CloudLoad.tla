------------------------------ MODULE CloudLoad ------------------------------
(***************************************************************************)
(* The discrete-event simulator of the cloud reviewer (src/cloud_load.py)  *)
(* and the loop that drives it (scripts/bench_e2e_collab_live.py, and the  *)
(* same loop twice in scripts/bench_cloud_edge_compare.py): every sample   *)
(* advances the simulator to its arrival, the cost-risk router             *)
(* (collab_routing/cost_risk.py) reads the load and decides, and a sample  *)
(* that is uploaded takes a server of the cloud or waits for one.          *)
(*                                                                         *)
(* Times are integers; floats enter the code only to be added and          *)
(* compared.  Requests are numbered in the order they are submitted.       *)
(***************************************************************************)
EXTENDS Integers, Sequences, FiniteSets

CONSTANTS MaxInflight,   \* max_inflight: servers of the cloud
          ServiceMs,     \* service_ms: service time of a request
          EdgeMs,        \* edge latencies, the time between two samples
          NetMs,         \* times an upload may take (rtt + tx)
          Signals,       \* what the router sees of a sample and of its link
          CloudWeight,   \* w_c: what a saturated cloud costs in utility
          Samples        \* number of samples of the benchmark

ASSUME CloudAssumption ==
    /\ MaxInflight \in Nat \ {0}
    /\ ServiceMs \in Nat
    /\ EdgeMs \subseteq Nat
    /\ NetMs \subseteq Nat
    /\ Signals \subseteq [outage : BOOLEAN, cold : BOOLEAN, weak : BOOLEAN, gain : Int]
    /\ CloudWeight \in Nat
    /\ Samples \in Nat

VARIABLES
    sim,         \* the simulator, see IsSim
    sim_clock,   \* the clock of the loop: arrival of the current sample
    at,          \* where the loop is
    signal,      \* the RouteSignal of the current sample
    seen         \* samples taken from edge_rows

vars == <<sim, sim_clock, at, signal, seen>>

-----------------------------------------------------------------------------
(* The simulator. *)

\* busy_until: the end of every request in service.  (The code keeps a heap of
\* end times and a list of arrival times; the numbers tell the requests apart.)
InService(s) == DOMAIN s.busy_until

\* A state of the simulator: clock, the servers, the queue and the counters.
IsSim(s) ==
    /\ s.clock \in Nat
    /\ InService(s) \subseteq 1..s.n_submitted
    /\ s.busy_until \in [InService(s) -> Nat]
    /\ s.waiting \in Seq(1..s.n_submitted)
    /\ s.n_submitted \in Nat
    /\ s.n_completed \in Nat
    /\ s.n_queued \in Nat
    /\ s.max_queue_seen \in Nat

inflight(s) == Cardinality(InService(s))

queue(s) == Len(s.waiting)

load(s) == inflight(s) + queue(s)

Least(a, b) == IF a <= b THEN a ELSE b

Greatest(a, b) == IF a <= b THEN b ELSE a

\* The requests whose service is not over at time now.
Unfinished(s, now) == {j \in InService(s) : s.busy_until[j] > now}

\* Faulty variant of Promotions: at most one request is promoted at a time.
PromotionsOne(s, now) ==
    IF s.waiting # <<>> /\ Cardinality(Unfinished(s, now)) < MaxInflight THEN 1 ELSE 0

\* How many waiting requests find a server at time now.
Promotions(s, now) == Least(queue(s), MaxInflight - Cardinality(Unfinished(s, now)))

\* The waiting requests that get them, the oldest first.
Promoted(s, now) == {s.waiting[i] : i \in 1..Promotions(s, now)}

\* The servers when the requests of js start at time now.
Serving(s, kept, js, now) ==
    [j \in kept \union js |-> IF j \in js THEN now + ServiceMs ELSE s.busy_until[j]]

\* Faulty variant of Moved: a retired server is not counted.
MovedUncounted(s, now) ==
    [s EXCEPT !.clock = now,
              !.busy_until = Serving(s, Unfinished(s, now), Promoted(s, now), now),
              !.waiting = SubSeq(@, Promotions(s, now) + 1, queue(s))]

\* advance, when the clock moves.
Moved(s, now) ==
    LET left == SubSeq(s.waiting, Promotions(s, now) + 1, queue(s))
    IN  [clock |-> now,
         busy_until |-> Serving(s, Unfinished(s, now), Promoted(s, now), now),
         waiting |-> left,
         n_submitted |-> s.n_submitted,
         n_completed |-> s.n_completed + inflight(s) - Cardinality(Unfinished(s, now)),
         n_queued |-> s.n_queued,
         max_queue_seen |-> Greatest(s.max_queue_seen, Len(left))]

Advanced(s, now) == IF now <= s.clock THEN s ELSE Moved(s, now)

\* The request after those of s starts at once.
Started(s, now) ==
    [clock |-> s.clock,
     busy_until |-> Serving(s, InService(s), {s.n_submitted + 1}, now),
     waiting |-> s.waiting,
     n_submitted |-> s.n_submitted + 1,
     n_completed |-> s.n_completed,
     n_queued |-> s.n_queued,
     max_queue_seen |-> s.max_queue_seen]

\* Faulty variant of Queued: only the requests that start are counted.
QueuedUncounted(s) ==
    [s EXCEPT !.waiting = Append(s.waiting, s.n_submitted + 1),
              !.n_queued = s.n_queued + 1,
              !.max_queue_seen = Greatest(s.max_queue_seen, queue(s) + 1)]

\* Faulty variant of Queued: the newest request is put first.
QueuedFirst(s) ==
    [s EXCEPT !.waiting = <<s.n_submitted + 1>> \o s.waiting,
              !.n_submitted = s.n_submitted + 1,
              !.n_queued = s.n_queued + 1,
              !.max_queue_seen = Greatest(s.max_queue_seen, queue(s) + 1)]

\* It joins the queue.  The wait that submit estimates is reported and read
\* nowhere in the program.
Queued(s) ==
    [clock |-> s.clock,
     busy_until |-> s.busy_until,
     waiting |-> Append(s.waiting, s.n_submitted + 1),
     n_submitted |-> s.n_submitted + 1,
     n_completed |-> s.n_completed,
     n_queued |-> s.n_queued + 1,
     max_queue_seen |-> Greatest(s.max_queue_seen, queue(s) + 1)]

\* submit
Submitted(s, now) ==
    LET t == Advanced(s, now)
    IN  IF inflight(t) < MaxInflight THEN Started(t, now) ELSE Queued(t)

NewSim ==
    [clock |-> 0, busy_until |-> [j \in {} |-> 0], waiting |-> <<>>,
     n_submitted |-> 0, n_completed |-> 0, n_queued |-> 0, max_queue_seen |-> 0]

-----------------------------------------------------------------------------
(* The router.  sig.gain is the utility of the upload at an idle cloud, in *)
(* the unit of CloudWeight; weak says that the weak-link guard applies.    *)

\* Faulty variant of Worth: the load is not charged.
WorthIdle(sig, l) == sig.gain > 0

\* U > 0: gain - w_c * clip(load / max_inflight, 0, 1) > 0
Worth(sig, l) == sig.gain * MaxInflight > CloudWeight * Least(l, MaxInflight)

Uploads(sig, l) == ~ sig.outage /\ (sig.cold \/ (~ sig.weak /\ Worth(sig, l)))

-----------------------------------------------------------------------------
(* The loop over the samples. *)

Init ==
    /\ sim = NewSim
    /\ sim_clock = 0
    /\ at = "edge"
    /\ signal \in Signals
    /\ seen = 0

\* The edge is done with its next sample, which arrives after its latency.
Arrive(ms) ==
    /\ at = "edge"
    /\ seen < Samples
    /\ seen' = seen + 1
    /\ sim_clock' = sim_clock + ms
    /\ sim' = Advanced(sim, sim_clock')
    /\ signal' \in Signals
    /\ at' = "routing"

StayLocal ==
    /\ at = "routing"
    /\ ~ Uploads(signal, load(sim))
    /\ at' = "edge"
    /\ UNCHANGED <<sim, sim_clock, signal, seen>>

Upload ==
    /\ at = "routing"
    /\ Uploads(signal, load(sim))
    /\ at' = "uploading"
    /\ UNCHANGED <<sim, sim_clock, signal, seen>>

\* try_upload fails: LOCAL_NET_FALLBACK
UploadLost ==
    /\ at = "uploading"
    /\ at' = "edge"
    /\ UNCHANGED <<sim, sim_clock, signal, seen>>

\* The request reaches the cloud after the time the upload took.
Submit(ms) ==
    /\ at = "uploading"
    /\ sim' = Submitted(sim, sim_clock + ms)
    /\ at' = "edge"
    /\ UNCHANGED <<sim_clock, signal, seen>>

Next ==
    \/ \E ms \in EdgeMs : Arrive(ms)
    \/ StayLocal
    \/ Upload
    \/ UploadLost
    \/ \E ms \in NetMs : Submit(ms)

Spec == Init /\ [][Next]_vars

-----------------------------------------------------------------------------
(* Properties. *)

\* Type correctness: requests carry numbers that were given out.
TypeOK ==
    /\ IsSim(sim)
    /\ sim_clock \in Nat
    /\ at \in {"edge", "routing", "uploading"}
    /\ signal \in Signals
    /\ seen \in 0..Samples

\* The summary of a benchmark adds up (summary(), cloud_load.py): a request is
\* completed, in service or waiting, and exactly one of them; those that wait
\* have been counted as queued, and the longest queue is not over-reported.
SummaryAddsUp ==
    /\ sim.n_submitted = sim.n_completed + load(sim)
    /\ queue(sim) <= sim.max_queue_seen
    /\ sim.max_queue_seen <= sim.n_queued
    /\ sim.n_queued <= sim.n_submitted

\* The simulator is the c-server queue its docstring names (advance, submit):
\* never more servers than max_inflight, and none idle while a request waits.
NoIdleServer ==
    /\ inflight(sim) <= MaxInflight
    /\ sim.waiting # <<>> => inflight(sim) = MaxInflight

\* Requests get their servers in the order of their submission ("FIFO",
\* waiting.pop(0) in advance): none in service was submitted after one that
\* still waits.
FirstComeFirstServed ==
    \A j \in InService(sim), i \in 1..queue(sim) : j < sim.waiting[i]

\* The router sheds load as the cloud saturates (the first lines of
\* cloud_load.py): although the load it reads may be out of date when the upload
\* gets through, a request only ever joins the queue if it is a cold start or
\* worth a saturated cloud.
QueuedIsWorthIt ==
    [][queue(sim') > queue(sim) => signal.cold \/ signal.gain > CloudWeight]_vars

\* bench_e2e_collab_live.py:247-248, "advance the cloud queue to the sample's
\* arrival time so inflight/queue are real": the router is charged only for
\* requests that are at the cloud when the sample arrives.
CountsOnlyArrived ==
    at = "routing" => \A j \in InService(sim) : sim.busy_until[j] - ServiceMs <= sim_clock
=============================================================================
