----------------------------- MODULE GatewayRuns -----------------------------
(***************************************************************************)
(* The run registry of the cloud gateway: CloudGatewayApplication in       *)
(* third_part/cloud-edge-xj/cloud/gateway_server.py.                       *)
(*                                                                         *)
(* A ThreadingHTTPServer gives every HTTP call a thread.  The threads      *)
(* share the dictionary _runs under one condition variable,                *)
(* _runs_condition.  An action below is one critical section of the code:  *)
(* what a thread does between taking the lock and releasing it, whether    *)
(* by leaving the with block or by waiting.  What the code does without    *)
(* the lock (the nvidia-smi sample, the call to the model) is the time a   *)
(* thread spends between two actions.                                      *)
(*                                                                         *)
(* Abstracted: a run's start time and GPU summary; the two byte counters,  *)
(* updated in the same places in the same way, are one; the calls that are *)
(* refused and change nothing (see Refuses) are not actions.               *)
(***************************************************************************)
EXTENDS Naturals, FiniteSets

CONSTANTS RunIds,        \* run identifiers the edge sites use
          Threads,       \* handler threads of the HTTP server
          Sizes,         \* sizes of an inspection request, in bytes
          MaxRequests,   \* bound: requests a run accepts
          MaxRestarts    \* bound: restarts of the gateway

ASSUME GatewayAssumption ==
    /\ RunIds # {}
    /\ IsFiniteSet(Threads)
    /\ Sizes \subseteq Nat
    /\ MaxRequests \in Nat
    /\ MaxRestarts \in Nat

VARIABLES
    runs,       \* _runs; a run_id without a key has status "absent"
    pc,         \* where a thread stands between two critical sections
    run,        \* the run_id a thread is serving
    copied,     \* the finisher's local "counters"
    waitset,    \* threads inside _runs_condition.wait()
    reports,    \* history: the metrics handed to callers, per run
    restarts    \* history: how often the process was restarted

vars == <<runs, pc, run, copied, waitset, reports, restarts>>

-----------------------------------------------------------------------------
(* Data. *)

Counters == [requests : Nat, succeeded : Nat, failed : Nat, bytes : Nat]

Zero == [requests |-> 0, succeeded |-> 0, failed |-> 0, bytes |-> 0]

Status == {"absent", "active", "finishing", "finished"}

\* A record of _runs.  "finished_metrics" is there once the run is finished.
Run == [status : Status, in_flight : Nat,
        requests : Nat, succeeded : Nat, failed : Nat, bytes : Nat,
        finished_metrics : Counters]

NoRun == [status |-> "absent", in_flight |-> 0,
          requests |-> 0, succeeded |-> 0, failed |-> 0, bytes |-> 0,
          finished_metrics |-> Zero]

FreshRun == [NoRun EXCEPT !.status = "active"]

\* The counters a finisher copies out of a record.
Totals(record) == [requests |-> record.requests, succeeded |-> record.succeeded,
                   failed |-> record.failed, bytes |-> record.bytes]

(***************************************************************************)
(* "starting"   after the first critical section of a start, sampling      *)
(* "draining"   the thread that moved a run to finishing, in its wait loop *)
(* "sampling"   the same thread, with the counters copied, without lock    *)
(* "awaiting"   another finish call, waiting for the first one             *)
(* "inspecting" an accepted request, with the model or its checks          *)
(***************************************************************************)
Pc == {"idle", "starting", "draining", "sampling", "awaiting", "inspecting"}

\* The value of run[t] while thread t serves no call.
NoCall == CHOOSE r \in RunIds : TRUE

\* The threads that serve an accepted inspection of run r.
Inspecting(r) == {t \in Threads : pc[t] = "inspecting" /\ run[t] = r}

Init ==
    /\ runs = [r \in RunIds |-> NoRun]
    /\ pc = [t \in Threads |-> "idle"]
    /\ run = [t \in Threads |-> NoCall]
    /\ copied = [t \in Threads |-> Zero]
    /\ waitset = {}
    /\ reports = [r \in RunIds |-> {}]
    /\ restarts = 0

-----------------------------------------------------------------------------
(* POST /v1/runs/start *)

\* The call is answered and the thread's locals end with it.
Return(t) ==
    /\ pc' = [pc EXCEPT ![t] = "idle"]
    /\ run' = [run EXCEPT ![t] = NoCall]
    /\ copied' = [copied EXCEPT ![t] = Zero]

\* The run_id has no record: leave the lock and sample the GPU.
StartUnknown(t, r) ==
    /\ pc[t] = "idle"
    /\ runs[r].status = "absent"
    /\ pc' = [pc EXCEPT ![t] = "starting"]
    /\ run' = [run EXCEPT ![t] = r]
    /\ UNCHANGED <<runs, copied, waitset, reports, restarts>>

\* A start or a repeated finish of a finished run returns its metrics again.
ReplayFinished(t, r) ==
    /\ pc[t] = "idle"
    /\ runs[r].status = "finished"
    /\ reports' = [reports EXCEPT ![r] = @ \union {runs[r].finished_metrics}]
    /\ UNCHANGED <<runs, pc, run, copied, waitset, restarts>>

\* Faulty variant of Register: the second look-up is left out.
RegisterUnchecked(t) ==
    /\ pc[t] = "starting"
    /\ runs' = [runs EXCEPT ![run[t]] = FreshRun]
    /\ Return(t)
    /\ UNCHANGED <<waitset, reports, restarts>>

\* Second critical section of a start: another thread may have been faster.
Register(t) ==
    /\ pc[t] = "starting"
    /\ runs' = IF runs[run[t]].status = "absent"
               THEN [runs EXCEPT ![run[t]] = FreshRun]
               ELSE runs
    /\ Return(t)
    /\ UNCHANGED <<waitset, reports, restarts>>

-----------------------------------------------------------------------------
(* POST /v1/runs/finish *)

\* Faulty variant of DrainOrCopy: the counters are copied without waiting.
CopyAtOnce(t, r, record) ==
    /\ pc' = [pc EXCEPT ![t] = "sampling"]
    /\ copied' = [copied EXCEPT ![t] = Totals(record)]
    /\ UNCHANGED waitset

\* "while run[in_flight]: wait()", then the copy of the counters: what the
\* finisher does with the lock, given the run's record.
DrainOrCopy(t, r, record) ==
    IF record.in_flight # 0
    THEN /\ pc' = [pc EXCEPT ![t] = "draining"]
         /\ waitset' = waitset \union {t}
         /\ UNCHANGED copied
    ELSE /\ pc' = [pc EXCEPT ![t] = "sampling"]
         /\ copied' = [copied EXCEPT ![t] = Totals(record)]
         /\ UNCHANGED waitset

\* The first finish call closes the run.
FinishActive(t, r) ==
    /\ pc[t] = "idle"
    /\ runs[r].status = "active"
    /\ runs' = [runs EXCEPT ![r].status = "finishing"]
    /\ run' = [run EXCEPT ![t] = r]
    /\ DrainOrCopy(t, r, runs[r])
    /\ UNCHANGED <<reports, restarts>>

\* A notified finisher has the lock again and tests its condition.
Drained(t) ==
    /\ pc[t] = "draining"
    /\ t \notin waitset
    /\ DrainOrCopy(t, run[t], runs[run[t]])
    /\ UNCHANGED <<runs, run, reports, restarts>>

\* The finisher returns with the lock, the GPU summary made.
Publish(t) ==
    /\ pc[t] = "sampling"
    /\ runs' = [runs EXCEPT ![run[t]].status = "finished",
                            ![run[t]].finished_metrics = copied[t]]
    /\ waitset' = {}
    /\ reports' = [reports EXCEPT ![run[t]] = @ \union {copied[t]}]
    /\ Return(t)
    /\ UNCHANGED restarts

\* Faulty variant of FinishFinishing: it answers with the totals so far.
FinishEarly(t, r) ==
    /\ pc[t] = "idle"
    /\ runs[r].status = "finishing"
    /\ reports' = [reports EXCEPT ![r] = @ \union {Totals(runs[r])}]
    /\ UNCHANGED <<runs, pc, run, copied, waitset, restarts>>

\* A finish call while another thread finishes the run: wait for that one.
FinishFinishing(t, r) ==
    /\ pc[t] = "idle"
    /\ runs[r].status = "finishing"
    /\ pc' = [pc EXCEPT ![t] = "awaiting"]
    /\ run' = [run EXCEPT ![t] = r]
    /\ waitset' = waitset \union {t}
    /\ UNCHANGED <<runs, copied, reports, restarts>>

\* A notified second finisher tests the status again.
Awaited(t) ==
    /\ pc[t] = "awaiting"
    /\ t \notin waitset
    /\ IF runs[run[t]].status # "finished"
       THEN /\ waitset' = waitset \union {t}
            /\ UNCHANGED <<pc, run, copied, reports>>
       ELSE /\ Return(t)
            /\ reports' = [reports EXCEPT
                              ![run[t]] = @ \union {runs[run[t]].finished_metrics}]
            /\ UNCHANGED waitset
    /\ UNCHANGED <<runs, restarts>>

-----------------------------------------------------------------------------
(* POST /v1/inspect *)

\* Faulty variant of Refuses: only an unknown run_id is refused.
RefusesUnknown(r) == runs[r].status = "absent"

\* _begin_request raises ValueError for such a run and changes nothing.
Refuses(r) == runs[r].status # "active"

\* _begin_request
BeginRequest(t, r, n) ==
    /\ pc[t] = "idle"
    /\ ~ Refuses(r)
    /\ runs[r].requests < MaxRequests
    /\ runs' = [runs EXCEPT
          ![r].in_flight = @ + 1,
          ![r].requests = @ + 1,
          ![r].bytes = @ + n]
    /\ pc' = [pc EXCEPT ![t] = "inspecting"]
    /\ run' = [run EXCEPT ![t] = r]
    /\ UNCHANGED <<copied, waitset, reports, restarts>>

\* Faulty variant of FinishRequest: a failed request stays in flight.
FinishOnSuccessOnly(t, success) ==
    /\ pc[t] = "inspecting"
    /\ runs' = [runs EXCEPT
          ![run[t]].in_flight = IF success THEN @ - 1 ELSE @,
          ![run[t]].succeeded = IF success THEN @ + 1 ELSE @,
          ![run[t]].failed = IF success THEN @ ELSE @ + 1]
    /\ waitset' = {}
    /\ Return(t)
    /\ UNCHANGED <<reports, restarts>>

\* Faulty variant of FinishRequest: a failure is taken off in flight twice,
\* by the handler of the exception and by the finally clause.
FinishFailureTwice(t, success) ==
    /\ pc[t] = "inspecting"
    /\ runs' = [runs EXCEPT
          ![run[t]].in_flight = IF success THEN @ - 1 ELSE @ - 2,
          ![run[t]].succeeded = IF success THEN @ + 1 ELSE @,
          ![run[t]].failed = IF success THEN @ ELSE @ + 1]
    /\ waitset' = {}
    /\ Return(t)
    /\ UNCHANGED <<reports, restarts>>

\* Faulty variant of FinishRequest: it does not notify.
FinishSilently(t, success) ==
    /\ pc[t] = "inspecting"
    /\ runs' = [runs EXCEPT
          ![run[t]].in_flight = @ - 1,
          ![run[t]].succeeded = IF success THEN @ + 1 ELSE @,
          ![run[t]].failed = IF success THEN @ ELSE @ + 1]
    /\ Return(t)
    /\ UNCHANGED <<waitset, reports, restarts>>

\* _finish_request, from the finally clause of inspect: the outcome is a
\* success or any of the errors inspect raises after _begin_request.
FinishRequest(t, success) ==
    /\ pc[t] = "inspecting"
    /\ runs' = [runs EXCEPT
          ![run[t]].in_flight = @ - 1,
          ![run[t]].succeeded = IF success THEN @ + 1 ELSE @,
          ![run[t]].failed = IF success THEN @ ELSE @ + 1]
    /\ waitset' = {}
    /\ Return(t)
    /\ UNCHANGED <<reports, restarts>>

-----------------------------------------------------------------------------

\* The process ends with all its threads and starts again without runs.
Restart ==
    /\ restarts < MaxRestarts
    /\ restarts' = restarts + 1
    /\ runs' = [r \in RunIds |-> NoRun]
    /\ pc' = [t \in Threads |-> "idle"]
    /\ waitset' = {}
    /\ reports' = [r \in RunIds |-> {}]
    /\ run' = [t \in Threads |-> NoCall]
    /\ copied' = [t \in Threads |-> Zero]

\* A thread takes up a call.
Call(t, r) ==
    \/ StartUnknown(t, r)
    \/ ReplayFinished(t, r)
    \/ FinishActive(t, r)
    \/ FinishFinishing(t, r)
    \/ \E n \in Sizes : BeginRequest(t, r, n)

\* A thread goes on with the call it serves.
Step(t) ==
    \/ Register(t)
    \/ Drained(t)
    \/ Publish(t)
    \/ Awaited(t)
    \/ \E success \in BOOLEAN : FinishRequest(t, success)

Next ==
    \/ \E t \in Threads : Step(t) \/ \E r \in RunIds : Call(t, r)
    \/ Restart

(***************************************************************************)
(* A runnable thread is scheduled, a lock that is free is given to some    *)
(* thread that asks for it, and the model call has a timeout: a thread     *)
(* that serves a call and is not waiting goes on.  Nobody has to call.     *)
(***************************************************************************)
Fairness == \A t \in Threads : WF_vars(Step(t))

Spec == Init /\ [][Next]_vars /\ Fairness

-----------------------------------------------------------------------------
(* Properties. *)

\* Every variable holds values of its type.
TypeOK ==
    /\ runs \in [RunIds -> Run]
    /\ pc \in [Threads -> Pc]
    /\ run \in [Threads -> RunIds]
    /\ copied \in [Threads -> Counters]
    /\ waitset \subseteq Threads
    /\ reports \in [RunIds -> SUBSET Counters]
    /\ restarts \in Nat

\* in_flight counts exactly the threads that are inside an accepted request,
\* through every error path of inspect; a finish call waits on this number.
InFlightExact ==
    \A r \in RunIds : runs[r].in_flight = Cardinality(Inspecting(r))

\* The counters of a run always add up: an accepted request is succeeded,
\* failed or still in flight, and never counted twice.
Balanced ==
    \A r \in RunIds :
        runs[r].requests =
            runs[r].succeeded + runs[r].failed + runs[r].in_flight

\* The metrics of a finished run cover every request the gateway accepted for
\* it: nothing is outstanding, and what was copied before the lock was given
\* up for the GPU sample is still what the record says.
FinishedIsComplete ==
    \A r \in RunIds : runs[r].status = "finished" =>
        /\ Inspecting(r) = {}
        /\ runs[r].finished_metrics = Totals(runs[r])

\* All callers that were told the metrics of a run, by whichever of the four
\* paths that return them, were told the same.
ReportsAgree ==
    \A r \in RunIds : \A m \in reports[r] :
        /\ runs[r].status = "finished"
        /\ m = runs[r].finished_metrics

\* As long as the process lives no step takes back a request that was counted:
\* the comment in handle_run_control says that concurrent starts are
\* idempotent and cannot clear the requests accumulated so far.
CountersOnlyGrow ==
    [][restarts' = restarts => \A r \in RunIds :
          /\ runs'[r].requests >= runs[r].requests
          /\ runs'[r].succeeded >= runs[r].succeeded
          /\ runs'[r].failed >= runs[r].failed]_vars

\* Every finish call is answered, the first one and those that wait for it:
\* no notification is lost between the three kinds of waiting threads.
FinishAnswered ==
    \A t \in Threads :
        (pc[t] \in {"draining", "sampling", "awaiting"}) ~> (pc[t] = "idle")

\* The account RunLedger keeps for run r: the number outstanding there is the
\* number of threads inside a request, not the counter.
Account(r) ==
    [phase |-> runs[r].status,
     outstanding |-> Cardinality(Inspecting(r)),
     requests |-> runs[r].requests,
     succeeded |-> runs[r].succeeded,
     failed |-> runs[r].failed,
     bytes |-> runs[r].bytes,
     report |-> runs[r].finished_metrics]

Accounts == [r \in RunIds |-> Account(r)]

Ledger == INSTANCE RunLedger WITH ledger <- Accounts

\* The registry implements RunLedger: whatever the threads interleave, a run is
\* opened once, closed once, and reported once, completely.
ImplementsLedger == Ledger!Spec

=============================================================================
