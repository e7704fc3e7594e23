---------------------------- MODULE EdgeDecision ----------------------------
(***************************************************************************)
(* How an image becomes a business action: the edge services               *)
(* (edge/edge_service.py and edge/multi_node_service.py), the upload       *)
(* policy (control/decision_policy.py) and what the evaluation counts of   *)
(* it (common/metrics.py, main.py), all in third_part/cloud-edge-xj.       *)
(*                                                                         *)
(* In a multi-edge session the nodes judge the image in threads of their   *)
(* own; the main thread waits for all of them, votes, and asks the cloud   *)
(* if they disagree or the image is complex.  A single-edge session has    *)
(* one node and no vote.  The cloud call is upload_result of               *)
(* CircuitBreaker and EdgeSession; here it succeeds or raises.             *)
(***************************************************************************)
EXTENDS Integers, FiniteSets

CONSTANTS Nodes,         \* edge_nodes, numbered in the order of the configuration
          Confidences,   \* confidences a node may report
          Tasks          \* images of the session

ASSUME DecisionAssumption ==
    /\ Nodes \in SUBSET Nat /\ IsFiniteSet(Nodes) /\ Cardinality(Nodes) >= 2
    /\ Confidences \subseteq Nat
    /\ Tasks \in Nat

VARIABLES
    config,    \* which service runs, and offline_fail_safe_enabled
    at,        \* where the main thread is
    task,      \* images begun
    judged,    \* what each node made of the image
    outcome,   \* the result handle_task returned, with its metadata, or NoOutcome
    counts     \* counters of MetricsCollector

vars == <<config, at, task, judged, outcome, counts>>

-----------------------------------------------------------------------------
(* Data. *)

Labels == {"normal", "anomaly"}

Judgement == [label : Labels, confidence : Confidences]

Running == [label |-> "running", confidence |-> 0]

Raised == [label |-> "raised", confidence |-> 0]

\* DetectionResult with metadata.resilience and metadata.multi_edge
Outcome == [label : Labels, edge_label : Labels, source : {"edge", "cloud"},
            conflict : BOOLEAN, required : BOOLEAN, success : BOOLEAN,
            provisional : BOOLEAN,
            action : {"pass", "divert", "divert_for_review"}]

NoOutcome == [label |-> "none"]

Counters == {"success", "error", "required", "cloud_success", "fallback",
             "provisional", "conflict", "arbitrated"}

NoCounts == [c \in Counters |-> 0]

-----------------------------------------------------------------------------
(* The vote. *)

\* The nodes that judge the image.
Judges == IF config.multi THEN Nodes ELSE {CHOOSE n \in Nodes : \A m \in Nodes : n <= m}

Votes(l) == Cardinality({n \in Judges : judged[n].label = l})

\* The labels with the most votes.
Leading == {l \in Labels : \A k \in Labels : Votes(k) <= Votes(l)}

\* Faulty variant of Candidates: the most confident node decides, votes aside.
CandidatesAll == Judges

\* The nodes that voted for them.
Candidates == {n \in Judges : judged[n].label \in Leading}

\* The first of the most confident: max over the results in their order.
Selected ==
    CHOOSE n \in Candidates : \A m \in Candidates :
        \/ judged[m].confidence < judged[n].confidence
        \/ judged[m].confidence = judged[n].confidence /\ n <= m

EdgeLabel == judged[Selected].label

\* Faulty variant of Conflict: a majority settles a disagreement.
ConflictIfTied == Cardinality(Leading) > 1

Conflict == \E n, m \in Judges : judged[n].label # judged[m].label

-----------------------------------------------------------------------------
(* The outcome. *)

\* The edge keeps its own result; no review is wanted.
Local ==
    [label |-> EdgeLabel, edge_label |-> EdgeLabel, source |-> "edge",
     conflict |-> Conflict, required |-> FALSE, success |-> FALSE,
     provisional |-> FALSE,
     action |-> IF EdgeLabel = "normal" THEN "pass" ELSE "divert"]

\* The cloud decides, whatever the nodes said.
Reviewed(label) ==
    [label |-> label, edge_label |-> EdgeLabel, source |-> "cloud",
     conflict |-> Conflict, required |-> TRUE, success |-> TRUE,
     provisional |-> FALSE,
     action |-> IF label = "normal" THEN "pass" ELSE "divert"]

\* The label of an image whose review did not take place.
FallbackLabel == IF config.fail_safe THEN "anomaly" ELSE EdgeLabel

\* The review is wanted and cannot be had.  The multi-edge service passes a
\* provisional "normal"; the single-edge service diverts it all the same.
Fallback ==
    [label |-> FallbackLabel, edge_label |-> EdgeLabel, source |-> "edge",
     conflict |-> Conflict, required |-> TRUE, success |-> FALSE,
     provisional |-> TRUE,
     action |-> IF config.multi /\ FallbackLabel = "normal" THEN "pass"
                ELSE "divert_for_review"]

-----------------------------------------------------------------------------
(* The counters. *)

Counting(cs) == [c \in Counters |-> counts[c] + (IF c \in cs THEN 1 ELSE 0)]

When(c, condition) == IF condition THEN {c} ELSE {}

\* Faulty variant of SuccessCounters: a disagreement that falls back is counted
\* as a disagreement only.
SuccessCountersEither(o) ==
    {"success"} \union When("required", o.required)
                \union When("cloud_success", o.success)
                \union When("fallback", o.provisional /\ ~ o.conflict)
                \union When("provisional", o.provisional)
                \union When("conflict", config.multi /\ o.conflict)
                \union When("arbitrated", config.multi /\ o.conflict /\ o.success)

\* record_success
SuccessCounters(o) ==
    {"success"} \union When("required", o.required)
                \union When("cloud_success", o.success)
                \union When("fallback", o.provisional)
                \union When("provisional", o.provisional)
                \union When("conflict", config.multi /\ o.conflict)
                \union When("arbitrated", config.multi /\ o.conflict /\ o.success)

-----------------------------------------------------------------------------
(* The session. *)

Init ==
    /\ config \in [multi : BOOLEAN, fail_safe : BOOLEAN]
    /\ at = "next"
    /\ task = 0
    /\ judged = [n \in Nodes |-> Running]
    /\ outcome = NoOutcome
    /\ counts = NoCounts

\* handle_task returns: the evaluation counts the result.
Return(o) ==
    /\ outcome' = o
    /\ counts' = Counting(SuccessCounters(o))
    /\ at' = "next"

\* handle_task raises: the evaluation counts an error.
Raise ==
    /\ outcome' = NoOutcome
    /\ counts' = Counting({"error"})
    /\ at' = "next"

\* Faulty variant of Begin: the loop goes one image too far.
BeginBeyondLast ==
    /\ at = "next"
    /\ task <= Tasks
    /\ task' = task + 1
    /\ judged' = [n \in Nodes |-> Running]
    /\ outcome' = NoOutcome
    /\ at' = "nodes"
    /\ UNCHANGED <<config, counts>>

\* The image is read and handed to the nodes.
Begin ==
    /\ at = "next"
    /\ task < Tasks
    /\ task' = task + 1
    /\ judged' = [n \in Nodes |-> Running]
    /\ outcome' = NoOutcome
    /\ at' = "nodes"
    /\ UNCHANGED <<config, counts>>

\* read_image or preprocess raises.
BeginFails ==
    /\ at = "next"
    /\ task < Tasks
    /\ task' = task + 1
    /\ judged' = [n \in Nodes |-> Running]
    /\ Raise
    /\ UNCHANGED config

\* A node's thread ends, with a judgement or an exception.
Judge(n, j) ==
    /\ at = "nodes"
    /\ n \in Judges
    /\ judged[n] = Running
    /\ judged' = [judged EXCEPT ![n] = j]
    /\ UNCHANGED <<config, at, task, outcome, counts>>

\* list(executor.map(...)) and the end of the with block: every thread is over.
AllDone == \A n \in Judges : judged[n] # Running

\* Faulty variant of SomeRaised: a node that failed is left out of the vote.
AllRaised == \A n \in Judges : judged[n] = Raised

SomeRaised == \E n \in Judges : judged[n] = Raised

\* Faulty variant of NodesFail: one judgement is enough to go on waiting.
NodesFailIfAll ==
    /\ at = "nodes"
    /\ \A n \in Judges : judged[n] = Raised
    /\ Raise
    /\ UNCHANGED <<config, task, judged>>

\* The first exception of a node comes out of handle_task.
NodesFail ==
    /\ at = "nodes"
    /\ AllDone
    /\ SomeRaised
    /\ Raise
    /\ UNCHANGED <<config, task, judged>>

\* Neither a disagreement nor should_upload asks for the cloud.
Agree ==
    /\ at = "nodes"
    /\ AllDone
    /\ ~ SomeRaised
    /\ ~ Conflict
    /\ Return(Local)
    /\ UNCHANGED <<config, task, judged>>

\* A disagreement, or the image is as complex as the threshold of should_upload.
Ask ==
    /\ at = "nodes"
    /\ AllDone
    /\ ~ SomeRaised
    /\ at' = "asking"
    /\ UNCHANGED <<config, task, judged, outcome, counts>>

\* attach_quality_score or should_upload raises: the score cannot be had.
QualityFails ==
    /\ at = "nodes"
    /\ AllDone
    /\ ~ SomeRaised
    /\ Raise
    /\ UNCHANGED <<config, task, judged>>

CloudReviews(label) ==
    /\ at = "asking"
    /\ Return(Reviewed(label))
    /\ UNCHANGED <<config, task, judged>>

\* The call raises, or the circuit breaker refuses it.
CloudFails ==
    /\ at = "asking"
    /\ Return(Fallback)
    /\ UNCHANGED <<config, task, judged>>

\* The main thread alone, once the image is with the nodes.
Decide ==
    \/ NodesFail \/ Agree \/ Ask \/ QualityFails \/ CloudFails
    \/ \E l \in Labels : CloudReviews(l)

NodeEnds(n) == \E j \in Judgement \union {Raised} : Judge(n, j)

Next ==
    \/ Begin \/ BeginFails
    \/ \E n \in Nodes : NodeEnds(n)
    \/ Decide

\* Every step of the service is bounded: inference is local arithmetic and the
\* cloud call has a timeout.
Fairness ==
    /\ WF_vars(Begin \/ BeginFails)
    /\ \A n \in Nodes : WF_vars(NodeEnds(n))
    /\ WF_vars(Decide)

Spec == Init /\ [][Next]_vars /\ Fairness

-----------------------------------------------------------------------------
(* Properties. *)

Returned == outcome # NoOutcome

TypeOK ==
    /\ config \in [multi : BOOLEAN, fail_safe : BOOLEAN]
    /\ at \in {"next", "nodes", "asking"}
    /\ task \in 0..Tasks
    /\ judged \in [Nodes -> Judgement \union {Running, Raised}]
    /\ outcome \in Outcome \union {NoOutcome}
    /\ counts \in [Counters -> 0..Tasks]

\* The result the edge keeps is the vote of every node (_select_edge_result):
\* no other label has more votes, and of two with as many, none was given with
\* more confidence.
VoteDecides ==
    Returned =>
        \A l \in Labels :
            LET for(k) == {n \in Judges : judged[n].label = k}
                surest(k) == {judged[n].confidence : n \in for(k)}
            IN  /\ Cardinality(for(l)) <= Cardinality(for(outcome.edge_label))
                /\ Cardinality(for(l)) = Cardinality(for(outcome.edge_label)) =>
                       \A c \in surest(l) : \E d \in surest(outcome.edge_label) : c <= d

\* No image gets a decision without the judgement of every node, whatever the
\* order in which their threads end and whichever of them fails.
EveryNodeHeard ==
    Returned => \A n \in Judges : judged[n] \in Judgement

\* README.md:91-93: an image that needs the cloud and does not get it is diverted
\* for review when the fail-safe is on, and never passed; and nodes that disagree
\* are never settled by the edge alone.
UnsureNeverPassed ==
    Returned =>
        /\ outcome.provisional /\ config.fail_safe =>
               outcome.label = "anomaly" /\ outcome.action = "divert_for_review"
        /\ Cardinality({judged[n].label : n \in Judges}) > 1 =>
               outcome.source = "cloud" \/ outcome.provisional

\* The summary adds up: every image was counted as a success or an error, and
\* every review that was wanted as a success of the cloud or as a fallback, also
\* those the circuit breaker refused.
CountsAddUp ==
    /\ counts["success"] + counts["error"] = IF at = "next" THEN task ELSE task - 1
    /\ counts["required"] = counts["cloud_success"] + counts["fallback"]
    /\ counts["fallback"] = counts["provisional"]
    /\ counts["arbitrated"] <= counts["conflict"]
    /\ counts["conflict"] <= counts["required"]

\* Every session comes to its end.
SessionDone == <>(at = "next" /\ task = Tasks)
=============================================================================
