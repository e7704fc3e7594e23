------------------------ MODULE ConflictArbitration ------------------------
(***************************************************************************)
(* Several nodes judge one image and may disagree: the consensus and the   *)
(* arbitration of src/src/collab_conflict.py, driven sample by sample by   *)
(* run_route_arbitrate of src/scripts/bench_conflict_arbitration.py.  The  *)
(* cost-risk router decides on an upload, the link may lose it, the        *)
(* reviewer may be unsure, and the vote of the nodes stands in for it.     *)
(*                                                                         *)
(* Scores count in millionths, the smallest weight of a vote.              *)
(***************************************************************************)
EXTENDS Integers, Sequences, FiniteSets, FiniteSetsExt

CONSTANTS Nodes,           \* nodes that judge an image
          Scores,          \* scores a node may give
          Threshold,       \* thr
          Arbiters,        \* values of --arbiter: "vlm", "vote"
          Signals,         \* what else the router sees of a sample and its link
          ConflictWeight,  \* w_conf
          Confidences,     \* confidences of the reviewer
          MinCloudConf,    \* cloud_admission.min_cloud_conf
          Samples          \* bound: samples of the benchmark

ASSUME ConflictAssumption ==
    /\ IsFiniteSet(Nodes) /\ Nodes # {}
    /\ Scores \subseteq Int
    /\ Threshold \in Int
    /\ Arbiters \subseteq {"vlm", "vote"}
    /\ Signals \subseteq [outage : BOOLEAN, cold : BOOLEAN, weak : BOOLEAN, forced : BOOLEAN,
                          gain : Int]
    /\ ConflictWeight \in Nat
    /\ Confidences \subseteq Nat /\ MinCloudConf \in Nat
    /\ Samples \in Nat

VARIABLES
    arbiter,    \* --arbiter of this benchmark
    at,         \* where the loop is
    scores,     \* node_scores of the sample
    review,     \* what has become of its upload and review
    rows        \* all_rows

vars == <<arbiter, at, scores, review, rows>>

Verdicts == {"OK", "NG"}

Paths == {"LOCAL", "CLOUD_ARBITRATED", "FAIL_SAFE_DIVERT"}

-----------------------------------------------------------------------------
(* The consensus of the nodes. *)

Decision(score) == IF score >= Threshold THEN "NG" ELSE "OK"

Voters(s, verdict) == {n \in Nodes : Decision(s[n]) = verdict}

n_ng(s) == Cardinality(Voters(s, "NG"))

n_ok(s) == Cardinality(Voters(s, "OK"))

Majority(s) == IF n_ng(s) > n_ok(s) THEN "NG" ELSE "OK"

Conflict(s) == n_ng(s) > 0 /\ n_ok(s) > 0

\* conflict_score is Minority / (n - 1), and 0 for a single node.
Minority(s) == IF n_ng(s) > n_ok(s) THEN n_ok(s) ELSE n_ng(s)

Others == IF Cardinality(Nodes) > 1 THEN Cardinality(Nodes) - 1 ELSE 1

Weight(score) == (IF score >= Threshold THEN score - Threshold ELSE Threshold - score) + 1

Weights(s, verdict) == MapThenSumSet(LAMBDA n : Weight(s[n]), Voters(s, verdict))

WeightedVote(s) == IF Weights(s, "NG") >= Weights(s, "OK") THEN "NG" ELSE "OK"

-----------------------------------------------------------------------------
(* Routing and arbitration. *)

\* decide of the cost-risk router on an idle cloud.  gain is its utility without
\* the conflict, forced an uncertainty of force_unc or more.
Wanted(sig, s) ==
    /\ ~ sig.outage
    /\ \/ sig.cold
       \/ /\ sig.weak => sig.forced \/ 2 * Minority(s) >= Others
          /\ sig.gain * Others + ConflictWeight * Minority(s) > 0

\* The local variables upload, net_ok, cloud_decision, cloud_conf, cloud_used and
\* cloud_fallback; cloud_conf is read of a review that was used.
Reviews == [upload : BOOLEAN, net_ok : BOOLEAN, decision : Verdicts \union {"none"},
            conf : Nat, used : BOOLEAN, fallback : BOOLEAN]

NoReview == [upload |-> FALSE, net_ok |-> FALSE, decision |-> "none", conf |-> 0,
             used |-> FALSE, fallback |-> FALSE]

\* arbitrate: the verdict of the cloud, or a diversion, or the majority.
Arbitrated(s, r) ==
    IF r.upload /\ r.net_ok /\ r.decision \in Verdicts
    THEN [path |-> "CLOUD_ARBITRATED", decision |-> r.decision, provisional |-> FALSE]
    ELSE IF Conflict(s)
    THEN [path |-> "FAIL_SAFE_DIVERT", decision |-> "NG", provisional |-> TRUE]
    ELSE [path |-> "LOCAL", decision |-> Majority(s), provisional |-> FALSE]

\* A row of the benchmark.
Rows == [conflict : BOOLEAN, edge : Verdicts, upload : BOOLEAN, net_ok : BOOLEAN,
         used : BOOLEAN, fallback : BOOLEAN, path_type : Paths, provisional : BOOLEAN,
         final : Verdicts]

-----------------------------------------------------------------------------
(* The loop of run_route_arbitrate. *)

Init ==
    /\ arbiter \in Arbiters
    /\ at = "next"
    /\ scores \in [Nodes -> {Threshold}]
    /\ review = NoReview
    /\ rows = <<>>

\* The next sample, which the nodes have judged (score_edges, before the loop).
Take(s) ==
    /\ at = "next"
    /\ Len(rows) < Samples
    /\ at' = "judged"
    /\ scores' = s
    /\ review' = NoReview
    /\ UNCHANGED <<arbiter, rows>>

Route(sig) ==
    /\ at = "judged"
    /\ at' = IF Wanted(sig, scores) THEN "sending" ELSE "decided"
    /\ review' = [review EXCEPT !.upload = Wanted(sig, scores)]
    /\ UNCHANGED <<arbiter, scores, rows>>

\* try_upload.
Upload(ok) ==
    /\ at = "sending"
    /\ at' = IF ok THEN "reviewing" ELSE "decided"
    /\ review' = [review EXCEPT !.net_ok = ok]
    /\ UNCHANGED <<arbiter, scores, rows>>

\* Hand-written tiebreaker: there is no reviewer, or none for this category.
Vote ==
    /\ at = "reviewing"
    /\ at' = "decided"
    /\ review' = [review EXCEPT !.decision = WeightedVote(scores)]
    /\ UNCHANGED <<arbiter, scores, rows>>

\* Faulty variant of Trusted: the confidence does not count.
TrustedUnsure(parsed, conf) == parsed \in Verdicts

\* A review is trusted if its text parses to a verdict of enough confidence.
Trusted(parsed, conf) == parsed \in Verdicts /\ conf >= MinCloudConf

\* Faulty variant of Review: a review that is not trusted is dropped.
ReviewOrNone(parsed, conf) ==
    /\ at = "reviewing" /\ arbiter = "vlm"
    /\ at' = "decided"
    /\ review' = [review EXCEPT !.used = TRUE, !.conf = conf,
                                !.fallback = ~ Trusted(parsed, conf),
                                !.decision = IF Trusted(parsed, conf) THEN parsed ELSE "none"]
    /\ UNCHANGED <<arbiter, scores, rows>>

\* The reviewer answers, and the vote replaces an answer that is not trusted.
Review(parsed, conf) ==
    /\ at = "reviewing" /\ arbiter = "vlm"
    /\ at' = "decided"
    /\ review' = [review EXCEPT !.used = TRUE, !.conf = conf,
                                !.fallback = ~ Trusted(parsed, conf),
                                !.decision = IF Trusted(parsed, conf)
                                             THEN parsed ELSE WeightedVote(scores)]
    /\ UNCHANGED <<arbiter, scores, rows>>

\* arbitrate, and the row of the sample.
Arbitrate ==
    LET arb == Arbitrated(scores, review)
    IN  /\ at = "decided"
        /\ at' = "next"
        /\ rows' = Append(rows, [conflict    |-> Conflict(scores),
                                 edge        |-> Majority(scores),
                                 upload      |-> review.upload,
                                 net_ok      |-> review.net_ok,
                                 used        |-> review.used,
                                 fallback    |-> review.fallback,
                                 path_type   |-> arb.path,
                                 provisional |-> arb.provisional,
                                 final       |-> arb.decision])
        /\ UNCHANGED <<arbiter, scores, review>>

Next ==
    \/ \E s \in [Nodes -> Scores] : Take(s)
    \/ \E sig \in Signals : Route(sig)
    \/ \E ok \in BOOLEAN : Upload(ok)
    \/ Vote
    \/ \E parsed \in Verdicts \union {"none"}, conf \in Confidences : Review(parsed, conf)
    \/ Arbitrate

Spec == Init /\ [][Next]_vars

-----------------------------------------------------------------------------
(* What summarize counts. *)

Conflicts == {i \in DOMAIN rows : rows[i].conflict}

Reached == {i \in DOMAIN rows : rows[i].upload /\ rows[i].net_ok}

Diverted == {i \in DOMAIN rows : rows[i].provisional}

arb_ok == Cardinality(Conflicts \intersect Reached)

fail_safe == Cardinality(Conflicts \ Reached)

path_counts == [p \in Paths |-> Cardinality({i \in DOMAIN rows : rows[i].path_type = p})]

-----------------------------------------------------------------------------
(* Properties. *)

\* Every variable holds values of its type.
TypeOK ==
    /\ arbiter \in Arbiters
    /\ at \in {"next", "judged", "sending", "reviewing", "decided"}
    /\ scores \in [Nodes -> Int]
    /\ review \in Reviews
    /\ rows \in Seq(Rows)

\* summarize takes its rates from upload and net_ok and its path counts from the
\* arbitration; whatever became of uploads and reviews, the two tell the same: the
\* conflicts that did not get to the cloud are the diverted samples, and the
\* diverted samples are the provisional ones.
SummaryAgrees ==
    /\ fail_safe = path_counts["FAIL_SAFE_DIVERT"]
    /\ fail_safe = Cardinality(Diverted)
    /\ arb_ok + fail_safe = Cardinality(Conflicts)
    /\ path_counts["CLOUD_ARBITRATED"] = Cardinality(Reached)

\* The last sample, whose scores and review are still there.
LastRow == rows[Len(rows)]

\* "Don't let a possibly out-of-domain LoRA override a correct edge call": only a
\* trusted review overturns nodes that agree; and a part the nodes do not agree on
\* passes only with a trusted review, or with nodes for OK that weigh more than the
\* others.
OverruledByTrustedOnly ==
    at = "next" /\ rows # <<>> =>
        \/ LastRow.used /\ ~ LastRow.fallback /\ review.conf >= MinCloudConf
        \/ /\ ~ LastRow.conflict => \A n \in Nodes : LastRow.final = Decision(scores[n])
           /\ LastRow.conflict /\ LastRow.final = "OK" =>
                  LastRow.net_ok /\ Weights(scores, "OK") > Weights(scores, "NG")
=============================================================================
