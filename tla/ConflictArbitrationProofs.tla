--------------------- MODULE ConflictArbitrationProofs ---------------------
(***************************************************************************)
(* Type correctness of the arbitration loop, the agreement of its summary  *)
(* and what a review may overrule, for any number of nodes, scores,        *)
(* signals and samples.                                                    *)
(***************************************************************************)
EXTENDS ConflictArbitration, FiniteSetTheorems, SequenceTheorems, WellFoundedInduction, TLAPS

-----------------------------------------------------------------------------
(* The inductive invariant. *)

\* An upload that got through has a decision before the arbitration, and the
\* loop knows where it is from what is written.
ReviewInv ==
    /\ at = "sending" => review.upload /\ ~ review.net_ok
    /\ at = "reviewing" => review.upload /\ review.net_ok
    /\ at = "judged" => ~ review.upload /\ ~ review.net_ok
    /\ at = "decided" /\ review.upload /\ review.net_ok => review.decision \in Verdicts

\* The row of a sample.
RowOf(s, r) == [conflict    |-> Conflict(s),
                edge        |-> Majority(s),
                upload      |-> r.upload,
                net_ok      |-> r.net_ok,
                used        |-> r.used,
                fallback    |-> r.fallback,
                path_type   |-> Arbitrated(s, r).path,
                provisional |-> Arbitrated(s, r).provisional,
                final       |-> Arbitrated(s, r).decision]

\* What a row says of its path and what it says of its upload agree.
RowAgrees(r) ==
    /\ r.path_type = "CLOUD_ARBITRATED" <=> r.upload /\ r.net_ok
    /\ r.path_type = "FAIL_SAFE_DIVERT" <=> r.conflict /\ ~ (r.upload /\ r.net_ok)
    /\ r.provisional <=> r.path_type = "FAIL_SAFE_DIVERT"

RowsInv == \A i \in DOMAIN rows : RowAgrees(rows[i])

IInv == TypeOK /\ ReviewInv /\ RowsInv

\* The reviewer was asked, its answer was trusted.
TrustedReview(r) == r.used /\ ~ r.fallback /\ r.conf >= MinCloudConf

\* Any other decision of the cloud is the vote of the nodes.
DecisionInv ==
    at = "decided" /\ review.upload /\ review.net_ok /\ ~ TrustedReview(review) =>
        review.decision = WeightedVote(scores)

\* A decision without a trusted review is one the nodes have a share in.
NodesHeard(s, r) ==
    TrustedReview(r) \/
    /\ ~ Conflict(s) => \A n \in Nodes : Arbitrated(s, r).decision = Decision(s[n])
    /\ Conflict(s) /\ Arbitrated(s, r).decision = "OK" =>
           r.net_ok /\ Weights(s, "OK") > Weights(s, "NG")

\* Until the next sample is taken, the last row is the one of the scores and the
\* review that are still there.
LastInv ==
    at = "next" /\ rows # <<>> =>
        LastRow = RowOf(scores, review) /\ NodesHeard(scores, review)

VInv == IInv /\ DecisionInv /\ LastInv

-----------------------------------------------------------------------------
(* Lemmas. *)

\* The operators of the consensus are verdicts and conditions.
LEMMA Consensus ==
    ASSUME NEW s
    PROVE  Majority(s) \in Verdicts /\ WeightedVote(s) \in Verdicts /\ Conflict(s) \in BOOLEAN
BY DEF Majority, WeightedVote, Conflict, Verdicts

\* The row that arbitrate makes of a sample is of its type, and agrees with itself.
LEMMA NewRow ==
    ASSUME NEW s, NEW r \in Reviews,
           r.upload /\ r.net_ok => r.decision \in Verdicts
    PROVE  RowOf(s, r) \in Rows /\ RowAgrees(RowOf(s, r))
<1>1. /\ Majority(s) \in Verdicts
      /\ Conflict(s) \in BOOLEAN
  BY Consensus
<1>2. r.upload \in BOOLEAN /\ r.net_ok \in BOOLEAN /\ r.used \in BOOLEAN /\ r.fallback \in BOOLEAN
  BY DEF Reviews
<1>3. CASE r.upload /\ r.net_ok
  <2>1. Arbitrated(s, r) = [path |-> "CLOUD_ARBITRATED", decision |-> r.decision,
                            provisional |-> FALSE]
    BY <1>3 DEF Arbitrated
  <2> QED BY <1>1, <1>2, <1>3, <2>1 DEF RowOf, Rows, RowAgrees, Paths
<1>4. CASE ~ (r.upload /\ r.net_ok) /\ Conflict(s)
  <2>1. Arbitrated(s, r) = [path |-> "FAIL_SAFE_DIVERT", decision |-> "NG", provisional |-> TRUE]
    BY <1>4 DEF Arbitrated
  <2> QED BY <1>1, <1>2, <1>4, <2>1 DEF RowOf, Rows, RowAgrees, Paths, Verdicts
<1>5. CASE ~ (r.upload /\ r.net_ok) /\ ~ Conflict(s)
  <2>1. Arbitrated(s, r) = [path |-> "LOCAL", decision |-> Majority(s), provisional |-> FALSE]
    BY <1>5 DEF Arbitrated
  <2> QED BY <1>1, <1>2, <1>5, <2>1 DEF RowOf, Rows, RowAgrees, Paths
<1> QED BY <1>3, <1>4, <1>5

LEMMA InitInv == Init => IInv
<1> SUFFICES ASSUME Init PROVE IInv
  OBVIOUS
<1> USE DEF Init
<1>1. scores \in [Nodes -> Int]
  BY ConflictAssumption
<1>2. review \in Reviews
  BY DEF NoReview, Reviews
<1>3. TypeOK
  BY <1>1, <1>2 DEF TypeOK
<1>4. ReviewInv /\ RowsInv
  BY DEF ReviewInv, RowsInv
<1> QED BY <1>3, <1>4 DEF IInv

\* A step that writes the review only.
LEMMA ReviewStep ==
    ASSUME TypeOK, RowsInv, UNCHANGED <<arbiter, scores, rows>>,
           at' \in {"judged", "sending", "reviewing", "decided"},
           review' \in Reviews, ReviewInv'
    PROVE  IInv'
<1>1. TypeOK'
  BY DEF TypeOK
<1>2. RowsInv'
  BY DEF RowsInv, RowAgrees
<1> QED BY <1>1, <1>2 DEF IInv

\* Every action keeps the invariant.
LEMMA NextInv == IInv /\ [Next]_vars => IInv'
<1> SUFFICES ASSUME IInv, [Next]_vars PROVE IInv'
  OBVIOUS
<1> USE DEF IInv
<1>1. ASSUME NEW s \in [Nodes -> Scores], Take(s) PROVE IInv'
  <2>1. s \in [Nodes -> Int]
    BY ConflictAssumption
  <2>2. review' \in Reviews /\ ReviewInv'
    BY <1>1 DEF Take, NoReview, Reviews, ReviewInv
  <2>3. TypeOK'
    BY <1>1, <2>1, <2>2 DEF Take, TypeOK
  <2>4. RowsInv'
    BY <1>1 DEF Take, RowsInv, RowAgrees
  <2> QED BY <2>2, <2>3, <2>4
<1>2. ASSUME NEW sig \in Signals, Route(sig) PROVE IInv'
  <2> DEFINE wanted == Wanted(sig, scores)
  <2>1. wanted \in BOOLEAN
    BY DEF Wanted
  <2>2. review' = [upload |-> wanted, net_ok |-> review.net_ok, decision |-> review.decision,
                   conf |-> review.conf, used |-> review.used, fallback |-> review.fallback]
    BY <1>2 DEF Route, TypeOK, Reviews
  <2>3. review' \in Reviews
    BY <2>1, <2>2 DEF TypeOK, Reviews
  <2>4. ReviewInv'
    <3> HIDE DEF wanted
    <3>1. at = "judged" /\ at' = IF wanted THEN "sending" ELSE "decided"
      BY <1>2 DEF Route, wanted
    <3> QED BY <2>1, <2>2, <3>1 DEF ReviewInv
  <2> QED BY <1>2, <2>3, <2>4, ReviewStep DEF Route
<1>3. ASSUME NEW ok \in BOOLEAN, Upload(ok) PROVE IInv'
  <2>1. review' = [upload |-> review.upload, net_ok |-> ok, decision |-> review.decision,
                   conf |-> review.conf, used |-> review.used, fallback |-> review.fallback]
    BY <1>3 DEF Upload, TypeOK, Reviews
  <2>2. review' \in Reviews
    BY <2>1 DEF TypeOK, Reviews
  <2>3. ReviewInv'
    BY <1>3, <2>1 DEF Upload, ReviewInv
  <2> QED BY <1>3, <2>2, <2>3, ReviewStep DEF Upload
<1>4. CASE Vote
  <2>1. WeightedVote(scores) \in Verdicts
    BY Consensus
  <2>2. review' = [upload |-> review.upload, net_ok |-> review.net_ok,
                   decision |-> WeightedVote(scores),
                   conf |-> review.conf, used |-> review.used, fallback |-> review.fallback]
    BY <1>4 DEF Vote, TypeOK, Reviews
  <2>3. review' \in Reviews
    BY <2>1, <2>2 DEF TypeOK, Reviews
  <2>4. ReviewInv'
    BY <1>4, <2>1, <2>2 DEF Vote, ReviewInv
  <2> QED BY <1>4, <2>3, <2>4, ReviewStep DEF Vote
<1>5. ASSUME NEW parsed \in Verdicts \union {"none"}, NEW conf \in Confidences,
             Review(parsed, conf)
      PROVE  IInv'
  <2> DEFINE trusted == Trusted(parsed, conf)
             decision == IF trusted THEN parsed ELSE WeightedVote(scores)
  <2>1. decision \in Verdicts
    BY Consensus DEF Trusted
  <2>2. trusted \in BOOLEAN /\ conf \in Nat
    BY ConflictAssumption DEF Trusted
  <2>3. review' = [upload |-> review.upload, net_ok |-> review.net_ok, decision |-> decision,
                   conf |-> conf, used |-> TRUE, fallback |-> ~ trusted]
    BY <1>5 DEF Review, TypeOK, Reviews
  <2> HIDE DEF decision, trusted
  <2>4. review' \in Reviews
    BY <2>1, <2>2, <2>3 DEF TypeOK, Reviews
  <2>5. ReviewInv'
    <3>1. review'.decision \in Verdicts
      BY <2>1, <2>3
    <3>2. at' = "decided"
      BY <1>5 DEF Review
    <3> QED BY <3>1, <3>2 DEF ReviewInv
  <2> QED BY <1>5, <2>4, <2>5, ReviewStep DEF Review
<1>6. CASE Arbitrate
  <2> DEFINE row == RowOf(scores, review)
  <2>1. rows' = Append(rows, row)
    BY <1>6 DEF Arbitrate, RowOf
  <2>2. review \in Reviews /\ (review.upload /\ review.net_ok => review.decision \in Verdicts)
    BY <1>6 DEF Arbitrate, TypeOK, ReviewInv
  <2>3. row \in Rows /\ RowAgrees(row)
    BY <2>2, NewRow
  <2> HIDE DEF row
  <2>4. rows' \in Seq(Rows)
    BY <2>1, <2>3 DEF TypeOK
  <2>5. RowsInv'
    <3> SUFFICES ASSUME NEW i \in DOMAIN rows' PROVE RowAgrees(rows'[i])
      BY DEF RowsInv, RowAgrees
    <3>1. (i \in DOMAIN rows /\ rows'[i] = rows[i]) \/ rows'[i] = row
      BY <2>1, <2>3 DEF TypeOK
    <3> QED BY <2>3, <3>1 DEF RowsInv
  <2>6. TypeOK' /\ ReviewInv'
    BY <1>6, <2>4 DEF Arbitrate, TypeOK, ReviewInv
  <2> QED BY <2>5, <2>6
<1>7. CASE UNCHANGED vars
  BY <1>7 DEF vars, TypeOK, ReviewInv, RowsInv, RowAgrees
<1> QED BY <1>1, <1>2, <1>3, <1>4, <1>5, <1>6, <1>7 DEF Next

\* The rates and the path counts of a summary of rows that agree with themselves.
LEMMA SummaryFromRows == IInv => SummaryAgrees
<1> SUFFICES ASSUME IInv PROVE SummaryAgrees
  OBVIOUS
<1>1. IsFiniteSet(DOMAIN rows)
  <2>1. DOMAIN rows = 1..Len(rows) /\ Len(rows) \in Nat
    BY DEF IInv, TypeOK
  <2> QED BY <2>1, FS_Interval
<1>2. IsFiniteSet(Conflicts)
  BY <1>1, FS_Subset DEF Conflicts
<1>3. Cardinality(Conflicts \ Reached)
          = Cardinality(Conflicts) - Cardinality(Conflicts \intersect Reached)
  BY <1>2, FS_Difference
<1>4. /\ Cardinality(Conflicts) \in Nat
      /\ Cardinality(Conflicts \intersect Reached) \in Nat
  BY <1>2, FS_CardinalityType, FS_Intersection
<1>5. Conflicts \ Reached = {i \in DOMAIN rows : rows[i].path_type = "FAIL_SAFE_DIVERT"}
  BY DEF IInv, RowsInv, RowAgrees, Conflicts, Reached
<1>6. Conflicts \ Reached = Diverted
  BY DEF IInv, RowsInv, RowAgrees, Conflicts, Reached, Diverted
<1>7. Reached = {i \in DOMAIN rows : rows[i].path_type = "CLOUD_ARBITRATED"}
  BY DEF IInv, RowsInv, RowAgrees, Reached
<1>8. /\ path_counts["FAIL_SAFE_DIVERT"] = Cardinality(Conflicts \ Reached)
      /\ path_counts["CLOUD_ARBITRATED"] = Cardinality(Reached)
  BY <1>5, <1>7 DEF path_counts, Paths
<1> QED BY <1>3, <1>4, <1>6, <1>8 DEF SummaryAgrees, fail_safe, arb_ok

-----------------------------------------------------------------------------
(* The weighted vote.  Weights is a fold over the voters for a verdict:     *)
(* the value at the whole set of a recursive function on its parts.  That   *)
(* there is such a function is shown by induction on the size of the parts, *)
(* and what it returns by induction on the parts.                           *)

\* The natural numbers are the least set with 0 and every successor.
LEMMA EveryNumber ==
    ASSUME NEW P \in SUBSET Nat, 0 \in P, \A k \in P : k + 1 \in P
    PROVE  P = Nat
<1> DEFINE missing == Nat \ P
<1> SUFFICES ASSUME missing # {} PROVE FALSE
  OBVIOUS
<1>1. PICK k \in missing : \A j \in missing : ~ (<<j, k>> \in OpToRel(<, Nat))
  <2>1. missing \subseteq Nat
    OBVIOUS
  <2> HIDE DEF missing
  <2> QED BY <2>1, NatLessThanWellFounded, WFMin
<1>2. k \in Nat \ {0} /\ k - 1 \in Nat
  OBVIOUS
<1>3. k - 1 \notin missing
  <2>1. <<k - 1, k>> \in OpToRel(<, Nat)
    BY <1>2 DEF OpToRel
  <2> QED BY <1>1, <2>1
<1>4. k \in P
  <2>1. k - 1 \in P /\ (k - 1) + 1 = k
    BY <1>2, <1>3
  <2> QED BY <2>1
<1> QED BY <1>4

\* A vote weighs at least the smallest weight.
LEMMA WeightPositive ==
    ASSUME NEW score \in Int
    PROVE  Weight(score) \in Nat /\ Weight(score) > 0
BY ConflictAssumption DEF Weight

\* What the fold adds for a part U of the voters, if g holds the sums of smaller ones.
Sum(s, g, U) == IF U = {} THEN 0
                ELSE LET x == CHOOSE x \in U : TRUE IN Weight(s[x]) + g[U \ {x}]

\* g holds the sums of all parts of V.
Tabulates(s, g, V) == g = [U \in SUBSET V |-> Sum(s, g, U)]

\* g holds the sums of the parts of at most k voters.
TabulatesTo(s, g, V, k) ==
    /\ g \in [SUBSET V -> Nat]
    /\ \A U \in SUBSET V : Cardinality(U) <= k => g[U] = Sum(s, g, U)

\* The sum of U is the weight of x and the sum of the others.
Adds(s, U, x) ==
    /\ Cardinality(U) \in Nat /\ Cardinality(U \ {x}) = Cardinality(U) - 1
    /\ Weight(s[x]) \in Nat /\ Weight(s[x]) > 0
    /\ \A g : Sum(s, g, U) = Weight(s[x]) + g[U \ {x}]

\* Some voters have a first one.
LEMMA SumStep ==
    ASSUME NEW s \in [Nodes -> Int], NEW U \in SUBSET Nodes, U # {}
    PROVE  \E x \in U : Adds(s, U, x)
<1> DEFINE x == CHOOSE x \in U : TRUE
<1>1. x \in U
  OBVIOUS
<1> HIDE DEF x
<1>2. IsFiniteSet(U)
  BY ConflictAssumption, FS_Subset
<1>3. Cardinality(U) \in Nat /\ Cardinality(U \ {x}) = Cardinality(U) - 1
  BY <1>1, <1>2, FS_CardinalityType, FS_RemoveElement
<1>4. \A g : Sum(s, g, U) = Weight(s[x]) + g[U \ {x}]
  BY DEF Sum, x
<1>5. s[x] \in Int
  BY <1>1
<1> QED BY <1>1, <1>3, <1>4, <1>5, WeightPositive DEF Adds

\* One unrolling of the fold takes a table one voter further.
LEMMA TableStep ==
    ASSUME NEW s \in [Nodes -> Int], NEW V \in SUBSET Nodes, NEW k \in Nat,
           NEW g, TabulatesTo(s, g, V, k)
    PROVE  TabulatesTo(s, [U \in SUBSET V |-> Sum(s, g, U)], V, k + 1)
<1> DEFINE h == [U \in SUBSET V |-> Sum(s, g, U)]
<1>1. \A U \in SUBSET V : Sum(s, g, U) \in Nat
  <2> TAKE U \in SUBSET V
  <2>1. CASE U = {}
    BY <2>1 DEF Sum
  <2>2. CASE U # {}
    <3>1. PICK x \in U : Adds(s, U, x)
      BY <2>2, SumStep
    <3>2. g[U \ {x}] \in Nat
      BY DEF TabulatesTo
    <3> QED BY <3>1, <3>2 DEF Adds
  <2> QED BY <2>1, <2>2
<1>2. h \in [SUBSET V -> Nat]
  BY <1>1
<1>3. ASSUME NEW U \in SUBSET V, Cardinality(U) <= k + 1 PROVE h[U] = Sum(s, h, U)
  <2>1. CASE U = {}
    BY <2>1 DEF Sum
  <2>2. CASE U # {}
    <3>1. PICK x \in U : Adds(s, U, x)
      BY <2>2, SumStep
    <3>2. Cardinality(U \ {x}) <= k
      BY <1>3, <3>1 DEF Adds
    <3>3. h[U \ {x}] = g[U \ {x}]
      BY <3>2 DEF TabulatesTo
    <3> QED BY <3>1, <3>3 DEF Adds
  <2> QED BY <2>1, <2>2
<1> QED BY <1>2, <1>3 DEF TabulatesTo

\* The parts of a set of voters have sums.
LEMMA TableExists ==
    ASSUME NEW s \in [Nodes -> Int], NEW V \in SUBSET Nodes
    PROVE  \E g : Tabulates(s, g, V)
<1> DEFINE P == {k \in Nat : \E g : TabulatesTo(s, g, V, k)}
<1>1. 0 \in P
  <2> DEFINE g == [U \in SUBSET V |-> 0]
  <2>1. ASSUME NEW U \in SUBSET V, Cardinality(U) <= 0 PROVE U = {}
    <3>1. IsFiniteSet(U)
      BY ConflictAssumption, FS_Subset
    <3>2. Cardinality(U) = 0
      BY <2>1, <3>1, FS_CardinalityType
    <3> QED BY <3>1, <3>2, FS_EmptySet
  <2>2. TabulatesTo(s, g, V, 0)
    BY <2>1 DEF TabulatesTo, Sum
  <2> QED BY <2>2
<1>2. ASSUME NEW k \in P PROVE k + 1 \in P
  <2>1. PICK g : TabulatesTo(s, g, V, k)
    OBVIOUS
  <2>2. TabulatesTo(s, [U \in SUBSET V |-> Sum(s, g, U)], V, k + 1)
    BY <2>1, TableStep
  <2>3. \E h : TabulatesTo(s, h, V, k + 1)
    BY <2>2
  <2> QED BY <2>3
<1>3. P = Nat
  <2>1. P \in SUBSET Nat
    OBVIOUS
  <2> HIDE DEF P
  <2> QED BY <2>1, <1>1, <1>2, EveryNumber
<1>4. IsFiniteSet(V) /\ Cardinality(V) \in Nat
  BY ConflictAssumption, FS_Subset, FS_CardinalityType
<1>5. PICK g : TabulatesTo(s, g, V, Cardinality(V))
  BY <1>3, <1>4
<1>6. \A U \in SUBSET V : Cardinality(U) <= Cardinality(V)
  BY <1>4, FS_Subset
<1>7. Tabulates(s, g, V)
  BY <1>5, <1>6 DEF TabulatesTo, Tabulates
<1> QED BY <1>7

\* Weights is the last entry of such a table.
LEMMA WeightsTabulated ==
    ASSUME NEW s \in [Nodes -> Int], NEW verdict
    PROVE  \E g : /\ Tabulates(s, g, Voters(s, verdict))
                  /\ Weights(s, verdict) = g[Voters(s, verdict)]
<1> DEFINE V == Voters(s, verdict)
           chosen == CHOOSE g : Tabulates(s, g, V)
<1>1. Weights(s, verdict) = chosen[V]
  BY DEF Weights, MapThenSumSet, MapThenFoldSet, Tabulates, Sum
<1>2. \E g : Tabulates(s, g, V)
  BY TableExists DEF Voters
<1>3. Tabulates(s, chosen, V)
  BY <1>2
<1> QED BY <1>1, <1>3

\* The entries of a table are numbers.
LEMMA TableTyped ==
    ASSUME NEW s \in [Nodes -> Int], NEW V \in SUBSET Nodes, NEW g, Tabulates(s, g, V)
    PROVE  \A U \in SUBSET V : g[U] \in Nat
<1> DEFINE T == {U \in SUBSET V : g[U] \notin Nat}
<1> SUFFICES ASSUME T # {} PROVE FALSE
  OBVIOUS
<1>1. T \subseteq FiniteSubsetsOf(V)
  BY ConflictAssumption, FS_Subset DEF FiniteSubsetsOf
<1>2. PICK U \in T : \A W \in T : ~ (<<W, U>> \in StrictSubsetOrdering(V))
  <2> HIDE DEF T
  <2> QED BY <1>1, FS_StrictSubsetOrderingWellFounded, WFMin
<1>3. g[U] = Sum(s, g, U)
  BY DEF Tabulates
<1>4. U \in SUBSET Nodes /\ U # {}
  BY <1>3 DEF Sum
<1>5. PICK x \in U : Adds(s, U, x)
  BY <1>4, SumStep
<1>6. <<U \ {x}, U>> \in StrictSubsetOrdering(V)
  BY DEF StrictSubsetOrdering
<1>7. g[U \ {x}] \in Nat
  <2>1. U \ {x} \in SUBSET V /\ U \ {x} \notin T
    BY <1>2, <1>6
  <2> QED BY <2>1
<1>8. g[U] = Weight(s[x]) + g[U \ {x}] /\ Weight(s[x]) \in Nat
  BY <1>3, <1>5 DEF Adds
<1>9. g[U] \in Nat
  BY <1>7, <1>8
<1> QED BY <1>9

\* The votes for a verdict weigh something exactly if there are any.
LEMMA WeightsPositive ==
    ASSUME NEW s \in [Nodes -> Int], NEW verdict
    PROVE  /\ Weights(s, verdict) \in Nat
           /\ Weights(s, verdict) > 0 <=> Voters(s, verdict) # {}
<1> DEFINE V == Voters(s, verdict)
<1>1. V \in SUBSET Nodes
  BY DEF Voters
<1>2. PICK g : Tabulates(s, g, V) /\ Weights(s, verdict) = g[V]
  BY WeightsTabulated
<1> HIDE DEF V
<1>3. \A U \in SUBSET V : g[U] \in Nat
  BY <1>1, <1>2, TableTyped
<1>4. g[V] = Sum(s, g, V)
  BY <1>2 DEF Tabulates
<1>5. CASE V = {}
  BY <1>2, <1>4, <1>5 DEF Sum, V
<1>6. CASE V # {}
  <2>1. PICK x \in V : Adds(s, V, x)
    BY <1>1, <1>6, SumStep
  <2>2. g[V \ {x}] \in Nat
    BY <1>3
  <2>3. g[V] \in Nat /\ g[V] > 0
    BY <1>4, <2>1, <2>2 DEF Adds
  <2> QED BY <1>2, <1>6, <2>3 DEF V
<1> QED BY <1>5, <1>6

\* Nodes that agree are not overruled by their own vote, weighted or not.
LEMMA VoteOfAgreeing ==
    ASSUME NEW s \in [Nodes -> Int], ~ Conflict(s), NEW n \in Nodes
    PROVE  Majority(s) = Decision(s[n]) /\ WeightedVote(s) = Decision(s[n])
<1>1. \A v : IsFiniteSet(Voters(s, v))
  BY ConflictAssumption, FS_Subset DEF Voters
<1>2. \A v : /\ Cardinality(Voters(s, v)) \in Nat
             /\ Cardinality(Voters(s, v)) = 0 <=> Voters(s, v) = {}
  BY <1>1, FS_CardinalityType, FS_EmptySet
<1>3. Decision(s[n]) \in Verdicts /\ n \in Voters(s, Decision(s[n]))
  BY DEF Decision, Verdicts, Voters
<1>4. \A v : /\ Weights(s, v) \in Nat
             /\ Weights(s, v) > 0 <=> Voters(s, v) # {}
  BY WeightsPositive
<1>5. CASE Decision(s[n]) = "NG"
  <2>1. n_ng(s) \in Nat \ {0} /\ n_ok(s) = 0 /\ Voters(s, "OK") = {} /\ Voters(s, "NG") # {}
    BY <1>2, <1>3, <1>5 DEF Conflict, n_ng, n_ok
  <2>2. Weights(s, "NG") >= Weights(s, "OK")
    BY <1>4, <2>1
  <2> QED BY <1>5, <2>1, <2>2 DEF Majority, WeightedVote
<1>6. CASE Decision(s[n]) = "OK"
  <2>1. n_ng(s) = 0 /\ n_ok(s) \in Nat \ {0} /\ Voters(s, "NG") = {} /\ Voters(s, "OK") # {}
    BY <1>2, <1>3, <1>6 DEF Conflict, n_ng, n_ok
  <2>2. ~ (Weights(s, "NG") >= Weights(s, "OK"))
    BY <1>4, <2>1
  <2> QED BY <1>6, <2>1, <2>2 DEF Majority, WeightedVote
<1> QED BY <1>3, <1>5, <1>6 DEF Verdicts

-----------------------------------------------------------------------------
(* What a review may overrule. *)

\* The arbitration of a review that is not trusted, and whose decision the vote made.
LEMMA VoteDecides ==
    ASSUME NEW s \in [Nodes -> Int], NEW r \in Reviews,
           r.upload /\ r.net_ok /\ ~ TrustedReview(r) => r.decision = WeightedVote(s)
    PROVE  NodesHeard(s, r)
<1> SUFFICES ASSUME ~ TrustedReview(r)
             PROVE  /\ ~ Conflict(s) => \A n \in Nodes : Arbitrated(s, r).decision = Decision(s[n])
                    /\ Conflict(s) /\ Arbitrated(s, r).decision = "OK" =>
                           r.net_ok /\ Weights(s, "OK") > Weights(s, "NG")
  BY DEF NodesHeard
<1>1. CASE r.upload /\ r.net_ok
  <2>1. WeightedVote(s) \in Verdicts
    BY Consensus
  <2>2. Arbitrated(s, r).decision = WeightedVote(s)
    BY <1>1, <2>1 DEF Arbitrated
  <2>3. WeightedVote(s) = "OK" => Weights(s, "OK") > Weights(s, "NG")
    <3>1. Weights(s, "OK") \in Nat /\ Weights(s, "NG") \in Nat
      BY WeightsPositive
    <3>2. WeightedVote(s) = "OK" => ~ (Weights(s, "NG") >= Weights(s, "OK"))
      BY DEF WeightedVote
    <3> QED BY <3>1, <3>2
  <2> QED BY <1>1, <2>2, <2>3, VoteOfAgreeing
<1>2. CASE ~ (r.upload /\ r.net_ok) /\ Conflict(s)
  <2>1. Arbitrated(s, r).decision = "NG"
    BY <1>2 DEF Arbitrated
  <2> QED BY <1>2, <2>1
<1>3. CASE ~ (r.upload /\ r.net_ok) /\ ~ Conflict(s)
  <2>1. Arbitrated(s, r).decision = Majority(s)
    BY <1>3 DEF Arbitrated
  <2> QED BY <1>3, <2>1, VoteOfAgreeing
<1> QED BY <1>1, <1>2, <1>3

LEMMA InitVote == Init => VInv
BY InitInv DEF VInv, Init, DecisionInv, LastInv

\* Every action keeps what is known of the vote and of the last row.
LEMMA NextVote == VInv /\ [Next]_vars => VInv'
<1> SUFFICES ASSUME VInv, [Next]_vars PROVE DecisionInv' /\ LastInv'
  BY NextInv DEF VInv
<1>1. ASSUME NEW s \in [Nodes -> Scores], Take(s) PROVE DecisionInv' /\ LastInv'
  BY <1>1 DEF Take, DecisionInv, LastInv
<1>2. ASSUME NEW sig \in Signals, Route(sig) PROVE DecisionInv' /\ LastInv'
  <2>1. at' # "next" /\ ~ review.net_ok /\ review' = [review EXCEPT !.upload = Wanted(sig, scores)]
    BY <1>2 DEF Route, VInv, IInv, ReviewInv
  <2>2. ~ review'.net_ok
    BY <2>1 DEF VInv, IInv, TypeOK, Reviews
  <2> QED BY <2>1, <2>2 DEF DecisionInv, LastInv
<1>3. ASSUME NEW ok \in BOOLEAN, Upload(ok) PROVE DecisionInv' /\ LastInv'
  <2>1. /\ at' = IF ok THEN "reviewing" ELSE "decided"
        /\ review' = [review EXCEPT !.net_ok = ok]
    BY <1>3 DEF Upload
  <2>2. review'.net_ok = ok
    BY <2>1 DEF VInv, IInv, TypeOK, Reviews
  <2> QED BY <2>1, <2>2 DEF DecisionInv, LastInv
<1>4. CASE Vote
  <2>1. at' = "decided" /\ scores' = scores
        /\ review' = [review EXCEPT !.decision = WeightedVote(scores)]
    BY <1>4 DEF Vote
  <2>2. review'.decision = WeightedVote(scores)
    BY <2>1 DEF VInv, IInv, TypeOK, Reviews
  <2>3. WeightedVote(scores') = WeightedVote(scores)
    BY <2>1
  <2> QED BY <2>1, <2>2, <2>3 DEF DecisionInv, LastInv
<1>5. ASSUME NEW parsed \in Verdicts \union {"none"}, NEW conf \in Confidences,
             Review(parsed, conf)
      PROVE  DecisionInv' /\ LastInv'
  <2> DEFINE decision == IF Trusted(parsed, conf) THEN parsed ELSE WeightedVote(scores)
  <2>1. at' = "decided" /\ scores' = scores
        /\ review' = [review EXCEPT !.used = TRUE, !.conf = conf,
                                    !.fallback = ~ Trusted(parsed, conf), !.decision = decision]
    BY <1>5 DEF Review
  <2>2. /\ review'.used /\ review'.fallback = ~ Trusted(parsed, conf) /\ review'.conf = conf
        /\ review'.decision = decision
    <3> HIDE DEF decision
    <3> QED BY <2>1 DEF VInv, IInv, TypeOK, Reviews
  <2>3. Trusted(parsed, conf) => TrustedReview(review')
    BY <2>2 DEF Trusted, TrustedReview
  <2>4. WeightedVote(scores') = WeightedVote(scores)
    BY <2>1
  <2>5. ~ TrustedReview(review') => review'.decision = WeightedVote(scores')
    BY <2>2, <2>3, <2>4
  <2>6. DecisionInv'
    BY <2>5 DEF DecisionInv, TrustedReview
  <2> QED BY <2>1, <2>6 DEF LastInv
<1>6. CASE Arbitrate
  <2>1. /\ at = "decided" /\ at' = "next" /\ rows' = Append(rows, RowOf(scores, review))
        /\ scores' = scores /\ review' = review
    BY <1>6 DEF Arbitrate, RowOf
  <2>2. NodesHeard(scores, review)
    BY <2>1, VoteDecides DEF VInv, IInv, TypeOK, DecisionInv
  <2>3. rows \in Seq(Rows)
    BY DEF VInv, IInv, TypeOK
  <2>4. LastRow' = RowOf(scores, review)
    <3> DEFINE row == RowOf(scores, review)
    <3> HIDE DEF row
    <3>1. rows' = Append(rows, row)
      BY <2>1 DEF row
    <3>2. Len(rows') = Len(rows) + 1 /\ rows'[Len(rows) + 1] = row
      BY <2>3, <3>1
    <3> QED BY <3>2 DEF LastRow, row
  <2>5. RowOf(scores', review') = RowOf(scores, review)
        /\ NodesHeard(scores', review')
    BY <2>1, <2>2
  <2> QED BY <2>1, <2>4, <2>5 DEF DecisionInv, LastInv
<1>7. CASE UNCHANGED vars
  <2>1. /\ at' = at /\ rows' = rows /\ LastRow' = LastRow
        /\ scores' = scores /\ review' = review
    BY <1>7 DEF vars, LastRow
  <2>2. /\ RowOf(scores', review') = RowOf(scores, review)
        /\ NodesHeard(scores', review') = NodesHeard(scores, review)
        /\ WeightedVote(scores') = WeightedVote(scores)
        /\ TrustedReview(review') = TrustedReview(review)
    BY <2>1
  <2> QED BY <2>1, <2>2 DEF VInv, DecisionInv, LastInv
<1> QED BY <1>1, <1>2, <1>3, <1>4, <1>5, <1>6, <1>7 DEF Next

LEMMA HeardFromLast == VInv => OverruledByTrustedOnly
<1> SUFFICES ASSUME VInv, at = "next", rows # <<>>
             PROVE  \/ LastRow.used /\ ~ LastRow.fallback /\ review.conf >= MinCloudConf
                    \/ /\ ~ LastRow.conflict =>
                              \A n \in Nodes : LastRow.final = Decision(scores[n])
                       /\ LastRow.conflict /\ LastRow.final = "OK" =>
                              LastRow.net_ok /\ Weights(scores, "OK") > Weights(scores, "NG")
  BY DEF OverruledByTrustedOnly
<1>1. LastRow = RowOf(scores, review) /\ NodesHeard(scores, review)
  BY DEF VInv, LastInv
<1>2. /\ LastRow.used = review.used /\ LastRow.fallback = review.fallback
      /\ LastRow.conflict = Conflict(scores) /\ LastRow.net_ok = review.net_ok
      /\ LastRow.final = Arbitrated(scores, review).decision
  BY <1>1 DEF RowOf
<1> QED BY <1>1, <1>2 DEF NodesHeard, TrustedReview

-----------------------------------------------------------------------------
(* Theorems. *)

\* What holds wherever the loop of the benchmark is, for any nodes, signals, links,
\* reviewers and number of samples.
THEOREM Inductive == Spec => []IInv
BY InitInv, NextInv, PTL DEF Spec

\* Every variable of the loop holds values of its type.
THEOREM TypeCorrect == Spec => []TypeOK
<1>1. IInv => TypeOK
  BY DEF IInv
<1> QED BY <1>1, Inductive, PTL

\* The rates of the summary and its path counts tell the same.
THEOREM SummaryCorrect == Spec => []SummaryAgrees
BY SummaryFromRows, Inductive, PTL

\* Nodes that agree are overruled by a trusted review only, and a part they do not
\* agree on passes only with one, or on the heavier votes.
THEOREM OverruledCorrect == Spec => []OverruledByTrustedOnly
BY InitVote, NextVote, HeardFromLast, PTL DEF Spec

\* The vote that stands in for a reviewer never overrules nodes that agree, however
\* near the threshold they are.
THEOREM AgreementKept ==
    \A s \in [Nodes -> Int] : ~ Conflict(s) =>
        \A n \in Nodes : Majority(s) = Decision(s[n]) /\ WeightedVote(s) = Decision(s[n])
BY VoteOfAgreeing
=============================================================================
