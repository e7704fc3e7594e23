------------------------- MODULE EdgeDecisionProofs -------------------------
(***************************************************************************)
(* Proofs about EdgeDecision for any nodes, any confidences and any number *)
(* of images.  The invariant follows the judgements from the threads to    *)
(* the outcome: while the cloud is asked and after the outcome is there,   *)
(* no judgement is missing and none moves.                                 *)
(***************************************************************************)
EXTENDS EdgeDecision, FiniteSetTheorems, WellFoundedInduction, TLAPS

\* Where the main thread is, and what it has counted.
Typed ==
    /\ config \in [multi : BOOLEAN, fail_safe : BOOLEAN]
    /\ at \in {"next", "nodes", "asking"}
    /\ task \in 0..Tasks
    /\ at # "next" => task > 0 /\ outcome = NoOutcome
    /\ judged \in [Nodes -> Judgement \union {Running, Raised}]
    /\ counts \in [Counters -> Nat]

Heard == \A n \in Judges : judged[n] \in Judgement

\* What an outcome says of the judgements it rests on.
Settled(o) ==
    /\ Heard
    /\ o \in Outcome
    /\ o.edge_label = EdgeLabel
    /\ o.conflict = Conflict
    /\ Conflict => o.required
    /\ o.required => o.source = "cloud" \/ o.provisional
    /\ o.provisional /\ config.fail_safe =>
           o.label = "anomaly" /\ o.action = "divert_for_review"

IInv ==
    /\ Typed
    /\ at = "asking" => Heard
    /\ Returned => Settled(outcome)
    /\ CountsAddUp
    /\ counts["required"] <= counts["success"]

-----------------------------------------------------------------------------
(* Finite sets of numbers. *)

LEMMA FiniteLeast ==
    ASSUME NEW S \in SUBSET Nat, IsFiniteSet(S), S # {}
    PROVE  \E n \in S : \A m \in S : n <= m
<1> DEFINE Below(n) == {m \in S : m < n}
           T == {Below(n) : n \in S}
<1>1. IsWellFoundedOn(StrictSubsetOrdering(S), FiniteSubsetsOf(S))
  BY FS_StrictSubsetOrderingWellFounded
<1>2. T \subseteq FiniteSubsetsOf(S) /\ T # {}
  <2>1. \A n \in S : Below(n) \in SUBSET S
    OBVIOUS
  <2>2. \A n \in S : IsFiniteSet(Below(n))
    BY <2>1, FS_Subset
  <2> QED
    BY <2>1, <2>2 DEF FiniteSubsetsOf
<1>3. PICK U \in T : \A V \in T : ~ (<<V, U>> \in StrictSubsetOrdering(S))
  BY <1>1, <1>2, WFMin
<1>4. PICK n \in S : U = Below(n)
  BY <1>3
<1>5. ASSUME NEW m \in S, m < n
      PROVE  FALSE
  <2>1. Below(m) \in T /\ Below(n) \in SUBSET S /\ Below(m) \in SUBSET S
    OBVIOUS
  <2>2. m \in Below(n) /\ m \notin Below(m)
    BY <1>5
  <2>3. Below(m) \subseteq Below(n)
    <3>1. \A k \in S : k \in Nat
      OBVIOUS
    <3>2. \A k \in S : k < m => k < n
      BY <1>5, <3>1
    <3> QED
      BY <3>2
  <2> HIDE DEF Below
  <2>4. <<Below(m), U>> \in StrictSubsetOrdering(S)
    BY <1>4, <2>1, <2>2, <2>3 DEF StrictSubsetOrdering
  <2> QED
    BY <1>3, <2>1, <2>4
<1> QED
  BY <1>5

LEMMA FiniteGreatest ==
    ASSUME NEW S, IsFiniteSet(S), S # {}, NEW f \in [S -> Nat]
    PROVE  \E n \in S : \A m \in S : f[m] <= f[n]
<1> DEFINE Above(n) == {m \in S : f[m] > f[n]}
           T == {Above(n) : n \in S}
<1>1. IsWellFoundedOn(StrictSubsetOrdering(S), FiniteSubsetsOf(S))
  BY FS_StrictSubsetOrderingWellFounded
<1>2. T \subseteq FiniteSubsetsOf(S) /\ T # {}
  <2>1. \A n \in S : Above(n) \in SUBSET S
    OBVIOUS
  <2>2. \A n \in S : IsFiniteSet(Above(n))
    BY <2>1, FS_Subset
  <2> HIDE DEF Above
  <2>3. T \subseteq FiniteSubsetsOf(S)
    BY <2>1, <2>2 DEF FiniteSubsetsOf
  <2>4. T # {}
    OBVIOUS
  <2> QED
    BY <2>3, <2>4
<1>3. PICK U \in T : \A V \in T : ~ (<<V, U>> \in StrictSubsetOrdering(S))
  BY <1>1, <1>2, WFMin
<1>4. PICK n \in S : U = Above(n)
  BY <1>3
<1>5. ASSUME NEW m \in S, f[m] > f[n]
      PROVE  FALSE
  <2>1. Above(m) \in T /\ Above(n) \in SUBSET S /\ Above(m) \in SUBSET S
    OBVIOUS
  <2>2. m \in Above(n) /\ m \notin Above(m)
    BY <1>5
  <2>3. Above(m) \subseteq Above(n)
    <3>1. \A k \in S : f[k] \in Nat
      OBVIOUS
    <3> QED
      BY <1>5, <3>1
  <2> HIDE DEF Above
  <2>4. <<Above(m), U>> \in StrictSubsetOrdering(S)
    BY <1>4, <2>1, <2>2, <2>3 DEF StrictSubsetOrdering
  <2> QED
    BY <1>3, <2>1, <2>4
<1> QED
  BY <1>5

-----------------------------------------------------------------------------
(* The vote. *)

\* A single-edge session has one judge and a multi-edge session has them all.
LEMMA SomeJudges ==
    /\ Judges \subseteq Nodes
    /\ Judges # {}
    /\ IsFiniteSet(Judges)
<1>1. Nodes \in SUBSET Nat /\ IsFiniteSet(Nodes) /\ Nodes # {}
  BY DecisionAssumption, FS_EmptySet
<1>2. \E n \in Nodes : \A m \in Nodes : n <= m
  BY <1>1, FiniteLeast
<1>3. Judges \subseteq Nodes /\ Judges # {}
  BY <1>1, <1>2 DEF Judges
<1> QED
  BY <1>1, <1>3, FS_Subset

LEMMA VotesCounted ==
    \A l : Votes(l) \in Nat /\ (Votes(l) = 0 => \A n \in Judges : judged[n].label # l)
<1> TAKE l
<1> DEFINE for == {n \in Judges : judged[n].label = l}
<1>1. IsFiniteSet(for)
  <2>1. for \in SUBSET Judges
    OBVIOUS
  <2> QED
    BY <2>1, SomeJudges, FS_Subset
<1>2. Votes(l) = Cardinality(for)
  BY DEF Votes
<1>3. Cardinality(for) \in Nat /\ (Cardinality(for) = 0 => for = {})
  BY <1>1, FS_CardinalityType, FS_EmptySet
<1> QED
  BY <1>2, <1>3

\* The vote has a winner: a judge of a leading label, as sure as any of them.
LEMMA WinnerExists ==
    ASSUME Heard
    PROVE  /\ Selected \in Candidates
           /\ \A m \in Candidates : judged[m].confidence <= judged[Selected].confidence
<1>1. /\ \A n \in Judges : judged[n].label \in Labels /\ judged[n].confidence \in Nat
      /\ Judges \subseteq Nat /\ Judges # {} /\ IsFiniteSet(Judges)
  BY SomeJudges, DecisionAssumption DEF Heard, Judgement
<1>2. Candidates # {}
  <2>1. PICK l \in Labels : \A k \in Labels : Votes(k) <= Votes(l)
    BY VotesCounted DEF Labels
  <2>2. l \in Leading
    BY <2>1 DEF Leading
  <2>3. PICK n \in Judges : judged[n].label = l
    <3>1. CASE Votes(l) = 0
      <4>1. \A k \in Labels : Votes(k) = 0
        BY <2>1, <3>1, VotesCounted
      <4> QED
        BY <1>1, <4>1, VotesCounted
    <3>2. CASE Votes(l) # 0
      <4>1. {n \in Judges : judged[n].label = l} # {}
        BY <3>2, FS_EmptySet DEF Votes
      <4> QED
        BY <4>1
    <3> QED
      BY <3>1, <3>2
  <2> QED
    BY <2>2, <2>3 DEF Candidates
<1>3. Candidates \subseteq Judges /\ IsFiniteSet(Candidates)
  <2>1. Candidates \in SUBSET Judges
    BY DEF Candidates
  <2> QED
    BY <1>1, <2>1, FS_Subset
<1>4. PICK v \in Candidates :
          \A m \in Candidates : judged[m].confidence <= judged[v].confidence
  <2> DEFINE f == [n \in Candidates |-> judged[n].confidence]
  <2>1. f \in [Candidates -> Nat]
    BY <1>1, <1>3
  <2>2. \E n \in Candidates : \A m \in Candidates : f[m] <= f[n]
    <3> HIDE DEF f
    <3> QED
      BY <1>2, <1>3, <2>1, FiniteGreatest
  <2> QED
    BY <2>2
<1> DEFINE surest == {n \in Candidates : judged[n].confidence = judged[v].confidence}
<1>5. PICK w \in surest : \A m \in surest : w <= m
  <2>1. surest \in SUBSET Candidates /\ surest # {}
    BY <1>4
  <2>2. surest \in SUBSET Nat /\ IsFiniteSet(surest)
    BY <1>1, <1>3, <2>1, FS_Subset
  <2> HIDE DEF surest
  <2> QED
    BY <2>1, <2>2, FiniteLeast
<1>6. /\ w \in Candidates
      /\ \A m \in Candidates :
            \/ judged[m].confidence < judged[w].confidence
            \/ judged[m].confidence = judged[w].confidence /\ w <= m
  <2> SUFFICES ASSUME NEW m \in Candidates
               PROVE  \/ judged[m].confidence < judged[w].confidence
                      \/ judged[m].confidence = judged[w].confidence /\ w <= m
    BY <1>5
  <2>1. /\ judged[w].confidence = judged[v].confidence
        /\ judged[m].confidence <= judged[v].confidence
        /\ judged[m].confidence \in Nat /\ judged[v].confidence \in Nat
    BY <1>1, <1>3, <1>4, <1>5
  <2>2. CASE judged[m].confidence = judged[v].confidence
    BY <1>5, <2>1, <2>2
  <2>3. CASE judged[m].confidence # judged[v].confidence
    BY <2>1, <2>3
  <2> QED
    BY <2>2, <2>3
<1>7. /\ Selected \in Candidates
      /\ \A m \in Candidates :
            \/ judged[m].confidence < judged[Selected].confidence
            \/ judged[m].confidence = judged[Selected].confidence /\ Selected <= m
  BY <1>6 DEF Selected
<1>8. ASSUME NEW m \in Candidates
      PROVE  judged[m].confidence <= judged[Selected].confidence
  <2>1. judged[m].confidence \in Nat /\ judged[Selected].confidence \in Nat
    BY <1>1, <1>3, <1>7
  <2>2. \/ judged[m].confidence < judged[Selected].confidence
        \/ judged[m].confidence = judged[Selected].confidence
    BY <1>7
  <2> HIDE DEF surest
  <2> QED
    BY <2>1, <2>2
<1> QED
  BY <1>7, <1>8

LEMMA EdgeLabelIsOne ==
    ASSUME Heard
    PROVE  EdgeLabel \in Leading /\ EdgeLabel \in Labels
  BY WinnerExists DEF EdgeLabel, Candidates, Leading

-----------------------------------------------------------------------------
(* The invariant. *)

LEMMA InitIInv == Init => IInv
<1> SUFFICES ASSUME Init PROVE IInv
  OBVIOUS
<1>1. Typed
  BY DecisionAssumption DEF Init, Typed, NoCounts, Counters
<1>2. CountsAddUp /\ counts["required"] <= counts["success"]
  BY DEF Init, CountsAddUp, NoCounts, Counters
<1> QED
  BY <1>1, <1>2 DEF Init, IInv, Returned

\* An outcome that wants a review if the nodes disagree, and says what came of
\* the review it wanted, is counted so that the summary still adds up.
LEMMA ReturnCounted ==
    ASSUME Typed, CountsAddUp, counts["required"] <= counts["success"],
           at # "next", UNCHANGED <<config, task>>,
           NEW o, Return(o),
           o.conflict \in BOOLEAN, o.conflict => o.required,
           \/ ~ o.required /\ ~ o.success /\ ~ o.provisional
           \/ o.required /\ o.success /\ ~ o.provisional
           \/ o.required /\ ~ o.success /\ o.provisional
    PROVE  /\ counts' \in [Counters -> Nat]
           /\ CountsAddUp'
           /\ counts'["required"] <= counts'["success"]
<1> DEFINE cs == SuccessCounters(o)
           up(c) == IF c \in cs THEN 1 ELSE 0
<1>1. /\ "success" \in cs
      /\ "error" \notin cs
      /\ "required" \in cs <=> o.required
      /\ "cloud_success" \in cs <=> o.success
      /\ "fallback" \in cs <=> o.provisional
      /\ "provisional" \in cs <=> o.provisional
      /\ "conflict" \in cs <=> config.multi /\ o.conflict
      /\ "arbitrated" \in cs <=> config.multi /\ o.conflict /\ o.success
  BY DEF SuccessCounters, When
<1> HIDE DEF cs
<1>2. counts' = [c \in Counters |-> counts[c] + up(c)]
  BY DEF Return, Counting, cs
<1>3. \A c \in Counters : counts[c] \in Nat /\ counts'[c] = counts[c] + up(c)
  BY <1>2 DEF Typed
<1>4. counts' \in [Counters -> Nat]
  BY <1>2, <1>3
<1>5. at' = "next" /\ task' = task /\ task \in Nat
  BY DecisionAssumption DEF Return, Typed
<1>6. /\ counts["success"] \in Nat /\ counts'["success"] = counts["success"] + 1
      /\ counts["error"] \in Nat /\ counts'["error"] = counts["error"]
      /\ counts["required"] \in Nat /\ counts'["required"] = counts["required"] + up("required")
      /\ counts["cloud_success"] \in Nat
      /\ counts'["cloud_success"] = counts["cloud_success"] + up("cloud_success")
      /\ counts["fallback"] \in Nat /\ counts'["fallback"] = counts["fallback"] + up("fallback")
      /\ counts["provisional"] \in Nat
      /\ counts'["provisional"] = counts["provisional"] + up("provisional")
      /\ counts["conflict"] \in Nat /\ counts'["conflict"] = counts["conflict"] + up("conflict")
      /\ counts["arbitrated"] \in Nat
      /\ counts'["arbitrated"] = counts["arbitrated"] + up("arbitrated")
  BY <1>1, <1>3 DEF Counters
<1>7. /\ up("required") = up("cloud_success") + up("fallback")
      /\ up("fallback") = up("provisional")
      /\ up("arbitrated") <= up("conflict")
      /\ up("conflict") <= up("required")
      /\ \A c \in Counters : up(c) \in 0..1
  BY <1>1
<1>8. \A c \in {"required", "cloud_success", "fallback", "provisional", "conflict",
                "arbitrated"} : up(c) \in 0..1
  BY DEF Counters
<1> HIDE DEF up
<1>9. CountsAddUp'
  <2>1. counts'["success"] + counts'["error"] = task'
    <3>1. counts["success"] + counts["error"] = task - 1
      BY DEF CountsAddUp
    <3> QED
      BY <1>5, <1>6, <3>1
  <2>2. counts'["required"] = counts'["cloud_success"] + counts'["fallback"]
    BY <1>6, <1>7, <1>8 DEF CountsAddUp
  <2>3. counts'["fallback"] = counts'["provisional"]
    BY <1>6, <1>7, <1>8 DEF CountsAddUp
  <2>4. counts'["arbitrated"] <= counts'["conflict"]
    BY <1>6, <1>7, <1>8 DEF CountsAddUp
  <2>5. counts'["conflict"] <= counts'["required"]
    BY <1>6, <1>7, <1>8 DEF CountsAddUp
  <2> QED
    BY <1>5, <2>1, <2>2, <2>3, <2>4, <2>5 DEF CountsAddUp
<1>10. counts'["required"] <= counts'["success"]
  BY <1>6, <1>8
<1> QED
  BY <1>4, <1>9, <1>10

\* handle_task returns an outcome the judgements bear out.
LEMMA ReturnIInv ==
    ASSUME IInv, Heard, at # "next", UNCHANGED <<config, task, judged>>,
           NEW o \in Outcome, Return(o), Settled(o),
           o.required <=> o.success \/ o.provisional,
           ~ (o.success /\ o.provisional)
    PROVE  IInv'
<1>1. o.conflict \in BOOLEAN /\ (o.conflict => o.required)
  BY DEF Settled, Outcome
<1>2. o.required \in BOOLEAN /\ o.success \in BOOLEAN /\ o.provisional \in BOOLEAN
  BY DEF Outcome
<1>3. /\ counts' \in [Counters -> Nat]
      /\ CountsAddUp'
      /\ counts'["required"] <= counts'["success"]
  BY <1>1, <1>2, ReturnCounted DEF IInv
<1>4. at' = "next" /\ outcome' = o
  BY DEF Return
<1>5. Judges' = Judges /\ Heard' /\ Conflict' = Conflict /\ EdgeLabel' = EdgeLabel
  BY DEF Judges, Heard, Conflict, EdgeLabel, Selected, Candidates, Leading, Votes
<1>6. Settled(o)' 
  BY <1>5 DEF Settled
<1>7. Typed'
  BY <1>3, <1>4 DEF IInv, Typed
<1> QED
  BY <1>3, <1>4, <1>6, <1>7 DEF IInv, Settled

\* handle_task raises, in the middle of an image.
LEMMA RaiseIInv ==
    ASSUME IInv, Raise, NEW begun \in {0, 1}, task' = task + begun,
           task' \in 0..Tasks, at = "next" <=> begun = 1,
           config' = config, judged' \in [Nodes -> Judgement \union {Running, Raised}]
    PROVE  IInv'
<1>1. \A c \in Counters : /\ counts[c] \in Nat
                         /\ counts'[c] = counts[c] + IF c = "error" THEN 1 ELSE 0
  BY DEF Raise, Counting, IInv, Typed
<1>2. counts' \in [Counters -> Nat]
  BY <1>1 DEF Raise, Counting
<1>3. at' = "next" /\ outcome' = NoOutcome /\ task \in Nat
  BY DecisionAssumption DEF Raise, IInv, Typed
<1>4. /\ counts'["error"] = counts["error"] + 1 /\ counts["error"] \in Nat
      /\ \A c \in Counters \ {"error"} : counts'[c] = counts[c]
      /\ counts["success"] \in Nat
  BY <1>1 DEF Counters
<1>5. CountsAddUp' /\ counts'["required"] <= counts'["success"]
  <2>1. counts["success"] + counts["error"] + 1 = task'
    BY <1>3, <1>4 DEF IInv, CountsAddUp
  <2> QED
    BY <1>3, <1>4, <2>1 DEF IInv, CountsAddUp, Counters
<1>6. Typed'
  BY <1>2, <1>3 DEF IInv, Typed
<1> QED
  BY <1>3, <1>5, <1>6 DEF IInv, Returned

\* The three outcomes rest on the judgements of every node.
LEMMA OutcomesSettled ==
    ASSUME Heard, config \in [multi : BOOLEAN, fail_safe : BOOLEAN]
    PROVE  /\ ~ Conflict => Local \in Outcome /\ Settled(Local)
           /\ \A l \in Labels : Reviewed(l) \in Outcome /\ Settled(Reviewed(l))
           /\ Fallback \in Outcome /\ Settled(Fallback)
<1>1. EdgeLabel \in Labels /\ Conflict \in BOOLEAN
  BY EdgeLabelIsOne DEF Conflict
<1>2. FallbackLabel \in Labels /\ (config.fail_safe => FallbackLabel = "anomaly")
  BY <1>1 DEF FallbackLabel, Labels
<1>3. ASSUME ~ Conflict PROVE Local \in Outcome /\ Settled(Local)
  <2>1. Local \in Outcome
    BY <1>1 DEF Local, Outcome
  <2>2. Settled(Local)
    BY <1>3, <2>1 DEF Local, Settled
  <2> QED
    BY <2>1, <2>2
<1>4. ASSUME NEW l \in Labels PROVE Reviewed(l) \in Outcome /\ Settled(Reviewed(l))
  <2>1. Reviewed(l) \in Outcome
    BY <1>1 DEF Reviewed, Outcome
  <2>2. Settled(Reviewed(l))
    BY <2>1 DEF Reviewed, Settled
  <2> QED
    BY <2>1, <2>2
<1>5. Fallback \in Outcome
  BY <1>1, <1>2 DEF Fallback, Outcome
<1>6. Settled(Fallback)
  <2>1. config.fail_safe => Fallback.action = "divert_for_review"
    BY <1>2 DEF Fallback
  <2> QED
    BY <1>2, <1>5, <2>1 DEF Fallback, Settled
<1> QED
  BY <1>3, <1>4, <1>5, <1>6

\* Where every judge is done and none raised, every judgement is there.
LEMMA DoneHeard ==
    ASSUME Typed, AllDone, ~ SomeRaised
    PROVE  Heard
  BY SomeJudges DEF Typed, AllDone, SomeRaised, Heard

LEMMA NextIInv == IInv /\ [Next]_vars => IInv'
<1> SUFFICES ASSUME IInv, [Next]_vars PROVE IInv'
  OBVIOUS
<1>1. /\ Typed /\ CountsAddUp /\ counts["required"] <= counts["success"]
      /\ config \in [multi : BOOLEAN, fail_safe : BOOLEAN]
      /\ task \in Nat
  BY DecisionAssumption DEF IInv, Typed
<1>2. CASE UNCHANGED vars
  <2>1. UNCHANGED <<config, at, task, judged, outcome, counts>>
    BY <1>2 DEF vars
  <2>2. Judges' = Judges /\ Heard' = Heard /\ Conflict' = Conflict /\ EdgeLabel' = EdgeLabel
    BY <2>1 DEF Judges, Heard, Conflict, EdgeLabel, Selected, Candidates, Leading, Votes
  <2>3. Returned => Settled(outcome)'
    BY <2>1, <2>2 DEF IInv, Settled
  <2>4. Typed' /\ CountsAddUp' /\ counts'["required"] <= counts'["success"]
    BY <1>1, <2>1 DEF Typed, CountsAddUp
  <2> QED
    BY <2>1, <2>2, <2>3, <2>4 DEF IInv, Returned, Settled
<1>3. CASE Begin
  <2>1. /\ at' = "nodes" /\ at = "next" /\ task' = task + 1 /\ outcome' = NoOutcome
        /\ counts' = counts /\ config' = config
    BY <1>3 DEF Begin
  <2>2. task' \in 0..Tasks /\ task' > 0
    BY <1>1, <1>3, DecisionAssumption DEF Begin
  <2>3. judged' \in [Nodes -> Judgement \union {Running, Raised}]
    BY <1>3 DEF Begin
  <2>4. Typed'
    BY <1>1, <2>1, <2>2, <2>3 DEF Typed
  <2>5. CountsAddUp'
    BY <1>1, <2>1 DEF CountsAddUp
  <2> QED
    BY <1>1, <2>1, <2>4, <2>5 DEF IInv, Returned
<1>4. CASE BeginFails
  <2>1. task + 1 \in 0..Tasks
    BY <1>1, <1>4, DecisionAssumption DEF BeginFails
  <2>2. judged' \in [Nodes -> Judgement \union {Running, Raised}]
    BY <1>4 DEF BeginFails
  <2> QED
    BY <1>4, <2>1, <2>2, RaiseIInv DEF BeginFails
<1>5. ASSUME NEW n \in Nodes, NEW j \in Judgement \union {Raised}, Judge(n, j)
      PROVE  IInv'
  <2>1. UNCHANGED <<config, at, task, outcome, counts>> /\ at = "nodes"
    BY <1>5 DEF Judge
  <2>2. judged' \in [Nodes -> Judgement \union {Running, Raised}]
    BY <1>1, <1>5 DEF Judge, Typed
  <2>3. Typed' /\ outcome' = NoOutcome
    BY <1>1, <2>1, <2>2 DEF Typed
  <2>4. CountsAddUp' /\ counts'["required"] <= counts'["success"]
    BY <1>1, <2>1 DEF CountsAddUp
  <2> QED
    BY <2>1, <2>3, <2>4 DEF IInv, Returned
<1>6. CASE NodesFail \/ QualityFails
  <2>1. Raise /\ at = "nodes" /\ UNCHANGED <<config, task, judged>>
    BY <1>6 DEF NodesFail, QualityFails
  <2>2. task' = task + 0 /\ task' \in 0..Tasks
    BY <1>1, <2>1 DEF Typed
  <2>3. judged' \in [Nodes -> Judgement \union {Running, Raised}]
    BY <1>1, <2>1 DEF Typed
  <2> QED
    BY <2>1, <2>2, <2>3, RaiseIInv
<1>7. CASE Agree
  <2>1. /\ at = "nodes" /\ ~ Conflict /\ Return(Local)
        /\ UNCHANGED <<config, task, judged>>
    BY <1>7 DEF Agree
  <2>2. Heard
    BY <1>1, <1>7, DoneHeard DEF Agree
  <2>3. Local \in Outcome /\ Settled(Local)
    BY <1>1, <2>1, <2>2, OutcomesSettled
  <2>4. ~ Local.required /\ ~ Local.success /\ ~ Local.provisional
    BY DEF Local
  <2> QED
    BY <2>1, <2>2, <2>3, <2>4, ReturnIInv
<1>8. CASE Ask
  <2>1. UNCHANGED <<config, task, judged, outcome, counts>> /\ at = "nodes" /\ at' = "asking"
    BY <1>8 DEF Ask
  <2>2. Heard
    BY <1>1, <1>8, DoneHeard DEF Ask
  <2>3. Heard'
    BY <2>1, <2>2 DEF Heard, Judges
  <2>4. Typed' /\ outcome' = NoOutcome
    BY <1>1, <2>1 DEF Typed
  <2>5. CountsAddUp' /\ counts'["required"] <= counts'["success"]
    BY <1>1, <2>1 DEF CountsAddUp
  <2> QED
    BY <2>3, <2>4, <2>5 DEF IInv, Returned
<1>9. ASSUME NEW l \in Labels, CloudReviews(l) PROVE IInv'
  <2>1. at = "asking" /\ Return(Reviewed(l)) /\ UNCHANGED <<config, task, judged>>
    BY <1>9 DEF CloudReviews
  <2>2. Heard
    BY <2>1 DEF IInv
  <2>3. Reviewed(l) \in Outcome /\ Settled(Reviewed(l))
    BY <1>1, <2>2, OutcomesSettled
  <2>4. Reviewed(l).required /\ Reviewed(l).success /\ ~ Reviewed(l).provisional
    BY DEF Reviewed
  <2> QED
    BY <2>1, <2>2, <2>3, <2>4, ReturnIInv
<1>10. CASE CloudFails
  <2>1. at = "asking" /\ Return(Fallback) /\ UNCHANGED <<config, task, judged>>
    BY <1>10 DEF CloudFails
  <2>2. Heard
    BY <2>1 DEF IInv
  <2>3. Fallback \in Outcome /\ Settled(Fallback)
    BY <1>1, <2>2, OutcomesSettled
  <2>4. Fallback.required /\ ~ Fallback.success /\ Fallback.provisional
    BY DEF Fallback
  <2> QED
    BY <2>1, <2>2, <2>3, <2>4, ReturnIInv
<1> QED
  BY <1>2, <1>3, <1>4, <1>5, <1>6, <1>7, <1>8, <1>9, <1>10 DEF Next, NodeEnds, Decide

THEOREM Inductive == Spec => []IInv
<1> QED
  BY InitIInv, NextIInv, PTL DEF Spec

-----------------------------------------------------------------------------
(* The properties. *)

\* The state keeps its type: the outcome says whether the nodes disagreed and what
\* came of the review, and no counter passes the number of images.
THEOREM TypeCorrect == Spec => []TypeOK
<1>1. IInv => TypeOK
  <2> SUFFICES ASSUME IInv PROVE TypeOK
    OBVIOUS
  <2>1. Typed /\ CountsAddUp /\ counts["required"] <= counts["success"]
    BY DEF IInv
  <2>2. outcome \in Outcome \union {NoOutcome}
    BY DEF IInv, Returned, Settled
  <2>3. \A c \in Counters : counts[c] \in Nat
    BY <2>1 DEF Typed
  <2>4. counts["success"] + counts["error"] <= task /\ task \in Nat /\ Tasks \in Nat
        /\ task <= Tasks
    BY <2>1, <2>3, DecisionAssumption DEF Typed, CountsAddUp, Counters
  <2>5. \A c \in Counters : counts[c] <= Tasks
    BY <2>1, <2>3, <2>4 DEF CountsAddUp, Counters
  <2>6. counts \in [Counters -> 0..Tasks]
    BY <2>1, <2>3, <2>4, <2>5 DEF Typed
  <2> QED
    BY <2>1, <2>2, <2>6 DEF TypeOK, Typed
<1> QED
  BY <1>1, Inductive, PTL

\* No image gets a decision without the judgement of every node.
THEOREM AllHeard == Spec => []EveryNodeHeard
<1>1. IInv => EveryNodeHeard
  BY DEF IInv, Settled, Heard, EveryNodeHeard
<1> QED
  BY <1>1, Inductive, PTL

\* The vote of the nodes is the result of the edge: the nodes' most frequent label,
\* and of two as frequent the one given with the most confidence.
THEOREM MajorityDecides == Spec => []VoteDecides
<1>1. IInv => VoteDecides
  <2> SUFFICES ASSUME IInv, Returned PROVE VoteDecides
    BY DEF VoteDecides
  <2> DEFINE e == outcome.edge_label
             for(k) == {n \in Judges : judged[n].label = k}
             surest(k) == {judged[n].confidence : n \in for(k)}
  <2>1. Heard /\ e = EdgeLabel
    BY DEF IInv, Settled
  <2>2. e \in Labels /\ \A k \in Labels : Votes(k) <= Votes(e)
    BY <2>1, EdgeLabelIsOne DEF Leading
  <2>3. /\ Selected \in Candidates /\ judged[Selected].label = e
        /\ \A m \in Candidates : judged[m].confidence <= judged[Selected].confidence
    BY <2>1, WinnerExists DEF EdgeLabel
  <2>4. \A k : Cardinality(for(k)) = Votes(k)
    BY DEF Votes
  <2>5. ASSUME NEW l \in Labels, Votes(l) = Votes(e), NEW c \in surest(l)
        PROVE  \E d \in surest(e) : c <= d
    <3>1. PICK n \in Judges : judged[n].label = l /\ judged[n].confidence = c
      OBVIOUS
    <3>2. l \in Leading
      BY <2>2, <2>5 DEF Leading
    <3>3. n \in Candidates
      BY <3>1, <3>2 DEF Candidates
    <3>4. Selected \in for(e)
      BY <2>3 DEF Candidates
    <3> QED
      BY <2>3, <3>1, <3>3, <3>4
  <2> HIDE DEF for, surest, e
  <2>6. \A l \in Labels :
           /\ Cardinality(for(l)) <= Cardinality(for(e))
           /\ Cardinality(for(l)) = Cardinality(for(e)) =>
                  \A c \in surest(l) : \E d \in surest(e) : c <= d
    BY <2>2, <2>4, <2>5
  <2> QED
    BY <2>6 DEF VoteDecides, for, surest, e
<1> QED
  BY <1>1, Inductive, PTL

\* With the fail-safe on, an image whose review did not take place is diverted; and
\* nodes that disagree are never settled by the edge alone.
THEOREM FailsSafe == Spec => []UnsureNeverPassed
<1>1. IInv => UnsureNeverPassed
  <2> SUFFICES ASSUME IInv, Returned PROVE UnsureNeverPassed
    BY DEF UnsureNeverPassed
  <2>1. Settled(outcome)
    BY DEF IInv
  <2>2. ASSUME Cardinality({judged[n].label : n \in Judges}) > 1 PROVE Conflict
    <3> SUFFICES ASSUME ~ Conflict PROVE FALSE
      OBVIOUS
    <3> DEFINE said == {judged[n].label : n \in Judges}
    <3>1. PICK one \in Judges : TRUE
      BY SomeJudges
    <3>2. said = {judged[one].label}
      BY <3>1 DEF Conflict
    <3>3. Cardinality(said) = 1
      BY <3>2, FS_Singleton
    <3>4. Cardinality(said) > 1
      BY <2>2
    <3> HIDE DEF said
    <3> QED
      BY <3>3, <3>4
  <2> QED
    BY <2>1, <2>2 DEF Settled, UnsureNeverPassed
<1> QED
  BY <1>1, Inductive, PTL

\* The summary of the session adds up.
THEOREM SummaryCorrect == Spec => []CountsAddUp
<1>1. IInv => CountsAddUp
  BY DEF IInv
<1> QED
  BY <1>1, Inductive, PTL

=============================================================================
