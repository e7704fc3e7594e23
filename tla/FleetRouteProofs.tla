-------------------------- MODULE FleetRouteProofs --------------------------
(***************************************************************************)
(* Type correctness, what the load and the statistics count, the outage    *)
(* gate and the soundness of the guard, for any number of threads, nodes   *)
(* and calls and any options of the agent.                                 *)
(*                                                                         *)
(* Three of the properties count calls.  What a step changes of a count is *)
(* taken from one lemma, CallStep: a step replaces the call of one thread, *)
(* and each count changes by what the new call is worth less the old one.  *)
(***************************************************************************)
EXTENDS FleetRoute, FiniteSetTheorems, TLAPS

-----------------------------------------------------------------------------
(* The inductive invariant. *)

\* What a call is worth in the three counts.
Worth(b) == IF b THEN 1 ELSE 0

InCloud(c) == c.at \in {"sending", "leaving"}

Pending(c, n) == c.node = n /\ c.path # "raised"

ReviewedAt(c, n) == Pending(c, n) /\ c.path = "CLOUD_REVIEW"

CloudCalls == {t \in Threads : InCloud(call[t])}

ReviewedCalls(n) == {t \in Unbooked(n) : call[t].path = "CLOUD_REVIEW"}

\* Where a call is tells which node and which path it may have.
CallOK(c) ==
    /\ c.at = "idle" => c = Idle
    /\ c.at = "reviewing" => c = Reviewing
    /\ c.at \notin {"idle", "reviewing"} => c.node \in Nodes
    /\ c.at \in {"begun", "asking", "wanted", "sending"} => c.path = "none"
    /\ c.at = "leaving" => c.path \in {"CLOUD_REVIEW", "LOCAL_NET_FALLBACK", "raised"}
    /\ c.at = "done" => c.path \in Paths

CallsInv == \A t \in Threads : CallOK(call[t])

\* A call in a blackout has a link that is down, has seen it if it has looked, and
\* leaves for the cloud only if the model alone decides.
DarkOK(c) ==
    /\ c.at \notin {"idle", "reviewing"} => down[c.node]
    /\ c.at = "asking" => c.context.tier = "outage" /\ ~ options.block
    /\ c.path # "CLOUD_REVIEW"
    /\ c.at \in {"wanted", "sending", "leaving"} => c.by = "agent" /\ ModelAlone

DarkInv == \A t \in Threads : blackout[t] => DarkOK(call[t])

IInv == TypeOK /\ CallsInv /\ InflightIsUploads /\ CallsBooked /\ DarkInv

-----------------------------------------------------------------------------
(* Counting. *)

LEMMA WorthType == ASSUME NEW b PROVE Worth(b) \in {0, 1}
BY DEF Worth

\* The sizes of two sets that differ in one element.
LEMMA OneElement ==
    ASSUME NEW S, NEW T, NEW x, IsFiniteSet(S), S \ {x} = T \ {x}
    PROVE  /\ IsFiniteSet(T)
           /\ Cardinality(S) \in Nat
           /\ Cardinality(T) \in Nat
           /\ Cardinality(T) = Cardinality(S) + Worth(x \in T) - Worth(x \in S)
<1> DEFINE R == S \ {x}
<1>1. IsFiniteSet(R)
  BY FS_Subset
<1>2. S = IF x \in S THEN R \union {x} ELSE R
  OBVIOUS
<1>3. T = IF x \in T THEN R \union {x} ELSE R
  OBVIOUS
<1>4. x \notin R
  OBVIOUS
<1> HIDE DEF R
<1>5. /\ IsFiniteSet(R \union {x})
      /\ Cardinality(R \union {x}) = Cardinality(R) + 1
  BY <1>1, <1>4, FS_AddElement
<1>6. Cardinality(R) \in Nat
  BY <1>1, FS_CardinalityType
<1>7. Cardinality(S) = Cardinality(R) + Worth(x \in S)
  <2>1. CASE x \in S
    BY <1>2, <1>5, <2>1 DEF Worth
  <2>2. CASE x \notin S
    <3>1. S = R
      BY <1>2, <2>2
    <3>2. Worth(x \in S) = 0
      BY <2>2 DEF Worth
    <3> QED BY <1>6, <3>1, <3>2
  <2> QED BY <2>1, <2>2
<1>8. Cardinality(T) = Cardinality(R) + Worth(x \in T) /\ IsFiniteSet(T)
  <2>1. CASE x \in T
    BY <1>3, <1>5, <2>1 DEF Worth
  <2>2. CASE x \notin T
    <3>1. T = R
      BY <1>3, <2>2
    <3>2. Worth(x \in T) = 0
      BY <2>2 DEF Worth
    <3> QED BY <1>1, <1>6, <3>1, <3>2
  <2> QED BY <2>1, <2>2
<1>9. Worth(x \in S) \in {0, 1} /\ Worth(x \in T) \in {0, 1}
  BY WorthType
<1> HIDE DEF Worth
<1> QED BY <1>6, <1>7, <1>8, <1>9

\* How the three counts change when the call of one thread does.
LEMMA CallStep ==
    ASSUME TypeOK, NEW t \in Threads, NEW c, call' = [call EXCEPT ![t] = c]
    PROVE  /\ Cardinality(CloudCalls) \in Nat
           /\ Cardinality(CloudCalls') =
                  Cardinality(CloudCalls) + Worth(InCloud(c)) - Worth(InCloud(call[t]))
           /\ \A n \in Nodes :
                 /\ Cardinality(Unbooked(n)) \in Nat
                 /\ Cardinality(Unbooked(n)') =
                        Cardinality(Unbooked(n)) + Worth(Pending(c, n))
                            - Worth(Pending(call[t], n))
                 /\ Cardinality(ReviewedCalls(n)) \in Nat
                 /\ Cardinality(ReviewedCalls(n)') =
                        Cardinality(ReviewedCalls(n)) + Worth(ReviewedAt(c, n))
                            - Worth(ReviewedAt(call[t], n))
<1>1. call'[t] = c /\ \A u \in Threads \ {t} : call'[u] = call[u]
  BY DEF TypeOK
<1>2. IsFiniteSet(Threads)
  BY FleetAssumption
<1>3. /\ Cardinality(CloudCalls) \in Nat
      /\ Cardinality(CloudCalls') =
             Cardinality(CloudCalls) + Worth(InCloud(c)) - Worth(InCloud(call[t]))
  <2>1. IsFiniteSet(CloudCalls)
    BY <1>2, FS_Subset DEF CloudCalls
  <2>2. CloudCalls \ {t} = CloudCalls' \ {t}
    BY <1>1 DEF CloudCalls, InCloud
  <2>3. /\ Worth(t \in CloudCalls) = Worth(InCloud(call[t]))
        /\ Worth(t \in CloudCalls') = Worth(InCloud(c))
    BY <1>1 DEF CloudCalls, InCloud, Worth
  <2> QED BY <2>1, <2>2, <2>3, OneElement
<1>4. ASSUME NEW n \in Nodes
      PROVE  /\ Cardinality(Unbooked(n)) \in Nat
             /\ Cardinality(Unbooked(n)') =
                    Cardinality(Unbooked(n)) + Worth(Pending(c, n)) - Worth(Pending(call[t], n))
  <2>1. IsFiniteSet(Unbooked(n))
    BY <1>2, FS_Subset DEF Unbooked
  <2>2. Unbooked(n) \ {t} = Unbooked(n)' \ {t}
    BY <1>1 DEF Unbooked
  <2>3. /\ Worth(t \in Unbooked(n)) = Worth(Pending(call[t], n))
        /\ Worth(t \in Unbooked(n)') = Worth(Pending(c, n))
    BY <1>1 DEF Unbooked, Pending, Worth
  <2> QED BY <2>1, <2>2, <2>3, OneElement
<1>5. ASSUME NEW n \in Nodes
      PROVE  /\ Cardinality(ReviewedCalls(n)) \in Nat
             /\ Cardinality(ReviewedCalls(n)') =
                    Cardinality(ReviewedCalls(n)) + Worth(ReviewedAt(c, n))
                        - Worth(ReviewedAt(call[t], n))
  <2>1. IsFiniteSet(ReviewedCalls(n))
    <3>1. ReviewedCalls(n) \subseteq Threads
      BY DEF ReviewedCalls, Unbooked
    <3> QED BY <1>2, <3>1, FS_Subset
  <2>2. ReviewedCalls(n) \ {t} = ReviewedCalls(n)' \ {t}
    BY <1>1 DEF ReviewedCalls, Unbooked
  <2>3. /\ Worth(t \in ReviewedCalls(n)) = Worth(ReviewedAt(call[t], n))
        /\ Worth(t \in ReviewedCalls(n)') = Worth(ReviewedAt(c, n))
    BY <1>1 DEF ReviewedCalls, Unbooked, ReviewedAt, Pending, Worth
  <2> QED BY <2>1, <2>2, <2>3, OneElement
<1> QED BY <1>3, <1>4, <1>5

-----------------------------------------------------------------------------
(* The operators of the agent. *)

\* What the guard lets through, the policy of the prompt allows.
LEMMA GuardWithinPrompt ==
    ASSUME NEW c \in Context, HardRouteAllows(c)
    PROVE  PromptAllows(c)
BY DEF Context, Tiers, LiveTiers, Uncertainties, Pressures, HardRouteAllows, PromptAllows

\* A context that was read is of its type; in an outage it says so.
LEMMA ContextRead ==
    ASSUME NEW n, NEW c \in ContextsNow(n)
    PROVE  c \in Context /\ (down[n] => c.tier = "outage")
BY DEF ContextsNow, TiersNow

LEMMA RouterType ==
    ASSUME NEW c, NEW upload \in RouterVerdicts(c)
    PROVE  upload \in BOOLEAN /\ (c.tier = "outage" => ~ upload)
BY DEF RouterVerdicts

\* At an outage a decision for the cloud is the model's alone.
LEMMA OutageDecision ==
    ASSUME NEW o \in Options, NEW c \in Context, NEW answer, NEW ruled \in BOOLEAN,
           c.tier = "outage", ~ ruled, Decided(o, c, answer, ruled)
    PROVE  ~ o.guard /\ ~ o.snap
BY DEF Options, Decided, HardRouteAllows

\* The call that a decision leaves.
DecidedCall(t, c, by, upload) ==
    [at |-> IF upload THEN "wanted" ELSE "done", node |-> call[t].node, profile |-> Profile(c),
     context |-> NoContext, tries |-> 0, by |-> by, path |-> IF upload THEN "none" ELSE "LOCAL"]

LEMMA DecideCall ==
    ASSUME TypeOK, NEW t \in Threads, NEW c, NEW by \in {"router", "agent"},
           NEW upload \in BOOLEAN, Decide(t, c, by, upload), call[t].node \in Nodes
    PROVE  /\ call' = [call EXCEPT ![t] = DecidedCall(t, c, by, upload)]
           /\ DecidedCall(t, c, by, upload) \in Calls
<1>1. call[t] \in Calls
  BY DEF TypeOK
<1>2. call' = [call EXCEPT ![t] = DecidedCall(t, c, by, upload)]
  BY DEF Decide, DecidedCall
<1>3. NoContext \in Context
  BY DEF NoContext, Context, Uncertainties, Tiers, LiveTiers, Pressures
<1>4. Profile(c) \in Profiles
  BY DEF Profile, Profiles
<1>5. 0 \in 0..(ParseRetry + 1)
  BY FleetAssumption
<1> QED BY <1>1, <1>2, <1>3, <1>4, <1>5 DEF DecidedCall, Calls, Paths


-----------------------------------------------------------------------------
(* Steps of one call. *)

\* What a step that gives thread t the call c has to show of c.
LEMMA CallReplaced ==
    ASSUME IInv, NEW t \in Threads, NEW c \in Calls, NEW b \in BOOLEAN,
           call' = [call EXCEPT ![t] = c], blackout' = [blackout EXCEPT ![t] = b],
           UNCHANGED <<options, down>>,
           CallOK(c), b => DarkOK(c),
           inflight' = inflight + Worth(InCloud(c)) - Worth(InCloud(call[t]))
    PROVE  /\ call' \in [Threads -> Calls]
           /\ blackout' \in [Threads -> BOOLEAN]
           /\ CallsInv'
           /\ DarkInv'
           /\ inflight' \in Nat
           /\ InflightIsUploads'
<1>1. call \in [Threads -> Calls] /\ blackout \in [Threads -> BOOLEAN]
  BY DEF IInv, TypeOK
<1>2. call' \in [Threads -> Calls] /\ blackout' \in [Threads -> BOOLEAN]
  BY <1>1
<1>3. CallsInv'
  BY <1>1 DEF IInv, CallsInv, CallOK
<1>4. DarkInv'
  <2> SUFFICES ASSUME NEW u \in Threads, blackout'[u] PROVE DarkOK(call[u])'
    BY DEF DarkInv
  <2>1. CASE u = t
    <3>1. call'[u] = c /\ b
      BY <1>1, <2>1
    <3> QED BY <3>1 DEF DarkOK, ModelAlone
  <2>2. CASE u # t
    <3>1. call'[u] = call[u] /\ blackout[u]
      BY <1>1, <2>2
    <3> QED BY <3>1 DEF IInv, DarkInv, DarkOK, ModelAlone
  <2> QED BY <2>1, <2>2
<1>5. /\ inflight = Cardinality(CloudCalls)
      /\ InflightIsUploads' <=> inflight' = Cardinality(CloudCalls')
  BY DEF IInv, InflightIsUploads, CloudCalls, InCloud
<1>6. /\ Cardinality(CloudCalls') =
             Cardinality(CloudCalls) + Worth(InCloud(c)) - Worth(InCloud(call[t]))
      /\ Cardinality(CloudCalls') \in Nat
  <2>1. IsFiniteSet(CloudCalls')
    BY FleetAssumption, FS_Subset DEF CloudCalls
  <2> QED BY <2>1, CallStep, FS_CardinalityType DEF IInv
<1> QED BY <1>2, <1>3, <1>4, <1>5, <1>6

\* The history follows the call of thread t when that becomes c.
HistoryFollows(t, c) ==
    /\ addressed' \in [Nodes -> Nat]
    /\ reviews' \in [Nodes -> Nat]
    /\ \A n \in Nodes :
          /\ addressed'[n] = addressed[n] + Worth(Pending(c, n)) - Worth(Pending(call[t], n))
          /\ reviews'[n] = reviews[n] + Worth(ReviewedAt(c, n)) - Worth(ReviewedAt(call[t], n))

\* The history need not change with a call whose node and outcome stay.
LEMMA SameHistory ==
    ASSUME IInv, NEW t \in Threads, NEW c,
           c.node = call[t].node,
           c.path = "raised" <=> call[t].path = "raised",
           c.path = "CLOUD_REVIEW" <=> call[t].path = "CLOUD_REVIEW",
           UNCHANGED <<addressed, reviews>>
    PROVE  HistoryFollows(t, c)
<1>1. addressed \in [Nodes -> Nat] /\ reviews \in [Nodes -> Nat]
  BY DEF IInv, TypeOK
<1>2. ASSUME NEW n \in Nodes
      PROVE  /\ Worth(Pending(c, n)) = Worth(Pending(call[t], n))
             /\ Worth(ReviewedAt(c, n)) = Worth(ReviewedAt(call[t], n))
             /\ Worth(Pending(c, n)) \in {0, 1}
             /\ Worth(ReviewedAt(c, n)) \in {0, 1}
  BY DEF Pending, ReviewedAt, Worth
<1> QED BY <1>1, <1>2 DEF HistoryFollows

\* What such a step has to show of the history, unless it books.
LEMMA CallUnbooked ==
    ASSUME IInv, NEW t \in Threads, NEW c \in Calls,
           call' = [call EXCEPT ![t] = c], stats' = stats, HistoryFollows(t, c)
    PROVE  CallsBooked'
<1> SUFFICES ASSUME NEW n \in Nodes
             PROVE  /\ stats[n].n_infer + Cardinality(Unbooked(n)') = addressed'[n]
                    /\ stats[n].n_upload_ok + Cardinality(ReviewedCalls(n)') = reviews'[n]
  BY DEF IInv, CallsBooked, ReviewedCalls
<1>1. /\ stats[n].n_infer + Cardinality(Unbooked(n)) = addressed[n]
      /\ stats[n].n_upload_ok + Cardinality(ReviewedCalls(n)) = reviews[n]
  BY DEF IInv, CallsBooked, ReviewedCalls
<1>2. stats[n].n_infer \in Nat /\ stats[n].n_upload_ok \in Nat
  BY DEF IInv, TypeOK, Counters
<1>3. /\ Worth(Pending(c, n)) \in {0, 1}
      /\ Worth(Pending(call[t], n)) \in {0, 1}
      /\ Worth(ReviewedAt(c, n)) \in {0, 1}
      /\ Worth(ReviewedAt(call[t], n)) \in {0, 1}
  BY WorthType
<1>4. /\ Cardinality(Unbooked(n)) \in Nat
      /\ Cardinality(Unbooked(n)') =
             Cardinality(Unbooked(n)) + Worth(Pending(c, n)) - Worth(Pending(call[t], n))
      /\ Cardinality(ReviewedCalls(n)) \in Nat
      /\ Cardinality(ReviewedCalls(n)') =
             Cardinality(ReviewedCalls(n)) + Worth(ReviewedAt(c, n)) - Worth(ReviewedAt(call[t], n))
  BY CallStep DEF IInv
<1>5. /\ addressed'[n] = addressed[n] + Worth(Pending(c, n)) - Worth(Pending(call[t], n))
      /\ reviews'[n] = reviews[n] + Worth(ReviewedAt(c, n)) - Worth(ReviewedAt(call[t], n))
  BY DEF HistoryFollows
<1> QED BY <1>1, <1>2, <1>3, <1>4, <1>5

\* The two together.
LEMMA MoveInv ==
    ASSUME IInv, NEW t \in Threads, NEW c \in Calls, NEW b \in BOOLEAN,
           call' = [call EXCEPT ![t] = c], blackout' = [blackout EXCEPT ![t] = b],
           UNCHANGED <<options, down, stats>>, active' \in Nodes,
           CallOK(c), b => DarkOK(c),
           inflight' = inflight + Worth(InCloud(c)) - Worth(InCloud(call[t])),
           HistoryFollows(t, c)
    PROVE  IInv'
<1>1. CallsBooked'
  BY CallUnbooked
<1>2. /\ call' \in [Threads -> Calls] /\ blackout' \in [Threads -> BOOLEAN]
      /\ CallsInv' /\ DarkInv' /\ inflight' \in Nat /\ InflightIsUploads'
  BY CallReplaced
<1> QED BY <1>1, <1>2 DEF IInv, TypeOK, HistoryFollows

\* A step that changes no count.
LEMMA QuietInv ==
    ASSUME IInv, NEW t \in Threads, NEW c \in Calls, call' = [call EXCEPT ![t] = c],
           UNCHANGED <<options, active, down, inflight, stats, histories>>,
           CallOK(c), blackout[t] => DarkOK(c),
           InCloud(c) <=> InCloud(call[t]),
           c.node = call[t].node,
           c.path = "raised" <=> call[t].path = "raised",
           c.path = "CLOUD_REVIEW" <=> call[t].path = "CLOUD_REVIEW"
    PROVE  IInv'
<1>1. HistoryFollows(t, c)
  BY SameHistory DEF histories
<1>2. /\ inflight' = inflight + Worth(InCloud(c)) - Worth(InCloud(call[t]))
      /\ active' \in Nodes
  BY DEF Worth, IInv, TypeOK
<1>3. blackout' = [blackout EXCEPT ![t] = blackout[t]] /\ blackout[t] \in BOOLEAN
  BY DEF histories, IInv, TypeOK
<1> QED BY <1>1, <1>2, <1>3, MoveInv

\* A decision: what is shown of the call it leaves.
LEMMA DecideInv ==
    ASSUME IInv, NEW t \in Threads, NEW c \in Context, NEW by \in {"router", "agent"},
           NEW upload \in BOOLEAN, Decide(t, c, by, upload),
           call[t].at \in {"begun", "asking"},
           blackout[t] /\ upload => by = "agent" /\ ModelAlone,
           UNCHANGED <<options, active, down, inflight, stats, histories>>
    PROVE  IInv'
<1> DEFINE new == DecidedCall(t, c, by, upload)
<1>0. /\ call[t] \in Calls
      /\ call[t].node \in Nodes
      /\ call[t].path = "none"
  BY DEF IInv, TypeOK, CallsInv, CallOK
<1>1. new \in Calls /\ call' = [call EXCEPT ![t] = new]
  BY <1>0, DecideCall DEF IInv
<1>2. /\ new.at = IF upload THEN "wanted" ELSE "done"
      /\ new.node = call[t].node
      /\ new.by = by
      /\ new.path = IF upload THEN "none" ELSE "LOCAL"
  BY DEF DecidedCall
<1> HIDE DEF new
<1>3. CallOK(new)
  BY <1>0, <1>2 DEF CallOK, Paths
<1>4. blackout[t] => DarkOK(new)
  BY <1>0, <1>2 DEF IInv, DarkInv, DarkOK
<1>5. ~ InCloud(new) /\ ~ InCloud(call[t])
  BY <1>2 DEF InCloud
<1> QED BY <1>0, <1>1, <1>2, <1>3, <1>4, <1>5, QuietInv

\* The call of a thread, with its place changed.
LEMMA GotoCall ==
    ASSUME IInv, NEW t \in Threads,
           NEW place \in {"sending", "done"}, Goto(t, place)
    PROVE  \E c \in Calls :
              /\ call' = [call EXCEPT ![t] = c]
              /\ c.at = place /\ c.node = call[t].node /\ c.by = call[t].by
              /\ c.path = call[t].path
<1> DEFINE c == [call[t] EXCEPT !.at = place]
<1>1. call[t] \in Calls
  BY DEF IInv, TypeOK
<1>2. /\ c \in Calls
      /\ c.at = place /\ c.node = call[t].node /\ c.by = call[t].by /\ c.path = call[t].path
  BY <1>1 DEF Calls
<1>3. call' = [call EXCEPT ![t] = c]
  BY DEF Goto
<1> QED BY <1>2, <1>3

\* The calls that are not being routed, or not any more, and are of no node.
Unrouted == {Idle, Reviewing}

LEMMA UnroutedCall ==
    ASSUME NEW c \in Unrouted
    PROVE  c \in Calls /\ CallOK(c) /\ DarkOK(c) /\ ~ InCloud(c)
<1>1. Idle \in Calls
  BY FleetAssumption
     DEF Idle, Calls, Profiles, Paths, NoContext, Context, Uncertainties, Tiers, LiveTiers,
         Pressures
<1>2. Idle.at = "idle" /\ Idle.path = "none"
  BY DEF Idle
<1>3. Reviewing \in Calls /\ Reviewing.at = "reviewing" /\ Reviewing.path = "none"
  BY <1>1, <1>2 DEF Reviewing, Calls
<1> QED BY <1>1, <1>2, <1>3 DEF Unrouted, CallOK, DarkOK, InCloud

LEMMA UnroutedNowhere ==
    ASSUME NEW c \in Unrouted, NEW n \in Nodes
    PROVE  Worth(Pending(c, n)) = 0 /\ Worth(ReviewedAt(c, n)) = 0
BY FleetAssumption DEF Unrouted, Idle, Reviewing, Pending, ReviewedAt, Worth

\* A node with a call that has not raised has been addressed.
LEMMA Addressed ==
    ASSUME IInv, NEW t \in Threads, call[t].node \in Nodes, call[t].path # "raised"
    PROVE  addressed[call[t].node] > 0
<1> DEFINE n == call[t].node
<1>1. stats[n].n_infer + Cardinality(Unbooked(n)) = addressed[n] /\ stats[n].n_infer \in Nat
  BY DEF IInv, CallsBooked, TypeOK, Counters
<1>2. IsFiniteSet(Unbooked(n))
  BY FleetAssumption, FS_Subset DEF Unbooked
<1>3. t \in Unbooked(n)
  BY DEF Unbooked
<1>4. Cardinality(Unbooked(n)) \in Nat /\ Cardinality(Unbooked(n)) # 0
  BY <1>2, <1>3, FS_CardinalityType, FS_EmptySet
<1> QED BY <1>1, <1>4

-----------------------------------------------------------------------------
(* Every action keeps the invariant. *)

LEMMA UsersInv ==
    ASSUME IInv, NEW n \in Nodes, Cut(n) \/ Rejoin(n) \/ SetActive(n)
    PROVE  IInv'
<1>1. /\ UNCHANGED <<options, inflight, stats, call, addressed, reviews>>
      /\ down' \in [Nodes -> BOOLEAN]
      /\ active' \in Nodes
      /\ blackout' \in [Threads -> BOOLEAN]
  BY DEF Cut, Rejoin, SetActive, histories, IInv, TypeOK
<1>2. TypeOK' /\ CallsInv' /\ InflightIsUploads'
  BY <1>1 DEF IInv, TypeOK, CallsInv, CallOK, InflightIsUploads
<1>3. CallsBooked'
  BY <1>1 DEF IInv, CallsBooked, Unbooked
<1>4. DarkInv'
  <2> SUFFICES ASSUME NEW t \in Threads, blackout'[t] PROVE DarkOK(call[t])'
    BY DEF DarkInv
  <2> DEFINE routed == call[t].at \notin {"idle", "reviewing"}
  <2>1. blackout[t] /\ (routed /\ down[call[t].node] => down'[call[t].node])
    <3>1. routed => call[t].node \in Nodes
      BY DEF IInv, CallsInv, CallOK
    <3>2. CASE Cut(n)
      BY <3>1, <3>2 DEF Cut, histories, IInv, TypeOK
    <3>3. CASE Rejoin(n)
      BY <3>1, <3>3 DEF Rejoin, IInv, TypeOK
    <3>4. CASE SetActive(n)
      BY <3>4 DEF SetActive, histories
    <3> QED BY <3>2, <3>3, <3>4
  <2> QED BY <1>1, <2>1 DEF IInv, DarkInv, DarkOK, ModelAlone
<1> QED BY <1>2, <1>3, <1>4 DEF IInv

LEMMA BeginInv ==
    ASSUME IInv, NEW t \in Threads, NEW named \in Nodes \union {NoNode}, Begin(t, named)
    PROVE  IInv'
<1> DEFINE n == IF named = NoNode THEN active ELSE named
           c == [call[t] EXCEPT !.at = "begun", !.node = n]
<1>1. n \in Nodes
  BY DEF IInv, TypeOK
<1>2. /\ call[t].at = "idle" /\ call' = [call EXCEPT ![t] = c]
      /\ active' = n
      /\ addressed' = [addressed EXCEPT ![n] = @ + 1]
      /\ blackout' = [blackout EXCEPT ![t] = down[n]]
      /\ UNCHANGED <<options, down, stats, inflight, reviews>>
  BY DEF Begin, IInv, TypeOK
<1> HIDE DEF n
<1>3. call[t] \in Calls /\ call[t].node = NoNode /\ call[t].path = "none"
  BY <1>2 DEF IInv, TypeOK, CallsInv, CallOK, Idle
<1>4. c \in Calls /\ c.at = "begun" /\ c.node = n /\ c.path = "none"
  BY <1>1, <1>3 DEF Calls
<1> HIDE DEF c
<1>5. call[t].at = "idle"
  BY <1>2
<1>6. CallOK(c) /\ (down[n] => DarkOK(c))
  BY <1>1, <1>4 DEF CallOK, DarkOK
<1>7. Worth(InCloud(c)) = 0 /\ Worth(InCloud(call[t])) = 0
  BY <1>4, <1>5 DEF InCloud, Worth
<1>8. ASSUME NEW m \in Nodes
      PROVE  /\ Worth(Pending(c, m)) = IF m = n THEN 1 ELSE 0
             /\ Worth(Pending(call[t], m)) = 0
             /\ Worth(ReviewedAt(c, m)) = 0
             /\ Worth(ReviewedAt(call[t], m)) = 0
  BY <1>3, <1>4, FleetAssumption DEF Pending, ReviewedAt, Worth
<1>9. addressed \in [Nodes -> Nat] /\ reviews \in [Nodes -> Nat] /\ inflight \in Nat
      /\ down[n] \in BOOLEAN
  BY <1>1 DEF IInv, TypeOK
<1>10. HistoryFollows(t, c)
  <2>1. addressed' \in [Nodes -> Nat] /\ reviews' \in [Nodes -> Nat]
    BY <1>1, <1>2, <1>9
  <2> QED BY <1>1, <1>2, <1>8, <1>9, <2>1 DEF HistoryFollows
<1>11. inflight' = inflight + Worth(InCloud(c)) - Worth(InCloud(call[t]))
  BY <1>2, <1>7, <1>9
<1> QED BY <1>1, <1>2, <1>4, <1>6, <1>9, <1>10, <1>11, MoveInv

LEMMA RulesInv == ASSUME IInv, NEW t \in Threads, RouteByRules(t) PROVE IInv'
<1>0. PICK c \in ContextsNow(call[t].node) :
          \E upload \in RouterVerdicts(c) : Decide(t, c, "router", upload)
  BY DEF RouteByRules
<1>1. PICK upload \in RouterVerdicts(c) : Decide(t, c, "router", upload)
  BY <1>0
<1>2. c \in Context /\ (down[call[t].node] => c.tier = "outage")
  BY ContextRead
<1>3. upload \in BOOLEAN /\ (c.tier = "outage" => ~ upload)
  BY RouterType
<1>4. /\ call[t].at = "begun"
      /\ UNCHANGED <<options, active, down, inflight, stats, histories>>
  BY DEF RouteByRules
<1>5. blackout[t] => ~ upload
  BY <1>2, <1>3, <1>4 DEF IInv, DarkInv, DarkOK
<1> QED BY <1>1, <1>2, <1>3, <1>4, <1>5, DecideInv

LEMMA RouteRaisesInv == ASSUME IInv, NEW t \in Threads, RouteRaises(t) PROVE IInv'
<1> DEFINE n == call[t].node
<1>1. /\ call[t].at = "begun"
      /\ addressed' = [addressed EXCEPT ![n] = @ - 1]
      /\ call' = [call EXCEPT ![t] = Idle]
      /\ UNCHANGED <<options, active, down, inflight, stats, reviews, blackout>>
  BY DEF RouteRaises
<1>2. n \in Nodes /\ call[t].path = "none"
  BY <1>1 DEF IInv, CallsInv, CallOK
<1>3. Idle \in Calls /\ CallOK(Idle) /\ DarkOK(Idle) /\ ~ InCloud(Idle)
  BY UnroutedCall DEF Unrouted
<1>4. /\ active' \in Nodes
      /\ blackout' = [blackout EXCEPT ![t] = blackout[t]] /\ blackout[t] \in BOOLEAN
      /\ addressed \in [Nodes -> Nat] /\ reviews \in [Nodes -> Nat] /\ inflight \in Nat
  BY <1>1 DEF IInv, TypeOK
<1>5. inflight' = inflight + Worth(InCloud(Idle)) - Worth(InCloud(call[t]))
  BY <1>1, <1>3, <1>4 DEF InCloud, Worth
<1>6. addressed[n] > 0
  BY <1>2, Addressed
<1>7. ASSUME NEW m \in Nodes
      PROVE  /\ Worth(Pending(Idle, m)) = 0 /\ Worth(ReviewedAt(Idle, m)) = 0
             /\ Worth(Pending(call[t], m)) = IF m = n THEN 1 ELSE 0
             /\ Worth(ReviewedAt(call[t], m)) = 0
  <2>1. Worth(Pending(Idle, m)) = 0 /\ Worth(ReviewedAt(Idle, m)) = 0
    BY UnroutedNowhere DEF Unrouted
  <2> QED BY <1>2, <2>1 DEF Pending, ReviewedAt, Worth
<1> HIDE DEF n
<1>8. addressed' \in [Nodes -> Nat] /\ reviews' \in [Nodes -> Nat]
  <2>1. addressed[n] - 1 \in Nat
    BY <1>2, <1>4, <1>6
  <2> QED BY <1>1, <1>4, <2>1
<1>9. HistoryFollows(t, Idle)
  BY <1>1, <1>2, <1>4, <1>7, <1>8 DEF HistoryFollows
<1> QED BY <1>1, <1>3, <1>4, <1>5, <1>9, MoveInv

LEMMA AgentInv == ASSUME IInv, NEW t \in Threads, RouteByAgent(t) PROVE IInv'
<1>1. PICK c \in ContextsNow(call[t].node) :
          IF options.block /\ Profile(c) = "outage"
          THEN Decide(t, c, "agent", FALSE)
          ELSE call' = [call EXCEPT ![t].at = "asking", ![t].context = c, ![t].tries = 1]
  BY DEF RouteByAgent
<1>2. c \in Context /\ (down[call[t].node] => c.tier = "outage")
  BY ContextRead
<1>3. /\ call[t].at = "begun"
      /\ UNCHANGED <<options, active, down, inflight, stats, histories>>
  BY DEF RouteByAgent
<1>4. CASE options.block /\ Profile(c) = "outage"
  BY <1>1, <1>2, <1>3, <1>4, DecideInv
<1>5. CASE ~ (options.block /\ Profile(c) = "outage")
  <2> DEFINE new == [call[t] EXCEPT !.at = "asking", !.context = c, !.tries = 1]
  <2>1. call' = [call EXCEPT ![t] = new]
    BY <1>1, <1>5 DEF IInv, TypeOK
  <2>2. call[t] \in Calls /\ 1 \in 0..(ParseRetry + 1)
    BY FleetAssumption DEF IInv, TypeOK
  <2>3. /\ new \in Calls
        /\ new.at = "asking" /\ new.node = call[t].node /\ new.path = call[t].path
        /\ new.context = c
    BY <1>2, <2>2 DEF Calls
  <2> HIDE DEF new
  <2>4. CallOK(new)
    BY <1>3, <2>3 DEF IInv, CallsInv, CallOK
  <2>5. blackout[t] => DarkOK(new)
    <3> SUFFICES ASSUME blackout[t] PROVE DarkOK(new)
      OBVIOUS
    <3>1. down[call[t].node] /\ call[t].path # "CLOUD_REVIEW"
      BY <1>3 DEF IInv, DarkInv, DarkOK
    <3>2. c.tier = "outage" /\ ~ options.block
      BY <1>2, <1>5, <3>1 DEF Profile
    <3> QED BY <2>3, <3>1, <3>2 DEF DarkOK
  <2>6. ~ InCloud(new) /\ ~ InCloud(call[t])
    BY <1>3, <2>3 DEF InCloud
  <2> QED BY <1>3, <2>1, <2>3, <2>4, <2>5, <2>6, QuietInv
<1> QED BY <1>4, <1>5

LEMMA AskAgainInv == ASSUME IInv, NEW t \in Threads, AskAgain(t) PROVE IInv'
<1> DEFINE new == [call[t] EXCEPT !.tries = @ + 1]
<1>1. call[t].at = "asking" /\ call' = [call EXCEPT ![t] = new]
  BY DEF AskAgain
<1>2. call[t] \in Calls
  BY DEF IInv, TypeOK
<1>3. call[t].tries + 1 \in 0..(ParseRetry + 1)
  BY <1>2, FleetAssumption DEF AskAgain, Calls
<1>4. /\ new \in Calls
      /\ new.at = "asking" /\ new.node = call[t].node /\ new.path = call[t].path
      /\ new.context = call[t].context
  BY <1>1, <1>2, <1>3 DEF Calls
<1> HIDE DEF new
<1>5. CallOK(new)
  BY <1>1, <1>4 DEF IInv, CallsInv, CallOK
<1>6. blackout[t] => DarkOK(new)
  BY <1>1, <1>4 DEF IInv, DarkInv, DarkOK
<1>7. ~ InCloud(new) /\ ~ InCloud(call[t])
  BY <1>1, <1>4 DEF InCloud
<1> QED BY <1>1, <1>4, <1>5, <1>6, <1>7, QuietInv DEF AskAgain

LEMMA AnsweredInv ==
    ASSUME IInv, NEW t \in Threads, NEW answer \in Answers, Answered(t, answer)
    PROVE  IInv'
<1> DEFINE c == call[t].context
<1>1. PICK ruled \in RouterVerdicts(c) :
          Decide(t, c, "agent", Decided(options, c, answer, ruled))
  BY DEF Answered
<1>2. /\ call[t].at = "asking"
      /\ UNCHANGED <<options, active, down, inflight, stats, histories>>
  BY DEF Answered
<1>3. c \in Context /\ options \in Options
  BY DEF IInv, TypeOK, Calls
<1> HIDE DEF c
<1>4. ruled \in BOOLEAN /\ (c.tier = "outage" => ~ ruled)
  BY RouterType
<1>5. Decided(options, c, answer, ruled) \in BOOLEAN
  BY <1>3, <1>4 DEF Decided, Options
<1>6. blackout[t] /\ Decided(options, c, answer, ruled) => ModelAlone
  <2> SUFFICES ASSUME blackout[t], Decided(options, c, answer, ruled) PROVE ModelAlone
    OBVIOUS
  <2>1. c.tier = "outage" /\ ~ options.block
    BY <1>2 DEF c, IInv, DarkInv, DarkOK
  <2> QED BY <1>3, <1>4, <2>1, OutageDecision DEF ModelAlone
<1> QED BY <1>1, <1>2, <1>3, <1>5, <1>6, DecideInv

LEMMA AgentFailsInv == ASSUME IInv, NEW t \in Threads, AgentFails(t) PROVE IInv'
<1>1. call[t].context \in Context
  BY DEF IInv, TypeOK, Calls
<1> QED BY <1>1, DecideInv DEF AgentFails

LEMMA EnterInv == ASSUME IInv, NEW t \in Threads, Enter(t) PROVE IInv'
<1>1. /\ call[t].at = "wanted" /\ inflight' = inflight + 1 /\ Goto(t, "sending")
      /\ UNCHANGED <<options, active, down, stats, histories>>
  BY DEF Enter
<1>2. PICK c \in Calls :
          /\ call' = [call EXCEPT ![t] = c]
          /\ c.at = "sending" /\ c.node = call[t].node /\ c.by = call[t].by
          /\ c.path = call[t].path
  BY <1>1, GotoCall
<1>3. CallOK(c)
  BY <1>1, <1>2 DEF IInv, CallsInv, CallOK
<1>4. blackout[t] => DarkOK(c)
  BY <1>1, <1>2 DEF IInv, DarkInv, DarkOK
<1>5. inflight' = inflight + Worth(InCloud(c)) - Worth(InCloud(call[t]))
  <2>1. Worth(InCloud(c)) = 1 /\ Worth(InCloud(call[t])) = 0 /\ inflight \in Nat
    BY <1>1, <1>2 DEF InCloud, Worth, IInv, TypeOK
  <2> QED BY <1>1, <2>1
<1>6. /\ active' \in Nodes
      /\ blackout' = [blackout EXCEPT ![t] = blackout[t]] /\ blackout[t] \in BOOLEAN
  BY <1>1 DEF IInv, TypeOK, histories
<1>7. HistoryFollows(t, c)
  BY <1>1, <1>2, SameHistory DEF histories
<1> QED BY <1>1, <1>2, <1>3, <1>4, <1>5, <1>6, <1>7, MoveInv

\* An upload ends with a path.
EndedCall(t, way) ==
    [at |-> "leaving", node |-> call[t].node, profile |-> call[t].profile,
     context |-> call[t].context, tries |-> call[t].tries, by |-> call[t].by, path |-> way]

LEMMA EndInv ==
    ASSUME IInv, NEW t \in Threads,
           NEW way \in {"CLOUD_REVIEW", "LOCAL_NET_FALLBACK", "raised"},
           call[t].at = "sending",
           call' = [call EXCEPT ![t].at = "leaving", ![t].path = way],
           UNCHANGED <<options, active, down, inflight, stats, blackout>>,
           way = "CLOUD_REVIEW" => ~ blackout[t],
           addressed' = IF way = "raised"
                        THEN [addressed EXCEPT ![call[t].node] = @ - 1] ELSE addressed,
           reviews' = IF way = "CLOUD_REVIEW"
                      THEN [reviews EXCEPT ![call[t].node] = @ + 1] ELSE reviews
    PROVE  IInv'
<1> DEFINE c == EndedCall(t, way)
           n == call[t].node
<1>1. call[t] \in Calls /\ n \in Nodes /\ call[t].path = "none"
  BY DEF IInv, TypeOK, CallsInv, CallOK
<1>2. call' = [call EXCEPT ![t] = c] /\ c \in Calls
  BY <1>1 DEF IInv, TypeOK, EndedCall, Calls, Paths
<1>3. c.at = "leaving" /\ c.node = n /\ c.by = call[t].by /\ c.path = way
  BY DEF EndedCall
<1> HIDE DEF c
<1>4. CallOK(c)
  BY <1>1, <1>3 DEF CallOK
<1>5. blackout[t] => DarkOK(c)
  BY <1>3 DEF IInv, DarkInv, DarkOK
<1>6. InCloud(c) /\ InCloud(call[t])
  BY <1>3 DEF InCloud
<1>7. /\ inflight' = inflight + Worth(InCloud(c)) - Worth(InCloud(call[t]))
      /\ active' \in Nodes
  BY <1>6 DEF Worth, IInv, TypeOK
<1>8. blackout' = [blackout EXCEPT ![t] = blackout[t]] /\ blackout[t] \in BOOLEAN
  BY DEF IInv, TypeOK
<1>9. addressed \in [Nodes -> Nat] /\ reviews \in [Nodes -> Nat]
  BY DEF IInv, TypeOK
<1>10. addressed[n] > 0
  BY <1>1, Addressed
<1>11. ASSUME NEW m \in Nodes
       PROVE  /\ Worth(Pending(c, m)) = IF m = n /\ way # "raised" THEN 1 ELSE 0
              /\ Worth(Pending(call[t], m)) = IF m = n THEN 1 ELSE 0
              /\ Worth(ReviewedAt(c, m)) = IF m = n /\ way = "CLOUD_REVIEW" THEN 1 ELSE 0
              /\ Worth(ReviewedAt(call[t], m)) = 0
  BY <1>1, <1>3 DEF Pending, ReviewedAt, Worth
<1> HIDE DEF n
<1>12. addressed' = IF way = "raised" THEN [addressed EXCEPT ![n] = @ - 1] ELSE addressed
  BY DEF n
<1>13. reviews' = IF way = "CLOUD_REVIEW" THEN [reviews EXCEPT ![n] = @ + 1] ELSE reviews
  BY DEF n
<1>14. addressed' \in [Nodes -> Nat] /\ reviews' \in [Nodes -> Nat]
  <2>1. addressed[n] \in Nat /\ addressed[n] - 1 \in Nat /\ reviews[n] + 1 \in Nat
    BY <1>1, <1>9, <1>10 DEF n
  <2> QED BY <1>9, <1>12, <1>13, <2>1
<1>15. ASSUME NEW m \in Nodes
       PROVE  /\ addressed'[m] =
                     addressed[m] + Worth(Pending(c, m)) - Worth(Pending(call[t], m))
              /\ reviews'[m] =
                     reviews[m] + Worth(ReviewedAt(c, m)) - Worth(ReviewedAt(call[t], m))
  <2>1. addressed[m] \in Nat /\ reviews[m] \in Nat
    BY <1>9
  <2> QED BY <1>9, <1>11, <1>12, <1>13, <2>1
<1>16. HistoryFollows(t, c)
  BY <1>14, <1>15 DEF HistoryFollows
<1> QED BY <1>2, <1>4, <1>5, <1>7, <1>8, <1>16, MoveInv

LEMMA SendInv ==
    ASSUME IInv, NEW t \in Threads, SendOk(t) \/ SendFails(t) \/ SendRaises(t)
    PROVE  IInv'
<1>1. CASE SendOk(t)
  <2>1. ~ blackout[t]
    BY <1>1 DEF SendOk, IInv, DarkInv, DarkOK
  <2> QED BY <1>1, <2>1, EndInv DEF SendOk
<1>2. CASE SendFails(t)
  BY <1>2, EndInv DEF SendFails, histories
<1>3. CASE SendRaises(t)
  BY <1>3, EndInv DEF SendRaises
<1> QED BY <1>1, <1>2, <1>3

LEMMA LeaveInv == ASSUME IInv, NEW t \in Threads, Leave(t) PROVE IInv'
<1>1. /\ call[t].at = "leaving"
      /\ inflight' = IF inflight > 0 THEN inflight - 1 ELSE 0
      /\ UNCHANGED <<options, active, down, stats, histories>>
  BY DEF Leave
<1>2. inflight \in Nat /\ inflight > 0
  <2>1. IsFiniteSet(CloudCalls) /\ t \in CloudCalls /\ inflight = Cardinality(CloudCalls)
    BY <1>1, FleetAssumption, FS_Subset DEF CloudCalls, InCloud, IInv, InflightIsUploads
  <2> QED BY <2>1, FS_CardinalityType, FS_EmptySet
<1>3. /\ active' \in Nodes
      /\ blackout' = [blackout EXCEPT ![t] = blackout[t]] /\ blackout[t] \in BOOLEAN
  BY <1>1 DEF IInv, TypeOK, histories
<1>4. ASSUME NEW c, ~ InCloud(c)
      PROVE  inflight' = inflight + Worth(InCloud(c)) - Worth(InCloud(call[t]))
  <2>1. Worth(InCloud(c)) = 0 /\ Worth(InCloud(call[t])) = 1
    BY <1>1, <1>4 DEF InCloud, Worth
  <2> QED BY <1>1, <1>2, <2>1
<1>5. CASE call[t].path = "raised"
  <2>1. call' = [call EXCEPT ![t] = Idle]
    BY <1>5 DEF Leave
  <2>2. HistoryFollows(t, Idle)
    <3>1. addressed \in [Nodes -> Nat] /\ reviews \in [Nodes -> Nat]
          /\ addressed' = addressed /\ reviews' = reviews
      BY <1>1 DEF IInv, TypeOK, histories
    <3>2. ASSUME NEW n \in Nodes
          PROVE  /\ Worth(Pending(Idle, n)) = 0 /\ Worth(Pending(call[t], n)) = 0
                 /\ Worth(ReviewedAt(Idle, n)) = 0 /\ Worth(ReviewedAt(call[t], n)) = 0
      BY <1>5, UnroutedNowhere DEF Unrouted, Pending, ReviewedAt, Worth
    <3> QED BY <3>1, <3>2 DEF HistoryFollows
  <2>3. Idle \in Calls /\ CallOK(Idle) /\ DarkOK(Idle) /\ ~ InCloud(Idle)
    BY UnroutedCall DEF Unrouted
  <2>4. inflight' = inflight + Worth(InCloud(Idle)) - Worth(InCloud(call[t]))
    BY <1>4, <2>3
  <2> QED BY <1>1, <1>3, <2>1, <2>2, <2>3, <2>4, MoveInv
<1>6. CASE call[t].path # "raised"
  <2>1. Goto(t, "done")
    BY <1>6 DEF Leave
  <2>2. PICK c \in Calls :
            /\ call' = [call EXCEPT ![t] = c]
            /\ c.at = "done" /\ c.node = call[t].node /\ c.by = call[t].by
            /\ c.path = call[t].path
    BY <2>1, GotoCall
  <2>3. CallOK(c)
    BY <1>1, <1>6, <2>2 DEF IInv, CallsInv, CallOK, Paths
  <2>4. blackout[t] => DarkOK(c)
    BY <1>1, <2>2 DEF IInv, DarkInv, DarkOK
  <2>5. inflight' = inflight + Worth(InCloud(c)) - Worth(InCloud(call[t]))
    BY <1>4, <2>2 DEF InCloud
  <2>6. HistoryFollows(t, c)
    BY <1>1, <2>2, SameHistory DEF histories
  <2> QED BY <1>1, <1>3, <2>2, <2>3, <2>4, <2>5, <2>6, MoveInv
<1> QED BY <1>5, <1>6

\* The counters of a node after one more call, whatever its outcome.
LEMMA Recorded ==
    ASSUME NEW s \in [Counters -> Nat], NEW path \in Paths, NEW profile \in Profiles,
           s.n_infer = s.n_local + s.n_upload_want,
           s.n_upload_want = s.n_upload_ok + s.n_upload_fail,
           s.n_outage_gate <= s.n_local,
           NEW r, r = RecordPath(s, path, profile)
    PROVE  /\ r \in [Counters -> Nat]
           /\ r.n_infer = s.n_infer + 1
           /\ r.n_upload_ok = s.n_upload_ok + Worth(path = "CLOUD_REVIEW")
           /\ r.n_infer = r.n_local + r.n_upload_want
           /\ r.n_upload_want = r.n_upload_ok + r.n_upload_fail
           /\ r.n_outage_gate <= r.n_local
<1>1. /\ s.n_infer \in Nat /\ s.n_local \in Nat /\ s.n_upload_want \in Nat
      /\ s.n_upload_ok \in Nat /\ s.n_upload_fail \in Nat /\ s.n_outage_gate \in Nat
  BY DEF Counters
<1> DEFINE local == Worth(path = "LOCAL")
           want  == Worth(path # "LOCAL")
           ok    == Worth(path = "CLOUD_REVIEW")
           fail  == Worth(path = "LOCAL_NET_FALLBACK")
           gate  == Worth(profile = "outage" /\ path = "LOCAL")
<1>2. r = [n_infer       |-> s.n_infer + 1,
           n_local       |-> s.n_local + local,
           n_upload_want |-> s.n_upload_want + want,
           n_upload_ok   |-> s.n_upload_ok + ok,
           n_upload_fail |-> s.n_upload_fail + fail,
           n_outage_gate |-> s.n_outage_gate + gate]
  BY DEF RecordPath, Worth
<1>3. /\ local \in {0, 1} /\ want = 1 - local /\ want \in {0, 1} /\ ok \in {0, 1}
      /\ fail \in {0, 1} /\ want = ok + fail /\ gate \in {0, 1} /\ gate <= local
  BY DEF Worth, Paths
<1> HIDE DEF local, want, ok, fail, gate
<1>4. /\ r.n_infer = s.n_infer + 1
      /\ r.n_local = s.n_local + local
      /\ r.n_upload_want = s.n_upload_want + want
      /\ r.n_upload_ok = s.n_upload_ok + ok
      /\ r.n_upload_fail = s.n_upload_fail + fail
      /\ r.n_outage_gate = s.n_outage_gate + gate
  BY <1>2
<1>5. r \in [Counters -> Nat]
  BY <1>1, <1>2, <1>3 DEF Counters
<1>6. r.n_upload_ok = s.n_upload_ok + Worth(path = "CLOUD_REVIEW")
  BY <1>4 DEF ok
<1> QED BY <1>1, <1>3, <1>4, <1>5, <1>6

LEMMA BookInv == ASSUME IInv, NEW t \in Threads, Book(t) PROVE IInv'
<1> DEFINE n == call[t].node
           path == call[t].path
           record == RecordPath(stats[n], path, call[t].profile)
<1>1. /\ call[t].at = "done"
      /\ stats' = [stats EXCEPT ![n] = record]
      /\ UNCHANGED <<options, active, down, inflight, histories>>
  BY DEF Book
<1>2. PICK next \in Unrouted : call' = [call EXCEPT ![t] = next]
  BY DEF Book, AfterBooking, Unrouted
<1>3. n \in Nodes /\ path \in Paths /\ call[t].profile \in Profiles
  BY <1>1 DEF IInv, TypeOK, Calls, CallsInv, CallOK
<1>4. /\ record \in [Counters -> Nat]
      /\ record.n_infer = stats[n].n_infer + 1
      /\ record.n_upload_ok = stats[n].n_upload_ok + Worth(path = "CLOUD_REVIEW")
      /\ record.n_infer = record.n_local + record.n_upload_want
      /\ record.n_upload_want = record.n_upload_ok + record.n_upload_fail
      /\ record.n_outage_gate <= record.n_local
  BY <1>3, Recorded DEF IInv, TypeOK, CallsBooked
<1> HIDE DEF record
<1>5. stats \in [Nodes -> [Counters -> Nat]] /\ stats' \in [Nodes -> [Counters -> Nat]]
  BY <1>1, <1>3, <1>4 DEF IInv, TypeOK
<1>6. CallsBooked'
  <2> SUFFICES ASSUME NEW m \in Nodes
               PROVE  /\ stats'[m].n_infer + Cardinality(Unbooked(m)') = addressed[m]
                      /\ stats'[m].n_upload_ok + Cardinality(ReviewedCalls(m)') = reviews[m]
                      /\ stats'[m].n_infer = stats'[m].n_local + stats'[m].n_upload_want
                      /\ stats'[m].n_upload_want =
                             stats'[m].n_upload_ok + stats'[m].n_upload_fail
                      /\ stats'[m].n_outage_gate <= stats'[m].n_local
    BY <1>1 DEF CallsBooked, ReviewedCalls, histories
  <2>1. /\ stats[m].n_infer + Cardinality(Unbooked(m)) = addressed[m]
        /\ stats[m].n_upload_ok + Cardinality(ReviewedCalls(m)) = reviews[m]
        /\ stats[m].n_infer = stats[m].n_local + stats[m].n_upload_want
        /\ stats[m].n_upload_want = stats[m].n_upload_ok + stats[m].n_upload_fail
        /\ stats[m].n_outage_gate <= stats[m].n_local
    BY DEF IInv, CallsBooked, ReviewedCalls
  <2>2. stats[m].n_infer \in Nat /\ stats[m].n_upload_ok \in Nat
    BY <1>5 DEF Counters
  <2>3. Worth(Pending(next, m)) = 0 /\ Worth(ReviewedAt(next, m)) = 0
    BY UnroutedNowhere
  <2>4. /\ Cardinality(Unbooked(m)) \in Nat
        /\ Cardinality(Unbooked(m)') = Cardinality(Unbooked(m)) - Worth(Pending(call[t], m))
        /\ Cardinality(ReviewedCalls(m)) \in Nat
        /\ Cardinality(ReviewedCalls(m)') =
               Cardinality(ReviewedCalls(m)) - Worth(ReviewedAt(call[t], m))
    <3>1. Worth(Pending(call[t], m)) \in {0, 1} /\ Worth(ReviewedAt(call[t], m)) \in {0, 1}
      BY WorthType
    <3>2. /\ Cardinality(Unbooked(m)) \in Nat
          /\ Cardinality(Unbooked(m)') =
                 Cardinality(Unbooked(m)) + Worth(Pending(next, m)) - Worth(Pending(call[t], m))
          /\ Cardinality(ReviewedCalls(m)) \in Nat
          /\ Cardinality(ReviewedCalls(m)') =
                 Cardinality(ReviewedCalls(m)) + Worth(ReviewedAt(next, m))
                     - Worth(ReviewedAt(call[t], m))
      BY <1>2, CallStep DEF IInv
    <3> QED BY <2>3, <3>1, <3>2
  <2>5. CASE m = n
    <3>1. stats'[m] = record
      BY <1>1, <1>5, <2>5
    <3>2. /\ Worth(Pending(call[t], m)) = 1
          /\ Worth(ReviewedAt(call[t], m)) = Worth(path = "CLOUD_REVIEW")
          /\ Worth(path = "CLOUD_REVIEW") \in {0, 1}
      BY <1>3, <2>5 DEF Pending, ReviewedAt, Worth, Paths
    <3> HIDE DEF n, path
    <3>0. stats'[m].n_infer = stats[m].n_infer + 1
      BY <1>4, <2>5, <3>1
    <3>3. stats'[m].n_infer + Cardinality(Unbooked(m)') = addressed[m]
      BY <2>1, <2>2, <2>4, <3>2, <3>0
    <3>4. stats'[m].n_upload_ok + Cardinality(ReviewedCalls(m)') = reviews[m]
      BY <1>4, <2>1, <2>2, <2>4, <2>5, <3>1, <3>2
    <3> QED BY <1>4, <3>1, <3>3, <3>4
  <2>6. CASE m # n
    <3>1. stats'[m] = stats[m]
      BY <1>1, <1>5, <2>6
    <3>2. Worth(Pending(call[t], m)) = 0 /\ Worth(ReviewedAt(call[t], m)) = 0
      BY <2>6 DEF Pending, ReviewedAt, Worth
    <3> QED BY <2>1, <2>4, <3>1, <3>2
  <2> QED BY <2>5, <2>6
<1>7. /\ call' \in [Threads -> Calls] /\ blackout' \in [Threads -> BOOLEAN]
      /\ CallsInv' /\ DarkInv' /\ inflight' \in Nat /\ InflightIsUploads'
  <2>1. blackout' = [blackout EXCEPT ![t] = blackout[t]] /\ blackout[t] \in BOOLEAN
    BY <1>1 DEF IInv, TypeOK, histories
  <2>2. inflight' = inflight + Worth(InCloud(next)) - Worth(InCloud(call[t]))
    BY <1>1, UnroutedCall DEF InCloud, Worth, IInv, TypeOK
  <2> QED BY <1>1, <1>2, <2>1, <2>2, UnroutedCall, CallReplaced
<1> QED BY <1>1, <1>5, <1>6, <1>7 DEF IInv, TypeOK, histories

LEMMA EndReviewInv == ASSUME IInv, NEW t \in Threads, EndReview(t) PROVE IInv'
<1>1. /\ call[t] \in Unrouted
      /\ call' = [call EXCEPT ![t] = Idle]
      /\ UNCHANGED <<options, active, down, inflight, stats, histories>>
  BY DEF EndReview, Unrouted, IInv, CallsInv, CallOK
<1>2. /\ Idle \in Calls /\ CallOK(Idle) /\ DarkOK(Idle)
      /\ ~ InCloud(Idle) /\ ~ InCloud(call[t])
  BY <1>1, UnroutedCall DEF Unrouted
<1>3. Idle.node = call[t].node /\ Idle.path = call[t].path
  BY <1>1 DEF Unrouted, Idle, Reviewing
<1> QED BY <1>1, <1>2, <1>3, QuietInv

-----------------------------------------------------------------------------
(* The invariant holds. *)

LEMMA InitInv == Init => IInv
<1> SUFFICES ASSUME Init PROVE IInv
  OBVIOUS
<1> USE DEF Init
<1>1. NoStats \in [Counters -> Nat] /\ \A k \in Counters : NoStats[k] = 0
  BY DEF NoStats
<1>2. TypeOK
  BY <1>1, UnroutedCall, FleetAssumption DEF TypeOK, Unrouted
<1>3. CallsInv /\ DarkInv
  BY UnroutedCall DEF CallsInv, DarkInv, Unrouted
<1>4. InflightIsUploads
  <2>1. {t \in Threads : call[t].at \in {"sending", "leaving"}} = {}
    BY UnroutedCall DEF InCloud, Unrouted
  <2> QED BY <2>1, FS_EmptySet DEF InflightIsUploads
<1>5. CallsBooked
  <2> SUFFICES ASSUME NEW n \in Nodes
               PROVE  /\ stats[n].n_infer + Cardinality(Unbooked(n)) = addressed[n]
                      /\ stats[n].n_upload_ok + Cardinality(ReviewedCalls(n)) = reviews[n]
                      /\ stats[n].n_infer = stats[n].n_local + stats[n].n_upload_want
                      /\ stats[n].n_upload_want = stats[n].n_upload_ok + stats[n].n_upload_fail
                      /\ stats[n].n_outage_gate <= stats[n].n_local
    BY DEF CallsBooked, ReviewedCalls
  <2>1. Unbooked(n) = {} /\ ReviewedCalls(n) = {}
    BY FleetAssumption DEF Unbooked, ReviewedCalls, Idle
  <2>2. Cardinality(Unbooked(n)) = 0 /\ Cardinality(ReviewedCalls(n)) = 0
    BY <2>1, FS_EmptySet
  <2>3. stats[n] = NoStats /\ addressed[n] = 0 /\ reviews[n] = 0
    OBVIOUS
  <2> QED BY <1>1, <2>2, <2>3 DEF Counters
<1> QED BY <1>2, <1>3, <1>4, <1>5 DEF IInv

LEMMA StutterInv == ASSUME IInv, UNCHANGED vars PROVE IInv'
<1>1. UNCHANGED <<options, active, down, inflight, stats, call, addressed, reviews, blackout>>
  BY DEF vars, histories
<1>2. TypeOK' /\ CallsInv' /\ InflightIsUploads'
  BY <1>1 DEF IInv, TypeOK, CallsInv, CallOK, InflightIsUploads
<1>3. CallsBooked'
  BY <1>1 DEF IInv, CallsBooked, Unbooked
<1>4. DarkInv'
  BY <1>1 DEF IInv, DarkInv, DarkOK, ModelAlone
<1> QED BY <1>2, <1>3, <1>4 DEF IInv

LEMMA NextInv == IInv /\ [Next]_vars => IInv'
<1> SUFFICES ASSUME IInv, [Next]_vars PROVE IInv'
  OBVIOUS
<1>1. ASSUME NEW n \in Nodes, Cut(n) \/ Rejoin(n) \/ SetActive(n) PROVE IInv'
  BY <1>1, UsersInv
<1>2. ASSUME NEW t \in Threads, Serve(t) PROVE IInv'
  BY <1>2, BeginInv, RulesInv, RouteRaisesInv, AgentInv, AskAgainInv, AnsweredInv, AgentFailsInv, EnterInv,
     SendInv, LeaveInv, BookInv, EndReviewInv
     DEF Serve
<1>3. CASE UNCHANGED vars
  BY <1>3, StutterInv
<1> QED BY <1>1, <1>2, <1>3 DEF Next

\* A thread that was asking its model wants the cloud after a step only if the answer
\* passed the guard.
LEMMA GuardedStep ==
    ASSUME IInv, [Next]_vars, NEW t \in Threads,
           call[t].at = "asking", call'[t].at = "wanted", options.guard, ~ options.snap
    PROVE  PromptAllows(call[t].context)
<1>1. call[t].context \in Context /\ call \in [Threads -> Calls] /\ call[t] \in Calls
  BY DEF IInv, TypeOK, Calls
<1>2. ~ UNCHANGED call
  OBVIOUS
<1>3. PICK u \in Threads : Serve(u)
  BY <1>2 DEF Next, Cut, Rejoin, SetActive, vars
<1>4. u = t
  BY <1>1, <1>3
     DEF Serve, Begin, RouteByRules, RouteByAgent, RouteRaises, AskAgain, Answered,
         AgentFails, Decide, Enter, Goto, SendOk, SendFails, SendRaises, Leave, Book, EndReview
<1>5. PICK answer \in Answers : Answered(t, answer)
  <2>0. ~ AskAgain(t)
    BY <1>1 DEF AskAgain, Calls
  <2>1. ~ AskAgain(t) /\ ~ AgentFails(t)
    BY <1>1, <2>0 DEF AgentFails, Decide
  <2>2. /\ \A named \in Nodes \union {NoNode} : ~ Begin(t, named)
        /\ ~ RouteByRules(t) /\ ~ RouteByAgent(t) /\ ~ Enter(t) /\ ~ SendOk(t)
        /\ ~ SendFails(t) /\ ~ SendRaises(t) /\ ~ Leave(t) /\ ~ Book(t)
        /\ ~ RouteRaises(t) /\ ~ EndReview(t)
    BY DEF Begin, RouteByRules, RouteByAgent, RouteRaises, Enter, SendOk, SendFails, SendRaises,
           Leave, Book, EndReview
  <2> QED BY <1>3, <1>4, <2>1, <2>2 DEF Serve
<1>6. PICK ruled \in RouterVerdicts(call[t].context) :
          Decide(t, call[t].context, "agent", Decided(options, call[t].context, answer, ruled))
  BY <1>5 DEF Answered
<1>7. Decided(options, call[t].context, answer, ruled)
  BY <1>1, <1>6 DEF Decide
<1> QED BY <1>1, <1>7, GuardWithinPrompt DEF Decided

-----------------------------------------------------------------------------
(* Theorems. *)

\* What holds of all calls, counts and histories at any moment.
THEOREM Inductive == Spec => []IInv
BY InitInv, NextInv, PTL DEF Spec

\* Every variable of the fleet and its calls holds values of its type.
THEOREM TypeCorrect == Spec => []TypeOK
<1>1. IInv => TypeOK
  BY DEF IInv
<1> QED BY <1>1, Inductive, PTL

\* The load that decisions are charged for is the number of uploads on their way, without
\* the reviews that follow them.
THEOREM InflightCounted == Spec => []InflightIsUploads
<1>1. IInv => InflightIsUploads
  BY DEF IInv
<1> QED BY <1>1, Inductive, PTL

\* The statistics of each node are those of the calls that were addressed to it.
THEOREM Booked == Spec => []CallsBooked
<1>1. IInv => CallsBooked
  BY DEF IInv
<1> QED BY <1>1, Inductive, PTL

\* A call whose link is cut from beginning to end is not reviewed.
THEOREM OutageGate == Spec => []BlackoutStaysLocal
<1>1. IInv => BlackoutStaysLocal
  BY DEF IInv, DarkInv, DarkOK, BlackoutStaysLocal
<1> QED BY <1>1, Inductive, PTL

\* The guard lets nothing through that the policy in the prompt refuses.
THEOREM GuardSound == Spec => GuardedByPrompt
<1>1. IInv /\ [Next]_vars =>
          [\A t \in Threads :
              /\ call[t].at = "asking" /\ call'[t].at = "wanted"
              /\ options.guard /\ ~ options.snap
              => PromptAllows(call[t].context)]_vars
  BY GuardedStep
<1> QED BY <1>1, Inductive, PTL DEF Spec, GuardedByPrompt
=============================================================================
