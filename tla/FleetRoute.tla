----------------------------- MODULE FleetRoute -----------------------------
(***************************************************************************)
(* The shared fleet of the web console and the calls that route an image:  *)
(* web/services/demo_service.py, fleet_service.py, api/network.py and      *)
(* api/fleet.py under src/web, and src/src/edge_fleet.py.                  *)
(*                                                                         *)
(* Demo calls, the live monitor and its ticks all run run_demo, in threads *)
(* of their own.  A call takes _net_lock several times and gives it up in  *)
(* between: it picks its node, reads the link and the load of the cloud,   *)
(* decides (the language model may take seconds), counts itself in, tries  *)
(* the upload, counts itself out, and books the path.  Only then, if the   *)
(* caller asked for it, does the cloud review the image.  Meanwhile users  *)
(* cut and restore links and switch the active node.                       *)
(*                                                                         *)
(* The link is that of the physical network, the configured mode: a link   *)
(* is down when a user cut it (force_outage); that it may also fail by     *)
(* itself at any moment is left open at every look at it.                  *)
(***************************************************************************)
EXTENDS RouteAgent, FiniteSets, FiniteSetsExt

CONSTANTS Threads,       \* threads that serve calls
          Nodes,         \* edge nodes of the fleet
          NoNode,        \* a call that names no node
          Configs,       \* options of the route agent the console may be started with
          MaxInflight,   \* cloud_admission.max_inflight
          ParseRetry,    \* route_agent.parse_retry
          MaxCalls       \* bound: calls the nodes get, without those that raised

ASSUME FleetAssumption ==
    /\ IsFiniteSet(Threads) /\ IsFiniteSet(Nodes)
    /\ NoNode \notin Nodes
    /\ Configs \subseteq Options
    /\ MaxInflight \in Nat \ {0}
    /\ ParseRetry \in Nat
    /\ MaxCalls \in Nat

VARIABLES
    options,    \* the options it was started with
    active,     \* active_id of the fleet
    down,       \* force_outage of the link of each node
    inflight,   \* inflight of cloud_state
    stats,      \* stats of each node
    call,       \* the call each thread serves
    addressed,  \* history: calls for each node, without those that raised
    reviews,    \* history: uploads of each node that got through
    blackout    \* history: the link was cut when the call began, and still is

histories == <<addressed, reviews, blackout>>
vars == <<options, active, down, inflight, stats, call, histories>>

-----------------------------------------------------------------------------
(* Data. *)

\* The routes of a call that is over; an upload that raises has none.
Paths == {"LOCAL", "CLOUD_REVIEW", "LOCAL_NET_FALLBACK"}

Profiles == {"geo", "outage"}

Counters == {"n_infer", "n_local", "n_upload_want", "n_upload_ok", "n_upload_fail",
             "n_outage_gate"}

NoStats == [k \in Counters |-> 0]

NoContext == [uncertainty |-> "low", tier |-> "good", pressure |-> "low", cold |-> FALSE]

\* The local variables of a call that decide something.
Calls == [at : {"idle", "begun", "asking", "wanted", "sending", "leaving", "done",
               "reviewing"},
          node : Nodes \union {NoNode}, profile : Profiles, context : Context,
          tries : 0..(ParseRetry + 1), by : {"nobody", "router", "agent"},
          path : Paths \union {"none", "raised"}]

Idle == [at |-> "idle", node |-> NoNode, profile |-> "geo", context |-> NoContext,
         tries |-> 0, by |-> "nobody", path |-> "none"]

\* The image is reviewed by the cloud; what the route was is not used any more.
Reviewing == [Idle EXCEPT !.at = "reviewing"]

Init ==
    /\ options \in Configs
    /\ active \in Nodes
    /\ down = [n \in Nodes |-> FALSE]
    /\ inflight = 0
    /\ stats = [n \in Nodes |-> NoStats]
    /\ call = [t \in Threads |-> Idle]
    /\ addressed = [n \in Nodes |-> 0]
    /\ reviews = [n \in Nodes |-> 0]
    /\ blackout = [t \in Threads |-> FALSE]

-----------------------------------------------------------------------------
(* Users of the console. *)

\* disconnect, and set_profile with "outage".
Cut(n) ==
    /\ down' = [down EXCEPT ![n] = TRUE]
    /\ UNCHANGED <<options, active, inflight, stats, call, histories>>

\* restore, and set_profile with any other name.
Rejoin(n) ==
    /\ down' = [down EXCEPT ![n] = FALSE]
    /\ blackout' = [t \in Threads |-> blackout[t] /\ call[t].node # n]
    /\ UNCHANGED <<options, active, inflight, stats, call, addressed, reviews>>

SetActive(n) ==
    /\ active' = n
    /\ UNCHANGED <<options, down, inflight, stats, call, histories>>

-----------------------------------------------------------------------------
(* A call of run_demo. *)

Goto(t, place) == call' = [call EXCEPT ![t].at = place]

CallsAddressed == MapThenSumSet(LAMBDA n : addressed[n], Nodes)

\* The node is looked up; one that the caller names becomes the active one.
Begin(t, named) ==
    LET n == IF named = NoNode THEN active ELSE named
    IN  /\ call[t].at = "idle"
        /\ CallsAddressed < MaxCalls
        /\ active' = n
        /\ addressed' = [addressed EXCEPT ![n] = @ + 1]
        /\ blackout' = [blackout EXCEPT ![t] = down[n]]
        /\ call' = [call EXCEPT ![t].at = "begun", ![t].node = n]
        /\ UNCHANGED <<options, down, inflight, stats, reviews>>

\* What the link of a node can look like now.
TiersNow(n) == IF down[n] THEN {"outage"} ELSE Tiers

\* The contexts a call for node n can read now.  n_gallery_default is never 0.
ContextsNow(n) ==
    {c \in Context : /\ c.tier \in TiersNow(n)
                     /\ c.pressure = CloudPressure(inflight, MaxInflight)
                     /\ ~ c.cold}

Profile(c) == IF c.tier = "outage" THEN "outage" ELSE "geo"

\* The router of collab_routing stays local at an outage; its utilities are in CloudLoad.
RouterVerdicts(c) == IF c.tier = "outage" THEN {FALSE} ELSE BOOLEAN

\* The call t has read c and decided; the context is not used any more.
Decide(t, c, by, upload) ==
    call' = [call EXCEPT ![t] = [at      |-> IF upload THEN "wanted" ELSE "done",
                                 node    |-> @.node,
                                 profile |-> Profile(c),
                                 context |-> NoContext,
                                 tries   |-> 0,
                                 by      |-> by,
                                 path    |-> IF upload THEN "none" ELSE "LOCAL"]]

\* The decision raises before anything is counted: no row of the edge detector for
\* the image, say.  The call with it.
RouteRaises(t) ==
    /\ call[t].at = "begun"
    /\ addressed' = [addressed EXCEPT ![call[t].node] = @ - 1]
    /\ call' = [call EXCEPT ![t] = Idle]
    /\ UNCHANGED <<options, active, down, inflight, stats, reviews, blackout>>

\* Faulty variant of RouteByRules: the link that is read is the active node's.
RouteByRulesOfActive(t) ==
    /\ call[t].at = "begun"
    /\ \E c \in ContextsNow(active) :
          \E upload \in RouterVerdicts(c) : Decide(t, c, "router", upload)
    /\ UNCHANGED <<options, active, down, inflight, stats, histories>>

\* Link and load are read and the router decides: use_agent is off, the cascade
\* skips the model, or the model fails, which means to stay local.
RouteByRules(t) ==
    /\ call[t].at = "begun"
    /\ \E c \in ContextsNow(call[t].node) :
          \E upload \in RouterVerdicts(c) : Decide(t, c, "router", upload)
    /\ UNCHANGED <<options, active, down, inflight, stats, histories>>

\* Link and load are read and the model is to decide, unless an outage blocks it.
RouteByAgent(t) ==
    /\ call[t].at = "begun"
    /\ \E c \in ContextsNow(call[t].node) :
          /\ Consulted(options, c)
          /\ IF options.block /\ Profile(c) = "outage"
             THEN Decide(t, c, "agent", FALSE)
             ELSE call' = [call EXCEPT ![t].at = "asking", ![t].context = c, ![t].tries = 1]
    /\ UNCHANGED <<options, active, down, inflight, stats, histories>>

\* Faulty variant of AskAgain: one attempt too many.
AskAgainOnceMore(t) ==
    /\ call[t].at = "asking"
    /\ call[t].tries <= ParseRetry + 1
    /\ call' = [call EXCEPT ![t].tries = @ + 1]
    /\ UNCHANGED <<options, active, down, inflight, stats, histories>>

\* The answer cannot be parsed and there are attempts left.
AskAgain(t) ==
    /\ call[t].at = "asking"
    /\ call[t].tries <= ParseRetry
    /\ call' = [call EXCEPT ![t].tries = @ + 1]
    /\ UNCHANGED <<options, active, down, inflight, stats, histories>>

\* An answer that is final: it was parsed, or it was the last attempt.
Answered(t, answer) ==
    LET c == call[t].context
    IN  /\ call[t].at = "asking"
        /\ Parsed(answer) \/ call[t].tries > ParseRetry
        /\ \E ruled \in RouterVerdicts(c) :
              Decide(t, c, "agent", Decided(options, c, answer, ruled))
        /\ UNCHANGED <<options, active, down, inflight, stats, histories>>

\* The model raises.
AgentFails(t) ==
    /\ call[t].at = "asking"
    /\ Decide(t, call[t].context, "agent", FALSE)
    /\ UNCHANGED <<options, active, down, inflight, stats, histories>>

Enter(t) ==
    /\ call[t].at = "wanted"
    /\ inflight' = inflight + 1
    /\ Goto(t, "sending")
    /\ UNCHANGED <<options, active, down, stats, histories>>

\* The upload asks the shared network what the link is like now, whichever
\* simulator the call took when it read the link.
SendOk(t) ==
    LET n == call[t].node
    IN  /\ call[t].at = "sending"
        /\ ~ down[n]
        /\ reviews' = [reviews EXCEPT ![n] = @ + 1]
        /\ call' = [call EXCEPT ![t].at = "leaving", ![t].path = "CLOUD_REVIEW"]
        /\ UNCHANGED <<options, active, down, inflight, stats, addressed, blackout>>

\* Loss, timeout or outage.
SendFails(t) ==
    /\ call[t].at = "sending"
    /\ call' = [call EXCEPT ![t].at = "leaving", ![t].path = "LOCAL_NET_FALLBACK"]
    /\ UNCHANGED <<options, active, down, inflight, stats, histories>>

\* Faulty variant of SendRaises: no finally.
SendRaisesOut(t) ==
    /\ call[t].at = "sending"
    /\ addressed' = [addressed EXCEPT ![call[t].node] = @ - 1]
    /\ call' = [call EXCEPT ![t] = Idle]
    /\ UNCHANGED <<options, active, down, inflight, stats, reviews, blackout>>

\* An exception takes the finally clause with it, and then the call.
SendRaises(t) ==
    /\ call[t].at = "sending"
    /\ addressed' = [addressed EXCEPT ![call[t].node] = @ - 1]
    /\ call' = [call EXCEPT ![t].at = "leaving", ![t].path = "raised"]
    /\ UNCHANGED <<options, active, down, inflight, stats, reviews, blackout>>

Leave(t) ==
    /\ call[t].at = "leaving"
    /\ inflight' = IF inflight > 0 THEN inflight - 1 ELSE 0
    /\ IF call[t].path = "raised"
       THEN call' = [call EXCEPT ![t] = Idle]
       ELSE Goto(t, "done")
    /\ UNCHANGED <<options, active, down, stats, histories>>

\* EdgeNodeStats.record_path.
RecordPath(s, path, profile) ==
    LET add(b) == IF b THEN 1 ELSE 0
    IN  [n_infer       |-> s.n_infer + 1,
         n_local       |-> s.n_local + add(path = "LOCAL"),
         n_upload_want |-> s.n_upload_want + add(path # "LOCAL"),
         n_upload_ok   |-> s.n_upload_ok + add(path = "CLOUD_REVIEW"),
         n_upload_fail |-> s.n_upload_fail + add(path = "LOCAL_NET_FALLBACK"),
         n_outage_gate |-> s.n_outage_gate + add(profile = "outage" /\ path = "LOCAL")]

\* What a call goes on with: an image that got through is reviewed if the caller
\* wants it (live_cloud).
AfterBooking(path) == IF path = "CLOUD_REVIEW" THEN {Idle, Reviewing} ELSE {Idle}

\* Faulty variant of Book: the node to book on is looked up again.
BookOnActive(t) ==
    /\ call[t].at = "done"
    /\ stats' = [stats EXCEPT ![active] = RecordPath(@, call[t].path, call[t].profile)]
    /\ \E next \in AfterBooking(call[t].path) : call' = [call EXCEPT ![t] = next]
    /\ UNCHANGED <<options, active, down, inflight, histories>>

Book(t) ==
    /\ call[t].at = "done"
    /\ stats' = [stats EXCEPT ![call[t].node] = RecordPath(@, call[t].path, call[t].profile)]
    /\ \E next \in AfterBooking(call[t].path) : call' = [call EXCEPT ![t] = next]
    /\ UNCHANGED <<options, active, down, inflight, histories>>

\* The review returns or raises; the load of the cloud is not touched.
EndReview(t) ==
    /\ call[t].at = "reviewing"
    /\ call' = [call EXCEPT ![t] = Idle]
    /\ UNCHANGED <<options, active, down, inflight, stats, histories>>

Serve(t) ==
    \/ \E named \in Nodes \union {NoNode} : Begin(t, named)
    \/ RouteByRules(t) \/ RouteByAgent(t) \/ RouteRaises(t)
    \/ AskAgain(t) \/ (\E answer \in Answers : Answered(t, answer)) \/ AgentFails(t)
    \/ Enter(t)
    \/ SendOk(t) \/ SendFails(t) \/ SendRaises(t)
    \/ Leave(t)
    \/ Book(t) \/ EndReview(t)

Next ==
    \/ \E n \in Nodes : Cut(n) \/ Rejoin(n) \/ SetActive(n)
    \/ \E t \in Threads : Serve(t)

Spec == Init /\ [][Next]_vars

-----------------------------------------------------------------------------
(* Properties. *)

\* Every variable holds values of its type.
TypeOK ==
    /\ options \in Options
    /\ active \in Nodes
    /\ down \in [Nodes -> BOOLEAN]
    /\ inflight \in Nat
    /\ stats \in [Nodes -> [Counters -> Nat]]
    /\ call \in [Threads -> Calls]
    /\ addressed \in [Nodes -> Nat]
    /\ reviews \in [Nodes -> Nat]
    /\ blackout \in [Threads -> BOOLEAN]

\* What the counter the decisions are charged for counts, which is less than its
\* class promises ("cloud reviewer occupancy", FleetCloudState): the uploads on their
\* way, each once, given back also by one that raises, and none of the reviews, which
\* begin when their upload has been counted out.
InflightIsUploads ==
    inflight = Cardinality({t \in Threads : call[t].at \in {"sending", "leaving"}})

\* The calls of node n that have a result still to be booked, or will have one.
Unbooked(n) == {t \in Threads : call[t].node = n /\ call[t].path # "raised"}

\* The statistics of a node are those of the calls that were addressed to it,
\* although the active node may change between the steps of a call: each call is
\* counted once and as one path, and each upload that got through as a review.
CallsBooked ==
    \A n \in Nodes :
        /\ stats[n].n_infer + Cardinality(Unbooked(n)) = addressed[n]
        /\ stats[n].n_upload_ok + Cardinality({t \in Unbooked(n) : call[t].path = "CLOUD_REVIEW"})
               = reviews[n]
        /\ stats[n].n_infer = stats[n].n_local + stats[n].n_upload_want
        /\ stats[n].n_upload_want = stats[n].n_upload_ok + stats[n].n_upload_fail
        /\ stats[n].n_outage_gate <= stats[n].n_local

\* The options leave the last word on an outage to the model.
ModelAlone == ~ options.guard /\ ~ options.snap /\ ~ options.block

\* The outage gate of the README: a call whose link is cut from beginning to end
\* is not reviewed, and does not even occupy the cloud unless the model alone
\* decided, whoever switches nodes and links around it.
BlackoutStaysLocal ==
    \A t \in Threads : blackout[t] =>
        /\ call[t].path # "CLOUD_REVIEW"
        /\ call[t].at \in {"wanted", "sending", "leaving"} =>
               call[t].by = "agent" /\ ModelAlone

\* The guard of the agent takes its rules from the prompt: what it lets through,
\* after any number of attempts, the policy in the prompt allows as well, for the
\* link and the load the call has read.
GuardedByPrompt ==
    [][\A t \in Threads :
          /\ call[t].at = "asking" /\ call'[t].at = "wanted"
          /\ options.guard /\ ~ options.snap
          => PromptAllows(call[t].context)]_vars
=============================================================================
