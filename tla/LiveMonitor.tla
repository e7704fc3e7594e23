----------------------------- MODULE LiveMonitor -----------------------------
(***************************************************************************)
(* The live monitor of the web console: web/services/live_service.py, the  *)
(* endpoints of web/api/fleet.py that call it, and the start/stop button   *)
(* and the polls of web/static/app.js.                                     *)
(*                                                                         *)
(* start() creates a thread that runs ticks (one inspection per edge node) *)
(* until the event _stop is set; stop() sets the event and joins the       *)
(* thread for 3 s at most, although a tick with the route agent can take   *)
(* longer.  _lock is a threading.Lock: its holder cannot take it again.    *)
(* A section under the lock is one action; only start() ever waits while   *)
(* it holds the lock.                                                      *)
(*                                                                         *)
(* A tab shows the last answer that reached it, and its button stops a     *)
(* monitor that it shows as running and starts one that it does not.  The  *)
(* button stays enabled while a call is under way, and polls go on beside  *)
(* it: a tab may have several calls, and their answers come in any order.  *)
(*                                                                         *)
(* Abstracted: the event log and the last event per node (written in the   *)
(* sections that update _stats), the options of start(), what run_demo     *)
(* does (an outcome of it is all that is seen here).                       *)
(***************************************************************************)
EXTENDS Naturals, FiniteSets

CONSTANTS Tabs,        \* browser tabs with the console open
          Calls,       \* bound: calls of the API that are under way at once
          NoOne,       \* nobody holds the lock, no tab waits for the answer
          Nodes,       \* number of edge nodes in the fleet
          MaxStarts,   \* bound: starts that are asked for, unless the monitor runs
          MaxTicks     \* bound: ticks that are begun

ASSUME MonitorAssumption ==
    /\ NoOne \notin Tabs /\ NoOne \notin Calls
    /\ IsFiniteSet(Calls)
    /\ Nodes \in Nat \ {0}
    /\ MaxStarts \in Nat
    /\ MaxTicks \in Nat

Loops == 1..MaxStarts

VARIABLES
    lock,       \* the call that waits for _lock while holding it, or NoOne
    stop,       \* _stop is set
    running,    \* _running
    thread,     \* _thread: the loop that was started last, or 0
    loop,       \* where each loop is
    call,       \* where each call of the API is
    from,       \* the tab it comes from
    joining,    \* stop()'s local t
    told,       \* what its answer says of _running
    shown,      \* state.live.running of app.js, in each tab
    left,       \* nodes left in the tick of a loop or of tick_now()
    stats,      \* _stats
    recorded,   \* history: successful inspections recorded since the last start
    begun       \* history: ticks begun

monitor == <<lock, stop, running, thread>>
console == <<call, from, joining, told, shown>>
vars == <<monitor, loop, console, left, stats, recorded, begun>>

\* A loop and a tick_now() call run ticks in the same way.
Tickers == Loops \union Calls

ZeroStats == [ticks |-> 0, local |-> 0, want |-> 0, cloud |-> 0, fallback |-> 0]

\* The routes run_demo returns; an upload that is wanted succeeds or falls back.
Routes == {"LOCAL", "CLOUD_REVIEW", "LOCAL_NET_FALLBACK"}

Alive(l) == loop[l] \in {"check", "tick", "leaving"}

Unlocked == lock = NoOne

\* Where a call may be.
Places == {"idle", "starting", "locked_out", "halting", "stopping", "joining", "joined",
           "ticking", "answering", "answered"}

Init ==
    /\ lock = NoOne
    /\ stop = FALSE
    /\ running = FALSE
    /\ thread = 0
    /\ loop = [l \in Loops |-> "off"]
    /\ call = [c \in Calls |-> "idle"]
    /\ from = [c \in Calls |-> NoOne]
    /\ joining = [c \in Calls |-> 0]
    /\ told = [c \in Calls |-> FALSE]
    /\ shown = [u \in Tabs |-> FALSE]
    /\ left = [t \in Tickers |-> 0]
    /\ stats = ZeroStats
    /\ recorded = 0
    /\ begun = 0

-----------------------------------------------------------------------------
(* A tick: _tick_once, by a loop or by tick_now(). *)

BeginTick(t) ==
    /\ begun < MaxTicks
    /\ begun' = begun + 1
    /\ left' = [left EXCEPT ![t] = Nodes]

\* What the result of one inspection adds to _stats.
Counted(s, route) ==
    [s EXCEPT !.local = s.local + (IF route = "LOCAL" THEN 1 ELSE 0),
              !.want = s.want + (IF route = "LOCAL" THEN 0 ELSE 1),
              !.cloud = s.cloud + (IF route = "CLOUD_REVIEW" THEN 1 ELSE 0),
              !.fallback = s.fallback + (IF route = "LOCAL_NET_FALLBACK" THEN 1 ELSE 0)]

\* Faulty variant of Record: the end of the list of nodes is missed.
RecordBeyondLast(t, route) ==
    /\ Unlocked
    /\ left' = [left EXCEPT ![t] = @ - 1]
    /\ stats' = Counted(stats, route)
    /\ recorded' = recorded + 1
    /\ UNCHANGED begun

\* The next node was inspected; event and counters are written under the lock.
Record(t, route) ==
    /\ left[t] > 0
    /\ Unlocked
    /\ left' = [left EXCEPT ![t] = @ - 1]
    /\ stats' = Counted(stats, route)
    /\ recorded' = recorded + 1
    /\ UNCHANGED begun

\* The next node has no image, or run_demo raised: an event at most.
RecordNothing(t) ==
    /\ left[t] > 0
    /\ Unlocked
    /\ left' = [left EXCEPT ![t] = @ - 1]
    /\ UNCHANGED <<stats, recorded, begun>>

Inspect(t) == RecordNothing(t) \/ \E route \in Routes : Record(t, route)

\* All nodes are done.
CountTick(t) ==
    /\ left[t] = 0
    /\ Unlocked
    /\ stats' = [stats EXCEPT !.ticks = @ + 1]
    /\ UNCHANGED <<left, recorded, begun>>

-----------------------------------------------------------------------------
(* The loop thread: _loop. *)

LoopTick(l) ==
    /\ loop[l] = "check"
    /\ ~ stop
    /\ BeginTick(l)
    /\ loop' = [loop EXCEPT ![l] = "tick"]
    /\ UNCHANGED <<monitor, console, stats, recorded>>

LoopInspect(l) ==
    /\ loop[l] = "tick"
    /\ Inspect(l)
    /\ UNCHANGED <<monitor, console, loop>>

\* The tick ends, and the wait for the interval or the event.
LoopTicked(l) ==
    /\ loop[l] = "tick"
    /\ CountTick(l)
    /\ loop' = [loop EXCEPT ![l] = "check"]
    /\ UNCHANGED <<monitor, console>>

\* A tick that raises outside the handler of one node (no image list, an event that
\* cannot be built) is not counted; the loop logs it under the lock and goes on.
LoopTickFails(l) ==
    /\ loop[l] = "tick"
    /\ left[l] > 0
    /\ Unlocked
    /\ left' = [left EXCEPT ![l] = 0]
    /\ loop' = [loop EXCEPT ![l] = "check"]
    /\ UNCHANGED <<monitor, console, stats, recorded, begun>>

\* Faulty variant of LoopStops: only the loop that _thread names obeys the event.
LoopStopsIfCurrent(l) ==
    /\ loop[l] = "check"
    /\ stop
    /\ thread = l
    /\ loop' = [loop EXCEPT ![l] = "leaving"]
    /\ UNCHANGED <<monitor, console, left, stats, recorded, begun>>

LoopStops(l) ==
    /\ loop[l] = "check"
    /\ stop
    /\ loop' = [loop EXCEPT ![l] = "leaving"]
    /\ UNCHANGED <<monitor, console, left, stats, recorded, begun>>

LoopLeaves(l) ==
    /\ loop[l] = "leaving"
    /\ Unlocked
    /\ running' = FALSE
    /\ loop' = [loop EXCEPT ![l] = "done"]
    /\ UNCHANGED <<lock, stop, thread, console, left, stats, recorded, begun>>

Loop(l) ==
    \/ LoopTick(l) \/ LoopInspect(l) \/ LoopTicked(l) \/ LoopTickFails(l)
    \/ LoopStops(l) \/ LoopLeaves(l)

-----------------------------------------------------------------------------
(* Tabs make calls and show their answers. *)

Goto(c, place) == call' = [call EXCEPT ![c] = place]

Request(c, sender, place) ==
    /\ call[c] = "idle"
    /\ from' = [from EXCEPT ![c] = sender]
    /\ Goto(c, place)
    /\ UNCHANGED <<joining, told, shown>>

\* Starts that may still create a loop.
Pending == Cardinality({c \in Calls : call[c] = "starting"})

\* toggleLive(), with whatever calls of the tab are under way.
Click(c, u) ==
    /\ IF shown[u]
       THEN Request(c, u, "halting")
       ELSE /\ running \/ thread + Pending < MaxStarts
            /\ Request(c, u, "starting")
    /\ UNCHANGED <<monitor, loop, left, stats, recorded, begun>>

\* pollLive(), from time to time.
Poll(c, u) ==
    /\ Request(c, u, "answering")
    /\ UNCHANGED <<monitor, loop, left, stats, recorded, begun>>

\* tick_now(), which no tab calls, and which is never told to stop.
TickNow(c) ==
    /\ BeginTick(c)
    /\ Request(c, NoOne, "ticking")
    /\ UNCHANGED <<monitor, loop, stats, recorded>>

\* The answer reaches its tab, whatever answers came in between.
Shows(c) ==
    /\ call[c] = "answered"
    /\ shown' = [u \in Tabs |-> IF u = from[c] THEN told[c] ELSE shown[u]]
    /\ from' = [from EXCEPT ![c] = NoOne]
    /\ told' = [told EXCEPT ![c] = FALSE]
    /\ Goto(c, "idle")
    /\ UNCHANGED <<monitor, loop, joining, left, stats, recorded, begun>>

-----------------------------------------------------------------------------
(* The calls on the server. *)

\* Faulty variant of FreshStats: one counter is left out of the update.
FreshStatsButFallback == [ZeroStats EXCEPT !.fallback = stats.fallback]

\* What start() writes into _stats.
FreshStats == ZeroStats

\* start() of a monitor that is not running.
Start(c) ==
    /\ call[c] = "starting"
    /\ Unlocked
    /\ ~ running
    /\ thread < MaxStarts
    /\ stats' = FreshStats
    /\ recorded' = 0
    /\ stop' = FALSE
    /\ running' = TRUE
    /\ thread' = thread + 1
    /\ loop' = [loop EXCEPT ![thread'] = "check"]
    /\ Goto(c, "answering")
    /\ UNCHANGED <<lock, from, joining, told, shown, left, begun>>

\* start() of a running monitor calls status() inside its with block, and
\* status() takes the lock start() holds.
StartRunning(c) ==
    /\ call[c] = "starting"
    /\ Unlocked
    /\ running
    /\ lock' = c
    /\ Goto(c, "locked_out")
    /\ UNCHANGED <<stop, running, thread, loop, from, joining, told, shown, left, stats,
                   recorded, begun>>

\* stop() sets the event without the lock ...
StopSets(c) ==
    /\ call[c] = "halting"
    /\ stop' = TRUE
    /\ Goto(c, "stopping")
    /\ UNCHANGED <<lock, running, thread, loop, from, joining, told, shown, left, stats,
                   recorded, begun>>

\* ... then reads _thread ...
StopReads(c) ==
    /\ call[c] = "stopping"
    /\ IF thread # 0 /\ Alive(thread)
       THEN joining' = [joining EXCEPT ![c] = thread] /\ Goto(c, "joining")
       ELSE UNCHANGED joining /\ Goto(c, "joined")
    /\ UNCHANGED <<monitor, loop, from, told, shown, left, stats, recorded, begun>>

\* Faulty variant of StopJoins: join() has no timeout.
StopJoinsForever(c) ==
    /\ call[c] = "joining"
    /\ ~ Alive(joining[c])
    /\ joining' = [joining EXCEPT ![c] = 0]
    /\ Goto(c, "joined")
    /\ UNCHANGED <<monitor, loop, from, told, shown, left, stats, recorded, begun>>

\* ... and waits until the thread ends or 3 s have passed, which is at any time.
StopJoins(c) ==
    /\ call[c] = "joining"
    /\ joining' = [joining EXCEPT ![c] = 0]
    /\ Goto(c, "joined")
    /\ UNCHANGED <<monitor, loop, from, told, shown, left, stats, recorded, begun>>

StopClears(c) ==
    /\ call[c] = "joined"
    /\ Unlocked
    /\ running' = FALSE
    /\ Goto(c, "answering")
    /\ UNCHANGED <<lock, stop, thread, loop, from, joining, told, shown, left, stats,
                   recorded, begun>>

TickNowInspect(c) ==
    /\ call[c] = "ticking"
    /\ Inspect(c)
    /\ UNCHANGED <<monitor, loop, console>>

TickNowDone(c) ==
    /\ call[c] = "ticking"
    /\ CountTick(c)
    /\ Goto(c, "answering")
    /\ UNCHANGED <<monitor, loop, from, joining, told, shown>>

\* A tick that raises ends the call with an error.
TickNowRaises(c) ==
    /\ call[c] = "ticking"
    /\ left[c] > 0
    /\ left' = [left EXCEPT ![c] = 0]
    /\ Goto(c, "idle")
    /\ UNCHANGED <<monitor, loop, from, joining, told, shown, stats, recorded, begun>>

\* Every call ends with status().
Answer(c) ==
    /\ call[c] = "answering"
    /\ Unlocked
    /\ told' = [told EXCEPT ![c] = running]
    /\ Goto(c, "answered")
    /\ UNCHANGED <<monitor, loop, from, joining, shown, left, stats, recorded, begun>>

Serve(c) ==
    \/ Start(c) \/ StartRunning(c)
    \/ StopSets(c) \/ StopReads(c) \/ StopJoins(c) \/ StopClears(c)
    \/ TickNowInspect(c) \/ TickNowDone(c) \/ TickNowRaises(c)
    \/ Answer(c)

-----------------------------------------------------------------------------

Next ==
    \/ \E l \in Loops : Loop(l)
    \/ \E c \in Calls, u \in Tabs : Click(c, u) \/ Poll(c, u)
    \/ \E c \in Calls : TickNow(c) \/ Serve(c) \/ Shows(c)

(***************************************************************************)
(* Threads are scheduled, inspections and joins end, and a lock that is    *)
(* free is given to a thread that asks for it; answers arrive.  Nobody has *)
(* to click.                                                               *)
(***************************************************************************)
Fairness ==
    /\ \A l \in Loops : WF_vars(Loop(l))
    /\ \A c \in Calls : WF_vars(Serve(c)) /\ WF_vars(Shows(c))

Spec == Init /\ [][Next]_vars /\ Fairness

-----------------------------------------------------------------------------
(* Properties. *)

\* Every variable holds values of its type.
TypeOK ==
    /\ lock \in Calls \union {NoOne}
    /\ stop \in BOOLEAN
    /\ running \in BOOLEAN
    /\ thread \in 0..MaxStarts
    /\ loop \in [Loops -> {"off", "check", "tick", "leaving", "done"}]
    /\ call \in [Calls -> Places]
    /\ from \in [Calls -> Tabs \union {NoOne}]
    /\ joining \in [Calls -> 0..MaxStarts]
    /\ told \in [Calls -> BOOLEAN]
    /\ shown \in [Tabs -> BOOLEAN]
    /\ left \in [Tickers -> 0..Nodes]
    /\ stats \in [{"ticks", "local", "want", "cloud", "fallback"} -> Nat]
    /\ recorded \in Nat
    /\ begun \in 0..MaxTicks

\* The counters the console shows add up at every moment it can read them, with
\* loops that overlap, tick_now() calls beside them and resets by start(): each
\* inspection is local or wanted the cloud, and each wish was met or fell back.
StatsAddUp ==
    /\ stats.local + stats.want = recorded
    /\ stats.cloud + stats.fallback = stats.want

\* Once the event stays set, every loop that was ever started ends, also one
\* that stop() did not wait for, and unless a start() has locked everybody out.
LoopsEnd ==
    <>[](stop /\ Unlocked) => <>[](\A l \in Loops : ~ Alive(l))

\* A stop call returns whatever the loop it joins does, and even when it joins
\* a loop that another call's start() created after the event was set.
StopReturns ==
    \A c \in Calls : (call[c] = "stopping") ~> (call[c] = "idle" \/ ~ Unlocked)

\* "Every 3.5 s each of the three nodes runs one image" (the status line of
\* app.js): one loop at a time inspects.
OneLoopTicks == Cardinality({l \in Loops : loop[l] = "tick"}) <= 1

\* The monitor streams its events to the console (the module's docstring): every
\* call of the API is answered.
CallsAnswered == \A c \in Calls : (call[c] # "idle") ~> (call[c] = "idle")

=============================================================================
