-------------------------- MODULE LiveMonitorProofs --------------------------
(***************************************************************************)
(* Proofs about LiveMonitor, for any number of tabs, calls, nodes, loops   *)
(* and ticks.  The types and the balance of the counters are inductive     *)
(* together: only the actions that record an inspection, count a tick or   *)
(* reset the counters touch _stats.                                        *)
(***************************************************************************)
EXTENDS LiveMonitor, TLAPS

IInv == TypeOK /\ StatsAddUp

-----------------------------------------------------------------------------
(* The parts of a tick. *)

\* A tick that begins takes the list of all nodes.
LEMMA BeginTickKeeps ==
    ASSUME IInv, NEW t \in Tickers, BeginTick(t)
    PROVE  left' \in [Tickers -> 0..Nodes] /\ begun' \in 0..MaxTicks
<1>1. begun' \in 0..MaxTicks
  BY MonitorAssumption DEF BeginTick, IInv, TypeOK
<1>2. Nodes \in 0..Nodes
  BY MonitorAssumption
<1> QED
  BY <1>1, <1>2 DEF BeginTick, IInv, TypeOK

\* A recorded inspection adds to exactly one side of each balance.
LEMMA CountedBalances ==
    ASSUME NEW s \in [{"ticks", "local", "want", "cloud", "fallback"} -> Nat],
           NEW route \in Routes
    PROVE  /\ Counted(s, route) \in [{"ticks", "local", "want", "cloud", "fallback"} -> Nat]
           /\ Counted(s, route).local + Counted(s, route).want = s.local + s.want + 1
           /\ Counted(s, route).cloud + Counted(s, route).fallback - Counted(s, route).want
                = s.cloud + s.fallback - s.want
<1> DEFINE c == Counted(s, route)
<1>1. /\ s.ticks \in Nat
      /\ s.local \in Nat
      /\ s.want \in Nat
      /\ s.cloud \in Nat
      /\ s.fallback \in Nat
  OBVIOUS
<1>2. /\ c.ticks = s.ticks
      /\ c.local = s.local + (IF route = "LOCAL" THEN 1 ELSE 0)
      /\ c.want = s.want + (IF route = "LOCAL" THEN 0 ELSE 1)
      /\ c.cloud = s.cloud + (IF route = "CLOUD_REVIEW" THEN 1 ELSE 0)
      /\ c.fallback = s.fallback + (IF route = "LOCAL_NET_FALLBACK" THEN 1 ELSE 0)
      /\ DOMAIN c = {"ticks", "local", "want", "cloud", "fallback"}
      /\ c = [k \in DOMAIN c |-> c[k]]
  BY DEF Counted
<1>3. c \in [{"ticks", "local", "want", "cloud", "fallback"} -> Nat]
  <2>1. \A k \in {"ticks", "local", "want", "cloud", "fallback"} : c[k] \in Nat
    BY <1>1, <1>2
  <2> HIDE DEF c
  <2> QED BY <1>2, <2>1
<1>4. route \in {"LOCAL", "CLOUD_REVIEW", "LOCAL_NET_FALLBACK"}
  BY DEF Routes
<1> HIDE DEF c
<1>5. c.local + c.want = s.local + s.want + 1
  BY <1>1, <1>2
<1>6. c.cloud + c.fallback - c.want = s.cloud + s.fallback - s.want
  <2>1. CASE route = "LOCAL"
    BY <1>1, <1>2, <2>1
  <2>2. CASE route = "CLOUD_REVIEW"
    BY <1>1, <1>2, <2>2
  <2>3. CASE route = "LOCAL_NET_FALLBACK"
    BY <1>1, <1>2, <2>3
  <2> QED BY <1>4, <2>1, <2>2, <2>3
<1> QED
  BY <1>3, <1>5, <1>6 DEF c

\* The inspection of a node, recorded or not, keeps the types and the balance.
LEMMA InspectKeeps ==
    ASSUME IInv, NEW t \in Tickers, Inspect(t)
    PROVE  /\ left' \in [Tickers -> 0..Nodes]
           /\ stats' \in [{"ticks", "local", "want", "cloud", "fallback"} -> Nat]
           /\ recorded' \in Nat
           /\ begun' = begun
           /\ StatsAddUp'
<1>1. ASSUME left[t] > 0, left' = [left EXCEPT ![t] = @ - 1]
      PROVE  left' \in [Tickers -> 0..Nodes]
  <2>1. left[t] - 1 \in 0..Nodes
    BY <1>1, MonitorAssumption DEF IInv, TypeOK
  <2> QED BY <1>1, <2>1 DEF IInv, TypeOK
<1>2. CASE RecordNothing(t)
  BY <1>1, <1>2 DEF RecordNothing, IInv, TypeOK, StatsAddUp
<1>3. ASSUME NEW route \in Routes, Record(t, route)
      PROVE  /\ left' \in [Tickers -> 0..Nodes]
             /\ stats' \in [{"ticks", "local", "want", "cloud", "fallback"} -> Nat]
             /\ recorded' \in Nat
             /\ begun' = begun
             /\ StatsAddUp'
  <2>1. left' \in [Tickers -> 0..Nodes] /\ begun' = begun
    BY <1>1, <1>3 DEF Record
  <2>2. stats' = Counted(stats, route) /\ recorded' = recorded + 1
    BY <1>3 DEF Record
  <2>3. /\ stats \in [{"ticks", "local", "want", "cloud", "fallback"} -> Nat]
        /\ recorded \in Nat
        /\ stats.local + stats.want = recorded
        /\ stats.cloud + stats.fallback = stats.want
    BY DEF IInv, TypeOK, StatsAddUp
  <2>4. /\ stats' \in [{"ticks", "local", "want", "cloud", "fallback"} -> Nat]
        /\ stats'.local + stats'.want = stats.local + stats.want + 1
        /\ stats'.cloud + stats'.fallback - stats'.want
             = stats.cloud + stats.fallback - stats.want
    BY <2>2, <2>3, CountedBalances
  <2>5. stats'.cloud \in Nat /\ stats'.fallback \in Nat /\ stats'.want \in Nat
    BY <2>4
  <2>6. stats.cloud \in Nat /\ stats.fallback \in Nat /\ stats.want \in Nat
    BY <2>3
  <2>7. stats'.local + stats'.want = recorded'
    BY <2>2, <2>3, <2>4
  <2>8. stats'.cloud + stats'.fallback = stats'.want
    <3>1. stats'.cloud + stats'.fallback - stats'.want
            = stats.cloud + stats.fallback - stats.want
      BY <2>4
    <3>2. stats.cloud + stats.fallback = stats.want
      BY <2>3
    <3> QED BY <2>5, <2>6, <3>1, <3>2
  <2> QED BY <2>1, <2>2, <2>3, <2>4, <2>7, <2>8 DEF StatsAddUp
<1> QED
  BY <1>2, <1>3 DEF Inspect

\* The end of a tick counts the tick and nothing else.
LEMMA CountTickKeeps ==
    ASSUME IInv, NEW t \in Tickers, CountTick(t)
    PROVE  /\ stats' \in [{"ticks", "local", "want", "cloud", "fallback"} -> Nat]
           /\ UNCHANGED <<left, recorded, begun>>
           /\ StatsAddUp'
<1>1. stats' = [stats EXCEPT !.ticks = stats.ticks + 1]
  BY DEF CountTick
<1>2. stats' \in [{"ticks", "local", "want", "cloud", "fallback"} -> Nat]
  BY <1>1 DEF IInv, TypeOK
<1>3. /\ stats'.local = stats.local /\ stats'.want = stats.want
      /\ stats'.cloud = stats.cloud /\ stats'.fallback = stats.fallback
  BY <1>1 DEF IInv, TypeOK
<1> QED
  BY <1>2, <1>3 DEF CountTick, IInv, StatsAddUp

-----------------------------------------------------------------------------
(* The steps. *)

LEMMA LoopKeeps ==
    ASSUME IInv, NEW l \in Loops, Loop(l)
    PROVE  IInv'
<1> USE DEF IInv
<1>0. l \in Tickers
  BY DEF Tickers
<1>1. CASE LoopTick(l)
  BY <1>0, <1>1, BeginTickKeeps DEF LoopTick, TypeOK, StatsAddUp, monitor, console
<1>2. CASE LoopInspect(l)
  <2>1. /\ left' \in [Tickers -> 0..Nodes]
        /\ stats' \in [{"ticks", "local", "want", "cloud", "fallback"} -> Nat]
        /\ recorded' \in Nat
        /\ begun' = begun
        /\ StatsAddUp'
    BY <1>0, <1>2, InspectKeeps DEF LoopInspect
  <2> QED BY <1>2, <2>1 DEF LoopInspect, TypeOK, monitor, console
<1>3. CASE LoopTicked(l)
  <2>1. /\ stats' \in [{"ticks", "local", "want", "cloud", "fallback"} -> Nat]
        /\ UNCHANGED <<left, recorded, begun>>
        /\ StatsAddUp'
    BY <1>0, <1>3, CountTickKeeps DEF LoopTicked
  <2> QED BY <1>3, <2>1 DEF LoopTicked, TypeOK, monitor, console
<1>4. CASE LoopTickFails(l)
  BY <1>0, <1>4, MonitorAssumption DEF LoopTickFails, TypeOK, StatsAddUp, monitor, console
<1>5. CASE LoopStops(l)
  BY <1>5 DEF LoopStops, TypeOK, StatsAddUp, monitor, console
<1>6. CASE LoopLeaves(l)
  BY <1>6 DEF LoopLeaves, TypeOK, StatsAddUp, console
<1> QED
  BY <1>1, <1>2, <1>3, <1>4, <1>5, <1>6 DEF Loop

LEMMA TabKeeps ==
    ASSUME IInv, NEW c \in Calls,
           (\E u \in Tabs : Click(c, u) \/ Poll(c, u)) \/ TickNow(c) \/ Shows(c)
    PROVE  IInv'
<1> USE DEF IInv
<1>0. c \in Tickers
  BY DEF Tickers
<1>1. ASSUME NEW sender \in Tabs \union {NoOne},
             NEW place \in {"starting", "halting", "ticking", "answering"},
             Request(c, sender, place)
      PROVE  /\ call' \in [Calls -> Places]
             /\ from' \in [Calls -> Tabs \union {NoOne}]
             /\ UNCHANGED <<joining, told, shown>>
  BY <1>1 DEF Request, Goto, TypeOK, Places
<1>2. ASSUME NEW u \in Tabs, Click(c, u) PROVE IInv'
  <2>1. Request(c, u, "halting") \/ Request(c, u, "starting")
    BY <1>2 DEF Click
  <2> QED BY <1>1, <1>2, <2>1 DEF Click, TypeOK, StatsAddUp, monitor
<1>3. ASSUME NEW u \in Tabs, Poll(c, u) PROVE IInv'
  BY <1>1, <1>3 DEF Poll, TypeOK, StatsAddUp, monitor
<1>4. CASE TickNow(c)
  <2>1. left' \in [Tickers -> 0..Nodes] /\ begun' \in 0..MaxTicks
    BY <1>0, <1>4, BeginTickKeeps DEF TickNow
  <2> QED BY <1>1, <1>4, <2>1 DEF TickNow, TypeOK, StatsAddUp, monitor
<1>5. CASE Shows(c)
  <2>1. shown' \in [Tabs -> BOOLEAN] /\ told' \in [Calls -> BOOLEAN]
    BY <1>5 DEF Shows, TypeOK
  <2>2. call' \in [Calls -> Places] /\ from' \in [Calls -> Tabs \union {NoOne}]
    BY <1>5 DEF Shows, Goto, TypeOK, Places
  <2> QED BY <1>5, <2>1, <2>2 DEF Shows, TypeOK, StatsAddUp, monitor
<1> QED
  BY <1>2, <1>3, <1>4, <1>5

LEMMA ServeKeeps ==
    ASSUME IInv, NEW c \in Calls, Serve(c)
    PROVE  IInv'
<1> USE DEF IInv
<1>0. c \in Tickers
  BY DEF Tickers
<1>1. CASE Start(c)
  <2>1. stats' = ZeroStats /\ recorded' = 0
    BY <1>1 DEF Start, FreshStats
  <2>2. stats' \in [{"ticks", "local", "want", "cloud", "fallback"} -> Nat] /\ StatsAddUp'
    BY <2>1 DEF ZeroStats, StatsAddUp
  <2>3. thread' \in 0..MaxStarts
    BY <1>1, MonitorAssumption DEF Start, TypeOK
  <2>4. loop' \in [Loops -> {"off", "check", "tick", "leaving", "done"}]
    BY <1>1 DEF Start, TypeOK
  <2>5. call' \in [Calls -> Places]
    BY <1>1 DEF Start, Goto, TypeOK, Places
  <2>6. /\ UNCHANGED <<lock, from, joining, told, shown, left, begun>>
        /\ stop' = FALSE /\ running' = TRUE
    BY <1>1 DEF Start
  <2>7. recorded' \in Nat
    BY <2>1
  <2> QED BY <2>2, <2>3, <2>4, <2>5, <2>6, <2>7 DEF TypeOK
<1>2. CASE StartRunning(c)
  BY <1>2 DEF StartRunning, Goto, TypeOK, Places, StatsAddUp
<1>3. CASE StopSets(c)
  BY <1>3 DEF StopSets, Goto, TypeOK, Places, StatsAddUp
<1>4. CASE StopReads(c)
  BY <1>4 DEF StopReads, Goto, TypeOK, Places, StatsAddUp, monitor
<1>5. CASE StopJoins(c)
  <2>1. 0 \in 0..MaxStarts
    BY MonitorAssumption
  <2> QED BY <1>5, <2>1 DEF StopJoins, Goto, TypeOK, Places, StatsAddUp, monitor
<1>6. CASE StopClears(c)
  BY <1>6 DEF StopClears, Goto, TypeOK, Places, StatsAddUp
<1>7. CASE TickNowInspect(c)
  <2>1. /\ left' \in [Tickers -> 0..Nodes]
        /\ stats' \in [{"ticks", "local", "want", "cloud", "fallback"} -> Nat]
        /\ recorded' \in Nat
        /\ begun' = begun
        /\ StatsAddUp'
    BY <1>0, <1>7, InspectKeeps DEF TickNowInspect
  <2> QED BY <1>7, <2>1 DEF TickNowInspect, TypeOK, monitor, console
<1>8. CASE TickNowDone(c)
  <2>1. /\ stats' \in [{"ticks", "local", "want", "cloud", "fallback"} -> Nat]
        /\ UNCHANGED <<left, recorded, begun>>
        /\ StatsAddUp'
    BY <1>0, <1>8, CountTickKeeps DEF TickNowDone
  <2> QED BY <1>8, <2>1 DEF TickNowDone, Goto, TypeOK, Places, monitor
<1>9. CASE TickNowRaises(c)
  BY <1>0, <1>9, MonitorAssumption
     DEF TickNowRaises, Goto, TypeOK, Places, StatsAddUp, monitor
<1>10. CASE Answer(c)
  BY <1>10 DEF Answer, Goto, TypeOK, Places, StatsAddUp, monitor
<1> QED
  BY <1>1, <1>2, <1>3, <1>4, <1>5, <1>6, <1>7, <1>8, <1>9, <1>10 DEF Serve

-----------------------------------------------------------------------------
(* The theorems. *)

\* Types and balance hold at first and are kept by every step.
THEOREM Inductive == Spec => []IInv
<1>1. Init => IInv
  <2> SUFFICES ASSUME Init PROVE IInv
    OBVIOUS
  <2>1. stats \in [{"ticks", "local", "want", "cloud", "fallback"} -> Nat] /\ recorded \in Nat
    BY DEF Init, ZeroStats
  <2>2. StatsAddUp
    BY DEF Init, ZeroStats, StatsAddUp
  <2>3. 0 \in 0..MaxStarts /\ 0 \in 0..MaxTicks /\ 0 \in 0..Nodes
    BY MonitorAssumption
  <2>4. lock \in Calls \union {NoOne} /\ stop \in BOOLEAN /\ running \in BOOLEAN
    BY DEF Init
  <2>5. /\ loop \in [Loops -> {"off", "check", "tick", "leaving", "done"}]
        /\ call \in [Calls -> Places]
        /\ from \in [Calls -> Tabs \union {NoOne}]
        /\ told \in [Calls -> BOOLEAN]
        /\ shown \in [Tabs -> BOOLEAN]
    BY DEF Init, Places
  <2>6. /\ thread \in 0..MaxStarts
        /\ joining \in [Calls -> 0..MaxStarts]
        /\ left \in [Tickers -> 0..Nodes]
        /\ begun \in 0..MaxTicks
    BY <2>3 DEF Init
  <2> QED BY <2>1, <2>2, <2>4, <2>5, <2>6 DEF IInv, TypeOK
<1>2. IInv /\ [Next]_vars => IInv'
  <2> SUFFICES ASSUME IInv, [Next]_vars PROVE IInv'
    OBVIOUS
  <2>1. CASE UNCHANGED vars
    BY <2>1 DEF vars, monitor, console, IInv, TypeOK, StatsAddUp
  <2>2. CASE Next
    BY <2>2, LoopKeeps, TabKeeps, ServeKeeps DEF Next
  <2> QED BY <2>1, <2>2
<1> QED
  BY <1>1, <1>2, PTL DEF Spec

\* The variables of the monitor keep their types.
THEOREM TypeCorrect == Spec => []TypeOK
BY Inductive, PTL DEF IInv

\* The counters of the console add up, whoever ticks, starts and polls at once.
THEOREM StatsCorrect == Spec => []StatsAddUp
BY Inductive, PTL DEF IInv
=============================================================================
