--------------------------- MODULE CloudLoadProofs ---------------------------
(***************************************************************************)
(* Proofs about CloudLoad for any number of servers, any service and       *)
(* network times, any signals and any number of samples.  The inductive    *)
(* invariant says more about the queue than the properties the runs check: *)
(* the waiting requests are the last ones submitted, in order, so the ones *)
(* promoted are new to the servers and are counted one by one.  The last   *)
(* section is about when requests start.                                   *)
(***************************************************************************)
EXTENDS CloudLoad, FiniteSetTheorems, SequenceTheorems, TLAPS

\* The waiting requests are the last ones submitted, in order, and those in
\* service were submitted before them.
Ordered(s) ==
    /\ \A i \in 1..queue(s) : s.waiting[i] = s.n_submitted - queue(s) + i
    /\ InService(s) \subseteq 1..(s.n_submitted - queue(s))

Counted(s) ==
    /\ s.n_submitted = s.n_completed + load(s)
    /\ queue(s) <= s.max_queue_seen
    /\ s.max_queue_seen <= s.n_queued
    /\ s.n_queued <= s.n_submitted

Busy(s) ==
    /\ inflight(s) <= MaxInflight
    /\ s.waiting # <<>> => inflight(s) = MaxInflight

Sound(s) == IsSim(s) /\ Ordered(s) /\ Counted(s) /\ Busy(s)

\* While an upload is under way, the load has not moved since the router read it.
UploadWanted == at = "uploading" => Uploads(signal, load(sim))

IInv ==
    /\ Sound(sim)
    /\ sim_clock \in Nat
    /\ at \in {"edge", "routing", "uploading"}
    /\ signal \in Signals
    /\ seen \in 0..Samples
    /\ UploadWanted

-----------------------------------------------------------------------------
(* The simulator. *)

\* The servers and the queue in numbers.
LEMMA Sizes ==
    ASSUME NEW s, IsSim(s)
    PROVE  /\ IsFiniteSet(InService(s))
           /\ inflight(s) \in Nat
           /\ queue(s) \in Nat
           /\ load(s) = inflight(s) + queue(s)
           /\ s.waiting # <<>> <=> queue(s) > 0
<1>1. s.n_submitted \in Nat /\ InService(s) \subseteq 1..s.n_submitted
  BY DEF IsSim
<1>2. IsFiniteSet(1..s.n_submitted)
  BY <1>1, FS_Interval
<1>3. IsFiniteSet(InService(s))
  BY <1>1, <1>2, FS_Subset
<1>4. inflight(s) \in Nat
  BY <1>3, FS_CardinalityType DEF inflight
<1>5. s.waiting \in Seq(1..s.n_submitted)
  BY DEF IsSim
<1>6. queue(s) \in Nat /\ (s.waiting # <<>> <=> queue(s) > 0)
  BY <1>5, LenProperties, EmptySeq DEF queue
<1> QED
  BY <1>3, <1>4, <1>6 DEF load

\* What advance does to the servers and the queue, in numbers.
LEMMA MovedSizes ==
    ASSUME NEW s, Sound(s), NEW now \in Nat
    PROVE  /\ Promotions(s, now) \in 0..queue(s)
           /\ Cardinality(Unfinished(s, now)) \in 0..inflight(s)
           /\ Unfinished(s, now) \subseteq InService(s)
           /\ Promoted(s, now) = (s.n_submitted - queue(s) + 1)
                                     ..(s.n_submitted - queue(s) + Promotions(s, now))
           /\ IsFiniteSet(Unfinished(s, now) \union Promoted(s, now))
           /\ Cardinality(Unfinished(s, now) \union Promoted(s, now))
                  = Cardinality(Unfinished(s, now)) + Promotions(s, now)
<1> DEFINE k == Promotions(s, now)
           kept == Unfinished(s, now)
           base == s.n_submitted - queue(s)
<1>0. /\ IsFiniteSet(InService(s)) /\ inflight(s) \in Nat /\ queue(s) \in Nat
      /\ s.n_submitted \in Nat
  BY Sizes DEF Sound, IsSim
<1>1. kept \subseteq InService(s)
  BY DEF Unfinished
<1>2. IsFiniteSet(kept) /\ Cardinality(kept) \in 0..inflight(s)
  <2>1. IsFiniteSet(kept) /\ Cardinality(kept) <= inflight(s)
    BY <1>0, <1>1, FS_Subset DEF inflight
  <2>2. Cardinality(kept) \in Nat
    BY <2>1, FS_CardinalityType
  <2> QED
    BY <1>0, <2>1, <2>2
<1>3. k \in 0..queue(s)
  <2>1. inflight(s) <= MaxInflight /\ MaxInflight \in Nat
    BY CloudAssumption DEF Sound, Busy
  <2> QED
    BY <1>0, <1>2, <2>1 DEF Promotions, Least
<1>4. Promoted(s, now) = (base + 1)..(base + k)
  <2>1. \A i \in 1..k : s.waiting[i] = base + i
    BY <1>0, <1>3 DEF Sound, Ordered
  <2>2. Promoted(s, now) = {base + i : i \in 1..k}
    BY <2>1 DEF Promoted
  <2>3. base \in Int /\ k \in Nat
    BY <1>0, <1>3
  <2>4. \A j \in (base + 1)..(base + k) : j - base \in 1..k /\ j = base + (j - base)
    BY <2>3
  <2> HIDE DEF base, k
  <2>5. {base + i : i \in 1..k} = (base + 1)..(base + k)
    BY <2>3, <2>4
  <2> QED
    BY <2>2, <2>5
<1>5. IsFiniteSet(Promoted(s, now)) /\ Cardinality(Promoted(s, now)) = k
  <2>1. base \in Int /\ k \in Nat
    BY <1>0, <1>3
  <2> HIDE DEF base, k
  <2>2. base + 1 \in Int /\ base + k \in Int
    BY <2>1
  <2>3. /\ IsFiniteSet((base + 1)..(base + k))
        /\ Cardinality((base + 1)..(base + k))
               = IF base + 1 > base + k THEN 0 ELSE (base + k) - (base + 1) + 1
    BY <2>2, FS_Interval
  <2>4. (IF base + 1 > base + k THEN 0 ELSE (base + k) - (base + 1) + 1) = k
    BY <2>1
  <2> QED
    BY <1>4, <2>3, <2>4
<1>6. kept \intersect Promoted(s, now) = {}
  BY <1>0, <1>1, <1>4 DEF Sound, Ordered
<1>7. /\ IsFiniteSet(kept \union Promoted(s, now))
      /\ Cardinality(kept \union Promoted(s, now)) = Cardinality(kept) + k
  <2>1. Cardinality(kept \intersect Promoted(s, now)) = 0
    BY <1>6, FS_EmptySet
  <2>2. Cardinality(kept) \in Nat /\ k \in Nat
    BY <1>0, <1>2, <1>3
  <2> DEFINE new == Promoted(s, now)
  <2>3. IsFiniteSet(new) /\ Cardinality(new) = k /\ Cardinality(kept \intersect new) = 0
    BY <1>5, <2>1
  <2> HIDE DEF kept, new, k
  <2>4. /\ IsFiniteSet(kept \union new)
        /\ Cardinality(kept \union new)
               = Cardinality(kept) + Cardinality(new) - Cardinality(kept \intersect new)
    BY <1>2, <2>3, FS_Union
  <2>5. Cardinality(kept \union new) = Cardinality(kept) + k
    BY <2>2, <2>3, <2>4
  <2> QED
    BY <2>4, <2>5 DEF new
<1> QED
  BY <1>1, <1>2, <1>3, <1>4, <1>7

\* What advance leaves in the queue.
LEMMA MovedQueue ==
    ASSUME NEW s, Sound(s), NEW now \in Nat
    PROVE  /\ Moved(s, now).waiting \in Seq(1..s.n_submitted)
           /\ queue(Moved(s, now)) = queue(s) - Promotions(s, now)
           /\ \A i \in 1..queue(Moved(s, now)) :
                  Moved(s, now).waiting[i] = s.n_submitted - queue(Moved(s, now)) + i
<1> DEFINE k == Promotions(s, now)
           q == queue(s)
           left == SubSeq(s.waiting, k + 1, q)
<1>1. Moved(s, now).waiting = left
  BY DEF Moved
<1>2. q \in Nat /\ k \in 0..q /\ s.n_submitted \in Nat
  BY Sizes, MovedSizes DEF Sound, IsSim
<1>3. \A i \in (k + 1)..q : s.waiting[i] \in 1..s.n_submitted
  <2>1. s.waiting \in Seq(1..s.n_submitted)
    BY DEF Sound, IsSim
  <2>2. \A i \in 1..Len(s.waiting) : s.waiting[i] \in 1..s.n_submitted
    BY <2>1, ElementOfSeq
  <2>3. (k + 1)..q \subseteq 1..Len(s.waiting)
    <3> HIDE DEF k
    <3> QED
      BY <1>2 DEF queue
  <2> QED
    BY <2>2, <2>3
<1>4. /\ left \in Seq(1..s.n_submitted)
      /\ Len(left) = IF k + 1 <= q THEN q - (k + 1) + 1 ELSE 0
      /\ \A i \in 1..(q - (k + 1) + 1) : left[i] = s.waiting[(k + 1) + i - 1]
  <2> k + 1 \in Int /\ q \in Int
    BY <1>2
  <2> HIDE DEF k, q
  <2> QED
    BY <1>3, SubSeqProperties
<1>5. Len(left) = q - k
  BY <1>2, <1>4
<1>6. \A i \in 1..(q - k) : left[i] = s.n_submitted - (q - k) + i
  <2> SUFFICES ASSUME NEW i \in 1..(q - k) PROVE left[i] = s.n_submitted - (q - k) + i
    OBVIOUS
  <2>1. left[i] = s.waiting[k + i]
    BY <1>2, <1>4
  <2>2. k + i \in 1..q
    BY <1>2
  <2>3. s.waiting[k + i] = s.n_submitted - q + (k + i)
    BY <2>2 DEF Sound, Ordered
  <2> QED
    BY <1>2, <2>1, <2>3
<1> QED
  BY <1>1, <1>4, <1>5, <1>6 DEF queue

\* advance keeps the simulator sound.
LEMMA MovedSound ==
    ASSUME NEW s, Sound(s), NEW now \in Nat
    PROVE  Sound(Moved(s, now))
<1> DEFINE m == Moved(s, now)
           k == Promotions(s, now)
           kept == Unfinished(s, now)
           base == s.n_submitted - queue(s)
<1>0. /\ inflight(s) \in Nat /\ queue(s) \in Nat /\ load(s) = inflight(s) + queue(s)
      /\ s.n_submitted \in Nat /\ s.n_completed \in Nat /\ s.n_queued \in Nat
      /\ s.max_queue_seen \in Nat
      /\ s.waiting # <<>> <=> queue(s) > 0
      /\ MaxInflight \in Nat /\ ServiceMs \in Nat
  BY Sizes, CloudAssumption DEF Sound, IsSim
<1>1. k \in 0..queue(s) /\ Cardinality(kept) \in 0..inflight(s)
  BY MovedSizes
<1>2. InService(m) = kept \union Promoted(s, now)
  BY DEF Moved, Serving, InService
<1>3. inflight(m) = Cardinality(kept) + k
  BY <1>2, MovedSizes DEF inflight
<1>4. queue(m) = queue(s) - k /\ queue(m) \in Nat
  <2>1. queue(m) = queue(s) - k
    BY MovedQueue
  <2> HIDE DEF m, k
  <2> QED
    BY <1>0, <1>1, <2>1
<1>5. /\ m.n_submitted = s.n_submitted
      /\ m.n_completed = s.n_completed + inflight(s) - Cardinality(kept)
      /\ m.n_queued = s.n_queued
      /\ m.max_queue_seen = Greatest(s.max_queue_seen, queue(m))
      /\ m.clock = now
      /\ m.busy_until = Serving(s, kept, Promoted(s, now), now)
  BY DEF Moved, queue
<1>6. InService(m) \subseteq 1..(base + k)
  <2>1. kept \subseteq 1..base
    BY MovedSizes DEF Sound, Ordered
  <2>2. Promoted(s, now) = (base + 1)..(base + k)
    BY MovedSizes
  <2>3. base \in Int /\ k \in Nat /\ base >= 0
    BY <1>0, <1>1 DEF Sound, Counted
  <2> HIDE DEF base, k, kept
  <2> QED
    BY <1>2, <2>1, <2>2, <2>3
<1> HIDE DEF m, kept, k
<1>7. IsSim(m)
  <2>1. InService(m) \subseteq 1..m.n_submitted
    <3>1. base + k <= s.n_submitted /\ base + k \in Int
      BY <1>0, <1>1
    <3> HIDE DEF base
    <3> QED
      BY <1>0, <1>5, <1>6, <3>1
  <2>2. m.busy_until \in [InService(m) -> Nat]
    <3>1. \A j \in kept : s.busy_until[j] \in Nat
      BY DEF Sound, IsSim, Unfinished, kept
    <3> QED
      BY <1>0, <1>2, <1>5, <3>1 DEF Serving
  <2>3. m.waiting \in Seq(1..m.n_submitted)
    BY <1>5, MovedQueue DEF m
  <2>4. m.n_completed \in Nat
    BY <1>0, <1>1, <1>5
  <2>5. m.max_queue_seen \in Nat
    BY <1>0, <1>4, <1>5 DEF Greatest
  <2> QED
    BY <1>0, <1>5, <2>1, <2>2, <2>3, <2>4, <2>5 DEF IsSim
<1>8. Ordered(m)
  <2>1. InService(m) \subseteq 1..(m.n_submitted - queue(m))
    BY <1>0, <1>1, <1>4, <1>5, <1>6
  <2>2. \A i \in 1..queue(m) : m.waiting[i] = m.n_submitted - queue(m) + i
    BY <1>5, MovedQueue DEF m
  <2> QED
    BY <2>1, <2>2 DEF Ordered
<1>9. Counted(m)
  <2>1. load(m) = Cardinality(kept) + k + (queue(s) - k)
    BY <1>3, <1>4 DEF load
  <2>2. Counted(s)
    BY DEF Sound
  <2>3. m.n_submitted = m.n_completed + load(m)
    BY <1>0, <1>1, <1>5, <2>1, <2>2 DEF Counted
  <2>4. queue(m) <= queue(s)
    BY <1>0, <1>1, <1>4
  <2>5. /\ queue(m) <= m.max_queue_seen
        /\ m.max_queue_seen <= m.n_queued
        /\ m.n_queued <= m.n_submitted
    BY <1>0, <1>4, <1>5, <2>2, <2>4 DEF Counted, Greatest
  <2> QED
    BY <2>3, <2>5 DEF Counted
<1>10. Busy(m)
  <2>1. k = Least(queue(s), MaxInflight - Cardinality(kept))
    BY DEF Promotions, k, kept
  <2>2. m.waiting # <<>> <=> queue(m) > 0
    BY <1>7, Sizes
  <2> QED
    BY <1>0, <1>1, <1>3, <1>4, <2>1, <2>2 DEF Sound, Busy, Least
<1> QED
  BY <1>7, <1>8, <1>9, <1>10 DEF Sound, m

\* So does a request that finds a free server, when none waits.
LEMMA StartedSound ==
    ASSUME NEW s, Sound(s), NEW now \in Nat, inflight(s) < MaxInflight
    PROVE  Sound(Started(s, now)) /\ queue(Started(s, now)) = queue(s)
<1> DEFINE m == Started(s, now)
           n == s.n_submitted + 1
<1>0. /\ inflight(s) \in Nat /\ queue(s) \in Nat /\ load(s) = inflight(s) + queue(s)
      /\ s.n_submitted \in Nat /\ s.n_completed \in Nat /\ s.n_queued \in Nat
      /\ s.max_queue_seen \in Nat
      /\ s.waiting # <<>> <=> queue(s) > 0
      /\ MaxInflight \in Nat /\ ServiceMs \in Nat
      /\ IsFiniteSet(InService(s))
      /\ InService(s) \subseteq 1..s.n_submitted
  BY Sizes, CloudAssumption DEF Sound, IsSim
<1>1. queue(s) = 0 /\ s.waiting = <<>>
  BY <1>0 DEF Sound, Busy
<1>2. InService(m) = InService(s) \union {n}
  BY DEF Started, Serving, InService
<1>3. inflight(m) = inflight(s) + 1
  <2>1. n \notin InService(s)
    BY <1>0
  <2>2. Cardinality(InService(s) \union {n}) = Cardinality(InService(s)) + 1
    BY <1>0, <2>1, FS_AddElement
  <2> QED
    BY <1>2, <2>2 DEF inflight
<1>4. m.waiting = s.waiting /\ queue(m) = 0
  BY <1>1 DEF Started, queue
<1>5. /\ m.n_submitted = n /\ m.n_completed = s.n_completed /\ m.n_queued = s.n_queued
      /\ m.max_queue_seen = s.max_queue_seen /\ m.clock = s.clock
      /\ m.busy_until = Serving(s, InService(s), {n}, now)
  BY DEF Started
<1>6. IsSim(m)
  <2>1. m.busy_until \in [InService(m) -> Nat]
    <3>1. \A j \in InService(s) : s.busy_until[j] \in Nat
      BY DEF Sound, IsSim
    <3> QED
      BY <1>0, <1>2, <1>5, <3>1 DEF Serving
  <2>2. InService(m) \subseteq 1..m.n_submitted
    BY <1>0, <1>2, <1>5
  <2>3. m.waiting \in Seq(1..m.n_submitted)
    BY <1>1, <1>4, EmptySeq
  <2>4. s.clock \in Nat /\ n \in Nat
    BY <1>0 DEF Sound, IsSim
  <2> HIDE DEF m, n
  <2> QED
    BY <1>0, <1>5, <2>1, <2>2, <2>3, <2>4 DEF IsSim
<1>7. Ordered(m)
  BY <1>0, <1>2, <1>4, <1>5 DEF Ordered
<1>8. Counted(m) /\ Busy(m)
  <2>1. load(m) = inflight(s) + 1
    BY <1>0, <1>3, <1>4 DEF load
  <2> HIDE DEF m
  <2> QED
    BY <1>0, <1>1, <1>3, <1>4, <1>5, <2>1 DEF Sound, Counted, Busy
<1> QED
  BY <1>1, <1>4, <1>6, <1>7, <1>8 DEF Sound

\* And one that joins the queue, when no server is free.
LEMMA QueuedSound ==
    ASSUME NEW s, Sound(s), inflight(s) >= MaxInflight
    PROVE  Sound(Queued(s)) /\ queue(Queued(s)) = queue(s) + 1
<1> DEFINE m == Queued(s)
           n == s.n_submitted + 1
<1>0. /\ inflight(s) \in Nat /\ queue(s) \in Nat /\ load(s) = inflight(s) + queue(s)
      /\ s.n_submitted \in Nat /\ s.n_completed \in Nat /\ s.n_queued \in Nat
      /\ s.max_queue_seen \in Nat
      /\ MaxInflight \in Nat
      /\ InService(s) \subseteq 1..s.n_submitted
  BY Sizes, CloudAssumption DEF Sound, IsSim
<1>1. /\ m.n_submitted = n /\ m.n_completed = s.n_completed
      /\ m.n_queued = s.n_queued + 1
      /\ m.max_queue_seen = Greatest(s.max_queue_seen, queue(s) + 1)
      /\ m.clock = s.clock /\ m.busy_until = s.busy_until
      /\ m.waiting = Append(s.waiting, n)
  BY DEF Queued
<1>2. InService(m) = InService(s) /\ inflight(m) = inflight(s)
  BY <1>1 DEF InService, inflight
<1>3. s.waiting \in Seq(1..n) /\ n \in 1..n
  <2>1. s.waiting \in Seq(1..s.n_submitted) /\ 1..s.n_submitted \subseteq 1..n
    BY <1>0 DEF Sound, IsSim
  <2> QED
    BY <1>0, <2>1, SeqMonotonic
<1>4. /\ m.waiting \in Seq(1..n)
      /\ queue(m) = queue(s) + 1
      /\ \A i \in 1..queue(s) : m.waiting[i] = s.waiting[i]
      /\ m.waiting[queue(s) + 1] = n
  <2> HIDE DEF n
  <2> QED
    BY <1>1, <1>3, AppendProperties DEF queue
<1> HIDE DEF m
<1>5. IsSim(m)
  <2>1. s.clock \in Nat /\ s.busy_until \in [InService(s) -> Nat]
    BY DEF Sound, IsSim
  <2>2. m.max_queue_seen \in Nat
    <3>1. \A a, b \in Nat : Greatest(a, b) \in Nat
      BY DEF Greatest
    <3>2. queue(s) + 1 \in Nat
      BY <1>0
    <3> QED
      BY <1>0, <1>1, <3>1, <3>2
  <2>3. InService(m) \subseteq 1..m.n_submitted
    <3>1. /\ InService(m) = InService(s) /\ InService(s) \subseteq 1..s.n_submitted
          /\ s.n_submitted \in Nat /\ m.n_submitted = s.n_submitted + 1
      BY <1>0, <1>1, <1>2
    <3> QED
      BY <3>1
  <2>4. m.busy_until \in [InService(m) -> Nat] /\ m.waiting \in Seq(1..m.n_submitted)
    <3>1. m.busy_until = s.busy_until /\ InService(m) = InService(s) /\ m.n_submitted = n
      BY <1>1, <1>2
    <3> HIDE DEF n
    <3>2. m.waiting \in Seq(1..n)
      BY <1>4
    <3> QED
      BY <2>1, <3>1, <3>2
  <2>5. m.n_submitted \in Nat /\ m.n_queued \in Nat
    BY <1>0, <1>1
  <2> HIDE DEF n
  <2> QED
    BY <1>0, <1>1, <2>1, <2>2, <2>3, <2>4, <2>5 DEF IsSim
<1>6. Ordered(m)
  <2>0. m.n_submitted - queue(m) = s.n_submitted - queue(s)
    <3>1. /\ m.n_submitted = s.n_submitted + 1 /\ queue(m) = queue(s) + 1
          /\ s.n_submitted \in Nat /\ queue(s) \in Nat
      BY <1>0, <1>1, <1>4
    <3> QED
      BY <3>1
  <2>1. \A i \in 1..queue(m) : m.waiting[i] = m.n_submitted - queue(m) + i
    <3> SUFFICES ASSUME NEW i \in 1..queue(m)
                 PROVE  m.waiting[i] = m.n_submitted - queue(m) + i
      OBVIOUS
    <3>1. CASE i = queue(s) + 1
      <4>1. m.waiting[i] = n
        BY <1>4, <3>1
      <4>2. m.n_submitted - queue(m) + i = n
        BY <1>0, <1>1, <1>4, <3>1
      <4> QED
        BY <4>1, <4>2
    <3>2. CASE i \in 1..queue(s)
      <4>1. m.waiting[i] = s.n_submitted - queue(s) + i
        BY <1>4, <3>2 DEF Sound, Ordered
      <4>2. m.n_submitted - queue(m) + i = s.n_submitted - queue(s) + i
        BY <2>0
      <4> QED
        BY <4>1, <4>2
    <3> QED
      BY <1>0, <1>4, <3>1, <3>2
  <2> QED
    BY <1>2, <2>0, <2>1 DEF Sound, Ordered
<1>7. Counted(m) /\ Busy(m)
  <2>1. load(m) = load(s) + 1
    BY <1>0, <1>2, <1>4 DEF load
  <2>2. Counted(s) /\ Busy(s)
    BY DEF Sound
  <2>3. m.n_submitted = m.n_completed + load(m)
    <3>1. /\ m.n_submitted = s.n_submitted + 1 /\ m.n_completed = s.n_completed
          /\ s.n_submitted = s.n_completed + load(s)
          /\ s.n_completed \in Nat /\ load(s) \in Nat
      BY <1>0, <1>1, <2>2 DEF Counted
    <3> QED
      BY <2>1, <3>1
  <2>4. queue(m) <= m.max_queue_seen /\ m.max_queue_seen <= m.n_queued
    <3>1. /\ queue(m) = queue(s) + 1
          /\ m.max_queue_seen = Greatest(s.max_queue_seen, queue(s) + 1)
          /\ m.n_queued = s.n_queued + 1
          /\ queue(s) <= s.max_queue_seen /\ s.max_queue_seen <= s.n_queued
          /\ queue(s) \in Nat /\ s.max_queue_seen \in Nat /\ s.n_queued \in Nat
      BY <1>0, <1>1, <1>4, <2>2 DEF Counted
    <3> QED
      BY <3>1 DEF Greatest
  <2>5. m.n_queued <= m.n_submitted
    BY <1>0, <1>1, <2>2 DEF Counted
  <2>6. Busy(m)
    BY <1>0, <1>2, <2>2 DEF Busy
  <2> QED
    BY <2>3, <2>4, <2>5, <2>6 DEF Counted
<1> QED
  BY <1>4, <1>5, <1>6, <1>7 DEF Sound, m

LEMMA AdvancedSound ==
    ASSUME NEW s, Sound(s), NEW now \in Nat
    PROVE  Sound(Advanced(s, now))
  BY MovedSound DEF Advanced

LEMMA SubmittedSound ==
    ASSUME NEW s, Sound(s), NEW now \in Nat
    PROVE  Sound(Submitted(s, now))
<1> DEFINE t == Advanced(s, now)
<1>1. Sound(t)
  BY AdvancedSound
<1>2. inflight(t) \in Nat /\ MaxInflight \in Nat
  BY <1>1, Sizes, CloudAssumption DEF Sound
<1>3. Submitted(s, now) = IF inflight(t) < MaxInflight THEN Started(t, now) ELSE Queued(t)
  BY DEF Submitted
<1> HIDE DEF t
<1>4. CASE inflight(t) < MaxInflight
  BY <1>1, <1>3, <1>4, StartedSound
<1>5. CASE ~ (inflight(t) < MaxInflight)
  BY <1>1, <1>2, <1>3, <1>5, QueuedSound
<1> QED
  BY <1>4, <1>5

\* The queue only grows behind as many requests as the cloud has servers.
LEMMA AdvancedQueue ==
    ASSUME NEW s, Sound(s), NEW now \in Nat
    PROVE  /\ queue(Advanced(s, now)) <= queue(s)
           /\ queue(Advanced(s, now)) = queue(s) =>
                  inflight(Advanced(s, now)) <= inflight(s)
<1>0. queue(s) \in Nat /\ inflight(s) \in Nat
  BY Sizes DEF Sound
<1>1. CASE now <= s.clock
  <2>1. Advanced(s, now) = s
    BY <1>1 DEF Advanced
  <2> QED
    BY <1>0, <2>1
<1>2. CASE ~ (now <= s.clock)
  <2> DEFINE m == Moved(s, now)
             k == Promotions(s, now)
  <2>1. Advanced(s, now) = m
    BY <1>2 DEF Advanced
  <2>2. queue(m) = queue(s) - k /\ k \in 0..queue(s)
    BY MovedQueue, MovedSizes
  <2>3. inflight(m) = Cardinality(Unfinished(s, now)) + k
    <3>1. InService(m) = Unfinished(s, now) \union Promoted(s, now)
      BY DEF Moved, Serving, InService
    <3> QED
      BY <3>1, MovedSizes DEF inflight
  <2>4. Cardinality(Unfinished(s, now)) \in 0..inflight(s)
    BY MovedSizes
  <2> HIDE DEF m, k
  <2> QED
    BY <1>0, <2>1, <2>2, <2>3, <2>4
<1> QED
  BY <1>1, <1>2

LEMMA SubmittedQueue ==
    ASSUME NEW s, Sound(s), NEW now \in Nat, queue(Submitted(s, now)) > queue(s)
    PROVE  load(s) >= MaxInflight
<1> DEFINE t == Advanced(s, now)
<1>1. Sound(t) /\ queue(t) <= queue(s) /\ (queue(t) = queue(s) => inflight(t) <= inflight(s))
  BY AdvancedSound, AdvancedQueue
<1>2. /\ inflight(t) \in Nat /\ queue(t) \in Nat /\ MaxInflight \in Nat
      /\ inflight(s) \in Nat /\ queue(s) \in Nat
      /\ load(s) = inflight(s) + queue(s)
  BY <1>1, Sizes, CloudAssumption DEF Sound
<1>3. Submitted(s, now) = IF inflight(t) < MaxInflight THEN Started(t, now) ELSE Queued(t)
  BY DEF Submitted
<1> HIDE DEF t
<1>4. CASE inflight(t) < MaxInflight
  <2>1. queue(Submitted(s, now)) = queue(t)
    BY <1>1, <1>3, <1>4, StartedSound
  <2> QED
    BY <1>1, <1>2, <2>1
<1>5. CASE ~ (inflight(t) < MaxInflight)
  <2>1. queue(Submitted(s, now)) = queue(t) + 1
    BY <1>1, <1>2, <1>3, <1>5, QueuedSound
  <2> QED
    BY <1>1, <1>2, <1>5, <2>1
<1> QED
  BY <1>4, <1>5

-----------------------------------------------------------------------------
(* The loop. *)

LEMMA InitIInv == Init => IInv
<1> SUFFICES ASSUME Init PROVE IInv
  OBVIOUS
<1>1. /\ sim.waiting = <<>> /\ sim.clock = 0 /\ sim.n_submitted = 0
      /\ sim.n_completed = 0 /\ sim.n_queued = 0 /\ sim.max_queue_seen = 0
      /\ InService(sim) = {} /\ sim.busy_until = [j \in {} |-> 0]
  BY DEF Init, NewSim, InService
<1>2. inflight(sim) = 0 /\ queue(sim) = 0 /\ load(sim) = 0
  BY <1>1, FS_EmptySet DEF inflight, queue, load
<1>3. IsSim(sim)
  <2>1. sim.busy_until \in [InService(sim) -> Nat] /\ sim.waiting \in Seq(1..sim.n_submitted)
    BY <1>1, EmptySeq
  <2> QED
    BY <1>1, <2>1 DEF IsSim
<1>4. Ordered(sim) /\ Counted(sim) /\ Busy(sim)
  BY <1>1, <1>2, CloudAssumption DEF Ordered, Counted, Busy
<1> QED
  BY <1>3, <1>4, CloudAssumption DEF Init, IInv, Sound, UploadWanted

LEMMA NextIInv == IInv /\ [Next]_vars => IInv'
<1> SUFFICES ASSUME IInv, [Next]_vars
             PROVE  IInv'
  OBVIOUS
<1>0. /\ Sound(sim) /\ sim_clock \in Nat /\ seen \in 0..Samples /\ signal \in Signals
      /\ at \in {"edge", "routing", "uploading"}
  BY DEF IInv
<1>1. ASSUME NEW ms \in EdgeMs, Arrive(ms)
      PROVE  IInv'
  <2>1. sim_clock' \in Nat
    BY <1>0, <1>1, CloudAssumption DEF Arrive
  <2>2. Sound(sim')
    BY <1>0, <1>1, <2>1, AdvancedSound DEF Arrive
  <2>3. seen' \in 0..Samples /\ signal' \in Signals /\ at' = "routing"
    BY <1>0, <1>1, CloudAssumption DEF Arrive
  <2> QED
    BY <2>1, <2>2, <2>3 DEF IInv, UploadWanted, Sound, IsSim, Ordered, Counted, Busy,
       inflight, queue, load, InService
<1>2. CASE StayLocal
  BY <1>0, <1>2 DEF StayLocal, IInv, UploadWanted, Sound, IsSim, Ordered, Counted, Busy,
     inflight, queue, load, InService
<1>3. CASE Upload
  BY <1>0, <1>3 DEF Upload, IInv, UploadWanted, Sound, IsSim, Ordered, Counted, Busy,
     inflight, queue, load, InService
<1>4. CASE UploadLost
  BY <1>0, <1>4 DEF UploadLost, IInv, UploadWanted, Sound, IsSim, Ordered, Counted, Busy,
     inflight, queue, load, InService
<1>5. ASSUME NEW ms \in NetMs, Submit(ms)
      PROVE  IInv'
  <2>1. sim_clock + ms \in Nat
    BY <1>0, <1>5, CloudAssumption
  <2>2. Sound(sim')
    BY <1>0, <1>5, <2>1, SubmittedSound DEF Submit
  <2> QED
    BY <1>0, <1>5, <2>2 DEF Submit, IInv, UploadWanted, Sound, IsSim, Ordered, Counted, Busy,
       inflight, queue, load, InService
<1>6. CASE UNCHANGED vars
  BY <1>0, <1>6 DEF vars, IInv, UploadWanted, Uploads, Worth, Sound, IsSim, Ordered, Counted,
     Busy, inflight, queue, load, InService
<1> QED
  BY <1>1, <1>2, <1>3, <1>4, <1>5, <1>6 DEF Next

THEOREM Inductive == Spec => []IInv
<1> QED
  BY InitIInv, NextIInv, PTL DEF Spec

\* Type correctness, for every value of the constants.
THEOREM TypeCorrect == Spec => []TypeOK
<1>1. IInv => TypeOK
  BY DEF IInv, TypeOK, Sound
<1> QED
  BY <1>1, Inductive, PTL

\* The counters of a summary always add up, for any number of servers: advance
\* and submit lose no request and count none twice.
THEOREM SummaryCorrect == Spec => []SummaryAddsUp
<1>1. IInv => SummaryAddsUp
  BY DEF IInv, Sound, Counted, SummaryAddsUp
<1> QED
  BY <1>1, Inductive, PTL

\* The simulator never has more servers than max_inflight, and none of them is
\* idle while a request waits, whatever the times between the calls.
THEOREM WorkConserving == Spec => []NoIdleServer
<1>1. IInv => NoIdleServer
  BY DEF IInv, Sound, Busy, NoIdleServer
<1> QED
  BY <1>1, Inductive, PTL

\* Requests get their servers in the order of their submission.
THEOREM ServedInOrder == Spec => []FirstComeFirstServed
<1>1. ASSUME IInv PROVE FirstComeFirstServed
  <2> SUFFICES ASSUME NEW j \in InService(sim), NEW i \in 1..queue(sim)
               PROVE  j < sim.waiting[i]
    BY DEF FirstComeFirstServed
  <2>1. /\ sim.waiting[i] = sim.n_submitted - queue(sim) + i
        /\ j \in 1..(sim.n_submitted - queue(sim))
    BY <1>1 DEF IInv, Sound, Ordered
  <2>2. sim.n_submitted \in Nat /\ queue(sim) \in Nat
    BY <1>1, Sizes DEF IInv, Sound, IsSim
  <2> QED
    BY <2>1, <2>2
<1> QED
  BY <1>1, Inductive, PTL

\* A request only joins the queue if it is a cold start or worth a saturated
\* cloud, however long its upload took after the router read the load.
THEOREM ShedsUnderLoad == Spec => QueuedIsWorthIt
<1>1. ASSUME IInv, [Next]_vars, queue(sim') > queue(sim)
      PROVE  signal.cold \/ signal.gain > CloudWeight
  <2>0. queue(sim) \in Nat /\ load(sim) \in Nat
    BY <1>1, Sizes DEF IInv, Sound
  <2>1. CASE UNCHANGED sim
    BY <1>1, <2>0, <2>1
  <2>2. ASSUME NEW ms \in EdgeMs, Arrive(ms)
        PROVE  FALSE
    <3>1. sim_clock' \in Nat /\ sim' = Advanced(sim, sim_clock')
      BY <1>1, <2>2, CloudAssumption DEF Arrive, IInv
    <3>2. queue(sim') <= queue(sim) /\ queue(sim') \in Nat
      BY <1>1, <3>1, AdvancedQueue, AdvancedSound, Sizes DEF IInv, Sound
    <3> QED
      BY <1>1, <2>0, <3>2
  <2>3. ASSUME NEW ms \in NetMs, Submit(ms)
        PROVE  signal.cold \/ signal.gain > CloudWeight
    <3>1. sim_clock + ms \in Nat /\ sim' = Submitted(sim, sim_clock + ms)
      BY <1>1, <2>3, CloudAssumption DEF Submit, IInv
    <3>2. load(sim) >= MaxInflight
      BY <1>1, <3>1, SubmittedQueue DEF IInv
    <3>3. Uploads(signal, load(sim))
      BY <1>1, <2>3 DEF Submit, IInv, UploadWanted
    <3>4. Least(load(sim), MaxInflight) = MaxInflight
      BY <2>0, <3>2, CloudAssumption DEF Least
    <3>5. signal.cold \/ signal.gain * MaxInflight > CloudWeight * MaxInflight
      BY <3>3, <3>4 DEF Uploads, Worth
    <3>6. signal.gain \in Int /\ CloudWeight \in Int /\ MaxInflight \in Nat \ {0}
      BY <1>1, CloudAssumption DEF IInv
    <3>7. \A g, w \in Int, m \in Nat \ {0} : g * m > w * m => g > w
      OBVIOUS
    <3> QED
      BY <3>5, <3>6, <3>7
  <2>4. CASE StayLocal \/ Upload \/ UploadLost \/ UNCHANGED vars
    BY <2>1, <2>4 DEF StayLocal, Upload, UploadLost, vars
  <2> QED
    BY <1>1, <2>2, <2>3, <2>4 DEF Next
<1>2. IInv /\ [Next]_vars =>
          [queue(sim') > queue(sim) => signal.cold \/ signal.gain > CloudWeight]_vars
  BY <1>1
<1> QED
  BY <1>2, Inductive, PTL DEF Spec, QueuedIsWorthIt

-----------------------------------------------------------------------------
(* When the load the router reads is real.  A request is put into service at *)
(* the time it reaches the cloud, which the loop does not wait for; nothing  *)
(* starts in the future of the next sample if uploads take no longer than    *)
(* the edge does between two samples.  The run FutureLoad shows what happens *)
(* otherwise.                                                                *)

\* All that is in service started by time limit.
StartedBy(s, limit) == \A j \in InService(s) : s.busy_until[j] - ServiceMs <= limit

\* While a sample is routed and uploaded nothing has started after its arrival;
\* after its upload, nothing after the earliest next arrival.
StartInv ==
    /\ at \in {"routing", "uploading"} => StartedBy(sim, sim_clock)
    /\ at = "edge" => \A ms \in EdgeMs : StartedBy(sim, sim_clock + ms)

LEMMA StartedLater ==
    ASSUME NEW s, Sound(s), NEW a \in Nat, NEW b \in Nat, a <= b, StartedBy(s, a)
    PROVE  StartedBy(s, b)
<1>1. \A j \in InService(s) : s.busy_until[j] \in Nat
  BY DEF Sound, IsSim
<1> QED
  BY <1>1, CloudAssumption DEF StartedBy

\* Advancing starts waiting requests at the time it advances to ...
LEMMA AdvancedStarts ==
    ASSUME NEW s, Sound(s), NEW now \in Nat, NEW limit \in Nat, now <= limit,
           StartedBy(s, limit)
    PROVE  StartedBy(Advanced(s, now), limit)
<1>1. CASE now <= s.clock
  BY <1>1 DEF Advanced
<1>2. CASE ~ (now <= s.clock)
  <2> DEFINE m == Moved(s, now)
  <2>1. Advanced(s, now) = m
    BY <1>2 DEF Advanced
  <2>2. /\ m.busy_until = Serving(s, Unfinished(s, now), Promoted(s, now), now)
        /\ InService(m) = Unfinished(s, now) \union Promoted(s, now)
    BY DEF Moved, Serving, InService
  <2> HIDE DEF m
  <2>3. ASSUME NEW j \in InService(m)
        PROVE  m.busy_until[j] - ServiceMs <= limit
    <3>1. CASE j \in Promoted(s, now)
      <4>1. m.busy_until[j] = now + ServiceMs
        BY <2>2, <3>1 DEF Serving
      <4> QED
        BY <4>1, CloudAssumption
    <3>2. CASE j \notin Promoted(s, now)
      <4>1. j \in InService(s) /\ m.busy_until[j] = s.busy_until[j]
        BY <2>2, <2>3, <3>2 DEF Serving, Unfinished
      <4> QED
        BY <4>1 DEF StartedBy
    <3> QED
      BY <3>1, <3>2
  <2> QED
    BY <2>1, <2>3 DEF StartedBy
<1> QED
  BY <1>1, <1>2

\* ... and a submitted request starts, if it does, when it reaches the cloud.
LEMMA SubmittedStarts ==
    ASSUME NEW s, Sound(s), NEW now \in Nat, NEW limit \in Nat, now <= limit,
           StartedBy(s, limit)
    PROVE  StartedBy(Submitted(s, now), limit)
<1> DEFINE t == Advanced(s, now)
<1>1. StartedBy(t, limit)
  BY AdvancedStarts
<1>2. Submitted(s, now) \in {Started(t, now), Queued(t)}
  BY DEF Submitted
<1> HIDE DEF t
<1>3. StartedBy(Queued(t), limit)
  BY <1>1 DEF Queued, StartedBy, InService
<1>4. ASSUME NEW j \in InService(Started(t, now))
      PROVE  Started(t, now).busy_until[j] - ServiceMs <= limit
  <2>1. /\ Started(t, now).busy_until = Serving(t, InService(t), {t.n_submitted + 1}, now)
        /\ InService(Started(t, now)) = InService(t) \union {t.n_submitted + 1}
    BY DEF Started, Serving, InService
  <2>2. CASE j = t.n_submitted + 1
    <3>1. Started(t, now).busy_until[j] = now + ServiceMs
      BY <2>1, <2>2 DEF Serving
    <3> QED
      BY <3>1, CloudAssumption
  <2>3. CASE j # t.n_submitted + 1
    <3>1. j \in InService(t) /\ Started(t, now).busy_until[j] = t.busy_until[j]
      BY <1>4, <2>1, <2>3 DEF Serving
    <3> QED
      BY <1>1, <3>1 DEF StartedBy
  <2> QED
    BY <2>2, <2>3
<1> QED
  BY <1>2, <1>3, <1>4 DEF StartedBy

\* If no upload takes longer than the edge between two samples, the router is
\* charged only for requests that are at the cloud when its sample arrives.
THEOREM RealLoad ==
    ASSUME \A upload \in NetMs, edge \in EdgeMs : upload <= edge
    PROVE  Spec => []CountsOnlyArrived
<1>1. Init => StartInv
  BY DEF Init, NewSim, StartInv, StartedBy, InService
<1>2. IInv /\ StartInv /\ [Next]_vars => StartInv'
  <2> SUFFICES ASSUME IInv, StartInv, [Next]_vars PROVE StartInv'
    OBVIOUS
  <2>0. /\ Sound(sim) /\ sim_clock \in Nat
        /\ \A ms \in EdgeMs : ms \in Nat /\ sim_clock + ms \in Nat
                              /\ sim_clock <= sim_clock + ms
    BY CloudAssumption DEF IInv
  <2>1. ASSUME NEW ms \in EdgeMs, Arrive(ms)
        PROVE  StartInv'
    <3>1. sim_clock' = sim_clock + ms /\ sim' = Advanced(sim, sim_clock') /\ at' = "routing"
      BY <2>1 DEF Arrive
    <3>2. StartedBy(sim, sim_clock')
      BY <2>1, <3>1 DEF Arrive, StartInv
    <3>3. StartedBy(Advanced(sim, sim_clock'), sim_clock')
      BY <2>0, <3>1, <3>2, AdvancedStarts
    <3> QED
      BY <3>1, <3>3 DEF StartInv, StartedBy, InService
  <2>2. ASSUME NEW ms \in NetMs, Submit(ms)
        PROVE  StartInv'
    <3>1. sim' = Submitted(sim, sim_clock + ms) /\ at' = "edge" /\ sim_clock' = sim_clock
      BY <2>2 DEF Submit
    <3>2. ASSUME NEW next \in EdgeMs
          PROVE  StartedBy(Submitted(sim, sim_clock + ms), sim_clock + next)
      <4>1. ms \in Nat /\ next \in Nat /\ ms <= next
        BY CloudAssumption
      <4>2. sim_clock + ms \in Nat /\ sim_clock + ms <= sim_clock + next
        BY <2>0, <4>1
      <4>3. StartedBy(sim, sim_clock)
        BY <2>2 DEF Submit, StartInv
      <4>4. StartedBy(sim, sim_clock + next)
        BY <2>0, <4>3, StartedLater
      <4> QED
        BY <2>0, <4>2, <4>4, SubmittedStarts
    <3> QED
      BY <3>1, <3>2 DEF StartInv, StartedBy, InService
  <2>3. CASE StayLocal \/ UploadLost
    <3>1. StartedBy(sim, sim_clock)
      BY <2>3 DEF StayLocal, UploadLost, StartInv
    <3>2. \A ms \in EdgeMs : StartedBy(sim, sim_clock + ms)
      BY <2>0, <3>1, StartedLater
    <3>3. sim' = sim /\ sim_clock' = sim_clock /\ at' = "edge"
      BY <2>3 DEF StayLocal, UploadLost
    <3> QED
      BY <3>2, <3>3 DEF StartInv, StartedBy, InService
  <2>4. CASE Upload
    BY <2>4 DEF Upload, StartInv, StartedBy, InService
  <2>5. CASE UNCHANGED vars
    BY <2>5 DEF vars, StartInv, StartedBy, InService
  <2> QED
    BY <2>1, <2>2, <2>3, <2>4, <2>5 DEF Next
<1>3. StartInv => CountsOnlyArrived
  BY DEF StartInv, StartedBy, CountsOnlyArrived
<1> QED
  BY <1>1, <1>2, <1>3, Inductive, PTL DEF Spec
=============================================================================
