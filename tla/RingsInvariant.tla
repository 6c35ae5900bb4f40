--------------------------- MODULE RingsInvariant ----------------------------
(***************************************************************************)
(* The inductive invariant behind the proofs about module Rings, for every *)
(* ring size, growth increment and batch, and the steps that move neither  *)
(* end of the timer ring.  The invariant has three parts: how far the      *)
(* holder of collector_lock has come (PhaseInv), the order of the request  *)
(* ring (OrderInv), and the chain (ChainInv): there is an offset for every *)
(* record, the running total of the timers of the records before it, and   *)
(* the record's timers start that far behind timer_out.                    *)
(***************************************************************************)
EXTENDS Rings, TLAPS

\* Published and merged records, and those plus the reserved ones.
Placed == Held + (IF holder = "merge" THEN batch.merged ELSE 0)

Total == Held + (IF holder = "merge" THEN batch.created ELSE 0)

\* Timer slots the k-th of them occupies.
SizeOf(k) ==
    IF k < Placed THEN request_pool[HeldSlot(k)].timers_cnt ELSE Len(staged[k - Held])

\* Records deleted by the running expiration.
DeletedCnt == pinba_pool_num_records(out, first, RequestPoolSize)

\* off is the running total of cnt[0] .. cnt[n - 1].
RunningTotal(off, cnt, n) ==
    /\ off[0] = 0
    /\ \A k \in 0 .. n - 1 : cnt[k] \in Nat /\ off[k + 1] = off[k] + cnt[k]
    /\ \A k, m \in 0 .. n : k <= m => off[k] <= off[m]

Sizes == [k \in 0 .. Total - 1 |-> SizeOf(k)]

StagedSizes == [k \in 0 .. batch.created - 1 |-> Len(staged[k])]

\* The record at ring slot s owns its timers_cnt slots, off behind timer_out.
Owns(s, off) ==
    LET n == request_pool[s].timers_cnt IN
    /\ n > 0 => request_pool[s].timers_start = Wrap(timer_out + off, timer_size)
    /\ \A j \in 0 .. n - 1 :
          LET t == timer_pool[Wrap(timer_out + off + j, timer_size)] IN
          t.request_id = s /\ t.hit /\ t.tag_num # 0

Chain(off) ==
    /\ RunningTotal(off, Sizes, Total)
    /\ off[Total] = TimersLive
    /\ 0 \notin TagCounts => \A k \in 0 .. Placed - 1 : Owns(HeldSlot(k), off[k])
    /\ holder = "merge" =>
          /\ batch.prefix = Wrap(timer_out + off[Held], timer_size)
          /\ off[Placed] = off[Held] + batch.added
    /\ holder = "expire" => batch.timers = off[DeletedCnt]

StageChain(off) ==
    /\ RunningTotal(off, StagedSizes, batch.created)
    /\ off[batch.created] = batch.timers

ChainInv ==
    /\ \E off \in [0 .. Total -> Nat] : Chain(off)
    /\ holder = "copy" => \E off \in [0 .. batch.created -> Nat] : StageChain(off)

PhaseInv ==
    /\ holder \in {"none", "delete", "expire"} =>
          batch.created = 0 /\ batch.prefix = 0 /\ batch.merged = 0 /\ batch.added = 0
    /\ holder \in {"none", "delete"} => batch.timers = 0
    /\ holder \in {"none", "copy", "merge", "publish"} => first = out
    /\ holder \in {"copy", "merge", "publish"} =>
          batch.created <= FreeSlots /\ batch.merged <= batch.created
    /\ holder \in {"copy", "publish"} => batch.merged = 0 /\ batch.added = 0
    /\ holder = "publish" =>
          \A k \in 0 .. batch.created - 1 : request_pool[BatchSlot(k)].timers_cnt = 0
    /\ holder \in {"copy", "merge"} =>
          \A k \in batch.merged .. batch.created - 1 :
              request_pool[BatchSlot(k)].timers_cnt = 0
    /\ holder = "expire" => Held = DeletedCnt + Live
    /\ holder = "delete" => Live = pinba_pool_num_records(first, out, RequestPoolSize) + Held

OrderInv ==
    /\ \A k \in 0 .. Live - 1 :
          LET r == request_pool[Wrap(out + k, RequestPoolSize)] IN
          /\ r.active
          /\ r.counter = Admitted - Live + k
          /\ r.time < launch
          /\ \A m \in 0 .. k - 1 :
                request_pool[Wrap(out + m, RequestPoolSize)].time <= r.time
    /\ \A k \in 0 .. batch.created - 1 :
          LET r == request_pool[BatchSlot(k)] IN
          r.active /\ r.counter = Admitted + k /\ r.time = launch
    /\ holder = "expire" =>
          \A k \in 0 .. DeletedCnt - 1 : request_pool[HeldSlot(k)].time < from

IInv == TypeOK /\ PhaseInv /\ OrderInv /\ ChainInv

-----------------------------------------------------------------------------
(* Facts about ring positions and about the helpers.                       *)

\* The records between two positions of a ring, and where they end.
LEMMA RingCount ==
    ASSUME NEW size \in Nat, NEW i \in 0 .. size - 1, NEW o \in 0 .. size - 1
    PROVE  /\ pinba_pool_num_records(i, o, size) \in 0 .. size - 1
           /\ Wrap(o + pinba_pool_num_records(i, o, size), size) = i
BY SMT DEF pinba_pool_num_records, Wrap

\* Less than one lap from a position is a position of the ring, and two
\* different distances lead to two different positions.
LEMMA RingSlot ==
    ASSUME NEW size \in Nat, NEW o \in 0 .. size - 1,
           NEW k \in 0 .. size - 1, NEW m \in 0 .. size - 1
    PROVE  /\ Wrap(o + k, size) \in 0 .. size - 1
           /\ Wrap(o + k, size) = Wrap(o + m, size) => k = m
BY SMT DEF Wrap

\* The stored timers of a request are a sequence of tag counts.
LEMMA TimerSeqFacts ==
    ASSUME NEW ts \in TimerSeqs
    PROVE  /\ Len(ts) \in Nat
           /\ ts = <<>> <=> Len(ts) = 0
           /\ \A j \in 0 .. Len(ts) - 1 : ts[j + 1] \in TagCounts
<1>1. PICK n \in 0 .. MaxTimers : ts \in [1 .. n -> TagCounts]
  BY DEF TimerSeqs
<1>2. n \in Nat
  BY RingsAssumption
<1>3. ts \in Seq(TagCounts) /\ Len(ts) = n
  BY <1>1, <1>2
<1>. QED
  BY <1>1, <1>2, <1>3

\* The counters of a batch.
Batches == [created : Nat, timers : Nat, prefix : Nat, merged : Nat, added : Nat]

\* Running totals: one more count, two lists one after the other, and a list
\* without its first counts.
LEMMA RunningTotalAppend ==
    ASSUME NEW n \in Nat, NEW off \in [0 .. n -> Nat], NEW cnt, RunningTotal(off, cnt, n),
           NEW cnt2, cnt2[n] \in Nat, \A k \in 0 .. n - 1 : cnt2[k] = cnt[k],
           NEW off2, off2[n + 1] = off[n] + cnt2[n], \A k \in 0 .. n : off2[k] = off[k]
    PROVE  RunningTotal(off2, cnt2, n + 1)
<1>1. off2[0] = 0
  BY DEF RunningTotal
<1>2. \A k \in 0 .. n : cnt2[k] \in Nat /\ off2[k + 1] = off2[k] + cnt2[k]
  <2>. TAKE k \in 0 .. n
  <2>1. CASE k = n
    BY <2>1
  <2>2. CASE k < n
    <3>1. k \in 0 .. n - 1 /\ k + 1 \in 0 .. n
      BY <2>2
    <3>2. cnt[k] \in Nat /\ off[k + 1] = off[k] + cnt[k] /\ cnt2[k] = cnt[k]
      BY <3>1 DEF RunningTotal
    <3>3. off2[k] = off[k] /\ off2[k + 1] = off[k + 1]
      BY <3>1
    <3>. QED
      BY <3>2, <3>3
  <2>. QED
    BY <2>1, <2>2
<1>3. \A k, m \in 0 .. n + 1 : k <= m => off2[k] <= off2[m]
  <2>. TAKE k, m \in 0 .. n + 1
  <2>1. CASE m <= n /\ k <= m
    <3>1. k \in 0 .. n /\ m \in 0 .. n
      BY <2>1
    <3>. QED
      BY <2>1, <3>1 DEF RunningTotal
  <2>2. CASE m = n + 1 /\ k <= n
    <3>1. k \in 0 .. n /\ n \in 0 .. n
      BY <2>2
    <3>2. off[k] <= off[n] /\ off[k] \in Nat /\ off[n] \in Nat
      BY <2>2, <3>1 DEF RunningTotal
    <3>. QED
      BY <2>2, <3>2
  <2>3. CASE k = n + 1 /\ m = n + 1
    BY <2>3
  <2>. QED
    BY <2>1, <2>2, <2>3
<1>. QED
  BY ONLY <1>1, <1>2, <1>3, (n + 1) - 1 = n DEF RunningTotal

\* Counts b after counts a, and totals po on top of totals off.
Joined(cnt, a, n, b, p) ==
    /\ \A k \in 0 .. n - 1 : cnt[k] = a[k]
    /\ \A k \in n .. n + p - 1 : cnt[k] = b[k - n]

Stacked(off2, off, n, po, p) ==
    /\ \A k \in 0 .. n : off2[k] = off[k]
    /\ \A k \in n .. n + p : off2[k] = off[n] + po[k - n]

\* Two running totals put end to end: the batch behind the published records.
LEMMA RunningTotalConcat ==
    ASSUME NEW n \in Nat, NEW off \in [0 .. n -> Nat], NEW a, RunningTotal(off, a, n),
           NEW p \in Nat, NEW po \in [0 .. p -> Nat], NEW b, RunningTotal(po, b, p),
           NEW cnt, Joined(cnt, a, n, b, p),
           NEW off2, Stacked(off2, off, n, po, p)
    PROVE  RunningTotal(off2, cnt, n + p)
<1>a. /\ \A k \in 0 .. n - 1 : cnt[k] = a[k]
      /\ \A k \in n .. n + p - 1 : cnt[k] = b[k - n]
  BY DEF Joined
<1>b. /\ \A k \in 0 .. n : off2[k] = off[k]
      /\ \A k \in n .. n + p : off2[k] = off[n] + po[k - n]
  BY DEF Stacked
<1>1. off2[0] = 0
  BY 0 \in 0 .. n, <1>b DEF RunningTotal
<1>2. \A k \in 0 .. n + p - 1 : cnt[k] \in Nat /\ off2[k + 1] = off2[k] + cnt[k]
  <2>. TAKE k \in 0 .. n + p - 1
  <2>1. CASE k < n
    <3>1. k \in 0 .. n - 1 /\ k + 1 \in 0 .. n
      BY <2>1
    <3>2. a[k] \in Nat /\ off[k + 1] = off[k] + a[k] /\ cnt[k] = a[k]
      BY <1>a, <3>1 DEF RunningTotal
    <3>3. off2[k] = off[k] /\ off2[k + 1] = off[k + 1]
      BY <1>b, <3>1
    <3>. QED
      BY <3>2, <3>3
  <2>2. CASE k >= n
    <3>1. k - n \in 0 .. p - 1 /\ (k + 1) - n = (k - n) + 1
      BY <2>2
    <3>2. /\ b[k - n] \in Nat
          /\ po[(k + 1) - n] = po[k - n] + b[k - n] /\ po[0] = 0
      BY <3>1 DEF RunningTotal
    <3>3. k \in n .. n + p /\ k + 1 \in n .. n + p
      BY <2>2
    <3>4. off2[k] = off[n] + po[k - n] /\ off2[k + 1] = off[n] + po[(k + 1) - n]
      BY <1>b, <3>3
    <3>5. po[k - n] \in Nat /\ off[n] \in Nat /\ cnt[k] = b[k - n]
      BY <1>a, <2>2, <3>1, <3>3
    <3>. QED
      BY ONLY <3>2, <3>4, <3>5
  <2>. QED
    BY <2>1, <2>2
<1>3. \A k, m \in 0 .. n + p : k <= m => off2[k] <= off2[m]
  <2>. TAKE k, m \in 0 .. n + p
  <2>1. CASE m <= n /\ k <= m
    <3>1. k \in 0 .. n /\ m \in 0 .. n
      BY <2>1
    <3>. QED
      BY <1>b, <2>1, <3>1 DEF RunningTotal
  <2>2. CASE k <= n /\ m > n
    <3>1. k \in 0 .. n /\ n \in 0 .. n /\ m - n \in 0 .. p /\ m \in n .. n + p
      BY <2>2
    <3>2. off[k] <= off[n] /\ off[k] \in Nat /\ off[n] \in Nat /\ po[m - n] \in Nat
      BY <2>2, <3>1 DEF RunningTotal
    <3>3. off2[k] = off[k] /\ off2[m] = off[n] + po[m - n]
      BY <1>b, <3>1
    <3>. QED
      BY ONLY <3>2, <3>3
  <2>3. CASE k > n /\ k <= m
    <3>1. /\ k \in n .. n + p /\ m \in n .. n + p
          /\ k - n \in 0 .. p /\ m - n \in 0 .. p /\ k - n <= m - n
      BY <2>3
    <3>2. po[k - n] <= po[m - n] /\ po[k - n] \in Nat /\ po[m - n] \in Nat
      BY <3>1 DEF RunningTotal
    <3>3. off2[k] = off[n] + po[k - n] /\ off2[m] = off[n] + po[m - n] /\ off[n] \in Nat
      BY <1>b, <3>1
    <3>. QED
      BY ONLY <3>2, <3>3
  <2>. QED
    BY <2>1, <2>2, <2>3
<1>. QED
  BY ONLY <1>1, <1>2, <1>3 DEF RunningTotal

\* Counts cnt, and totals off, from the d-th on.
Dropped(cnt2, off2, cnt, off, n, d) ==
    /\ \A k \in 0 .. n - d - 1 : cnt2[k] = cnt[k + d]
    /\ \A k \in 0 .. n - d : off2[k] = off[k + d] - off[d]

\* A running total with its first m terms removed, rebased to zero.
LEMMA RunningTotalDrop ==
    ASSUME NEW n \in Nat, NEW off \in [0 .. n -> Nat], NEW cnt, RunningTotal(off, cnt, n),
           NEW d \in 0 .. n, NEW cnt2, NEW off2, Dropped(cnt2, off2, cnt, off, n, d)
    PROVE  RunningTotal(off2, cnt2, n - d)
<1>a. /\ \A k \in 0 .. n - d - 1 : cnt2[k] = cnt[k + d]
      /\ \A k \in 0 .. n - d : off2[k] = off[k + d] - off[d]
  BY DEF Dropped
<1>0. \A k \in 0 .. n - d : off2[k] \in Nat /\ off2[k] = off[k + d] - off[d]
  <2>. TAKE k \in 0 .. n - d
  <2>1. k + d \in 0 .. n /\ d <= k + d
    OBVIOUS
  <2>2. off[d] <= off[k + d] /\ off[d] \in Nat /\ off[k + d] \in Nat
    BY <2>1 DEF RunningTotal
  <2>. QED
    BY <1>a, <2>2
<1>1. off2[0] = 0
  BY <1>0
<1>2. \A k \in 0 .. n - d - 1 : cnt2[k] \in Nat /\ off2[k + 1] = off2[k] + cnt2[k]
  <2>. TAKE k \in 0 .. n - d - 1
  <2>1. k + d \in 0 .. n - 1 /\ (k + 1) + d = (k + d) + 1
    OBVIOUS
  <2>2. cnt[k + d] \in Nat /\ off[(k + 1) + d] = off[k + d] + cnt[k + d]
    BY <2>1 DEF RunningTotal
  <2>3. off[(k + 1) + d] \in Nat /\ off[k + d] \in Nat /\ off[d] \in Nat
    BY <2>1
  <2>4. off2[k + 1] = off[(k + 1) + d] - off[d] /\ off2[k] = off[k + d] - off[d]
    BY <1>0
  <2>5. cnt2[k] = cnt[k + d]
    BY <1>a
  <2>. QED
    BY ONLY <2>2, <2>3, <2>4, <2>5
<1>3. \A k, m \in 0 .. n - d : k <= m => off2[k] <= off2[m]
  <2>. TAKE k, m \in 0 .. n - d
  <2>1. k + d \in 0 .. n /\ m + d \in 0 .. n /\ (k <= m => k + d <= m + d)
    OBVIOUS
  <2>2. k <= m => off[k + d] <= off[m + d]
    BY <2>1 DEF RunningTotal
  <2>3. off[k + d] \in Nat /\ off[m + d] \in Nat /\ off[d] \in Nat
    BY <2>1
  <2>. QED
    BY <1>0, <2>2, <2>3
<1>. QED
  BY ONLY <1>1, <1>2, <1>3 DEF RunningTotal

\* Positions and counts, in every state of the right type.
LEMMA Positions ==
    ASSUME TypeOK
    PROVE  /\ Slots = 0 .. RequestPoolSize - 1
           /\ Live \in 0 .. RequestPoolSize - 1
           /\ Held \in 0 .. RequestPoolSize - 1
           /\ DeletedCnt \in 0 .. RequestPoolSize - 1
           /\ FreeSlots \in 0 .. RequestPoolSize - 1
           /\ TimersLive \in 0 .. timer_size - 1
           /\ Wrap(out + Live, RequestPoolSize) = in
           /\ Wrap(first + Held, RequestPoolSize) = in
           /\ Wrap(timer_out + TimersLive, timer_size) = timer_in
<1>. USE RingsAssumption
<1>1. /\ Live \in 0 .. RequestPoolSize - 1
      /\ Wrap(out + Live, RequestPoolSize) = in
  BY RingCount, RequestPoolSize \in Nat, in \in 0 .. RequestPoolSize - 1,
     out \in 0 .. RequestPoolSize - 1 DEF TypeOK, Slots, Live
<1>2. /\ Held \in 0 .. RequestPoolSize - 1
      /\ Wrap(first + Held, RequestPoolSize) = in
  BY RingCount, RequestPoolSize \in Nat, in \in 0 .. RequestPoolSize - 1,
     first \in 0 .. RequestPoolSize - 1 DEF TypeOK, Slots, Held
<1>3. DeletedCnt \in 0 .. RequestPoolSize - 1
  BY RingCount, RequestPoolSize \in Nat, out \in 0 .. RequestPoolSize - 1,
     first \in 0 .. RequestPoolSize - 1 DEF TypeOK, Slots, DeletedCnt
<1>4. /\ TimersLive \in 0 .. timer_size - 1
      /\ Wrap(timer_out + TimersLive, timer_size) = timer_in
  BY RingCount, timer_size \in Nat DEF TypeOK, TimersLive
<1>. QED
  BY <1>1, <1>2, <1>3, <1>4 DEF Slots, FreeSlots

\* Different records have different slots; the batch's slots follow the held ones.
LEMMA HeldSlots ==
    ASSUME TypeOK
    PROVE  /\ \A k \in 0 .. RequestPoolSize - 1 :
                 Wrap(first + k, RequestPoolSize) \in Slots
           /\ \A k, m \in 0 .. RequestPoolSize - 1 :
                 Wrap(first + k, RequestPoolSize) = Wrap(first + m, RequestPoolSize)
                 => k = m
           /\ \A k \in Nat : Held + k < RequestPoolSize =>
                 /\ Wrap(in + k, RequestPoolSize) = Wrap(first + (Held + k), RequestPoolSize)
                 /\ Wrap(in + k, RequestPoolSize) \in Slots
<1>. USE RingsAssumption
<1>1. first \in 0 .. RequestPoolSize - 1
  BY DEF TypeOK, Slots
<1>2. \A k \in 0 .. RequestPoolSize - 1 : Wrap(first + k, RequestPoolSize) \in Slots
  BY <1>1 DEF Slots, Wrap
<1>3. \A k, m \in 0 .. RequestPoolSize - 1 :
         Wrap(first + k, RequestPoolSize) = Wrap(first + m, RequestPoolSize) => k = m
  BY <1>1 DEF Wrap
<1>4. ASSUME NEW k \in Nat, Held + k < RequestPoolSize
      PROVE  Wrap(in + k, RequestPoolSize) = Wrap(first + (Held + k), RequestPoolSize)
  <2>1. Held \in Nat /\ in = Wrap(first + Held, RequestPoolSize)
    BY Positions
  <2>. QED
    BY <1>1, <1>4, <2>1 DEF Wrap
<1>5. ASSUME NEW k \in Nat, Held + k < RequestPoolSize
      PROVE  Wrap(first + (Held + k), RequestPoolSize) \in Slots
  <2>1. Held \in Nat
    BY Positions
  <2>. QED
    BY <1>2, <1>5, <2>1
<1>. QED
  BY <1>2, <1>3, <1>4, <1>5

-----------------------------------------------------------------------------
(* The invariant holds initially.                                          *)

\* pinba_collector_init leaves two empty rings, for which the invariant holds.
LEMMA InitHolds == Init => IInv
<1>. SUFFICES ASSUME Init PROVE IInv
  OBVIOUS
<1>. USE RingsAssumption
<1>1. /\ Held = 0 /\ Live = 0 /\ TimersLive = 0
      /\ Total = 0 /\ Placed = 0
  BY DEF Init, Held, Live, TimersLive, Total, Placed, pinba_pool_num_records
<1>2. TypeOK
  <2>1. <<>> \in TimerSeqs
    BY DEF TimerSeqs
  <2>. QED
    BY <2>1 DEF Init, TypeOK, Slots, Record, Timer, NoRecord, NoTimer, NoBatch, Holders
<1>3. PhaseInv
  BY DEF Init, PhaseInv, NoBatch
<1>4. OrderInv
  BY <1>1 DEF Init, OrderInv, NoBatch
<1>5. ChainInv
  <2>1. Chain([k \in 0 .. 0 |-> 0])
    BY <1>1 DEF Init, Chain, RunningTotal, Sizes
  <2>2. holder # "copy"
    BY DEF Init
  <2>. QED
    BY <1>1, <2>1, <2>2 DEF ChainInv
<1>. QED
  BY <1>2, <1>3, <1>4, <1>5 DEF IInv

-----------------------------------------------------------------------------
(* Steps outside the merging and the expiration that leave the timers and  *)
(* the held records' spans alone keep the chain.                           *)

\* The chain survives a step that moves neither ring nor the held records.
LEMMA ChainFrame ==
    ASSUME NEW off, Chain(off), Held \in Nat,
           holder \notin {"merge", "expire"}, holder' # "merge",
           holder' = "expire" => batch'.timers = 0 /\ DeletedCnt' = 0,
           Held' = Held, TimersLive' = TimersLive,
           UNCHANGED <<timer_pool, timer_size, timer_out, first>>,
           \A k \in 0 .. Held - 1 : request_pool'[Wrap(first + k, RequestPoolSize)]
                                    = request_pool[Wrap(first + k, RequestPoolSize)]
    PROVE  Chain(off)' /\ Total = Held /\ Total' = Held
<1>1. Total = Held /\ Total' = Held /\ Placed = Held /\ Placed' = Held
  BY DEF Total, Placed
<1>2. Sizes' = Sizes
  BY <1>1 DEF Sizes, SizeOf, HeldSlot
<1>3. \A k \in 0 .. Held - 1 : Owns(HeldSlot(k), off[k]) => Owns(HeldSlot(k), off[k])'
  BY DEF Owns, HeldSlot
<1>4. Chain(off)'
  BY <1>1, <1>2, <1>3 DEF Chain, RunningTotal
<1>. QED
  BY <1>1, <1>4

-----------------------------------------------------------------------------
(* One lemma per action.                                                   *)

\* Taking collector_lock for a batch starts with an empty batch.
LEMMA LockForBatchStep == IInv /\ LockForBatch => IInv'
<1>. SUFFICES ASSUME IInv, LockForBatch PROVE IInv'
  OBVIOUS
<1>. USE RingsAssumption, Positions DEF IInv
<1>1. TypeOK'
  BY Zenon DEF TypeOK, LockForBatch, requestVars, timerVars, Holders
<1>2. /\ Held' = Held /\ Live' = Live /\ TimersLive' = TimersLive
      /\ FreeSlots' = FreeSlots
      /\ Total = Held /\ Placed = Held /\ Total' = Held /\ Placed' = Held
      /\ batch = NoBatch /\ batch' = NoBatch
  BY DEF LockForBatch, requestVars, timerVars, Held, Live, TimersLive, Total, Placed,
         FreeSlots, PhaseInv, TypeOK, NoBatch
<1>3. PhaseInv'
  BY <1>2 DEF PhaseInv, LockForBatch, requestVars, NoBatch
<1>4. OrderInv'
  BY <1>2 DEF OrderInv, LockForBatch, requestVars, Admitted, BatchSlot, NoBatch
<1>5. ChainInv'
  <2>1. PICK off \in [0 .. Total -> Nat] : Chain(off)
    BY DEF ChainInv
  <2>2. Sizes' = Sizes
    BY <1>2 DEF Sizes, SizeOf, LockForBatch, requestVars, HeldSlot
  <2>3. Chain(off)'
    BY <1>2, <2>1, <2>2
       DEF Chain, RunningTotal, Owns, HeldSlot, LockForBatch, requestVars, timerVars
  <2>4. StageChain([k \in 0 .. 0 |-> 0])'
    BY <1>2 DEF StageChain, RunningTotal, StagedSizes, NoBatch
  <2>. QED
    BY <1>2, <2>3, <2>4 DEF ChainInv, NoBatch
<1>. QED
  BY <1>1, <1>3, <1>4, <1>5

\* What holds while requests are being copied.
LEMMA CopyPhase ==
    ASSUME IInv, holder \in {"copy", "merge", "publish"}
    PROVE  /\ TypeOK
           /\ first = out /\ Held = Live /\ DeletedCnt = 0
           /\ Held \in Nat /\ batch.created \in Nat /\ batch.merged \in Nat
           /\ Held + batch.created < RequestPoolSize
           /\ batch.merged <= batch.created
<1>1. TypeOK /\ PhaseInv
  BY DEF IInv
<1>2. first = out /\ batch.created <= FreeSlots /\ batch.merged <= batch.created
  BY <1>1 DEF PhaseInv
<1>3. batch.created \in Nat /\ batch.merged \in Nat
  BY <1>1 DEF TypeOK
<1>4. Held = Live /\ DeletedCnt = 0
  BY <1>2 DEF Held, Live, DeletedCnt, pinba_pool_num_records
<1>. QED
  BY <1>1, <1>2, <1>3, <1>4, Positions, RingsAssumption DEF FreeSlots

\* Writing the next slot of the batch leaves the earlier slots alone.
LEMMA CopySlot ==
    ASSUME TypeOK, NEW c \in Nat, Held + c < RequestPoolSize, NEW rec,
           request_pool' = [request_pool EXCEPT ![Wrap(in + c, RequestPoolSize)] = rec]
    PROVE  /\ \A k \in 0 .. Held - 1 : request_pool'[Wrap(first + k, RequestPoolSize)]
                                       = request_pool[Wrap(first + k, RequestPoolSize)]
           /\ \A k \in 0 .. c - 1 : request_pool'[Wrap(in + k, RequestPoolSize)]
                                    = request_pool[Wrap(in + k, RequestPoolSize)]
           /\ request_pool'[Wrap(in + c, RequestPoolSize)] = rec
<1>1. Held \in Nat /\ request_pool \in [Slots -> Record]
  BY Positions DEF TypeOK
<1>2. Wrap(in + c, RequestPoolSize) = Wrap(first + (Held + c), RequestPoolSize)
      /\ Wrap(in + c, RequestPoolSize) \in Slots
  BY HeldSlots
<1>3. ASSUME NEW k \in 0 .. Held + c - 1
      PROVE  request_pool'[Wrap(first + k, RequestPoolSize)]
             = request_pool[Wrap(first + k, RequestPoolSize)]
  <2>1. k \in 0 .. RequestPoolSize - 1 /\ Held + c \in 0 .. RequestPoolSize - 1 /\ k # Held + c
    BY <1>1, RingsAssumption
  <2>2. Wrap(first + k, RequestPoolSize) # Wrap(first + (Held + c), RequestPoolSize)
        /\ Wrap(first + k, RequestPoolSize) \in Slots
    BY <2>1, HeldSlots
  <2>. QED
    BY <1>1, <1>2, <2>2
<1>4. ASSUME NEW k \in 0 .. c - 1
      PROVE  request_pool'[Wrap(in + k, RequestPoolSize)]
             = request_pool[Wrap(in + k, RequestPoolSize)]
  <2>1. Held + k \in 0 .. Held + c - 1 /\ Held + k < RequestPoolSize
    BY <1>1, RingsAssumption
  <2>2. Wrap(in + k, RequestPoolSize) = Wrap(first + (Held + k), RequestPoolSize)
    BY <2>1, HeldSlots
  <2>. QED
    BY <1>3, <2>1, <2>2
<1>. QED
  BY <1>1, <1>2, <1>3, <1>4

\* A failed copy touches one slot that is not held yet.
LEMMA CopyFailsStep == IInv /\ CopyFails => IInv'
<1>0. SUFFICES ASSUME IInv, CopyFails PROVE IInv'
  OBVIOUS
<1>. DEFINE c == batch.created
            rec == [time |-> launch, counter |-> request_pool_counter + c,
                    active |-> FALSE, timers_start |-> 0, timers_cnt |-> 0]
<1>1. /\ holder = "copy" /\ c < FreeSlots
      /\ request_pool' = [request_pool EXCEPT ![Wrap(in + c, RequestPoolSize)] = rec]
  BY <1>0, Zenon DEF CopyFails, BatchSlot
<1>2. UNCHANGED <<in, out, request_pool_counter, timer_pool, timer_size, timer_in,
                  timer_out, timertags_cnt, launch, holder, batch, staged, first, from>>
  BY <1>0, Zenon DEF CopyFails, timerVars
<1>3. /\ TypeOK /\ first = out /\ Held = Live
      /\ Held \in Nat /\ c \in Nat /\ Held + c < RequestPoolSize
  BY <1>0, <1>1, CopyPhase
<1>4. /\ Held' = Held /\ Live' = Live /\ TimersLive' = TimersLive /\ FreeSlots' = FreeSlots
      /\ Admitted' = Admitted
  BY <1>2 DEF Held, Live, TimersLive, FreeSlots, Admitted
<1>5. /\ \A k \in 0 .. Held - 1 : request_pool'[Wrap(first + k, RequestPoolSize)]
                                  = request_pool[Wrap(first + k, RequestPoolSize)]
      /\ \A k \in 0 .. c - 1 : request_pool'[Wrap(in + k, RequestPoolSize)]
                               = request_pool[Wrap(in + k, RequestPoolSize)]
  BY <1>1, <1>3, CopySlot, Zenon
<1>6. TypeOK'
  <2>1. rec \in Record
    <3>1. launch \in Nat /\ request_pool_counter \in Nat
      BY <1>3, Zenon DEF TypeOK
    <3>2. request_pool_counter + c \in Nat
      BY ONLY <3>1, <1>3
    <3>. QED
      BY <3>1, <3>2, Zenon DEF Record
  <2>. QED
    BY <1>1, <1>2, <1>3, <2>1, Zenon DEF TypeOK
<1>7. PhaseInv'
  BY <1>0, <1>1, <1>2, <1>4, <1>5 DEF IInv, PhaseInv, BatchSlot
<1>8. OrderInv'
  BY <1>0, <1>1, <1>2, <1>3, <1>4, <1>5 DEF IInv, OrderInv, BatchSlot
<1>9. ChainInv'
  <2>1. PICK off \in [0 .. Total -> Nat] : Chain(off)
    BY <1>0 DEF IInv, ChainInv
  <2>2. Chain(off)' /\ Total' = Total
    BY <1>1, <1>2, <1>3, <1>4, <1>5, <2>1, ChainFrame, Zenon
  <2>3. \E po \in [0 .. c -> Nat] : StageChain(po)
    BY <1>0, <1>1 DEF IInv, ChainInv
  <2>4. \E po \in [0 .. c -> Nat] : StageChain(po)'
    BY <1>2, <2>3, Zenon DEF StageChain, StagedSizes
  <2>. QED
    BY <1>2, <2>2, <2>4 DEF ChainInv
<1>. QED
  BY <1>6, <1>7, <1>8, <1>9 DEF IInv

\* request_copy_job_func extends the batch by one record and its timers.
LEMMA CopyRequestStep == ASSUME NEW ts \in TimerSeqs PROVE IInv /\ CopyRequest(ts) => IInv'
<1>0. SUFFICES ASSUME IInv, CopyRequest(ts) PROVE IInv'
  OBVIOUS
<1>. DEFINE c == batch.created
            rec == [time |-> launch, counter |-> request_pool_counter + c,
                    active |-> TRUE, timers_start |-> 0, timers_cnt |-> 0]
<1>1. /\ holder = "copy" /\ c < FreeSlots
      /\ request_pool' = [request_pool EXCEPT ![Wrap(in + c, RequestPoolSize)] = rec]
      /\ staged' = [staged EXCEPT ![c] = ts]
      /\ batch' = [batch EXCEPT !.created = c + 1, !.timers = batch.timers + Len(ts)]
  BY <1>0, Zenon DEF CopyRequest, BatchSlot
<1>2. UNCHANGED <<in, out, request_pool_counter, timer_pool, timer_size, timer_in,
                  timer_out, timertags_cnt, launch, holder, first, from>>
  BY <1>0, Zenon DEF CopyRequest, timerVars
<1>3. /\ TypeOK /\ first = out /\ Held = Live
      /\ Held \in Nat /\ c \in Nat /\ Held + c < RequestPoolSize
  BY <1>0, <1>1, CopyPhase
<1>4. /\ Held' = Held /\ Live' = Live /\ TimersLive' = TimersLive /\ FreeSlots' = FreeSlots
  BY <1>2, Zenon DEF Held, Live, TimersLive, FreeSlots
<1>5. /\ \A k \in 0 .. Held - 1 : request_pool'[Wrap(first + k, RequestPoolSize)]
                                  = request_pool[Wrap(first + k, RequestPoolSize)]
      /\ \A k \in 0 .. c - 1 : request_pool'[Wrap(in + k, RequestPoolSize)]
                               = request_pool[Wrap(in + k, RequestPoolSize)]
      /\ request_pool'[Wrap(in + c, RequestPoolSize)] = rec
  BY <1>1, <1>3, CopySlot, Zenon
<1>6. /\ Len(ts) \in Nat
      /\ batch \in Batches /\ c + 1 \in Nat /\ batch.timers + Len(ts) \in Nat
  BY <1>3, TimerSeqFacts DEF TypeOK, Batches
<1>7. batch' = [created |-> c + 1, timers |-> batch.timers + Len(ts), prefix |-> batch.prefix,
                merged |-> batch.merged, added |-> batch.added]
  BY <1>1, <1>6, Zenon DEF Batches
<1>8. batch' \in Batches
  BY <1>6, <1>7 DEF Batches
<1>9. TypeOK'
  <2>1. rec \in Record
    <3>1. launch \in Nat /\ request_pool_counter \in Nat
      BY <1>3, Zenon DEF TypeOK
    <3>2. request_pool_counter + c \in Nat
      BY ONLY <3>1, <1>3
    <3>. QED
      BY <3>1, <3>2, Zenon DEF Record
  <2>2. c \in Slots
    BY <1>3, RingsAssumption DEF Slots
  <2>. QED
    BY <1>1, <1>2, <1>3, <1>8, <2>1, <2>2, Zenon DEF TypeOK, Batches
<1>10. PhaseInv'
  <2>1. batch.merged = 0 /\ batch.added = 0
        /\ \A k \in 0 .. c - 1 : request_pool[Wrap(in + k, RequestPoolSize)].timers_cnt = 0
    BY <1>0, <1>1 DEF IInv, PhaseInv, BatchSlot
  <2>2. \A k \in 0 .. c : request_pool'[Wrap(in + k, RequestPoolSize)].timers_cnt = 0
    BY <1>3, <1>5, <2>1
  <2>3. c + 1 <= FreeSlots
    BY <1>1, <1>3, Positions, RingsAssumption
  <2>. QED
    BY <1>1, <1>2, <1>3, <1>4, <1>7, <2>1, <2>2, <2>3 DEF PhaseInv, BatchSlot
<1>11. OrderInv'
  <2>1. Admitted = request_pool_counter /\ Admitted' = request_pool_counter
    BY <1>1, <1>2, <1>3 DEF Admitted, TypeOK
  <2>2. \A k \in 0 .. c :
           LET r == request_pool'[Wrap(in + k, RequestPoolSize)] IN
           r.active /\ r.counter = request_pool_counter + k /\ r.time = launch
    BY <1>0, <1>3, <1>5, <2>1 DEF IInv, OrderInv, BatchSlot
  <2>3. \A k \in 0 .. Live - 1 :
           LET r == request_pool'[Wrap(out + k, RequestPoolSize)] IN
           /\ r.active
           /\ r.counter = request_pool_counter - Live + k
           /\ r.time < launch
           /\ \A m \in 0 .. k - 1 :
                 request_pool'[Wrap(out + m, RequestPoolSize)].time <= r.time
    BY <1>0, <1>3, <1>5, <2>1 DEF IInv, OrderInv
  <2>. QED
    BY <1>1, <1>2, <1>3, <1>4, <1>7, <2>1, <2>2, <2>3 DEF OrderInv, BatchSlot
<1>12. ChainInv'
  <2>1. PICK off \in [0 .. Total -> Nat] : Chain(off)
    BY <1>0 DEF IInv, ChainInv
  <2>2. Chain(off)' /\ Total' = Total
    BY <1>1, <1>2, <1>3, <1>4, <1>5, <2>1, ChainFrame, Zenon
  <2>3. PICK po \in [0 .. c -> Nat] : StageChain(po)
    BY <1>0, <1>1 DEF IInv, ChainInv
  <2>4. PICK po2 \in [0 .. c + 1 -> Nat] :
          po2 = [k \in 0 .. c + 1 |-> IF k <= c THEN po[k] ELSE po[c] + Len(ts)]
    BY <1>3, <1>6
  <2>5. StagedSizes' = [k \in 0 .. c |-> IF k < c THEN StagedSizes[k] ELSE Len(ts)]
    <3>1. batch'.created = c + 1 /\ c \in Slots /\ staged \in [Slots -> TimerSeqs]
      BY <1>3, <1>7, RingsAssumption DEF Slots, TypeOK
    <3>2. \A k \in 0 .. c - 1 : k \in Slots /\ k # c
      BY <1>3, RingsAssumption DEF Slots
    <3>. QED
      BY <1>1, <1>3, <3>1, <3>2 DEF StagedSizes
  <2>6. StageChain(po2)'
    <3>1. RunningTotal(po, StagedSizes, c) /\ po[c] = batch.timers
      BY <2>3 DEF StageChain
    <3>2. RunningTotal(po2, StagedSizes', c + 1)
      <4>1. PICK sz : sz = StagedSizes'
        OBVIOUS
      <4>2. PICK n \in Nat : n = c
        BY <1>3
      <4>3. sz[n] = Len(ts) /\ sz[n] \in Nat /\ \A k \in 0 .. n - 1 : sz[k] = StagedSizes[k]
        BY <1>6, <2>5, <4>1, <4>2
      <4>4. po2[n + 1] = po[n] + sz[n] /\ \A k \in 0 .. n : po2[k] = po[k]
        BY <2>4, <4>2, <4>3
      <4>5. po \in [0 .. n -> Nat] /\ RunningTotal(po, StagedSizes, n)
        BY <3>1, <4>2
      <4>6. RunningTotal(po2, sz, n + 1)
        BY <4>3, <4>4, <4>5, RunningTotalAppend, Zenon
      <4>. QED
        BY <4>1, <4>2, <4>6
    <3>3. batch'.created = c + 1 /\ batch'.timers = batch.timers + Len(ts)
      BY <1>7
    <3>4. po2[c + 1] = batch.timers + Len(ts)
      BY <1>3, <2>4, <3>1
    <3>. QED
      BY <3>2, <3>3, <3>4, Zenon DEF StageChain, RunningTotal
  <2>7. \E po3 \in [0 .. batch'.created -> Nat] : StageChain(po3)'
    BY <1>7, <2>6
  <2>. QED
    BY <2>2, <2>7, Zenon DEF ChainInv
<1>. QED
  BY <1>9, <1>10, <1>11, <1>12 DEF IInv

\* A batch without timers, or one that timer_pool_add rejects, goes straight to
\* publication.
LEMMA ReserveNothingStep == IInv /\ ReserveNothing => IInv'
<1>0. SUFFICES ASSUME IInv, ReserveNothing PROVE IInv'
  OBVIOUS
<1>1. /\ holder = "copy" /\ holder' = "publish"
      /\ request_pool_counter' = request_pool_counter + batch.created
  BY <1>0, Zenon DEF ReserveNothing
<1>2. UNCHANGED <<request_pool, in, out, timer_pool, timer_size, timer_in,
                  timer_out, timertags_cnt, launch, batch, staged, first, from>>
  BY <1>0, Zenon DEF ReserveNothing, timerVars
<1>3. /\ TypeOK /\ first = out /\ Held = Live /\ Held \in Nat /\ batch.created \in Nat
  BY <1>0, <1>1, CopyPhase
<1>4. /\ Held' = Held /\ Live' = Live /\ TimersLive' = TimersLive /\ FreeSlots' = FreeSlots
  BY <1>2, Zenon DEF Held, Live, TimersLive, FreeSlots
<1>5. TypeOK'
  <2>1. request_pool_counter' \in Nat
    BY <1>1, <1>3 DEF TypeOK
  <2>2. holder' \in Holders
    BY <1>1 DEF Holders
  <2>. QED
    BY <1>2, <1>3, <2>1, <2>2, Zenon DEF TypeOK
<1>6. PhaseInv'
  BY <1>0, <1>1, <1>2, <1>4 DEF IInv, PhaseInv, BatchSlot
<1>7. OrderInv'
  <2>1. Admitted' = Admitted
    BY <1>1, <1>2, <1>3 DEF Admitted, TypeOK
  <2>. QED
    BY <1>0, <1>1, <1>2, <1>4, <2>1 DEF IInv, OrderInv, BatchSlot
<1>8. ChainInv'
  <2>1. PICK off \in [0 .. Total -> Nat] : Chain(off)
    BY <1>0 DEF IInv, ChainInv
  <2>2. Chain(off)' /\ Total' = Total
    BY <1>1, <1>2, <1>3, <1>4, <2>1, ChainFrame
  <2>. QED
    BY <1>1, <2>2 DEF ChainInv
<1>. QED
  BY <1>5, <1>6, <1>7, <1>8 DEF IInv

\* The state between two operations.
LEMMA IdlePhase ==
    ASSUME IInv, holder = "none"
    PROVE  /\ TypeOK
           /\ first = out /\ Held = Live /\ DeletedCnt = 0
           /\ pinba_pool_num_records(first, out, RequestPoolSize) = 0
           /\ Held \in Nat
           /\ batch.created = 0 /\ batch.timers = 0 /\ batch.prefix = 0
           /\ batch.merged = 0 /\ batch.added = 0
<1>1. TypeOK /\ first = out
  BY DEF IInv, PhaseInv
<1>2. /\ batch.created = 0 /\ batch.timers = 0 /\ batch.prefix = 0
      /\ batch.merged = 0 /\ batch.added = 0
  BY DEF IInv, PhaseInv
<1>3. /\ Held = Live /\ DeletedCnt = 0
      /\ pinba_pool_num_records(first, out, RequestPoolSize) = 0
  BY <1>1 DEF Held, Live, DeletedCnt, pinba_pool_num_records
<1>. QED
  BY <1>1, <1>2, <1>3, Positions

\* Expiration starts with no deleted record and no released timer.
LEMMA LockForExpireStep ==
    ASSUME NEW cut \in Nat PROVE IInv /\ LockForExpire(cut) => IInv'
<1>0. SUFFICES ASSUME IInv, LockForExpire(cut) PROVE IInv'
  OBVIOUS
<1>1. holder = "none" /\ holder' = "expire" /\ from' = cut
  BY <1>0, Zenon DEF LockForExpire
<1>2. UNCHANGED <<request_pool, in, out, request_pool_counter, timer_pool, timer_size, timer_in,
                  timer_out, timertags_cnt, launch, batch, staged, first>>
  BY <1>0, Zenon DEF LockForExpire, requestVars, timerVars
<1>3. /\ TypeOK /\ first = out /\ Held = Live /\ Held \in Nat /\ DeletedCnt = 0
      /\ batch.created = 0 /\ batch.timers = 0 /\ batch.prefix = 0
      /\ batch.merged = 0 /\ batch.added = 0
  BY <1>0, <1>1, IdlePhase
<1>4. /\ Held' = Held /\ Live' = Live /\ TimersLive' = TimersLive /\ DeletedCnt' = 0
  BY <1>2, <1>3, Zenon DEF Held, Live, TimersLive, DeletedCnt
<1>5. TypeOK'
  <2>1. holder' \in Holders
    BY <1>1 DEF Holders
  <2>. QED
    BY <1>1, <1>2, <1>3, <2>1, Zenon DEF TypeOK
<1>6. PhaseInv'
  BY <1>1, <1>2, <1>3, <1>4 DEF PhaseInv
<1>7. OrderInv'
  <2>1. Admitted' = Admitted
    BY <1>1, <1>2, <1>3 DEF Admitted, TypeOK
  <2>. QED
    BY <1>0, <1>2, <1>3, <1>4, <2>1 DEF IInv, OrderInv, BatchSlot
<1>8. ChainInv'
  <2>1. PICK off \in [0 .. Total -> Nat] : Chain(off)
    BY <1>0 DEF IInv, ChainInv
  <2>2. Chain(off)' /\ Total' = Total
    BY <1>1, <1>2, <1>3, <1>4, <2>1, ChainFrame
  <2>. QED
    BY <1>1, <2>2 DEF ChainInv
<1>. QED
  BY <1>5, <1>6, <1>7, <1>8 DEF IInv

\* DELETE FROM request starts with every published record held.
LEMMA LockForDeleteStep == IInv /\ LockForDelete => IInv'
<1>0. SUFFICES ASSUME IInv, LockForDelete PROVE IInv'
  OBVIOUS
<1>1. holder = "none" /\ holder' = "delete"
  BY <1>0, Zenon DEF LockForDelete
<1>2. UNCHANGED <<request_pool, in, out, request_pool_counter, timer_pool, timer_size, timer_in,
                  timer_out, timertags_cnt, launch, batch, staged, first, from>>
  BY <1>0, Zenon DEF LockForDelete, requestVars, timerVars
<1>3. /\ TypeOK /\ first = out /\ Held = Live /\ Held \in Nat
      /\ pinba_pool_num_records(first, out, RequestPoolSize) = 0
      /\ batch.created = 0 /\ batch.timers = 0 /\ batch.prefix = 0
      /\ batch.merged = 0 /\ batch.added = 0
  BY <1>0, <1>1, IdlePhase
<1>4. /\ Held' = Held /\ Live' = Live /\ TimersLive' = TimersLive
  BY <1>2, Zenon DEF Held, Live, TimersLive
<1>5. TypeOK'
  <2>1. holder' \in Holders
    BY <1>1 DEF Holders
  <2>. QED
    BY <1>2, <1>3, <2>1, Zenon DEF TypeOK
<1>6. PhaseInv'
  BY <1>1, <1>2, <1>3, <1>4 DEF PhaseInv
<1>7. OrderInv'
  <2>1. Admitted' = Admitted
    BY <1>1, <1>2, <1>3 DEF Admitted, TypeOK
  <2>. QED
    BY <1>0, <1>1, <1>2, <1>3, <1>4, <2>1 DEF IInv, OrderInv, BatchSlot
<1>8. ChainInv'
  <2>1. PICK off \in [0 .. Total -> Nat] : Chain(off)
    BY <1>0 DEF IInv, ChainInv
  <2>2. Chain(off)' /\ Total' = Total
    BY <1>1, <1>2, <1>3, <1>4, <2>1, ChainFrame
  <2>. QED
    BY <1>1, <2>2 DEF ChainInv
<1>. QED
  BY <1>5, <1>6, <1>7, <1>8 DEF IInv

\* Advancing one end of a ring.
LEMMA RingAdvance ==
    ASSUME NEW size \in Nat, NEW i \in 0 .. size - 1, NEW o \in 0 .. size - 1
    PROVE  /\ \A c \in Nat : pinba_pool_num_records(i, o, size) + c < size =>
                 /\ Wrap(i + c, size) \in 0 .. size - 1
                 /\ pinba_pool_num_records(Wrap(i + c, size), o, size)
                    = pinba_pool_num_records(i, o, size) + c
           /\ \A d \in 0 .. pinba_pool_num_records(i, o, size) :
                 /\ Wrap(o + d, size) \in 0 .. size - 1
                 /\ pinba_pool_num_records(i, Wrap(o + d, size), size)
                    = pinba_pool_num_records(i, o, size) - d
BY DEF pinba_pool_num_records, Wrap

\* Two moves along a ring are one.
LEMMA RingShift ==
    ASSUME NEW size \in Nat, NEW o \in 0 .. size - 1, NEW a \in Nat, NEW b \in Nat,
           a + b < size
    PROVE  /\ Wrap(o + a, size) \in 0 .. size - 1
           /\ Wrap(Wrap(o + a, size) + b, size) = Wrap(o + (a + b), size)
           /\ Wrap(o + (b + a), size) = Wrap(o + (a + b), size)
           /\ Wrap(o + (a + b), size) \in 0 .. size - 1
           /\ a + b # 0 => Wrap(o + (a + b), size) # o
BY DEF Wrap

\* pinba_pool_init of the request ring comes after the last held record is gone.
LEMMA ReinitRequestPoolStep == IInv /\ ReinitRequestPool => IInv'
<1>0. SUFFICES ASSUME IInv, ReinitRequestPool PROVE IInv'
  OBVIOUS
<1>1. /\ holder = "delete" /\ first = in
      /\ request_pool' = [s \in Slots |-> NoRecord]
      /\ in' = 0 /\ out' = 0 /\ first' = 0 /\ holder' = "none"
  BY <1>0, Zenon DEF ReinitRequestPool
<1>2. UNCHANGED <<request_pool_counter, timer_pool, timer_size, timer_in,
                  timer_out, timertags_cnt, launch, batch, staged, from>>
  BY <1>0, Zenon DEF ReinitRequestPool, timerVars
<1>3. /\ TypeOK
      /\ batch.created = 0 /\ batch.timers = 0 /\ batch.prefix = 0
      /\ batch.merged = 0 /\ batch.added = 0
  BY <1>0, <1>1 DEF IInv, PhaseInv
<1>4. /\ Held = 0 /\ Held' = 0 /\ Live' = 0 /\ TimersLive' = TimersLive
  BY <1>1, <1>2 DEF Held, Live, TimersLive, pinba_pool_num_records
<1>5. TypeOK'
  <2>1. holder' \in Holders
    BY <1>1 DEF Holders
  <2>2. 0 \in Slots
    BY RingsAssumption DEF Slots
  <2>3. NoRecord \in Record
    BY DEF NoRecord, Record
  <2>4. request_pool' \in [Slots -> Record]
    BY <1>1, <2>3
  <2>. QED
    BY <1>1, <1>2, <1>3, <2>1, <2>2, <2>4, Zenon DEF TypeOK
<1>6. PhaseInv'
  BY <1>1, <1>2, <1>3 DEF PhaseInv
<1>7. OrderInv'
  BY <1>1, <1>2, <1>3, <1>4 DEF OrderInv
<1>8. ChainInv'
  <2>1. PICK off \in [0 .. Total -> Nat] : Chain(off)
    BY <1>0 DEF IInv, ChainInv
  <2>2. Total = 0 /\ Total' = 0 /\ Placed' = 0
    BY <1>1, <1>4 DEF Total, Placed
  <2>3. off[0] = 0 /\ TimersLive = 0
    BY <2>1, <2>2 DEF Chain, RunningTotal
  <2>4. Chain(off)'
    BY <1>1, <1>4, <2>2, <2>3 DEF Chain, RunningTotal
  <2>. QED
    BY <1>1, <2>1, <2>2, <2>4 DEF ChainInv
<1>. QED
  BY <1>5, <1>6, <1>7, <1>8 DEF IInv

\* Publishing moves `in' over the records of the batch, which become held.
LEMMA PublishStep == IInv /\ Publish => IInv'
<1>0. SUFFICES ASSUME IInv, Publish PROVE IInv'
  OBVIOUS
<1>1. /\ holder = "publish" \/ (holder = "merge" /\ batch.merged = batch.created)
      /\ in' = Wrap(in + batch.created, RequestPoolSize)
      /\ batch' = NoBatch
      /\ staged' = [k \in Slots |-> <<>>]
      /\ launch' = launch + 1
      /\ holder' = "none"
  BY <1>0, Zenon DEF Publish
<1>2. UNCHANGED <<request_pool, out, request_pool_counter, timer_pool, timer_size,
                  timer_in, timer_out, timertags_cnt, first, from>>
  BY <1>0, Zenon DEF Publish, timerVars
<1>3. /\ TypeOK /\ first = out /\ Held = Live /\ Held \in Nat /\ batch.created \in Nat
      /\ Held + batch.created < RequestPoolSize
  BY <1>0, <1>1, CopyPhase
<1>4. PICK c \in Nat : c = batch.created
  BY <1>3
<1>5. /\ in \in 0 .. RequestPoolSize - 1 /\ out \in 0 .. RequestPoolSize - 1
      /\ first \in 0 .. RequestPoolSize - 1 /\ RequestPoolSize \in Nat
  BY <1>3, RingsAssumption DEF TypeOK, Slots
<1>6. /\ in' \in Slots /\ Held' = Held + c /\ Live' = Held + c /\ TimersLive' = TimersLive
  <2>1. in' \in Slots /\ Held' = Held + c
    BY <1>1, <1>2, <1>3, <1>4, <1>5, RingAdvance DEF Held, Slots
  <2>2. Live' = Held' /\ TimersLive' = TimersLive
    BY <1>2, <1>3 DEF Live, Held, TimersLive
  <2>. QED
    BY <2>1, <2>2
<1>7. TypeOK'
  <2>1. holder' \in Holders /\ batch' \in Batches /\ launch' \in Nat
    BY <1>1, <1>3 DEF Holders, NoBatch, Batches, TypeOK
  <2>2. staged' \in [Slots -> TimerSeqs]
    <3>1. <<>> \in TimerSeqs
      BY RingsAssumption DEF TimerSeqs
    <3>. QED
      BY <1>1, <3>1
  <2>. QED
    BY <1>2, <1>3, <1>6, <2>1, <2>2, Zenon DEF TypeOK, Batches
<1>8. PhaseInv'
  BY <1>1, <1>2, <1>3 DEF PhaseInv, NoBatch
<1>9. \A k \in 0 .. c - 1 : Wrap(in + k, RequestPoolSize)
                            = Wrap(first + (Held + k), RequestPoolSize)
  <2>1. \A k \in 0 .. c - 1 : k \in Nat /\ Held + k < RequestPoolSize
    BY <1>3, <1>4, <1>5
  <2>. QED
    BY <1>3, <2>1, HeldSlots
<1>10. OrderInv'
  <2>1. Admitted' = Admitted + c
    <3>1. request_pool_counter \in Nat
      BY <1>3 DEF TypeOK
    <3>. QED
      BY <1>1, <1>2, <1>4, <3>1 DEF Admitted
  <2>0. \A k \in 0 .. Held + c - 1 : request_pool[Wrap(out + k, RequestPoolSize)].time \in Nat
    <3>. TAKE k \in 0 .. Held + c - 1
    <3>1. k \in 0 .. RequestPoolSize - 1
      BY <1>3, <1>4, <1>5
    <3>2. Wrap(out + k, RequestPoolSize) \in Slots
      BY <1>3, <3>1, HeldSlots
    <3>. QED
      BY <1>3, <3>2 DEF TypeOK, Record
  <2>2. Admitted \in Int /\ launch \in Nat
    BY <1>1, <1>3 DEF Admitted, TypeOK
  <2>3. \A k \in 0 .. Held - 1 :
           LET r == request_pool[Wrap(out + k, RequestPoolSize)] IN
           r.active /\ r.counter = Admitted - Held + k /\ r.time < launch
    BY <1>0, <1>3 DEF IInv, OrderInv
  <2>4. \A k \in 0 .. Held - 1 : \A m \in 0 .. k - 1 :
           request_pool[Wrap(out + m, RequestPoolSize)].time
           <= request_pool[Wrap(out + k, RequestPoolSize)].time
    BY <1>0, <1>3 DEF IInv, OrderInv
  <2>5. \A k \in Held .. Held + c - 1 :
           LET r == request_pool[Wrap(out + k, RequestPoolSize)] IN
           r.active /\ r.counter = Admitted + (k - Held) /\ r.time = launch
    <3>. TAKE k \in Held .. Held + c - 1
    <3>1. k - Held \in 0 .. c - 1 /\ Held + (k - Held) = k
      BY <1>3
    <3>2. Wrap(in + (k - Held), RequestPoolSize) = Wrap(out + k, RequestPoolSize)
      BY <1>3, <1>9, <3>1
    <3>. QED
      BY <1>0, <1>4, <3>1, <3>2 DEF IInv, OrderInv, BatchSlot
  <2>6. \A k \in 0 .. Held + c - 1 :
           LET r == request_pool[Wrap(out + k, RequestPoolSize)] IN
           r.active /\ r.counter = Admitted' - (Held + c) + k /\ r.time < launch + 1
    <3>. TAKE k \in 0 .. Held + c - 1
    <3>1. CASE k < Held
      <4>1. k \in 0 .. Held - 1
        BY <1>3, <3>1
      <4>. QED
        BY <1>3, <2>0, <2>1, <2>2, <2>3, <4>1
    <3>2. CASE k >= Held
      <4>1. k \in Held .. Held + c - 1
        BY <1>3, <3>2
      <4>. QED
        BY <1>3, <2>1, <2>2, <2>5, <4>1
    <3>. QED
      BY <1>3, <3>1, <3>2
  <2>7. \A k \in 0 .. Held + c - 1 : \A m \in 0 .. k - 1 :
           request_pool[Wrap(out + m, RequestPoolSize)].time
           <= request_pool[Wrap(out + k, RequestPoolSize)].time
    <3>. TAKE k \in 0 .. Held + c - 1
    <3>. TAKE m \in 0 .. k - 1
    <3>1. CASE k < Held
      BY <1>3, <2>4, <3>1
    <3>2. CASE k >= Held /\ m < Held
      <4>1. request_pool[Wrap(out + m, RequestPoolSize)].time \in Nat
        BY <1>3, <2>0, <3>2
      <4>. QED
        BY <1>3, <2>2, <2>3, <2>5, <3>2, <4>1
    <3>3. CASE m >= Held
      BY <1>3, <2>2, <2>5, <3>3
    <3>. QED
      BY <1>3, <3>1, <3>2, <3>3
  <2>. QED
    <3>1. batch'.created = 0 /\ launch' = launch + 1 /\ out' = out /\ Live' = Held + c
          /\ request_pool' = request_pool /\ holder' # "expire"
      BY <1>1, <1>2, <1>6 DEF NoBatch
    <3>2. \A k \in 0 .. Live' - 1 :
             LET r == request_pool'[Wrap(out' + k, RequestPoolSize)] IN
             /\ r.active
             /\ r.counter = Admitted' - Live' + k
             /\ r.time < launch'
             /\ \A m \in 0 .. k - 1 :
                   request_pool'[Wrap(out' + m, RequestPoolSize)].time <= r.time
      <4>. TAKE k \in 0 .. Live' - 1
      <4>1. k \in 0 .. Held + c - 1
        BY <1>3, <3>1
      <4>2. request_pool'[Wrap(out' + k, RequestPoolSize)]
            = request_pool[Wrap(out + k, RequestPoolSize)]
        BY <3>1
      <4>3. \A m \in 0 .. k - 1 : request_pool'[Wrap(out' + m, RequestPoolSize)]
                                  = request_pool[Wrap(out + m, RequestPoolSize)]
        BY <3>1
      <4>. QED
        BY <2>6, <2>7, <3>1, <4>1, <4>2, <4>3
    <3>3. 0 .. batch'.created - 1 = {}
      BY <3>1
    <3>. QED
      BY <3>1, <3>2, <3>3, Zenon DEF OrderInv
<1>11. ChainInv'
  <2>1. PICK off \in [0 .. Total -> Nat] : Chain(off)
    BY <1>0 DEF IInv, ChainInv
  <2>2. Total' = Held + c /\ Placed' = Held + c
    BY <1>1, <1>3, <1>6 DEF Total, Placed
  <2>3. Sizes' = [k \in 0 .. Held + c - 1 |->
                     request_pool[Wrap(first + k, RequestPoolSize)].timers_cnt]
    BY <1>2, <1>3, <2>2 DEF Sizes, SizeOf, HeldSlot
  <2>4. CASE holder = "merge"
    <3>1. Total = Held + c /\ Placed = Held + c
      BY <1>1, <1>4, <2>4 DEF Total, Placed
    <3>2. Sizes' = Sizes
      <4>1. Sizes = [k \in 0 .. Held + c - 1 |->
                        request_pool[Wrap(first + k, RequestPoolSize)].timers_cnt]
        BY <1>3, <3>1 DEF Sizes, SizeOf, HeldSlot
      <4>. QED
        BY <2>3, <4>1
    <3>3. \A k \in 0 .. Placed - 1 : Owns(HeldSlot(k), off[k]) => Owns(HeldSlot(k), off[k])'
      BY <1>2 DEF Owns, HeldSlot
    <3>4. Chain(off)'
      BY <1>1, <1>6, <2>1, <2>2, <3>1, <3>2, <3>3 DEF Chain, RunningTotal
    <3>. QED
      BY <1>1, <2>2, <3>1, <3>4 DEF ChainInv
  <2>5. CASE holder = "publish"
    <3>1. Total = Held /\ Placed = Held
      BY <1>3, <2>5 DEF Total, Placed
    <3>2. PICK n \in Nat : n = Held
      BY <1>3
    <3>a. off \in [0 .. n -> Nat]
      BY <3>1, <3>2
    <3>3. PICK off2 \in [0 .. n + c -> Nat] :
             off2 = [k \in 0 .. n + c |-> IF k <= n THEN off[k] ELSE off[n]]
      <4>1. \A k \in 0 .. n : off[k] \in Nat
        BY <3>a
      <4>2. \A k \in 0 .. n + c : (IF k <= n THEN off[k] ELSE off[n]) \in Nat
        BY <4>1
      <4>. QED
        BY <4>2
    <3>4. \A k \in 0 .. n + c - 1 : request_pool[Wrap(first + k, RequestPoolSize)].timers_cnt
                                    = (IF k < n THEN Sizes[k] ELSE 0)
      <4>. TAKE k \in 0 .. n + c - 1
      <4>1. CASE k < n
        BY <3>1, <3>2, <4>1 DEF Sizes, SizeOf, HeldSlot
      <4>2. CASE k >= n
        <5>1. k - n \in 0 .. c - 1 /\ n + (k - n) = k
          BY <4>2
        <5>2. request_pool[Wrap(in + (k - n), RequestPoolSize)].timers_cnt = 0
          BY <1>0, <1>4, <2>5, <5>1 DEF IInv, PhaseInv, BatchSlot
        <5>. QED
          BY <1>9, <3>2, <4>2, <5>1, <5>2
      <4>. QED
        BY <4>1, <4>2
    <3>5. RunningTotal(off, Sizes, n) /\ off[n] = TimersLive
      BY <2>1, <3>1, <3>2 DEF Chain
    <3>6. RunningTotal(off2, Sizes', n + c)
      <4>1. PICK sz : sz = Sizes'
        OBVIOUS
      <4>2. PICK z \in [0 .. c -> Nat] : z = [k \in 0 .. c |-> 0]
        OBVIOUS
      <4>3. RunningTotal(z, z, c)
        BY <4>2 DEF RunningTotal
      <4>4. Joined(sz, Sizes, n, z, c)
        <5>1. \A k \in 0 .. n + c - 1 : sz[k] = (IF k < n THEN Sizes[k] ELSE 0)
          BY <2>3, <3>2, <3>4, <4>1
        <5>2. \A k \in 0 .. n - 1 : sz[k] = Sizes[k]
          BY <5>1
        <5>3. \A k \in n .. n + c - 1 : sz[k] = z[k - n]
          BY <4>2, <5>1
        <5>. QED
          BY <5>2, <5>3 DEF Joined
      <4>5. Stacked(off2, off, n, z, c)
        BY <3>a, <3>3, <4>2 DEF Stacked
      <4>6. RunningTotal(off2, sz, n + c)
        BY <3>a, <3>5, <4>2, <4>3, <4>4, <4>5, RunningTotalConcat
      <4>. QED
        BY <4>1, <4>6
    <3>7. off2[n + c] = TimersLive
      BY <3>3, <3>5
    <3>8. 0 \notin TagCounts => \A k \in 0 .. n + c - 1 :
             Owns(Wrap(first + k, RequestPoolSize), off2[k])'
      <4>1. \A k \in n .. n + c - 1 :
               request_pool[Wrap(first + k, RequestPoolSize)].timers_cnt = 0
        BY <3>4
      <4>2. \A k \in n .. n + c - 1 : Owns(Wrap(first + k, RequestPoolSize), off2[k])'
        BY <1>2, <4>1 DEF Owns
      <4>3. 0 \notin TagCounts => \A k \in 0 .. n - 1 :
               Owns(Wrap(first + k, RequestPoolSize), off[k])
        BY <2>1, <3>1, <3>2 DEF Chain, HeldSlot
      <4>4. 0 \notin TagCounts => \A k \in 0 .. n - 1 :
               Owns(Wrap(first + k, RequestPoolSize), off2[k])'
        <5>1. SUFFICES ASSUME 0 \notin TagCounts, NEW k \in 0 .. n - 1
                       PROVE  Owns(Wrap(first + k, RequestPoolSize), off2[k])'
          OBVIOUS
        <5>2. PICK x : x = off[k]
          OBVIOUS
        <5>3. off2[k] = x
          BY <3>3, <5>2
        <5>4. PICK s : s = Wrap(first + k, RequestPoolSize)
          OBVIOUS
        <5>5. Owns(s, x)
          BY <4>3, <5>1, <5>2, <5>4
        <5>6. Owns(s, x)'
          BY <1>2, <5>5, Zenon DEF Owns
        <5>. QED
          BY <1>2, <5>3, <5>4, <5>6, Zenon DEF Owns
      <4>. QED
        BY <4>2, <4>4
    <3>9. Chain(off2)'
      BY <1>1, <1>2, <1>6, <2>2, <3>2, <3>6, <3>7, <3>8 DEF Chain, RunningTotal, HeldSlot
    <3>. QED
      BY <1>1, <2>2, <3>2, <3>9 DEF ChainInv
  <2>. QED
    BY <1>1, <2>4, <2>5
<1>. QED
  BY <1>7, <1>8, <1>10, <1>11 DEF IInv
=============================================================================
