---------------------------- MODULE RingsReserve -----------------------------
(***************************************************************************)
(* Reserving a batch's timers without growing, and merging them, preserve  *)
(* the invariant of module RingsInvariant: they put records at the end of  *)
(* the chain.                                                              *)
(***************************************************************************)
EXTENDS RingsRemoval

\* The same while a batch is under way: its records keep their place, too.
SameRecords ==
    \A s \in Slots : /\ request_pool'[s].active = request_pool[s].active
                     /\ request_pool'[s].counter = request_pool[s].counter
                     /\ request_pool'[s].time = request_pool[s].time

\* Numbering and order survive a step that keeps times, counters and activity.
LEMMA OrderKeep ==
    ASSUME TypeOK, OrderInv, SameRecords, NEW c \in Nat, c < RequestPoolSize,
           batch.created = c, batch'.created = c, Live' = Live, in' = in, out' = out,
           Admitted' = Admitted, launch' = launch, holder' # "expire"
    PROVE  OrderInv'
<1>1. /\ Live \in 0 .. RequestPoolSize - 1 /\ out \in 0 .. RequestPoolSize - 1
      /\ in \in 0 .. RequestPoolSize - 1 /\ RequestPoolSize \in Nat
  BY Positions, RingsAssumption DEF TypeOK, Slots
<1>2. \A k \in 0 .. Live - 1 : Wrap(out + k, RequestPoolSize) \in Slots
  BY ONLY <1>1 DEF Wrap, Slots
<1>3. \A k \in 0 .. Live' - 1 :
         LET r == request_pool'[Wrap(out' + k, RequestPoolSize)] IN
         /\ r.active
         /\ r.counter = Admitted' - Live' + k
         /\ r.time < launch'
         /\ \A m \in 0 .. k - 1 :
               request_pool'[Wrap(out' + m, RequestPoolSize)].time <= r.time
  <2>. TAKE k \in 0 .. Live' - 1
  <2>1. k \in 0 .. Live - 1 /\ \A m \in 0 .. k - 1 : m \in 0 .. Live - 1
    BY <1>1
  <2>. QED
    BY <1>2, <2>1 DEF OrderInv, SameRecords
<1>4. \A k \in 0 .. c - 1 : Wrap(in + k, RequestPoolSize) \in Slots
  BY ONLY <1>1, c \in Nat, c < RequestPoolSize DEF Wrap, Slots
<1>5. \A k \in 0 .. batch'.created - 1 :
         LET r == request_pool'[BatchSlot(k)'] IN
         r.active /\ r.counter = Admitted' + k /\ r.time = launch'
  BY <1>4 DEF OrderInv, SameRecords, BatchSlot
<1>. QED
  BY <1>3, <1>5, Zenon DEF OrderInv

\* What both ways of reserving a batch's timers do: the timers of the published
\* records may move, together with their records, and the reservation begins
\* where they end.
ReserveEffect ==
    /\ holder = "copy" /\ holder' = "merge"
    /\ batch' = [batch EXCEPT !.prefix = timer_in]
    /\ request_pool_counter' = request_pool_counter + batch.created
    /\ UNCHANGED <<in, out, launch, staged, first, from>>
    /\ timer_size' \in Nat \ {0}
    /\ timer_out' \in 0 .. timer_size' - 1
    /\ timer_in \in 0 .. timer_size' - 1
    /\ timer_pool' \in [0 .. timer_size' - 1 -> Timer]
    /\ request_pool' \in [Slots -> Record]
    /\ SameRecords
    /\ \A s \in Slots : request_pool'[s].timers_cnt = request_pool[s].timers_cnt
    /\ pinba_pool_num_records(timer_in, timer_out', timer_size') = TimersLive
    /\ TimersLive + batch.timers < timer_size'
    /\ timer_in' = Wrap(timer_in + batch.timers, timer_size')
    /\ 0 \notin TagCounts => \A off \in [0 .. Held -> Nat] : Chain(off) =>
          \A k \in 0 .. Held - 1 : Owns(HeldSlot(k), off[k])'

\* What both successful outcomes of timer_pool_add have in common: the batch gets
\* the timer slots behind those of the held records.
LEMMA ReserveCommon == IInv /\ ReserveEffect => IInv'
<1>0. SUFFICES ASSUME IInv, ReserveEffect PROVE IInv'
  OBVIOUS
<1>1. /\ holder = "copy" /\ holder' = "merge"
      /\ batch' = [batch EXCEPT !.prefix = timer_in]
      /\ request_pool_counter' = request_pool_counter + batch.created
  BY <1>0, Zenon DEF ReserveEffect
<1>2. UNCHANGED <<in, out, launch, staged, first, from>>
  BY <1>0, Zenon DEF ReserveEffect
<1>3. /\ TypeOK /\ first = out /\ Held = Live /\ Held \in Nat /\ batch.created \in Nat
      /\ Held + batch.created < RequestPoolSize /\ batch.merged = 0 /\ batch.added = 0
  <2>1. batch.merged = 0 /\ batch.added = 0
    BY <1>0, <1>1 DEF IInv, PhaseInv
  <2>. QED
    BY <1>0, <1>1, <2>1, CopyPhase
<1>4. PICK n \in Nat : n = Held
  BY <1>3
<1>5. PICK c \in Nat : c = batch.created
  BY <1>3
<1>6. PICK tl \in Nat : tl = TimersLive
  BY <1>3, Positions
<1>7. PICK bt \in Nat : bt = batch.timers
  BY <1>3 DEF TypeOK
<1>8. /\ Held' = n /\ Live' = Live
  BY <1>2, <1>4 DEF Held, Live
<1>9. batch' = [created |-> c, timers |-> bt, prefix |-> timer_in, merged |-> 0, added |-> 0]
      /\ batch' \in Batches
  <2>1. batch \in Batches
    BY <1>3 DEF TypeOK, Batches
  <2>2. batch' = [created |-> batch.created, timers |-> batch.timers, prefix |-> timer_in,
                  merged |-> batch.merged, added |-> batch.added]
    BY <1>1, <2>1, Zenon DEF Batches
  <2>3. timer_in \in Nat
    BY <1>3 DEF TypeOK
  <2>. QED
    BY <1>3, <1>5, <1>7, <2>2, <2>3 DEF Batches
<1>10. TimersLive' = tl + bt /\ timer_in' \in 0 .. timer_size' - 1
  <2>1. /\ timer_size' \in Nat /\ timer_out' \in 0 .. timer_size' - 1
        /\ timer_in \in 0 .. timer_size' - 1
        /\ pinba_pool_num_records(timer_in, timer_out', timer_size') = tl
        /\ tl + bt < timer_size'
        /\ timer_in' = Wrap(timer_in + bt, timer_size')
    BY <1>0, <1>6, <1>7 DEF ReserveEffect
  <2>. QED
    BY <2>1, RingAdvance DEF TimersLive
<1>11. TypeOK'
  <2>1. request_pool_counter' \in Nat /\ holder' \in Holders
    BY <1>1, <1>3 DEF TypeOK, Holders
  <2>2. /\ timer_size' \in Nat \ {0} /\ timer_out' \in 0 .. timer_size' - 1
        /\ timer_pool' \in [0 .. timer_size' - 1 -> Timer]
        /\ request_pool' \in [Slots -> Record]
    BY <1>0, Zenon DEF ReserveEffect
  <2>. QED
    BY <1>2, <1>3, <1>9, <1>10, <2>1, <2>2, Zenon DEF TypeOK, Batches
<1>12. SameRecords /\ \A s \in Slots : request_pool'[s].timers_cnt = request_pool[s].timers_cnt
  BY <1>0, Zenon DEF ReserveEffect
<1>13. OrderInv'
  <2>1. Admitted' = Admitted
    <3>1. request_pool_counter \in Nat /\ batch'.created = c
      BY <1>3, <1>9 DEF TypeOK
    <3>. QED
      BY <1>1, <1>5, <3>1 DEF Admitted
  <2>2. c < RequestPoolSize /\ batch'.created = c /\ holder' # "expire" /\ OrderInv
    <3>1. RequestPoolSize \in Nat
      BY RingsAssumption
    <3>. QED
      BY <1>0, <1>1, <1>3, <1>5, <1>9, <3>1 DEF IInv
  <2>. QED
    BY <1>2, <1>3, <1>5, <1>8, <1>12, <2>1, <2>2, OrderKeep
<1>14. \A k \in 0 .. n + c - 1 : Wrap(first + k, RequestPoolSize) \in Slots
  <2>. TAKE k \in 0 .. n + c - 1
  <2>1. k \in 0 .. RequestPoolSize - 1
    BY <1>3, <1>4, <1>5, RingsAssumption
  <2>. QED
    BY <1>3, <2>1, HeldSlots
<1>15. PhaseInv'
  <2>1. FreeSlots' = FreeSlots
    BY <1>8 DEF FreeSlots
  <2>2. batch'.created = c /\ batch'.merged = 0
    BY <1>9
  <2>3. c <= FreeSlots /\ \A k \in 0 .. c - 1 : request_pool[BatchSlot(k)].timers_cnt = 0
    BY <1>0, <1>1, <1>3, <1>5 DEF IInv, PhaseInv
  <2>4. \A k \in 0 .. c - 1 : BatchSlot(k) \in Slots /\ BatchSlot(k)' = BatchSlot(k)
    <3>. TAKE k \in 0 .. c - 1
    <3>1. k \in Nat /\ Held + k < RequestPoolSize
      BY <1>3, <1>4, <1>5, RingsAssumption
    <3>2. Wrap(in + k, RequestPoolSize) = Wrap(first + (Held + k), RequestPoolSize)
      BY <1>3, <3>1, HeldSlots
    <3>3. Held + k \in 0 .. n + c - 1
      BY <1>4, <3>1
    <3>. QED
      BY <1>2, <1>14, <3>2, <3>3 DEF BatchSlot
  <2>5. \A k \in 0 .. c - 1 : request_pool'[BatchSlot(k)'].timers_cnt = 0
    BY <1>12, <2>3, <2>4
  <2>. QED
    BY <1>1, <1>2, <1>3, <2>1, <2>2, <2>3, <2>5 DEF PhaseInv
<1>16. ChainInv'
  <2>1. PICK off \in [0 .. Total -> Nat] : Chain(off)
    BY <1>0 DEF IInv, ChainInv
  <2>2. Total = n /\ Placed = n
    BY <1>1, <1>4 DEF Total, Placed
  <2>3. off \in [0 .. n -> Nat] /\ RunningTotal(off, Sizes, n) /\ off[n] = tl
    BY <1>6, <2>1, <2>2 DEF Chain
  <2>4. PICK po \in [0 .. batch.created -> Nat] : StageChain(po)
    BY <1>0, <1>1 DEF IInv, ChainInv
  <2>5. po \in [0 .. c -> Nat] /\ RunningTotal(po, StagedSizes, c) /\ po[c] = bt
    BY <1>5, <1>7, <2>4 DEF StageChain
  <2>6. PICK off2 \in [0 .. n + c -> Nat] :
           off2 = [k \in 0 .. n + c |-> IF k <= n THEN off[k] ELSE off[n] + po[k - n]]
    <3>1. \A k \in 0 .. n : off[k] \in Nat
      BY <2>3
    <3>2. \A k \in 0 .. c : po[k] \in Nat
      BY <2>5
    <3>3. \A k \in 0 .. n + c : (IF k <= n THEN off[k] ELSE off[n] + po[k - n]) \in Nat
      BY <3>1, <3>2
    <3>. QED
      BY <3>3
  <2>7. Stacked(off2, off, n, po, c)
    <3>1. po[0] = 0 /\ off[n] \in Nat
      BY <2>3, <2>5 DEF RunningTotal
    <3>2. \A k \in 0 .. n : off2[k] = off[k]
      BY <2>6
    <3>3. \A k \in n .. n + c : off2[k] = off[n] + po[k - n]
      <4>. TAKE k \in n .. n + c
      <4>1. CASE k = n
        BY <2>6, <3>1, <4>1
      <4>2. CASE k > n
        BY <2>6, <4>2
      <4>. QED
        BY <4>1, <4>2
    <3>. QED
      BY <3>2, <3>3 DEF Stacked
  <2>8. Total' = n + c /\ Placed' = n
    BY <1>1, <1>8, <1>9 DEF Total, Placed
  <2>9. PICK sz : sz = Sizes'
    OBVIOUS
  <2>10. Joined(sz, Sizes, n, StagedSizes, c)
    <3>1. \A k \in 0 .. n - 1 : sz[k] = Sizes[k]
      <4>. TAKE k \in 0 .. n - 1
      <4>1. k \in 0 .. n + c - 1
        OBVIOUS
      <4>2. Sizes[k] = request_pool[Wrap(first + k, RequestPoolSize)].timers_cnt
        BY <2>2 DEF Sizes, SizeOf, HeldSlot
      <4>3. sz[k] = request_pool'[Wrap(first' + k, RequestPoolSize)].timers_cnt
        BY <2>8, <2>9, <4>1 DEF Sizes, SizeOf, HeldSlot
      <4>. QED
        BY <1>2, <1>12, <1>14, <4>1, <4>2, <4>3
    <3>2. \A k \in n .. n + c - 1 : sz[k] = StagedSizes[k - n]
      <4>. TAKE k \in n .. n + c - 1
      <4>1. k - n \in 0 .. c - 1 /\ k \in 0 .. n + c - 1 /\ ~ (k < n)
        OBVIOUS
      <4>2. StagedSizes[k - n] = Len(staged[k - n])
        BY <1>5, <4>1 DEF StagedSizes
      <4>3. sz[k] = Len(staged'[k - Held'])
        BY <2>8, <2>9, <4>1 DEF Sizes, SizeOf
      <4>. QED
        BY <1>2, <1>8, <4>2, <4>3
    <3>. QED
      BY <3>1, <3>2 DEF Joined
  <2>11. RunningTotal(off2, sz, n + c)
    BY <2>3, <2>5, <2>6, <2>7, <2>10, RunningTotalConcat
  <2>12. off2[n + c] = tl + bt /\ off2[n] = tl
    <3>1. n \in 0 .. n /\ n + c \in n .. n + c /\ (n + c) - n = c
      OBVIOUS
    <3>. QED
      BY <2>3, <2>5, <2>7, <3>1 DEF Stacked
  <2>13. 0 \notin TagCounts => \A k \in 0 .. n - 1 : Owns(HeldSlot(k), off2[k])'
    <3>1. \A k \in 0 .. n - 1 : off2[k] = off[k]
      BY <2>7 DEF Stacked
    <3>2. 0 \notin TagCounts => \A k \in 0 .. n - 1 : Owns(HeldSlot(k), off[k])'
      BY <1>0, <1>4, <2>1, <2>3, Zenon DEF ReserveEffect
    <3>. QED
      BY <3>1, <3>2, Zenon
  <2>14. timer_in = Wrap(timer_out' + tl, timer_size')
    <3>1. /\ timer_size' \in Nat /\ timer_out' \in 0 .. timer_size' - 1
          /\ timer_in \in 0 .. timer_size' - 1
          /\ pinba_pool_num_records(timer_in, timer_out', timer_size') = tl
      BY <1>0, <1>6 DEF ReserveEffect
    <3>. QED
      BY <3>1, RingCount
  <2>15. /\ batch'.prefix = Wrap(timer_out' + off2[n], timer_size')
         /\ off2[n] = off2[n] + batch'.added
    BY <1>9, <2>12, <2>14
  <2>16. Chain(off2)'
    <3>1. RunningTotal(off2, Sizes, Total)'
      BY <2>8, <2>9, <2>11 DEF RunningTotal
    <3>. QED
      BY <1>1, <1>8, <1>10, <2>8, <2>12, <2>13, <2>15, <3>1, Zenon DEF Chain
  <2>. QED
    BY <1>1, <2>8, <2>16 DEF ChainInv
<1>. QED
  BY <1>11, <1>13, <1>15, <1>16 DEF IInv

\* timer_pool_add in a ring with room.
LEMMA ReserveStep == IInv /\ Reserve => IInv'
<1>0. SUFFICES ASSUME IInv, Reserve PROVE ReserveEffect
  BY ReserveCommon
<1>1. /\ holder = "copy" /\ holder' = "merge"
      /\ TimersFit(batch.timers)
      /\ timer_in' = Wrap(timer_in + batch.timers, timer_size)
      /\ batch' = [batch EXCEPT !.prefix = timer_in]
      /\ request_pool_counter' = request_pool_counter + batch.created
  BY <1>0, Zenon DEF Reserve
<1>2. UNCHANGED <<request_pool, in, out, timer_pool, timer_size, timer_out,
                  timertags_cnt, launch, staged, first, from>>
  BY <1>0, Zenon DEF Reserve
<1>3. TypeOK
  BY <1>0 DEF IInv
<1>4. /\ timer_size' \in Nat \ {0} /\ timer_out' \in 0 .. timer_size' - 1
      /\ timer_in \in 0 .. timer_size' - 1
      /\ timer_pool' \in [0 .. timer_size' - 1 -> Timer]
      /\ request_pool' \in [Slots -> Record]
  BY <1>2, <1>3, Zenon DEF TypeOK
<1>5. SameRecords
  BY <1>2 DEF SameRecords
<1>6. /\ pinba_pool_num_records(timer_in, timer_out', timer_size') = TimersLive
      /\ TimersLive + batch.timers < timer_size'
  BY <1>1, <1>2, Zenon DEF TimersFit, TimersLive
<1>7. ASSUME 0 \notin TagCounts, NEW off \in [0 .. Held -> Nat], Chain(off),
             NEW k \in 0 .. Held - 1
      PROVE  Owns(HeldSlot(k), off[k])'
  <2>1. Placed = Held
    BY <1>1, <1>3, Positions DEF Placed
  <2>2. Owns(HeldSlot(k), off[k])
    BY <1>7, <2>1, Zenon DEF Chain
  <2>. QED
    BY <1>2, <2>2 DEF Owns, HeldSlot
<1>. QED
  BY <1>1, <1>2, <1>4, <1>5, <1>6, <1>7, Zenon DEF ReserveEffect

\* merge_timers_func writes a record's timers into the slots reserved for it and
\* into no slot of another record.
LEMMA MergeTimersStep == IInv /\ MergeTimers => IInv'
<1>0. SUFFICES ASSUME IInv, MergeTimers PROVE IInv'
  OBVIOUS
<1>1. holder = "merge" /\ batch.merged < batch.created
  BY <1>0, Zenon DEF MergeTimers
<1>2. UNCHANGED <<in, out, request_pool_counter, timer_size, timer_in, timer_out,
                  launch, holder, staged, first, from>>
  BY <1>0, Zenon DEF MergeTimers
<1>3. /\ TypeOK /\ first = out /\ Held = Live /\ Held \in Nat /\ batch.created \in Nat
      /\ batch.merged \in Nat /\ Held + batch.created < RequestPoolSize
  BY <1>0, <1>1, CopyPhase
<1>4. PICK n \in Nat : n = Held
  BY <1>3
<1>5. PICK k \in Nat : k = batch.merged
  BY <1>3
<1>6. PICK b \in Nat : b = batch.created /\ k < b /\ n + b < RequestPoolSize
  BY <1>1, <1>3, <1>4, <1>5
<1>7. PICK ad \in Nat : ad = batch.added
  BY <1>3 DEF TypeOK
<1>8. PICK ts \in TimerSeqs : ts = staged[k]
  <2>1. k \in Slots
    BY <1>6, RingsAssumption DEF Slots
  <2>. QED
    BY <1>3, <2>1 DEF TypeOK
<1>9. PICK c \in Nat : c = Len(ts)
  BY TimerSeqFacts
<1>10. /\ timer_size \in Nat /\ timer_in \in 0 .. timer_size - 1
       /\ timer_out \in 0 .. timer_size - 1
       /\ timer_pool \in [0 .. timer_size - 1 -> Timer]
       /\ request_pool \in [Slots -> Record]
       /\ RequestPoolSize \in Nat
  BY <1>3, RingsAssumption DEF TypeOK
<1>11. TimersLive \in 0 .. timer_size - 1
  BY <1>3, Positions
<1>12. PICK off \in [0 .. Total -> Nat] : Chain(off)
  BY <1>0 DEF IInv, ChainInv
<1>13. Total = n + b /\ Placed = n + k
  BY <1>1, <1>4, <1>5, <1>6 DEF Total, Placed
<1>14. /\ off \in [0 .. n + b -> Nat] /\ RunningTotal(off, Sizes, n + b)
       /\ off[n + b] = TimersLive
       /\ batch.prefix = Wrap(timer_out + off[n], timer_size)
       /\ off[n + k] = off[n] + ad
  BY <1>1, <1>4, <1>7, <1>12, <1>13 DEF Chain
<1>15. /\ n \in 0 .. n + b /\ n + k \in 0 .. n + b /\ (n + k) + 1 \in 0 .. n + b
       /\ n + b \in 0 .. n + b /\ n + k \in 0 .. n + b - 1 /\ (n + k) + 1 <= n + b
       /\ ~ (n + k < n + k) /\ (n + k) - n = k
  BY ONLY <1>6, n \in Nat, k \in Nat, b \in Nat
<1>16. PICK a \in Nat : a = off[n + k]
  BY <1>14, <1>15
<1>17. /\ off[(n + k) + 1] = a + c /\ a + c <= TimersLive
  <2>1. Sizes[n + k] = c
    BY <1>4, <1>8, <1>9, <1>13, <1>15 DEF Sizes, SizeOf
  <2>2. off[(n + k) + 1] = off[n + k] + Sizes[n + k] /\ off[(n + k) + 1] <= off[n + b]
    BY <1>14, <1>15 DEF RunningTotal
  <2>. QED
    BY <1>14, <1>16, <2>1, <2>2
<1>18. PICK z \in Nat : z = off[n] /\ z + ad = a
  BY <1>14, <1>15, <1>16
<1>19. Wrap(batch.prefix + ad, timer_size) = Wrap(timer_out + a, timer_size)
  <2>1. batch.prefix = Wrap(timer_out + z, timer_size)
    BY <1>14, <1>18
  <2>2. z + ad < timer_size
    BY ONLY <1>10, <1>11, <1>17, <1>18, a \in Nat, c \in Nat
  <2>3. timer_out \in 0 .. timer_size - 1 /\ timer_size \in Nat /\ z + ad = a
    BY <1>10, <1>18
  <2>. QED
    BY ONLY <2>1, <2>2, <2>3, z \in Nat, ad \in Nat DEF Wrap
<1>20. PICK start : start = Wrap(timer_out + a, timer_size)
  OBVIOUS
<1>21. PICK s \in Slots : s = Wrap(in + k, RequestPoolSize)
                          /\ s = Wrap(first + (n + k), RequestPoolSize)
  <2>1. k \in Nat /\ Held + k < RequestPoolSize /\ n + k \in 0 .. RequestPoolSize - 1
    BY <1>4, <1>6, <1>10
  <2>2. Wrap(in + k, RequestPoolSize) = Wrap(first + (Held + k), RequestPoolSize)
    BY <1>3, <2>1, HeldSlots
  <2>3. Wrap(first + (n + k), RequestPoolSize) \in Slots
    BY <1>3, <2>1, HeldSlots
  <2>. QED
    BY <1>4, <2>2, <2>3
<1>22. /\ IF ts = <<>>
          THEN UNCHANGED <<request_pool, timer_pool, timertags_cnt>>
          ELSE /\ request_pool' = [request_pool EXCEPT ![s].timers_start = start,
                                                       ![s].timers_cnt = Len(ts)]
               /\ timer_pool' = [i \in DOMAIN timer_pool |->
                      IF InSpan(i, start, Len(ts))
                      THEN [request_id |-> s, tag_num |-> ts[Offset(i, start) + 1],
                            hit |-> TRUE]
                      ELSE timer_pool[i]]
       /\ batch' = [batch EXCEPT !.merged = k + 1, !.added = ad + c]
  <2>1. BatchSlot(batch.merged) = s /\ staged[batch.merged] = ts /\ Len(ts) = c
        /\ Wrap(batch.prefix + batch.added, timer_size) = start
    BY <1>5, <1>7, <1>8, <1>9, <1>19, <1>20, <1>21 DEF BatchSlot
  <2>. QED
    BY <1>0, <1>5, <1>7, <2>1, Zenon DEF MergeTimers
<1>23. /\ c = 0 => request_pool' = request_pool /\ timer_pool' = timer_pool
       /\ c # 0 => /\ request_pool' = [request_pool EXCEPT ![s].timers_start = start,
                                                           ![s].timers_cnt = c]
                   /\ timer_pool' = [i \in 0 .. timer_size - 1 |->
                         IF InSpan(i, start, c)
                         THEN [request_id |-> s, tag_num |-> ts[Offset(i, start) + 1],
                               hit |-> TRUE]
                         ELSE timer_pool[i]]
  <2>1. ts = <<>> <=> c = 0
    BY <1>9, TimerSeqFacts
  <2>2. DOMAIN timer_pool = 0 .. timer_size - 1
    BY <1>10
  <2>. QED
    BY <1>9, <1>22, <2>1, <2>2, Zenon
<1>24. request_pool[s].timers_cnt = 0
  <2>1. k \in batch.merged .. batch.created - 1
    BY <1>5, <1>6
  <2>. QED
    BY <1>0, <1>1, <1>21, <2>1 DEF IInv, PhaseInv, BatchSlot
<1>25. start \in Nat
  BY ONLY <1>10, <1>11, <1>17, <1>20, a \in Nat, c \in Nat DEF Wrap
<1>26. /\ \A r \in Slots : /\ request_pool'[r] \in Record
                           /\ request_pool'[r].active = request_pool[r].active
                           /\ request_pool'[r].counter = request_pool[r].counter
                           /\ request_pool'[r].time = request_pool[r].time
       /\ \A r \in Slots \ {s} : request_pool'[r] = request_pool[r]
       /\ request_pool'[s].timers_cnt = c
       /\ c > 0 => request_pool'[s].timers_start = start
       /\ request_pool' \in [Slots -> Record]
  <2>1. CASE c = 0
    BY <1>10, <1>23, <1>24, <2>1
  <2>2. CASE c # 0
    <3>1. request_pool' = [request_pool EXCEPT ![s].timers_start = start,
                                               ![s].timers_cnt = c]
      BY <1>23, <2>2, Zenon
    <3>2. request_pool'[s] = [request_pool[s] EXCEPT !.timers_start = start, !.timers_cnt = c]
      BY ONLY <1>10, <3>1, s \in Slots
    <3>3. \A r \in Slots \ {s} : request_pool'[r] = request_pool[r]
      BY ONLY <1>10, <3>1
    <3>4. /\ request_pool'[s] \in Record
          /\ request_pool'[s].active = request_pool[s].active
          /\ request_pool'[s].counter = request_pool[s].counter
          /\ request_pool'[s].time = request_pool[s].time
          /\ request_pool'[s].timers_cnt = c
          /\ request_pool'[s].timers_start = start
      <4>1. request_pool[s] \in Record
        BY <1>10
      <4>. QED
        BY ONLY <1>25, <3>2, <4>1, c \in Nat DEF Record
    <3>5. \A r \in Slots : request_pool'[r] \in Record
      BY ONLY <1>10, <3>3, <3>4
    <3>6. request_pool' = [r \in Slots |-> request_pool'[r]]
      BY ONLY <1>10, <3>1
    <3>. QED
      BY ONLY <3>3, <3>4, <3>5, <3>6
  <2>. QED
    BY <2>1, <2>2
<1>27. batch' = [created |-> b, timers |-> batch.timers, prefix |-> batch.prefix,
                 merged |-> k + 1, added |-> ad + c]
       /\ batch' \in Batches
  <2>1. batch \in Batches /\ batch.timers \in Nat /\ batch.prefix \in Nat
    BY <1>3 DEF TypeOK, Batches
  <2>2. batch' = [created |-> batch.created, timers |-> batch.timers, prefix |-> batch.prefix,
                  merged |-> k + 1, added |-> ad + c]
    BY <1>22, <2>1, Zenon DEF Batches
  <2>. QED
    BY <1>6, <2>1, <2>2 DEF Batches
<1>28. timer_pool' \in [0 .. timer_size - 1 -> Timer]
  <2>1. CASE c = 0
    BY <1>10, <1>23, <2>1
  <2>2. CASE c # 0
    <3>1. \A i \in 0 .. timer_size - 1 : InSpan(i, start, c) =>
             [request_id |-> s, tag_num |-> ts[Offset(i, start) + 1], hit |-> TRUE] \in Timer
      <4>. TAKE i \in 0 .. timer_size - 1
      <4>. HAVE InSpan(i, start, c)
      <4>1. PICK j \in 0 .. c - 1 : j = Offset(i, start)
        BY DEF InSpan
      <4>2. ts[j + 1] \in Nat
        BY <1>9, <4>1, TimerSeqFacts, RingsAssumption
      <4>3. s \in Nat
        BY <1>10 DEF Slots
      <4>. QED
        BY <4>1, <4>2, <4>3 DEF Timer
    <3>2. timer_pool' = [i \in 0 .. timer_size - 1 |->
             IF InSpan(i, start, c)
             THEN [request_id |-> s, tag_num |-> ts[Offset(i, start) + 1], hit |-> TRUE]
             ELSE timer_pool[i]]
      BY <1>23, <2>2, Zenon
    <3>3. \A i \in 0 .. timer_size - 1 : timer_pool[i] \in Timer
      BY <1>10
    <3>. QED
      BY ONLY <3>1, <3>2, <3>3
  <2>. QED
    BY <2>1, <2>2
<1>29. TypeOK'
  BY <1>2, <1>3, <1>26, <1>27, <1>28, Zenon DEF TypeOK, Batches
<1>30. Held' = n /\ Live' = Live /\ FreeSlots' = FreeSlots /\ TimersLive' = TimersLive
  BY <1>2, <1>4 DEF Held, Live, FreeSlots, TimersLive
<1>31. OrderInv'
  <2>1. Admitted' = Admitted
    BY <1>1, <1>2, <1>6, <1>27 DEF Admitted
  <2>2. /\ SameRecords /\ b < RequestPoolSize /\ batch.created = b /\ batch'.created = b
        /\ holder' # "expire" /\ OrderInv
    <3>1. SameRecords
      BY <1>26, Zenon DEF SameRecords
    <3>2. b < RequestPoolSize /\ batch.created = b /\ batch'.created = b
      BY <1>6, <1>10, <1>27
    <3>. QED
      BY <1>0, <1>1, <1>2, <3>1, <3>2 DEF IInv
  <2>. QED
    BY ONLY <1>2, <1>3, <1>30, <2>1, <2>2, OrderKeep, b \in Nat
<1>32. \A q \in 0 .. n + b - 1 : /\ Wrap(first + q, RequestPoolSize) \in Slots
                                 /\ Wrap(first + q, RequestPoolSize) = s => q = n + k
  <2>. TAKE q \in 0 .. n + b - 1
  <2>1. q \in 0 .. RequestPoolSize - 1 /\ n + k \in 0 .. RequestPoolSize - 1
    BY ONLY <1>6, <1>10, q \in 0 .. n + b - 1, n \in Nat, b \in Nat, k \in Nat
  <2>. QED
    BY <1>3, <1>21, <2>1, HeldSlots
<1>33. PhaseInv'
  <2>1. batch'.created = b /\ batch'.merged = k + 1
    BY <1>27
  <2>2. b <= FreeSlots
    BY <1>0, <1>1, <1>6 DEF IInv, PhaseInv
  <2>3. \A q \in k + 1 .. b - 1 : request_pool'[BatchSlot(q)'].timers_cnt = 0
    <3>. TAKE q \in k + 1 .. b - 1
    <3>1. q \in Nat /\ Held + q < RequestPoolSize /\ n + q \in 0 .. n + b - 1 /\ n + q # n + k
          /\ q \in k .. b - 1
      BY <1>4, <1>6, <1>10
    <3>2. Wrap(in + q, RequestPoolSize) = Wrap(first + (n + q), RequestPoolSize)
      BY <1>3, <1>4, <3>1, HeldSlots
    <3>3. Wrap(in + q, RequestPoolSize) \in Slots \ {s}
      BY <1>32, <3>1, <3>2
    <3>4. request_pool[Wrap(in + q, RequestPoolSize)].timers_cnt = 0
      BY <1>0, <1>1, <1>5, <1>6, <3>1 DEF IInv, PhaseInv, BatchSlot
    <3>. QED
      BY <1>2, <1>26, <3>3, <3>4 DEF BatchSlot
  <2>. QED
    BY <1>1, <1>2, <1>3, <1>6, <1>30, <2>1, <2>2, <2>3 DEF PhaseInv
<1>34. ChainInv'
  <2>1. Total' = n + b /\ Placed' = (n + k) + 1
    BY <1>1, <1>2, <1>27, <1>30 DEF Total, Placed
  <2>2. Sizes' = Sizes
    <3>1. PICK sz : sz = Sizes'
      OBVIOUS
    <3>2. \A q \in 0 .. n + b - 1 : sz[q] = Sizes[q]
      <4>. TAKE q \in 0 .. n + b - 1
      <4>1. Sizes[q] = IF q < n + k THEN request_pool[Wrap(first + q, RequestPoolSize)].timers_cnt
                       ELSE Len(staged[q - n])
        BY <1>4, <1>13 DEF Sizes, SizeOf, HeldSlot
      <4>2. sz[q] = IF q < (n + k) + 1
                    THEN request_pool'[Wrap(first + q, RequestPoolSize)].timers_cnt
                    ELSE Len(staged[q - n])
        BY <1>2, <1>30, <2>1, <3>1 DEF Sizes, SizeOf, HeldSlot
      <4>3. CASE q < n + k
        <5>1. Wrap(first + q, RequestPoolSize) \in Slots \ {s}
          BY <1>32, <4>3
        <5>. QED
          BY <1>26, <4>1, <4>2, <4>3, <5>1
      <4>4. CASE q = n + k
        BY <1>8, <1>9, <1>15, <1>21, <1>26, <4>1, <4>2, <4>4
      <4>5. CASE q > n + k
        BY <4>1, <4>2, <4>5
      <4>. QED
        BY <4>3, <4>4, <4>5
    <3>3. Sizes = [q \in 0 .. n + b - 1 |-> Sizes[q]]
      BY <1>13 DEF Sizes
    <3>4. sz = [q \in 0 .. n + b - 1 |-> sz[q]]
      BY <2>1, <3>1 DEF Sizes
    <3>. QED
      BY ONLY <3>1, <3>2, <3>3, <3>4
\* A timer slot changes only if it is one of the c slots behind a.
  <2>3. ASSUME NEW p \in Nat, p < TimersLive
        PROVE  /\ p < a => timer_pool'[Wrap(timer_out + p, timer_size)]
                           = timer_pool[Wrap(timer_out + p, timer_size)]
               /\ p >= a /\ p < a + c =>
                     timer_pool'[Wrap(timer_out + p, timer_size)]
                     = [request_id |-> s, tag_num |-> ts[(p - a) + 1], hit |-> TRUE]
    <3>1. a <= TimersLive /\ p < timer_size /\ Wrap(timer_out + p, timer_size) \in 0 .. timer_size - 1
      BY ONLY <1>10, <1>11, <1>17, <2>3, p \in Nat, a \in Nat, c \in Nat DEF Wrap
    <3>2. CASE c = 0
      BY <1>23, <3>2
    <3>3. CASE c # 0
      <4>1. a < timer_size
        BY ONLY <1>10, <1>11, <1>17, <3>3, a \in Nat, c \in Nat
      <4>2. Offset(Wrap(timer_out + p, timer_size), start)
            = IF p >= a THEN p - a ELSE p - a + timer_size
        BY <1>10, <1>20, <3>1, <4>1, SpanOffset
      <4>3. /\ p < a => ~ InSpan(Wrap(timer_out + p, timer_size), start, c)
            /\ p >= a /\ p < a + c =>
                  /\ InSpan(Wrap(timer_out + p, timer_size), start, c)
                  /\ Offset(Wrap(timer_out + p, timer_size), start) = p - a
        BY ONLY <1>10, <1>11, <1>17, <4>2, p \in Nat, a \in Nat, c \in Nat DEF InSpan
      <4>4. timer_pool' = [i \in 0 .. timer_size - 1 |->
               IF InSpan(i, start, c)
               THEN [request_id |-> s, tag_num |-> ts[Offset(i, start) + 1], hit |-> TRUE]
               ELSE timer_pool[i]]
        BY <1>23, <3>3, Zenon
      <4>. QED
        BY ONLY <3>1, <4>3, <4>4
    <3>. QED
      BY <3>2, <3>3
  <2>4. ASSUME 0 \notin TagCounts, NEW q \in 0 .. (n + k) - 1
        PROVE  Owns(HeldSlot(q), off[q])'
    <3>1. PICK r \in Slots : r = Wrap(first + q, RequestPoolSize) /\ r # s
      BY <1>15, <1>32
    <3>2. PICK o \in Nat : o = off[q]
      <4>1. q \in 0 .. n + b
        BY ONLY <1>6, q \in 0 .. (n + k) - 1, n \in Nat, b \in Nat, k \in Nat
      <4>. QED
        BY ONLY <1>14, <4>1
    <3>3. PICK w \in Nat : w = request_pool[r].timers_cnt
      BY <1>10 DEF Record
    <3>4. Owns(r, o)
      BY <1>12, <1>13, <2>4, <3>1, <3>2 DEF Chain, HeldSlot
    <3>5. o + w <= a
      <4>1. q \in 0 .. n + b - 1 /\ q + 1 \in 0 .. n + b /\ q + 1 <= n + k
        BY <1>15
      <4>2. Sizes[q] = w
        BY <1>13, <3>1, <3>3, <4>1 DEF Sizes, SizeOf, HeldSlot
      <4>3. off[q + 1] = off[q] + Sizes[q] /\ off[q + 1] <= off[n + k]
        BY ONLY <1>14, <1>15, <4>1 DEF RunningTotal
      <4>. QED
        BY ONLY <1>16, <3>2, <4>2, <4>3
    <3>6. request_pool'[r] = request_pool[r] /\ HeldSlot(q)' = r
      BY <1>2, <1>26, <3>1 DEF HeldSlot
    <3>7. ASSUME NEW j \in 0 .. w - 1
          PROVE  timer_pool'[Wrap(timer_out + o + j, timer_size)]
                 = timer_pool[Wrap(timer_out + o + j, timer_size)]
      <4>1. o + j \in Nat /\ o + j < a /\ o + j < TimersLive
            /\ timer_out + o + j = timer_out + (o + j)
        BY ONLY <1>10, <1>11, <1>17, <3>5, j \in 0 .. w - 1, o \in Nat, w \in Nat, a \in Nat, c \in Nat
      <4>. QED
        BY <2>3, <4>1
    <3>. QED
      BY ONLY <1>2, <3>2, <3>3, <3>4, <3>6, <3>7 DEF Owns
  <2>5. ASSUME 0 \notin TagCounts
        PROVE  Owns(HeldSlot(n + k), off[n + k])'
    <3>1. HeldSlot(n + k)' = s
      BY <1>2, <1>21 DEF HeldSlot
    <3>2. ASSUME NEW j \in 0 .. c - 1
          PROVE  LET t == timer_pool'[Wrap(timer_out + a + j, timer_size)] IN
                 t.request_id = s /\ t.hit /\ t.tag_num # 0
      <4>1. a + j \in Nat /\ a + j < TimersLive /\ a + j >= a /\ a + j < a + c
            /\ (a + j) - a = j /\ timer_out + a + j = timer_out + (a + j)
        BY ONLY <1>10, <1>11, <1>17, j \in 0 .. c - 1, a \in Nat, c \in Nat
      <4>2. timer_pool'[Wrap(timer_out + a + j, timer_size)]
            = [request_id |-> s, tag_num |-> ts[j + 1], hit |-> TRUE]
        BY <2>3, <4>1
      <4>3. ts[j + 1] # 0
        BY <1>9, <2>5, TimerSeqFacts
      <4>. QED
        BY <4>2, <4>3
    <3>. QED
      BY ONLY <1>2, <1>16, <1>20, <1>26, <3>1, <3>2, c \in Nat DEF Owns
  <2>6. 0 \notin TagCounts => \A q \in 0 .. Placed' - 1 : Owns(HeldSlot(q), off[q])'
    <3>1. \A q \in 0 .. Placed' - 1 : q \in 0 .. (n + k) - 1 \/ q = n + k
      BY <2>1
    <3>. QED
      BY <2>4, <2>5, <3>1, Zenon
  <2>7. batch'.prefix = Wrap(timer_out' + off[Held'], timer_size')
        /\ off[Placed'] = off[Held'] + batch'.added
    <3>1. batch'.prefix = batch.prefix /\ batch'.added = ad + c
      BY <1>27
    <3>. QED
      BY <1>2, <1>14, <1>16, <1>17, <1>18, <1>30, <2>1, <3>1
  <2>8. RunningTotal(off, Sizes, Total)' /\ off[Total'] = TimersLive'
    BY <1>14, <1>30, <2>1, <2>2 DEF RunningTotal
  <2>9. Chain(off)'
    BY <1>1, <1>2, <2>6, <2>7, <2>8, Zenon DEF Chain
  <2>. QED
    BY <1>1, <1>2, <1>13, <2>1, <2>9 DEF ChainInv
<1>. QED
  BY <1>29, <1>31, <1>33, <1>34 DEF IInv
=============================================================================
