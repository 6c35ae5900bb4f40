---------------------------- MODULE RingsRemoval -----------------------------
(***************************************************************************)
(* The steps of expiration and of DELETE preserve the invariant of module  *)
(* RingsInvariant: they take records off the front of the chain.           *)
(***************************************************************************)
EXTENDS RingsInvariant

\* pinba_request_pool_delete_old adds the timers of the record it removes to the
\* number of timer slots that will be released.
LEMMA DeleteOldStep == IInv /\ DeleteOld => IInv'
<1>0. SUFFICES ASSUME IInv, DeleteOld PROVE IInv'
  OBVIOUS
<1>1. /\ holder = "expire" /\ in # out /\ request_pool[out].time < from
      /\ request_pool' = [request_pool EXCEPT ![out].active = FALSE]
      /\ out' = Wrap(out + 1, RequestPoolSize)
      /\ batch' = [batch EXCEPT !.timers = batch.timers + request_pool[out].timers_cnt]
  BY <1>0, Zenon DEF DeleteOld, OldestExpired
<1>2. UNCHANGED <<in, request_pool_counter, timer_pool, timer_size,
                  timer_in, timer_out, timertags_cnt, launch, holder, staged, first, from>>
  BY <1>0, Zenon DEF DeleteOld, timerVars
<1>3. /\ TypeOK /\ Held = DeletedCnt + Live
      /\ batch.created = 0 /\ batch.prefix = 0 /\ batch.merged = 0 /\ batch.added = 0
  BY <1>0, <1>1 DEF IInv, PhaseInv
<1>4. /\ in \in 0 .. RequestPoolSize - 1 /\ out \in 0 .. RequestPoolSize - 1
      /\ first \in 0 .. RequestPoolSize - 1 /\ RequestPoolSize \in Nat
      /\ out \in Slots /\ request_pool \in [Slots -> Record]
  BY <1>3, RingsAssumption DEF TypeOK, Slots
<1>5. /\ Held \in 0 .. RequestPoolSize - 1 /\ DeletedCnt \in Nat /\ Live \in Nat
      /\ Live > 0
  <2>1. Live # 0
    BY <1>1, <1>4 DEF Live, pinba_pool_num_records
  <2>. QED
    BY <1>3, <2>1, Positions
<1>6. PICK d \in Nat : d = DeletedCnt
  BY <1>5
<1>7. /\ out' \in Slots /\ Held' = Held /\ Live' = Live - 1 /\ DeletedCnt' = d + 1
      /\ TimersLive' = TimersLive
  <2>1. Held' = Held /\ TimersLive' = TimersLive
    BY <1>2 DEF Held, TimersLive
  <2>2. out' \in Slots /\ Live' = Live - 1
    <3>1. 1 \in 0 .. Live
      BY <1>5
    <3>. QED
      BY <1>1, <1>2, <1>4, <3>1, RingAdvance DEF Live, Slots
  <2>3. DeletedCnt' = d + 1
    <3>1. DeletedCnt + 1 < RequestPoolSize
      BY <1>3, <1>4, <1>5
    <3>. QED
      BY <1>1, <1>2, <1>4, <1>6, <3>1, RingAdvance DEF DeletedCnt
  <2>. QED
    BY <2>1, <2>2, <2>3
<1>8. Wrap(first + d, RequestPoolSize) = out
  BY <1>4, <1>6, RingCount DEF DeletedCnt
<1>9. /\ request_pool' \in [Slots -> Record]
      /\ \A s \in Slots : /\ request_pool'[s].timers_cnt = request_pool[s].timers_cnt
                          /\ request_pool'[s].timers_start = request_pool[s].timers_start
                          /\ request_pool'[s].time = request_pool[s].time
                          /\ request_pool'[s].counter = request_pool[s].counter
      /\ \A s \in Slots \ {out} : request_pool'[s] = request_pool[s]
  BY <1>1, <1>4 DEF Record
<1>10. PICK n \in Nat : n = request_pool[out].timers_cnt
  BY <1>4 DEF Record
<1>11. batch' \in Batches /\ batch' = [created |-> 0, timers |-> batch.timers + n, prefix |-> 0,
                                       merged |-> 0, added |-> 0]
  <2>1. batch \in Batches /\ batch.timers \in Nat
    BY <1>3 DEF TypeOK, Batches
  <2>2. batch' = [created |-> batch.created, timers |-> batch.timers + n, prefix |-> batch.prefix,
                  merged |-> batch.merged, added |-> batch.added]
    BY <1>1, <1>10, <2>1, Zenon DEF Batches
  <2>. QED
    BY <1>3, <2>1, <2>2 DEF Batches
<1>12. TypeOK'
  BY <1>2, <1>3, <1>7, <1>9, <1>11, Zenon DEF TypeOK, Batches
<1>13. PhaseInv'
  <2>1. Held' = DeletedCnt' + Live'
    BY <1>3, <1>5, <1>6, <1>7
  <2>. QED
    BY <1>1, <1>2, <1>11, <2>1 DEF PhaseInv
<1>14. OrderInv'
  <2>1. \A k \in 0 .. Live - 2 :
           /\ Wrap(out' + k, RequestPoolSize) = Wrap(out + (k + 1), RequestPoolSize)
           /\ Wrap(out + (k + 1), RequestPoolSize) \in Slots \ {out}
    <3>1. Live <= RequestPoolSize - 1
      BY <1>3, <1>4, <1>5
    <3>. TAKE k \in 0 .. Live - 2
    <3>2. k \in Nat /\ k + 1 \in Nat /\ 1 + k < RequestPoolSize /\ k + 1 # 0
      BY <1>4, <1>5, <3>1
    <3>3. out' = Wrap(out + 1, RequestPoolSize) /\ out \in 0 .. RequestPoolSize - 1
          /\ RequestPoolSize \in Nat
      BY <1>1, <1>4
    <3>. QED
      BY <3>2, <3>3 DEF Wrap, Slots
  <2>2. Admitted' = Admitted /\ Admitted \in Int
    BY <1>1, <1>2, <1>3 DEF Admitted, TypeOK
  <2>3. \A k \in 0 .. Live' - 1 :
           LET r == request_pool'[Wrap(out' + k, RequestPoolSize)] IN
           /\ r.active
           /\ r.counter = Admitted' - Live' + k
           /\ r.time < launch'
           /\ \A m \in 0 .. k - 1 :
                 request_pool'[Wrap(out' + m, RequestPoolSize)].time <= r.time
    <3>. TAKE k \in 0 .. Live' - 1
    <3>1. k \in 0 .. Live - 2 /\ k + 1 \in 0 .. Live - 1
      BY <1>5, <1>7
    <3>2. request_pool'[Wrap(out' + k, RequestPoolSize)]
          = request_pool[Wrap(out + (k + 1), RequestPoolSize)]
      BY <1>9, <2>1, <3>1
    <3>3. /\ request_pool[Wrap(out + (k + 1), RequestPoolSize)].active
          /\ request_pool[Wrap(out + (k + 1), RequestPoolSize)].counter
             = Admitted - Live + (k + 1)
          /\ request_pool[Wrap(out + (k + 1), RequestPoolSize)].time < launch
      BY <1>0, <3>1 DEF IInv, OrderInv
    <3>4. ASSUME NEW m \in 0 .. k - 1
          PROVE  request_pool'[Wrap(out' + m, RequestPoolSize)].time
                 <= request_pool[Wrap(out + (k + 1), RequestPoolSize)].time
      <4>1. m \in 0 .. Live - 2 /\ m + 1 \in 0 .. (k + 1) - 1
        BY <1>5, <3>1
      <4>2. request_pool[Wrap(out + (m + 1), RequestPoolSize)].time
            <= request_pool[Wrap(out + (k + 1), RequestPoolSize)].time
        BY <1>0, <3>1, <4>1 DEF IInv, OrderInv
      <4>. QED
        BY <1>9, <2>1, <4>1, <4>2
    <3>5. Admitted - Live + (k + 1) = Admitted' - Live' + k
      BY <1>5, <1>7, <2>2
    <3>. QED
      BY <1>2, <3>2, <3>3, <3>4, <3>5
  <2>4. \A k \in 0 .. DeletedCnt' - 1 : request_pool'[HeldSlot(k)'].time < from'
    <3>. TAKE k \in 0 .. DeletedCnt' - 1
    <3>1. k \in 0 .. RequestPoolSize - 1 /\ k \in 0 .. d
      BY <1>3, <1>4, <1>5, <1>6, <1>7
    <3>2. Wrap(first + k, RequestPoolSize) \in Slots
      BY <1>3, <3>1, HeldSlots
    <3>3. request_pool[Wrap(first + k, RequestPoolSize)].time < from
      <4>1. CASE k = d
        BY <1>1, <1>8, <4>1
      <4>2. CASE k < d
        <5>1. k \in 0 .. DeletedCnt - 1
          BY <1>6, <3>1, <4>2
        <5>. QED
          BY <1>0, <1>1, <5>1 DEF IInv, OrderInv, HeldSlot
      <4>. QED
        BY <3>1, <4>1, <4>2
    <3>. QED
      BY <1>2, <1>9, <3>2, <3>3 DEF HeldSlot
  <2>5. batch'.created = 0 /\ 0 .. batch'.created - 1 = {}
    BY <1>11
  <2>. QED
    BY <2>3, <2>4, <2>5, Zenon DEF OrderInv
<1>15. ChainInv'
  <2>1. PICK off \in [0 .. Total -> Nat] : Chain(off)
    BY <1>0 DEF IInv, ChainInv
  <2>2. Total = Held /\ Placed = Held /\ Total' = Held /\ Placed' = Held
    BY <1>1, <1>2, <1>5, <1>7 DEF Total, Placed
  <2>3. \A k \in 0 .. Held - 1 : Wrap(first + k, RequestPoolSize) \in Slots
    <3>. TAKE k \in 0 .. Held - 1
    <3>1. k \in 0 .. RequestPoolSize - 1
      BY <1>4, <1>5
    <3>. QED
      BY <1>3, <3>1, HeldSlots
  <2>4. Sizes' = Sizes
    <3>1. Sizes = [k \in 0 .. Held - 1 |->
                      request_pool[Wrap(first + k, RequestPoolSize)].timers_cnt]
      BY <1>5, <2>2 DEF Sizes, SizeOf, HeldSlot
    <3>2. Sizes' = [k \in 0 .. Held - 1 |->
                       request_pool'[Wrap(first + k, RequestPoolSize)].timers_cnt]
      BY <1>2, <1>5, <2>2 DEF Sizes, SizeOf, HeldSlot
    <3>. QED
      BY <1>9, <2>3, <3>1, <3>2
  <2>5. \A k \in 0 .. Held - 1 : Owns(HeldSlot(k), off[k]) => Owns(HeldSlot(k), off[k])'
    BY <1>2, <1>9, <2>3 DEF Owns, HeldSlot
  <2>6. batch'.timers = off[DeletedCnt']
    <3>1. d \in 0 .. Held - 1
      BY <1>3, <1>5, <1>6
    <3>2. Sizes[d] = n
      BY <1>5, <1>8, <1>10, <2>2, <3>1 DEF Sizes, SizeOf, HeldSlot
    <3>3. off[d + 1] = off[d] + n
      BY <2>1, <2>2, <3>1, <3>2 DEF Chain, RunningTotal
    <3>4. batch.timers = off[d]
      BY <1>1, <1>6, <2>1 DEF Chain
    <3>. QED
      BY <1>7, <1>11, <3>3, <3>4
  <2>7. Chain(off)'
    BY <1>1, <1>2, <1>7, <2>1, <2>2, <2>4, <2>5, <2>6 DEF Chain, RunningTotal
  <2>. QED
    BY <1>1, <1>2, <2>2, <2>7 DEF ChainInv
<1>. QED
  BY <1>12, <1>13, <1>14, <1>15 DEF IInv

\* The step releases the timers of the first d published records and leaves
\* the other records and their timers alone.
Survive(off, d) ==
    /\ \A k \in 0 .. Held - d - 1 :
          LET s == Wrap(first + (k + d), RequestPoolSize) IN
          /\ request_pool'[s].timers_cnt = request_pool[s].timers_cnt
          /\ request_pool'[s].timers_start = request_pool[s].timers_start
    /\ 0 \notin TagCounts => \A p \in off[d] .. TimersLive - 1 :
          timer_pool'[Wrap(timer_out + p, timer_size)]
          = timer_pool[Wrap(timer_out + p, timer_size)]

\* Advancing timer_pool.out by the timers of the oldest m records keeps the chain
\* of the others.
LEMMA ChainDrop ==
    ASSUME TypeOK, holder # "merge", holder' \in {"none", "delete"},
           NEW off \in [0 .. Held -> Nat], Chain(off),
           NEW d \in 0 .. Held, Survive(off, d),
           in' = in, first' = Wrap(first + d, RequestPoolSize),
           timer_in' = timer_in, timer_size' = timer_size,
           timer_out' = Wrap(timer_out + off[d], timer_size)
    PROVE  ChainInv' /\ Held' = Held - d /\ first' \in Slots /\ timer_out' \in 0 .. timer_size - 1
<1>1. /\ in \in 0 .. RequestPoolSize - 1 /\ first \in 0 .. RequestPoolSize - 1
      /\ timer_in \in 0 .. timer_size - 1 /\ timer_out \in 0 .. timer_size - 1
      /\ RequestPoolSize \in Nat /\ timer_size \in Nat
      /\ Held \in 0 .. RequestPoolSize - 1 /\ TimersLive \in 0 .. timer_size - 1
  BY Positions, RingsAssumption DEF TypeOK, Slots
<1>2. PICK n \in Nat : n = Held
  BY <1>1
<1>3. PICK tl \in Nat : tl = TimersLive
  BY <1>1
<1>4. Total = n /\ Placed = n
  BY <1>1, <1>2 DEF Total, Placed
<1>5. /\ RunningTotal(off, Sizes, n) /\ off[n] = tl /\ off[d] \in 0 .. tl
      /\ d \in 0 .. n /\ off \in [0 .. n -> Nat]
      /\ \A k, m \in 0 .. n : k <= m => off[k] <= off[m]
  BY <1>2, <1>3, <1>4 DEF Chain, RunningTotal
<1>6. PICK b \in Nat : b = off[d] /\ b <= tl
  BY <1>5
<1>7. Held' = n - d /\ first' \in Slots
  BY <1>1, <1>2, RingAdvance DEF Held, Slots
<1>8. TimersLive' = tl - b /\ timer_out' \in 0 .. timer_size - 1
  <2>1. b \in 0 .. pinba_pool_num_records(timer_in, timer_out, timer_size)
    BY <1>3, <1>6 DEF TimersLive
  <2>. QED
    BY <1>1, <1>3, <1>6, <2>1, RingAdvance DEF TimersLive
<1>9. Total' = n - d /\ Placed' = n - d
  BY <1>7 DEF Total, Placed
<1>10. PICK off2 \in [0 .. n - d -> Nat] : off2 = [k \in 0 .. n - d |-> off[k + d] - b]
  <2>1. \A k \in 0 .. n - d : k + d \in 0 .. n /\ d <= k + d
    BY <1>5
  <2>2. \A k \in 0 .. n - d : off[k + d] - b \in Nat
    <3>. TAKE k \in 0 .. n - d
    <3>1. off[k + d] \in Nat /\ off[d] <= off[k + d]
      BY <1>5, <2>1
    <3>. QED
      BY <1>3, <1>6, <3>1
  <2>. QED
    BY <2>2
<1>11. PICK sz : sz = Sizes'
  OBVIOUS
<1>12. \A k \in 0 .. n - d - 1 :
          /\ Wrap(Wrap(first + d, RequestPoolSize) + k, RequestPoolSize)
             = Wrap(first + (k + d), RequestPoolSize)
          /\ k + d \in 0 .. n - 1
  <2>. TAKE k \in 0 .. n - d - 1
  <2>1. d \in Nat /\ k \in Nat /\ d + k < RequestPoolSize /\ k + d \in 0 .. n - 1
        /\ k + d = d + k
    BY <1>1, <1>2, <1>5
  <2>2. Wrap(Wrap(first + d, RequestPoolSize) + k, RequestPoolSize)
        = Wrap(first + (d + k), RequestPoolSize)
    BY ONLY <1>1, <2>1 DEF Wrap
  <2>. QED
    BY <2>1, <2>2
<1>13. \A k \in 0 .. n - d - 1 : sz[k] = Sizes[k + d]
  <2>. TAKE k \in 0 .. n - d - 1
  <2>1. sz[k] = request_pool'[Wrap(first' + k, RequestPoolSize)].timers_cnt
    BY <1>9, <1>11 DEF Sizes, SizeOf, HeldSlot
  <2>2. Sizes[k + d] = request_pool[Wrap(first + (k + d), RequestPoolSize)].timers_cnt
    BY <1>4, <1>12 DEF Sizes, SizeOf, HeldSlot
  <2>. QED
    BY <1>2, <1>12, <2>1, <2>2 DEF Survive
<1>14. RunningTotal(off2, sz, n - d)
  <2>1. \A k \in 0 .. n - d : off2[k] = off[k + d] - off[d]
    BY <1>6, <1>10
  <2>2. Dropped(sz, off2, Sizes, off, n, d)
    BY <1>13, <2>1 DEF Dropped
  <2>. QED
    BY <1>5, <2>2, RunningTotalDrop
<1>15. off2[n - d] = tl - b
  <2>1. n - d \in 0 .. n - d /\ (n - d) + d = n
    BY <1>5
  <2>. QED
    BY <1>5, <1>10, <2>1
<1>16. ASSUME 0 \notin TagCounts, NEW k \in 0 .. n - d - 1
       PROVE  Owns(HeldSlot(k), off2[k])'
  <2>1. PICK s : s = Wrap(first + (k + d), RequestPoolSize)
    OBVIOUS
  <2>2. Owns(s, off[k + d])
    BY <1>4, <1>12, <1>16, <2>1 DEF Chain, HeldSlot
  <2>3. /\ request_pool'[s].timers_cnt = request_pool[s].timers_cnt
        /\ request_pool'[s].timers_start = request_pool[s].timers_start
    BY <1>2, <2>1 DEF Survive
  <2>4. PICK a \in Nat : a = off[k + d]
    <3>1. k + d \in 0 .. n
      BY <1>12
    <3>. QED
      BY <1>5, <3>1
  <2>5. PICK c \in Nat : c = request_pool[s].timers_cnt
    <3>1. k + d \in 0 .. RequestPoolSize - 1
      BY <1>1, <1>2, <1>12
    <3>2. s \in Slots
      BY <2>1, <3>1, HeldSlots
    <3>. QED
      BY <3>2 DEF TypeOK, Record
  <2>6. a + c <= tl /\ b <= a /\ off2[k] = a - b
    <3>1. k + d \in 0 .. n - 1 /\ (k + d) + 1 \in 0 .. n /\ d <= k + d
      BY <1>5, <1>12
    <3>2. Sizes[k + d] = c
      BY <1>4, <1>12, <2>1, <2>5 DEF Sizes, SizeOf, HeldSlot
    <3>3. off[(k + d) + 1] = a + c
      BY <1>5, <2>4, <3>1, <3>2 DEF RunningTotal
    <3>4. off[(k + d) + 1] <= tl
      BY <1>5, <3>1
    <3>. QED
      BY <1>5, <1>6, <1>10, <2>4, <3>1, <3>3, <3>4
  <2>7. c > 0 => request_pool'[s].timers_start = Wrap(timer_out' + (a - b), timer_size)
    <3>1. ASSUME c > 0 PROVE Wrap(timer_out' + (a - b), timer_size) = Wrap(timer_out + a, timer_size)
      <4>1. b \in Nat /\ a - b \in Nat /\ b + (a - b) < timer_size /\ b + (a - b) = a
        BY ONLY <1>1, <1>3, <2>6, <3>1, a \in Nat, b \in Nat, c \in Nat
      <4>2. timer_out' = Wrap(timer_out + b, timer_size)
        BY <1>6
      <4>. QED
        BY ONLY <1>1, <4>1, <4>2 DEF Wrap
    <3>. QED
      BY <2>2, <2>3, <2>4, <2>5, <3>1 DEF Owns
  <2>8. ASSUME NEW j \in 0 .. c - 1
        PROVE  LET t == timer_pool'[Wrap(timer_out' + (a - b) + j, timer_size)] IN
               t.request_id = s /\ t.hit /\ t.tag_num # 0
    <3>1. /\ b \in Nat /\ (a - b) + j \in Nat /\ b + ((a - b) + j) < timer_size
          /\ b + ((a - b) + j) = a + j /\ a + j \in b .. tl - 1
      BY ONLY <1>1, <1>3, <2>6, a \in Nat, b \in Nat, c \in Nat, j \in 0 .. c - 1
    <3>2. Wrap(Wrap(timer_out + b, timer_size) + ((a - b) + j), timer_size)
          = Wrap(timer_out + (a + j), timer_size)
      BY ONLY <1>1, <3>1 DEF Wrap
    <3>3. timer_out' + (a - b) + j = timer_out' + ((a - b) + j) /\ timer_out + a + j = timer_out + (a + j)
      BY <1>1, <1>8, <2>6
    <3>4. LET t == timer_pool[Wrap(timer_out + (a + j), timer_size)] IN
          t.request_id = s /\ t.hit /\ t.tag_num # 0
      BY <2>2, <2>4, <2>5, <3>3 DEF Owns
    <3>5. timer_pool'[Wrap(timer_out + (a + j), timer_size)]
          = timer_pool[Wrap(timer_out + (a + j), timer_size)]
      BY <1>3, <1>6, <1>16, <3>1 DEF Survive
    <3>. QED
      BY <1>6, <3>2, <3>3, <3>4, <3>5
  <2>. QED
    <3>1. HeldSlot(k)' = s /\ off2[k] = a - b /\ request_pool'[s].timers_cnt = c
      BY <1>12, <2>1, <2>3, <2>5, <2>6 DEF HeldSlot
    <3>. QED
      BY ONLY <2>7, <2>8, <3>1, timer_size' = timer_size DEF Owns
<1>17. 0 \notin TagCounts => \A k \in 0 .. n - d - 1 : Owns(HeldSlot(k), off2[k])'
  BY <1>16
<1>18. Chain(off2)'
  BY <1>8, <1>9, <1>11, <1>14, <1>15, <1>17 DEF Chain, RunningTotal
<1>. QED
  BY <1>2, <1>7, <1>8, <1>9, <1>18 DEF ChainInv

\* The order of the ring is not touched by a step that leaves its positions and
\* the records' numbers and times alone.
LEMMA OrderFrame ==
    ASSUME TypeOK, OrderInv, Live' = Live, out' = out, Admitted' = Admitted,
           launch' = launch, batch'.created = 0, holder' # "expire",
           \A s \in Slots : /\ request_pool'[s].active = request_pool[s].active
                            /\ request_pool'[s].counter = request_pool[s].counter
                            /\ request_pool'[s].time = request_pool[s].time
    PROVE  OrderInv'
<1>1. /\ Live \in 0 .. RequestPoolSize - 1 /\ out \in 0 .. RequestPoolSize - 1
      /\ RequestPoolSize \in Nat
  BY Positions, RingsAssumption DEF TypeOK, Slots
<1>2. \A k \in 0 .. Live - 1 : Wrap(out + k, RequestPoolSize) \in Slots
  BY ONLY <1>1 DEF Wrap, Slots
<1>3. \A k \in 0 .. Live' - 1 :
         LET r == request_pool'[Wrap(out' + k, RequestPoolSize)] IN
         /\ r.active
         /\ r.counter = Admitted' - Live' + k
         /\ r.time < launch'
         /\ \A m \in 0 .. k - 1 :
               request_pool'[Wrap(out' + m, RequestPoolSize)].time <= r.time
  <2>. TAKE k \in 0 .. Live' - 1
  <2>1. k \in 0 .. Live - 1 /\ \A m \in 0 .. k - 1 : m \in 0 .. Live - 1
    BY <1>1
  <2>. QED
    BY <1>2, <2>1 DEF OrderInv
<1>4. 0 .. batch'.created - 1 = {}
  OBVIOUS
<1>. QED
  BY <1>3, <1>4, Zenon DEF OrderInv

\* pinba_stats_record_dtor gives back exactly the oldest held record's timer slots.
LEMMA DestroyRecordStep == IInv /\ DestroyRecord => IInv'
<1>0. SUFFICES ASSUME IInv, DestroyRecord PROVE IInv'
  OBVIOUS
<1>1. /\ holder = "delete" /\ first # in
      /\ timer_out' = Wrap(timer_out + request_pool[first].timers_cnt, timer_size)
      /\ request_pool' = [request_pool EXCEPT ![first].timers_cnt = 0]
      /\ first' = Wrap(first + 1, RequestPoolSize)
  BY <1>0, Zenon DEF DestroyRecord
<1>2. UNCHANGED <<in, out, request_pool_counter, timer_pool, timer_size,
                  timer_in, launch, holder, batch, staged, from>>
  BY <1>0, Zenon DEF DestroyRecord
<1>3. /\ TypeOK /\ OrderInv /\ batch.created = 0
      /\ Live = pinba_pool_num_records(first, out, RequestPoolSize) + Held
  BY <1>0, <1>1 DEF IInv, PhaseInv
<1>4. /\ in \in 0 .. RequestPoolSize - 1 /\ out \in 0 .. RequestPoolSize - 1
      /\ first \in 0 .. RequestPoolSize - 1 /\ RequestPoolSize \in Nat
      /\ first \in Slots /\ request_pool \in [Slots -> Record]
      /\ timer_out \in 0 .. timer_size - 1 /\ timer_size \in Nat
      /\ Held \in 0 .. RequestPoolSize - 1 /\ TimersLive \in 0 .. timer_size - 1
      /\ Live \in 0 .. RequestPoolSize - 1
  BY <1>3, Positions, RingsAssumption DEF TypeOK, Slots
<1>5. Held > 0 /\ 1 \in 0 .. Held
  BY <1>1, <1>4 DEF Held, pinba_pool_num_records
<1>6. /\ request_pool' \in [Slots -> Record]
      /\ \A s \in Slots : /\ request_pool'[s].active = request_pool[s].active
                          /\ request_pool'[s].counter = request_pool[s].counter
                          /\ request_pool'[s].time = request_pool[s].time
      /\ \A s \in Slots \ {first} : request_pool'[s] = request_pool[s]
  BY <1>1, <1>4 DEF Record
<1>7. PICK off \in [0 .. Total -> Nat] : Chain(off)
  BY <1>0 DEF IInv, ChainInv
<1>8. Total = Held /\ Placed = Held
  BY <1>1, <1>4 DEF Total, Placed
<1>9. off[1] = request_pool[first].timers_cnt
  <2>1. Sizes[0] = request_pool[first].timers_cnt
    <3>1. Wrap(first + 0, RequestPoolSize) = first
      BY <1>4 DEF Wrap
    <3>2. 0 \in 0 .. Total - 1 /\ 0 < Placed
      BY <1>4, <1>5, <1>8
    <3>. QED
      BY <3>1, <3>2 DEF Sizes, SizeOf, HeldSlot
  <2>2. off[0] = 0 /\ Sizes[0] \in Nat /\ off[0 + 1] = off[0] + Sizes[0]
    <3>1. 0 \in 0 .. Total - 1
      BY <1>4, <1>5, <1>8
    <3>. QED
      BY <1>7, <3>1 DEF Chain, RunningTotal
  <2>. QED
    BY <2>1, <2>2
<1>10. Survive(off, 1)
  <2>1. \A k \in 0 .. Held - 1 - 1 :
           Wrap(first + (k + 1), RequestPoolSize) \in Slots \ {first}
    BY ONLY <1>4 DEF Wrap, Slots
  <2>. QED
    BY <1>2, <1>6, <2>1 DEF Survive
<1>11. ChainInv' /\ Held' = Held - 1 /\ first' \in Slots /\ timer_out' \in 0 .. timer_size - 1
  <2>1. /\ holder # "merge" /\ holder' \in {"none", "delete"} /\ off \in [0 .. Held -> Nat]
        /\ timer_out' = Wrap(timer_out + off[1], timer_size)
    BY <1>1, <1>2, <1>7, <1>8, <1>9
  <2>. QED
    BY <1>1, <1>2, <1>3, <1>5, <1>7, <1>10, <2>1, ChainDrop
<1>12. TypeOK'
  BY <1>2, <1>3, <1>6, <1>11, Zenon DEF TypeOK, Batches
<1>13. Live' = Live /\ Admitted' = Admitted
  BY <1>2 DEF Live, Admitted
<1>14. OrderInv'
  BY <1>1, <1>2, <1>3, <1>6, <1>13, OrderFrame
<1>15. PhaseInv'
  <2>1. pinba_pool_num_records(first', out, RequestPoolSize)
        = pinba_pool_num_records(first, out, RequestPoolSize) + 1
    <3>1. pinba_pool_num_records(first, out, RequestPoolSize) + 1 < RequestPoolSize
      <4>1. pinba_pool_num_records(first, out, RequestPoolSize) \in Nat
        BY <1>4, RingCount
      <4>. QED
        BY <1>3, <1>4, <1>5, <4>1
    <3>. QED
      BY <1>1, <1>4, <3>1, RingAdvance
  <2>2. pinba_pool_num_records(first, out, RequestPoolSize) \in Nat
    BY <1>4, RingCount
  <2>3. Live' = pinba_pool_num_records(first', out', RequestPoolSize) + Held'
    BY <1>2, <1>3, <1>4, <1>11, <1>13, <2>1, <2>2
  <2>. QED
    BY <1>0, <1>1, <1>2, <2>3 DEF IInv, PhaseInv
<1>. QED
  BY <1>11, <1>12, <1>14, <1>15 DEF IInv

\* Distances behind timer_out give the distance between two timer slots.
LEMMA SpanOffset ==
    ASSUME NEW a \in Nat, NEW p \in Nat, a < timer_size, p < timer_size, timer_size \in Nat,
           timer_out \in 0 .. timer_size - 1
    PROVE  Offset(Wrap(timer_out + p, timer_size), Wrap(timer_out + a, timer_size))
           = IF p >= a THEN p - a ELSE p - a + timer_size
BY DEF Offset, Wrap

\* The end of pinba_stats_main's pass: the cleared slots are those of the deleted
\* records only, and `out' moves exactly past them.
LEMMA ClearTimersStep == IInv /\ ClearTimers => IInv'
<1>0. SUFFICES ASSUME IInv, ClearTimers PROVE IInv'
  OBVIOUS
<1>1. /\ holder = "expire" /\ holder' = "none"
      /\ timer_pool' = [i \in DOMAIN timer_pool |->
             IF i \in DeletedTimers
             THEN [timer_pool[i] EXCEPT !.tag_num = 0, !.hit = FALSE]
             ELSE timer_pool[i]]
      /\ timer_out' = Wrap(timer_out + batch.timers, timer_size)
      /\ first' = out
      /\ batch' = NoBatch
      /\ from' = 0
  BY <1>0, Zenon DEF ClearTimers
<1>2. UNCHANGED <<request_pool, in, out, request_pool_counter, timer_size,
                  timer_in, launch, staged>>
  BY <1>0, Zenon DEF ClearTimers, requestVars
<1>3. /\ TypeOK /\ OrderInv /\ batch.created = 0 /\ Held = DeletedCnt + Live
  BY <1>0, <1>1 DEF IInv, PhaseInv
<1>4. /\ out \in 0 .. RequestPoolSize - 1
      /\ first \in 0 .. RequestPoolSize - 1 /\ RequestPoolSize \in Nat
      /\ request_pool \in [Slots -> Record]
      /\ timer_pool \in [0 .. timer_size - 1 -> Timer]
      /\ timer_out \in 0 .. timer_size - 1 /\ timer_size \in Nat
      /\ Held \in 0 .. RequestPoolSize - 1 /\ TimersLive \in 0 .. timer_size - 1
      /\ Live \in Nat /\ DeletedCnt \in Nat
  <2>1. /\ out \in 0 .. RequestPoolSize - 1
        /\ first \in 0 .. RequestPoolSize - 1 /\ RequestPoolSize \in Nat
        /\ request_pool \in [Slots -> Record]
        /\ timer_pool \in [0 .. timer_size - 1 -> Timer]
        /\ timer_out \in 0 .. timer_size - 1 /\ timer_size \in Nat
    BY <1>3, RingsAssumption DEF TypeOK, Slots
  <2>2. /\ Held \in 0 .. RequestPoolSize - 1 /\ TimersLive \in 0 .. timer_size - 1
        /\ Live \in 0 .. RequestPoolSize - 1 /\ DeletedCnt \in 0 .. RequestPoolSize - 1
    BY <1>3, Positions, Zenon
  <2>. QED
    BY <2>1, <2>2
<1>5. PICK d \in Nat : d = DeletedCnt
  BY <1>4
<1>6. d \in 0 .. Held /\ Wrap(first + d, RequestPoolSize) = out
  <2>1. d \in 0 .. Held
    BY <1>3, <1>4, <1>5
  <2>2. Wrap(first + d, RequestPoolSize) = out
    BY <1>4, <1>5, RingCount DEF DeletedCnt
  <2>. QED
    BY <2>1, <2>2
<1>7. PICK off \in [0 .. Total -> Nat] : Chain(off)
  BY <1>0 DEF IInv, ChainInv
<1>8. Total = Held /\ Placed = Held
  <2>1. holder = "expire"
    BY <1>1, Zenon
  <2>. QED
    BY <1>4, <2>1 DEF Total, Placed
<1>9. /\ off \in [0 .. Held -> Nat] /\ batch.timers = off[d]
      /\ \A k, m \in 0 .. Held : k <= m => off[k] <= off[m]
  <2>1. batch.timers = off[d]
    BY <1>1, <1>5, <1>7, Zenon DEF Chain
  <2>2. off \in [0 .. Held -> Nat]
    BY <1>8
  <2>3. RunningTotal(off, Sizes, Held)
    BY <1>7, <1>8 DEF Chain
  <2>. QED
    BY <2>1, <2>2, <2>3 DEF RunningTotal
<1>10. ASSUME 0 \notin TagCounts, NEW p \in off[d] .. TimersLive - 1
       PROVE  Wrap(timer_out + p, timer_size) \notin DeletedTimers
  <2>1. SUFFICES ASSUME NEW s \in Deleted,
                        InSpan(Wrap(timer_out + p, timer_size),
                               request_pool[s].timers_start, request_pool[s].timers_cnt)
                 PROVE  FALSE
    BY DEF DeletedTimers
  <2>2. PICK m \in 0 .. d - 1 : s = Wrap(first + m, RequestPoolSize)
    BY <1>5 DEF Deleted, DeletedCnt
  <2>3. m \in 0 .. Held - 1 /\ m \in 0 .. RequestPoolSize - 1 /\ m + 1 \in 0 .. Held
        /\ m \in 0 .. Held /\ m + 1 <= d
    BY <1>4, <1>6
  <2>4. s \in Slots
    BY <1>3, <2>2, <2>3, HeldSlots
  <2>5. PICK c \in Nat : c = request_pool[s].timers_cnt
    BY <1>4, <2>4 DEF Record
  <2>6. PICK a \in Nat : a = off[m]
    BY <1>9, <2>3
  <2>7. c > 0 => request_pool[s].timers_start = Wrap(timer_out + a, timer_size)
    BY <1>7, <1>8, <1>10, <2>2, <2>3, <2>5, <2>6 DEF Chain, Owns, HeldSlot
  <2>8. off[m + 1] = a + c
    <3>0. m \in 0 .. Total - 1 /\ m < Placed
      BY <1>4, <1>8, <2>3
    <3>1. Sizes[m] = c
      BY <2>2, <2>5, <3>0 DEF Sizes, SizeOf, HeldSlot
    <3>. QED
      BY <1>7, <1>8, <2>3, <2>6, <3>1 DEF Chain, RunningTotal
  <2>9. PICK b \in Nat : b = off[d]
    BY <1>6, <1>9
  <2>10. a + c <= b
    BY <1>6, <1>9, <2>3, <2>8, <2>9
  <2>11. p \in Nat /\ b <= p /\ p < timer_size
    <3>1. p \in b .. TimersLive - 1
      BY <2>9
    <3>. QED
      BY ONLY <1>4, <3>1, b \in Nat
  <2>12. c > 0
    BY <2>1, <2>5 DEF InSpan
  <2>13. a < timer_size /\ p >= a /\ p - a >= c
    BY ONLY <1>4, <2>10, <2>11, <2>12, a \in Nat, b \in Nat, c \in Nat
  <2>14. Offset(Wrap(timer_out + p, timer_size), Wrap(timer_out + a, timer_size)) = p - a
    BY <1>4, <2>11, <2>13, SpanOffset
  <2>15. p - a \in 0 .. c - 1
    BY <2>1, <2>5, <2>7, <2>12, <2>14 DEF InSpan
  <2>. QED
    BY ONLY <2>11, <2>13, <2>15, a \in Nat, c \in Nat
<1>11. Survive(off, d)
  <2>1. ASSUME NEW p \in off[d] .. TimersLive - 1
        PROVE  Wrap(timer_out + p, timer_size) \in DOMAIN timer_pool
    <3>1. PICK b \in Nat : b = off[d]
      BY <1>6, <1>9
    <3>2. p \in Nat /\ p < timer_size
      BY <1>4, <3>1
    <3>3. DOMAIN timer_pool = 0 .. timer_size - 1
      BY <1>4
    <3>. QED
      BY ONLY <1>4, <3>2, <3>3 DEF Wrap
  <2>2. ASSUME 0 \notin TagCounts, NEW p \in off[d] .. TimersLive - 1
        PROVE  timer_pool'[Wrap(timer_out + p, timer_size)]
               = timer_pool[Wrap(timer_out + p, timer_size)]
    BY <1>1, <1>10, <2>1, <2>2, Zenon
  <2>. QED
    BY <1>2, <2>2 DEF Survive
<1>12. ChainInv' /\ Held' = Held - d /\ first' \in Slots /\ timer_out' \in 0 .. timer_size - 1
  <2>1. /\ holder # "merge" /\ holder' \in {"none", "delete"}
        /\ timer_out' = Wrap(timer_out + off[d], timer_size)
        /\ first' = Wrap(first + d, RequestPoolSize)
    BY <1>1, <1>6, <1>9
  <2>. QED
    BY <1>2, <1>3, <1>6, <1>7, <1>9, <1>11, <2>1, ChainDrop
<1>13. TypeOK'
  <2>1. timer_pool' \in [0 .. timer_size - 1 -> Timer]
    <3>1. \A i \in 0 .. timer_size - 1 :
             [timer_pool[i] EXCEPT !.tag_num = 0, !.hit = FALSE] \in Timer
      BY <1>4 DEF Timer
    <3>. QED
      BY <1>1, <1>4, <3>1
  <2>2. holder' \in Holders /\ batch' \in Batches /\ from' \in Nat
    BY <1>1 DEF Holders, NoBatch, Batches
  <2>. QED
    BY <1>2, <1>3, <1>12, <2>1, <2>2, Zenon DEF TypeOK, Batches
<1>14. Live' = Live /\ Admitted' = Admitted /\ batch'.created = 0
  BY <1>1, <1>2 DEF Live, Admitted, NoBatch
<1>15. OrderInv'
  BY <1>1, <1>2, <1>3, <1>14, OrderFrame
<1>16. PhaseInv'
  BY <1>1, <1>2 DEF PhaseInv, NoBatch
<1>. QED
  BY <1>12, <1>13, <1>15, <1>16 DEF IInv
=============================================================================
