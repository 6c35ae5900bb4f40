---------------------------- MODULE RingsGrowth ----------------------------
(***************************************************************************)
(* Growing the timer ring preserves the invariant of module RingsInvariant. *)
(***************************************************************************)
EXTENDS RingsReserve, WellFoundedInduction, FiniteSetTheorems

\* The least element of a set of natural numbers.
Less == {ss \in Nat \X Nat : ss[1] < ss[2]}

\* Every nonempty set of naturals has a least element.
LEMMA LeastNat ==
    ASSUME NEW T, T \subseteq Nat, T # {}
    PROVE  \E m \in T : \A k \in T : m <= k
<1>0. OpToRel(<, Nat) = Less
  BY Zenon DEF OpToRel, Less
<1>1. PICK m \in T : \A k \in T : ~ (<<k, m>> \in Less)
  BY <1>0, NatLessThanWellFounded, WFMin, Zenon
<1>2. ASSUME NEW k \in T PROVE m <= k
  <2>1. k \in Nat /\ m \in Nat
    OBVIOUS
  <2>2. k < m => <<k, m>> \in Less
    BY <2>1 DEF Less
  <2>. QED
    BY <1>1, <2>1, <2>2
<1>. QED
  BY <1>2

\* Every timer slot in use belongs to one of the counts.
LEMMA Cover ==
    ASSUME NEW n \in Nat, NEW off \in [0 .. n -> Nat], NEW cnt, RunningTotal(off, cnt, n),
           NEW p \in Nat, p < off[n]
    PROVE  \E k \in 0 .. n - 1 : off[k] <= p /\ p < off[k] + cnt[k]
<1>1. PICK T : T = {k \in 0 .. n : p < off[k]}
  OBVIOUS
<1>2. PICK m \in T : \A k \in T : m <= k
  <2>1. T \subseteq Nat /\ n \in T
    BY <1>1
  <2>. QED
    BY <2>1, LeastNat
<1>3. m \in 0 .. n /\ p < off[m]
  BY <1>1
<1>4. m # 0
  BY <1>3 DEF RunningTotal
<1>5. m - 1 \in 0 .. n - 1 /\ m - 1 \in 0 .. n /\ (m - 1) + 1 = m /\ ~ (m <= m - 1)
  BY <1>3, <1>4
<1>6. ~ (p < off[m - 1])
  BY <1>1, <1>2, <1>5
<1>7. off[m] = off[m - 1] + cnt[m - 1] /\ off[m - 1] \in Nat
  BY <1>5 DEF RunningTotal
<1>. QED
  BY <1>3, <1>5, <1>6, <1>7

\* When a wrapped timer ring grows, timer_pool_add moves timers_start of a
\* record exactly once if the record's first timer lies in the moved tail, and
\* not at all otherwise.
LEMMA GrowShift ==
    ASSUME TypeOK, 0 \notin TagCounts, NEW off \in [0 .. Held -> Nat], Chain(off),
           holder = "copy", timer_out > timer_in, NEW m \in Nat, NEW k \in 0 .. Held - 1,
           request_pool[HeldSlot(k)].timers_cnt > 0
    PROVE  {i \in ShiftPoints(GrownPool(m), timer_out + m, timer_size + m - 1) :
               GrownPool(m)[i].request_id = HeldSlot(k)}
           = IF timer_out + off[k] < timer_size THEN {timer_out + m + off[k]} ELSE {}
<1>1. /\ timer_size \in Nat /\ timer_in \in 0 .. timer_size - 1
      /\ timer_out \in 0 .. timer_size - 1
      /\ timer_pool \in [0 .. timer_size - 1 -> Timer]
      /\ request_pool \in [Slots -> Record]
      /\ RequestPoolSize \in Nat
  BY RingsAssumption DEF TypeOK
<1>2. /\ Held \in 0 .. RequestPoolSize - 1 /\ TimersLive \in 0 .. timer_size - 1
  BY Positions
<1>3. PICK n \in Nat : n = Held
  BY <1>2
<1>4. Total = n /\ Placed = n
  BY <1>2, <1>3 DEF Total, Placed
<1>5. PICK g : g = GrownPool(m)
  OBVIOUS
<1>6. PICK lo \in Nat : lo = timer_out + m
  BY <1>1
<1>7. PICK hi \in Nat : hi = timer_size + m - 1
  BY <1>1
<1>8. TimersLive = timer_size - timer_out + timer_in
  BY ONLY <1>1, timer_out > timer_in DEF TimersLive, pinba_pool_num_records
<1>9. \A i \in lo .. hi : g[i] = timer_pool[i - m]
  <2>. TAKE i \in lo .. hi
  <2>1. i \in 0 .. timer_size + m - 1 /\ ~ (i < timer_out) /\ ~ (i < timer_out + m)
    BY ONLY <1>1, <1>6, <1>7, m \in Nat, i \in lo .. hi
  <2>. QED
    BY <1>5, <2>1 DEF GrownPool
<1>10. PICK cnt \in [0 .. n - 1 -> Nat] :
          \A q \in 0 .. n - 1 : cnt[q] = request_pool[Wrap(first + q, RequestPoolSize)].timers_cnt
  <2>1. \A q \in 0 .. n - 1 : request_pool[Wrap(first + q, RequestPoolSize)].timers_cnt \in Nat
    <3>. TAKE q \in 0 .. n - 1
    <3>1. q \in 0 .. RequestPoolSize - 1
      BY <1>1, <1>2, <1>3
    <3>2. Wrap(first + q, RequestPoolSize) \in Slots
      BY <3>1, HeldSlots
    <3>. QED
      BY <1>1, <3>2 DEF Record
  <2>2. PICK f : f = [q \in 0 .. n - 1 |->
                         request_pool[Wrap(first + q, RequestPoolSize)].timers_cnt]
    OBVIOUS
  <2>. QED
    BY <2>1, <2>2
<1>11. /\ off \in [0 .. n -> Nat] /\ RunningTotal(off, cnt, n) /\ off[n] = TimersLive
  <2>1. \A q \in 0 .. n - 1 : cnt[q] = Sizes[q]
    BY <1>4, <1>10 DEF Sizes, SizeOf, HeldSlot
  <2>2. RunningTotal(off, Sizes, n) /\ off[n] = TimersLive
    BY <1>4 DEF Chain
  <2>. QED
    BY <1>3, <2>1, <2>2 DEF RunningTotal
<1>12. \A q \in 0 .. n - 1 : \A j \in 0 .. cnt[q] - 1 :
          LET t == timer_pool[Wrap(timer_out + off[q] + j, timer_size)] IN
          t.request_id = Wrap(first + q, RequestPoolSize) /\ t.tag_num # 0
  <2>. TAKE q \in 0 .. n - 1
  <2>1. Owns(Wrap(first + q, RequestPoolSize), off[q])
    BY <1>4 DEF Chain, HeldSlot
  <2>2. cnt[q] = request_pool[Wrap(first + q, RequestPoolSize)].timers_cnt
    BY <1>10
  <2>. QED
    BY ONLY <2>1, <2>2 DEF Owns
<1>13. ASSUME NEW i \in lo .. hi, NEW q \in 0 .. n - 1,
              off[q] <= i - lo, i - lo < off[q] + cnt[q]
       PROVE  /\ g[i].request_id = Wrap(first + q, RequestPoolSize) /\ g[i].tag_num # 0
              /\ cnt[q] # 0
  <2>1. off[q] \in Nat /\ cnt[q] \in Nat
    <3>1. q \in 0 .. n
      OBVIOUS
    <3>. QED
      BY <1>11, <3>1 DEF RunningTotal
  <2>2. PICK j \in 0 .. cnt[q] - 1 : j = (i - lo) - off[q]
    <3>1. (i - lo) - off[q] \in 0 .. cnt[q] - 1
      BY ONLY <1>13, <2>1, i \in lo .. hi, lo \in Nat, hi \in Nat
    <3>. QED
      BY <3>1
  <2>3. timer_out + off[q] + j = i - m /\ i - m < timer_size
    BY ONLY <1>1, <1>6, <1>7, <2>1, <2>2, m \in Nat, i \in lo .. hi
  <2>4. Wrap(timer_out + off[q] + j, timer_size) = i - m
    BY <1>1, <2>3 DEF Wrap
  <2>5. LET t == timer_pool[i - m] IN
        t.request_id = Wrap(first + q, RequestPoolSize) /\ t.tag_num # 0
    BY ONLY <1>12, <2>2, <2>4, q \in 0 .. n - 1, j \in 0 .. cnt[q] - 1
  <2>6. cnt[q] # 0
    BY ONLY <2>1, j \in 0 .. cnt[q] - 1
  <2>. QED
    BY <1>9, <2>5, <2>6
<1>14. ASSUME NEW i \in lo .. hi
       PROVE  \E q \in 0 .. n - 1 : off[q] <= i - lo /\ i - lo < off[q] + cnt[q]
  <2>1. i - lo \in Nat /\ i - lo < off[n]
    BY ONLY <1>1, <1>6, <1>7, <1>8, <1>11, m \in Nat, i \in lo .. hi
  <2>. QED
    BY <1>11, <2>1, Cover
<1>15. \A i \in lo .. hi : Relevant(g, i)
  <2>. TAKE i \in lo .. hi
  <2>1. PICK q \in 0 .. n - 1 : off[q] <= i - lo /\ i - lo < off[q] + cnt[q]
    BY <1>14
  <2>. QED
    BY <1>10, <1>13, <2>1 DEF Relevant
<1>16. \A i \in lo .. hi : g[i].request_id = HeldSlot(k)
                           <=> off[k] <= i - lo /\ i - lo < off[k] + cnt[k]
  <2>. TAKE i \in lo .. hi
  <2>1. PICK q \in 0 .. n - 1 : off[q] <= i - lo /\ i - lo < off[q] + cnt[q]
    BY <1>14
  <2>2. Wrap(first + q, RequestPoolSize) = Wrap(first + k, RequestPoolSize) => q = k
    <3>1. q \in 0 .. RequestPoolSize - 1 /\ k \in 0 .. RequestPoolSize - 1
      BY <1>1, <1>2, <1>3
    <3>. QED
      BY <3>1, HeldSlots
  <2>. QED
    BY <1>3, <1>13, <2>1, <2>2 DEF HeldSlot
<1>17. PICK a \in Nat : a = off[k]
  BY <1>3, <1>11
<1>18. PICK c \in Nat : c = cnt[k] /\ c > 0
  BY <1>3, <1>10 DEF HeldSlot
<1>19. ASSUME NEW i \in lo .. hi, i \in ShiftPoints(g, lo, hi), g[i].request_id = HeldSlot(k)
       PROVE  i = lo + a
  <2>1. a <= i - lo /\ i - lo < a + c
    BY <1>16, <1>17, <1>18, <1>19
  <2>2. SUFFICES ASSUME i # lo + a PROVE FALSE
    OBVIOUS
  <2>3. i - 1 \in lo .. hi /\ i - 1 \in lo .. i - 1 /\ a <= (i - 1) - lo /\ (i - 1) - lo < a + c
        /\ (i - 1) + 1 .. i - 1 = {}
    BY ONLY <2>1, <2>2, i \in lo .. hi, lo \in Nat, hi \in Nat, a \in Nat, c \in Nat
  <2>4. Relevant(g, i - 1) /\ g[i - 1].request_id = g[i].request_id
    BY <1>15, <1>16, <1>17, <1>18, <1>19, <2>3
  <2>. QED
    BY ONLY <1>19, <2>3, <2>4 DEF ShiftPoints
<1>20. ASSUME lo + a \in lo .. hi
       PROVE  lo + a \in ShiftPoints(g, lo, hi) /\ g[lo + a].request_id = HeldSlot(k)
  <2>1. a <= (lo + a) - lo /\ (lo + a) - lo < a + c
    BY <1>18
  <2>2. g[lo + a].request_id = HeldSlot(k) /\ Relevant(g, lo + a)
    BY <1>15, <1>16, <1>17, <1>18, <1>20, <2>1
  <2>3. ASSUME NEW j \in lo .. (lo + a) - 1 PROVE g[j].request_id # HeldSlot(k)
    <3>1. j \in lo .. hi /\ ~ (a <= j - lo)
      BY ONLY <1>20, j \in lo .. (lo + a) - 1, lo \in Nat, hi \in Nat, a \in Nat
    <3>. QED
      BY <1>16, <1>17, <3>1
  <2>. QED
    BY ONLY <1>20, <2>2, <2>3 DEF ShiftPoints
<1>21. /\ (lo + a \in lo .. hi) <=> timer_out + off[k] < timer_size
       /\ lo + a = timer_out + m + off[k]
  BY ONLY <1>1, <1>6, <1>7, <1>17, m \in Nat, a \in Nat, lo \in Nat, hi \in Nat
<1>22. \A i \in ShiftPoints(g, lo, hi) : i \in lo .. hi
  BY DEF ShiftPoints
<1>23. {i \in ShiftPoints(g, lo, hi) : g[i].request_id = HeldSlot(k)}
       = IF timer_out + off[k] < timer_size THEN {lo + a} ELSE {}
  BY ONLY <1>19, <1>20, <1>21, <1>22
<1>. QED
  BY ONLY <1>5, <1>6, <1>7, <1>21, <1>23

\* timer_pool_add with growth: every held record whose timers lie in the moved
\* tail gets its timers_start moved by exactly the growth, all others keep theirs.
LEMMA ReserveGrowingStep == IInv /\ ReserveGrowing => IInv'
<1>0. SUFFICES ASSUME IInv, ReserveGrowing PROVE ReserveEffect
  BY ReserveCommon
<1>1. /\ holder = "copy" /\ holder' = "merge"
      /\ batch' = [batch EXCEPT !.prefix = timer_in]
      /\ request_pool_counter' = request_pool_counter + batch.created
  BY <1>0, Zenon DEF ReserveGrowing
<1>2. UNCHANGED <<in, out, timertags_cnt, launch, staged, first, from>>
  BY <1>0, Zenon DEF ReserveGrowing
<1>3. TypeOK /\ batch.timers \in Nat
  BY <1>0 DEF IInv, TypeOK
<1>4. /\ timer_size \in Nat /\ timer_in \in 0 .. timer_size - 1
      /\ timer_out \in 0 .. timer_size - 1
      /\ timer_pool \in [0 .. timer_size - 1 -> Timer]
      /\ request_pool \in [Slots -> Record]
  BY <1>3 DEF TypeOK
<1>5. /\ Held \in Nat /\ TimersLive \in 0 .. timer_size - 1
      /\ Wrap(timer_out + TimersLive, timer_size) = timer_in
      /\ \A k \in 0 .. Held - 1 : HeldSlot(k) \in Slots
  <2>1. /\ Held \in 0 .. RequestPoolSize - 1 /\ RequestPoolSize \in Nat
    BY <1>3, Positions, RingsAssumption
  <2>2. \A k \in 0 .. Held - 1 : HeldSlot(k) \in Slots
    <3>. TAKE k \in 0 .. Held - 1
    <3>1. k \in 0 .. RequestPoolSize - 1
      BY <2>1
    <3>. QED
      BY <1>3, <3>1, HeldSlots DEF HeldSlot
  <2>. QED
    BY <1>3, <2>1, <2>2, Positions
<1>6. PICK m \in Nat : m = More(batch.timers) /\ m >= batch.timers /\ m > 0
  BY <1>3, RingsAssumption DEF More
<1>7. /\ timer_pool' = GrownPool(m)
      /\ timer_size' = timer_size + m
      /\ timer_out' = IF timer_out > timer_in THEN timer_out + m ELSE timer_out
      /\ request_pool' = IF timer_out > timer_in
                         THEN ShiftedRecords(GrownPool(m), timer_out + m,
                                             timer_size + m - 1, m)
                         ELSE request_pool
      /\ timer_in' = Wrap(timer_in + batch.timers, timer_size + m)
  BY <1>0, <1>6, Zenon DEF ReserveGrowing
<1>8. PICK g : g = GrownPool(m)
  OBVIOUS
<1>9. g \in [0 .. timer_size + m - 1 -> Timer]
  <2>1. NoTimer \in Timer
    BY DEF NoTimer, Timer
  <2>2. \A i \in 0 .. timer_size + m - 1 :
           (IF timer_out > timer_in
            THEN IF i < timer_out THEN timer_pool[i]
                 ELSE IF i < timer_out + m THEN NoTimer
                 ELSE timer_pool[i - m]
            ELSE IF i < timer_size THEN timer_pool[i] ELSE NoTimer) \in Timer
    <3>. TAKE i \in 0 .. timer_size + m - 1
    <3>1. /\ i < timer_size => i \in 0 .. timer_size - 1
          /\ i < timer_out => i \in 0 .. timer_size - 1
          /\ ~ (i < timer_out + m) => i - m \in 0 .. timer_size - 1
      BY ONLY <1>4, m \in Nat, i \in 0 .. timer_size + m - 1
    <3>. QED
      BY <1>4, <2>1, <3>1
  <2>. QED
    BY <1>8, <2>2 DEF GrownPool
<1>10. \A i \in 0 .. timer_size + m - 1 :
          g[i] = (IF timer_out > timer_in
                  THEN IF i < timer_out THEN timer_pool[i]
                       ELSE IF i < timer_out + m THEN NoTimer
                       ELSE timer_pool[i - m]
                  ELSE IF i < timer_size THEN timer_pool[i] ELSE NoTimer)
  BY <1>8 DEF GrownPool
<1>11. /\ timer_size' \in Nat \ {0} /\ timer_out' \in 0 .. timer_size' - 1
       /\ timer_in \in 0 .. timer_size' - 1
       /\ pinba_pool_num_records(timer_in, timer_out', timer_size') = TimersLive
       /\ TimersLive + batch.timers < timer_size'
  <2>1. timer_out' = IF timer_out > timer_in THEN timer_out + m ELSE timer_out
    BY <1>7
  <2>2. timer_size' = timer_size + m
    BY <1>7
  <2>. QED
    <3>1. TimersLive = IF timer_out > timer_in THEN timer_size - (timer_out - timer_in)
                       ELSE timer_in - timer_out
      BY ONLY <1>4 DEF TimersLive, pinba_pool_num_records
    <3>2. batch.timers \in Nat /\ m \in Nat /\ m >= batch.timers /\ m > 0
      BY <1>3, <1>6
    <3>. QED
      BY ONLY <1>4, <2>1, <2>2, <3>1, <3>2 DEF pinba_pool_num_records
\* A live timer keeps its distance from timer_out.
<1>12. ASSUME NEW p \in 0 .. TimersLive - 1
       PROVE  timer_pool'[Wrap(timer_out' + p, timer_size')]
              = timer_pool[Wrap(timer_out + p, timer_size)]
  <2>1. timer_out' = (IF timer_out > timer_in THEN timer_out + m ELSE timer_out)
        /\ timer_size' = timer_size + m /\ timer_pool' = g
    BY <1>7, <1>8
  <2>2. CASE timer_out > timer_in
    <3>1. TimersLive = timer_size - timer_out + timer_in
      BY ONLY <1>4, <2>2 DEF TimersLive, pinba_pool_num_records
    <3>2. CASE timer_out + p < timer_size
      <4>1. /\ Wrap(timer_out' + p, timer_size') = timer_out + m + p
            /\ Wrap(timer_out + p, timer_size) = timer_out + p
            /\ timer_out + m + p \in 0 .. timer_size + m - 1
            /\ ~ (timer_out + m + p < timer_out) /\ ~ (timer_out + m + p < timer_out + m)
            /\ (timer_out + m + p) - m = timer_out + p
        BY ONLY <1>4, <2>1, <2>2, <3>2, m \in Nat, p \in Nat DEF Wrap
      <4>. QED
        BY <1>10, <2>1, <2>2, <4>1
    <3>3. CASE timer_out + p >= timer_size
      <4>1. /\ Wrap(timer_out' + p, timer_size') = timer_out + p - timer_size
            /\ Wrap(timer_out + p, timer_size) = timer_out + p - timer_size
            /\ timer_out + p - timer_size \in 0 .. timer_size + m - 1
            /\ timer_out + p - timer_size < timer_out
        BY ONLY <1>4, <1>5, <2>1, <2>2, <3>1, <3>3, m \in Nat, p \in 0 .. TimersLive - 1 DEF Wrap
      <4>. QED
        BY <1>10, <2>1, <2>2, <4>1
    <3>. QED
      BY ONLY <1>4, <1>5, <3>2, <3>3, p \in 0 .. TimersLive - 1
  <2>3. CASE ~ (timer_out > timer_in)
    <3>1. TimersLive = timer_in - timer_out
      BY ONLY <1>4, <2>3 DEF TimersLive, pinba_pool_num_records
    <3>2. /\ Wrap(timer_out' + p, timer_size') = timer_out + p
          /\ Wrap(timer_out + p, timer_size) = timer_out + p
          /\ timer_out + p \in 0 .. timer_size + m - 1
          /\ timer_out + p < timer_size
      BY ONLY <1>4, <1>5, <2>1, <2>3, <3>1, m \in Nat, p \in 0 .. TimersLive - 1 DEF Wrap
    <3>. QED
      BY <1>10, <2>1, <2>3, <3>2
  <2>. QED
    BY <2>2, <2>3
<1>13. PICK sh \in [Slots -> Nat] :
          /\ timer_out > timer_in => \A s \in Slots : sh[s] =
                Cardinality({i \in ShiftPoints(g, timer_out + m, timer_size + m - 1) :
                                g[i].request_id = s})
          /\ ~ (timer_out > timer_in) => \A s \in Slots : sh[s] = 0
  <2>1. \A s : Cardinality({i \in ShiftPoints(g, timer_out + m, timer_size + m - 1) :
                               g[i].request_id = s}) \in Nat
    <3>. TAKE s
    <3>1. {i \in ShiftPoints(g, timer_out + m, timer_size + m - 1) : g[i].request_id = s}
          \in SUBSET (timer_out + m .. timer_size + m - 1)
      BY DEF ShiftPoints
    <3>2. IsFiniteSet(timer_out + m .. timer_size + m - 1)
      <4>1. timer_out + m \in Int /\ timer_size + m - 1 \in Int
        BY <1>4
      <4>. QED
        BY <4>1, FS_Interval
    <3>. QED
      BY <3>1, <3>2, FS_Subset, FS_CardinalityType
  <2>2. PICK f : f = [s \in Slots |->
           IF timer_out > timer_in
           THEN Cardinality({i \in ShiftPoints(g, timer_out + m, timer_size + m - 1) :
                                g[i].request_id = s})
           ELSE 0]
    OBVIOUS
  <2>3. f \in [Slots -> Nat]
    BY <2>1, <2>2
  <2>. QED
    BY <2>2, <2>3
<1>14. request_pool' = [s \in Slots |->
          [request_pool[s] EXCEPT !.timers_start = request_pool[s].timers_start + m * sh[s]]]
  <2>1. CASE timer_out > timer_in
    BY <1>7, <1>8, <1>13, <2>1, Zenon DEF ShiftedRecords
  <2>2. CASE ~ (timer_out > timer_in)
    <3>1. \A s \in Slots : request_pool[s].timers_start \in Nat
      BY <1>4 DEF Record
    <3>2. \A s \in Slots : request_pool[s].timers_start + m * sh[s]
                           = request_pool[s].timers_start
      <4>. TAKE s \in Slots
      <4>1. sh[s] = 0 /\ m * 0 = 0
        BY <1>13, <2>2
      <4>. QED
        BY <3>1, <4>1
    <3>3. \A s \in Slots :
             [request_pool[s] EXCEPT !.timers_start = request_pool[s].timers_start]
             = request_pool[s]
      BY <1>4 DEF Record
    <3>4. request_pool' = request_pool
      BY <1>7, <2>2
    <3>. QED
      BY <1>4, <3>2, <3>3, <3>4
  <2>. QED
    BY <2>1, <2>2
<1>15. \A s \in Slots : m * sh[s] \in Nat
  BY <1>13
<1>16. \A s \in Slots :
          /\ request_pool'[s] \in Record
          /\ request_pool'[s].active = request_pool[s].active
          /\ request_pool'[s].counter = request_pool[s].counter
          /\ request_pool'[s].time = request_pool[s].time
          /\ request_pool'[s].timers_cnt = request_pool[s].timers_cnt
          /\ request_pool'[s].timers_start = request_pool[s].timers_start + m * sh[s]
  <2>. TAKE s \in Slots
  <2>1. PICK w \in Nat : w = m * sh[s]
    BY <1>15
  <2>2. request_pool'[s]
        = [request_pool[s] EXCEPT !.timers_start = request_pool[s].timers_start + w]
    BY <1>14, <2>1
  <2>3. request_pool[s] \in Record
    BY <1>4
  <2>. QED
    BY ONLY <2>1, <2>2, <2>3, w \in Nat DEF Record
<1>17. request_pool' \in [Slots -> Record] /\ SameRecords
  <2>1. request_pool' = [s \in Slots |-> request_pool'[s]]
    BY <1>14
  <2>. QED
    BY <1>16, <2>1 DEF SameRecords
<1>18. ASSUME 0 \notin TagCounts, NEW off \in [0 .. Held -> Nat], Chain(off),
              NEW k \in 0 .. Held - 1
       PROVE  Owns(HeldSlot(k), off[k])'
  <2>1. Placed = Held /\ Total = Held
    BY <1>1, <1>5 DEF Placed, Total
  <2>2. PICK s \in Slots : s = HeldSlot(k)
    BY <1>5
  <2>3. Owns(s, off[k])
    BY <1>18, <2>1, <2>2 DEF Chain
  <2>4. PICK c \in Nat : c = request_pool[s].timers_cnt
    BY <1>4, <2>2 DEF Record
  <2>5. PICK a \in Nat : a = off[k]
    BY <1>5
  <2>6. a + c <= TimersLive
    <3>1. Sizes[k] = c
      BY <1>5, <2>1, <2>2, <2>4 DEF Sizes, SizeOf
    <3>2. off[k + 1] = a + c /\ off[k + 1] <= off[Held] /\ off[Held] = TimersLive
      <4>1. k \in 0 .. Held - 1 /\ k + 1 \in 0 .. Held /\ Held \in 0 .. Held /\ k + 1 <= Held
        BY <1>5
      <4>. QED
        BY <1>18, <2>1, <2>5, <3>1, <4>1 DEF Chain, RunningTotal
    <3>. QED
      BY <3>2
  <2>7. c > 0 => request_pool'[s].timers_start = Wrap(timer_out' + a, timer_size')
    <3>1. SUFFICES ASSUME c > 0
                   PROVE  request_pool'[s].timers_start = Wrap(timer_out' + a, timer_size')
      OBVIOUS
    <3>2. request_pool[s].timers_start = Wrap(timer_out + a, timer_size)
      BY <2>3, <2>4, <2>5, <3>1 DEF Owns
    <3>3. request_pool'[s].timers_start = Wrap(timer_out + a, timer_size) + m * sh[s]
      BY <1>16, <3>2
    <3>4. timer_out' = (IF timer_out > timer_in THEN timer_out + m ELSE timer_out)
          /\ timer_size' = timer_size + m
      BY <1>7
    <3>5. CASE timer_out > timer_in
      <4>1. {i \in ShiftPoints(g, timer_out + m, timer_size + m - 1) : g[i].request_id = s}
            = IF timer_out + a < timer_size THEN {timer_out + m + a} ELSE {}
        <5>1. request_pool[HeldSlot(k)].timers_cnt > 0
          BY <2>2, <2>4, <3>1
        <5>2. {i \in ShiftPoints(GrownPool(m), timer_out + m, timer_size + m - 1) :
                  GrownPool(m)[i].request_id = HeldSlot(k)}
              = IF timer_out + off[k] < timer_size THEN {timer_out + m + off[k]} ELSE {}
          BY ONLY <1>1, <1>3, <1>18, <3>5, <5>1, GrowShift, m \in Nat,
                  off \in [0 .. Held -> Nat], k \in 0 .. Held - 1, Zenon
        <5>. QED
          BY ONLY <1>8, <2>2, <2>5, <5>2, Zenon
      <4>2. sh[s] = IF timer_out + a < timer_size THEN 1 ELSE 0
        <5>1. sh[s] = Cardinality(IF timer_out + a < timer_size
                                  THEN {timer_out + m + a} ELSE {})
          BY <1>13, <3>5, <4>1, Zenon
        <5>. QED
          BY ONLY <5>1, FS_Singleton, FS_EmptySet
      <4>3. m * sh[s] = IF timer_out + a < timer_size THEN m ELSE 0
        BY <4>2
      <4>. QED
        BY ONLY <1>4, <1>5, <2>6, <3>1, <3>3, <3>4, <3>5, <4>3, m \in Nat, a \in Nat, c \in Nat
           DEF Wrap
    <3>6. CASE ~ (timer_out > timer_in)
      <4>1. m * sh[s] = 0
        BY <1>13, <3>6
      <4>2. TimersLive = timer_in - timer_out
        BY ONLY <1>4, <3>6 DEF TimersLive, pinba_pool_num_records
      <4>. QED
        BY ONLY <1>4, <1>5, <2>6, <3>1, <3>3, <3>4, <3>6, <4>1, <4>2,
                m \in Nat, a \in Nat, c \in Nat DEF Wrap
    <3>. QED
      BY <3>5, <3>6
  <2>8. ASSUME NEW j \in 0 .. c - 1
        PROVE  LET t == timer_pool'[Wrap(timer_out' + a + j, timer_size')] IN
               t.request_id = s /\ t.hit /\ t.tag_num # 0
    <3>1. a + j \in 0 .. TimersLive - 1
      BY ONLY <1>4, <1>5, <2>6, a \in Nat, c \in Nat, j \in 0 .. c - 1
    <3>2. timer_out' + a + j = timer_out' + (a + j) /\ timer_out + a + j = timer_out + (a + j)
      BY <1>4, <1>11
    <3>3. LET t == timer_pool[Wrap(timer_out + (a + j), timer_size)] IN
          t.request_id = s /\ t.hit /\ t.tag_num # 0
      BY <2>3, <2>4, <2>5, <3>2 DEF Owns
    <3>4. timer_pool'[Wrap(timer_out' + (a + j), timer_size')]
          = timer_pool[Wrap(timer_out + (a + j), timer_size)]
      BY <1>12, <3>1
    <3>. QED
      BY ONLY <3>2, <3>3, <3>4
  <2>9. HeldSlot(k)' = s /\ off[k] = a /\ request_pool'[s].timers_cnt = c
    BY <1>2, <1>16, <2>2, <2>4, <2>5 DEF HeldSlot
  <2>. QED
    BY ONLY <2>7, <2>8, <2>9 DEF Owns
<1>19. timer_pool' \in [0 .. timer_size' - 1 -> Timer]
       /\ timer_in' = Wrap(timer_in + batch.timers, timer_size')
  <2>1. /\ timer_pool' = g /\ timer_size' = timer_size + m
        /\ timer_in' = Wrap(timer_in + batch.timers, timer_size + m)
    BY <1>7, <1>8, Zenon
  <2>2. timer_pool' \in [0 .. timer_size' - 1 -> Timer]
    <3>1. 0 .. timer_size' - 1 = 0 .. timer_size + m - 1
      BY ONLY <1>4, <2>1, m \in Nat
    <3>. QED
      BY ONLY <1>9, <2>1, <3>1
  <2>. QED
    BY ONLY <2>1, <2>2, Zenon
<1>. QED
  BY <1>1, <1>2, <1>11, <1>16, <1>17, <1>18, <1>19, Zenon DEF ReserveEffect
=============================================================================
