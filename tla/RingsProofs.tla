----------------------------- MODULE RingsProofs -----------------------------
(***************************************************************************)
(* Every step preserves the invariant of module RingsInvariant: the        *)
(* theorems about module Rings.                                            *)
(***************************************************************************)
EXTENDS RingsGrowth

\* A step that changes nothing preserves the invariant.
LEMMA StutterStep == IInv /\ UNCHANGED vars => IInv'
<1>1. SUFFICES ASSUME IInv, UNCHANGED vars PROVE IInv'
  OBVIOUS
<1>2. UNCHANGED <<request_pool, in, out, request_pool_counter, timer_pool, timer_size,
                  timer_in, timer_out, timertags_cnt, launch, holder, batch, staged,
                  first, from>>
  BY <1>1, Zenon DEF vars
<1>3. TypeOK' /\ PhaseInv' /\ OrderInv'
  BY <1>1, <1>2, Zenon DEF IInv, TypeOK, PhaseInv, OrderInv, Held, Live, FreeSlots,
     DeletedCnt, Admitted, BatchSlot, HeldSlot
<1>4. ChainInv'
  <2>1. /\ Held' = Held /\ Total' = Total /\ Placed' = Placed /\ DeletedCnt' = DeletedCnt
        /\ TimersLive' = TimersLive
    BY <1>2, Zenon DEF Held, Total, Placed, DeletedCnt, TimersLive
  <2>2. Sizes' = Sizes /\ StagedSizes' = StagedSizes
    BY <1>2, <2>1, Zenon DEF Sizes, SizeOf, StagedSizes, HeldSlot
  <2>3. ASSUME NEW off PROVE Chain(off)' = Chain(off) /\ StageChain(off)' = StageChain(off)
    BY <1>2, <2>1, <2>2, Zenon DEF Chain, StageChain, Owns, HeldSlot
  <2>4. ChainInv
    BY <1>1 DEF IInv
  <2>. QED
    BY <1>2, <2>1, <2>3, <2>4, Zenon DEF ChainInv
<1>. QED
  BY <1>3, <1>4 DEF IInv

\* Every step of every operation preserves the invariant.
LEMMA NextStep == IInv /\ [Next]_vars => IInv'
<1>0. SUFFICES ASSUME IInv, [Next]_vars PROVE IInv'
  OBVIOUS
<1>1. CASE LockForBatch
  BY <1>0, <1>1, LockForBatchStep
<1>2. CASE \E ts \in TimerSeqs : CopyRequest(ts)
  BY <1>0, <1>2, CopyRequestStep
<1>3. CASE CopyFails
  BY <1>0, <1>3, CopyFailsStep
<1>4. CASE Reserve
  BY <1>0, <1>4, ReserveStep
<1>5. CASE ReserveGrowing
  BY <1>0, <1>5, ReserveGrowingStep
<1>6. CASE ReserveNothing
  BY <1>0, <1>6, ReserveNothingStep
<1>7. CASE MergeTimers
  BY <1>0, <1>7, MergeTimersStep
<1>8. CASE Publish
  BY <1>0, <1>8, PublishStep
<1>9. CASE \E cut \in 1 .. launch : LockForExpire(cut)
  <2>1. PICK cut \in 1 .. launch : LockForExpire(cut)
    BY <1>9
  <2>2. cut \in Nat
    BY <1>0 DEF IInv, TypeOK
  <2>. QED
    BY <1>0, <2>1, <2>2, LockForExpireStep
<1>10. CASE DeleteOld
  BY <1>0, <1>10, DeleteOldStep
<1>11. CASE ClearTimers
  BY <1>0, <1>11, ClearTimersStep
<1>12. CASE LockForDelete
  BY <1>0, <1>12, LockForDeleteStep
<1>13. CASE DestroyRecord
  BY <1>0, <1>13, DestroyRecordStep
<1>14. CASE ReinitRequestPool
  BY <1>0, <1>14, ReinitRequestPoolStep
<1>15. CASE UNCHANGED vars
  BY <1>0, <1>15, StutterStep
<1>. QED
  BY <1>0, <1>1, <1>2, <1>3, <1>4, <1>5, <1>6, <1>7, <1>8, <1>9, <1>10, <1>11, <1>12,
     <1>13, <1>14, <1>15, Zenon DEF Next

\* The invariant holds in every reachable state.
LEMMA InvariantHolds == Spec => []IInv
BY InitHolds, NextStep, PTL DEF Spec

\* Ring positions stay positions of their rings and every record and timer
\* keeps its type, whatever the ring sizes, the batches and the cuts.
THEOREM RingsTypeCorrect == Spec => []TypeOK
<1>1. IInv => TypeOK
  BY DEF IInv
<1>. QED
  BY <1>1, InvariantHolds, PTL

\* Published records are consecutively numbered and sorted by time, which is
\* what pinba_request_pool_delete_old relies on when it stops at the first
\* record younger than the cut.
THEOREM RingsOrdered == Spec => []RingOrdered
<1>1. IInv => RingOrdered
  <2>1. SUFFICES ASSUME IInv, holder = "none" PROVE RingOrdered
    BY DEF RingOrdered
  <2>2. first = out /\ Admitted = request_pool_counter /\ OrderInv
    <3>1. request_pool_counter \in Nat
      BY <2>1 DEF IInv, TypeOK
    <3>. QED
      BY <2>1, <3>1 DEF IInv, PhaseInv, Admitted
  <2>. QED
    BY <2>2, Zenon DEF RingOrdered, OrderInv, HeldSlot
<1>. QED
  BY <1>1, InvariantHolds, PTL

\* If every stored timer carries a tag, a published record reads its own timers
\* and only those: through wrap-around, slot reuse, expiration, DELETE and every
\* growth of the timer ring, in which timer_pool_add moves the timers_start of
\* exactly the records whose first timer is moved.
THEOREM RingsOwnTimers == ASSUME 0 \notin TagCounts PROVE Spec => []OwnTimers
<1>1. IInv => OwnTimers
  <2>0. SUFFICES ASSUME IInv, NEW k \in 0 .. Held - 1,
                        NEW j \in 0 .. request_pool[HeldSlot(k)].timers_cnt - 1
                 PROVE  LET s == HeldSlot(k)
                            i == record_get_timer(request_pool[s], j) IN
                        /\ i \in DOMAIN timer_pool
                        /\ InSpan(i, timer_out, TimersLive)
                        /\ timer_pool[i].request_id = s
                        /\ timer_pool[i].hit
    BY Zenon DEF OwnTimers
  <2>1. TypeOK
    BY <2>0 DEF IInv
  <2>2. /\ timer_size \in Nat /\ timer_out \in 0 .. timer_size - 1
        /\ timer_pool \in [0 .. timer_size - 1 -> Timer]
        /\ request_pool \in [Slots -> Record] /\ batch.merged \in Nat /\ batch.created \in Nat
        /\ RequestPoolSize \in Nat
    BY <2>1, RingsAssumption DEF TypeOK
  <2>3. Held \in 0 .. RequestPoolSize - 1 /\ TimersLive \in 0 .. timer_size - 1
    BY <2>1, Positions
  <2>4. PICK s \in Slots : s = HeldSlot(k)
    <3>1. k \in 0 .. RequestPoolSize - 1
      BY <2>2, <2>3
    <3>. QED
      BY <2>1, <3>1, HeldSlots DEF HeldSlot
  <2>5. PICK c \in Nat : c = request_pool[s].timers_cnt
    BY <2>2 DEF Record
  <2>6. PICK off \in [0 .. Total -> Nat] : Chain(off)
    BY <2>0 DEF IInv, ChainInv
  <2>7. PICK t \in Nat : t = Total /\ k \in 0 .. t - 1 /\ k < Placed
    BY <2>2, <2>3 DEF Total, Placed
  <2>8. PICK a \in Nat : a = off[k]
    BY <2>7
  <2>9. Owns(s, a)
    <3>1. k \in 0 .. Placed - 1
      BY <2>2, <2>3, <2>7 DEF Placed
    <3>. QED
      BY <2>4, <2>6, <2>8, <3>1 DEF Chain
  <2>10. a + c <= TimersLive
    <3>1. Sizes[k] = c
      BY <2>4, <2>5, <2>7 DEF Sizes, SizeOf
    <3>2. k + 1 \in 0 .. t /\ t \in 0 .. t /\ k + 1 <= t
      BY <2>7
    <3>3. off[k + 1] = off[k] + Sizes[k] /\ off[k + 1] <= off[t] /\ off[t] = TimersLive
      BY <2>6, <2>7, <3>2 DEF Chain, RunningTotal
    <3>. QED
      BY <2>8, <3>1, <3>3
  <2>11. j \in 0 .. c - 1
    BY <2>4, <2>5
  <2>12. request_pool[s].timers_start = Wrap(timer_out + a, timer_size)
    BY <2>5, <2>9, <2>11 DEF Owns
  <2>13. /\ Wrap(Wrap(timer_out + a, timer_size) + j, timer_size)
            = Wrap(timer_out + a + j, timer_size)
         /\ Wrap(timer_out + a + j, timer_size) \in 0 .. timer_size - 1
         /\ Offset(Wrap(timer_out + a + j, timer_size), timer_out) = a + j
         /\ a + j \in 0 .. TimersLive - 1
    <3>1. timer_size \in Nat /\ timer_out \in 0 .. timer_size - 1
          /\ TimersLive \in 0 .. timer_size - 1 /\ j \in Nat /\ a \in Nat /\ c \in Nat
      BY <2>2, <2>3, <2>11
    <3>2. a + j \in 0 .. TimersLive - 1
      BY ONLY <2>10, <2>11, <3>1
    <3>3. CASE timer_out + a >= timer_size
      BY ONLY <3>1, <3>2, <3>3 DEF Wrap, Offset
    <3>4. CASE timer_out + a < timer_size
      BY ONLY <3>1, <3>2, <3>4 DEF Wrap, Offset
    <3>. QED
      BY ONLY <3>1, <3>3, <3>4
  <2>14. record_get_timer(request_pool[s], j) = Wrap(timer_out + a + j, timer_size)
    BY <2>12, <2>13 DEF record_get_timer
  <2>15. LET u == timer_pool[Wrap(timer_out + a + j, timer_size)] IN u.request_id = s /\ u.hit
    BY <2>5, <2>9, <2>11 DEF Owns
  <2>16. DOMAIN timer_pool = 0 .. timer_size - 1
    BY <2>2
  <2>17. InSpan(Wrap(timer_out + a + j, timer_size), timer_out, TimersLive)
    BY <2>13 DEF InSpan
  <2>. QED
    BY ONLY <2>4, <2>13, <2>14, <2>15, <2>16, <2>17, Zenon
<1>. QED
  BY <1>1, InvariantHolds, PTL

\* Expiration removes exactly the records older than its cut.
THEOREM RingsExpiryExact == Spec => ExpiryExact
<1> DEFINE Exact == ClearTimers =>
              /\ \A k \in 0 .. Live - 1 :
                    request_pool[Wrap(out + k, RequestPoolSize)].time >= from
              /\ \A s \in Deleted : request_pool[s].time < from
<1>1. IInv => Exact
  <2>0. SUFFICES ASSUME IInv, ClearTimers
                 PROVE  /\ \A k \in 0 .. Live - 1 :
                              request_pool[Wrap(out + k, RequestPoolSize)].time >= from
                        /\ \A s \in Deleted : request_pool[s].time < from
    OBVIOUS
  <2>1. holder = "expire" /\ ~ OldestExpired
    BY <2>0, Zenon DEF ClearTimers
  <2>2. TypeOK /\ OrderInv
    BY <2>0 DEF IInv
  <2>3. /\ in \in 0 .. RequestPoolSize - 1 /\ out \in 0 .. RequestPoolSize - 1
        /\ RequestPoolSize \in Nat /\ from \in Nat /\ request_pool \in [Slots -> Record]
        /\ Live \in 0 .. RequestPoolSize - 1
    BY <2>2, RingsAssumption, Positions DEF TypeOK, Slots
  <2>4. \A s \in Deleted : request_pool[s].time < from
    BY <2>1, <2>2, Zenon DEF OrderInv, Deleted, DeletedCnt, HeldSlot
  <2>5. ASSUME NEW k \in 0 .. Live - 1
        PROVE  request_pool[Wrap(out + k, RequestPoolSize)].time >= from
    <3>1. in # out
      BY <2>3 DEF Live, pinba_pool_num_records
    <3>2. out \in Slots /\ Wrap(out + k, RequestPoolSize) \in Slots
          /\ Wrap(out + 0, RequestPoolSize) = out
      BY <2>3 DEF Wrap, Slots
    <3>3. /\ request_pool[out].time \in Nat
          /\ request_pool[Wrap(out + k, RequestPoolSize)].time \in Nat
      BY <2>3, <3>2 DEF Record
    <3>4. request_pool[out].time >= from
      BY <2>1, <2>3, <3>1, <3>3 DEF OldestExpired
    <3>5. CASE k = 0
      BY <3>2, <3>4, <3>5
    <3>6. CASE k # 0
      <4>1. 0 \in 0 .. k - 1
        BY <2>3, <3>6
      <4>2. request_pool[Wrap(out + 0, RequestPoolSize)].time
            <= request_pool[Wrap(out + k, RequestPoolSize)].time
        BY <2>2, <4>1 DEF OrderInv
      <4>. QED
        BY <2>3, <3>2, <3>3, <3>4, <4>2
    <3>. QED
      BY <3>5, <3>6
  <2>. QED
    BY <2>4, <2>5
<1>2. IInv => [Exact]_vars
  BY <1>1
<1>. QED
  BY <1>2, InvariantHolds, PTL DEF ExpiryExact
=============================================================================
