-------------------------------- MODULE Rings --------------------------------
(***************************************************************************)
(* The raw request ring and the timer ring, and the three operations that  *)
(* change them, each under the exclusive collector_lock:                   *)
(*                                                                         *)
(*   - the data thread's batch (pinba_data_main): copy staged requests     *)
(*     into free ring slots, reserve timer slots for all of them at once   *)
(*     (timer_pool_add, which may grow and relocate the timer ring), merge *)
(*     each request's timers, publish;                                     *)
(*   - the stats thread's expiration (pinba_stats_main): advance `out'     *)
(*     past the requests older than the cut, then clear their timers and   *)
(*     release their timer slots;                                          *)
(*   - DELETE FROM request (delete_all_rows): release the timer slots      *)
(*     request by request, then reinitialise the request ring.             *)
(*                                                                         *)
(* One action is one iteration of the loop it models.  `holder' says which *)
(* operation holds collector_lock and how far it has come.                 *)
(***************************************************************************)
EXTENDS Integers, Sequences, FiniteSets, FiniteSetsExt

CONSTANTS
    RequestPoolSize,  \* pinba_request_pool_size
    TimerPoolSize,    \* pinba_timer_pool_size: initial size of the timer ring
    GrowSize,         \* PINBA_TIMER_POOL_GROW_SIZE
    TagCounts,        \* values a stored timer's tag_num can take
    MaxTimers,        \* bound: stored timers per request
    MaxTimerPool,     \* bound: growing beyond this size fails (no memory)
    MaxCounter,       \* bound: requests ever admitted
    MaxTime           \* bound: batches

ASSUME RingsAssumption ==
    /\ RequestPoolSize \in Nat \ {0}
    /\ TimerPoolSize \in Nat \ {0}
    /\ GrowSize \in Nat \ {0}
    /\ TagCounts \subseteq Nat
    /\ MaxTimers \in Nat
    /\ MaxTimerPool \in Nat
    /\ MaxCounter \in Nat
    /\ MaxTime \in Nat

VARIABLES
    request_pool,          \* slot -> pinba_stats_record
    in, out,               \* D->request_pool.in, .out
    request_pool_counter,  \* D->request_pool_counter
    timer_pool,            \* slot -> pinba_timer_record
    timer_size,            \* D->timer_pool.size
    timer_in, timer_out,   \* D->timer_pool.in, .out
    timertags_cnt,         \* D->timertags_cnt
    launch,                \* the data thread's launch time
    holder,                \* who holds collector_lock, and in which step
    batch,                 \* the data thread's counters for the batch
    staged,                \* timers of the batch's records, by batch index
    first,                 \* first ring slot whose timers are not released
    from                   \* the stats thread's cut

vars == <<request_pool, in, out, request_pool_counter, timer_pool, timer_size,
          timer_in, timer_out, timertags_cnt, launch, holder, batch, staged,
          first, from>>

requestVars == <<request_pool, in, out, request_pool_counter>>
timerVars == <<timer_pool, timer_size, timer_in, timer_out, timertags_cnt>>

-----------------------------------------------------------------------------
(* The generic pool and the two record types.                              *)

Slots == 0 .. RequestPoolSize - 1

\* Mutant of Wrap: the wrap-around test is off by one.
WrapLate(i, size) == IF i > size THEN i - size ELSE i

\* One lap of a ring of the given size (p->in + n with the wrap-around test).
Wrap(i, size) == IF i >= size THEN i - size ELSE i

pinba_pool_num_records(i, o, size) ==
    IF i = o THEN 0 ELSE IF i > o THEN i - o ELSE size - (o - i)

TimerSeqs == UNION {[1 .. n -> TagCounts] : n \in 0 .. MaxTimers}

Record == [time : Nat, counter : Nat, active : BOOLEAN,
           timers_start : Nat, timers_cnt : Nat]

Timer == [request_id : Nat, tag_num : Nat, hit : BOOLEAN]

NoRecord == [time |-> 0, counter |-> 0, active |-> FALSE,
             timers_start |-> 0, timers_cnt |-> 0]

NoTimer == [request_id |-> 0, tag_num |-> 0, hit |-> FALSE]

NoBatch == [created |-> 0, timers |-> 0, prefix |-> 0, merged |-> 0, added |-> 0]

\* Ring slot of the k-th record of the batch being built.
BatchSlot(k) == Wrap(in + k, RequestPoolSize)

Live == pinba_pool_num_records(in, out, RequestPoolSize)

\* Mutant of FreeSlots: no slot is kept free to tell a full ring from an empty one.
FreeSlotsAll == RequestPoolSize - Live

FreeSlots == RequestPoolSize - Live - 1

\* record_get_timer: the ring slot of a record's j-th timer, counted from 0.
record_get_timer(r, j) == Wrap(r.timers_start + j, timer_size)

\* Distance of ring slot i behind the start of a span, and the span itself.
Offset(i, start) == IF i >= start THEN i - start ELSE i + timer_size - start

InSpan(i, start, n) == Offset(i, start) \in 0 .. n - 1

SumOver(S, f(_)) == MapThenSumSet(f, S)

Init ==
    /\ request_pool = [s \in Slots |-> NoRecord]
    /\ in = 0 /\ out = 0 /\ first = 0
    /\ request_pool_counter = 0
    /\ timer_pool = [i \in 0 .. TimerPoolSize - 1 |-> NoTimer]
    /\ timer_size = TimerPoolSize
    /\ timer_in = 0 /\ timer_out = 0
    /\ timertags_cnt = 0
    /\ launch = 1
    /\ holder = "none"
    /\ batch = NoBatch
    /\ staged = [k \in Slots |-> <<>>]
    /\ from = 0

-----------------------------------------------------------------------------
(* The data thread.                                                        *)

\* wrlock(collector_lock) with at least one staged request.
LockForBatch ==
    /\ holder = "none"
    /\ launch < MaxTime
    /\ holder' = "copy"
    /\ UNCHANGED <<requestVars, timerVars, launch, batch, staged, first, from>>

\* request_copy_job_func for one staged request with stored timers ts: the
\* next free slot is overwritten and the request's stored timers are counted.
\* The records end up in consecutive slots, with consecutive counters, also
\* when an earlier copy of the batch failed (the compaction of main.cc).
CopyRequest(ts) ==
    LET k == batch.created IN
    /\ holder = "copy"
    /\ k < FreeSlots
    /\ request_pool_counter + k < MaxCounter
    /\ request_pool' = [request_pool EXCEPT ![BatchSlot(k)] =
           [time |-> launch, counter |-> request_pool_counter + k, active |-> TRUE,
            timers_start |-> 0, timers_cnt |-> 0]]
    /\ staged' = [staged EXCEPT ![k] = ts]
    /\ batch' = [batch EXCEPT !.created = k + 1, !.timers = @ + Len(ts)]
    /\ UNCHANGED <<in, out, request_pool_counter, timerVars, launch, holder,
                   first, from>>

\* Mutant of CopyFails: the failed slot is not compacted away.
CopyFailsLeavesHole ==
    /\ holder = "copy"
    /\ batch.created < FreeSlots
    /\ request_pool' = [request_pool EXCEPT ![BatchSlot(batch.created)].active = FALSE]
    /\ batch' = [batch EXCEPT !.created = @ + 1]
    /\ UNCHANGED <<in, out, request_pool_counter, timerVars, launch, holder,
                   staged, first, from>>

\* The copy of one staged request fails to allocate: the slot is left behind
\* inactive and the next request, or the compaction, reuses it.
CopyFails ==
    /\ holder = "copy"
    /\ batch.created < FreeSlots
    /\ request_pool' = [request_pool EXCEPT ![BatchSlot(batch.created)] =
           [time |-> launch, counter |-> request_pool_counter + batch.created,
            active |-> FALSE, timers_start |-> 0, timers_cnt |-> 0]]
    /\ UNCHANGED <<in, out, request_pool_counter, timerVars, launch, holder,
                   batch, staged, first, from>>

\* The growth increment timer_pool_add asks for.
More(timers) == IF GrowSize < timers THEN GrowSize + timers ELSE GrowSize

\* pinba_pool_grow: the live tail of a wrapped ring moves to the new end.
GrownPool(more) ==
    [i \in 0 .. timer_size + more - 1 |->
        IF timer_out > timer_in
        THEN IF i < timer_out THEN timer_pool[i]
             ELSE IF i < timer_out + more THEN NoTimer
             ELSE timer_pool[i - more]
        ELSE IF i < timer_size THEN timer_pool[i] ELSE NoTimer]

\* timer_pool_add's walk over the moved tail: the positions at which a record's
\* timers_start is advanced.  A timer is looked at only if it has tags and its
\* record has timers; it moves its record unless the last such timer already
\* belonged to the same record.
Relevant(pool, i) ==
    /\ pool[i].tag_num # 0
    /\ request_pool[pool[i].request_id].timers_cnt # 0

\* Mutant of ShiftPoints: a record is moved once per timer.
ShiftEvery(pool, lo, hi) == {i \in lo .. hi : Relevant(pool, i)}

ShiftPoints(pool, lo, hi) ==
    {i \in lo .. hi :
        /\ Relevant(pool, i)
        /\ ~ \E j \in lo .. i - 1 :
               /\ Relevant(pool, j)
               /\ pool[j].request_id = pool[i].request_id
               /\ \A m \in j + 1 .. i - 1 : ~ Relevant(pool, m)}

ShiftedRecords(pool, lo, hi, more) ==
    [s \in Slots |->
        [request_pool[s] EXCEPT !.timers_start = @ + more *
            Cardinality({i \in ShiftPoints(pool, lo, hi) : pool[i].request_id = s})]]

\* Mutant of TimersFit: the ring may be filled to the last slot.
TimersFitFull(timers) ==
    pinba_pool_num_records(timer_in, timer_out, timer_size) + timers <= timer_size

\* The whole batch's timers fit without filling the ring.
TimersFit(timers) ==
    pinba_pool_num_records(timer_in, timer_out, timer_size) + timers < timer_size

\* Copying is over.  Reserve the timers of the batch in a ring with room.
Reserve ==
    /\ holder = "copy"
    /\ batch.timers > 0
    /\ TimersFit(batch.timers)
    /\ timer_in' = Wrap(timer_in + batch.timers, timer_size)
    /\ batch' = [batch EXCEPT !.prefix = timer_in]
    /\ request_pool_counter' = request_pool_counter + batch.created
    /\ holder' = "merge"
    /\ UNCHANGED <<request_pool, in, out, timer_pool, timer_size, timer_out,
                   timertags_cnt, launch, staged, first, from>>

\* Reserve them by growing the ring, relocating its tail and with it the
\* timers_start of the records whose timers lie there.
ReserveGrowing ==
    LET more == More(batch.timers)
        grown == GrownPool(more)
        wrapped == timer_out > timer_in IN
    /\ holder = "copy"
    /\ batch.timers > 0
    /\ ~ TimersFit(batch.timers)
    /\ timer_size + more <= MaxTimerPool
    /\ timer_pool' = grown
    /\ timer_size' = timer_size + more
    /\ timer_out' = IF wrapped THEN timer_out + more ELSE timer_out
    /\ request_pool' = IF wrapped
                       THEN ShiftedRecords(grown, timer_out + more,
                                           timer_size + more - 1, more)
                       ELSE request_pool
    /\ timer_in' = Wrap(timer_in + batch.timers, timer_size + more)
    /\ batch' = [batch EXCEPT !.prefix = timer_in]
    /\ request_pool_counter' = request_pool_counter + batch.created
    /\ holder' = "merge"
    /\ UNCHANGED <<in, out, timertags_cnt, launch, staged, first, from>>

\* Nothing to reserve, or growing fails: the requests are published without
\* timers.
ReserveNothing ==
    /\ holder = "copy"
    /\ batch.timers > 0 => ~ TimersFit(batch.timers)
    /\ request_pool_counter' = request_pool_counter + batch.created
    /\ holder' = "publish"
    /\ UNCHANGED <<request_pool, in, out, timerVars, launch, batch, staged,
                   first, from>>

\* merge_timers_func and _add_timers for the next record of the batch: its
\* timers take the next slots of the reservation.
MergeTimers ==
    LET k == batch.merged
        s == BatchSlot(k)
        ts == staged[k]
        start == Wrap(batch.prefix + batch.added, timer_size) IN
    /\ holder = "merge"
    /\ k < batch.created
    /\ IF ts = <<>>
       THEN UNCHANGED <<request_pool, timer_pool, timertags_cnt>>
       ELSE /\ request_pool' = [request_pool EXCEPT ![s].timers_start = start,
                                                    ![s].timers_cnt = Len(ts)]
            /\ timer_pool' = [i \in DOMAIN timer_pool |->
                   IF InSpan(i, start, Len(ts))
                   THEN [request_id |-> s, tag_num |-> ts[Offset(i, start) + 1],
                         hit |-> TRUE]
                   ELSE timer_pool[i]]
            /\ timertags_cnt' = timertags_cnt + SumOver(DOMAIN ts, LAMBDA j : ts[j])
    /\ batch' = [batch EXCEPT !.merged = k + 1, !.added = @ + Len(ts)]
    /\ UNCHANGED <<in, out, request_pool_counter, timer_size, timer_in, timer_out,
                   launch, holder, staged, first, from>>

\* publish_requests: the batch becomes visible, collector_lock is released and
\* the next launch is scheduled.
Publish ==
    /\ \/ holder = "publish"
       \/ holder = "merge" /\ batch.merged = batch.created
    /\ in' = Wrap(in + batch.created, RequestPoolSize)
    /\ batch' = NoBatch
    /\ staged' = [k \in Slots |-> <<>>]
    /\ launch' = launch + 1
    /\ holder' = "none"
    /\ UNCHANGED <<request_pool, out, request_pool_counter, timerVars, first, from>>

-----------------------------------------------------------------------------
(* The stats thread.                                                       *)

\* wrlock(collector_lock); from = launch - stats_history.
LockForExpire(cut) ==
    /\ holder = "none"
    /\ holder' = "expire"
    /\ from' = cut
    /\ UNCHANGED <<requestVars, timerVars, launch, batch, staged, first>>

\* Mutant of OldestExpired: the cut itself counts as expired.
OldestExpiredAtCut == in # out /\ request_pool[out].time <= from

\* The oldest record is older than the cut.
OldestExpired == in # out /\ request_pool[out].time < from

\* pinba_request_pool_delete_old, one record.
DeleteOld ==
    /\ holder = "expire"
    /\ OldestExpired
    /\ request_pool' = [request_pool EXCEPT ![out].active = FALSE]
    /\ out' = Wrap(out + 1, RequestPoolSize)
    /\ batch' = [batch EXCEPT !.timers = @ + request_pool[out].timers_cnt]
    /\ UNCHANGED <<in, request_pool_counter, timerVars, launch, holder, staged,
                   first, from>>

\* The records deleted by the running expiration.
Deleted == {Wrap(first + k, RequestPoolSize) :
              k \in 0 .. pinba_pool_num_records(out, first, RequestPoolSize) - 1}

\* Mutant of DeletedTimers: the wrap-around of a record's timers is forgotten.
DeletedTimersNoWrap ==
    {i \in DOMAIN timer_pool :
        \E s \in Deleted : i - request_pool[s].timers_start
                           \in 0 .. request_pool[s].timers_cnt - 1}

\* Timer slots the deleted records refer to.
DeletedTimers ==
    {i \in DOMAIN timer_pool :
        \E s \in Deleted : InSpan(i, request_pool[s].timers_start,
                                  request_pool[s].timers_cnt)}

\* clear_record_timers_func over all deleted records, the advance of
\* timer_pool.out by deleted_timer_cnt, and the release of collector_lock.
ClearTimers ==
    /\ holder = "expire"
    /\ ~ OldestExpired
    /\ timer_pool' = [i \in DOMAIN timer_pool |->
           IF i \in DeletedTimers
           THEN [timer_pool[i] EXCEPT !.tag_num = 0, !.hit = FALSE]
           ELSE timer_pool[i]]
    /\ timer_out' = Wrap(timer_out + batch.timers, timer_size)
    /\ timertags_cnt' = timertags_cnt
                        - SumOver(DeletedTimers, LAMBDA i : timer_pool[i].tag_num)
    /\ first' = out
    /\ batch' = NoBatch
    /\ from' = 0
    /\ holder' = "none"
    /\ UNCHANGED <<requestVars, timer_size, timer_in, launch, staged>>

-----------------------------------------------------------------------------
(* DELETE FROM request.                                                    *)

LockForDelete ==
    /\ holder = "none"
    /\ holder' = "delete"
    /\ UNCHANGED <<requestVars, timerVars, launch, batch, staged, first, from>>

\* pinba_stats_record_dtor for the next live record: its timer slots are given
\* back without being cleared.
DestroyRecord ==
    LET r == request_pool[first] IN
    /\ holder = "delete"
    /\ first # in
    /\ timer_out' = Wrap(timer_out + r.timers_cnt, timer_size)
    /\ timertags_cnt' = timertags_cnt
           - SumOver(0 .. r.timers_cnt - 1,
                     LAMBDA j : timer_pool[record_get_timer(r, j)].tag_num)
    /\ request_pool' = [request_pool EXCEPT ![first].timers_cnt = 0]
    /\ first' = Wrap(first + 1, RequestPoolSize)
    /\ UNCHANGED <<in, out, request_pool_counter, timer_pool, timer_size, timer_in,
                   launch, holder, batch, staged, from>>

\* pinba_pool_init of the request ring after the destructor has seen all
\* records; request_pool_counter and the timer ring are kept.
ReinitRequestPool ==
    /\ holder = "delete"
    /\ first = in
    /\ request_pool' = [s \in Slots |-> NoRecord]
    /\ in' = 0 /\ out' = 0 /\ first' = 0
    /\ holder' = "none"
    /\ UNCHANGED <<request_pool_counter, timerVars, launch, batch, staged, from>>

-----------------------------------------------------------------------------
Next ==
    \/ LockForBatch
    \/ \E ts \in TimerSeqs : CopyRequest(ts)
    \/ CopyFails
    \/ Reserve
    \/ ReserveGrowing
    \/ ReserveNothing
    \/ MergeTimers
    \/ Publish
    \/ \E cut \in 1 .. launch : LockForExpire(cut)
    \/ DeleteOld
    \/ ClearTimers
    \/ LockForDelete
    \/ DestroyRecord
    \/ ReinitRequestPool

Spec == Init /\ [][Next]_vars

-----------------------------------------------------------------------------
(* Properties.                                                             *)

Holders == {"none", "copy", "merge", "publish", "expire", "delete"}

\* Every variable has the type its C++ counterpart has; ring positions are
\* positions of their ring.  (TimertagsExact says what timertags_cnt is.)
TypeOK ==
    /\ request_pool \in [Slots -> Record]
    /\ in \in Slots /\ out \in Slots /\ first \in Slots
    /\ request_pool_counter \in Nat
    /\ timer_size \in Nat \ {0}
    /\ timer_pool \in [0 .. timer_size - 1 -> Timer]
    /\ timer_in \in 0 .. timer_size - 1 /\ timer_out \in 0 .. timer_size - 1
    /\ launch \in Nat
    /\ holder \in Holders
    /\ batch \in [created : Nat, timers : Nat, prefix : Nat, merged : Nat, added : Nat]
    /\ staged \in [Slots -> TimerSeqs]
    /\ from \in Nat

\* Number of published records whose timers have not been given back, and the
\* k-th of them, the oldest first.
Held == pinba_pool_num_records(in, first, RequestPoolSize)

HeldSlot(k) == Wrap(first + k, RequestPoolSize)

TimersLive == pinba_pool_num_records(timer_in, timer_out, timer_size)

\* A record reads its own timers: every timer slot that record_get_timer
\* reaches from a published record lies in the live part of the timer ring, is
\* initialised ("already cleared timer!" is never logged) and carries that
\* record's slot as its request_id.  In particular no two records share a timer,
\* and growing the ring relocates each timer together with its record.
OwnTimers ==
    \A k \in 0 .. Held - 1 :
        LET s == HeldSlot(k)
            r == request_pool[s] IN
        \A j \in 0 .. r.timers_cnt - 1 :
            LET i == record_get_timer(r, j) IN
            /\ i \in DOMAIN timer_pool
            /\ InSpan(i, timer_out, TimersLive)
            /\ timer_pool[i].request_id = s
            /\ timer_pool[i].hit

\* The timer ring holds exactly the timers of the published records plus the
\* part of the running batch's reservation that is not merged yet: expiration
\* and DELETE give back exactly what admission reserved, so `out' never runs
\* past live timers and no slot is lost.
TimersAccounted ==
    TimersLive = SumOver(0 .. Held - 1, LAMBDA k : request_pool[HeldSlot(k)].timers_cnt)
                 + (IF holder = "merge" THEN batch.timers ELSE 0)

\* D->timertags_cnt, the row count SQL sees for table timertag, is the number
\* of tags of the live timers whenever collector_lock is free.
TimertagsExact ==
    holder = "none" =>
        timertags_cnt = SumOver({i \in DOMAIN timer_pool : InSpan(i, timer_out, TimersLive)},
                                LAMBDA i : timer_pool[i].tag_num)

\* Published records are numbered consecutively in ring order, up to the
\* counter (request ids seen by SQL are unique), and are sorted by time, which
\* is what lets pinba_request_pool_delete_old stop at the first young record.
RingOrdered ==
    holder = "none" =>
        \A k \in 0 .. Live - 1 :
            LET r == request_pool[HeldSlot(k)] IN
            /\ r.active
            /\ r.counter = request_pool_counter - Live + k
            /\ r.time < launch
            /\ \A m \in 0 .. k - 1 : request_pool[HeldSlot(m)].time <= r.time

\* Expiration is complete and exact: when the stats thread releases
\* collector_lock no published record is older than its cut, and none that is
\* at least as young as the cut was removed.
ExpiryExact ==
    [][ ClearTimers =>
          /\ \A k \in 0 .. Live - 1 :
                request_pool[Wrap(out + k, RequestPoolSize)].time >= from
          /\ \A s \in Deleted : request_pool[s].time < from ]_vars

-----------------------------------------------------------------------------
(* The rings implement the raw store.  Readers hold collector_lock shared, *)
(* so they see the state between two operations: a batch takes effect when *)
(* it is published, a removal when the lock is released.                   *)

StoredRequest(s) ==
    LET r == request_pool[s] IN
    [counter |-> r.counter, time |-> r.time,
     timers |-> [j \in 1 .. r.timers_cnt |->
                    timer_pool[record_get_timer(r, j - 1)].tag_num]]

\* DELETE takes effect when it gets the lock, all else when it is released.
Stored ==
    IF holder = "delete" THEN <<>>
    ELSE [k \in 1 .. Held |-> StoredRequest(HeldSlot(k - 1))]

Admitted == request_pool_counter
            - (IF holder \in {"merge", "publish"} THEN batch.created ELSE 0)

RawStoreView ==
    INSTANCE RawStore WITH Capacity <- RequestPoolSize - 1,
                           Times <- 1 .. MaxTime, Timers <- TimerSeqs,
                           store <- Stored, admitted <- Admitted

\* The two rings implement the raw store: wrap-around, slot reuse, growth and
\* relocation of the timer ring are invisible to a reader, who sees every
\* admitted request with its own timers until it expires or is deleted.
ImplementsRawStore == RawStoreView!Spec
=============================================================================
