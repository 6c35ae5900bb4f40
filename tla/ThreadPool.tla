----------------------------- MODULE ThreadPool -----------------------------
(***************************************************************************)
(* threadpool.cc: a fixed set of workers, a last-in first-out job queue    *)
(* whose nodes come from a free list, and one barrier per dispatcher (the  *)
(* data thread and the stats thread use the pool at the same time).        *)
(*                                                                         *)
(* A critical section of pool->mutex or barrier->mutex is one action; a    *)
(* notification sent after the unlock is an action of its own.  Waiting on *)
(* a condition variable is a state of the waiter, which notify_one leaves  *)
(* for one waiter chosen by the scheduler; a notified thread evaluates its *)
(* predicate again.                                                        *)
(***************************************************************************)
EXTENDS Integers, Sequences, FiniteSets

CONSTANTS
    Dispatchers,   \* threads that dispatch jobs
    Workers,       \* pool->threads
    MaxCapacity,   \* queue->max_capacity
    MaxJobs,       \* bound: jobs per round
    MaxRounds,     \* bound: rounds per dispatcher
    MallocFails    \* can malloc of a queue node fail?

ASSUME ThreadPoolAssumption ==
    /\ IsFiniteSet(Workers) /\ Workers # {}
    /\ IsFiniteSet(Dispatchers)
    /\ MaxCapacity \in Nat \ {0}
    /\ MaxJobs \in Nat
    /\ MaxRounds \in Nat
    /\ MallocFails \in BOOLEAN

VARIABLES
    queue,         \* job_queue: posted jobs, head first
    free,          \* nodes on the free list
    capacity,      \* queue->capacity
    shutdown,      \* pool->shutdown
    worker,        \* worker -> what it does
    job,           \* worker -> the job it has fetched
    disp,          \* dispatcher -> what it does
    size,          \* dispatcher -> jobs of its round
    next,          \* dispatcher -> the next job to dispatch
    barrier,       \* dispatcher -> its barrier
    runs,          \* dispatcher -> job -> how often the job has been executed
    round,         \* dispatcher -> rounds begun
    main           \* the thread that runs pinba_collector_shutdown

poolVars == <<queue, free, capacity>>
dispVars == <<size, next, round>>
vars == <<poolVars, shutdown, worker, job, disp, dispVars, barrier, runs, main>>

NoJob == [by |-> "nobody", n |-> 0]

NoRuns == [j \in 1 .. MaxJobs |-> 0]

\* queue_create takes the number of threads as initial capacity and puts the
\* sentinel and as many nodes on the free list, or fewer when malloc fails.
InitialCapacity ==
    IF Cardinality(Workers) > MaxCapacity THEN MaxCapacity ELSE Cardinality(Workers)

Init ==
    /\ queue = <<>>
    /\ capacity = InitialCapacity
    /\ free \in IF MallocFails THEN 1 .. InitialCapacity + 1 ELSE {InitialCapacity + 1}
    /\ shutdown = FALSE
    /\ worker = [w \in Workers |-> "lock"]
    /\ job = [w \in Workers |-> NoJob]
    /\ disp = [d \in Dispatchers |-> "idle"]
    /\ size = [d \in Dispatchers |-> 0]
    /\ next = [d \in Dispatchers |-> 1]
    /\ barrier = [d \in Dispatchers |-> [posted |-> 0, done |-> 0, alive |-> TRUE]]
    /\ runs = [d \in Dispatchers |-> NoRuns]
    /\ round = [d \in Dispatchers |-> 0]
    /\ main = "up"

-----------------------------------------------------------------------------
(* Condition variables: pool->job_posted and pool->job_taken.              *)

\* f after notify_one: one of the waiting threads leaves its wait.
NotifyOne(f, waiting, awake) ==
    LET S == {t \in DOMAIN f : f[t] = waiting} IN
    IF S = {} THEN {f} ELSE {[f EXCEPT ![t] = awake] : t \in S}

-----------------------------------------------------------------------------
(* Dispatchers.                                                            *)

\* th_pool_barrier_start: the counters are reset without a lock.
BarrierStart(d, n) ==
    /\ disp[d] = "idle"
    /\ main = "up" /\ round[d] < MaxRounds
    /\ disp' = [disp EXCEPT ![d] = "dispatch"]
    /\ size' = [size EXCEPT ![d] = n]
    /\ next' = [next EXCEPT ![d] = 1]
    /\ round' = [round EXCEPT ![d] = @ + 1]
    /\ barrier' = [barrier EXCEPT ![d].posted = 0, ![d].done = 0]
    /\ runs' = [runs EXCEPT ![d] = NoRuns]
    /\ UNCHANGED <<poolVars, shutdown, worker, job, main>>

\* Mutant of queue_can_accept_order: the capacity test is off by one.
queue_can_accept_more == free > 0 \/ capacity <= MaxCapacity + 1

queue_can_accept_order == free > 0 \/ capacity <= MaxCapacity

\* Mutant of Dispatching: one job too many.
DispatchingBeyond(d) == disp[d] = "dispatch" /\ next[d] <= size[d] + 1

Dispatching(d) == disp[d] = "dispatch" /\ next[d] <= size[d]

\* th_pool_dispatch with a node from the free list, or with a new one.
Dispatch(d) ==
    /\ Dispatching(d)
    /\ queue_can_accept_order
    /\ free' = IF free > 0 THEN free - 1 ELSE 0
    /\ capacity' = IF free > 0 THEN capacity ELSE capacity + 1
    /\ queue' = Append(queue, [by |-> d, n |-> next[d]])
    /\ barrier' = [barrier EXCEPT ![d].posted = @ + 1]
    /\ next' = [next EXCEPT ![d] = @ + 1]
    /\ worker' \in NotifyOne(worker, "asleep", "lock")
    /\ UNCHANGED <<shutdown, job, disp, size, runs, round, main>>

\* queue_post_job returns without posting when it cannot allocate a node.
DispatchFails(d) ==
    /\ MallocFails
    /\ Dispatching(d)
    /\ free = 0 /\ capacity <= MaxCapacity
    /\ next' = [next EXCEPT ![d] = @ + 1]
    /\ worker' \in NotifyOne(worker, "asleep", "lock")
    /\ UNCHANGED <<poolVars, shutdown, job, disp, size, barrier, runs, round, main>>

\* The queue is full: wait for job_taken.
DispatchBlocks(d) ==
    /\ Dispatching(d)
    /\ ~ queue_can_accept_order
    /\ disp' = [disp EXCEPT ![d] = "blocked"]
    /\ UNCHANGED <<poolVars, shutdown, worker, job, dispVars, barrier, runs, main>>

AtBarrier(d) == disp[d] = "dispatch" /\ next[d] > size[d]

\* Mutant of BarrierReached: one job may be missing.
BarrierReachedEarly(d) == barrier[d].done + 1 >= barrier[d].posted

BarrierReached(d) == barrier[d].done >= barrier[d].posted

\* th_pool_barrier_wait returns, or waits for the barrier's condition variable.
BarrierWait(d) ==
    /\ AtBarrier(d)
    /\ disp' = [disp EXCEPT ![d] = IF BarrierReached(d) THEN "idle" ELSE "waiting"]
    /\ UNCHANGED <<poolVars, shutdown, worker, job, dispVars, barrier, runs, main>>

\* The thread sees in_shutdown, destroys its barriers and returns.
Leave(d) ==
    /\ disp[d] = "idle"
    /\ main # "up"
    /\ disp' = [disp EXCEPT ![d] = "left"]
    /\ barrier' = [barrier EXCEPT ![d].alive = FALSE]
    /\ UNCHANGED <<poolVars, shutdown, worker, job, dispVars, runs, main>>

-----------------------------------------------------------------------------
(* th_do_work.                                                             *)

\* Mutant of Fetch: the dispatchers are not told that a node became free.
FetchSilently(w) ==
    /\ worker[w] = "lock"
    /\ queue # <<>>
    /\ job' = [job EXCEPT ![w] = queue[Len(queue)]]
    /\ queue' = SubSeq(queue, 1, Len(queue) - 1)
    /\ free' = free + 1
    /\ worker' = [worker EXCEPT ![w] = "run"]
    /\ UNCHANGED <<capacity, shutdown, disp, dispVars, barrier, runs, main>>

\* queue_fetch_job takes the job posted last and frees its node.
Fetch(w) ==
    /\ worker[w] = "lock"
    /\ queue # <<>>
    /\ job' = [job EXCEPT ![w] = queue[Len(queue)]]
    /\ queue' = SubSeq(queue, 1, Len(queue) - 1)
    /\ free' = free + 1
    /\ worker' = [worker EXCEPT ![w] = "run"]
    /\ disp' \in NotifyOne(disp, "blocked", "dispatch")
    /\ UNCHANGED <<capacity, shutdown, dispVars, barrier, runs, main>>

Sleep(w) ==
    /\ worker[w] = "lock"
    /\ queue = <<>> /\ ~ shutdown
    /\ worker' = [worker EXCEPT ![w] = "asleep"]
    /\ UNCHANGED <<poolVars, shutdown, job, disp, dispVars, barrier, runs, main>>

\* myjob(myarg), outside the lock.
Run(w) ==
    LET j == job[w] IN
    /\ worker[w] = "run"
    /\ runs' = [runs EXCEPT ![j.by][j.n] = @ + 1]
    /\ worker' = [worker EXCEPT ![w] = "signal"]
    /\ UNCHANGED <<poolVars, shutdown, job, disp, dispVars, barrier, main>>

\* th_pool_barrier_signal counts the job under the barrier's mutex ...
Signal(w) ==
    /\ worker[w] = "signal"
    /\ barrier' = [barrier EXCEPT ![job[w].by].done = @ + 1]
    /\ worker' = [worker EXCEPT ![w] = "notify"]
    /\ UNCHANGED <<poolVars, shutdown, job, disp, dispVars, runs, main>>

\* ... and notifies after the unlock.
Notify(w) ==
    LET d == job[w].by IN
    /\ worker[w] = "notify"
    /\ disp' = [disp EXCEPT ![d] = IF @ = "waiting" THEN "dispatch" ELSE @]
    /\ job' = [job EXCEPT ![w] = NoJob]
    /\ worker' = [worker EXCEPT ![w] = "lock"]
    /\ UNCHANGED <<poolVars, shutdown, dispVars, barrier, runs, main>>

\* The queue is drained before shutdown is honoured.
Exit(w) ==
    /\ worker[w] = "lock"
    /\ queue = <<>> /\ shutdown
    /\ worker' = [worker EXCEPT ![w] = "exited"]
    /\ disp' \in NotifyOne(disp, "blocked", "dispatch")
    /\ UNCHANGED <<poolVars, shutdown, job, dispVars, barrier, runs, main>>

-----------------------------------------------------------------------------
(* pinba_collector_shutdown, as far as the pool is concerned.              *)

\* pinba_request_shutdown, then the data and stats threads are joined.
RequestShutdown ==
    /\ main = "up"
    /\ main' = "joining"
    /\ UNCHANGED <<poolVars, shutdown, worker, job, disp, dispVars, barrier, runs>>

\* th_pool_destroy: the flag under the mutex ...
SetShutdown ==
    /\ main = "joining"
    /\ \A d \in Dispatchers : disp[d] = "left"
    /\ shutdown' = TRUE
    /\ main' = "notify"
    /\ UNCHANGED <<poolVars, worker, job, disp, dispVars, barrier, runs>>

\* Mutant of NotifyAll: one worker is woken instead of all.
NotifyOneWorker ==
    /\ main = "notify"
    /\ worker' \in NotifyOne(worker, "asleep", "lock")
    /\ main' = "destroying"
    /\ UNCHANGED <<poolVars, shutdown, job, disp, dispVars, barrier, runs>>

\* ... job_posted.notify_all() after the unlock ...
NotifyAll ==
    /\ main = "notify"
    /\ worker' = [w \in Workers |-> IF worker[w] = "asleep" THEN "lock" ELSE worker[w]]
    /\ main' = "destroying"
    /\ UNCHANGED <<poolVars, shutdown, job, disp, dispVars, barrier, runs>>

\* ... and the queue is destroyed when all workers have been joined.
DestroyPool ==
    /\ main = "destroying"
    /\ \A w \in Workers : worker[w] = "exited"
    /\ main' = "gone"
    /\ UNCHANGED <<poolVars, shutdown, worker, job, disp, dispVars, barrier, runs>>

-----------------------------------------------------------------------------
DispatcherStep(d) ==
    \/ Dispatch(d) \/ DispatchFails(d) \/ DispatchBlocks(d) \/ BarrierWait(d) \/ Leave(d)

WorkerStep(w) ==
    Fetch(w) \/ Sleep(w) \/ Run(w) \/ Signal(w) \/ Notify(w) \/ Exit(w)

MainStep == SetShutdown \/ NotifyAll \/ DestroyPool

Next ==
    \/ \E d \in Dispatchers :
          \/ \E n \in 0 .. MaxJobs : BarrierStart(d, n)
          \/ DispatcherStep(d)
    \/ \E w \in Workers : WorkerStep(w)
    \/ RequestShutdown
    \/ MainStep

\* Every thread that can run runs eventually; nobody has to begin a round or to
\* request a shutdown.
Fairness ==
    /\ \A d \in Dispatchers : WF_vars(DispatcherStep(d))
    /\ \A w \in Workers : WF_vars(WorkerStep(w))
    /\ WF_vars(MainStep)

Spec == Init /\ [][Next]_vars /\ Fairness

-----------------------------------------------------------------------------
(* Properties.                                                             *)

Jobs == [by : Dispatchers, n : 1 .. MaxJobs]

\* Every variable has its type.
TypeOK ==
    /\ queue \in Seq(Jobs)
    /\ free \in Nat /\ capacity \in Nat
    /\ shutdown \in BOOLEAN
    /\ worker \in [Workers -> {"lock", "asleep", "run", "signal", "notify", "exited"}]
    /\ job \in [Workers -> Jobs \cup {NoJob}]
    /\ disp \in [Dispatchers -> {"idle", "dispatch", "blocked", "waiting", "left"}]
    /\ size \in [Dispatchers -> 0 .. MaxJobs]
    /\ next \in [Dispatchers -> 1 .. MaxJobs + 1]
    /\ barrier \in [Dispatchers -> [posted : Nat, done : Nat, alive : BOOLEAN]]
    /\ runs \in [Dispatchers -> [1 .. MaxJobs -> Nat]]
    /\ round \in [Dispatchers -> Nat]
    /\ main \in {"up", "joining", "notify", "destroying", "gone"}

\* The queue's memory is bounded: a node is either posted or free, none is lost
\* or freed twice, and queue_post_job never allocates beyond two nodes more than
\* MAX_QUEUE_MEMORY_SIZE pays for (the sentinel, and the order accepted when
\* capacity equals max_capacity).  Only queue_create can leave the list short.
NodesBounded ==
    /\ Len(queue) + free <= capacity + 1
    /\ ~MallocFails => Len(queue) + free = capacity + 1
    /\ capacity <= MaxCapacity + 1

\* No wakeup is lost, on either condition variable: while a job is posted some
\* worker is awake to fetch it, and while a dispatcher waits for job_taken with a
\* free node at hand another thread is about to use it.
NoLostWakeup ==
    /\ queue # <<>> => \E w \in Workers : worker[w] \notin {"asleep", "exited"}
    /\ (free > 0 /\ \E d \in Dispatchers : disp[d] = "blocked") =>
          \E d \in Dispatchers : disp[d] = "dispatch"

\* Every round that is begun ends: a dispatcher waits neither for a node nor at its
\* barrier for ever, whatever the other dispatcher does, also when jobs get lost
\* because malloc fails.
RoundsEnd ==
    \A d \in Dispatchers : disp[d] \in {"dispatch", "blocked", "waiting"} ~> disp[d] = "idle"

\* A requested shutdown completes: every dispatcher and worker is joined.
ShutdownCompletes == main = "joining" ~> main = "gone"

\* What the header says of a barrier: nothing is done with it once it has been
\* destroyed ("init -> start/wait cycles -> destroy").
BarrierLifecycle ==
    \A w \in Workers : worker[w] \in {"signal", "notify"} => barrier[job[w].by].alive

ForkJoinView ==
    INSTANCE ForkJoin WITH forked <- [d \in Dispatchers |-> disp[d] \notin {"idle", "left"}]

\* The pool with its barriers is a fork/join facility: every job dispatched in a
\* round is executed exactly once before th_pool_barrier_wait returns.
ImplementsForkJoin == ForkJoinView!Spec
=============================================================================
