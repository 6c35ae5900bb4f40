# A TLA+ model of the Pinba engine

Pinba is a storage engine for MySQL and MariaDB that receives request statistics
over UDP, keeps the last `pinba_stats_history` seconds of them in memory, and
shows them, raw or aggregated, as SQL tables. This directory holds a model of
its core in TLA+, the TLC configurations that check the model on small
instances, and proofs, checked by TLAPS, of theorems about the two rings, the
report registry and the kernel drop counter.

Paths such as `pool.cc` are relative to `src/`. `PROJECT.json` gives, for each
definition, the source lines it models.

## 1. The system

### Parts, state and operations

| Part | Source | State | Operations |
|---|---|---|---|
| Collectors | `main.cc` | sockets, two sets of per-thread buffers | receive, decode, enqueue |
| Data thread | `main.cc` `pinba_data_main` | staging records, launch time | swap buffers, stage, copy, update reports, merge timers, publish, release |
| Stats thread | `pool.cc` `pinba_stats_main` | launch time | expire, collect words, collect tags |
| Request ring, timer ring | `pool.cc`, `pinba.h` | `in`, `out`, `size`, records | reserve, grow, merge, expire, `DELETE` |
| Thread pool | `threadpool.cc` | queue, free list, barriers | dispatch, fetch, signal, wait, destroy |
| Reports | `pinba_update_report.h`, `data.cc` | rows, totals, histograms, start | add and delete, 34 types |
| Report registry | `ha_pinba.cc`, `data.cc` | maps and arrays of reports, use counts | create at first use, rename, drop |
| Dictionary | `pinba_dictionary.cc` | words and their reference counts | intern, retain, release, collect |
| Tags | `tags.cc` | descriptors by id and by name | look up, create, collect |
| SQL handler | `ha_pinba.cc` | shares, cursors | scan, index read, `DELETE FROM request` |
| Start and stop | `main.cc`, `ha_pinba.cc` | threads, `in_shutdown` | init, request and wait for shutdown |

### Interactions

The data thread and the stats thread both take `collector_lock` exclusively, for
a batch and for an expiration, and SQL readers take it shared. Inside, both fork
jobs to one thread pool and join them at a barrier. A batch moves staged requests
into free slots of the request ring, then their timers into the timer ring, and
calls the add function of every report; an expiration calls the delete functions
and gives the slots back. Words are interned by staging jobs under `words_lock`,
which is given up and taken again to upgrade it, and are owned by staging
records, raw records and reports.

Before that, a datagram passes from the socket through a collector's slice of the
write buffer, the swap of the two buffers and a staging job. SQL statements meet
the background threads at the registries of reports: a statement creates a report
when it first needs it, the rounds of the data and the stats thread walk all of
them, and `DROP TABLE` of the last table destroys one. All of it lives between
`pinba_collector_init` and `pinba_collector_shutdown`.

### What is hard

- Ring positions wrap; the timer ring grows while it is wrapped, and records
  point into it.
- Some steps of a batch fail for want of memory and the rest goes on.
- Reports are not recomputed: what was added must later be subtracted exactly,
  for reports created at any moment, with slots of the ring as identities.
- A lock is dropped in the middle of a sequence of look-ups.
- Garbage is collected by reference counts that stand for pointers elsewhere.
- Two threads share one queue, with `notify_one` on both sides.
- A start may fail at any point, a stop may come at any point, and both run the
  same clean-up.
- Events are edge-triggered and buffers are swapped under their writers.
- Up to five locks are nested, some statements look reports up without one, and
  sizes measured under a lock are relied on after it is given back.

The hazards, each at its line, are listed in `PROJECT.json`.

## 2. Modules

| Module | Models | Abstract specification |
|---|---|---|
| `Rings` | both rings and the three operations that change them | `RawStore`: a bounded first-in first-out store |
| `ThreadPool` | queue, workers, barriers, shutdown | `ForkJoin`: each job once before the join |
| `ReportUpdates` | all add and delete functions, as operators | – |
| `Reports` | one report of any type beside the request ring | the account of the live requests (`Account`) |
| `Dictionary` | words, tags, owners, collections | – |
| `RawScans` | full scans of the raw tables, over the states of `Rings` | the live slots in order |
| `ReportColumns` | rows as SQL shows them, over the states of `Reports` | ranks in the sorted live samples |
| `RequestValidation` | `pinba_validate_request` | the tags can be cut into timers (`CanBeCut`) |
| `Lifecycle` | start with partial failure, workers, stop | – |
| `Pipeline` | socket, collectors, buffers, staging, counters | the balances of `docs/diagnostics.md` |
| `Daemon` | `Lifecycle` and `Pipeline` together | – |
| `DropCounter` | `pinba_udp_kernel_sample` | the newest judged drop count |
| `Registry` | tables, shares, reports and their counts | the counts recomputed from the tables |
| `Tables` | statements and background rounds, lock by lock, over `Registry` | – |
| `MC*` | instances for TLC | |
| `RingsInvariant`, `RingsRemoval`, `RingsReserve`, `RingsGrowth`, `RingsProofs` | proofs about `Rings` | |
| `DropCounterProofs`, `RegistryProofs` | proofs about `DropCounter` and `Registry` | |
| `FiniteSums` | lemmas on sums over finite sets, for `DropCounterProofs` | |

### Rings

`request_pool`, `in`, `out` and `timer_pool`, `timer_in`, `timer_out`,
`timer_size` are the fields of the two `pinba_pool`s. `holder` says who has
`collector_lock` and in which step; since the lock is exclusive, the operations
alternate, but each is modelled one loop iteration at a time, so that the states
inside it are visible. `CopyRequest`, `CopyFails`: `request_copy_job_func` with
the compaction of `main.cc`; `Reserve`, `ReserveGrowing`, `ReserveNothing`:
`timer_pool_add`; `MergeTimers`: `_add_timers`; `Publish`; `DeleteOld`,
`ClearTimers`: the stats thread; `DestroyRecord`, `ReinitRequestPool`:
`delete_all_rows`. `first` is the first slot whose timers are not yet given back.
The copy jobs of a batch run in parallel in the code; they write disjoint slots,
and the model copies in ring order.

### ThreadPool

A critical section is one action, a notification after the unlock another. A
thread that waits on a condition variable is in a waiting state, which
`notify_one` leaves for one waiter of the scheduler's choice. `queue` is last-in
first-out, as in the code. When `malloc` may fail, the pool starts with any number
of free nodes that `queue_create` may have got; there is always one.

### ReportUpdates and Reports

The update functions are copies of three algorithms, and the operators show it:
`BaseAdd`, `RtagAdd`, `TagAdd` and their deletes, and one definition per function
that says which key it uses. Keys are strings put together as in the code, where
reports 10 to 12 put no delimiter between the parts; the payloads of the run have no
two keys that meet in one string, so what happens then is not explored. `req_time` stands for the five totals
of a request, which all functions treat alike. `Reports` creates, feeds, expires
and drops one report of an arbitrary type; reports share no state, so one stands
for all. `Account` is what the report ought to hold, computed from the live
requests alone.

Record and timer tags are functions from names to values: a name that occurs
twice in one request is not modelled. Histogram samples are valid times.

### Dictionary

A word is a pair of a name and a life; a pointer to a collected word keeps the
old life and is seen to dangle. A job is in `read` when it holds `words_lock`
shared, in `upgrade` and `relock` when it has given it up. Sections under the
exclusive lock are one action. Each worker stages one request per batch. A report
with conditions on request tags interns their names and values one after the other
in the same way (`BeginConditions` to `EndConditions`), with `collector_lock` held
shared throughout, outside the budget, and goes on without a word that cannot be
allocated. Reports on several tags resolve their selectors like the first; the model
takes one. A handler serves one table, a report or the table of tags.

### RawScans and ReportColumns

Both add operators, not steps. A fetch function maps the cursor of a handler to a
row and the next cursor; a scan repeats it from the start cursor in one state, and
its rows are compared with what the rings hold. `ReportColumns` computes the
columns of a row from the stored data: medians and percentiles by the walk over the
histogram, and the share of a row in the total. A value is represented by the
bucket it lies in; interpolation inside a bucket is left out.

### RequestValidation, Pipeline, Lifecycle, Daemon

`Pipeline` counts messages and draws the requests inside one when it is staged,
through `pinba_validate_request`. From `collector[c].pc = "publish"` to `"live"` `c`
holds `per_thread_pools_lock` shared; the swap needs that nobody does. Every counter
is raised by a step of its own, in the order of the code: `CountReceived`,
`CountRefused`, `CountEnqueued`, `RaiseGauge` in a collector, `CompleteSlice` and
`LowerGauge` for each slice that the data thread releases. `BalancesHold` states each
balance for the moments when no thread is between two of its own increments, which is
what `docs/diagnostics.md` means by quiet counters. Counters
that the balances use only as a sum are kept as that sum. What the window does
with a record is the matter of `Rings`; here the number of free slots is any that
the stats thread may have left.

`Lifecycle` has the resources in the order of `pinba_collector_init` and in that of
`pinba_collector_shutdown`. Any acquisition and any `pthread_create` may fail, and
any worker may fail while it prepares its buffers. `Daemon` joins the two: traffic
from the moment the socket is bound, threads that notice the stop only at the head
of their loops, pools destroyed with what is still in them, and later starts.

### DropCounter

A sample is the kernel's 32-bit count, kept unreduced and reduced where the code
compares. The load, each round of comparison and compare-and-exchange, and the
addition to `udp_kernel_drops` are separate steps, so a collector may add what it has
won after others have advanced the cursor further. `docs/diagnostics.md` limits what the counter promises to wraps smaller than
half the range between useful samples; `KernelDrops` has that as its guard.

### Registry and Tables

An action of `Registry` is one critical section of `share_mutex`. The server's
metadata locks are external: a table is renamed or dropped when nobody has it open.
`Tables` gives each operation a program of acquisitions, releases and sections. A
step takes at most one lock, runs the section that follows and makes the releases
after that. Nothing is lost by this: a section only reads and writes what its
locks protect, or is a lookup that the model makes with any result a concurrent
writer may leave (the report or nothing); an acquisition can be moved up to the section it protects and a
release, which never waits, back to it. A wait inside a nest of locks is still
seen, because a step stops after every lock that has another one behind it.
`words_lock` is part of the programs: the constructors of tag reports look their
words up, those of reports with conditions (`Conditional`) intern them with an
upgrade, and so do the merge jobs of a batch while `timer_lock` is held for them.

## 3. Runs

| Run | Shows | States |
|---|---|---|
| `rings` | `OwnTimers`, `TimersAccounted`, `TimertagsExact`, `RingOrdered`, `ExpiryExact`, `ScansExact`, `ImplementsRawStore` | 694,255 |
| `threadpool` | `NodesBounded`, `NoLostWakeup`, `ImplementsForkJoin` | 760,930 |
| `threadpool_live` | `RoundsEnd`, `ShutdownCompletes` | 126,766 |
| `reports` | `RowsExact`, `PercentilesExact`, `TotalsExact`, `ScanComplete` | 360,122 |
| `dictionary` | `NoDangling`, `RefsExact`, `TagsResolve`, `PreflightHolds`, `TagIdsFresh` | 1,319,969 |
| `daemon` | `NoUseAfterFree`, `ActiveHasWorkers`, `QueueLiveExact`, `BalancesHold`, `KernelDropsExact`, `ValidationExact`, `TransitionsEnd`, `QueuedCompletes`, `SocketDrains` | 232,827 |
| `tables` | `RegistryExact`, `NoFreedReport`, `NoCircularWait`, `LocksReleased`, `JobsFit` | 976,757 |

Five more runs check what the documentation or a comment says and find it
violated:

| Run | What happens |
|---|---|
| `rings_untagged` | Timers stored without tags, because their tag arrays could not be allocated, are not seen by the relocation in `timer_pool_add`; their record reads the wrong slots. |
| `threadpool_nomemory` | When `malloc` of a queue node fails the job is dropped, and the barrier opens without it. |
| `threadpool_barrier` | A worker notifies a barrier after the unlock; at shutdown the barrier may be destroyed by then. |
| `reports_start` | A base report created while the ring is full takes its start from an expired record, and later subtracts requests it never counted. |
| `reports_delete` | `DELETE FROM request` does not reach request-tag reports: their rows stay. |

`RowsExact`, `PercentilesExact` and `TotalsExact` are stated under `Sound`, which
excludes exactly the last two situations.

Three properties have a condition that is itself a statement about the code:

- `ScansExact` covers a scan of `timertag` when neither a live timer nor the end of
  the live timers is in the last slot of the timer ring. `tag_values_fetch_next`
  wraps one slot early: it skips a timer in that slot, and when the ring ends there
  it goes round without meeting the end.
- `NoFreedReport` excepts `DELETE FROM request`: `pinba_stats_record_dtor` walks
  `base_reports_arr` under `collector_lock` alone, which `DROP TABLE` does not take.
- `SocketDrains` excepts the case that every collector has spent its event on a
  receive error: with edge-triggered events nobody looks again until the next
  datagram.

### Bounds

- `rings`: a ring of four slots (three usable), five requests, three batches, two
  timers per request, a timer ring of two slots that grows to seven. The request
  ring laps; the timer ring wraps, grows while wrapped, and fails to grow.
- `threadpool`: two dispatchers, two workers, up to three jobs per round, two
  rounds, a queue of capacity two: both block, and rounds overlap.
- `threadpool_live`: capacity one, two jobs, one round, failing `malloc`.
- `reports`: a ring of three slots, four requests in batches of up to two, four
  batches. Payloads: one with two timers of the same row, one with a timer that
  lacks a tag and no request tags, one with different keys. All 34 types, and two
  of them under conditions.
- `dictionary`: two names, two workers, one SQL handler, one condition with a name
  and a value that also occur in requests, each name interned up to twice, two tag
  ids, one ring slot. Every miss may be refused, so the word and
  byte budgets add nothing new.

- `daemon`: two collectors, two datagrams of two requests each per life of the
  daemon, buffers of two messages, one staging slot, a window of one record; any
  number of starts and stops. The drop counter has a range of six, eight drops and
  two waiting samples, so that it wraps and samples overtake one another; it shares
  nothing with the rest and is explored beside it. `ValidationExact` is evaluated
  over arrays of up to three elements with small values of `USHRT_MAX`, `INT_MAX`
  and `UINT_MAX`, on both sides of every comparison.
- `tables`: two tables, a base and a tag report, two sessions and one background
  thread that runs batches, expirations and tag collections. Data and stats thread
  exclude each other by `collector_lock` throughout, so one stands for both.
  Every record has request tags, timers and a new tag: a round without takes fewer of
  the same locks. The base report has a condition.
  Request-tag reports follow the same code as tag reports, less the index reads.

Bounds on counters and time are guards, named in the modules. Deadlock is
checked, except in the thread pool, whose shutdown is an end.

### Fairness

`ThreadPool` and `Daemon` have liveness properties. `ThreadPool`: weak fairness of
every dispatcher, of every worker, and of the thread that shuts down, each an
operating-system thread that runs when it can. Nothing is assumed about which
waiter `notify_one` picks, or that a round is begun or a shutdown requested.

`Daemon`: weak fairness of each thread of the engine and of the thread that runs
the plugin's start and stop. Nothing obliges senders to send or the server to stop
the plugin. `QueuedCompletes` needs the data thread to get the exclusive lock of
the buffers. The locks prefer readers, so collectors whose critical sections
overlap without end could keep it waiting; with the bounded traffic of the run they
cannot, and the run shows nothing about that case.

## 4. Proofs

`RingsProofs` proves, for every ring size, growth step, number of timers and
tags:

| Theorem | Statement |
|---|---|
| `RingsTypeCorrect` | `Spec => []TypeOK` |
| `RingsOrdered` | `Spec => []RingOrdered` |
| `RingsOwnTimers` | `Spec => []OwnTimers`, if no stored timer is without tags |
| `RingsExpiryExact` | `Spec => ExpiryExact` |

The assumption of `RingsOwnTimers` cannot be dropped: `rings_untagged` violates
the property without it. Otherwise only `RingsAssumption` is used.

The properties are not inductive; `IInv` of `RingsInvariant` is. `OwnTimers` says nothing about where the timers
of two records lie relative to each other, so it cannot exclude that `out` runs
past live timers. `ChainInv` adds that the timers of the published records, then those merged in the running batch, then the rest of its
reservation, lie one after the other from `timer_out` on. Each record's place is a
running total, given by a function of the position that every step extends or
shortens at one end; the timers of a record are its own because these places are
disjoint. `PhaseInv` adds what each step of an operation knows about `batch`,
`staged` and `first`, and `OrderInv` extends `RingOrdered` to the batch being
built and the records being removed.

- `RingsInvariant`: the invariant, ring arithmetic and running totals, and the
  steps that move neither end of the timer ring.
- `RingsRemoval`: expiration and `DELETE`.
- `RingsReserve`: reserving in a ring with room, merging.
- `RingsGrowth`: growth, with the central lemma that each record with timers in
  the moved part is shifted exactly once.
- `RingsProofs`: the induction and the theorems.

`DropCounterProofs` proves `DropsExact`, `DropSpec => []KernelDropsExact`, for any
number of receivers, counter range, backlog and number of drops. The counter alone
is not inductive: `DropInv` adds that only a collector whose exchange succeeded
has something to add, and that every loaded cursor is the reduction of some count not newer than the newest judged one and at most half the range behind the
sample in hand. Two lemmas on remainders then say what the wrapped difference is:
the true one when the sample is ahead, more than half the range when it has been
overtaken. A cursor that comes back to an old value after a full turn would have to
be more than half the range away. What the collectors have yet to add is a sum over
all of them; `FiniteSums` shows that it moves with one summand. It does so by
counting units, with induction over finite sets stated for a set of subsets, which
the provers can instantiate.

`RegistryProofs` proves `RegistryIsExact`, `RegistrySpec => []RegistryExact`, for
any finite set of tables and any set of reports. The invariant adds the types and that an open table is in
the catalogue. The lemmas count: adding a new table to an entry raises its size by
one, renaming keeps it, dropping lowers it, and it is zero for the empty set only.

Only model-checked: `TimersAccounted`, `TimertagsExact`, `BalancesHold` and
`QueueLiveExact`, the refinements, scans and percentiles (recursive functions of the data), the lock
programs of `Tables`, and everything about the thread pool, the reports, the
dictionary and the life of the daemon. Liveness is out of the prover's reach.

## 5. Plan

1. Scans and index reads of one cursor that interleave with batches and
   expirations; `rnd_pos`.
2. Failing allocations in the registration of tag reports, which leave the freed
   report in the map of its registry.
3. Tag names that occur twice in a timer, in `Reports`.
4. Proofs: reference counts of `Dictionary`, `NodesBounded` and the barrier of
   `ThreadPool`, the refinement of `RawStore`, `NoUseAfterFree` of `Lifecycle`.

## 6. Not modelled

Protobuf decoding, hashing and the order of hash maps, the formatting of SQL
columns, parsing of table comments, log output, durations and byte counts,
configuration, and the traffic generator: pure functions without shared state, or
output that nothing reads back. The receive loop for systems without `recvmmsg`
follows the same protocol and is left out. `PROJECT.json` gives the reason for each
part that is missing or partly modelled.
