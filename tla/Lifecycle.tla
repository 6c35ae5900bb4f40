----------------------------- MODULE Lifecycle -----------------------------
(***************************************************************************)
(* Starting and stopping the daemon (main.cc pinba_collector_init and      *)
(* pinba_collector_shutdown, ha_pinba.cc pinba_engine_init).               *)
(*                                                                         *)
(* The start acquires one resource after another and then creates the      *)
(* collector threads, the data thread and the stats thread.  Every step    *)
(* may fail; a failure runs the same pinba_collector_shutdown as a regular *)
(* stop, on whatever has been built so far.  A worker prepares its own     *)
(* buffers before it counts itself ready, and leaves at once when it       *)
(* cannot.  The module Daemon joins this with the traffic of module        *)
(* Pipeline.                                                               *)
(***************************************************************************)
EXTENDS Naturals, FiniteSets, Sequences, SequencesExt

CONSTANT Collectors   \* the collector threads, one per worker of the thread pool

ASSUME LifecycleAssumption ==
    /\ IsFiniteSet(Collectors) /\ Collectors # {}
    /\ Collectors \cap {"data", "stats"} = {}

Threads == Collectors \cup {"data", "stats"}

VARIABLES
    phase,          \* "down", "starting", "waiting", "up" or "stopping"
    held,           \* the resources that exist
    thread,         \* what each thread is doing
    workers_ready,  \* D->workers_ready
    in_shutdown     \* D->in_shutdown

lifecycleVars == <<phase, held, thread, workers_ready, in_shutdown>>

\* What the start acquires, in order.  "catalogues" are the reports, tags,
\* words and table maps: members of D, empty until SQL or traffic fills them.
\* "locks" are the share mutex and the nine rwlocks, each counted once made.
InitSteps == <<"catalogues", "locks", "shutdown_event_fd", "request_pool", "timer_pool",
               "thread_pool", "staging_pools", "tag_table", "collector_socket",
               "collector_threads">>

\* What the stop releases once every started thread is joined, in order.
ShutdownSteps == <<"collector_threads", "shutdown_event_fd", "thread_pool", "collector_socket",
                   "request_pool", "timer_pool", "staging_pools", "catalogues", "tag_table",
                   "locks">>

Resources == Range(InitSteps)

started == {t \in Threads : thread[t] # "none"}

IsHeld(r) == r \in held
IsMissing(r) == r \notin held

LifecycleTypeOK ==
    /\ phase \in {"down", "starting", "waiting", "up", "stopping"}
    /\ held \subseteq Resources
    /\ thread \in [Threads -> {"none", "setup", "loop", "exited", "joined"}]
    /\ workers_ready \in 0..Cardinality(Threads)
    /\ in_shutdown \in BOOLEAN

LifecycleInit ==
    /\ phase = "down"
    /\ held = {}
    /\ thread = [t \in Threads |-> "none"]
    /\ workers_ready = 0
    /\ in_shutdown = FALSE

(***************************************************************************)
(* The start.                                                              *)
(***************************************************************************)

\* The daemon record is allocated; without memory for it nothing happens.
BeginStart ==
    /\ phase = "down"
    /\ phase' = "starting"
    /\ held' = {"catalogues"}
    /\ UNCHANGED <<thread, workers_ready, in_shutdown>>

Acquire ==
    /\ phase = "starting"
    /\ held # Resources
    /\ held' = held \cup {Head(SelectSeq(InitSteps, IsMissing))}
    /\ UNCHANGED <<phase, thread, workers_ready, in_shutdown>>

\* pthread_create, in order: the collectors, the data thread, the stats thread.
MayStart(t) ==
    /\ held = Resources
    /\ thread[t] = "none"
    /\ t = "data" => Collectors \subseteq started
    /\ t = "stats" => "data" \in started

StartThread(t) ==
    /\ phase = "starting"
    /\ MayStart(t)
    /\ thread' = [thread EXCEPT ![t] = "setup"]
    /\ phase' = IF t = "stats" THEN "waiting" ELSE phase
    /\ UNCHANGED <<held, workers_ready, in_shutdown>>

\* Any acquisition and any pthread_create may fail: fail() stops what exists.
StartFails ==
    /\ phase = "starting"
    /\ phase' = "stopping"
    /\ in_shutdown' = TRUE
    /\ UNCHANGED <<held, thread, workers_ready>>

\* Mutant of StartReturns: the flag is not looked at again after the wait.
StartReturnsUnchecked ==
    /\ phase = "waiting"
    /\ in_shutdown \/ workers_ready >= Cardinality(Threads)
    /\ phase' = "up"
    /\ UNCHANGED <<held, thread, workers_ready, in_shutdown>>

\* Mutant of StartReturns: it waits for one worker more than it has started.
StartReturnsLate ==
    /\ phase = "waiting"
    /\ in_shutdown \/ workers_ready > Cardinality(Threads)
    /\ phase' = IF in_shutdown THEN "stopping" ELSE "up"
    /\ UNCHANGED <<held, thread, workers_ready, in_shutdown>>

\* The start waits for every worker, or for one of them to ask for the stop.
StartReturns ==
    /\ phase = "waiting"
    /\ in_shutdown \/ workers_ready >= Cardinality(Threads)
    /\ phase' = IF in_shutdown THEN "stopping" ELSE "up"
    /\ UNCHANGED <<held, thread, workers_ready, in_shutdown>>

(***************************************************************************)
(* The workers.                                                            *)
(***************************************************************************)

\* A thread has its buffers and counts itself ready.
ThreadReady(t) ==
    /\ thread[t] = "setup"
    /\ thread' = [thread EXCEPT ![t] = "loop"]
    /\ workers_ready' = workers_ready + 1
    /\ UNCHANGED <<phase, held, in_shutdown>>

\* A thread that cannot prepare its buffers asks for the stop and leaves.
ThreadSetupFails(t) ==
    /\ thread[t] = "setup"
    /\ thread' = [thread EXCEPT ![t] = "exited"]
    /\ in_shutdown' = TRUE
    /\ UNCHANGED <<phase, held, workers_ready>>

\* A thread that sees the flag at the head of its loop asks again and leaves.
ThreadExits(t) ==
    /\ thread[t] = "loop"
    /\ in_shutdown
    /\ thread' = [thread EXCEPT ![t] = "exited"]
    /\ UNCHANGED <<phase, held, workers_ready, in_shutdown>>

(***************************************************************************)
(* The stop.                                                               *)
(***************************************************************************)

BeginStop ==
    /\ phase = "up"
    /\ phase' = "stopping"
    /\ in_shutdown' = TRUE
    /\ UNCHANGED <<held, thread, workers_ready>>

\* pthread_join in the order collectors, data, stats, of what was started; the
\* array of collector handles is freed between the first two.
Join(t) ==
    /\ phase = "stopping"
    /\ thread[t] = "exited"
    /\ t \in {"data", "stats"} => "collector_threads" \notin held
    /\ t = "stats" => thread["data"] = "joined"
    /\ thread' = [thread EXCEPT ![t] = "joined"]
    /\ UNCHANGED <<phase, held, workers_ready, in_shutdown>>

\* Mutant of JoinedBefore: only the collectors are joined.
JoinedBeforeCollectors(r) == Collectors \cap started

\* Which threads must be joined before a resource goes.
JoinedBefore(r) == IF r = "collector_threads" THEN Collectors \cap started ELSE started

\* The destructors run in order; each skips what was never acquired.
NextRelease == Head(SelectSeq(ShutdownSteps, IsHeld))

Release ==
    /\ phase = "stopping"
    /\ held # {}
    /\ \A t \in JoinedBefore(NextRelease) : thread[t] = "joined"
    /\ held' = held \ {NextRelease}
    /\ UNCHANGED <<phase, thread, workers_ready, in_shutdown>>

\* delete D; lifecycle = {}
EndStop ==
    /\ phase = "stopping"
    /\ held = {}
    /\ \A t \in started : thread[t] = "joined"
    /\ phase' = "down"
    /\ thread' = [t \in Threads |-> "none"]
    /\ workers_ready' = 0
    /\ in_shutdown' = FALSE
    /\ UNCHANGED <<held>>

(***************************************************************************)
(* Properties.                                                             *)
(***************************************************************************)

\* What a thread touches between its creation and its return.
Touches(t) ==
    IF t \in Collectors
    THEN {"shutdown_event_fd", "collector_socket", "staging_pools", "locks"}
    ELSE {"shutdown_event_fd", "thread_pool", "request_pool", "timer_pool", "staging_pools",
          "catalogues", "tag_table", "locks"}

\* What the destructor of the request pool touches: expiring the records left
\* in the window updates the timer-tag reports and releases timers and words.
RequestPoolNeeds == {"timer_pool", "catalogues", "tag_table", "locks"}

\* Nothing is freed under a thread that was created and has not been joined, nor
\* before the window whose destructor reads it (the order of the joins and the
\* destructors of pinba_collector_shutdown, on every path into it).
NoUseAfterFree ==
    /\ \A t \in Threads : thread[t] \in {"setup", "loop"} => Touches(t) \subseteq held
    /\ "data" \in started /\ "request_pool" \in held => RequestPoolNeeds \subseteq held

\* "A startup failure must not leave an ACTIVE plugin with a missing worker"
\* (main.cc): when the start reports success every worker had prepared its
\* buffers, and none leaves before the stop is asked for.  A later start after
\* a failed or a regular one finds nothing that the earlier one left behind.
ActiveHasWorkers ==
    phase = "up" =>
        /\ held = Resources
        /\ \A t \in Threads : thread[t] = "loop"

=============================================================================
