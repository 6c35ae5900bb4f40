------------------------------- MODULE Daemon -------------------------------
(***************************************************************************)
(* The daemon with its traffic: the start and the stop of module Lifecycle *)
(* and the datagrams of module Pipeline.  Datagrams arrive from the moment *)
(* the socket is bound, before any collector runs; threads that are in the *)
(* middle of a batch when the stop is asked for finish it first.           *)
(***************************************************************************)
EXTENDS Pipeline

vars == <<lifecycleVars, pipelineVars>>

Init == LifecycleInit /\ PipelineInit

Running(t) == thread[t] = "loop"

\* A start resets the runtime counters and builds empty pools.
Start ==
    /\ BeginStart
    /\ socket' = 0 /\ sent' = 0
    /\ edge' = {} /\ failed' = {}
    /\ collector' = [c \in Collectors |-> Idle]
    /\ write_pool' = none /\ read_pool' = none
    /\ data' = Asleep
    /\ unstaged' = none /\ tmp' = none
    /\ counters' = [m \in Counters |-> 0]

\* A collector registers the socket with its epoll instance and is ready.
WorkerReady(t) ==
    /\ ThreadReady(t)
    /\ IF t \in Collectors THEN Register(t) ELSE UNCHANGED pipelineVars

AtLoopHead(t) ==
    CASE t \in Collectors -> collector[t].pc \in {"wait", "drain"}
      [] t = "data"       -> data.pc = "sleep"
      [] OTHER            -> TRUE

\* A thread that leaves closes its epoll instance with it.
Leave(t) ==
    /\ ThreadExits(t) /\ AtLoopHead(t)
    /\ edge' = edge \ {t} /\ failed' = failed \ {t}
    /\ collector' = [c \in Collectors |-> IF c = t THEN Idle ELSE collector[c]]
    /\ UNCHANGED <<socket, sent, bufferVars, dataVars, counters>>

\* Closing the socket discards what is queued on it; the destructor of a
\* per-thread pool frees the trees that no batch has taken.
Destroy ==
    /\ Release
    /\ socket' = IF NextRelease = "collector_socket" THEN 0 ELSE socket
    /\ IF NextRelease = "staging_pools"
       THEN write_pool' = none /\ read_pool' = none
       ELSE UNCHANGED bufferVars
    /\ UNCHANGED <<sent, edge, collectorVars, dataVars, counters>>

\* The main thread: the plugin's init and deinit functions.
MainStep ==
    \/ Destroy
    \/ /\ \/ Acquire \/ StartFails \/ StartReturns \/ EndStop
          \/ \E t \in Threads : StartThread(t) \/ Join(t)
       /\ UNCHANGED pipelineVars

\* A collector and the data thread look at the flag at the head of their loops.
CollectorStep(c) ==
    /\ Running(c)
    /\ \/ ~in_shutdown /\ (Wake(c) \/ Receive(c) \/ Drained(c))
       \/ Push(c) \/ Publish(c)
    /\ UNCHANGED lifecycleVars

DataStep ==
    /\ Running("data")
    /\ \/ ~in_shutdown /\ SwapPools
       \/ \E c \in Collectors : StageTree(c)
       \/ StagingDone \/ PrepareFails \/ CopyRecords \/ CountLost \/ ReleaseBatch
    /\ UNCHANGED lifecycleVars

WorkerStep(t) ==
    \/ WorkerReady(t)
    \/ ThreadSetupFails(t) /\ UNCHANGED pipelineVars
    \/ Leave(t)
    \/ t \in Collectors /\ CollectorStep(t)
    \/ t = "data" /\ DataStep

\* Senders: until the socket is closed the kernel queues or drops.
Traffic ==
    /\ "collector_socket" \in held
    /\ Arrive({c \in Collectors : Running(c)})
    /\ UNCHANGED lifecycleVars

Stop == BeginStop /\ UNCHANGED pipelineVars

Next == Start \/ Stop \/ MainStep \/ Traffic \/ \E t \in Threads : WorkerStep(t)

\* Every thread that can take a step is eventually scheduled; the data thread
\* stands for the jobs it waits for.  Nothing obliges senders, or the server to
\* stop the plugin.
Fairness == WF_vars(MainStep) /\ \A t \in Threads : WF_vars(WorkerStep(t))

Spec == Init /\ [][Next]_vars /\ Fairness

TypeOK == LifecycleTypeOK /\ PipelineTypeOK

\* pinba_validate_request accepts exactly the requests that the staging jobs can
\* index without leaving an array, whatever the message claims.  A verdict depends
\* on its request only, so this is looked at once, in the state a start begins in.
ValidationExact ==
    phase = "starting" /\ held = {"catalogues"} => \A r \in Requests : VerdictRight(r)

\* A start ends with every worker running or with everything released, and a
\* stop ends, whatever the threads were doing when it was asked for.
TransitionsEnd == phase \in {"starting", "waiting", "stopping"} ~> phase \in {"up", "down"}

\* A queued datagram is processed and released, unless the daemon stops.
QueuedCompletes ==
    phase = "up" /\ counters["queue_live"] > 0 ~> counters["queue_live"] = 0 \/ in_shutdown

\* Whatever is on the socket is received, though its event is reported to each
\* collector once: before the collectors registered or in the middle of a drain,
\* datagrams wait for someone who will look.  Unless the daemon stops or every
\* collector has spent its event on a receive error.
SocketDrains ==
    phase = "up" /\ socket > 0 ~> socket = 0 \/ in_shutdown \/ failed = Collectors

=============================================================================
