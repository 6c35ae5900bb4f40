------------------------------ MODULE Pipeline ------------------------------
(***************************************************************************)
(* A datagram's way from the socket to the window of stored requests       *)
(* (main.cc).                                                              *)
(*                                                                         *)
(* The collectors share one socket.  Each waits for an edge-triggered      *)
(* event, drains the socket in batches, decodes a batch into its own slice *)
(* of the write buffer under the shared per_thread_pools_lock, and         *)
(* publishes its counters before it releases that lock.  The data thread   *)
(* swaps the write and the read buffer under the exclusive lock, lets the  *)
(* thread pool stage the requests of the read buffer (a datagram may carry *)
(* several), copies what fits into the window and releases the batch.      *)
(*                                                                         *)
(* A decoded message is counted, not represented; the requests inside it   *)
(* are drawn when they are staged.  What the window holds is the matter of *)
(* module Rings: here it is the number of its records.                     *)
(***************************************************************************)
EXTENDS Integers, FiniteSetsExt, Lifecycle, RequestValidation

CONSTANTS
    PINBA_VLEN,      \* datagrams per recvmmsg call
    QueueLimit,      \* temp_pool_size_limit of the per-thread request pools
    StagingLimit,    \* temp_pool_size_limit of the per-thread staging pools
    request_pool_size,
    SocketLimit,     \* datagrams the kernel queues on the socket
    MaxSent,         \* bound on the datagrams the kernel queues
    Trees            \* the decoded messages: the requests of each, outermost first

ASSUME PipelineAssumption ==
    /\ {PINBA_VLEN, QueueLimit, StagingLimit, request_pool_size, SocketLimit} \subseteq Nat \ {0}
    /\ MaxSent \in Nat
    /\ Trees \subseteq Seq(Requests)

VARIABLES
    socket,              \* datagrams queued on the socket
    sent,                \* datagrams the kernel has queued so far
    edge,                \* collectors with an unreported event for the socket
    failed,              \* collectors whose last drain ended with a receive error
    collector,           \* what each collector has in hand
    write_pool,          \* trees in each slice of current_write_pool
    read_pool,           \* trees in each slice of current_read_pool
    data,                \* what the data thread is doing, the records it lost
    unstaged,            \* trees of the read buffer that no job has walked yet
    tmp,                 \* records in each per_thread_tmp_pool
    counters             \* the runtime counters

kernelVars    == <<socket, sent, edge>>
collectorVars == <<failed, collector>>
bufferVars    == <<write_pool, read_pool>>
dataVars      == <<data, unstaged, tmp>>
pipelineVars  == <<kernelVars, collectorVars, bufferVars, dataVars, counters>>

Idle == [pc |-> "wait", n |-> 0, enqueued |-> 0]

\* The runtime counters.  Those that the balances of docs/diagnostics.md only
\* use summed are kept as their sum: udp_refused is decode_errors + queue_drops;
\* requests_pending is requests_checked less everything a checked request may
\* end as: invalid, stage_rejects, resource_rejects, raw_admitted,
\* raw_capacity_drops and raw_allocation_drops.
Counters == {"udp_received", "udp_refused", "udp_enqueued", "udp_completed", "queue_live",
             "requests_pending"}

Asleep == [pc |-> "sleep", lost |-> 0]

none == [c \in Collectors |-> 0]

SumOf(f) == MapThenSumSet(LAMBDA c : f[c], Collectors)

\* Every counter named in `by' grows by its value there.
pinba_count(by) == counters' = [m \in Counters |-> counters[m] + (IF m \in DOMAIN by THEN by[m] ELSE 0)]

\* Mutant of Readers: a collector releases the lock before it publishes.
ReadersUnlocked == {}

\* The collectors that hold per_thread_pools_lock shared.
Readers == {c \in Collectors : collector[c].pc \in {"publish", "refused", "enqueued", "live"}}

PipelineTypeOK ==
    /\ socket \in 0..SocketLimit /\ sent \in 0..MaxSent
    /\ edge \subseteq Collectors /\ failed \subseteq Collectors
    /\ \A c \in Collectors :
          /\ collector[c].pc \in {"wait", "drain", "received", "publish", "refused", "enqueued",
                                  "live"}
          /\ collector[c].n \in 0..PINBA_VLEN
    /\ {write_pool, read_pool} \subseteq [Collectors -> 0..QueueLimit]
    /\ data.pc \in {"sleep", "stage", "copy", "lost", "release", "completed"}
    /\ data.lost \in Nat
    /\ unstaged \in [Collectors -> 0..QueueLimit]
    /\ tmp \in [Collectors -> 0..StagingLimit]
    /\ counters \in [Counters -> Int]

PipelineInit ==
    /\ socket = 0 /\ sent = 0
    /\ edge = {} /\ failed = {}
    /\ collector = [c \in Collectors |-> Idle]
    /\ write_pool = none /\ read_pool = none
    /\ data = Asleep
    /\ unstaged = none /\ tmp = none
    /\ counters = [m \in Counters |-> 0]

(***************************************************************************)
(* The kernel: the socket and its epoll instances (external).              *)
(***************************************************************************)

\* A datagram is queued; every registered epoll instance gets a new edge.
Arrive(registered) ==
    /\ sent < MaxSent /\ socket < SocketLimit
    /\ sent' = sent + 1
    /\ socket' = socket + 1
    /\ edge' = edge \cup registered
    /\ UNCHANGED <<collectorVars, bufferVars, dataVars, counters>>

\* EPOLL_CTL_ADD reports a socket that is already readable.
Register(c) ==
    /\ edge' = IF socket > 0 THEN edge \cup {c} ELSE edge
    /\ UNCHANGED <<socket, sent, collectorVars, bufferVars, dataVars, counters>>

(***************************************************************************)
(* The collectors (pinba_eat_udp).                                         *)
(***************************************************************************)

\* epoll_wait returns the event of the socket.
Wake(c) ==
    /\ collector[c].pc = "wait" /\ c \in edge
    /\ edge' = edge \ {c}
    /\ failed' = failed \ {c}
    /\ collector' = [collector EXCEPT ![c].pc = "drain"]
    /\ UNCHANGED <<socket, sent, bufferVars, dataVars, counters>>

\* recvmmsg takes some of what is queued, another collector may take the rest.
Receive(c) ==
    /\ collector[c].pc = "drain"
    /\ \E n \in 1..Min({PINBA_VLEN, socket}) :
          /\ collector' = [collector EXCEPT ![c].pc = "received", ![c].n = n]
          /\ socket' = socket - n
    /\ UNCHANGED <<sent, edge, failed, bufferVars, dataVars, counters>>

\* The drain ends: EAGAIN on the empty socket, or a receive error.
Drained(c) ==
    /\ collector[c].pc = "drain"
    /\ \/ socket = 0 /\ UNCHANGED failed
       \/ failed' = failed \cup {c}
    /\ collector' = [collector EXCEPT ![c] = Idle]
    /\ UNCHANGED <<kernelVars, bufferVars, dataVars, counters>>

\* With the lock held shared: decode every message and push its tree.  Some do
\* not decode, and a push fails when the pool cannot grow, at the latest at its
\* limit.
Push(c) ==
    /\ collector[c].pc = "received"
    /\ \E enqueued \in 0..Min({collector[c].n, QueueLimit - write_pool[c]}) :
          /\ collector' = [collector EXCEPT ![c].pc = "publish", ![c].enqueued = enqueued]
          /\ write_pool' = [write_pool EXCEPT ![c] = @ + enqueued]
    /\ UNCHANGED <<kernelVars, failed, read_pool, dataVars, counters>>

\* The counters of the batch, one after the other: udp_received; udp_decode_errors
\* and udp_queue_drops; udp_enqueued; and the gauge.
PublishNext(c, pc, by) ==
    /\ pinba_count(by)
    /\ collector' = [collector EXCEPT ![c].pc = pc]
    /\ UNCHANGED <<kernelVars, failed, bufferVars, dataVars>>

CountReceived(c) ==
    /\ collector[c].pc = "publish"
    /\ PublishNext(c, "refused", [udp_received |-> collector[c].n])

CountRefused(c) ==
    /\ collector[c].pc = "refused"
    /\ PublishNext(c, "enqueued", [udp_refused |-> collector[c].n - collector[c].enqueued])

CountEnqueued(c) ==
    /\ collector[c].pc = "enqueued"
    /\ PublishNext(c, "live", [udp_enqueued |-> collector[c].enqueued])

\* Mutant of RaiseGauge: one batch per event.
RaiseGaugeOnce(c) ==
    /\ collector[c].pc = "live"
    /\ pinba_count([queue_live |-> collector[c].enqueued])
    /\ collector' = [collector EXCEPT ![c] = Idle]
    /\ UNCHANGED <<kernelVars, failed, bufferVars, dataVars>>

\* The last one, before the lock is released and the drain goes on.
RaiseGauge(c) ==
    /\ collector[c].pc = "live"
    /\ pinba_count([queue_live |-> collector[c].enqueued])
    /\ collector' = [collector EXCEPT ![c] = [Idle EXCEPT !.pc = "drain"]]
    /\ UNCHANGED <<kernelVars, failed, bufferVars, dataVars>>

Publish(c) == CountReceived(c) \/ CountRefused(c) \/ CountEnqueued(c) \/ RaiseGauge(c)

(***************************************************************************)
(* The data thread (pinba_data_main) and its staging jobs.                 *)
(***************************************************************************)

\* Swap the buffers with the lock held exclusively; an empty batch goes back
\* to sleep, any other is handed to the staging jobs.
SwapPools ==
    /\ data.pc = "sleep"
    /\ Readers = {}
    /\ write_pool' = read_pool
    /\ read_pool' = write_pool
    /\ unstaged' = write_pool
    /\ data' = [data EXCEPT !.pc = IF SumOf(write_pool) = 0 THEN "sleep" ELSE "stage"]
    /\ UNCHANGED <<kernelVars, collectorVars, tmp, counters>>

\* data_job_func on one tree.  Every request in it is validated; a valid one is
\* staged unless the staging pool is full or request_to_record fails.
ValidIn(tree) == Len(SelectSeq(tree, LAMBDA r : pinba_validate_request(r) = "none"))

\* Mutant of StagingRoom: the limit is not compared with what the pool holds.
StagingRoomAll(c) == StagingLimit

StagingRoom(c) == StagingLimit - tmp[c]

StageTree(c) ==
    /\ data.pc = "stage" /\ unstaged[c] > 0
    /\ unstaged' = [unstaged EXCEPT ![c] = @ - 1]
    /\ \E tree \in Trees : \E staged \in 0..Min({ValidIn(tree), StagingRoom(c)}) :
          /\ pinba_count([requests_pending |-> staged])
          /\ tmp' = [tmp EXCEPT ![c] = @ + staged]
    /\ UNCHANGED <<kernelVars, collectorVars, bufferVars, data>>

\* Mutant of StagingDone: a batch that staged nothing is not released.
StagingDoneSkips ==
    /\ data.pc = "stage" /\ unstaged = none
    /\ data' = [data EXCEPT !.pc = IF SumOf(tmp) = 0 THEN "sleep" ELSE "copy"]
    /\ UNCHANGED <<kernelVars, collectorVars, bufferVars, unstaged, tmp, counters>>

\* The barrier of the staging jobs.
StagingDone ==
    /\ data.pc = "stage" /\ unstaged = none
    /\ data' = [data EXCEPT !.pc = IF SumOf(tmp) = 0 THEN "release" ELSE "copy"]
    /\ UNCHANGED <<kernelVars, collectorVars, bufferVars, unstaged, tmp, counters>>

\* Mutant of PrepareFails: the records that are given up are not counted.
PrepareFailsSilently ==
    /\ data.pc = "copy"
    /\ data' = [data EXCEPT !.pc = "release"]
    /\ UNCHANGED <<kernelVars, collectorVars, bufferVars, unstaged, tmp, counters>>

\* collector_lock held exclusively, but the report job buffers cannot grow.
PrepareFails ==
    /\ data.pc = "copy"
    /\ pinba_count([requests_pending |-> -SumOf(tmp)])
    /\ data' = [data EXCEPT !.pc = "release"]
    /\ UNCHANGED <<kernelVars, collectorVars, bufferVars, unstaged, tmp>>

\* The copy into the free slots of the window, as many as the stats thread has
\* left (module Rings has the window).  What fits is admitted, or squeezed out
\* and counted when its copy finds no memory.
CopyRecords ==
    /\ data.pc = "copy"
    /\ \E free_slots \in 0..(request_pool_size - 1) :
          LET accounted == Min({SumOf(tmp), free_slots})
              lost      == SumOf(tmp) - accounted
          IN  /\ pinba_count([requests_pending |-> -accounted])
              /\ data' = [data EXCEPT !.pc = IF lost > 0 THEN "lost" ELSE "release", !.lost = lost]
    /\ tmp' = none
    /\ UNCHANGED <<kernelVars, collectorVars, bufferVars, unstaged>>

\* collector_lock is released before the loss is counted under stats_lock.
CountLost ==
    /\ data.pc = "lost"
    /\ pinba_count([requests_pending |-> -data.lost])
    /\ data' = [data EXCEPT !.pc = "release", !.lost = 0]
    /\ UNCHANGED <<kernelVars, collectorVars, bufferVars, unstaged, tmp>>

\* The label sleep: slice by slice, the staging records are cleared, the trees are
\* freed and counted as completed, and then leave the gauge.
NextSlice == CHOOSE c \in Collectors : read_pool[c] > 0

CompleteSlice ==
    /\ data.pc = "release" /\ read_pool # none
    /\ tmp' = [tmp EXCEPT ![NextSlice] = 0]
    /\ pinba_count([udp_completed |-> read_pool[NextSlice]])
    /\ data' = [data EXCEPT !.pc = "completed"]
    /\ UNCHANGED <<kernelVars, collectorVars, bufferVars, unstaged>>

LowerGauge ==
    /\ data.pc = "completed"
    /\ pinba_count([queue_live |-> -read_pool[NextSlice]])
    /\ read_pool' = [read_pool EXCEPT ![NextSlice] = 0]
    /\ data' = [data EXCEPT !.pc = "release"]
    /\ UNCHANGED <<kernelVars, collectorVars, write_pool, unstaged, tmp>>

BatchReleased ==
    /\ data.pc = "release" /\ read_pool = none
    /\ data' = Asleep
    /\ UNCHANGED <<kernelVars, collectorVars, bufferVars, unstaged, tmp, counters>>

ReleaseBatch == CompleteSlice \/ LowerGauge \/ BatchReleased

(***************************************************************************)
(* Properties.                                                             *)
(***************************************************************************)

\* The gauge queue_live counts the trees in both buffers, less what a collector
\* has pushed and not yet published under the lock ("Publish before releasing
\* the pool lock", main.cc).  It never goes negative, whatever is swapped when.
QueueLiveExact ==
    "staging_pools" \in held =>
        /\ counters["queue_live"] + SumOf([c \in Collectors |-> collector[c].enqueued])
               = SumOf(write_pool) + SumOf(read_pool)
        /\ counters["queue_live"] >= 0

\* The collectors that are between two increments of one batch.
Publishing == {c \in Collectors : collector[c].pc \in {"refused", "enqueued", "live"}}

\* The balances of docs/diagnostics.md, which asks for quiet counters: each holds
\* whenever no thread is between two of its own increments, however the batches of
\* the collectors and of the data thread overlap.  Every datagram the kernel queued
\* is on the socket, in a collector's hands or counted as received; what was received
\* was refused or enqueued; what was enqueued is waiting or completed; and every
\* request that was checked ends as invalid, rejected, admitted or dropped for a
\* counted reason, or is staged right now.
BalancesHold ==
    /\ "collector_socket" \in held =>
          sent = socket + counters["udp_received"]
                 + SumOf([c \in Collectors |->
                             IF c \in Publishing THEN 0 ELSE collector[c].n])
    /\ Publishing = {} =>
          counters["udp_received"] = counters["udp_refused"] + counters["udp_enqueued"]
    /\ Publishing = {} /\ data.pc # "completed" =>
          counters["udp_enqueued"] = counters["queue_live"] + counters["udp_completed"]
    /\ counters["requests_pending"]
           = data.lost + (IF data.pc \in {"release", "completed"} THEN 0 ELSE SumOf(tmp))

=============================================================================
