---------------------------- MODULE DropCounter ----------------------------
(***************************************************************************)
(* The counter of datagrams the kernel dropped (main.cc                    *)
(* pinba_udp_kernel_sample).  The kernel counts its drops in 32 bits and   *)
(* attaches the count to every datagram it queues; the collectors, which   *)
(* take datagrams from one socket in turns, turn these samples into one    *)
(* 64-bit counter through a shared cursor that they advance by             *)
(* compare-and-exchange.  The step lies between the push and the           *)
(* publication of a batch (module Pipeline) and touches nothing else, so   *)
(* it is a specification of its own.                                       *)
(***************************************************************************)
EXTENDS Integers, Sequences, FiniteSets, Functions

CONSTANTS
    Receivers,       \* the collector threads
    CounterRange,    \* the kernel counts modulo this: 2^32
    BacklogLimit,    \* bound on the samples waiting on the socket
    MaxDropped       \* bound on the drops

ASSUME DropAssumption ==
    /\ IsFiniteSet(Receivers)
    /\ CounterRange \in Nat \ {0}
    /\ BacklogLimit \in Nat /\ MaxDropped \in Nat

VARIABLES
    dropped,             \* how many datagrams the kernel has dropped
    backlog,             \* the samples on the socket, as unreduced counts
    sampler,             \* each collector inside pinba_udp_kernel_sample
    kernel_drop_cursor,  \* the last sample that advanced the counter
    udp_kernel_drops,    \* the 64-bit counter
    sampled              \* the newest sample a collector is done with

dropVars == <<dropped, backlog, sampler, kernel_drop_cursor, udp_kernel_drops, sampled>>

Half == (CounterRange - 1) \div 2

AtRest == [pc |-> "rest", current |-> 0, previous |-> 0, adding |-> 0]

DropInit ==
    /\ dropped = 0
    /\ backlog = <<>>
    /\ sampler = [c \in Receivers |-> AtRest]
    /\ kernel_drop_cursor = 0
    /\ udp_kernel_drops = 0
    /\ sampled = 0

\* The samples that a collector has yet to judge.
Unjudged ==
    {backlog[i] : i \in DOMAIN backlog}
    \cup {sampler[c].current : c \in {x \in Receivers : sampler[x].pc \in {"load", "exchange"}}}

\* The kernel drops datagrams.  docs/diagnostics.md: the counter tolerates wraps
\* "smaller than half the counter range between useful samples".
KernelDrops(n) ==
    /\ dropped + n <= MaxDropped
    /\ \A s \in Unjudged \cup {sampled} : dropped + n - s <= Half
    /\ dropped' = dropped + n
    /\ UNCHANGED <<backlog, sampler, kernel_drop_cursor, udp_kernel_drops, sampled>>

\* The kernel queues a datagram with the current count.
KernelQueues ==
    /\ Len(backlog) < BacklogLimit
    /\ backlog' = Append(backlog, dropped)
    /\ UNCHANGED <<dropped, sampler, kernel_drop_cursor, udp_kernel_drops, sampled>>

\* A batch of n datagrams: only the sample of its last one is looked at.
TakeBatch(c, n) ==
    /\ sampler[c].pc = "rest"
    /\ n \in DOMAIN backlog
    /\ sampler' = [sampler EXCEPT ![c] = [pc |-> "load", current |-> backlog[n],
                                       previous |-> 0, adding |-> 0]]
    /\ backlog' = SubSeq(backlog, n + 1, Len(backlog))
    /\ UNCHANGED <<dropped, kernel_drop_cursor, udp_kernel_drops, sampled>>

HoldCursor(c) ==
    sampler' = [sampler EXCEPT ![c] = [pc |-> "exchange", current |-> sampler[c].current,
                                       previous |-> kernel_drop_cursor, adding |-> 0]]

\* The first load of the cursor.
LoadCursor(c) ==
    /\ sampler[c].pc = "load"
    /\ HoldCursor(c)
    /\ UNCHANGED <<dropped, backlog, kernel_drop_cursor, udp_kernel_drops, sampled>>

\* Mutant of Overtaken: every difference counts as progress.
OvertakenNever(delta) == delta = 0

\* current - previous in uint32_t.  No drop since, or a sample that another
\* collector's newer one has overtaken, ends the loop.
Delta(c) == (sampler[c].current - sampler[c].previous) % CounterRange

Overtaken(delta) == delta = 0 \/ delta > Half

Judged(c, next) ==
    /\ sampler' = [sampler EXCEPT ![c] = next]
    /\ sampled' = IF sampler[c].current > sampled THEN sampler[c].current ELSE sampled

\* One round of the loop: give up, advance the cursor if it still is what was
\* loaded, or take what it is now and try again.
ExchangeCursor(c) ==
    /\ sampler[c].pc = "exchange"
    /\ \/ /\ Overtaken(Delta(c))
          /\ Judged(c, AtRest)
          /\ UNCHANGED kernel_drop_cursor
       \/ /\ ~Overtaken(Delta(c))
          /\ kernel_drop_cursor = sampler[c].previous
          /\ kernel_drop_cursor' = sampler[c].current % CounterRange
          /\ Judged(c, [pc |-> "count", current |-> 0, previous |-> 0, adding |-> Delta(c)])
       \/ /\ ~Overtaken(Delta(c))
          /\ kernel_drop_cursor # sampler[c].previous
          /\ HoldCursor(c)
          /\ UNCHANGED <<kernel_drop_cursor, sampled>>
    /\ UNCHANGED <<dropped, backlog, udp_kernel_drops>>

\* The collector whose exchange succeeded adds what it has advanced the cursor by.
CountDrops(c) ==
    /\ sampler[c].pc = "count"
    /\ udp_kernel_drops' = udp_kernel_drops + sampler[c].adding
    /\ sampler' = [sampler EXCEPT ![c] = AtRest]
    /\ UNCHANGED <<dropped, backlog, kernel_drop_cursor, sampled>>

DropNext ==
    \/ \E n \in 1..Half : KernelDrops(n)
    \/ KernelQueues
    \/ \E c \in Receivers :
          \/ \E n \in 1..BacklogLimit : TakeBatch(c, n)
          \/ LoadCursor(c) \/ ExchangeCursor(c) \/ CountDrops(c)

DropSpec == DropInit /\ [][DropNext]_dropVars

\* The drops that a collector has yet to add.
Adding == SumFunctionOnSet([c \in Receivers |-> sampler[c].adding], Receivers)

\* The counter is the newest drop count any collector has judged, less what the
\* collectors between their exchange and their addition are about to add: no drop
\* is counted twice or lost, though the kernel's counter wraps, samples are judged
\* out of order and the additions follow in any order.
KernelDropsExact ==
    /\ udp_kernel_drops + Adding = sampled
    /\ kernel_drop_cursor = sampled % CounterRange

=============================================================================
