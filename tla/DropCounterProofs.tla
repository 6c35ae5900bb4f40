------------------------- MODULE DropCounterProofs -------------------------
(***************************************************************************)
(* Proof that the drop counter is exact for every width of the kernel's    *)
(* counter, any number of collectors and any number of drops.              *)
(*                                                                         *)
(* KernelDropsExact is not inductive: a collector that has loaded the      *)
(* cursor holds a value that may be stale.  The invariant says what the    *)
(* loaded value still stands for: a drop count p that was the newest one   *)
(* when it was loaded, at most half the range below the collector's own    *)
(* sample.  Hence a delta of at most half the range is the true one, and   *)
(* an unchanged cursor has not gone round the range once.  What a          *)
(* collector has taken over and not yet added is in its own hands only     *)
(* (module FiniteSums has the sums).                                       *)
(***************************************************************************)
EXTENDS DropCounter, FiniteSums

\* A count is its quotient and its remainder.
LEMMA Division ==
    ASSUME NEW m \in Nat \ {0}, NEW x \in Int
    PROVE  /\ x \div m \in Int
           /\ x % m \in 0..(m - 1)
           /\ x = m * (x \div m) + (x % m)
  <1>1. x \div m \in Int
    BY SMT
  <1>2. x % m \in 0..(m - 1)
    BY SMT
  <1>3. x = m * (x \div m) + (x % m)
    BY SMT
  <1> QED
    BY <1>1, <1>2, <1>3

\* The remainder is the only one.
LEMMA RemainderUnique ==
    ASSUME NEW m \in Nat \ {0}, NEW q \in Int, NEW r \in 0..(m - 1)
    PROVE  (m * q + r) % m = r
  BY SMT

\* A count less than the range above another is their wrapped difference.
LEMMA WrapAhead ==
    ASSUME NEW m \in Nat \ {0}, NEW s \in Nat, NEW p \in Nat, s - p \in 0..(m - 1)
    PROVE  (s - (p % m)) % m = s - p
  <1> DEFINE q == p \div m
             r == s - p
  <1>1. q \in Int /\ p = m * q + (p % m) /\ p % m \in 0..(m - 1)
    BY Division
  <1>2. s - (p % m) = m * q + r
    BY <1>1, SMT
  <1>3. (m * q + r) % m = r
    <2> HIDE DEF q
    <2> QED
      BY <1>1, RemainderUnique
  <1> QED
    BY <1>2, <1>3

\* A count below another wraps to the top of the range.
LEMMA WrapBehind ==
    ASSUME NEW m \in Nat \ {0}, NEW s \in Nat, NEW p \in Nat, p - s \in 1..(m - 1)
    PROVE  (s - (p % m)) % m = m - (p - s)
  <1> DEFINE q == p \div m
             r == m - (p - s)
  <1>1. q \in Int /\ p = m * q + (p % m) /\ p % m \in 0..(m - 1)
    BY Division
  <1>2. q - 1 \in Int /\ r \in 0..(m - 1)
    BY <1>1, SMT
  <1>3. s - (p % m) = m * (q - 1) + r
    <2>1. m * (q - 1) = m * q - m
      BY <1>1, SMT
    <2> QED
      BY <1>1, <2>1, SMT
  <1>4. (m * (q - 1) + r) % m = r
    <2> HIDE DEF q, r
    <2> QED
      BY <1>2, RemainderUnique
  <1> QED
    BY <1>3, <1>4

\* Two counts less than the range apart with the same remainder are equal.
LEMMA SameRemainder ==
    ASSUME NEW m \in Nat \ {0}, NEW x \in Nat, NEW y \in Nat, x - y \in 0..(m - 1), x % m = y % m
    PROVE  x = y
  <1> DEFINE q == x \div m
  <1>1. q \in Int /\ x = m * q + (x % m) /\ x % m \in 0..(m - 1)
    BY Division
  <1>2. (x - (y % m)) % m = x - y
    BY WrapAhead
  <1>3. x - (y % m) = m * q + 0
    BY <1>1, SMT
  <1>4. (m * q + 0) % m = 0
    <2> HIDE DEF q
    <2> QED
      BY <1>1, RemainderUnique, SMT
  <1> QED
    BY <1>2, <1>3, <1>4, SMT

LEMMA HalfBound == /\ Half \in Nat
                   /\ Half + Half <= CounterRange - 1
  BY DropAssumption, SMT DEF Half

\* What a loaded cursor stands for.
Loaded(c) ==
    \E p \in Nat : /\ sampler[c].previous = p % CounterRange
                  /\ p <= sampled
                  /\ sampler[c].current - p <= Half

Sampler == [pc : {"rest", "load", "exchange", "count"}, current : Nat, previous : Nat, adding : Nat]

InLoop(c) == sampler[c].pc \in {"load", "exchange"}

\* The inductive invariant: no count in flight is half the range behind the
\* kernel, and every loaded cursor stands for a recent count.
DropInv ==
    /\ dropped \in Nat /\ sampled \in Nat /\ udp_kernel_drops \in Nat /\ backlog \in Seq(Nat)
    /\ sampler \in [Receivers -> Sampler]
    /\ \A c \in Receivers : sampler[c].pc # "count" => sampler[c].adding = 0
    /\ KernelDropsExact
    /\ sampled <= dropped /\ dropped - sampled <= Half
    /\ \A i \in DOMAIN backlog : backlog[i] <= dropped /\ dropped - backlog[i] <= Half
    /\ \A c \in Receivers : InLoop(c) =>
          sampler[c].current <= dropped /\ dropped - sampler[c].current <= Half
    /\ \A c \in Receivers : sampler[c].pc = "exchange" => Loaded(c)

\* Only one collector's hands change: the sum follows it.
LEMMA AddingFollows ==
    ASSUME sampler \in [Receivers -> Sampler], NEW c \in Receivers, NEW next \in Sampler,
           sampler' = [sampler EXCEPT ![c] = next]
    PROVE  /\ Adding \in Nat /\ Adding' \in Nat
           /\ Adding' = Adding - sampler[c].adding + next.adding
  <1> DEFINE f == [d \in Receivers |-> sampler[d].adding]
             g == [d \in Receivers |-> sampler'[d].adding]
  <1>1. Adding = SumFunctionOnSet(f, Receivers) /\ Adding' = SumFunctionOnSet(g, Receivers)
    BY Zenon DEF Adding
  <1>2. NatValued(f, Receivers) /\ NatValued(g, Receivers)
    BY SMT DEF NatValued, Sampler
  <1>3. g[c] = next.adding /\ f[c] = sampler[c].adding /\ next.adding \in Nat
    BY SMT DEF Sampler
  <1>4. \A x \in Receivers : x # c => g[x] = f[x]
    BY SMT
  <1>5. IsFiniteSet(Receivers)
    BY DropAssumption
  <1> HIDE DEF f, g
  <1>6. g[c] \in Nat
    BY <1>3, Zenon
  <1>7. /\ SumFunctionOnSet(g, Receivers) = SumFunctionOnSet(f, Receivers) - f[c] + g[c]
        /\ SumFunctionOnSet(f, Receivers) \in Nat
    BY <1>2, <1>4, <1>5, <1>6, SumChange
  <1>8. SumFunctionOnSet(g, Receivers) \in Nat
    BY <1>2, <1>5, SumNat
  <1> QED
    BY <1>1, <1>3, <1>7, <1>8, Zenon

\* Nothing was in the collector's hands, and nothing is.
LEMMA AddingStays ==
    ASSUME sampler \in [Receivers -> Sampler], NEW c \in Receivers, NEW next \in Sampler,
           sampler' = [sampler EXCEPT ![c] = next], sampler[c].adding = 0, next.adding = 0
    PROVE  Adding' = Adding
  <1>1. Adding \in Nat /\ Adding' \in Nat /\ Adding' = Adding - sampler[c].adding + next.adding
    BY AddingFollows, Zenon
  <1>2. Adding' = Adding - 0 + 0
    BY <1>1, Zenon
  <1>3. Adding - 0 + 0 = Adding
    BY <1>1, SMT
  <1> QED
    BY <1>2, <1>3, Zenon

\* Nothing is added while nothing is in a collector's hands.
LEMMA AddingNothing ==
    ASSUME \A c \in Receivers : sampler[c].adding = 0
    PROVE  Adding = 0
  <1> DEFINE f == [d \in Receivers |-> sampler[d].adding]
  <1>1. Units(f, Receivers) = {} /\ NatValued(f, Receivers)
    BY SMT DEF Units, NatValued
  <1>2. SumFunctionOnSet(f, Receivers) = 0
    <2> HIDE DEF f
    <2> QED
      BY <1>1, SumIsCardinality, FS_EmptySet, DropAssumption
  <1> QED
    BY <1>2, Zenon DEF Adding

LEMMA DropInvInit == DropInit => DropInv
  <1> SUFFICES ASSUME DropInit PROVE DropInv
    OBVIOUS
  <1>1. 0 % CounterRange = 0
    BY DropAssumption, SMT
  <1>2. AtRest \in Sampler /\ AtRest.pc = "rest" /\ AtRest.adding = 0
    BY SMT DEF AtRest, Sampler
  <1>3. backlog \in Seq(Nat) /\ DOMAIN backlog = {}
    BY SMT DEF DropInit
  <1>4. /\ sampler \in [Receivers -> Sampler]
        /\ \A c \in Receivers : sampler[c].pc = "rest" /\ sampler[c].adding = 0
    BY <1>2, Zenon DEF DropInit
  <1>5. Adding = 0
    BY <1>4, AddingNothing
  <1> QED
    BY <1>1, <1>3, <1>4, <1>5, HalfBound, SMT DEF DropInit, DropInv, KernelDropsExact, InLoop

LEMMA DropsKeepInv == ASSUME DropInv, NEW n \in 1..Half, KernelDrops(n) PROVE DropInv'
  <1> USE DEF DropInv
  <1>0. n \in Nat /\ dropped' = dropped + n
    BY HalfBound, SMT DEF KernelDrops
  <1>1. dropped' \in Nat /\ UNCHANGED <<sampled, backlog, sampler, kernel_drop_cursor, udp_kernel_drops>>
    BY <1>0, SMT DEF KernelDrops
  <1>2. \A s \in Unjudged \cup {sampled} : dropped + n - s <= Half
    BY Zenon DEF KernelDrops
  <1>3. sampled' <= dropped' /\ dropped' - sampled' <= Half
    <2>1. dropped + n - sampled <= Half
      BY <1>2, Zenon
    <2> QED
      BY <1>0, <1>1, <2>1, SMT
  <1>4. \A i \in DOMAIN backlog : backlog[i] <= dropped' /\ dropped' - backlog[i] <= Half
    <2> TAKE i \in DOMAIN backlog
    <2>1. backlog[i] \in Unjudged
      BY Zenon DEF Unjudged
    <2>2. dropped + n - backlog[i] <= Half
      BY <1>2, <2>1, Zenon
    <2>3. backlog[i] \in Nat
      BY SMT
    <2> QED
      BY <1>0, <2>2, <2>3, SMT
  <1>5. \A c \in Receivers : InLoop(c) =>
           sampler[c].current <= dropped' /\ dropped' - sampler[c].current <= Half
    <2> TAKE c \in Receivers
    <2> HAVE InLoop(c)
    <2>1. sampler[c].current \in Unjudged
      BY Zenon DEF Unjudged, InLoop
    <2>2. sampler[c].current \in Nat
      BY SMT DEF Sampler
    <2>3. dropped + n - sampler[c].current <= Half
      BY <1>2, <2>1, Zenon
    <2> QED
      BY <1>0, <2>2, <2>3, SMT
  <1>6. \A c \in Receivers : sampler'[c].pc = "exchange" => Loaded(c)'
    BY <1>1, Zenon DEF Loaded
  <1>7. KernelDropsExact'
    BY <1>1, Zenon DEF KernelDropsExact, Adding
  <1> QED
    BY <1>1, <1>3, <1>4, <1>5, <1>6, <1>7, Zenon DEF InLoop

LEMMA QueueingKeepsInv == ASSUME DropInv, KernelQueues PROVE DropInv'
  <1> USE DEF DropInv
  <1>1. UNCHANGED <<dropped, sampled, sampler, kernel_drop_cursor, udp_kernel_drops>>
    BY DEF KernelQueues
  <1>2. backlog' = Append(backlog, dropped)
    BY DEF KernelQueues
  <1>3. backlog' \in Seq(Nat)
    BY <1>2, SMT
  <1>4. \A i \in DOMAIN backlog' : backlog'[i] <= dropped /\ dropped - backlog'[i] <= Half
    BY <1>2, HalfBound, SMT
  <1>5. \A c \in Receivers : sampler'[c].pc = "exchange" => Loaded(c)'
    BY <1>1, Zenon DEF Loaded
  <1>6. KernelDropsExact'
    BY <1>1, Zenon DEF KernelDropsExact, Adding
  <1> QED
    BY <1>1, <1>3, <1>4, <1>5, <1>6, Zenon DEF InLoop

LEMMA TakingKeepsInv ==
    ASSUME DropInv, NEW c \in Receivers, NEW n \in Nat, TakeBatch(c, n)
    PROVE  DropInv'
  <1> USE DEF DropInv
  <1>1. UNCHANGED <<dropped, sampled, kernel_drop_cursor, udp_kernel_drops>>
    BY DEF TakeBatch
  <1>2. n \in 1..Len(backlog) /\ backlog' = SubSeq(backlog, n + 1, Len(backlog))
    BY SMT DEF TakeBatch
  <1>3. backlog' \in Seq(Nat)
    BY <1>2, SMT
  <1>4. \A i \in DOMAIN backlog' : i + n \in DOMAIN backlog /\ backlog'[i] = backlog[i + n]
    BY <1>2, SMT
  <1>5. \A i \in DOMAIN backlog' : backlog'[i] <= dropped /\ dropped - backlog'[i] <= Half
    BY <1>4, Zenon
  <1>6. backlog[n] \in Nat /\ backlog[n] <= dropped /\ dropped - backlog[n] <= Half
    BY <1>2, SMT
  <1> DEFINE next == [pc |-> "load", current |-> backlog[n], previous |-> 0, adding |-> 0]
  <1>7. sampler' = [sampler EXCEPT ![c] = next] /\ sampler[c].pc = "rest"
    BY DEF TakeBatch
  <1>8. next \in Sampler /\ next.pc = "load" /\ next.current = backlog[n] /\ next.adding = 0
    BY <1>6, SMT DEF Sampler
  <1> HIDE DEF next
  <1>9. sampler' \in [Receivers -> Sampler] /\ sampler'[c] = next
    BY <1>7, <1>8, Zenon
  <1>10. \A d \in Receivers : d # c => sampler'[d] = sampler[d]
    BY <1>7, Zenon
  <1>11. \A d \in Receivers : InLoop(d)' =>
           sampler'[d].current <= dropped /\ dropped - sampler'[d].current <= Half
    BY <1>6, <1>8, <1>9, <1>10, Zenon DEF InLoop
  <1>12. \A d \in Receivers : sampler'[d].pc # "count" => sampler'[d].adding = 0
    BY <1>8, <1>9, <1>10, Zenon
  <1>13. \A d \in Receivers : sampler'[d].pc = "exchange" => Loaded(d)'
    <2> TAKE d \in Receivers
    <2> HAVE sampler'[d].pc = "exchange"
    <2>1. sampler'[d] = sampler[d]
      BY <1>8, <1>9, <1>10, SMT
    <2> QED
      BY <1>1, <2>1, Zenon DEF Loaded
  <1>14. KernelDropsExact'
    <2>1. sampler[c].adding = 0
      BY <1>7, SMT
    <2>2. Adding' = Adding
      BY <1>7, <1>8, <2>1, AddingStays, Zenon
    <2> QED
      BY <1>1, <2>2, Zenon DEF KernelDropsExact
  <1> QED
    BY <1>1, <1>3, <1>5, <1>9, <1>11, <1>12, <1>13, <1>14, Zenon

\* A collector that loads the cursor, first or again, holds the newest count.
LEMMA LoadingKeepsInv ==
    ASSUME DropInv, NEW c \in Receivers, InLoop(c), HoldCursor(c),
           UNCHANGED <<dropped, backlog, kernel_drop_cursor, udp_kernel_drops, sampled>>
    PROVE  DropInv'
  <1> USE DEF DropInv
  <1> DEFINE next == [pc |-> "exchange", current |-> sampler[c].current,
                      previous |-> kernel_drop_cursor, adding |-> 0]
  <1>1. sampler[c].current \in Nat /\ sampler[c].current - sampled <= Half
    BY HalfBound, SMT DEF Sampler
  <1>2. kernel_drop_cursor = sampled % CounterRange /\ kernel_drop_cursor \in Nat
    <2>1. sampled % CounterRange \in 0..(CounterRange - 1)
      BY DropAssumption, Division
    <2> QED
      BY <2>1, DropAssumption, SMT DEF KernelDropsExact
  <1>3. sampler' = [sampler EXCEPT ![c] = next]
    BY DEF HoldCursor
  <1>4. /\ next \in Sampler /\ next.pc = "exchange" /\ next.current = sampler[c].current
        /\ next.previous = kernel_drop_cursor /\ next.adding = 0
    BY <1>1, <1>2, SMT DEF Sampler
  <1> HIDE DEF next
  <1>5. sampler' \in [Receivers -> Sampler] /\ sampler'[c] = next
    BY <1>3, <1>4, Zenon
  <1>6. \A d \in Receivers : d # c => sampler'[d] = sampler[d]
    BY <1>3, Zenon
  <1>7. \A d \in Receivers : InLoop(d)' =>
           sampler'[d].current <= dropped /\ dropped - sampler'[d].current <= Half
    BY <1>4, <1>5, <1>6, Zenon DEF InLoop
  <1>8. \A d \in Receivers : sampler'[d].pc # "count" => sampler'[d].adding = 0
    BY <1>4, <1>5, <1>6, Zenon
  <1>9. ASSUME NEW d \in Receivers, sampler'[d].pc = "exchange" PROVE Loaded(d)'
    <2>1. CASE d # c
      BY <1>6, <1>9, <2>1, Zenon DEF Loaded
    <2>2. CASE d = c
      <3>1. \E p \in Nat : /\ sampler'[c].previous = p % CounterRange
                          /\ p <= sampled
                          /\ sampler'[c].current - p <= Half
        BY <1>1, <1>2, <1>4, <1>5, SMT
      <3> QED
        BY <2>2, <3>1, Zenon DEF Loaded
    <2> QED
      BY <2>1, <2>2
  <1>10. KernelDropsExact'
    <2>1. sampler[c].adding = 0
      BY SMT DEF InLoop
    <2>2. Adding' = Adding
      BY <1>3, <1>4, <2>1, AddingStays, Zenon
    <2> QED
      BY <2>2, Zenon DEF KernelDropsExact
  <1> QED
    BY <1>5, <1>7, <1>8, <1>9, <1>10, Zenon

\* The delta of a loaded cursor: positive and at most half the range exactly
\* when the sample is newer than the count the cursor stands for.
LEMMA DeltaIsTrue ==
    ASSUME DropInv, NEW c \in Receivers, sampler[c].pc = "exchange", NEW p \in Nat,
           sampler[c].previous = p % CounterRange, p <= sampled, sampler[c].current - p <= Half
    PROVE  /\ Overtaken(Delta(c)) => sampler[c].current <= sampled
           /\ ~Overtaken(Delta(c)) => /\ sampler[c].current > p
                                       /\ Delta(c) = sampler[c].current - p
  <1> DEFINE s == sampler[c].current
  <1>1. s \in Nat /\ s <= dropped /\ dropped - s <= Half /\ sampled \in Nat /\ dropped \in Nat
        /\ sampled <= dropped
    BY SMT DEF DropInv, Sampler, InLoop
  <1>2. Delta(c) = (s - (p % CounterRange)) % CounterRange
    BY DEF Delta
  <1>3. CASE s >= p
    <2>1. s - p \in 0..(CounterRange - 1) /\ s - p <= Half
      BY <1>1, <1>3, HalfBound, DropAssumption, SMT
    <2>2. Delta(c) = s - p
      <3> HIDE DEF s
      <3> QED
        BY <1>1, <1>2, <2>1, WrapAhead, DropAssumption
    <2> QED
      BY <1>1, <1>3, <2>1, <2>2, HalfBound, SMT DEF Overtaken
  <1>4. CASE s < p
    <2>1. p - s \in 1..(CounterRange - 1) /\ p - s <= Half
      BY <1>1, <1>4, HalfBound, DropAssumption, SMT
    <2>2. Delta(c) = CounterRange - (p - s)
      <3> HIDE DEF s
      <3> QED
        BY <1>1, <1>2, <2>1, WrapBehind, DropAssumption
    <2>3. Overtaken(Delta(c))
      BY <1>1, <2>1, <2>2, HalfBound, DropAssumption, SMT DEF Overtaken
    <2> QED
      BY <1>1, <1>4, <2>3, SMT
  <1> QED
    BY <1>1, <1>3, <1>4, SMT

\* A collector that is done with its sample, with or without something to add,
\* leaves the rest alone.
LEMMA JudgingKeepsInv ==
    ASSUME DropInv, NEW c \in Receivers, sampler[c].pc = "exchange", NEW next \in Sampler,
           next.pc \in {"rest", "count"}, next.pc # "count" => next.adding = 0,
           Judged(c, next), UNCHANGED <<dropped, backlog, udp_kernel_drops>>, KernelDropsExact'
    PROVE  DropInv'
  <1> USE DEF DropInv
  <1>1. sampler[c].current \in Nat /\ sampler[c].current <= dropped
        /\ dropped - sampler[c].current <= Half
    BY SMT DEF Sampler, InLoop
  <1>2. sampled' \in Nat /\ sampled' <= dropped /\ dropped - sampled' <= Half /\ sampled <= sampled'
    BY <1>1, SMT DEF Judged
  <1>3. sampler' = [sampler EXCEPT ![c] = next]
    BY DEF Judged
  <1>4. sampler' \in [Receivers -> Sampler] /\ sampler'[c] = next
    BY <1>3, Zenon
  <1>5. \A d \in Receivers : d # c => sampler'[d] = sampler[d]
    BY <1>3, Zenon
  <1>6. ~InLoop(c)' /\ sampler'[c].pc # "exchange"
    BY <1>4, SMT DEF InLoop
  <1>7. \A d \in Receivers : InLoop(d)' =>
           sampler'[d].current <= dropped /\ dropped - sampler'[d].current <= Half
    BY <1>5, <1>6, Zenon DEF InLoop
  <1>8. \A d \in Receivers : sampler'[d].pc # "count" => sampler'[d].adding = 0
    BY <1>4, <1>5, Zenon
  <1>9. ASSUME NEW d \in Receivers, sampler'[d].pc = "exchange" PROVE Loaded(d)'
    <2>1. sampler'[d] = sampler[d] /\ Loaded(d)
      BY <1>5, <1>6, <1>9, Zenon
    <2>2. PICK p \in Nat : /\ sampler[d].previous = p % CounterRange
                          /\ p <= sampled
                          /\ sampler[d].current - p <= Half
      BY <2>1, Zenon DEF Loaded
    <2>3. p <= sampled'
      BY <1>2, <2>2, SMT
    <2>4. sampler'[d].previous = p % CounterRange /\ sampler'[d].current - p <= Half
      BY <2>1, <2>2, Zenon
    <2> QED
      BY <2>3, <2>4, Zenon DEF Loaded
  <1> QED
    BY <1>2, <1>4, <1>7, <1>8, <1>9, Zenon

LEMMA ExchangeKeepsInv == ASSUME DropInv, NEW c \in Receivers, ExchangeCursor(c) PROVE DropInv'
  <1> DEFINE s == sampler[c].current
             counting == [pc |-> "count", current |-> 0, previous |-> 0, adding |-> Delta(c)]
  <1>1. sampler[c].pc = "exchange" /\ UNCHANGED <<dropped, backlog, udp_kernel_drops>>
    BY DEF ExchangeCursor
  <1>2. PICK p \in Nat : /\ sampler[c].previous = p % CounterRange
                        /\ p <= sampled
                        /\ sampler[c].current - p <= Half
    BY <1>1, Zenon DEF DropInv, Loaded
  <1>3. /\ Overtaken(Delta(c)) => s <= sampled
        /\ ~Overtaken(Delta(c)) => s > p /\ Delta(c) = s - p
    BY <1>1, <1>2, DeltaIsTrue
  <1>4. s \in Nat /\ s <= dropped /\ dropped - s <= Half /\ sampled \in Nat /\ sampled <= dropped
        /\ dropped \in Nat /\ udp_kernel_drops \in Nat /\ sampler[c].adding = 0
    BY <1>1, SMT DEF DropInv, Sampler, InLoop
  <1>5. udp_kernel_drops + Adding = sampled /\ kernel_drop_cursor = sampled % CounterRange
    BY Zenon DEF DropInv, KernelDropsExact
  <1>6. sampler \in [Receivers -> Sampler]
    BY Zenon DEF DropInv
  <1>7. CASE Overtaken(Delta(c)) /\ Judged(c, AtRest) /\ UNCHANGED kernel_drop_cursor
    <2>1. sampled' = sampled
      BY <1>3, <1>4, <1>7, SMT DEF Judged
    <2>2. AtRest \in Sampler /\ AtRest.pc = "rest" /\ AtRest.adding = 0
      BY SMT DEF AtRest, Sampler
    <2>3. sampler' = [sampler EXCEPT ![c] = AtRest]
      BY <1>7 DEF Judged
    <2>4. Adding' = Adding
      BY <1>4, <1>6, <2>2, <2>3, AddingStays, Zenon
    <2>5. KernelDropsExact'
      BY <1>1, <1>5, <1>7, <2>1, <2>4, Zenon DEF KernelDropsExact
    <2> QED
      BY <1>1, <1>7, <2>2, <2>5, JudgingKeepsInv, Zenon
  <1>8. CASE /\ ~Overtaken(Delta(c)) /\ Judged(c, counting)
             /\ kernel_drop_cursor = sampler[c].previous
             /\ kernel_drop_cursor' = s % CounterRange
    <2>1. sampled - p \in 0..(CounterRange - 1)
      BY <1>2, <1>4, HalfBound, DropAssumption, SMT
    <2>2. sampled % CounterRange = p % CounterRange
      BY <1>2, <1>5, <1>8, Zenon
    <2>3. sampled = p
      BY <1>4, <2>1, <2>2, SameRemainder, DropAssumption
    <2>4. sampled' = s /\ Delta(c) = s - sampled /\ Delta(c) \in Nat
      BY <1>3, <1>4, <1>8, <2>3, SMT DEF Judged
    <2>5. counting \in Sampler /\ counting.pc = "count" /\ counting.adding = Delta(c)
      BY <2>4, SMT DEF Sampler
    <2> HIDE DEF counting
    <2>6. sampler' = [sampler EXCEPT ![c] = counting]
      BY <1>8 DEF Judged
    <2>7. Adding' = Adding - sampler[c].adding + counting.adding /\ Adding \in Nat
      BY <1>6, <2>5, <2>6, AddingFollows, Zenon
    <2>8. Adding' = Adding - 0 + (s - sampled)
      BY <1>4, <2>4, <2>5, <2>7, Zenon
    <2>9. udp_kernel_drops + (Adding - 0 + (s - sampled)) = s
      BY <1>4, <1>5, <2>7, SMT
    <2>10. udp_kernel_drops' + Adding' = sampled'
      BY <1>1, <2>4, <2>8, <2>9, Zenon
    <2>11. KernelDropsExact'
      BY <1>8, <2>4, <2>10, Zenon DEF KernelDropsExact
    <2> QED
      BY <1>1, <1>8, <2>5, <2>11, JudgingKeepsInv, Zenon
  <1>9. CASE HoldCursor(c) /\ UNCHANGED <<kernel_drop_cursor, sampled>>
    <2>1. InLoop(c)
      BY <1>1, Zenon DEF InLoop
    <2> QED
      BY <1>1, <1>9, <2>1, LoadingKeepsInv, Zenon
  <1> QED
    BY <1>7, <1>8, <1>9, Zenon DEF ExchangeCursor

LEMMA CountingKeepsInv == ASSUME DropInv, NEW c \in Receivers, CountDrops(c) PROVE DropInv'
  <1> USE DEF DropInv
  <1>1. UNCHANGED <<dropped, backlog, kernel_drop_cursor, sampled>>
    BY DEF CountDrops
  <1>2. AtRest \in Sampler /\ AtRest.pc = "rest" /\ AtRest.adding = 0
    BY SMT DEF AtRest, Sampler
  <1>3. sampler' = [sampler EXCEPT ![c] = AtRest] /\ sampler[c].adding \in Nat
        /\ udp_kernel_drops' = udp_kernel_drops + sampler[c].adding
    BY SMT DEF CountDrops, Sampler
  <1>4. sampler' \in [Receivers -> Sampler] /\ sampler'[c] = AtRest
    BY <1>2, <1>3, Zenon
  <1>5. \A d \in Receivers : d # c => sampler'[d] = sampler[d]
    BY <1>3, Zenon
  <1>6. ~InLoop(c)' /\ sampler'[c].pc # "exchange"
    BY <1>2, <1>4, SMT DEF InLoop
  <1>7. \A d \in Receivers : InLoop(d)' =>
           sampler'[d].current <= dropped /\ dropped - sampler'[d].current <= Half
    BY <1>5, <1>6, Zenon DEF InLoop
  <1>8. \A d \in Receivers : sampler'[d].pc # "count" => sampler'[d].adding = 0
    BY <1>2, <1>4, <1>5, Zenon
  <1>9. \A d \in Receivers : sampler'[d].pc = "exchange" => Loaded(d)'
    BY <1>1, <1>5, <1>6, Zenon DEF Loaded
  <1>10. udp_kernel_drops' \in Nat
    BY <1>3, SMT
  <1>11. Adding' = Adding - sampler[c].adding + 0 /\ Adding \in Nat
    BY <1>2, <1>3, AddingFollows, Zenon
  <1>12. udp_kernel_drops' + Adding' = udp_kernel_drops + Adding
    <2>1. (udp_kernel_drops + sampler[c].adding) + (Adding - sampler[c].adding + 0)
             = udp_kernel_drops + Adding
      BY <1>3, <1>11, SMT
    <2> QED
      BY <1>3, <1>11, <2>1, Zenon
  <1>13. KernelDropsExact'
    BY <1>1, <1>12, Zenon DEF KernelDropsExact
  <1> QED
    BY <1>1, <1>4, <1>7, <1>8, <1>9, <1>10, <1>13, Zenon

LEMMA DropInvStep == DropInv /\ [DropNext]_dropVars => DropInv'
  <1> SUFFICES ASSUME DropInv, [DropNext]_dropVars PROVE DropInv'
    OBVIOUS
  <1>1. ASSUME NEW n \in 1..Half, KernelDrops(n) PROVE DropInv'
    BY <1>1, DropsKeepInv
  <1>2. CASE KernelQueues
    BY <1>2, QueueingKeepsInv
  <1>3. ASSUME NEW c \in Receivers, NEW n \in 1..BacklogLimit, TakeBatch(c, n) PROVE DropInv'
    <2>1. n \in Nat
      BY SMT
    <2> QED
      BY <1>3, <2>1, TakingKeepsInv
  <1>4. ASSUME NEW c \in Receivers, LoadCursor(c) PROVE DropInv'
    <2>1. InLoop(c)
      BY <1>4, SMT DEF LoadCursor, InLoop
    <2> QED
      BY <1>4, <2>1, LoadingKeepsInv, Zenon DEF LoadCursor
  <1>5. ASSUME NEW c \in Receivers, ExchangeCursor(c) PROVE DropInv'
    BY <1>5, ExchangeKeepsInv
  <1>6. ASSUME NEW c \in Receivers, CountDrops(c) PROVE DropInv'
    BY <1>6, CountingKeepsInv
  <1>7. CASE UNCHANGED dropVars
    BY <1>7, Zenon DEF dropVars, DropInv, KernelDropsExact, Loaded, InLoop, Adding
  <1> QED
    BY <1>1, <1>2, <1>3, <1>4, <1>5, <1>6, <1>7, Zenon DEF DropNext

\* pinba_udp_kernel_sample keeps udp_kernel_drops, with what the collectors are
\* about to add to it, equal to the newest drop count a collector has judged, for
\* every counter width and number of collectors, as long as the kernel drops less
\* than half the range between useful samples.
THEOREM DropsExact == DropSpec => []KernelDropsExact
  <1>1. DropInv => KernelDropsExact
    BY DEF DropInv
  <1> QED
    BY <1>1, DropInvInit, DropInvStep, PTL DEF DropSpec

=============================================================================
