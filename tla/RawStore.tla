------------------------------ MODULE RawStore ------------------------------
(***************************************************************************)
(* What the raw store promises to its SQL readers: a first-in first-out    *)
(* list of admitted requests.  A batch is appended as a whole and never    *)
(* displaces a stored request; expiration removes exactly the requests     *)
(* older than its cut; DELETE FROM request empties the store.  A stored    *)
(* request keeps its identity, its time and its timers for as long as it   *)
(* is stored.  Module Rings shows that the two ring buffers of pool.cc     *)
(* and main.cc implement this specification.                               *)
(***************************************************************************)
EXTENDS Integers, Sequences, SequencesExt

CONSTANTS
    Capacity,   \* requests the store can hold
    Times,      \* times at which a batch can be harvested
    Timers      \* the timer lists a request can carry

VARIABLES
    store,      \* the admitted requests, oldest first
    admitted    \* number of requests ever admitted

vars == <<store, admitted>>

Init ==
    /\ store = <<>>
    /\ admitted = 0

\* A batch harvested at time t: the store is extended, within its capacity,
\* by requests that are numbered consecutively and carry that time.
Admit(t) ==
    /\ IsPrefix(store, store')
    /\ Len(store') <= Capacity
    /\ \A k \in Len(store) + 1 .. Len(store') :
          /\ store'[k].time = t
          /\ store'[k].counter = admitted + k - Len(store) - 1
          /\ store'[k].timers \in Timers
    /\ admitted' = admitted + Len(store') - Len(store)

\* Expiration with cut `from` removes every request that is older than it,
\* and nothing else.
Expire(from) ==
    /\ store' = SelectSeq(store, LAMBDA r : r.time >= from)
    /\ UNCHANGED admitted

DeleteAll ==
    /\ store' = <<>>
    /\ UNCHANGED admitted

Next ==
    \/ \E t \in Times : Admit(t)
    \/ \E from \in Times : Expire(from)
    \/ DeleteAll

Spec == Init /\ [][Next]_vars
=============================================================================
