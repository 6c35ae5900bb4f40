------------------------------ MODULE ForkJoin ------------------------------
(***************************************************************************)
(* What the thread pool promises to a thread that uses it with a barrier:  *)
(* after th_pool_barrier_start it submits a number of jobs, each of them   *)
(* is executed exactly once, and th_pool_barrier_wait returns only when    *)
(* all of them have been.                                                  *)
(***************************************************************************)
EXTENDS Naturals

CONSTANTS
    Dispatchers,  \* threads that use the pool
    MaxJobs       \* jobs per round

VARIABLES
    forked,       \* dispatcher -> is it between start and the end of wait?
    size,         \* dispatcher -> jobs of its round
    runs          \* dispatcher -> job -> how often the job has been executed

vars == <<forked, size, runs>>

NoRuns == [j \in 1 .. MaxJobs |-> 0]

Init ==
    /\ forked = [d \in Dispatchers |-> FALSE]
    /\ size = [d \in Dispatchers |-> 0]
    /\ runs = [d \in Dispatchers |-> NoRuns]

Fork(d, n) ==
    /\ ~ forked[d]
    /\ forked' = [forked EXCEPT ![d] = TRUE]
    /\ size' = [size EXCEPT ![d] = n]
    /\ runs' = [runs EXCEPT ![d] = NoRuns]

Execute(d, j) ==
    /\ forked[d]
    /\ j <= size[d] /\ runs[d][j] = 0
    /\ runs' = [runs EXCEPT ![d][j] = 1]
    /\ UNCHANGED <<forked, size>>

Join(d) ==
    /\ forked[d]
    /\ \A j \in 1 .. size[d] : runs[d][j] = 1
    /\ forked' = [forked EXCEPT ![d] = FALSE]
    /\ UNCHANGED <<size, runs>>

Next ==
    \E d \in Dispatchers :
        \/ \E n \in 0 .. MaxJobs : Fork(d, n)
        \/ \E j \in 1 .. MaxJobs : Execute(d, j)
        \/ Join(d)

Spec == Init /\ [][Next]_vars
=============================================================================
