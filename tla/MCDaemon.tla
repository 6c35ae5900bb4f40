------------------------------ MODULE MCDaemon ------------------------------
(***************************************************************************)
(* Daemon, DropCounter and RequestValidation for TLC.  The drop counter    *)
(* shares no variable and no step with the rest of the daemon, so the two  *)
(* are explored one after the other and not in their product.              *)
(***************************************************************************)
EXTENDS Daemon, DropCounter

CONSTANTS c1, c2

MCInit == Init /\ DropInit

MCNext ==
    \/ DropInit /\ Next /\ UNCHANGED dropVars
    \/ Init /\ DropNext /\ UNCHANGED vars

MCSpec == MCInit /\ [][MCNext]_<<vars, dropVars>> /\ Fairness

Constant(n, x) == [i \in 1..n |-> x]

\* Arrays of every combination of lengths and tag counts.
Shapes ==
    [timer_hit_count : {Constant(h, 1) : h \in 0..3}, n_timer_value : 0..2,
     timer_tag_count : UNION {[1..n -> 0..3] : n \in 0..2},
     timer_tag_name : {Constant(n, 0) : n \in 0..3}, timer_tag_value : {Constant(n, 0) : n \in 0..3},
     tag_name : {<<>>, <<0>>}, tag_value : {<<>>, <<0>>}, n_dictionary : {1}]

\* Two timers with every hit count, tag count, index and size of the dictionary.
Contents ==
    [timer_hit_count : [1..2 -> {0, 2}], n_timer_value : {2}, timer_tag_count : [1..2 -> 0..2],
     timer_tag_name : UNION {[1..n -> 0..1] : n \in 0..2},
     timer_tag_value : UNION {[1..n -> 0..1] : n \in 0..2},
     tag_name : {<<0>>, <<1>>}, tag_value : {<<0>>, <<1>>}, n_dictionary : 0..2]

\* Request tags of every number, with a timer that is complete or is not.
RequestTags ==
    [timer_hit_count : {<<1>>}, n_timer_value : {1}, timer_tag_count : {<<1>>, <<2>>},
     timer_tag_name : {<<0>>}, timer_tag_value : {<<0>>},
     tag_name : UNION {[1..n -> 0..1] : n \in 0..3}, tag_value : UNION {[1..n -> 0..1] : n \in 0..3},
     n_dictionary : 0..2]

MCRequests == Shapes \cup Contents \cup RequestTags

\* One timer that states how many tags it has, and one tag.
OneTag(count) ==
    [timer_hit_count |-> <<1>>, n_timer_value |-> 1, timer_tag_count |-> <<count>>,
     timer_tag_name |-> <<0>>, timer_tag_value |-> <<0>>,
     tag_name |-> <<>>, tag_value |-> <<>>, n_dictionary |-> 1]

Valid   == OneTag(1)
Invalid == OneTag(2)

\* A message of two valid requests and one that nests a valid in an invalid one.
MCTrees == {<<Valid, Valid>>, <<Invalid, Valid>>}

=============================================================================
