---------------------------- MODULE MCDictionary ----------------------------
(* A small instance of Dictionary: one word is a tag name, the other too in  *)
(* one request and a tag value only in the other.                            *)
EXTENDS Dictionary, TLC

SmallRequests ==
    {[dictionary |-> <<"a">>, tags |-> <<"a">>],
     [dictionary |-> <<"b", "a">>, tags |-> <<"b">>]}

\* One condition, on a tag whose name and value both occur in requests.
SmallConditions == {<<"a", "b">>}

Interchangeable == Permutations(Workers)
=============================================================================
