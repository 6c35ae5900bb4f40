------------------------------ MODULE MCTables ------------------------------
(***************************************************************************)
(* Model-checking instance of Tables: two table names, two reports, two    *)
(* sessions and one background thread.                                     *)
(***************************************************************************)
EXTENDS Tables

MCKind == [i \in Ids |-> IF i = "pages" THEN "base" ELSE "tag"]

\* Records with everything; a round with less takes and walks less of the same.
MCContents == {<<TRUE, TRUE, TRUE>>}

\* Neither the names nor the sessions are told apart, and no liveness is checked.
MCSymmetry == Permutations(Names) \cup Permutations(Sessions)

=============================================================================
