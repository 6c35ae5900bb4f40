--------------------------- MODULE RegistryProofs ---------------------------
(***************************************************************************)
(* The registry is exact for every set of tables and of reports.           *)
(***************************************************************************)
EXTENDS Registry, FiniteSetTheorems, TLAPS

\* The inductive invariant: the types, a handler is open on a table of the server
\* only, and the property itself.
RegistryInv ==
    /\ RegistryTypeOK
    /\ \A n \in Names : use_count[n] > 0 => catalog[n] # NoId
    /\ RegistryExact

\* The tables of a report are finitely many, and adding one, taking one away or
\* putting one in the place of another changes their number by one or not at all.
LEMMA TableCounts ==
    ASSUME NEW S \in SUBSET Names
    PROVE  /\ IsFiniteSet(S)
           /\ Cardinality(S) \in Nat
           /\ (Cardinality(S) = 0) <=> (S = {})
           /\ \A n \in Names : n \notin S => Cardinality(S \cup {n}) = Cardinality(S) + 1
           /\ \A n \in S : Cardinality(S \ {n}) = Cardinality(S) - 1
<1>1. IsFiniteSet(S)
  BY RegistryAssumption, FS_Subset
<1>2. Cardinality(S) \in Nat /\ ((Cardinality(S) = 0) <=> (S = {}))
  BY <1>1, FS_CardinalityType, FS_EmptySet
<1>3. \A n \in Names : n \notin S => Cardinality(S \cup {n}) = Cardinality(S) + 1
  BY <1>1, FS_AddElement
<1>4. \A n \in S : Cardinality(S \ {n}) = Cardinality(S) - 1
  BY <1>1, FS_RemoveElement
<1> QED
  BY <1>1, <1>2, <1>3, <1>4

LEMMA MovedCount ==
    ASSUME NEW S \in SUBSET Names, NEW n \in S, NEW m \in Names, m \notin S
    PROVE  Cardinality((S \ {n}) \cup {m}) = Cardinality(S)
<1>1. Cardinality(S \ {n}) = Cardinality(S) - 1 /\ Cardinality(S) \in Nat
  BY TableCounts
<1>2. Cardinality((S \ {n}) \cup {m}) = Cardinality(S \ {n}) + 1
  BY TableCounts, S \ {n} \in SUBSET Names
<1> QED
  BY <1>1, <1>2

LEMMA RegistryInitial == RegistryInit => RegistryInv
  BY RegistryAssumption DEF RegistryInit, RegistryInv, RegistryTypeOK, RegistryExact

\* A step that leaves the entries and the reports alone.
LEMMA UntouchedKeeps ==
    ASSUME RegistryInv, RegistryTypeOK',
           UNCHANGED <<tables_to_reports, listed, tables, std, live, use_cnt>>,
           \A n \in Names : tables_to_reports[n] \in {NoId, catalog'[n]},
           \A n \in Names : use_count'[n] > 0 => catalog'[n] # NoId
    PROVE  RegistryInv'
<1>1. tables' = [j \in Ids |-> {k \in Names : tables_to_reports'[k] = j}]
  BY DEF RegistryInv, RegistryExact
<1>2. listed' = {j \in Ids : tables'[j] # {}}
  BY DEF RegistryInv, RegistryExact
<1>3. \A j \in live' : use_cnt'[j] = Cardinality(tables'[j])
  BY DEF RegistryInv, RegistryExact
<1>4. std' = live' /\ live' \subseteq listed'
  BY DEF RegistryInv, RegistryExact
<1>5. \A n \in Names : tables_to_reports'[n] \in {NoId, catalog'[n]}
  OBVIOUS
<1> QED
  BY <1>1, <1>2, <1>3, <1>4, <1>5 DEF RegistryInv, RegistryExact

\* open joins the entry of the report that the comment of the table describes.
LEMMA OpenTableKeeps ==
    ASSUME RegistryInv, NEW n \in Names, OpenTable(n)
    PROVE  RegistryInv'
<1> DEFINE i == catalog[n]
<1>1. i \in Ids /\ tables[i] \in SUBSET Names /\ tables_to_reports[n] \in {NoId, i}
  BY DEF RegistryInv, RegistryTypeOK, RegistryExact, OpenTable
<1>2. RegistryTypeOK'
  BY <1>1, RegistryAssumption DEF RegistryInv, RegistryTypeOK, OpenTable
<1>3. tables' = [j \in Ids |-> {k \in Names : tables_to_reports'[k] = j}]
  <2>1. ASSUME NEW j \in Ids
        PROVE  tables'[j] = {k \in Names : tables_to_reports'[k] = j}
    <3>1. tables[j] = {k \in Names : tables_to_reports[k] = j}
      BY DEF RegistryInv, RegistryExact
    <3>2. \A k \in Names : tables_to_reports'[k] = IF k = n THEN i ELSE tables_to_reports[k]
      BY <1>1 DEF RegistryInv, RegistryTypeOK, OpenTable
    <3>3. tables'[j] = IF j = i THEN tables[j] \cup {n} ELSE tables[j]
      BY <1>1 DEF RegistryInv, RegistryTypeOK, OpenTable
    <3>4. \A k : k \in tables'[j] <=> k \in Names /\ tables_to_reports'[k] = j
      BY <1>1, <3>1, <3>2, <3>3, RegistryAssumption
    <3> QED BY <3>4
  <2> QED BY <1>2, <2>1 DEF RegistryTypeOK
<1>4. \A k \in Names : tables_to_reports'[k] \in {NoId, catalog'[k]}
  BY <1>1 DEF RegistryInv, RegistryTypeOK, RegistryExact, OpenTable
<1>5. listed' = {j \in Ids : tables'[j] # {}}
  BY <1>1 DEF RegistryInv, RegistryTypeOK, RegistryExact, OpenTable
<1>6. ASSUME NEW j \in live
      PROVE  use_cnt'[j] = Cardinality(tables'[j])
  <2>1. use_cnt[j] = Cardinality(tables[j]) /\ j \in Ids
    BY DEF RegistryInv, RegistryTypeOK, RegistryExact
  <2>2. CASE j # i
    BY <1>1, <2>1, <2>2 DEF RegistryInv, RegistryTypeOK, OpenTable
  <2>3. CASE j = i /\ n \in tables[i]
    <3>1. tables'[j] = tables[j]
      BY <1>1, <2>3 DEF RegistryInv, RegistryTypeOK, OpenTable
    <3>2. use_cnt'[j] = use_cnt[j]
      BY <1>1, <2>3 DEF RegistryInv, RegistryTypeOK, OpenTable, IsNewUser
    <3> QED BY <2>1, <3>1, <3>2
  <2>4. CASE j = i /\ n \notin tables[i]
    <3>1. tables'[j] = tables[j] \cup {n}
      BY <1>1, <2>4 DEF RegistryInv, RegistryTypeOK, OpenTable
    <3>2. use_cnt'[j] = use_cnt[j] + 1
      BY <1>1, <2>4 DEF RegistryInv, RegistryTypeOK, RegistryExact, OpenTable, IsNewUser
    <3>3. Cardinality(tables[j] \cup {n}) = Cardinality(tables[j]) + 1
      BY <1>1, <2>4, TableCounts
    <3> QED BY <2>1, <3>1, <3>2, <3>3
  <2> QED BY <2>2, <2>3, <2>4
<1>7. std' = live' /\ live' \subseteq listed' /\ live' = live
  BY DEF RegistryInv, RegistryExact, OpenTable
<1>8. \A k \in Names : use_count'[k] > 0 => catalog'[k] # NoId
  BY DEF RegistryInv, OpenTable
<1> QED
  BY <1>2, <1>3, <1>4, <1>5, <1>6, <1>7, <1>8 DEF RegistryInv, RegistryExact

\* The first statement to ask for the report creates it for all its tables.
LEMMA CreateReportKeeps ==
    ASSUME RegistryInv, NEW i \in Ids, CreateReport(i)
    PROVE  RegistryInv'
<1>1. tables[i] \in SUBSET Names /\ i \notin std
  BY DEF RegistryInv, RegistryTypeOK, RegistryExact, CreateReport
<1>2. use_cnt' = [use_cnt EXCEPT ![i] = Cardinality(tables[i])]
  BY <1>1 DEF CreateReport
<1>3. Cardinality(tables[i]) \in Int
  BY <1>1, TableCounts
<1>4. RegistryTypeOK'
  BY <1>2, <1>3 DEF RegistryInv, RegistryTypeOK, CreateReport
<1>5. ASSUME NEW j \in live'
      PROVE  use_cnt'[j] = Cardinality(tables'[j])
  <2>1. use_cnt'[j] = IF j = i THEN Cardinality(tables[i]) ELSE use_cnt[j]
    BY <1>2, <1>4 DEF RegistryInv, RegistryTypeOK
  <2>2. tables' = tables /\ (j # i => j \in live)
    BY DEF CreateReport
  <2>3. \A k \in live : use_cnt[k] = Cardinality(tables[k])
    BY DEF RegistryInv, RegistryExact
  <2> QED BY <2>1, <2>2, <2>3
<1>6. /\ \A k \in Names : tables_to_reports'[k] \in {NoId, catalog'[k]}
      /\ listed' = {j \in Ids : tables'[j] # {}}
      /\ std' = live' /\ live' \subseteq listed'
      /\ \A k \in Names : use_count'[k] > 0 => catalog'[k] # NoId
  BY DEF RegistryInv, RegistryExact, CreateReport
<1>7. tables' = [j \in Ids |-> {k \in Names : tables_to_reports'[k] = j}]
  BY DEF RegistryInv, RegistryExact, CreateReport
<1> QED
  BY <1>4, <1>5, <1>6, <1>7 DEF RegistryInv, RegistryExact

\* rename moves the entry of the table to its new name.
LEMMA RenameTableKeeps ==
    ASSUME RegistryInv, NEW n \in Names, NEW m \in Names, RenameTable(n, m)
    PROVE  RegistryInv'
<1> DEFINE i == tables_to_reports[n]
<1>1. /\ n # m /\ tables_to_reports[m] = NoId
      /\ i \in {NoId, catalog[n]} /\ i \in Ids \cup {NoId}
      /\ \A j \in Ids : tables[j] \in SUBSET Names /\ m \notin tables[j]
      /\ i \in Ids => n \in tables[i]
  BY RegistryAssumption DEF RegistryInv, RegistryTypeOK, RegistryExact, RenameTable
<1>2. \A j \in Ids : tables'[j] = IF j = i THEN (tables[j] \ {n}) \cup {m} ELSE tables[j]
  BY <1>1 DEF RenameTable, Moved
<1>3. RegistryTypeOK'
  <2>1. tables' \in [Ids -> SUBSET Names]
    BY <1>1 DEF RenameTable, Moved
  <2> QED BY <1>1, <2>1 DEF RegistryInv, RegistryTypeOK, RenameTable
<1>4. \A k \in Names : tables_to_reports'[k] \in {NoId, catalog'[k]}
  BY <1>1 DEF RegistryInv, RegistryTypeOK, RegistryExact, RenameTable
<1>5. tables' = [j \in Ids |-> {k \in Names : tables_to_reports'[k] = j}]
  <2>1. ASSUME NEW j \in Ids
        PROVE  tables'[j] = {k \in Names : tables_to_reports'[k] = j}
    <3>1. tables[j] = {k \in Names : tables_to_reports[k] = j}
      BY DEF RegistryInv, RegistryExact
    <3>2. \A k \in Names : tables_to_reports'[k] = IF k = n THEN NoId
                                                   ELSE IF k = m THEN i ELSE tables_to_reports[k]
      BY <1>1 DEF RegistryInv, RegistryTypeOK, RenameTable
    <3>3. tables'[j] = IF j = i THEN (tables[j] \ {n}) \cup {m} ELSE tables[j]
      BY <1>2
    <3>4. \A k : k \in tables'[j] <=> k \in Names /\ tables_to_reports'[k] = j
      BY <1>1, <3>1, <3>2, <3>3, RegistryAssumption
    <3> QED BY <3>4
  <2> QED BY <1>3, <2>1 DEF RegistryTypeOK
<1>6. \A j \in Ids : tables'[j] # {} <=> tables[j] # {}
  BY <1>1, <1>2
<1>7. listed' = {j \in Ids : tables'[j] # {}}
  BY <1>6 DEF RegistryInv, RegistryExact, RenameTable
<1>8. ASSUME NEW j \in live
      PROVE  use_cnt'[j] = Cardinality(tables'[j])
  <2>1. use_cnt[j] = Cardinality(tables[j]) /\ j \in Ids /\ use_cnt' = use_cnt
    BY DEF RegistryInv, RegistryTypeOK, RegistryExact, RenameTable
  <2>2. Cardinality(tables'[j]) = Cardinality(tables[j])
    <3>1. CASE j = i
      <4>1. tables'[j] = (tables[j] \ {n}) \cup {m}
        BY <1>2, <2>1, <3>1
      <4>2. n \in tables[j] /\ m \notin tables[j] /\ tables[j] \in SUBSET Names
        BY <1>1, <2>1, <3>1
      <4> QED BY <4>1, <4>2, MovedCount
    <3>2. CASE j # i
      BY <1>2, <2>1, <3>2
    <3> QED BY <3>1, <3>2
  <2> QED BY <2>1, <2>2
<1>9. \A k \in Names : use_count'[k] > 0 => catalog'[k] # NoId
  BY <1>1 DEF RegistryInv, RegistryTypeOK, RenameTable
<1>10. std' = live' /\ live' \subseteq listed' /\ live' = live
  BY DEF RegistryInv, RegistryExact, RenameTable
<1> QED
  BY <1>3, <1>4, <1>5, <1>7, <1>8, <1>9, <1>10 DEF RegistryInv, RegistryExact

\* DROP takes the table out of its entry, and the entry and the report with it
\* exactly when no table is left.
LEMMA DropTableKeeps ==
    ASSUME RegistryInv, NEW n \in Names, DropTable(n)
    PROVE  RegistryInv'
<1> DEFINE i == tables_to_reports[n]
<1>1. CASE i = NoId
  <2>1. i \notin listed
    BY <1>1, RegistryAssumption DEF RegistryInv, RegistryTypeOK
  <2>2. UNCHANGED <<tables, use_cnt, listed, std, live, use_count>>
    BY <2>1 DEF DropTable
  <2>3. tables_to_reports' = tables_to_reports
    BY <1>1 DEF DropTable, RegistryInv, RegistryTypeOK
  <2>4. catalog' = [catalog EXCEPT ![n] = NoId] /\ use_count[n] = 0
    BY DEF DropTable
  <2>5. RegistryTypeOK'
    BY <2>2, <2>3, <2>4 DEF RegistryInv, RegistryTypeOK
  <2>6. \A k \in Names : tables_to_reports[k] \in {NoId, catalog'[k]}
    BY <1>1, <2>4 DEF RegistryInv, RegistryTypeOK, RegistryExact
  <2>7. \A k \in Names : use_count'[k] > 0 => catalog'[k] # NoId
    BY <2>2, <2>4 DEF RegistryInv, RegistryTypeOK
  <2> QED
    BY <2>2, <2>3, <2>5, <2>6, <2>7, UntouchedKeeps
<1>2. CASE i # NoId
  <2> DEFINE left == tables[i] \ {n}
  <2>1. /\ i \in Ids /\ n \in tables[i] /\ i \in listed
        /\ tables[i] \in SUBSET Names
        /\ tables[i] = {k \in Names : tables_to_reports[k] = i}
    BY <1>2 DEF RegistryInv, RegistryTypeOK, RegistryExact
  <2>2. Cardinality(left) = Cardinality(tables[i]) - 1 /\ Cardinality(left) \in Nat
    BY <2>1, TableCounts, left \in SUBSET Names
  <2>3. (Cardinality(left) = 0) <=> (left = {})
    BY <2>1, TableCounts, left \in SUBSET Names
  <2>4. i \in std => ((use_cnt[i] = 1) <=> (left = {}))
    <3>1. i \in std => use_cnt[i] = Cardinality(tables[i])
      BY DEF RegistryInv, RegistryExact
    <3>2. Cardinality(tables[i]) \in Nat
      BY <2>1, TableCounts
    <3> QED BY <2>2, <2>3, <3>1, <3>2
  <2>5. /\ tables' = [tables EXCEPT ![i] = left]
        /\ use_cnt' = [use_cnt EXCEPT ![i] = IF i \in std THEN @ - 1 ELSE @]
        /\ listed' = IF left = {} THEN listed \ {i} ELSE listed
        /\ std' = IF left = {} THEN std \ {i} ELSE std
        /\ live' = IF left = {} /\ i \in std THEN live \ {i} ELSE live
    BY <2>1, <2>4 DEF DropTable
  <2>6. /\ catalog' = [catalog EXCEPT ![n] = NoId]
        /\ tables_to_reports' = [tables_to_reports EXCEPT ![n] = NoId]
        /\ use_count[n] = 0 /\ use_count' = use_count
    BY DEF DropTable
  <2>7. RegistryTypeOK'
    BY <2>1, <2>5, <2>6 DEF RegistryInv, RegistryTypeOK
  <2>8. \A k \in Names : tables_to_reports'[k] \in {NoId, catalog'[k]}
    BY <2>6 DEF RegistryInv, RegistryTypeOK, RegistryExact
  <2>9. \A j \in Ids : tables'[j] = IF j = i THEN left ELSE tables[j]
    BY <2>1, <2>5 DEF RegistryInv, RegistryTypeOK
  <2>10. tables' = [j \in Ids |-> {k \in Names : tables_to_reports'[k] = j}]
    <3>1. ASSUME NEW j \in Ids
          PROVE  tables'[j] = {k \in Names : tables_to_reports'[k] = j}
      <4>1. tables[j] = {k \in Names : tables_to_reports[k] = j}
        BY DEF RegistryInv, RegistryExact
      <4>2. \A k \in Names : tables_to_reports'[k] = IF k = n THEN NoId
                                                     ELSE tables_to_reports[k]
        BY <2>6 DEF RegistryInv, RegistryTypeOK
      <4>3. \A k : k \in tables'[j] <=> k \in Names /\ tables_to_reports'[k] = j
        BY <2>9, <4>1, <4>2, RegistryAssumption
      <4> QED BY <4>3
    <3> QED BY <2>7, <3>1 DEF RegistryTypeOK
  <2>11. listed' = {j \in Ids : tables'[j] # {}}
    <3>1. listed = {j \in Ids : tables[j] # {}}
      BY DEF RegistryInv, RegistryExact
    <3>2. \A j : j \in listed' <=> j \in Ids /\ tables'[j] # {}
      BY <2>1, <2>5, <2>9, <3>1
    <3> QED BY <3>2
  <2>12. std' = live' /\ live' \subseteq listed' /\ live' \subseteq live
    BY <2>5 DEF RegistryInv, RegistryExact
  <2>13. ASSUME NEW j \in live'
         PROVE  use_cnt'[j] = Cardinality(tables'[j])
    <3>1. j \in live /\ j \in Ids /\ j \in std /\ use_cnt[j] = Cardinality(tables[j])
      BY <2>12 DEF RegistryInv, RegistryTypeOK, RegistryExact
    <3>2. CASE j = i
      BY <2>2, <2>5, <2>9, <3>1, <3>2 DEF RegistryInv, RegistryTypeOK
    <3>3. CASE j # i
      BY <2>5, <2>9, <3>1, <3>3 DEF RegistryInv, RegistryTypeOK
    <3> QED BY <3>2, <3>3
  <2>14. \A k \in Names : use_count'[k] > 0 => catalog'[k] # NoId
    BY <2>6 DEF RegistryInv, RegistryTypeOK
  <2> QED
    BY <2>7, <2>8, <2>10, <2>11, <2>12, <2>13, <2>14 DEF RegistryInv, RegistryExact
<1> QED
  BY <1>1, <1>2

\* The other critical sections leave the registry alone.
LEMMA ShareKeeps ==
    ASSUME RegistryInv, NEW n \in Names,
           GetShare(n) \/ FreeShare(n) \/ \E i \in Ids : CreateTable(n, i)
    PROVE  RegistryInv'
<1>1. CASE GetShare(n)
  <2>1. RegistryTypeOK'
    BY <1>1 DEF GetShare, RegistryInv, RegistryTypeOK
  <2>2. \A k \in Names : use_count'[k] > 0 => catalog'[k] # NoId
    BY <1>1 DEF GetShare, RegistryInv, RegistryTypeOK
  <2>3. \A k \in Names : tables_to_reports[k] \in {NoId, catalog'[k]}
    BY <1>1 DEF GetShare, RegistryInv, RegistryExact
  <2> QED
    BY <1>1, <2>1, <2>2, <2>3, UntouchedKeeps DEF GetShare
<1>2. CASE FreeShare(n)
  <2>1. RegistryTypeOK'
    BY <1>2 DEF FreeShare, RegistryInv, RegistryTypeOK
  <2>2. \A k \in Names : use_count'[k] > 0 => catalog'[k] # NoId
    BY <1>2 DEF FreeShare, RegistryInv, RegistryTypeOK
  <2>3. \A k \in Names : tables_to_reports[k] \in {NoId, catalog'[k]}
    BY <1>2 DEF FreeShare, RegistryInv, RegistryExact
  <2> QED
    BY <1>2, <2>1, <2>2, <2>3, UntouchedKeeps DEF FreeShare
<1>3. CASE \E i \in Ids : CreateTable(n, i)
  <2>1. PICK i \in Ids : CreateTable(n, i)
    BY <1>3
  <2>2. RegistryTypeOK'
    BY <2>1 DEF CreateTable, RegistryInv, RegistryTypeOK
  <2>3. \A k \in Names : use_count'[k] > 0 => catalog'[k] # NoId
    BY <2>1, RegistryAssumption DEF CreateTable, RegistryInv, RegistryTypeOK
  <2>4. \A k \in Names : tables_to_reports[k] \in {NoId, catalog'[k]}
    BY <2>1 DEF CreateTable, RegistryInv, RegistryTypeOK, RegistryExact
  <2> QED
    BY <2>1, <2>2, <2>3, <2>4, UntouchedKeeps DEF CreateTable
<1> QED
  BY <1>1, <1>2, <1>3

LEMMA RegistryStep == RegistryInv /\ [RegistryNext]_registryVars => RegistryInv'
<1> SUFFICES ASSUME RegistryInv, [RegistryNext]_registryVars
             PROVE  RegistryInv'
  OBVIOUS
<1>1. CASE UNCHANGED registryVars
  BY <1>1 DEF registryVars, RegistryInv, RegistryTypeOK, RegistryExact
<1>2. CASE RegistryNext
  BY <1>2, OpenTableKeeps, CreateReportKeeps, RenameTableKeeps, DropTableKeeps, ShareKeeps
  DEF RegistryNext
<1> QED
  BY <1>1, <1>2

\* However handlers open, close, create, rename and drop the tables, and whatever
\* reports they share, the maps of ha_pinba.cc and the use counts agree.
THEOREM RegistryIsExact == RegistrySpec => []RegistryExact
<1>1. RegistryInv => RegistryExact
  BY DEF RegistryInv
<1> QED
  BY RegistryInitial, RegistryStep, <1>1, PTL DEF RegistrySpec

=============================================================================
