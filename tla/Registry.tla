------------------------------ MODULE Registry ------------------------------
(***************************************************************************)
(* The registry of reports and of the SQL tables that show them            *)
(* (ha_pinba.cc).  A report is created by the first statement that asks a  *)
(* table for its size, is shared by every table whose comment describes    *)
(* the same report, and is destroyed with the last of these tables.        *)
(*                                                                         *)
(* Every action is one critical section of share_mutex; module Tables runs *)
(* them between the locks that the operations of the handler take.  The    *)
(* server's catalogue of tables and its metadata locks are external: a     *)
(* table is renamed or dropped when no handler has it open.                *)
(***************************************************************************)
EXTENDS Integers, FiniteSets

CONSTANTS
    Names,   \* table names
    Ids,     \* report ids: the type, the tags and the conditions of a report
    NoId

ASSUME RegistryAssumption == IsFiniteSet(Names) /\ NoId \notin Ids

VARIABLES
    catalog,            \* the server's tables: the report id each comment gives
    use_count,          \* pinba_open_tables: handlers per open table
    tables_to_reports,  \* D->tables_to_reports
    listed,             \* the keys of D->reports_to_tables
    tables,             \* the table names of each entry
    std,                \* the entries whose std is not null
    live,               \* D->base_reports, D->tag_reports, D->rtag_reports
    use_cnt             \* std.use_cnt of each report

registryVars == <<catalog, use_count, tables_to_reports, listed, tables, std, live, use_cnt>>

RegistryTypeOK ==
    /\ catalog \in [Names -> Ids \cup {NoId}]
    /\ use_count \in [Names -> Nat]
    /\ tables_to_reports \in [Names -> Ids \cup {NoId}]
    /\ listed \subseteq Ids
    /\ tables \in [Ids -> SUBSET Names]
    /\ std \subseteq Ids
    /\ live \subseteq Ids
    /\ use_cnt \in [Ids -> Int]

RegistryInit ==
    /\ catalog = [n \in Names |-> NoId]
    /\ use_count = [n \in Names |-> 0]
    /\ tables_to_reports = [n \in Names |-> NoId]
    /\ listed = {}
    /\ tables = [i \in Ids |-> {}]
    /\ std = {}
    /\ live = {}
    /\ use_cnt = [i \in Ids |-> 0]

\* CREATE TABLE only checks the comment: the registry learns of the table when
\* it is opened.
CreateTable(n, i) ==
    /\ catalog[n] = NoId
    /\ catalog' = [catalog EXCEPT ![n] = i]
    /\ UNCHANGED <<use_count, tables_to_reports, listed, tables, std, live, use_cnt>>

GetShare(n) ==
    /\ catalog[n] # NoId
    /\ use_count' = [use_count EXCEPT ![n] = @ + 1]
    /\ UNCHANGED <<catalog, tables_to_reports, listed, tables, std, live, use_cnt>>

FreeShare(n) ==
    /\ use_count[n] > 0
    /\ use_count' = [use_count EXCEPT ![n] = @ - 1]
    /\ UNCHANGED <<catalog, tables_to_reports, listed, tables, std, live, use_cnt>>

\* Mutant of IsNewUser: every handler counts, not every table.
IsNewUserAlways(n, i) == i \in std

\* "Count SQL tables sharing a report, not cached handler instances."
IsNewUser(n, i) == i \in std /\ n \notin tables[i]

\* The second half of open: the table joins the entry of its report.
OpenTable(n) ==
    LET i == catalog[n]
    IN  /\ use_count[n] > 0
        /\ listed' = listed \cup {i}
        /\ tables' = [tables EXCEPT ![i] = @ \cup {n}]
        /\ use_cnt' = [use_cnt EXCEPT ![i] = IF IsNewUser(n, i) THEN @ + 1 ELSE @]
        /\ tables_to_reports' =
              [tables_to_reports EXCEPT ![n] = IF @ = NoId THEN i ELSE @]
        /\ UNCHANGED <<catalog, use_count, std, live>>

\* pinba_regenerate_*: a new report joins its registry and then its entry.
CreateReport(i) ==
    /\ i \notin live
    /\ i \in listed
    /\ live' = live \cup {i}
    /\ std' = std \cup {i}
    /\ use_cnt' = [use_cnt EXCEPT ![i] = IF i \in std THEN 0 ELSE Cardinality(tables[i])]
    /\ UNCHANGED <<catalog, use_count, tables_to_reports, listed, tables>>

Moved(n, m, names) == IF n \in names THEN (names \ {n}) \cup {m} ELSE names

\* rename_table, and the server's catalogue with it.
RenameTable(n, m) ==
    LET i == tables_to_reports[n]
    IN  /\ catalog[n] # NoId /\ catalog[m] = NoId
        /\ use_count[n] = 0
        /\ catalog' = [catalog EXCEPT ![n] = NoId, ![m] = catalog[n]]
        /\ i # NoId => tables_to_reports[m] = NoId
        /\ tables_to_reports' = IF i = NoId THEN tables_to_reports
                                ELSE [tables_to_reports EXCEPT ![n] = NoId, ![m] = i]
        /\ tables' = [j \in Ids |-> IF j = i THEN Moved(n, m, tables[j]) ELSE tables[j]]
        /\ UNCHANGED <<use_count, listed, std, live, use_cnt>>

\* pinba_table_to_report_dtor: the table leaves its entry; the last one takes
\* the entry and, when it exists, the report with it.
DropTable(n) ==
    LET i    == tables_to_reports[n]
        left == tables[i] \ {n}
        gone == IF i \in std THEN use_cnt[i] = 1 ELSE left = {}
    IN  /\ catalog[n] # NoId
        /\ use_count[n] = 0
        /\ catalog' = [catalog EXCEPT ![n] = NoId]
        /\ tables_to_reports' = [tables_to_reports EXCEPT ![n] = NoId]
        /\ IF i \in listed
           THEN /\ tables' = [tables EXCEPT ![i] = IF gone THEN {} ELSE left]
                /\ use_cnt' = [use_cnt EXCEPT ![i] = IF i \in std THEN @ - 1 ELSE @]
                /\ listed' = IF gone THEN listed \ {i} ELSE listed
                /\ std' = IF gone THEN std \ {i} ELSE std
                /\ live' = IF gone /\ i \in std THEN live \ {i} ELSE live
           ELSE UNCHANGED <<tables, use_cnt, listed, std, live>>
        /\ UNCHANGED use_count

RegistryNext ==
    \/ \E n \in Names : GetShare(n) \/ FreeShare(n) \/ OpenTable(n) \/ DropTable(n)
    \/ \E n \in Names : \E i \in Ids : CreateTable(n, i)
    \/ \E n, m \in Names : RenameTable(n, m)
    \/ \E i \in Ids : CreateReport(i)

RegistrySpec == RegistryInit /\ [][RegistryNext]_registryVars

\* The two maps and the counters tell the same story in every interleaving: a
\* report exists exactly when its entry points to it, its use count is the
\* number of tables registered for it, an entry exists exactly when it has
\* tables, and a table is registered for the report its comment describes.
\* Hence a report outlives no table and dies with none left
\* (pinba_report_tables, pinba_std_report.use_cnt).
RegistryExact ==
    /\ \A n \in Names : tables_to_reports[n] \in {NoId, catalog[n]}
    /\ tables = [i \in Ids |-> {n \in Names : tables_to_reports[n] = i}]
    /\ listed = {i \in Ids : tables[i] # {}}
    /\ std = live /\ live \subseteq listed
    /\ \A i \in live : use_cnt[i] = Cardinality(tables[i])

=============================================================================
