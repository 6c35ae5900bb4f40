------------------------------- MODULE Tables -------------------------------
(***************************************************************************)
(* The statements and the background threads that meet at the registry,    *)
(* each as the sequence of locks it takes and releases and of the critical *)
(* sections between them (ha_pinba.cc, main.cc, pool.cc, tags.cc).         *)
(*                                                                         *)
(* A thread's program is a sequence of steps: acquire a lock shared or     *)
(* exclusively, release it, or run a critical section, which may put steps *)
(* in front of the rest.  The locks prefer readers, as the daemon creates  *)
(* them, so a reader waits for a writer only, and a thread may take a lock *)
(* shared that it already holds shared.                                    *)
(***************************************************************************)
EXTENDS Registry, Sequences, SequencesExt

CONSTANTS
    Sessions,    \* threads that run SQL
    Workers,     \* the data and the stats thread
    Kind,        \* the kind of each report: "base", "tag" or "rtag"
    Conditional, \* the reports with conditions on request tags
    Contents,    \* what the records of a round carry: <<request tags, timers, new tags>>
    NoName

Kinds == {"base", "tag", "rtag"}

ASSUME TablesAssumption ==
    /\ IsFiniteSet(Sessions \cup Workers) /\ Sessions \cap Workers = {}
    /\ Kind \in [Ids -> Kinds] /\ Conditional \subseteq Ids
    /\ Contents \subseteq BOOLEAN \X BOOLEAN \X BOOLEAN
    /\ NoName \notin Names

VARIABLES
    handler,    \* the table that each session has open
    found,      \* whether its last index read found a row
    task,       \* the operation of each thread: what it runs on, what is left
    holds       \* the locks of each thread, with their modes

tablesVars == <<registryVars, handler, found, task, holds>>

TaskThreads == Sessions \cup Workers

\* `report' is the local variable of that name: a pointer, or null.
\* `jobs' counts the jobs of each kind that the round of a worker has room for.
Idling ==
    [op |-> "idle", name |-> NoName, to |-> NoName, report |-> NoId,
     jobs |-> [kind \in Kinds |-> 0], steps |-> <<>>]

TablesInit ==
    /\ RegistryInit
    /\ handler = [s \in Sessions |-> NoName]
    /\ found = [s \in Sessions |-> FALSE]
    /\ task = [t \in TaskThreads |-> Idling]
    /\ holds = [t \in TaskThreads |-> {}]

(***************************************************************************)
(* Locks.  A lock is named by a string, the lock of a report by its id.    *)
(***************************************************************************)

rd(l) == <<"rd", l>>
wr(l) == <<"wr", l>>
un(l) == <<"un", l>>
do(section) == <<"do", section>>
prepare(kind) == <<"prepare", kind>>
walk(kind) == <<"walk", kind>>

Holding(t, mode, l) == <<mode, l>> \in holds[t]

\* The threads that keep t from acquiring the lock.
Blockers(t, mode, l) ==
    {u \in TaskThreads \ {t} : Holding(u, "wr", l) \/ (mode = "wr" /\ Holding(u, "rd", l))}

Around(l, steps) == <<rd(l)>> \o steps \o <<un(l)>>

AroundExclusive(l, steps) == <<wr(l)>> \o steps \o <<un(l)>>

\* words_lock to look words up, given up and upgraded for one that is new.
Intern(new) ==
    Around("words", <<>>)
    \o IF new THEN AroundExclusive("words", <<>>) \o Around("words", <<>>) ELSE <<>>

(***************************************************************************)
(* The programs of the operations.                                         *)
(***************************************************************************)

OpenSteps ==
    AroundExclusive("share", <<do("get_share")>>) \o <<wr("share"), do("open"), un("share")>>

CloseSteps == AroundExclusive("share", <<do("free_share")>>)

RenameSteps == AroundExclusive("share", <<do("rename")>>)

\* Mutant of DropSteps: share_mutex before the registries.
DropStepsShareFirst ==
    AroundExclusive("share", AroundExclusive("base", AroundExclusive("rtag",
        AroundExclusive("tag", <<do("drop")>>))))

\* "Constructors hold their report registry before share_mutex."
DropSteps ==
    AroundExclusive("base", AroundExclusive("rtag", AroundExclusive("tag",
        AroundExclusive("share", <<do("drop")>>))))

\* info: count the rows, after creating the report when it is missing.
InfoSteps(kind) == <<rd(kind), do("info")>>

\* Mutant of CreateSteps: registration holds only its registry.
CreateStepsAlone(kind) ==
    <<un(kind), wr(kind), do("regenerate"), un(kind), rd(kind), do("count"), un(kind)>>

CreateSteps(kind) ==
    <<un(kind), rd("collector"), wr(kind), do("regenerate"), un(kind), un("collector"),
      rd(kind), do("count"), un(kind)>>

\* rnd_next: the fetchers of base reports hold no registry, the others do.
FetchSteps(kind) == IF kind = "base" THEN <<do("lookup")>> ELSE Around(kind, <<do("lookup")>>)

\* index_read: read_row_by_key holds no registry.
IndexReadSteps == <<do("lookup")>>

\* index_first: read_index_first of a report on timer tags.
IndexFirstSteps(kind) ==
    <<rd("collector"), wr(kind), do("regenerate"), un("collector"), do("first"), un(kind)>>

\* index_next: read_next_row by key.
IndexNextSteps(kind) == <<rd(kind), do("next"), un(kind)>>

\* A row of active_reports.
ActiveReportsSteps == AroundExclusive("share", <<do("active")>>)

\* delete_all_rows: the destructor of each record; one stands for all of them.
\* It walks the base reports without their registry.
DeleteSteps(records, timers) ==
    AroundExclusive("collector",
        IF records
        THEN <<walk("base")>>
             \o Around("tag", AroundExclusive("timer", IF timers THEN <<walk("tag")>> ELSE <<>>))
        ELSE <<>>)

\* pinba_prepare_report_jobs.
PrepareSteps ==
    Around("base", <<prepare("base")>>) \o Around("rtag", <<prepare("rtag")>>)
        \o Around("tag", <<prepare("tag")>>)

\* Mutant of BatchSteps: the base reports are walked without their registry.
BatchStepsUnlocked(rtags, timers, new) ==
    AroundExclusive("collector", PrepareSteps \o <<walk("base")>>)

\* A batch of the data thread, with or without request tags and timers.  The merge
\* jobs take words_lock while timer_lock is held for them, and upgrade it for a tag.
BatchSteps(rtags, timers, new) ==
    AroundExclusive("collector",
        PrepareSteps
        \o Around("base", <<walk("base")>>)
        \o (IF rtags THEN Around("rtag", <<walk("rtag")>>) ELSE <<>>)
        \o (IF timers THEN AroundExclusive("timer", Intern(new))
                           \o Around("timer", Around("tag", <<walk("tag")>>)) ELSE <<>>))

\* An expiration of the stats thread.
ExpireSteps(rtags, timers) ==
    AroundExclusive("collector",
        PrepareSteps
        \o Around("base", <<walk("base")>>)
        \o (IF rtags THEN Around("rtag", <<walk("rtag")>>) ELSE <<>>)
        \o (IF timers THEN Around("timer", Around("tag", <<walk("tag")>>))
                           \o AroundExclusive("timer", <<>>) ELSE <<>>))

\* pinba_collect_unused_tags.
CollectTagsSteps ==
    AroundExclusive("collector", Around("tag", <<>>) \o AroundExclusive("words", <<>>))

(***************************************************************************)
(* The start of an operation.  The server's metadata locks (external) keep *)
(* a table that is being dropped or renamed from every other statement.    *)
(***************************************************************************)

IsBusy(n) ==
    \/ use_count[n] > 0
    \/ \E t \in TaskThreads : n \in {task[t].name, task[t].to}

IsChanging(n) ==
    \E t \in TaskThreads : task[t].op \in {"drop", "rename"} /\ n \in {task[t].name, task[t].to}

Begin(t, op, n, m, steps) ==
    /\ task[t].op = "idle"
    /\ task' = [task EXCEPT ![t] = [Idling EXCEPT !.op = op, !.name = n, !.to = m,
                                           !.steps = steps]]
    /\ UNCHANGED <<registryVars, handler, found, holds>>

Open(s) ==
    /\ handler[s] = NoName
    /\ \E n \in Names :
          catalog[n] # NoId /\ ~IsChanging(n) /\ Begin(s, "open", n, NoName, OpenSteps)

Drop(s) ==
    \E n \in Names :
        catalog[n] # NoId /\ ~IsBusy(n) /\ Begin(s, "drop", n, NoName, DropSteps)

Rename(s) ==
    \E n, m \in Names :
        /\ catalog[n] # NoId /\ catalog[m] = NoId
        /\ ~IsBusy(n) /\ ~IsBusy(m)
        /\ Begin(s, "rename", n, m, RenameSteps)

Create(s) ==
    /\ task[s].op = "idle"
    /\ \E n \in Names : \E i \in Ids : ~IsBusy(n) /\ CreateTable(n, i)
    /\ UNCHANGED <<handler, found, task, holds>>

\* The operations on an open table.
Use(s) ==
    /\ handler[s] # NoName
    /\ LET n    == handler[s]
           kind == Kind[catalog[n]]
       IN  \/ Begin(s, "info", n, NoName, InfoSteps(kind))
           \/ Begin(s, "fetch", n, NoName, FetchSteps(kind))
           \/ kind # "rtag" /\ Begin(s, "index", n, NoName, IndexReadSteps)
           \/ kind = "tag" /\ Begin(s, "index", n, NoName, IndexFirstSteps(kind))
           \/ kind = "tag" /\ found[s] /\ Begin(s, "index", n, NoName, IndexNextSteps(kind))
           \/ Begin(s, "close", n, NoName, CloseSteps)

\* active_reports and DELETE FROM request.
UseGlobal(s) ==
    \/ Begin(s, "active", NoName, NoName, ActiveReportsSteps)
    \/ \E records \in BOOLEAN : \E c \in Contents :
          Begin(s, "delete", NoName, NoName, DeleteSteps(records, c[2]))

Work(w) ==
    \/ \E c \in Contents :
          \/ Begin(w, "batch", NoName, NoName, BatchSteps(c[1], c[2], c[3]))
          \/ Begin(w, "expire", NoName, NoName, ExpireSteps(c[1], c[2]))
    \/ Begin(w, "collect", NoName, NoName, CollectTagsSteps)

(***************************************************************************)
(* The steps of an operation.                                              *)
(***************************************************************************)

\* A step takes at most one lock, then runs the section that comes next, then gives
\* back the locks whose releases follow: an acquisition moves up to its section and
\* a release, which never waits, moves back to it.
Takes(t) == Head(task[t].steps)[1] \in {"rd", "wr"}

MayTake(t) == Takes(t) => Blockers(t, Head(task[t].steps)[1], Head(task[t].steps)[2]) = {}

Taken(t) == IF Takes(t) THEN holds[t] \cup {Head(task[t].steps)} ELSE holds[t]

\* What is left when the lock is taken.
Left(t) == IF Takes(t) THEN Tail(task[t].steps) ELSE task[t].steps

At(t, step) == Head(Left(t)) = step

Proceed(t, left, report, jobs) ==
    LET next     == CHOOSE k \in 1..(Len(left) + 1) :
                        /\ \A j \in 1..(k - 1) : left[j][1] = "un"
                        /\ k <= Len(left) => left[k][1] # "un"
        released == {left[k][2] : k \in 1..(next - 1)}
        rest     == SubSeq(left, next, Len(left))
    IN  /\ holds' = [holds EXCEPT ![t] = {lock \in Taken(t) : lock[2] \notin released}]
        /\ task' = [task EXCEPT ![t] = IF rest = <<>> THEN Idling
                                       ELSE [@ EXCEPT !.steps = rest, !.report = report, !.jobs = jobs]]

\* The section is done; `steps' come before what is left of the operation.
Continue(t, steps, report) == Proceed(t, steps \o Tail(Left(t)), report, task[t].jobs)

\* An early return that releases nothing.
Return(t) ==
    /\ holds' = [holds EXCEPT ![t] = Taken(t)]
    /\ task' = [task EXCEPT ![t] = Idling]

\* A lock with no section behind it.
Acquire(t) ==
    /\ Takes(t)
    /\ Head(Left(t))[1] \in {"rd", "wr", "un"}
    /\ Proceed(t, Left(t), task[t].report, task[t].jobs)
    /\ UNCHANGED <<registryVars, handler, found>>

Reading(i) == Around(i, <<>>)

\* The second critical section of open.
OpenSection(s, n) ==
    IF IsNewUser(n, catalog[n])
    THEN /\ Continue(s, AroundExclusive(catalog[n], <<do("enter")>>), catalog[n])
         /\ UNCHANGED <<registryVars, handler, found>>
    ELSE /\ OpenTable(n)
         /\ handler' = [handler EXCEPT ![s] = n]
         /\ Continue(s, <<>>, NoId)
         /\ UNCHANGED found

EnterSection(s, n) ==
    /\ OpenTable(n)
    /\ handler' = [handler EXCEPT ![s] = n]
    /\ Continue(s, <<>>, task[s].report)
    /\ UNCHANGED found

RenameSection(s, n, m) ==
    /\ IF tables_to_reports[n] # NoId /\ tables_to_reports[m] # NoId
       THEN UNCHANGED registryVars
       ELSE RenameTable(n, m)
    /\ Continue(s, <<>>, NoId)
    /\ UNCHANGED <<handler, found>>

\* The use count goes down under the lock of the report.
DropSection(s, n) ==
    LET i == tables_to_reports[n]
    IN  IF i \in std /\ task[s].report = NoId
        THEN /\ Continue(s, AroundExclusive(i, <<>>) \o <<do("drop")>>, i)
             /\ UNCHANGED <<registryVars, handler, found>>
        ELSE /\ DropTable(n)
             /\ Continue(s, <<>>, NoId)
             /\ UNCHANGED <<handler, found>>

\* The registry is held exclusively.  A report on tags needs its words first, and a
\* report with conditions interns theirs.
RegenerateSection(s, i) ==
    /\ IF i \in live
       THEN Continue(s, <<>>, i)
       ELSE \/ Continue(s, <<>>, NoId)
            \/ \E new \in BOOLEAN :
                  /\ new => i \in Conditional
                  /\ Continue(s, (IF Kind[i] = "base" THEN <<>> ELSE Around("words", <<>>))
                                 \o (IF i \in Conditional THEN Intern(new) ELSE <<>>)
                                 \o AroundExclusive("share", <<do("create")>>), NoId)
    /\ UNCHANGED <<registryVars, handler, found>>

\* Without an entry ("this is an internal error") the report is destroyed again, but
\* only the base reports are taken out of their registry.
CreateSection(s, i) ==
    /\ IF i \in listed
       THEN CreateReport(i) /\ Continue(s, <<>>, i)
       ELSE /\ live' = IF Kind[i] = "base" THEN live ELSE live \cup {i}
            /\ UNCHANGED <<catalog, use_count, tables_to_reports, listed, tables, std, use_cnt>>
            /\ Continue(s, <<>>, NoId)
    /\ UNCHANGED <<handler, found>>

InfoSection(s, i) ==
    /\ IF i \in live
       THEN Continue(s, Reading(i) \o <<un(Kind[i])>>, i)
       ELSE Continue(s, CreateSteps(Kind[i]), NoId)
    /\ UNCHANGED <<registryVars, handler, found>>

CountSection(s, report) ==
    /\ Continue(s, IF report = NoId THEN <<>> ELSE Reading(report), report)
    /\ UNCHANGED <<registryVars, handler, found>>

\* A lookup without the registry that meets a writer may miss the report: the map
\* is read while it changes, and what that read returns is the report or nothing.
LookupSection(s, i) ==
    /\ \E seen, row \in BOOLEAN :
          /\ row => seen
          /\ seen => i \in live
          /\ ~seen => i \notin live \/ Blockers(s, "rd", Kind[i]) # {}
          /\ Continue(s, IF seen THEN Reading(i) ELSE <<>>, IF seen THEN i ELSE NoId)
          /\ found' = [found EXCEPT ![s] = row /\ task[s].op = "index"]
    /\ UNCHANGED <<registryVars, handler>>

\* The fetch inside takes the lock of the report a second time.
FirstSection(s, report) ==
    /\ \E row \in BOOLEAN :
          /\ row => report # NoId
          /\ Continue(s, IF report = NoId THEN <<>>
                         ELSE Around(report, IF row THEN Reading(report) ELSE <<>>), report)
          /\ found' = [found EXCEPT ![s] = row]
    /\ UNCHANGED <<registryVars, handler>>

\* Mutant of NextSection: it returns early without a row, too.
NextSectionLeaks(s, i) ==
    /\ \/ Continue(s, Reading(i), i) /\ UNCHANGED found
       \/ Return(s) /\ found' = [found EXCEPT ![s] = FALSE]
    /\ UNCHANGED <<registryVars, handler>>

\* Without a report read_next_row returns, and keeps the registry.
NextSection(s, i) ==
    /\ IF i \in live
       THEN /\ Continue(s, Reading(i), i)
            /\ \E row \in BOOLEAN : found' = [found EXCEPT ![s] = row]
       ELSE Return(s) /\ UNCHANGED found
    /\ UNCHANGED <<registryVars, handler>>

ActiveSection(s) ==
    /\ \/ std = {} /\ Continue(s, <<>>, NoId)
       \/ \E i \in std : Continue(s, Reading(i), i)
    /\ UNCHANGED <<registryVars, handler, found>>

Reports(kind) == {i \in live : Kind[i] = kind}

\* Every report of the array, each under its lock.
Walk(t, kind) ==
    /\ At(t, walk(kind))
    /\ LET reports == SetToSeq(Reports(kind))
       IN  Continue(t, FlattenSeq([k \in DOMAIN reports |-> AroundExclusive(reports[k], <<>>)]),
                    NoId)
    /\ UNCHANGED <<registryVars, handler, found>>

\* The buffer holds a job for each report, or without memory the round is given up.
\* What is left of the buffers of an earlier round is not counted on.
Prepare(w, kind) ==
    /\ At(w, prepare(kind))
    /\ \/ Proceed(w, Tail(Left(w)), NoId, [task[w].jobs EXCEPT ![kind] = Cardinality(Reports(kind))])
       \/ /\ Reports(kind) # {}
          /\ Proceed(w, <<un(kind), un("collector")>>, NoId, task[w].jobs)
    /\ UNCHANGED <<registryVars, handler, found>>

\* The critical sections of a statement.
Section(s) ==
    LET at(section) == At(s, do(section))
        n           == task[s].name
    IN  \/ /\ at("get_share") /\ GetShare(n)
           /\ Continue(s, <<>>, NoId) /\ UNCHANGED <<handler, found>>
        \/ /\ at("free_share") /\ FreeShare(n)
           /\ handler' = [handler EXCEPT ![s] = NoName]
           /\ found' = [found EXCEPT ![s] = FALSE]
           /\ Continue(s, <<>>, NoId)
        \/ at("open") /\ OpenSection(s, n)
        \/ at("enter") /\ EnterSection(s, n)
        \/ at("rename") /\ RenameSection(s, n, task[s].to)
        \/ at("drop") /\ DropSection(s, n)
        \/ at("info") /\ InfoSection(s, catalog[n])
        \/ at("regenerate") /\ RegenerateSection(s, catalog[n])
        \/ at("create") /\ CreateSection(s, catalog[n])
        \/ at("count") /\ CountSection(s, task[s].report)
        \/ at("lookup") /\ LookupSection(s, catalog[n])
        \/ at("first") /\ FirstSection(s, task[s].report)
        \/ at("next") /\ NextSection(s, catalog[n])
        \/ at("active") /\ ActiveSection(s)

Step(t) ==
    /\ task[t].op # "idle" /\ MayTake(t)
    /\ \/ Acquire(t)
       \/ t \in Sessions /\ Section(t)
       \/ \E kind \in Kinds : Walk(t, kind) \/ (t \in Workers /\ Prepare(t, kind))

TablesNext ==
    \/ \E s \in Sessions :
          Create(s) \/ Open(s) \/ Rename(s) \/ Drop(s) \/ Use(s) \/ UseGlobal(s)
    \/ \E w \in Workers : Work(w)
    \/ \E t \in TaskThreads : Step(t)

TablesSpec == TablesInit /\ [][TablesNext]_tablesVars

(***************************************************************************)
(* Properties.                                                             *)
(***************************************************************************)

\* The reports a thread has in its hands: the pointer it looked up, the locks of
\* reports that it holds and those it is about to take.
InHand(t) ==
    ({task[t].report} \cup {task[t].steps[k][2] : k \in DOMAIN task[t].steps}
       \cup {lock[2] : lock \in holds[t]}) \cap Ids

\* No thread uses a report that another one has destroyed, although info keeps
\* its pointer while it holds no registry lock and the fetchers of base reports
\* and index reads never take one: an open table keeps its report alive.
\* The exception is DELETE FROM request, whose walk of base_reports_arr in
\* pinba_stats_record_dtor no lock protects from DROP TABLE.
NoFreedReport ==
    \A t \in TaskThreads : task[t].op # "delete" => InHand(t) \subseteq live

\* No cycle of waits: in every set of waiting threads, one does not wait for another
\* of the set.  The batch takes timer_lock before tag_reports_lock and DELETE
\* after it, and DROP takes all the registries before share_mutex
\* (pinba_table_to_report_dtor, pinba_stats_record_dtor).
NoCircularWait ==
    \A S \in SUBSET {t \in TaskThreads : task[t].op # "idle" /\ ~MayTake(t)} \ {{}} :
        \E t \in S :
            LET step == Head(task[t].steps)
            IN  Blockers(t, step[1], step[2]) \cap S = {}

\* A thread that has finished its operation holds no lock, on every return of the
\* handler: read_next_row would keep its registry if the report were gone.
LocksReleased == \A t \in TaskThreads : task[t].op = "idle" => holds[t] = {}

\* The job buffers that pinba_prepare_report_jobs has sized, under locks it gives
\* back, still have a job for every report when the round comes to walk the registry:
\* registration waits for collector_lock, which the round keeps.
JobsFit ==
    \A w \in Workers : \A kind \in Kinds :
        task[w].jobs[kind] < Cardinality(Reports(kind)) =>
            \/ Contains(task[w].steps, prepare(kind))
            \/ ~Contains(task[w].steps, walk(kind))

=============================================================================
