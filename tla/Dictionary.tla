----------------------------- MODULE Dictionary -----------------------------
(***************************************************************************)
(* The dictionary of reference-counted words and the tag descriptors       *)
(* (pinba_dictionary.cc, tags.cc), with everyone who holds a word or a     *)
(* descriptor: the staging jobs, the raw records and their timers, the     *)
(* reports, the SQL cursors; and the two collections of the stats thread.  *)
(*                                                                         *)
(* words_lock is a read-write lock.  A job holds it shared across many     *)
(* words and gives it up to upgrade, so the dictionary may change under    *)
(* it; sections that hold it exclusively, or shared and briefly, are one   *)
(* action.  A word is a pair <<name, life>>: a name that is collected and  *)
(* interned again has another life, and a pointer to the former one        *)
(* dangles.                                                                *)
(***************************************************************************)
EXTENDS Integers, Sequences, FiniteSets, SequencesExt

CONSTANTS
    Names,          \* strings that occur in requests
    Workers,        \* staging jobs, one request per batch each
    Handlers,       \* SQL handlers, each of one table: a report or the tags
    Conditions,     \* a report's conditions on request tags: names and values in turn
    Requests,       \* [dictionary : sequence of names, tags : names of timer tags]
    TagGC,          \* settings.tag_gc_enabled
    MaxWords,       \* settings.ingest_dictionary_words_limit, 0: none
    TagNamesLimit,  \* settings.tag_names_limit, 0: none
    MaxTagId,       \* INT_MAX, the last tag id
    MaxRaw,         \* slots of the request ring
    MaxLives        \* bound: how often a name is interned anew

ASSUME DictionaryAssumption ==
    /\ TagGC \in BOOLEAN
    /\ MaxWords \in Nat /\ TagNamesLimit \in Nat /\ MaxTagId \in Nat
    /\ MaxRaw \in Nat /\ MaxLives \in Nat
    /\ Conditions \subseteq Seq(Names)
    /\ \A r \in Requests : /\ r.dictionary \in Seq(Names)
                           /\ r.tags \in Seq(Range(r.dictionary))

VARIABLES
    dictionary,  \* name -> life of its word, 0: no word
    references,  \* name -> word->references
    lives,       \* name -> words allocated for it so far
    name_index,  \* name -> id of its tag descriptor, -1: none
    next_id,     \* D->tag.next_id
    job,         \* worker -> its staging job, then its merge job
    phase,       \* the data thread: stage, copy, merge, release
    raw,         \* the raw records, oldest first
    report,      \* handler -> the words and the tag its report refers to
    parsing,     \* handler -> the conditions of its report it has yet to intern
    cursor,      \* handler -> the tag it has pinned
    stats        \* the stats thread: expire, words, tags

wordVars == <<dictionary, references, lives>>
tagVars == <<name_index, next_id>>
sqlVars == <<report, parsing, cursor>>
vars == <<wordVars, tagVars, job, phase, raw, sqlVars, stats>>

NoTag == [name |-> "", id |-> -1]
NoReport == [words |-> <<>>, tag |-> NoTag]
Parsed == [pc |-> "idle", names |-> <<>>]
Idle == [pc |-> "idle", dictionary |-> <<>>, tags |-> <<>>, words |-> <<>>,
         ids |-> <<>>, slot |-> 0]

Init ==
    /\ dictionary = [n \in Names |-> 0]
    /\ references = [n \in Names |-> 0]
    /\ lives = [n \in Names |-> 0]
    /\ name_index = [n \in Names |-> -1]
    /\ next_id = 0
    /\ job = [w \in Workers |-> Idle]
    /\ phase = "stage"
    /\ raw = <<>>
    /\ report = [h \in Handlers |-> NoReport]
    /\ parsing = [h \in Handlers |-> Parsed]
    /\ cursor = [h \in Handlers |-> NoTag]
    /\ stats = "expire"

-----------------------------------------------------------------------------
(* Locks and references.                                                   *)

\* words_lock can be taken exclusively: no job and no SQL thread holds it shared.
WriteLock ==
    /\ \A w \in Workers : job[w].pc # "read"
    /\ \A h \in Handlers : parsing[h].pc # "read"

\* collector_lock can be taken shared: the data thread does not hold it.
CollectorShared == phase \in {"stage", "release"}

\* It can be taken exclusively: nor does an SQL thread that creates a report.
CollectorFree ==
    /\ CollectorShared
    /\ \A h \in Handlers : parsing[h].pc = "idle"

\* How many pointers to a word of name n a sequence of words holds.
Count(words, n) == Cardinality({i \in DOMAIN words : words[i][1] = n})

\* pinba_words_release
Released(words) == [n \in Names |-> references[n] - Count(words, n)]

-----------------------------------------------------------------------------
(* request_to_record: a job interns the words of its request, one by one,  *)
(* then looks the descriptors of its timer tags up (or creates them).      *)

\* data_job_func begins with a request; words_lock is taken shared.
Begin(w, r) ==
    /\ phase = "stage"
    /\ job[w].pc = "idle"
    /\ job' = [job EXCEPT ![w] = [Idle EXCEPT !.pc = "read", !.dictionary = r.dictionary,
                                              !.tags = r.tags]]
    /\ UNCHANGED <<wordVars, tagVars, phase, raw, sqlVars, stats>>

Interning(w) == phase = "stage" /\ Len(job[w].words) < Len(job[w].dictionary)

NextName(w) == job[w].dictionary[Len(job[w].words) + 1]

\* The job's word list with the present word of a name added, and the job in pc.
Holding(w, n, life, pc) ==
    [job EXCEPT ![w].words = Append(@, <<n, life>>), ![w].pc = pc]

\* pinba_dictionary_intern_rdlock finds the word.
InternHit(w) ==
    LET n == NextName(w) IN
    /\ job[w].pc = "read" /\ Interning(w)
    /\ dictionary[n] # 0
    /\ references' = [references EXCEPT ![n] = @ + 1]
    /\ job' = Holding(w, n, dictionary[n], "read")
    /\ UNCHANGED <<dictionary, lives, tagVars, phase, raw, sqlVars, stats>>

\* It does not: the shared lock is given up.
InternMiss(w) ==
    /\ job[w].pc = "read" /\ Interning(w)
    /\ dictionary[NextName(w)] = 0
    /\ job' = [job EXCEPT ![w].pc = "upgrade"]
    /\ UNCHANGED <<wordVars, tagVars, phase, raw, sqlVars, stats>>

WordsAdmit == MaxWords > 0 => Cardinality({n \in Names : dictionary[n] # 0}) < MaxWords

\* The word of a name, a new one (a new life) unless there is one already.
Allocate(n) ==
    IF dictionary[n] # 0 THEN UNCHANGED <<dictionary, lives>>
    ELSE /\ lives[n] < MaxLives
         /\ lives' = [lives EXCEPT ![n] = @ + 1]
         /\ dictionary' = [dictionary EXCEPT ![n] = lives[n] + 1]

\* Mutant of InternWrite: the lock is dropped before the word is retained.
InternWriteUnretained(w) ==
    LET n == NextName(w) IN
    /\ job[w].pc = "upgrade" /\ Interning(w)
    /\ WriteLock
    /\ dictionary[n] = 0 => WordsAdmit
    /\ Allocate(n)
    /\ job' = Holding(w, n, dictionary'[n], "relock")
    /\ UNCHANGED <<references, tagVars, phase, raw, sqlVars, stats>>

\* Under the exclusive lock the word is looked up again, else allocated, and
\* retained before the lock is dropped.
InternWrite(w) ==
    LET n == NextName(w) IN
    /\ job[w].pc = "upgrade" /\ Interning(w)
    /\ WriteLock
    /\ dictionary[n] = 0 => WordsAdmit
    /\ Allocate(n)
    /\ references' = [references EXCEPT ![n] = @ + 1]
    /\ job' = Holding(w, n, dictionary'[n], "relock")
    /\ UNCHANGED <<tagVars, phase, raw, sqlVars, stats>>

\* The budget is spent, or an allocation fails.
InternReject(w) ==
    /\ job[w].pc = "upgrade" /\ Interning(w)
    /\ WriteLock
    /\ dictionary[NextName(w)] = 0
    /\ job' = [job EXCEPT ![w].pc = "reject"]
    /\ UNCHANGED <<wordVars, tagVars, phase, raw, sqlVars, stats>>

\* rdlock after an upgrade.
Relock(w) ==
    /\ job[w].pc = "relock"
    /\ job' = [job EXCEPT ![w].pc = "read"]
    /\ UNCHANGED <<wordVars, tagVars, phase, raw, sqlVars, stats>>

\* The request is refused: its words are released.
Refuse(w) ==
    /\ phase = "stage"
    /\ job[w].pc = "reject"
    /\ references' = Released(job[w].words)
    /\ job' = [job EXCEPT ![w] = Idle]
    /\ UNCHANGED <<dictionary, lives, tagVars, phase, raw, sqlVars, stats>>

\* Mutant of Preflight: collection alone asks for no preflight.
PreflightLimitOnly == TagNamesLimit > 0

\* Tags are resolved before staging if descriptors can be refused or collected,
\* and again when the timers are merged.
Preflight == TagGC \/ TagNamesLimit > 0

Resolving(w) ==
    /\ ~ Interning(w)
    /\ phase = "stage" => Preflight
    /\ Len(job[w].ids) < Len(job[w].tags)

NextTag(w) == job[w].tags[Len(job[w].ids) + 1]

\* pinba_tag_lookup_or_create_locked finds the descriptor.
TagHit(w) ==
    /\ job[w].pc = "read" /\ Resolving(w)
    /\ name_index[NextTag(w)] # -1
    /\ job' = [job EXCEPT ![w].ids = Append(@, name_index[NextTag(w)])]
    /\ UNCHANGED <<wordVars, tagVars, phase, raw, sqlVars, stats>>

TagMiss(w) ==
    /\ job[w].pc = "read" /\ Resolving(w)
    /\ name_index[NextTag(w)] = -1
    /\ job' = [job EXCEPT ![w].pc = "upgrade"]
    /\ UNCHANGED <<wordVars, tagVars, phase, raw, sqlVars, stats>>

\* Mutant of TagsAdmit: the check on the last id is off by one.
TagsAdmitLate ==
    /\ TagNamesLimit > 0 =>
         Cardinality({n \in Names : name_index[n] # -1}) < TagNamesLimit
    /\ next_id <= MaxTagId + 1

\* tag_names_limit and INT_MAX.
TagsAdmit ==
    /\ TagNamesLimit > 0 =>
         Cardinality({n \in Names : name_index[n] # -1}) < TagNamesLimit
    /\ next_id <= MaxTagId

\* Mutant of TagWrite: ids are the number of descriptors, and come again.
TagWriteReuse(w) ==
    LET n == NextTag(w)
        new == name_index[n] = -1
        id == IF new THEN Cardinality({m \in Names : name_index[m] # -1}) ELSE name_index[n] IN
    /\ job[w].pc = "upgrade" /\ Resolving(w)
    /\ WriteLock
    /\ new => TagsAdmit
    /\ name_index' = [name_index EXCEPT ![n] = id]
    /\ next_id' = IF new THEN next_id + 1 ELSE next_id
    /\ job' = [job EXCEPT ![w].pc = "relock", ![w].ids = Append(@, id)]
    /\ UNCHANGED <<wordVars, phase, raw, sqlVars, stats>>

\* The same under the exclusive lock, or a new descriptor with the next id.
TagWrite(w) ==
    LET n == NextTag(w)
        new == name_index[n] = -1
        id == IF new THEN next_id ELSE name_index[n] IN
    /\ job[w].pc = "upgrade" /\ Resolving(w)
    /\ WriteLock
    /\ new => TagsAdmit
    /\ name_index' = [name_index EXCEPT ![n] = id]
    /\ next_id' = IF new THEN next_id + 1 ELSE next_id
    /\ job' = [job EXCEPT ![w].pc = "relock", ![w].ids = Append(@, id)]
    /\ UNCHANGED <<wordVars, phase, raw, sqlVars, stats>>

\* No descriptor: preflight refuses the request, merging drops the tag (id -1).
TagReject(w) ==
    /\ job[w].pc = "upgrade" /\ Resolving(w)
    /\ WriteLock
    /\ name_index[NextTag(w)] = -1
    /\ job' = IF phase = "stage"
              THEN [job EXCEPT ![w].pc = "reject"]
              ELSE [job EXCEPT ![w].pc = "relock", ![w].ids = Append(@, -1)]
    /\ UNCHANGED <<wordVars, tagVars, phase, raw, sqlVars, stats>>

\* All resolved and words_lock dropped, the arrays of request tags cannot grow.
StagingFails(w) ==
    /\ phase = "stage"
    /\ job[w].pc = "read" /\ ~ Interning(w) /\ ~ Resolving(w)
    /\ job' = [job EXCEPT ![w].pc = "reject"]
    /\ UNCHANGED <<wordVars, tagVars, phase, raw, sqlVars, stats>>

\* All resolved: the request is staged and words_lock dropped.
Staged(w) ==
    /\ phase = "stage"
    /\ job[w].pc = "read" /\ ~ Interning(w) /\ ~ Resolving(w)
    /\ job' = [job EXCEPT ![w].pc = "staged", ![w].ids = <<>>]
    /\ UNCHANGED <<wordVars, tagVars, phase, raw, sqlVars, stats>>

-----------------------------------------------------------------------------
(* pinba_data_main                                                         *)

\* Every staging job has ended: the collector is locked for the copy jobs, or,
\* when the report job buffers cannot be prepared, the batch is given up.
LockCollector ==
    /\ phase = "stage" /\ CollectorFree
    /\ \A w \in Workers : job[w].pc \in {"idle", "staged"}
    /\ \E w \in Workers : job[w].pc = "staged"
    /\ phase' \in {"copy", "release"}
    /\ UNCHANGED <<wordVars, tagVars, job, raw, sqlVars, stats>>

\* Mutant of Copy: the references are copied, not moved.
CopyKeepsStaged(w) ==
    /\ phase = "copy"
    /\ job[w].pc = "staged"
    /\ Len(raw) < MaxRaw
    /\ raw' = Append(raw, [words |-> job[w].words, tags |-> job[w].tags, ids |-> <<>>])
    /\ job' = [job EXCEPT ![w].pc = "copied", ![w].slot = Len(raw) + 1]
    /\ UNCHANGED <<wordVars, tagVars, phase, sqlVars, stats>>

\* request_copy_job_func moves the staging references to the raw record.
Copy(w) ==
    /\ phase = "copy"
    /\ job[w].pc = "staged"
    /\ Len(raw) < MaxRaw
    /\ raw' = Append(raw, [words |-> job[w].words, tags |-> job[w].tags, ids |-> <<>>])
    /\ job' = [job EXCEPT ![w].pc = "copied", ![w].words = <<>>, ![w].slot = Len(raw) + 1]
    /\ UNCHANGED <<wordVars, tagVars, phase, sqlVars, stats>>

\* No slot is free, or an allocation fails: the references stay with the job.
CopyFails(w) ==
    /\ phase = "copy"
    /\ job[w].pc = "staged"
    /\ job' = [job EXCEPT ![w].pc = "done"]
    /\ UNCHANGED <<wordVars, tagVars, phase, raw, sqlVars, stats>>

\* merge_timers_func begins, words_lock shared, once room for the timers is
\* reserved; without room the requests are published without their timers.
BeginMerge ==
    /\ phase = "copy"
    /\ \A w \in Workers : job[w].pc # "staged"
    /\ \/ /\ phase' = "merge"
          /\ job' = [w \in Workers |-> [job[w] EXCEPT !.pc = IF @ = "copied" THEN "read" ELSE @]]
       \/ /\ phase' = "release"
          /\ UNCHANGED job
    /\ UNCHANGED <<wordVars, tagVars, raw, sqlVars, stats>>

\* _add_timers has the descriptors of every tag.
Merged(w) ==
    /\ phase = "merge"
    /\ job[w].pc = "read" /\ ~ Resolving(w)
    /\ raw' = [raw EXCEPT ![job[w].slot].ids = job[w].ids]
    /\ job' = [job EXCEPT ![w].pc = "done"]
    /\ UNCHANGED <<wordVars, tagVars, phase, sqlVars, stats>>

\* The merge jobs have ended: collector_lock is given up.
Publish ==
    /\ phase = "merge"
    /\ \A w \in Workers : job[w].pc \in {"idle", "done"}
    /\ phase' = "release"
    /\ UNCHANGED <<wordVars, tagVars, job, raw, sqlVars, stats>>

\* pinba_tmp_release_words, staging record by staging record; then the next batch.
ReleaseStaged(w) ==
    /\ phase = "release"
    /\ job[w].pc # "idle"
    /\ references' = Released(job[w].words)
    /\ job' = [job EXCEPT ![w] = Idle]
    /\ phase' = IF \A v \in Workers : job'[v].pc = "idle" THEN "stage" ELSE phase
    /\ UNCHANGED <<dictionary, lives, tagVars, raw, sqlVars, stats>>

-----------------------------------------------------------------------------
(* pinba_stats_main: expiry, then the two collections, in this order.      *)

AllWords(records) == FlattenSeq([i \in DOMAIN records |-> records[i].words])

\* The oldest n records expire; the collections run once a second only.
Expire(n) ==
    /\ stats = "expire"
    /\ CollectorFree
    /\ references' = Released(AllWords(SubSeq(raw, 1, n)))
    /\ raw' = SubSeq(raw, n + 1, Len(raw))
    /\ stats' \in {"expire", "words"}
    /\ UNCHANGED <<dictionary, lives, tagVars, job, phase, sqlVars>>

\* pinba_dictionary_collect, with words_lock alone.
CollectWords ==
    /\ stats = "words"
    /\ WriteLock
    /\ dictionary' = [n \in Names |-> IF references[n] = 0 THEN 0 ELSE dictionary[n]]
    /\ stats' = "tags"
    /\ UNCHANGED <<references, lives, tagVars, job, phase, raw, sqlVars>>

\* Mutant of TagInUse: the selectors of the reports are not looked at.
TagInUseUnselected(n) ==
    \/ dictionary[n] # 0 /\ references[n] > 0
    \/ \E h \in Handlers : cursor[h].id = name_index[n]

\* A descriptor is kept for a referenced word of its name, a selector or a cursor.
TagInUse(n) ==
    \/ dictionary[n] # 0 /\ references[n] > 0
    \/ \E h \in Handlers : report[h].tag.id = name_index[n] \/ cursor[h].id = name_index[n]

\* pinba_collect_unused_tags
CollectTags ==
    /\ stats = "tags"
    /\ CollectorFree /\ WriteLock
    /\ name_index' = [n \in Names |-> IF TagGC /\ ~ TagInUse(n) THEN -1 ELSE name_index[n]]
    /\ stats' = "expire"
    /\ UNCHANGED <<wordVars, next_id, job, phase, raw, sqlVars>>

\* Its list of selectors cannot be allocated: another time.
CollectTagsDeferred ==
    /\ stats = "tags"
    /\ TagGC /\ CollectorFree
    /\ stats' = "expire"
    /\ UNCHANGED <<wordVars, tagVars, job, phase, raw, sqlVars>>

-----------------------------------------------------------------------------
(* SQL threads.                                                            *)

\* A handler whose table has no report yet creates it, collector_lock shared.
MayCreate(h) ==
    /\ CollectorShared
    /\ report[h] = NoReport /\ parsing[h] = Parsed /\ cursor[h] = NoTag

\* pinba_regenerate_rtag_info: the report owns the word it selects.
CreateRtagReport(h, n) ==
    /\ MayCreate(h)
    /\ dictionary[n] # 0
    /\ references' = [references EXCEPT ![n] = @ + 1]
    /\ report' = [report EXCEPT ![h].words = <<<<n, dictionary[n]>>>>]
    /\ UNCHANGED <<dictionary, lives, tagVars, job, phase, raw, parsing, cursor, stats>>

\* pinba_regenerate_tag_info: the report copies the id of the descriptor.
CreateTagReport(h, n) ==
    /\ MayCreate(h)
    /\ name_index[n] # -1
    /\ report' = [report EXCEPT ![h].tag = [name |-> n, id |-> name_index[n]]]
    /\ UNCHANGED <<wordVars, tagVars, job, phase, raw, parsing, cursor, stats>>

\* pinba_parse_conditions begins: words_lock is taken shared.
BeginConditions(h, names) ==
    /\ MayCreate(h)
    /\ parsing' = [parsing EXCEPT ![h] = [pc |-> "read", names |-> names]]
    /\ UNCHANGED <<wordVars, tagVars, job, phase, raw, report, cursor, stats>>

\* The handler in pc, with one name less to intern.
NextCondition(h, pc) ==
    parsing' = [parsing EXCEPT ![h] = [pc |-> pc, names |-> Tail(@.names)]]

\* The word of the next name or value is found and retained.
ConditionHit(h) ==
    /\ parsing[h].pc = "read" /\ parsing[h].names # <<>>
    /\ LET n == Head(parsing[h].names) IN
       /\ dictionary[n] # 0
       /\ references' = [references EXCEPT ![n] = @ + 1]
       /\ report' = [report EXCEPT ![h].words = Append(@, <<n, dictionary[n]>>)]
    /\ NextCondition(h, "read")
    /\ UNCHANGED <<dictionary, lives, tagVars, job, phase, raw, cursor, stats>>

\* It is not: words_lock is given up, collector_lock is not.
ConditionMiss(h) ==
    /\ parsing[h].pc = "read" /\ parsing[h].names # <<>>
    /\ dictionary[Head(parsing[h].names)] = 0
    /\ parsing' = [parsing EXCEPT ![h].pc = "upgrade"]
    /\ UNCHANGED <<wordVars, tagVars, job, phase, raw, report, cursor, stats>>

\* The word is made, outside the budget, and retained under the exclusive lock.
ConditionWrite(h) ==
    /\ parsing[h].pc = "upgrade" /\ WriteLock
    /\ LET n == Head(parsing[h].names) IN
       /\ Allocate(n)
       /\ references' = [references EXCEPT ![n] = @ + 1]
       /\ report' = [report EXCEPT ![h].words = Append(@, <<n, dictionary'[n]>>)]
    /\ NextCondition(h, "relock")
    /\ UNCHANGED <<tagVars, job, phase, raw, cursor, stats>>

\* It cannot be allocated: the condition keeps a null pointer and parsing goes on.
ConditionUnmade(h) ==
    /\ parsing[h].pc = "upgrade" /\ WriteLock
    /\ dictionary[Head(parsing[h].names)] = 0
    /\ NextCondition(h, "relock")
    /\ UNCHANGED <<wordVars, tagVars, job, phase, raw, report, cursor, stats>>

ConditionRelock(h) ==
    /\ parsing[h].pc = "relock"
    /\ parsing' = [parsing EXCEPT ![h].pc = "read"]
    /\ UNCHANGED <<wordVars, tagVars, job, phase, raw, report, cursor, stats>>

\* Both locks are dropped.
EndConditions(h) ==
    /\ parsing[h].pc = "read" /\ parsing[h].names = <<>>
    /\ parsing' = [parsing EXCEPT ![h] = Parsed]
    /\ UNCHANGED <<wordVars, tagVars, job, phase, raw, report, cursor, stats>>

\* The report's destructor, which takes no collector_lock.
DropReport(h) ==
    /\ report[h] # NoReport /\ parsing[h] = Parsed
    /\ references' = Released(report[h].words)
    /\ report' = [report EXCEPT ![h] = NoReport]
    /\ UNCHANGED <<dictionary, lives, tagVars, job, phase, raw, parsing, cursor, stats>>

\* A row of the tag table is read: its descriptor is pinned, the former released.
ReadTag(h, n) ==
    /\ CollectorShared /\ report[h] = NoReport /\ parsing[h] = Parsed
    /\ TagGC /\ name_index[n] # -1
    /\ cursor' = [cursor EXCEPT ![h] = [name |-> n, id |-> name_index[n]]]
    /\ UNCHANGED <<wordVars, tagVars, job, phase, raw, report, parsing, stats>>

\* release_tag_cursor
ReleaseCursor(h) ==
    /\ cursor[h] # NoTag
    /\ cursor' = [cursor EXCEPT ![h] = NoTag]
    /\ UNCHANGED <<wordVars, tagVars, job, phase, raw, report, parsing, stats>>

\* delete_all_rows
DeleteAllRows ==
    /\ CollectorFree
    /\ raw # <<>>
    /\ references' = Released(AllWords(raw))
    /\ raw' = <<>>
    /\ UNCHANGED <<dictionary, lives, tagVars, job, phase, sqlVars, stats>>

-----------------------------------------------------------------------------
Stage(w) ==
    \/ \E r \in Requests : Begin(w, r)
    \/ InternHit(w) \/ InternMiss(w) \/ InternWrite(w) \/ InternReject(w)
    \/ TagHit(w) \/ TagMiss(w) \/ TagWrite(w) \/ TagReject(w)
    \/ Relock(w) \/ Refuse(w) \/ StagingFails(w) \/ Staged(w)

DataThread ==
    \/ LockCollector \/ BeginMerge \/ Publish
    \/ \E w \in Workers : Copy(w) \/ CopyFails(w) \/ Merged(w) \/ ReleaseStaged(w)

StatsThread ==
    \/ \E n \in 0..Len(raw) : Expire(n)
    \/ CollectWords \/ CollectTags \/ CollectTagsDeferred

Sql ==
    \/ DeleteAllRows
    \/ \E h \in Handlers :
         \/ DropReport(h) \/ ReleaseCursor(h)
         \/ \E n \in Names : CreateRtagReport(h, n) \/ CreateTagReport(h, n) \/ ReadTag(h, n)
         \/ \E names \in Conditions : BeginConditions(h, names)
         \/ ConditionHit(h) \/ ConditionMiss(h) \/ ConditionWrite(h) \/ ConditionUnmade(h)
         \/ ConditionRelock(h) \/ EndConditions(h)

Next == (\E w \in Workers : Stage(w)) \/ DataThread \/ StatsThread \/ Sql

Spec == Init /\ [][Next]_vars

-----------------------------------------------------------------------------
Words == Names \X (1..MaxLives)
Tag == [name : Names \union {""}, id : -1..MaxTagId]

\* The state is well formed; a descriptor's id never exceeds INT_MAX, the type
\* of the ids that timers store (pinba_tag_lookup_or_create_locked).
TypeOK ==
    /\ dictionary \in [Names -> 0..MaxLives]
    /\ references \in [Names -> Nat]
    /\ lives \in [Names -> 0..MaxLives]
    /\ name_index \in [Names -> -1..MaxTagId]
    /\ next_id \in 0..(MaxTagId + 1)
    /\ phase \in {"stage", "copy", "merge", "release"}
    /\ stats \in {"expire", "words", "tags"}
    /\ raw \in Seq([words : Seq(Words), tags : Seq(Names), ids : Seq(-1..MaxTagId)])
    /\ job \in [Workers -> [pc : {"idle", "read", "upgrade", "relock", "reject", "staged",
                                  "copied", "done"},
                            dictionary : Seq(Names), tags : Seq(Names), words : Seq(Words),
                            ids : Seq(-1..MaxTagId), slot : 0..MaxRaw]]
    /\ report \in [Handlers -> [words : Seq(Words), tag : Tag]]
    /\ parsing \in [Handlers -> [pc : {"idle", "read", "upgrade", "relock"}, names : Seq(Names)]]
    /\ cursor \in [Handlers -> Tag]

\* The pointers to words that staging jobs, raw records and reports own.
Pointers ==
    UNION {{<<"job", w, i>> : i \in DOMAIN job[w].words} : w \in Workers}
    \union UNION {{<<"raw", k, i>> : i \in DOMAIN raw[k].words} : k \in DOMAIN raw}
    \union UNION {{<<"report", h, i>> : i \in DOMAIN report[h].words} : h \in Handlers}

WordOf(p) ==
    CASE p[1] = "job" -> job[p[2]].words[p[3]]
      [] p[1] = "raw" -> raw[p[2]].words[p[3]]
      [] p[1] = "report" -> report[p[2]].words[p[3]]

\* No pointer that a staging job, a raw record or a report holds dangles:
\* the word it was interned as is still the one in the dictionary, whenever the
\* stats thread collects (pinba_dictionary_collect, intern's retain under the
\* exclusive lock).
NoDangling ==
    \A p \in Pointers : dictionary[WordOf(p)[1]] = WordOf(p)[2]

\* A word's reference count is the number of pointers its owners hold: none is
\* released twice, moved without its reference or leaked by a refused request,
\* a failed copy, an expiry or a dropped report.
RefsExact ==
    \A n \in Names : references[n] = Cardinality({p \in Pointers : WordOf(p)[1] = n})

\* An id that a raw timer, a report's selector or a cursor holds still names
\* the descriptor of the tag it was taken for (pinba_collect_unused_tags keeps
\* what is in use, without looking at a single timer).
TagsResolve ==
    /\ \A i \in DOMAIN raw : \A k \in DOMAIN raw[i].ids :
         raw[i].ids[k] \in {-1, name_index[raw[i].tags[k]]}
    /\ \A h \in Handlers : \A tag \in {report[h].tag, cursor[h]} \ {NoTag} :
         name_index[tag.name] = tag.id

\* Preflight admission holds: what request_to_record admitted before staging is
\* still there when the timers are merged, so no tag of a published request is
\* dropped although descriptors are collected or limited in between.
PreflightHolds ==
    TagGC \/ TagNamesLimit > 0 => \A i \in DOMAIN raw : -1 \notin Range(raw[i].ids)

\* A tag id never changes while its descriptor lives and is never given to
\* another descriptor, even after a collection (D->tag.next_id only grows).
TagIdsFresh ==
    [][\A n \in Names :
          \/ name_index'[n] \in {-1, name_index[n]}
          \/ name_index[n] = -1 /\ name_index'[n] \in next_id..(next_id' - 1)]_vars
=============================================================================
