------------------------------- MODULE Reports -------------------------------
(***************************************************************************)
(* One report beside the raw request ring: created by the first SQL use of *)
(* its table, fed by the data thread's batches, decremented by expiration  *)
(* and by DELETE FROM request, destroyed by DROP TABLE.  Reports do not    *)
(* share state (a job of update_reports_func touches one report, under its *)
(* own lock), so one report of an arbitrary type stands for all of them.   *)
(*                                                                         *)
(* Batch, expiration and deletion hold collector_lock exclusively and      *)
(* creation holds it shared, so each is one action.                        *)
(***************************************************************************)
EXTENDS ReportUpdates, FiniteSets, FiniteSetsExt

CONSTANTS
    Tables,           \* table definitions: [type, cond]
    TagNames,         \* the two tag names that tag and rtag tables select
    Payloads,         \* requests: every field but time and counter
    RequestPoolSize,  \* pinba_request_pool_size
    MaxBatch,         \* bound: requests of one batch
    MaxCounter,       \* bound: requests ever admitted
    MaxTime           \* bound: batches

ASSUME ReportsAssumption ==
    /\ RequestPoolSize \in Nat \ {0}
    /\ MaxBatch \in Nat \ {0}
    /\ MaxCounter \in Nat /\ MaxTime \in Nat

VARIABLES
    table,                 \* the table the report belongs to
    report,                \* its report, or NoReport
    request_pool,          \* slot -> record
    in, out,               \* D->request_pool.in, .out
    request_pool_counter,  \* D->request_pool_counter
    launch,                \* the data thread's launch time
    since,                 \* request_pool_counter when the report was created
    cleared                \* DELETE FROM request ran since the creation

vars == <<table, report, request_pool, in, out, request_pool_counter, launch,
          since, cleared>>

ringVars == <<request_pool, in, out, request_pool_counter, launch>>

NoReport == [absent |-> TRUE]
NoRecord == [time |-> 0, counter |-> 0]

RtagTypes == {"rtag_info", "rtag_report", "rtag2_info", "rtag2_report",
              "rtagN_info", "rtagN_report"}
TagTypes == {"tag_info", "tag_report", "tag_report2", "tag2_info",
              "tag2_report", "tag2_report2", "tagN_info", "tagN_report",
              "tagN_report2"}

OneTag == {"rtag_info", "rtag_report", "tag_info", "tag_report", "tag_report2"}

\* The tags of the table's comment, resolved when the report is created.
SelectedTags(type) ==
    IF type \in OneTag THEN SubSeq(TagNames, 1, 1)
    ELSE IF type \in RtagTypes \union TagTypes THEN TagNames
    ELSE <<>>

\* report->std.add_func and delete_func, as the pinba_regenerate_* functions
\* set them.
BaseAddFunc(type, r, d) ==
    CASE type = "report_info" -> pinba_update_report_info_add(r, d)
      [] type = "report1" -> pinba_update_report1_add(r, d)
      [] type = "report2" -> pinba_update_report2_add(r, d)
      [] type = "report3" -> pinba_update_report3_add(r, d)
      [] type = "report4" -> pinba_update_report4_add(r, d)
      [] type = "report5" -> pinba_update_report5_add(r, d)
      [] type = "report6" -> pinba_update_report6_add(r, d)
      [] type = "report7" -> pinba_update_report7_add(r, d)
      [] type = "report8" -> pinba_update_report8_add(r, d)
      [] type = "report9" -> pinba_update_report9_add(r, d)
      [] type = "report10" -> pinba_update_report10_add(r, d)
      [] type = "report11" -> pinba_update_report11_add(r, d)
      [] type = "report12" -> pinba_update_report12_add(r, d)
      [] type = "report13" -> pinba_update_report13_add(r, d)
      [] type = "report14" -> pinba_update_report14_add(r, d)
      [] type = "report15" -> pinba_update_report15_add(r, d)
      [] type = "report16" -> pinba_update_report16_add(r, d)
      [] type = "report17" -> pinba_update_report17_add(r, d)
      [] type = "report18" -> pinba_update_report18_add(r, d)

RtagAddFunc(type, r, d) ==
    CASE type = "rtag_info" -> pinba_update_rtag_info_add(r, d)
      [] type = "rtag_report" -> pinba_update_rtag_report_add(r, d)
      [] type = "rtag2_info" -> pinba_update_rtag2_info_add(r, d)
      [] type = "rtag2_report" -> pinba_update_rtag2_report_add(r, d)
      [] type = "rtagN_info" -> pinba_update_rtagN_info_add(r, d)
      [] type = "rtagN_report" -> pinba_update_rtagN_report_add(r, d)

TagAddFunc(type, r, d, slot) ==
    CASE type = "tag_info" -> pinba_update_tag_info_add(r, d, slot)
      [] type = "tag_report" -> pinba_update_tag_report_add(r, d, slot)
      [] type = "tag_report2" -> pinba_update_tag_report2_add(r, d, slot)
      [] type = "tag2_info" -> pinba_update_tag2_info_add(r, d, slot)
      [] type = "tag2_report" -> pinba_update_tag2_report_add(r, d, slot)
      [] type = "tag2_report2" -> pinba_update_tag2_report2_add(r, d, slot)
      [] type = "tagN_info" -> pinba_update_tagN_info_add(r, d, slot)
      [] type = "tagN_report" -> pinba_update_tagN_report_add(r, d, slot)
      [] type = "tagN_report2" -> pinba_update_tagN_report2_add(r, d, slot)

add_func(type, r, d, slot) ==
    IF type \in TagTypes THEN TagAddFunc(type, r, d, slot)
    ELSE IF type \in RtagTypes THEN RtagAddFunc(type, r, d)
    ELSE BaseAddFunc(type, r, d)

BaseDeleteFunc(type, r, d) ==
    CASE type = "report_info" -> pinba_update_report_info_delete(r, d)
      [] type = "report1" -> pinba_update_report1_delete(r, d)
      [] type = "report2" -> pinba_update_report2_delete(r, d)
      [] type = "report3" -> pinba_update_report3_delete(r, d)
      [] type = "report4" -> pinba_update_report4_delete(r, d)
      [] type = "report5" -> pinba_update_report5_delete(r, d)
      [] type = "report6" -> pinba_update_report6_delete(r, d)
      [] type = "report7" -> pinba_update_report7_delete(r, d)
      [] type = "report8" -> pinba_update_report8_delete(r, d)
      [] type = "report9" -> pinba_update_report9_delete(r, d)
      [] type = "report10" -> pinba_update_report10_delete(r, d)
      [] type = "report11" -> pinba_update_report11_delete(r, d)
      [] type = "report12" -> pinba_update_report12_delete(r, d)
      [] type = "report13" -> pinba_update_report13_delete(r, d)
      [] type = "report14" -> pinba_update_report14_delete(r, d)
      [] type = "report15" -> pinba_update_report15_delete(r, d)
      [] type = "report16" -> pinba_update_report16_delete(r, d)
      [] type = "report17" -> pinba_update_report17_delete(r, d)
      [] type = "report18" -> pinba_update_report18_delete(r, d)

RtagDeleteFunc(type, r, d) ==
    CASE type = "rtag_info" -> pinba_update_rtag_info_delete(r, d)
      [] type = "rtag_report" -> pinba_update_rtag_report_delete(r, d)
      [] type = "rtag2_info" -> pinba_update_rtag2_info_delete(r, d)
      [] type = "rtag2_report" -> pinba_update_rtag2_report_delete(r, d)
      [] type = "rtagN_info" -> pinba_update_rtagN_info_delete(r, d)
      [] type = "rtagN_report" -> pinba_update_rtagN_report_delete(r, d)

TagDeleteFunc(type, r, d, slot) ==
    CASE type = "tag_info" -> pinba_update_tag_info_delete(r, d, slot)
      [] type = "tag_report" -> pinba_update_tag_report_delete(r, d, slot)
      [] type = "tag_report2" -> pinba_update_tag_report2_delete(r, d, slot)
      [] type = "tag2_info" -> pinba_update_tag2_info_delete(r, d, slot)
      [] type = "tag2_report" -> pinba_update_tag2_report_delete(r, d, slot)
      [] type = "tag2_report2" -> pinba_update_tag2_report2_delete(r, d, slot)
      [] type = "tagN_info" -> pinba_update_tagN_info_delete(r, d, slot)
      [] type = "tagN_report" -> pinba_update_tagN_report_delete(r, d, slot)
      [] type = "tagN_report2" -> pinba_update_tagN_report2_delete(r, d, slot)

delete_func(type, r, d, slot) ==
    IF type \in TagTypes THEN TagDeleteFunc(type, r, d, slot)
    ELSE IF type \in RtagTypes THEN RtagDeleteFunc(type, r, d)
    ELSE BaseDeleteFunc(type, r, d)

-----------------------------------------------------------------------------
(* The ring.                                                               *)

\* Mutant of Slot: the wrap-around test is off by one.
SlotLate(i) == IF i > RequestPoolSize THEN i - RequestPoolSize ELSE i

Slot(i) == IF i >= RequestPoolSize THEN i - RequestPoolSize ELSE i

NumRecords == IF in >= out THEN in - out ELSE RequestPoolSize - (out - in)

\* The slots of the n records that start at a slot, in ring order.
Span(first, n) == [k \in 1 .. n |-> Slot(first + k - 1)]

LiveSlots == Range(Span(out, NumRecords))

\* update_reports_func: one job, n records from a slot on.  The first job that
\* adds to a report sets its start.
Started(r, pool, slot) ==
    IF r.start = 0
    THEN [r EXCEPT !.start = pool[slot].time,
                   !.request_pool_start_id = pool[slot].counter]
    ELSE r

update_reports_func(r, pool, first, n, func(_, _, _, _)) ==
    FoldLeft(LAMBDA acc, slot :
               IF Matches(acc.cond, pool[slot])
               THEN func(table.type, acc, pool[slot], slot) ELSE acc,
             r, Span(first, n))

HasRtags(pool, first, n) == \E k \in 1 .. n : DOMAIN pool[Span(first, n)[k]].tags # {}
HasTimers(pool, first, n) == \E k \in 1 .. n : pool[Span(first, n)[k]].timers # <<>>

\* Which reports a batch or an expiration dispatches jobs for: all base
\* reports, request-tag reports if a request has tags, timer-tag reports if a
\* request has timers.
Concerned(pool, first, n) ==
    \/ table.type \notin RtagTypes \union TagTypes
    \/ table.type \in RtagTypes /\ HasRtags(pool, first, n)
    \/ table.type \in TagTypes /\ HasTimers(pool, first, n)

Init ==
    /\ table \in Tables
    /\ report = NoReport
    /\ request_pool = [s \in 0 .. RequestPoolSize - 1 |-> NoRecord]
    /\ in = 0 /\ out = 0
    /\ request_pool_counter = 0
    /\ launch = 1
    /\ since = 0 /\ cleared = FALSE

-----------------------------------------------------------------------------
(* The operations.                                                         *)

\* pinba_regenerate_*: the report starts empty, without a start time.  The tags
\* it selects may be known from requests that have long expired.
CreateReport ==
    /\ report = NoReport
    /\ report' = NewReport(SelectedTags(table.type), table.cond)
    /\ since' = request_pool_counter
    /\ cleared' = FALSE
    /\ UNCHANGED <<table, ringVars>>

\* pinba_table_to_report_dtor when the last table of the report is dropped.
DropReport ==
    /\ report # NoReport
    /\ report' = NoReport
    /\ since' = 0 /\ cleared' = FALSE
    /\ UNCHANGED <<table, ringVars>>

\* The batches, each cut to the requests that find a slot; the others are thrown
\* away.
Admitted ==
    LET free == RequestPoolSize - NumRecords - 1
    IN  UNION {[1 .. Min({n, free}) -> Payloads] : n \in 1 .. MaxBatch}

\* The ring after request_copy_job_func for the batch.  Timers are stored only
\* if timer_pool_add reserved room for them.
Copied(batch, reserved) ==
    [s \in DOMAIN request_pool |->
       LET k == IF s >= in THEN s - in + 1 ELSE s + RequestPoolSize - in + 1
       IN  IF k \in DOMAIN batch
           THEN [batch[k] EXCEPT !.timers = IF reserved THEN @ ELSE <<>>]
                @@ [time |-> launch, counter |-> request_pool_counter + k - 1]
           ELSE request_pool[s]]

\* A batch of pinba_data_main, without the requests that found no slot.
DataBatch(batch, reserved) ==
    LET n == Len(batch)
        pool == Copied(batch, reserved)
    IN  /\ launch < MaxTime
        /\ request_pool_counter + n <= MaxCounter
        /\ report' = IF report = NoReport \/ ~Concerned(pool, in, n) THEN report
                     ELSE update_reports_func(Started(report, pool, in),
                                              pool, in, n, add_func)
        /\ request_pool' = pool
        /\ in' = Slot(in + n)
        /\ request_pool_counter' = request_pool_counter + n
        /\ launch' = launch + 1
        /\ UNCHANGED <<table, out, since, cleared>>

\* Number of records at the tail of the ring that are older than the cut.
Expired(from) ==
    LET old == {n \in 0 .. NumRecords :
                  \A k \in 1 .. n : request_pool[Span(out, n)[k]].time < from}
    IN  Max(old)

Forgotten(d) == [time |-> d.time, counter |-> d.counter]

\* An expiration of pinba_stats_main with the cut `from'.  Of an expired record
\* only time and counter are read again (by Started), the rest is forgotten.
Expire(from) ==
    LET n == Expired(from)
    IN  /\ n > 0
        /\ report' = IF report = NoReport \/ ~Concerned(request_pool, out, n)
                     THEN report
                     ELSE update_reports_func(report, request_pool, out, n, delete_func)
        /\ out' = Slot(out + n)
        /\ request_pool' = [s \in DOMAIN request_pool |->
                              IF s \in Range(Span(out, n)) THEN Forgotten(request_pool[s])
                              ELSE request_pool[s]]
        /\ UNCHANGED <<table, in, request_pool_counter, launch, since, cleared>>

\* pinba_stats_record_dtor for every live record: base reports, then the tag
\* reports if the record has timers.  Request-tag reports are left out.
DtorDeletes ==
    LET Concerns(d) == \/ table.type \notin RtagTypes \union TagTypes
                       \/ table.type \in TagTypes /\ d.timers # <<>>
    IN  FoldLeft(LAMBDA acc, slot :
                   LET d == request_pool[slot]
                   IN  IF Concerns(d) /\ Matches(acc.cond, d)
                       THEN delete_func(table.type, acc, d, slot) ELSE acc,
                 report, Span(out, NumRecords))

\* DELETE FROM request: destroy the ring's records, start with an empty ring.
delete_all_rows ==
    /\ request_pool' = [s \in DOMAIN request_pool |-> NoRecord]
    /\ in' = 0 /\ out' = 0
    /\ report' = IF report = NoReport THEN report ELSE DtorDeletes
    /\ cleared' = (report # NoReport /\ (cleared \/ NumRecords > 0))
    /\ UNCHANGED <<table, request_pool_counter, launch, since>>

\* The cuts that differ in what they expire: just after the time of a live record.
Cuts == {request_pool[s].time + 1 : s \in LiveSlots}

Next ==
    \/ CreateReport
    \/ DropReport
    \/ \E batch \in Admitted, reserved \in BOOLEAN : DataBatch(batch, reserved)
    \/ \E from \in Cuts : Expire(from)
    \/ delete_all_rows

Spec == Init /\ [][Next]_vars

-----------------------------------------------------------------------------
(* What a report should hold: an account of the live requests admitted     *)
(* since it was created, grouped by the fields of its key.                 *)

KeyFields ==
    [report_info |-> <<>>, report1 |-> <<"script_name">>,
     report2 |-> <<"server_name">>, report3 |-> <<"hostname">>,
     report4 |-> <<"server_name", "script_name">>,
     report5 |-> <<"hostname", "script_name">>,
     report6 |-> <<"hostname", "server_name">>,
     report7 |-> <<"hostname", "server_name", "script_name">>,
     report8 |-> <<"status">>, report9 |-> <<"status", "script_name">>,
     report10 |-> <<"status", "server_name">>,
     report11 |-> <<"status", "hostname">>,
     report12 |-> <<"status", "hostname", "script_name">>,
     report13 |-> <<"schema">>, report14 |-> <<"schema", "script_name">>,
     report15 |-> <<"schema", "server_name">>,
     report16 |-> <<"schema", "hostname">>,
     report17 |-> <<"schema", "hostname", "script_name">>,
     report18 |-> <<"status", "schema", "hostname">>]
    @@ [t \in {"tag_info", "tag2_info", "tagN_info"} |-> <<>>]
    @@ [t \in {"tag_report", "tag2_report", "tagN_report"} |-> <<"script_name">>]
    @@ [t \in {"tag_report2", "tag2_report2", "tagN_report2"} |->
          <<"script_name", "hostname", "server_name">>]
    @@ [t \in {"rtag_info", "rtag2_info", "rtagN_info"} |-> <<>>]
    @@ [t \in {"rtag_report", "rtag2_report", "rtagN_report"} |-> <<"hostname">>]

Fields(d) ==
    LET names == KeyFields[table.type]
    IN  [i \in DOMAIN names |-> d[names[i]]]

\* What one request contributes: a base report or a request-tag report counts
\* the request, a timer-tag report each of its timers with the tags.
Contributions(d) ==
    IF table.type \in TagTypes
    THEN {[counter |-> d.counter, part |-> i, value |-> d.timers[i].value,
           hits |-> d.timers[i].hit_count,
           key |-> Fields(d) \o Values(report, d.timers[i].tags)] :
             i \in {j \in DOMAIN d.timers : HasTags(report, d.timers[j].tags)}}
    ELSE IF HasTags(report, d.tags)
    THEN {[counter |-> d.counter, part |-> 0, value |-> d.req_time, hits |-> 1,
           key |-> Fields(d) \o Values(report, d.tags)]}
    ELSE {}

Account ==
    UNION {Contributions(request_pool[s]) :
             s \in {t \in LiveSlots : /\ request_pool[t].counter >= since
                                      /\ Matches(report.cond, request_pool[t])}}

Keys(account) == {c.key : c \in account}

ValueOf(account) == MapThenSumSet(LAMBDA c : c.value, account)
HitsOf(account) == MapThenSumSet(LAMBDA c : c.hits, account)

HistogramOf(account) ==
    LET slot(c) == HistogramSlot(c.value, c.hits)
    IN  [s \in {slot(c) : c \in account} |->
           HitsOf({c \in account : slot(c) = s})]

RowOf(account, key) ==
    LET part == {c \in account : c.key = key}
    IN  [columns |-> key, req_count |-> Cardinality({c.counter : c \in part}),
         value |-> ValueOf(part), hits |-> HitsOf(part)]

\* A row of the report in the same terms.
Shown(row) ==
    IF table.type \in TagTypes
    THEN [columns |-> row.columns, req_count |-> row.req_count,
          value |-> row.timer_value, hits |-> row.hit_count]
    ELSE [columns |-> row.columns, req_count |-> row.req_count,
          value |-> row.req_time_total, hits |-> row.req_count]

RowsAgree ==
    IF table.type = "report_info" THEN report.results = <<>>
    ELSE LET account == Account
         IN  /\ {Shown(row) : row \in Range(report.results)}
                  = {RowOf(account, key) : key \in Keys(account)}
             /\ Cardinality(DOMAIN report.results) = Cardinality(Keys(account))

HistogramsAgree ==
    LET account == Account
    IN  IF table.type = "report_info" THEN report.histogram_data = HistogramOf(account)
        ELSE \A row \in Range(report.results) :
               row.histogram_data = HistogramOf({c \in account : c.key = row.columns})

TotalsAgree ==
    /\ report.results_cnt = IF table.type = "report_info" THEN Cardinality(Account)
                            ELSE Cardinality(Keys(Account))
    /\ report.time_total = IF table.type \in TagTypes THEN 0 ELSE ValueOf(Account)

\* Two situations in which the account is known to go wrong: the report took
\* its start from an expired record, or a request-tag report missed a DELETE.
Sound ==
    /\ report # NoReport
    /\ report.start # 0 => report.request_pool_start_id >= since
    /\ table.type \in RtagTypes => ~cleared

-----------------------------------------------------------------------------
(* Properties.                                                             *)

\* Type invariant: positions inside the ring, one slot always free, and the
\* report either absent or with a non-negative number of rows.
TypeOK ==
    /\ table \in Tables
    /\ in \in 0 .. RequestPoolSize - 1 /\ out \in 0 .. RequestPoolSize - 1
    /\ DOMAIN request_pool = 0 .. RequestPoolSize - 1
    /\ request_pool_counter \in 0 .. MaxCounter
    /\ launch \in 1 .. MaxTime
    /\ since \in 0 .. request_pool_counter
    /\ cleared \in BOOLEAN
    /\ report # NoReport => report.results_cnt \in Nat

\* After any sequence of batches, expirations and DELETEs, the rows of a report
\* are exactly the groups of the live requests admitted since it was created:
\* same columns, request counts, hit counts and sums (add and delete functions
\* of pinba_update_report.h and data.cc, dispatched by update_reports_func).
RowsExact == Sound => RowsAgree

\* The row count that the handler reports (stats.records = results_cnt) and the
\* report's totals, from which the *_percent columns are computed, agree with
\* the live requests.
TotalsExact == Sound => TotalsAgree

\* Expiration and DELETE FROM request remove the contributions of the requests
\* they remove, whatever the state of the ring when the report was created
\* (violated: see Sound).
ContributionsRemoved == report # NoReport => RowsAgree /\ TotalsAgree

\* A table scan of a report that keeps a map of maps (TAG_REPORT_TOP_BLOCK),
\* not disturbed by other threads: the scan ends at once if the first map in
\* iteration order holds no row; later empty maps are skipped.
ScannedRows(order) ==
    LET RowsIn(m) == {i \in DOMAIN report.results : i[1] = m}
    IN  IF order = <<>> \/ RowsIn(order[1]) = {} THEN {}
        ELSE UNION {RowsIn(order[k]) : k \in DOMAIN order}

\* A scan returns every row of the report, in whatever order the unordered_map
\* visits the first-level maps.  The first map visited must not be empty, so
\* this needs the delete functions to remove each map they empty.
ScanComplete ==
    /\ report # NoReport
    /\ table.type \in RtagTypes \union TagTypes /\ KeyFields[table.type] # <<>>
    =>
        \A order \in SetToSeqs(report.maps) :
            ScannedRows(order) = DOMAIN report.results
=============================================================================
