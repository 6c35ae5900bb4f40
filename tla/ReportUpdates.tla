---------------------------- MODULE ReportUpdates ----------------------------
(***************************************************************************)
(* The add and delete functions of every report type, as operators on the  *)
(* state of one report.  The C++ functions are 34 copies of three          *)
(* algorithms, one per family:                                             *)
(*                                                                         *)
(*   base reports  (pinba_update_report.h)  one row per index string       *)
(*   rtag reports  (data.cc)  the same, for requests carrying the tags     *)
(*   tag reports   (data.cc)  one row per index string and timer tags;     *)
(*                 requests counted once per row by their ring slot        *)
(*                                                                         *)
(* req_time stands for the five totals that every function treats alike    *)
(* (request time, both CPU times, document size, memory), and a timer's    *)
(* value for its three.                                                    *)
(***************************************************************************)
EXTENDS Integers, Sequences, SequencesExt, TLC

CONSTANTS
    HistogramSize,     \* D->settings.histogram_size
    HistogramSegment   \* report->histogram_segment

ASSUME UpdatesAssumption ==
    /\ HistogramSize \in Nat \ {0}
    /\ HistogramSegment \in Nat \ {0}

NewReport(tags, cond) ==
    [tags |-> tags, cond |-> cond, start |-> 0, request_pool_start_id |-> 0,
     results_cnt |-> 0, time_total |-> 0, histogram_data |-> <<>>,
     results |-> <<>>, maps |-> {}]

-----------------------------------------------------------------------------
(* Parts shared by the families.                                           *)

Without(f, x) == [y \in DOMAIN f \ {x} |-> f[y]]

HistogramSlot(value, n) ==
    LET slot == value \div (n * HistogramSegment)
    IN  IF slot < HistogramSize THEN slot ELSE HistogramSize - 1

\* n samples of value / n each, added (sign 1) or removed (sign -1).
pinba_update_histogram(h, value, n, sign) ==
    LET slot == HistogramSlot(value, n)
        old == IF slot \in DOMAIN h THEN h[slot] ELSE 0
        new == old + sign * n
    IN  IF new = 0 THEN Without(h, slot) ELSE (slot :> new) @@ h

\* Mutant of PINBA_REPORT_DELETE_CHECK: the report's first batch is kept too.
DeleteCheckInclusive(report, d) == report.start >= d.time

\* TRUE: the report began after this request, nothing of it to remove.
PINBA_REPORT_DELETE_CHECK(report, d) ==
    \/ report.start > d.time
    \/ report.start = d.time /\ report.request_pool_start_id > d.counter

\* CHECK_REPORT_CONDITIONS_CONTINUE: the optional min_time and max_time (0: no
\* bound) and the request tags that the table's comment asks for.
Matches(cond, d) ==
    /\ cond.min_time > 0 => d.req_time >= cond.min_time
    /\ cond.max_time > 0 => d.req_time <= cond.max_time
    /\ \A t \in DOMAIN cond.tags : t \in DOMAIN d.tags /\ d.tags[t] = cond.tags[t]

HasTags(report, tags) == \A i \in DOMAIN report.tags : report.tags[i] \in DOMAIN tags

\* The values of the report's tags, in the report's order.
Values(report, tags) == [i \in DOMAIN report.tags |-> tags[report.tags[i]]]

\* tagN and rtagN: every value is followed by '|'.
EachPiped(values) == FoldLeft(LAMBDA s, v : s \o v \o "|", "", values)

-----------------------------------------------------------------------------
(* Base reports.                                                           *)

AddTotal(report, d) == [report EXCEPT !.time_total = @ + d.req_time]
SubTotal(report, d) == [report EXCEPT !.time_total = @ - d.req_time]

NewRow(columns) ==
    [columns |-> columns, req_count |-> 0, req_time_total |-> 0,
     histogram_data |-> <<>>]

\* The row with this index, created when missing, counts the request.
CountRow(report, index, columns, d) ==
    LET known == index \in DOMAIN report.results
        row == IF known THEN report.results[index] ELSE NewRow(columns)
    IN  [report EXCEPT
           !.results_cnt = IF known THEN @ ELSE @ + 1,
           !.results = (index :>
             [row EXCEPT !.req_count = @ + 1,
                         !.req_time_total = @ + d.req_time,
                         !.histogram_data =
                            pinba_update_histogram(@, d.req_time, 1, 1)]) @@ @]

\* Mutant of DropRow: an emptied first-level map stays.
DropRowOnly(report, index) ==
    [report EXCEPT !.results_cnt = @ - 1, !.results = Without(@, index)]

\* The row goes away, and with it the first-level map it leaves empty (tagged
\* reports, below): pinba_map_delete tells when it has emptied a map.
DropRow(report, index) ==
    LET left == Without(report.results, index)
    IN  [report EXCEPT !.results_cnt = @ - 1, !.results = left,
                       !.maps = {m \in @ : \E i \in DOMAIN left : i[1] = m}]

\* A row that counts one request only goes away with it.
UncountRow(report, index, d) ==
    IF index \notin DOMAIN report.results THEN report
    ELSE IF report.results[index].req_count = 1
    THEN DropRow(report, index)
    ELSE [report EXCEPT !.results[index] =
            [@ EXCEPT !.req_count = @ - 1,
                      !.req_time_total = @ - d.req_time,
                      !.histogram_data =
                         pinba_update_histogram(@, d.req_time, 1, -1)]]

BaseAdd(report, index, columns, d) ==
    CountRow(AddTotal(report, d), index, columns, d)

BaseDelete(report, index, d) ==
    IF report.results_cnt = 0 \/ PINBA_REPORT_DELETE_CHECK(report, d) THEN report
    ELSE UncountRow(SubTotal(report, d), index, d)

\* report_info has no rows: results_cnt and the histogram are the report's own.
pinba_update_report_info_add(report, d) ==
    [AddTotal(report, d) EXCEPT
       !.results_cnt = @ + 1,
       !.histogram_data = pinba_update_histogram(@, d.req_time, 1, 1)]

pinba_update_report_info_delete(report, d) ==
    IF report.results_cnt = 0 \/ PINBA_REPORT_DELETE_CHECK(report, d) THEN report
    ELSE [SubTotal(report, d) EXCEPT
            !.results_cnt = @ - 1,
            !.histogram_data = pinba_update_histogram(@, d.req_time, 1, -1)]

\* The index strings: the columns of the key joined by separators.  "%u" of a
\* status is ToString.
Index1(d) == d.script_name
Index2(d) == d.server_name
Index3(d) == d.hostname
Index4(d) == d.server_name \o "/" \o d.script_name
Index5(d) == d.hostname \o "/" \o d.script_name
Index6(d) == d.hostname \o "/" \o d.server_name
Index7(d) == d.hostname \o ":" \o d.server_name \o "/" \o d.script_name
Index8(d) == ToString(d.status)
Index9(d) == ToString(d.status) \o ":" \o d.script_name
Index10(d) == ToString(d.status) \o d.server_name
Index11(d) == ToString(d.status) \o d.hostname
Index12(d) == ToString(d.status) \o d.hostname \o "/" \o d.script_name
Index13(d) == d.schema
Index14(d) == d.schema \o ":" \o d.script_name
Index15(d) == d.schema \o ":" \o d.server_name
Index16(d) == d.schema \o ":" \o d.hostname
Index17(d) == d.schema \o "/" \o d.hostname \o "/" \o d.script_name
Index18(d) == ToString(d.status) \o ":" \o d.schema \o "/" \o d.hostname

pinba_update_report1_add(report, d) ==
    BaseAdd(report, Index1(d), <<d.script_name>>, d)
pinba_update_report1_delete(report, d) == BaseDelete(report, Index1(d), d)

pinba_update_report2_add(report, d) ==
    BaseAdd(report, Index2(d), <<d.server_name>>, d)
pinba_update_report2_delete(report, d) == BaseDelete(report, Index2(d), d)

pinba_update_report3_add(report, d) ==
    BaseAdd(report, Index3(d), <<d.hostname>>, d)
pinba_update_report3_delete(report, d) == BaseDelete(report, Index3(d), d)

pinba_update_report4_add(report, d) ==
    BaseAdd(report, Index4(d), <<d.server_name, d.script_name>>, d)
pinba_update_report4_delete(report, d) == BaseDelete(report, Index4(d), d)

pinba_update_report5_add(report, d) ==
    BaseAdd(report, Index5(d), <<d.hostname, d.script_name>>, d)
pinba_update_report5_delete(report, d) == BaseDelete(report, Index5(d), d)

pinba_update_report6_add(report, d) ==
    BaseAdd(report, Index6(d), <<d.hostname, d.server_name>>, d)
pinba_update_report6_delete(report, d) == BaseDelete(report, Index6(d), d)

pinba_update_report7_add(report, d) ==
    BaseAdd(report, Index7(d), <<d.hostname, d.server_name, d.script_name>>, d)
pinba_update_report7_delete(report, d) == BaseDelete(report, Index7(d), d)

pinba_update_report8_add(report, d) ==
    BaseAdd(report, Index8(d), <<d.status>>, d)
pinba_update_report8_delete(report, d) == BaseDelete(report, Index8(d), d)

pinba_update_report9_add(report, d) ==
    BaseAdd(report, Index9(d), <<d.status, d.script_name>>, d)
pinba_update_report9_delete(report, d) == BaseDelete(report, Index9(d), d)

pinba_update_report10_add(report, d) ==
    BaseAdd(report, Index10(d), <<d.status, d.server_name>>, d)
pinba_update_report10_delete(report, d) == BaseDelete(report, Index10(d), d)

pinba_update_report11_add(report, d) ==
    BaseAdd(report, Index11(d), <<d.status, d.hostname>>, d)
pinba_update_report11_delete(report, d) == BaseDelete(report, Index11(d), d)

pinba_update_report12_add(report, d) ==
    BaseAdd(report, Index12(d), <<d.status, d.hostname, d.script_name>>, d)
pinba_update_report12_delete(report, d) == BaseDelete(report, Index12(d), d)

pinba_update_report13_add(report, d) ==
    BaseAdd(report, Index13(d), <<d.schema>>, d)
pinba_update_report13_delete(report, d) == BaseDelete(report, Index13(d), d)

pinba_update_report14_add(report, d) ==
    BaseAdd(report, Index14(d), <<d.schema, d.script_name>>, d)
pinba_update_report14_delete(report, d) == BaseDelete(report, Index14(d), d)

pinba_update_report15_add(report, d) ==
    BaseAdd(report, Index15(d), <<d.schema, d.server_name>>, d)
pinba_update_report15_delete(report, d) == BaseDelete(report, Index15(d), d)

pinba_update_report16_add(report, d) ==
    BaseAdd(report, Index16(d), <<d.schema, d.hostname>>, d)
pinba_update_report16_delete(report, d) == BaseDelete(report, Index16(d), d)

pinba_update_report17_add(report, d) ==
    BaseAdd(report, Index17(d), <<d.schema, d.hostname, d.script_name>>, d)
pinba_update_report17_delete(report, d) == BaseDelete(report, Index17(d), d)

pinba_update_report18_add(report, d) ==
    BaseAdd(report, Index18(d), <<d.status, d.schema, d.hostname>>, d)
pinba_update_report18_delete(report, d) == BaseDelete(report, Index18(d), d)

-----------------------------------------------------------------------------
(* Tagged rows.  A row's index is `outer \o <<inner>>': outer is empty in  *)
(* the *_info kinds, which keep one map of rows, and holds the key of the  *)
(* first-level map in the *_report kinds, which keep a map of maps.        *)

One(report, tags) == Values(report, tags)[1]
Two(report, tags) == Values(report, tags)[1] \o "|" \o Values(report, tags)[2]
Many(report, tags) == EachPiped(Values(report, tags))

\* The first-level map is created on demand.
InMap(report, outer) == [report EXCEPT !.maps = @ \union Range(outer)]

\* Mutant of RtagAdd: the totals include requests without the report's tags.
RtagAddTotalFirst(report, outer, inner, columns, d) ==
    IF HasTags(report, d.tags)
    THEN AddTotal(CountRow(InMap(report, outer), outer \o <<inner>>,
                           columns \o Values(report, d.tags), d), d)
    ELSE AddTotal(report, d)

\* Request-tag reports: only requests that carry every tag of the report.
RtagAdd(report, outer, inner, columns, d) ==
    IF HasTags(report, d.tags)
    THEN AddTotal(CountRow(InMap(report, outer), outer \o <<inner>>,
                           columns \o Values(report, d.tags), d), d)
    ELSE report

\* A request without a row leaves the totals alone.
RtagDelete(report, outer, inner, d) ==
    IF \/ PINBA_REPORT_DELETE_CHECK(report, d)
       \/ ~HasTags(report, d.tags)
       \/ outer \o <<inner>> \notin DOMAIN report.results
    THEN report
    ELSE UncountRow(SubTotal(report, d), outer \o <<inner>>, d)

pinba_update_rtag_info_add(report, d) ==
    RtagAdd(report, <<>>, One(report, d.tags), <<>>, d)
pinba_update_rtag_info_delete(report, d) ==
    RtagDelete(report, <<>>, One(report, d.tags), d)

pinba_update_rtag2_info_add(report, d) ==
    RtagAdd(report, <<>>, Two(report, d.tags), <<>>, d)
pinba_update_rtag2_info_delete(report, d) ==
    RtagDelete(report, <<>>, Two(report, d.tags), d)

pinba_update_rtagN_info_add(report, d) ==
    RtagAdd(report, <<>>, Many(report, d.tags), <<>>, d)
pinba_update_rtagN_info_delete(report, d) ==
    RtagDelete(report, <<>>, Many(report, d.tags), d)

pinba_update_rtag_report_add(report, d) ==
    RtagAdd(report, <<d.hostname>>, One(report, d.tags), <<d.hostname>>, d)
pinba_update_rtag_report_delete(report, d) ==
    RtagDelete(report, <<d.hostname>>, One(report, d.tags), d)

pinba_update_rtag2_report_add(report, d) ==
    RtagAdd(report, <<d.hostname>>, Two(report, d.tags), <<d.hostname>>, d)
pinba_update_rtag2_report_delete(report, d) ==
    RtagDelete(report, <<d.hostname>>, Two(report, d.tags), d)

pinba_update_rtagN_report_add(report, d) ==
    RtagAdd(report, <<d.hostname>>, Many(report, d.tags), <<d.hostname>>, d)
pinba_update_rtagN_report_delete(report, d) ==
    RtagDelete(report, <<d.hostname>>, Many(report, d.tags), d)

-----------------------------------------------------------------------------
(* Timer-tag reports: every timer that carries the tags adds its hits and  *)
(* value to its row; a request with several such timers counts once.       *)

NewTimerRow(columns, t, request_id) ==
    [columns |-> columns, req_count |-> 1, hit_count |-> t.hit_count,
     timer_value |-> t.value, prev_add_request_id |-> request_id,
     prev_del_request_id |-> -1,
     histogram_data |-> pinba_update_histogram(<<>>, t.value, t.hit_count, 1)]

AddTimer(report, index, columns, t, request_id) ==
    IF index \notin DOMAIN report.results
    THEN [report EXCEPT !.results_cnt = @ + 1,
            !.results = (index :> NewTimerRow(columns, t, request_id)) @@ @]
    ELSE LET again == report.results[index].prev_add_request_id = request_id
         IN  [report EXCEPT !.results[index] =
                [@ EXCEPT
                   !.hit_count = @ + t.hit_count,
                   !.timer_value = @ + t.value,
                   !.histogram_data = pinba_update_histogram(@, t.value, t.hit_count, 1),
                   !.req_count = IF again THEN @ ELSE @ + 1,
                   !.prev_add_request_id = request_id]]

\* The row goes away with the last request counted in it.
DeleteTimer(report, index, t, request_id) ==
    IF index \notin DOMAIN report.results THEN report
    ELSE LET row == report.results[index]
             count == IF row.prev_del_request_id = request_id THEN row.req_count
                      ELSE row.req_count - 1
         IN  IF count = 0
             THEN DropRow(report, index)
             ELSE [report EXCEPT !.results[index] =
                     [@ EXCEPT
                        !.req_count = count,
                        !.prev_del_request_id = request_id,
                        !.hit_count = @ - t.hit_count,
                        !.timer_value = @ - t.value,
                        !.histogram_data =
                           pinba_update_histogram(@, t.value, t.hit_count, -1)]]

TagAdd(report, outer, Inner(_), columns, d, request_id) ==
    FoldLeft(LAMBDA r, t :
               IF HasTags(r, t.tags)
               THEN AddTimer(InMap(r, outer), outer \o <<Inner(t.tags)>>,
                             columns \o Values(r, t.tags), t, request_id)
               ELSE r,
             report, d.timers)

TagDelete(report, outer, Inner(_), d, request_id) ==
    IF PINBA_REPORT_DELETE_CHECK(report, d) THEN report
    ELSE FoldLeft(LAMBDA r, t :
                    IF HasTags(r, t.tags)
                    THEN DeleteTimer(r, outer \o <<Inner(t.tags)>>, t, request_id)
                    ELSE r,
                  report, d.timers)

\* The *_report2 kinds put host and server in front of the tag values.
HostServer(d, inner) == d.hostname \o "|" \o d.server_name \o "|" \o inner

pinba_update_tag_info_add(report, d, request_id) ==
    TagAdd(report, <<>>, LAMBDA tags : One(report, tags),
           <<>>, d, request_id)
pinba_update_tag_info_delete(report, d, request_id) ==
    TagDelete(report, <<>>, LAMBDA tags : One(report, tags), d, request_id)

pinba_update_tag_report_add(report, d, request_id) ==
    TagAdd(report, <<d.script_name>>, LAMBDA tags : One(report, tags),
           <<d.script_name>>, d, request_id)
pinba_update_tag_report_delete(report, d, request_id) ==
    TagDelete(report, <<d.script_name>>, LAMBDA tags : One(report, tags), d, request_id)

pinba_update_tag_report2_add(report, d, request_id) ==
    TagAdd(report, <<d.script_name>>, LAMBDA tags : HostServer(d, One(report, tags)),
           <<d.script_name, d.hostname, d.server_name>>, d, request_id)
pinba_update_tag_report2_delete(report, d, request_id) ==
    TagDelete(report, <<d.script_name>>, LAMBDA tags : HostServer(d, One(report, tags)), d, request_id)

pinba_update_tag2_info_add(report, d, request_id) ==
    TagAdd(report, <<>>, LAMBDA tags : Two(report, tags),
           <<>>, d, request_id)
pinba_update_tag2_info_delete(report, d, request_id) ==
    TagDelete(report, <<>>, LAMBDA tags : Two(report, tags), d, request_id)

pinba_update_tag2_report_add(report, d, request_id) ==
    TagAdd(report, <<d.script_name>>, LAMBDA tags : Two(report, tags),
           <<d.script_name>>, d, request_id)
pinba_update_tag2_report_delete(report, d, request_id) ==
    TagDelete(report, <<d.script_name>>, LAMBDA tags : Two(report, tags), d, request_id)

pinba_update_tag2_report2_add(report, d, request_id) ==
    TagAdd(report, <<d.script_name>>, LAMBDA tags : HostServer(d, Two(report, tags)),
           <<d.script_name, d.hostname, d.server_name>>, d, request_id)
pinba_update_tag2_report2_delete(report, d, request_id) ==
    TagDelete(report, <<d.script_name>>, LAMBDA tags : HostServer(d, Two(report, tags)), d, request_id)

pinba_update_tagN_info_add(report, d, request_id) ==
    TagAdd(report, <<>>, LAMBDA tags : Many(report, tags),
           <<>>, d, request_id)
pinba_update_tagN_info_delete(report, d, request_id) ==
    TagDelete(report, <<>>, LAMBDA tags : Many(report, tags), d, request_id)

pinba_update_tagN_report_add(report, d, request_id) ==
    TagAdd(report, <<d.script_name>>, LAMBDA tags : Many(report, tags),
           <<d.script_name>>, d, request_id)
pinba_update_tagN_report_delete(report, d, request_id) ==
    TagDelete(report, <<d.script_name>>, LAMBDA tags : Many(report, tags), d, request_id)

pinba_update_tagN_report2_add(report, d, request_id) ==
    TagAdd(report, <<d.script_name>>, LAMBDA tags : HostServer(d, Many(report, tags)),
           <<d.script_name, d.hostname, d.server_name>>, d, request_id)
pinba_update_tagN_report2_delete(report, d, request_id) ==
    TagDelete(report, <<d.script_name>>, LAMBDA tags : HostServer(d, Many(report, tags)), d, request_id)
=============================================================================
