------------------------------ MODULE MCReports ------------------------------
(***************************************************************************)
(* Instances of Reports for TLC: three requests and every report type.     *)
(***************************************************************************)
EXTENDS ReportColumns

MCTagNames == <<"x", "y">>

Timer(value, hits, tags) == [value |-> value, hit_count |-> hits, tags |-> tags]

\* Two timers with the same tags in one request, timers without y.
MCPayloads ==
    { [script_name |-> "s", server_name |-> "v", hostname |-> "h", schema |-> "p",
       status |-> 200, req_time |-> 1, tags |-> [x |-> "a", y |-> "b"],
       timers |-> <<Timer(1, 1, [x |-> "a", y |-> "b"]),
                    Timer(6, 2, [x |-> "a", y |-> "b"])>>],
      [script_name |-> "s", server_name |-> "v", hostname |-> "h", schema |-> "p",
       status |-> 200, req_time |-> 3, tags |-> <<>>,
       timers |-> <<Timer(2, 1, [x |-> "a", y |-> "b"]), Timer(1, 1, [x |-> "c"])>>],
      [script_name |-> "t", server_name |-> "w", hostname |-> "g", schema |-> "q",
       status |-> 404, req_time |-> 2, tags |-> [x |-> "a", y |-> "c"],
       timers |-> <<Timer(1, 1, [x |-> "a"])>>] }

NoCond == [min_time |-> 0, max_time |-> 0, tags |-> <<>>]
MinTime == [min_time |-> 2, max_time |-> 0, tags |-> <<>>]
Window == [min_time |-> 1, max_time |-> 2, tags |-> [y |-> "b"]]

MCTables ==
    [type : DOMAIN KeyFields, cond : {NoCond}]
    \union [type : {"report1", "tag_info"}, cond : {MinTime, Window}]

\* 0.5, 66.7 and 99.99 percent, and the legacy 95.
MCPercentiles ==
    { [value |-> 0, numerator |-> 5, denominator |-> 1000],
      [value |-> 66, numerator |-> 667, denominator |-> 1000],
      [value |-> 99, numerator |-> 9999, denominator |-> 10000],
      [value |-> 95, numerator |-> 0, denominator |-> 0] }

Report1Tables == [type : {"report1"}, cond : {NoCond}]
RtagTables == [type : {"rtag_info"}, cond : {NoCond}]
=============================================================================
