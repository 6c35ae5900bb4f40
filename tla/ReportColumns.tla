--------------------------- MODULE ReportColumns ----------------------------
(***************************************************************************)
(* What SQL shows of a report: the fetchers of ha_pinba.cc read the rows   *)
(* and compute the median and the percentile columns from the histograms.  *)
(* A value is a fraction, [num, den].                                      *)
(***************************************************************************)
EXTENDS Reports

\* The percentiles of a table's comment.  A fractional one is exact, a legacy one
\* has denominator zero and its value in percent.  The parser refuses a fraction
\* of zero or above 100 percent (pinba_parse_fractional_percentile).
CONSTANT Percentiles

ASSUME PercentilesAssumption ==
    /\ Percentiles \subseteq [value : 0..100, numerator : Nat, denominator : Nat]
    /\ \A p \in Percentiles : p.denominator # 0 => p.numerator \in 1..p.denominator

\* The legacy rank is computed in floats: exact for the counts of an instance.
pinba_percentile_rank(count, p) ==
    LET legacy == (count * p.value) \div 100
    IN  IF count = 0 THEN 0
        ELSE IF p.denominator # 0
        THEN (count * p.numerator + p.denominator - 1) \div p.denominator
        ELSE IF legacy = 0 THEN 1 ELSE legacy

\* Mutant of pinba_histogram_value: the bucket that completes the rank is passed.
pinba_histogram_value_past(histogram, rank) ==
    LET in_slot(i) == IF i \in DOMAIN histogram THEN histogram[i] ELSE 0
        up_to(i)   == MapThenSumSet(in_slot, 0..i)
        passed     == {i \in 0..(HistogramSize - 1) : up_to(i) > rank}
    IN  IF passed # {}
        THEN [num |-> HistogramSegment * (Min(passed) + 1), den |-> 1]
        ELSE [num |-> HistogramSegment * HistogramSize, den |-> 1]

\* The value at the rank, interpolated inside the bucket that the rank falls into.
pinba_histogram_value(histogram, rank) ==
    LET in_slot(i) == IF i \in DOMAIN histogram THEN histogram[i] ELSE 0
        up_to(i)   == MapThenSumSet(in_slot, 0..i)
        wanted     == IF rank = 0 THEN 1 ELSE rank
        reached    == {i \in 0..(HistogramSize - 1) : up_to(i) >= wanted}
    IN  IF reached # {}
        THEN LET i == Min(reached)
             IN  [num |-> HistogramSegment * ((i + 1) * in_slot(i) - (up_to(i) - wanted)),
                  den |-> in_slot(i)]
        ELSE [num |-> IF histogram = <<>> THEN 0 ELSE HistogramSegment * HistogramSize,
              den |-> 1]

\* REPORT_PERCENTILE_FIELD
PercentileFields(histogram, count) ==
    [p \in Percentiles |-> pinba_histogram_value(histogram, pinba_percentile_rank(count, p))]

report_fetch_row(row) ==
    [columns |-> row.columns, count |-> row.req_count,
     percent |-> [num |-> 100 * row.req_time_total, den |-> report.time_total],
     median |-> pinba_histogram_value(row.histogram_data, row.req_count \div 2),
     percentiles |-> PercentileFields(row.histogram_data, row.req_count)]

tag_info_fetch_row(row) ==
    [columns |-> row.columns, count |-> row.hit_count,
     median |-> pinba_histogram_value(row.histogram_data, row.hit_count \div 2),
     percentiles |-> PercentileFields(row.histogram_data, row.hit_count)]

rtag_info_fetch_row(row) ==
    [columns |-> row.columns, count |-> row.req_count,
     percent |-> [num |-> 100 * row.req_time_total, den |-> report.time_total],
     median |-> pinba_histogram_value(row.histogram_data, row.req_count \div 2),
     percentiles |-> PercentileFields(row.histogram_data, row.req_count)]

\* report_info has one row for the whole window.
info_fetch_row ==
    [columns |-> <<>>, count |-> report.results_cnt,
     median |-> pinba_histogram_value(report.histogram_data, report.results_cnt \div 2),
     percentiles |-> PercentileFields(report.histogram_data, report.results_cnt)]

RowsShown ==
    IF table.type = "report_info" THEN {info_fetch_row}
    ELSE IF table.type \in TagTypes THEN {tag_info_fetch_row(row) : row \in Range(report.results)}
    ELSE IF table.type \in RtagTypes THEN {rtag_info_fetch_row(row) : row \in Range(report.results)}
    ELSE {report_fetch_row(row) : row \in Range(report.results)}

\* The bucket of the sample with the given rank among the samples of `part'.
BucketAt(part, rank) ==
    Min({b \in 0..(HistogramSize - 1) :
            HitsOf({c \in part : HistogramSlot(c.value, c.hits) <= b}) >= rank})

InBucket(value, b) ==
    /\ HistogramSegment * b * value.den < value.num
    /\ value.num <= HistogramSegment * (b + 1) * value.den

\* The histograms of a report hold the samples of the live requests and no others,
\* after any batches, expirations and DELETEs, and every median and percentile that
\* SQL shows lies in the bucket of the sample of its rank: the least rank that
\* covers the given share of the samples for a fractional percentile
\* (pinba_update_histogram, pinba_histogram_value, pinba_percentile_rank).  The
\* percent column is the share of the live requests' time.
PercentilesExact ==
    Sound =>
        LET account == Account IN
        /\ HistogramsAgree
        /\ \A shown \in RowsShown :
              LET part == {c \in account : shown.columns \in {<<>>, c.key}}
                  n    == HitsOf(part)
                  least(p) == Min({r \in 0..n : r * p.denominator >= n * p.numerator})
              IN  /\ shown.count = n
                  /\ "percent" \in DOMAIN shown =>
                       shown.percent = [num |-> 100 * ValueOf(part), den |-> ValueOf(account)]
                  /\ n > 0 => InBucket(shown.median,
                                       BucketAt(part, IF n = 1 THEN 1 ELSE n \div 2))
                  /\ n > 0 => \A p \in {q \in Percentiles : q.denominator # 0} :
                                  InBucket(shown.percentiles[p], BucketAt(part, least(p)))

=============================================================================
