------------------------------ MODULE RawScans ------------------------------
(***************************************************************************)
(* Full scans of the raw tables request, timer and timertag (ha_pinba.cc): *)
(* rnd_init, then rnd_next until it reports the end.  A fetcher gets the   *)
(* cursor of the scan, ival and position of this_index, and returns the    *)
(* row that it shows and the cursor of the next call.  A scan is taken     *)
(* here between two changes of the rings.                                  *)
(***************************************************************************)
EXTENDS Rings, SequencesExt

\* rnd_init
StartCursor == <<-1, -1>>

\* HA_ERR_KEY_NOT_FOUND
NoRow == <<>>

Row(index) == [row |-> <<index>>, next |-> <<index + 1, 0>>]

EndAt(index) == [row |-> NoRow, next |-> <<index, 0>>]

\* Mutant of requests_fetch_row: the end of the ring is the end of the scan.
requests_fetch_row_once(cursor) ==
    LET index == IF cursor = StartCursor THEN out ELSE cursor[1]
    IN  IF index = in \/ index >= RequestPoolSize THEN EndAt(index) ELSE Row(index)

\* A slot whose time is zero is skipped.
requests_fetch_row(cursor) ==
    LET retry[i \in 0..RequestPoolSize] ==
            LET index == IF i = RequestPoolSize THEN 0 ELSE i
            IN  IF index = in THEN EndAt(index)
                ELSE IF request_pool[index].time = 0 THEN retry[index + 1]
                ELSE Row(index)
    IN  retry[IF cursor = StartCursor THEN out ELSE cursor[1]]

\* A timer whose request slot is unused is skipped.  For the timer of a request that
\* has none the code would not leave its loop; here it shows the timer again.
timers_fetch_row(cursor) ==
    LET owner(index) == request_pool[timer_pool[index].request_id]
        try[i \in 0..timer_size] ==
            LET index == IF i = timer_size THEN 0 ELSE i
            IN  IF index = timer_in THEN EndAt(index)
                ELSE IF owner(index).time = 0 THEN try[index + 1]
                ELSE IF owner(index).timers_cnt = 0 THEN [Row(index) EXCEPT !.next = <<index, 0>>]
                ELSE Row(index)
    IN  try[IF cursor = StartCursor THEN timer_out ELSE cursor[1]]

\* The position counts the tags of the timer.  The index wraps one slot early.
tag_values_fetch_next(cursor) ==
    LET retry[i \in 0..timer_size, position \in Nat] ==
            LET index == IF i = timer_size - 1 THEN 0 ELSE i
            IN  IF index = timer_in \/ timer_in = timer_out THEN EndAt(index)
                ELSE IF position >= timer_pool[index].tag_num THEN retry[index + 1, 0]
                ELSE [row |-> <<index, position>>, next |-> <<index, position + 1>>]
    IN  IF cursor = StartCursor THEN retry[timer_out, 0] ELSE retry[cursor[1], cursor[2]]

\* The rows of a scan, cut off after `limit' calls.
ScanRows(fetch(_), limit) ==
    LET rows[k \in 0..limit, cursor \in Int \X Int] ==
            LET call == fetch(cursor)
            IN  IF k = 0 \/ call.row = NoRow THEN <<>>
                ELSE <<call.row>> \o rows[k - 1, call.next]
    IN  rows[limit, StartCursor]

\* Every scan of table request shows each live request once, in the order of
\* admission, and every scan of table timer each live timer, wherever the rings
\* wrap and however often the timer ring has grown.  A scan of timertag shows
\* each tag of each live timer, as long as neither a live timer nor the end of the
\* live timers is in the last slot of the ring, which tag_values_fetch_next skips.
ScansExact ==
    holder = "none" =>
        LET live   == [k \in 1..Live |-> Wrap(out + k - 1, RequestPoolSize)]
            timers == [k \in 1..TimersLive |-> Wrap(timer_out + k - 1, timer_size)]
            tags   == [k \in 1..TimersLive |->
                          [t \in 1..timer_pool[timers[k]].tag_num |-> <<timers[k], t - 1>>]]
        IN  /\ ScanRows(requests_fetch_row, 2 * RequestPoolSize) = [k \in 1..Live |-> <<live[k]>>]
            /\ ScanRows(timers_fetch_row, 2 * timer_size) = [k \in 1..TimersLive |-> <<timers[k]>>]
            /\ ~ InSpan(timer_size - 1, timer_out, TimersLive + 1)
               => ScanRows(tag_values_fetch_next, 2 * timertags_cnt + 1) = FlattenSeq(tags)

=============================================================================
