------------------------- MODULE RequestValidation -------------------------
(***************************************************************************)
(* The validation of a decoded request (pinba_request_validation.h).  A    *)
(* decoded message carries its timers as parallel arrays: hit counts,      *)
(* values and numbers of tags per timer, and the tags of all timers        *)
(* flattened into one array of names and one of values.  Names and values  *)
(* index the message's dictionary, from 0.  Only the lengths, the hit      *)
(* counts, the tag counts and the indexes decide, so a request keeps these *)
(* and of timer_value only its length.                                     *)
(***************************************************************************)
EXTENDS Naturals, Sequences, SequencesExt

CONSTANTS
    USHRT_MAX, INT_MAX, UINT_MAX,  \* the largest values of the stored fields
    Requests                       \* the decoded requests that are tried

ASSUME ValidationAssumption == {USHRT_MAX, INT_MAX, UINT_MAX} \subseteq Nat

\* The tags of the first n timers: `total' in the code.
TagsBefore(r, n) == FoldLeft(+, 0, SubSeq(r.timer_tag_count, 1, n))

\* Mutant of InDictionary: the size of the dictionary passes for an index.
InDictionaryInclusive(r, indexes) == \A i \in DOMAIN indexes : indexes[i] <= r.n_dictionary

InDictionary(r, indexes) == \A i \in DOMAIN indexes : indexes[i] < r.n_dictionary

TooLarge(r, i) == r.timer_tag_count[i] > USHRT_MAX \/ r.timer_hit_count[i] > INT_MAX

\* The loop over the timers stops at the first one it refuses.
Refused(r) ==
    {i \in DOMAIN r.timer_tag_count :
        \/ TooLarge(r, i)
        \/ r.timer_tag_count[i] + TagsBefore(r, i - 1) > Len(r.timer_tag_name)}

FirstRefused(r) == CHOOSE i \in Refused(r) : \A j \in Refused(r) : i <= j

pinba_validate_request(r) ==
    LET timers == Len(r.timer_hit_count)
    IN  IF \/ timers # r.n_timer_value
           \/ timers # Len(r.timer_tag_count)
           \/ Len(r.tag_name) # Len(r.tag_value)
        THEN "timer_arrays"
        ELSE IF timers > USHRT_MAX \/ Len(r.tag_name) > UINT_MAX
        THEN "representation_limit"
        ELSE IF Len(r.timer_tag_name) # Len(r.timer_tag_value)
        THEN "flattened_tags"
        ELSE IF r.n_dictionary = 0 /\ (timers # 0 \/ r.tag_name # <<>>)
        THEN "dictionary_index"
        ELSE IF Refused(r) # {}
        THEN IF TooLarge(r, FirstRefused(r)) THEN "representation_limit" ELSE "flattened_tags"
        ELSE IF TagsBefore(r, timers) # Len(r.timer_tag_name)
        THEN "flattened_tags"
        ELSE IF \A s \in {r.timer_tag_name, r.timer_tag_value, r.tag_name, r.tag_value} :
                    InDictionary(r, s)
        THEN "none"
        ELSE "dictionary_index"

\* What the code that runs after the validation relies on: the flattened arrays
\* can be cut into one consecutive piece per timer, of the length the timer
\* states, with nothing left over; every index is inside the dictionary; every
\* stored number fits its field.
CanBeCut(r) ==
    LET timers == Len(r.timer_hit_count)
        tags   == Len(r.timer_tag_name)
    IN  \E cut \in [0..timers -> 0..tags] :
            /\ cut[0] = 0 /\ cut[timers] = tags
            /\ \A i \in 1..timers : cut[i] = cut[i - 1] + r.timer_tag_count[i]

WellFormed(r) ==
    LET timers  == Len(r.timer_hit_count)
        indexes == UNION {Range(s) : s \in {r.timer_tag_name, r.timer_tag_value,
                                            r.tag_name, r.tag_value}}
    IN  /\ timers = r.n_timer_value /\ timers = Len(r.timer_tag_count) /\ timers <= USHRT_MAX
        /\ Len(r.tag_name) = Len(r.tag_value) /\ Len(r.tag_name) <= UINT_MAX
        /\ Len(r.timer_tag_name) = Len(r.timer_tag_value)
        /\ timers # 0 \/ r.tag_name # <<>> => r.n_dictionary > 0
        /\ \A i \in 1..timers : r.timer_hit_count[i] <= INT_MAX /\ r.timer_tag_count[i] <= USHRT_MAX
        /\ CanBeCut(r)
        /\ \A n \in indexes : n < r.n_dictionary

\* A request for which the verdict and the promise agree.
VerdictRight(r) == pinba_validate_request(r) = "none" <=> WellFormed(r)

=============================================================================
