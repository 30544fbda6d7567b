---------------------------- MODULE EventMatching ----------------------------
(***************************************************************************)
(* find_match: which event of the catalogue a meeting of the other feed    *)
(* is.  Similarities of names are percentages; rapidfuzz, which computes   *)
(* them, is external.                                                      *)
(***************************************************************************)
EXTENDS Integers, Sequences

NoCandidate == [event |-> 0, score |-> 0, method |-> "none"]

\* 60 % name, 25 % organizer, 15 % venue, of which the first two digits count.
Combined(event) == event.name * 60 + event.organizer * 25 + event.venue * 15
Rounded(combined) == (combined + 50) \div 100

\* A similar name scores for itself; another one needs the organizer and the venue.
BugNoThreshold(event) ==
    IF event.name >= 85 THEN [score |-> 85, method |-> "date_strong_name"]
    ELSE IF event.name >= 75 THEN [score |-> 75, method |-> "date_partial"]
    ELSE [score |-> Rounded(Combined(event)), method |-> "combined_fuzzy"]
Scored(event) ==
    IF event.name >= 85 THEN [score |-> 85, method |-> "date_strong_name"]
    ELSE IF event.name >= 75 THEN [score |-> 75, method |-> "date_partial"]
    ELSE IF Combined(event) >= 7000 THEN [score |-> Rounded(Combined(event)), method |-> "combined_fuzzy"]
    ELSE [score |-> 0, method |-> "none"]

\* On the same day, and not matched yet (rejected ones are tried again).
Eligible(event) == event.sameday /\ event.match \in {"unmatched", "rejected"}

\* meeting.id is the TDB id the meeting carries, meeting.named whether it has a
\* name and a date.  The events come in the order of the query, which has none.
FindMatch(meeting, events) ==
    LET same == {i \in DOMAIN events : meeting.id # 0 /\ events[i].tdb = meeting.id}
        best[k \in 0..Len(events)] ==
            IF k = 0 THEN NoCandidate
            ELSE LET s == Scored(events[k]) IN
                 IF Eligible(events[k]) /\ s.score > best[k - 1].score
                 THEN [event |-> k, score |-> s.score, method |-> s.method]
                 ELSE best[k - 1]
    IN  IF same # {} THEN [event |-> CHOOSE i \in same : TRUE, score |-> 100, method |-> "exact_tdb_id"]
        ELSE IF ~meeting.named THEN NoCandidate
        ELSE best[Len(events)]

\* apply_match
Applied(event, meeting) == [event EXCEPT !.equipe = meeting.equipe, !.match = "matched"]

\* run_matching_batch: a meeting's match is applied before the next one is looked for.
MatchBatch(meetings, events) ==
    LET after[k \in 0..Len(meetings)] ==
            IF k = 0 THEN events
            ELSE LET found == FindMatch(meetings[k], after[k - 1]) IN
                 IF found = NoCandidate THEN after[k - 1]
                 ELSE [after[k - 1] EXCEPT ![found.event] = Applied(@, meetings[k])]
    IN  after
=============================================================================
