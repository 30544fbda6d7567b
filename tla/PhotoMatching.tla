---------------------------- MODULE PhotoMatching ----------------------------
(***************************************************************************)
(* Which start of which section a photo was taken at: the start times of a *)
(* class section, known or estimated, and the start nearest to the photo.  *)
(*                                                                         *)
(* Times are seconds; what the feed leaves out is None, and a section      *)
(* without a usable sec_per_start has interval 0.  A start's number,       *)
(* position, times and first positive result time are all that is read.    *)
(***************************************************************************)
EXTENDS Integers, Sequences, FiniteSets

CONSTANT None

Gap(a, b) == IF a < b THEN b - a ELSE a - b

(***************************************************************************)
(* The running order.                                                      *)
(***************************************************************************)

\* Numbered starts first, then those with a position, then the rest.
StartOrder(start) ==
    IF start.no # None THEN <<0, start.no>>
    ELSE IF start.position # None THEN <<1, start.position>> ELSE <<2, 0>>

\* Python's sort is stable: equal starts stay in the feed's order.
Precedes(starts, i, j) ==
    LET a == StartOrder(starts[i]) b == StartOrder(starts[j]) IN
    \/ a[1] < b[1]
    \/ a[1] = b[1] /\ a[2] < b[2]
    \/ a = b /\ i < j

Place(starts, i) == Cardinality({j \in DOMAIN starts : Precedes(starts, j, i)})

(***************************************************************************)
(* Start times.                                                            *)
(***************************************************************************)

\* The time the feed gives, or the result's time less the ride's.
OwnTime(start) ==
    IF start.start_at # None THEN start.start_at
    ELSE IF start.result_at # None /\ start.ride # None THEN start.result_at - start.ride ELSE None

\* dict order: a start's own time before an estimate, each in the feed's order.
EarlierKey(own, i, j) == (i \in own /\ j \notin own) \/ ((i \in own <=> j \in own) /\ i < j)

\* min() takes the first of the nearest.
NearestInOrder(starts, own, timed, i) ==
    CHOOSE n \in timed : \A m \in timed \ {n} :
        LET dn == Gap(Place(starts, n), Place(starts, i))
            dm == Gap(Place(starts, m), Place(starts, i))
        IN  dn < dm \/ (dn = dm /\ EarlierKey(own, n, m))

BugFeedOrder(starts, times, n, i, interval) == times[n] + (i - n) * interval
Estimated(starts, times, n, i, interval) ==
    times[n] + (Place(starts, i) - Place(starts, n)) * interval

\* _estimated_start_times: a start without a time of its own gets one from the
\* start nearest to it in the running order, those estimated before it included.
StartTimes(section) ==
    LET starts == section.starts
        own == {i \in DOMAIN starts : OwnTime(starts[i]) # None}
        times[k \in 0..Len(starts)] ==
            IF k = 0 THEN [i \in own |-> OwnTime(starts[i])]
            ELSE IF k \in own THEN times[k - 1]
            ELSE LET known == times[k - 1] IN
                 [i \in DOMAIN known \cup {k} |->
                    IF i # k THEN known[i]
                    ELSE Estimated(starts, known, NearestInOrder(starts, own, DOMAIN known, k), k, section.interval)]
    IN  IF section.interval = 0 \/ own = {} THEN times[0] ELSE times[Len(starts)]

\* find_nearest_start: without an estimate, the time of the result stands in.
TimeOf(start, times, i) == IF i \in DOMAIN times THEN times[i] ELSE start.result_at
TimesOf(section) ==
    [i \in DOMAIN section.starts |-> TimeOf(section.starts[i], StartTimes(section), i)]

(***************************************************************************)
(* The nearest start.                                                      *)
(***************************************************************************)

SmartWindow(interval) ==
    LET half == interval \div 2 IN IF half < 60 THEN 60 ELSE IF half > 300 THEN 300 ELSE half

BugWindow(delta, interval) ==
    IF delta <= 90 \/ (interval # 0 /\ delta <= SmartWindow(interval)) THEN "high"
    ELSE IF delta <= 300 THEN "medium" ELSE "low"
Confidence(delta, interval) ==
    IF delta <= 90 \/ (interval # 0 /\ delta <= SmartWindow(interval)) THEN "high"
    ELSE IF delta <= 300 THEN "medium" ELSE IF delta <= 600 THEN "low" ELSE "none"

NoMatch == [section |-> None, start |-> None, delta |-> None, confidence |-> "none"]

\* A later start takes the place of an earlier one only if it is strictly nearer.
Nearer(best, delta) == best = None \/ delta < best

NearestOf(times, taken) ==
    LET best[k \in 0..Len(times)] ==
            IF k = 0 THEN NoMatch
            ELSE IF times[k] # None /\ Nearer(best[k - 1].delta, Gap(taken, times[k]))
            THEN [best[k - 1] EXCEPT !.start = k, !.delta = Gap(taken, times[k])]
            ELSE best[k - 1]
    IN  best[Len(times)]

Rated(match, interval) ==
    IF match.delta = None \/ Confidence(match.delta, interval) = "none" THEN NoMatch
    ELSE [match EXCEPT !.confidence = Confidence(match.delta, interval)]

FindNearestStart(taken, section) == Rated(NearestOf(TimesOf(section), taken), section.interval)

\* A section id that the schedule does not know is looked up as a class, even when
\* the photo has a class, too.
WantedClass(photo) == IF photo.section # None THEN photo.section ELSE photo.class

\* The photo's own section, or those of the first class that goes by the wanted id.
CandidateSections(photo, schedule) ==
    LET own == {s \in UNION {{schedule[c].sections[n] : n \in DOMAIN schedule[c].sections}
                             : c \in DOMAIN schedule} : s.id = photo.section}
        named == {c \in DOMAIN schedule : WantedClass(photo) \in schedule[c].ids}
    IN  IF own # {} THEN <<CHOOSE s \in own : TRUE>>
        ELSE IF named = {} THEN <<>>
        ELSE schedule[CHOOSE c \in named : \A d \in named : c <= d].sections

FindBestSection(sections, taken) ==
    LET match == [k \in DOMAIN sections |->
                    [FindNearestStart(taken, sections[k]) EXCEPT !.section = sections[k].id]]
        best[k \in 0..Len(sections)] ==
            IF k = 0 THEN NoMatch
            ELSE IF match[k].confidence # "none" /\ Nearer(best[k - 1].delta, match[k].delta)
            THEN match[k] ELSE best[k - 1]
    IN  best[Len(sections)]

\* match_photo: the start's rider, horse and number become tags only of a photo
\* that was surely taken then.  An error leaves the photo without a match.
Tagged(match) == [match |-> match, tagged |-> match.confidence \in {"high", "medium"}]
MatchPhoto(photo, schedule) ==
    Tagged(IF photo.taken = None THEN NoMatch
           ELSE FindBestSection(CandidateSections(photo, schedule), photo.taken))
=============================================================================
