------------------------------ MODULE MCReads ------------------------------
(* Reads with small sets of inputs, for TLC. *)
EXTENDS Reads, TLC

MCIds == {"A", "B", "gone", "s1", "s2"}

\* Four starts in five feed orders, the last without numbers; on time, late, later
\* or without a time.  In the last delay a rider is early.
Numberings == {<<1, 2, 3, 4>>, <<4, 3, 2, 1>>, <<2, 4, 1, 3>>, <<None, 1, None, 2>>, <<None, None, None, None>>}
Delays == {<<0, 0, 0, 0>>, <<0, 30, 30, 30>>, <<0, 0, 500, 500>>, <<0, 90, 300, 1000>>, <<0, 0, -150, 0>>}
Plain(no, position) == [no |-> no, position |-> position, start_at |-> None, result_at |-> None, ride |-> None]
Untimed(numbers) == [i \in 1..4 |-> Plain(numbers[i], 10 - i)]
Running(numbers, delays, timed) ==
    [i \in 1..4 |-> LET k == Place(Untimed(numbers), i) + 1 time == 1000 + k * 100 + delays[k] IN
        IF i \notin timed THEN Untimed(numbers)[i]
        ELSE IF i = 3 THEN [Untimed(numbers)[i] EXCEPT !.result_at = time + 70, !.ride = 70]
        ELSE [Untimed(numbers)[i] EXCEPT !.start_at = time]]
MCClassSections == {[id |-> "A", starts |-> Running(n, d, t), interval |-> i] :
                        n \in Numberings, d \in Delays, t \in SUBSET (1..4), i \in {0, 100}}

\* Photos at the edges of the confidence windows of one or two sections.
Taken == {None, 0, 60, 61, 90, 91, 100, 150, 200, 299, 300, 301, 400, 600, 601, 1000}
StartsAt(a, b) == <<[Plain(1, 1) EXCEPT !.start_at = a], [Plain(2, 2) EXCEPT !.result_at = b]>>
Sections(id) == {[id |-> id, starts |-> StartsAt(a, b), interval |-> i] :
                    a \in {None, 0, 700}, b \in {None, 90, 300}, i \in {0, 150, 900}}
MCSchedules ==
    {<<>>} \cup {<<[ids |-> {"A"}, sections |-> <<s>>], [ids |-> {"A", "B"}, sections |-> <<t>>]>> :
                    s \in Sections("s1"), t \in {u \in Sections("s2") : u.interval # 0}}
           \cup {<<[ids |-> {"A"}, sections |-> <<s, t>>]>> :
                    s \in Sections("s1"), t \in {u \in Sections("s2") : u.interval = 150}}
MCPhotos == [taken : Taken, section : {None, "s2"}, class : {"A"}]
            \cup [taken : {90, 300}, section : {"A", "gone"}, class : {"B"}]

\* Events of one day, whose names, organizers and venues are more or less alike.
CandidateEvents ==
    [tdb : {0}, equipe : {0}, match : {"unmatched"}, sameday : {TRUE},
     name : {40, 74, 75, 90}, organizer : {0, 100}, venue : {80}]
    \cup {[tdb |-> 7, equipe |-> 0, match |-> m, sameday |-> s, name |-> 75, organizer |-> 0, venue |-> 0]
          : m \in {"matched", "rejected"}, s \in BOOLEAN}
MCEventLists == {<<d, e, f>> : d, e \in CandidateEvents, f \in {g \in CandidateEvents : g.tdb = 0}}
Meetings == [id : {0, 7}, equipe : {1}, named : BOOLEAN]
MCMeetingLists == {<<m, [n EXCEPT !.equipe = 2]>> : m, n \in Meetings}

\* Sales of two captured orders and a refunded one, two of them the same photo in two
\* qualities, one with the whole commission of 100 %.
Order(id, status) == [id |-> id, status |-> status]
Sold(photo, order, amount, payout, percent) ==
    [photo |-> photo, quality |-> "web", order |-> order, amount |-> amount, payout |-> payout,
     share |-> IF payout = Unset THEN Unset ELSE SplitAmount(amount, percent).share]
MCSales ==
    {s \in {Sold("p1", order, 4900 * order.id, payout, 33) :
                order \in {Order(1, "captured"), Order(2, "captured"), Order(3, "refunded")},
                payout \in {"owed", "transferred", Unset}}
           \cup {[Sold("p1", Order(1, "captured"), 150000, "owed", 33) EXCEPT !.quality = "high"],
                 Sold("p2", Order(1, "captured"), 4900, "owed", 100),
                 Sold("p3", Order(2, "captured"), 49900, "failed", 15),
                 Sold("p3", Order(3, "refunded"), 1000000, "cancelled", 15),
                 Sold("p4", Order(1, "captured"), 1000100, "owed", 15)}
     : ValidPrice(s.amount)}
MCSaleSets == SUBSET MCSales

RowSymmetry == Permutations(Rows)
=============================================================================
