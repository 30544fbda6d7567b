-------------------------------- MODULE Reads --------------------------------
(***************************************************************************)
(* What the application computes from what it reads: the paged lists, with *)
(* a client that pages through them, and the pure functions, each over any *)
(* input of its kind.  A behaviour is of the lists, or takes one input.    *)
(***************************************************************************)
EXTENDS PhotoMatching, EventMatching, Sales, Listing

CONSTANTS
    Ids,             \* of classes and of their sections
    ClassSections,   \* the sections whose start times are looked at
    Photos, Schedules,
    MeetingLists, EventLists,
    SaleSets

VARIABLE input

vars == <<row, query, page, due, input>>

-----------------------------------------------------------------------------
(***************************************************************************)
(* Inputs.                                                                 *)
(***************************************************************************)

Optional == Int \cup {None}
Start == [no : Optional, position : Optional, start_at : Optional, result_at : Optional, ride : Optional]
Section == [id : Ids, starts : Seq(Start), interval : Nat]
Schedule == Seq([ids : SUBSET Ids, sections : Seq(Section)])
Photo == [taken : Optional, section : Ids \cup {None}, class : Ids]

Meeting == [id : Nat, equipe : Nat, named : BOOLEAN]
Event == [tdb : Nat, equipe : Nat, match : {"unmatched", "matched", "rejected"}, sameday : BOOLEAN,
          name : Nat, organizer : Nat, venue : Nat]

\* apply_split gives a sale a share and a payout status, or neither; only the refund of
\* its order cancels or reverses the payout (reverse_order).
IsSale(sale) ==
    /\ sale.amount \in Nat
    /\ sale.payout \in {"owed", "failed", "transferred", "cancelled", "reversed", Unset}
    /\ sale.payout \in {"cancelled", "reversed"} => sale.order.status = "refunded"
    /\ IF sale.payout = Unset THEN sale.share = Unset ELSE sale.share \in 0..sale.amount
IsSaleSet(sales) == IsFiniteSet(sales) /\ \A s \in sales : IsSale(s)

ASSUME ReadsAssumption ==
    /\ None \notin Int
    /\ ClassSections \subseteq Section
    /\ Photos \subseteq Photo
    /\ Schedules \subseteq Schedule
    /\ MeetingLists \subseteq Seq(Meeting)
    /\ EventLists \subseteq Seq(Event)
    /\ \A sales \in SaleSets : IsSaleSet(sales)

NoInput == [kind |-> "none"]

-----------------------------------------------------------------------------
Init == ListingInit /\ input = NoInput

Unread ==
    /\ row = [r \in Rows |-> NoRow]
    /\ query = [list |-> "gallery", class |-> AnyClass, shown |-> FALSE]
    /\ page = 0 /\ due = {}
Ready == Unread /\ input = NoInput
Takes(newInput) == input' = newInput /\ UNCHANGED listingVars

TakeClass == Ready /\ \E s \in ClassSections : Takes([kind |-> "class", section |-> s])

TakePhoto ==
    /\ Ready
    /\ \E p \in Photos, s \in Schedules : Takes([kind |-> "photo", photo |-> p, schedule |-> s])

TakeBatch ==
    /\ Ready
    /\ \E m \in MeetingLists, e \in EventLists : Takes([kind |-> "batch", meetings |-> m, events |-> e])

TakeSales == Ready /\ \E s \in SaleSets : Takes([kind |-> "sales", sales |-> s])

List == input = NoInput /\ ListingNext /\ UNCHANGED input

Next == TakeClass \/ TakePhoto \/ TakeBatch \/ TakeSales \/ List

Spec == Init /\ [][Next]_vars
-----------------------------------------------------------------------------
(***************************************************************************)
(* Properties                                                              *)
(***************************************************************************)

\* The type invariant.
TypeOK ==
    /\ ListingTypeOK
    /\ \/ input = NoInput
       \/ input.kind = "class" /\ input.section \in Section
       \/ input.kind = "photo" /\ input.photo \in Photo /\ input.schedule \in Schedule
       \/ input.kind = "batch" /\ input.meetings \in Seq(Meeting) /\ input.events \in Seq(Event)
       \/ input.kind = "sales" /\ IsSaleSet(input.sales)

KnownTimes(starts) == [i \in {k \in DOMAIN starts : OwnTime(starts[k]) # None} |-> OwnTime(starts[i])]

\* Of two starts the later one in the running order is later, by sec_per_start at least
\* for each place between them.
Spaced(times, section) ==
    \A i, j \in DOMAIN times :
        LET steps == Place(section.starts, j) - Place(section.starts, i) IN
        steps > 0 => times[j] - times[i] >= steps * section.interval

\* Where there is a time and a sec_per_start every start gets a time.  The times the
\* feed has stay, and when those follow the running order, sec_per_start apart, so do
\* the estimated ones, in whatever order the feed lists the starts
\* (_estimated_start_times).
EstimatesKeepOrder ==
    input.kind = "class" =>
        LET section == input.section known == KnownTimes(section.starts) IN
        \A times \in {StartTimes(section)} :
            /\ \A i \in DOMAIN known : i \in DOMAIN times /\ times[i] = known[i]
            /\ section.interval # 0 /\ DOMAIN known # {} => DOMAIN times = DOMAIN section.starts
            /\ Spaced(known, section) => Spaced(times, section)

\* A photo is matched with the first of the nearest starts of its class's sections,
\* if that is at most ten minutes away, and tagged if it is at most five, or within
\* half the section's interval (match_photo, find_nearest_start, _confidence).
NearestStart ==
    input.kind = "photo" =>
        LET taken == input.photo.taken
            sections == CandidateSections(input.photo, input.schedule)
        IN  \A times \in {[k \in DOMAIN sections |-> TimesOf(sections[k])]},
               result \in {MatchPhoto(input.photo, input.schedule)} :
              LET away(x) == Gap(taken, times[x[1]][x[2]])
                  near == IF taken = None THEN {}
                          ELSE {x \in UNION {{k} \X DOMAIN times[k] : k \in DOMAIN times} :
                                    times[x[1]][x[2]] # None /\ away(x) <= 600}
                  first(x) == \A y \in near \ {x} :
                                \/ away(x) < away(y)
                                \/ away(x) = away(y) /\ (x[1] < y[1] \/ (x[1] = y[1] /\ x[2] < y[2]))
              IN  IF near = {} THEN result = [match |-> NoMatch, tagged |-> FALSE]
                  ELSE \E x \in near :
                        /\ first(x)
                        /\ result.match.section = sections[x[1]].id
                        /\ result.match.start = x[2]
                        /\ result.match.delta = away(x)
                        /\ result.tagged <=> away(x) <= 300
                        /\ result.match.confidence = "high" =>
                                away(x) <= 90 \/ 2 * away(x) <= sections[x[1]].interval

\* A batch gives each meeting the event with its TDB id, else the best one of its day
\* that was not matched before and that no meeting of the batch has got; so by name no
\* two meetings get one event (run_matching_batch).
BatchTakesBest ==
    input.kind = "batch" =>
        \A after \in {MatchBatch(input.meetings, input.events)}, k \in DOMAIN input.meetings :
            LET events == input.events
                m == input.meetings[k]
                changed == {i \in DOMAIN events : after[k][i] # after[k - 1][i]}
                same == {i \in DOMAIN events : m.id # 0 /\ events[i].tdb = m.id}
                free == {i \in DOMAIN events : /\ events[i].sameday
                                               /\ events[i].match # "matched"
                                               /\ after[k - 1][i] = events[i]}
                score(i) == Scored(events[i]).score
            IN  IF same # {} THEN \E i \in same : changed \subseteq {i} /\ after[k][i].equipe = m.equipe
                ELSE IF m.named /\ \E i \in free : score(i) >= 70
                THEN \E i \in free : /\ changed = {i}
                                     /\ after[k][i].equipe = m.equipe
                                     /\ score(i) >= 70
                                     /\ \A j \in free : score(j) <= score(i)
                ELSE changed = {}

\* The sales page adds up: what it calls owed is what a settlement would send now, and
\* with what was sent and the sales from before payouts it is the photographer's part,
\* which is never more than the buyers paid (list_my_sales, settle_photographer).
SalesAddUp ==
    input.kind = "sales" =>
        LET sales == input.sales
            totals == SalesTotals(sales)
            earlier == {s \in sales : s.order.status = "captured" /\ s.payout = Unset}
        IN  /\ totals.owed = Settlement(sales)
            /\ totals.photographer_amount
                  = totals.transferred + totals.owed
                    + SumFunctionOnSet([s \in sales |-> ShownShare(s)], earlier)
            /\ totals.photographer_amount <= totals.amount
=============================================================================
