---------------------------- MODULE FlightSearch ----------------------------
(***************************************************************************)
(* Searching flights by text.                                              *)
(*                                                                         *)
(* A query is recognised by rules or by the model, and answered by the     *)
(* provider, day after day until something can be tracked; listings of one *)
(* physical flight are merged, what has ended is left out, and an empty    *)
(* answer says why.  One request is followed from its text to its answer.  *)
(* Times are hours from now.                                               *)
(***************************************************************************)
EXTENDS Integers, SequencesExt, Common

CONSTANTS
  Listing,      \* what a provider lists on a day, see ListingOf in the MC module
  MostListed,   \* bound of the listings in one answer
  Wanted        \* the number a search by number asks for

VARIABLES
  search,       \* the request
  listedDay,    \* the listings kept of what the last day brought, by their places
  listedStatus, \* history: statuses of all flights the days have brought, merged
  windowLost    \* history: half of an airport's day was not answered

searchVars == <<search, listedDay, listedStatus, windowLost>>

-----------------------------------------------------------------------------
(* FlightQueryHandler: what can be tracked. *)

Priority ==
  [EnRoute |-> 0, Departed |-> 1, Approaching |-> 2, Diverted |-> 3, Boarding |-> 4, GateClosed |-> 5,
   CheckIn |-> 6, Delayed |-> 7, Expected |-> 8, Unknown |-> 20, CanceledUncertain |-> 30, Canceled |-> 31,
   Arrived |-> 40]

ActiveStatus == {"EnRoute", "Departed", "Approaching", "Diverted"}
TrackableStatus == ActiveStatus \cup {"Expected", "CheckIn", "Boarding", "GateClosed", "Delayed"}

\* What an empty answer can say.
EmptyReasons == {"landed_only", "results_filtered_out", "missing_date", "provider_no_match"}

\* Listings as they come; None stands for what is missing.
Segment == [scheduled : Int \cup {None}, revised : Int \cup {None}, predicted : Int \cup {None}, runway : Int \cup {None}]
ListingRow ==
  [number : Int, route : {l.route : l \in Listing}, status : DOMAIN Priority, onRoute : BOOLEAN, ofAirline : BOOLEAN,
   dep : Segment, arr : Segment]

ASSUME SearchAssumption == Listing \subseteq ListingRow /\ MostListed \in Nat /\ None \notin Int \cup EmptyReasons

FirstKnown(times) ==
  LET known == SelectSeq(times, LAMBDA t : t # None) IN IF known = <<>> THEN None ELSE Head(known)

\* search_exclusion_reason: None for a flight that can be tracked.
Exclusion(l) ==
  LET arrives == FirstKnown(<<l.arr.runway, l.arr.revised, l.arr.predicted, l.arr.scheduled>>)
      departs == FirstKnown(<<l.dep.runway, l.dep.revised, l.dep.predicted, l.dep.scheduled>>)
  IN IF l.status = "Arrived" THEN "past"
     ELSE IF l.status \in {"Canceled", "CanceledUncertain"} THEN "cancelled"
     ELSE IF l.status \notin TrackableStatus THEN "unknown_status"
     ELSE IF arrives # None THEN IF arrives > 0 THEN None ELSE "past"
     ELSE IF l.status \in ActiveStatus THEN None
     ELSE IF departs # None THEN IF departs > 0 THEN None ELSE "past"
     ELSE "missing_timing"

Trackable(l) == Exclusion(l) = None

-----------------------------------------------------------------------------
(* FlightQueryHandler: merging the listings of one physical flight. *)

\* _sanitize_airport_flight: an estimate too far from the schedule is dropped.
Sanitized(l) ==
  LET Retained(segment, early) == [field \in DOMAIN segment |->
        IF field # "scheduled" /\ segment[field] # None /\ segment.scheduled # None
           /\ (segment[field] - segment.scheduled < -early \/ segment[field] - segment.scheduled > 24)
        THEN None ELSE segment[field]]
  IN [l EXCEPT !.dep = Retained(@, 3), !.arr = Retained(@, 6)]

\* _airport_flight_key, _direct_physical_flight_key: without a complete schedule the
\* number tells flights apart.
PhysicalKey(l) ==
  <<l.route, l.dep.scheduled, l.arr.scheduled,
    IF None \in {l.route, l.dep.scheduled, l.arr.scheduled} THEN l.number ELSE None>>

\* Mutant: a status weighs less than a set of estimates.
ScoreLight(l, requested) ==
  LET Known(t, n) == IF t = None THEN 0 ELSE n
      Estimates(s) == Known(s.runway, 30) + Known(s.predicted, 20) + Known(s.revised, 10)
  IN (IF l.number = requested THEN 10000 ELSE 0) + 1000 - Priority[l.status] + Estimates(l.dep) + Estimates(l.arr)

\* _airport_flight_score, _direct_flight_score.
Score(l, requested) ==
  LET Known(t, n) == IF t = None THEN 0 ELSE n
      Estimates(s) == Known(s.runway, 30) + Known(s.predicted, 20) + Known(s.revised, 10)
  IN (IF l.number = requested THEN 10000 ELSE 0) + 1000 - 20 * Priority[l.status] + Estimates(l.dep) + Estimates(l.arr)

\* From here on listings is a function from places in an answer.
SamePhysical(listings, i) == {j \in DOMAIN listings : PhysicalKey(listings[j]) = PhysicalKey(listings[i])}

\* The first of the best listings of each physical flight.
BestListings(listings, requested) ==
  {i \in DOMAIN listings : \A j \in SamePhysical(listings, i) :
     \/ Score(listings[j], requested) < Score(listings[i], requested)
     \/ Score(listings[j], requested) = Score(listings[i], requested) /\ i <= j}

\* _airport_search_sort_key, _direct_flight_sort_key; what is equal keeps the order in which the
\* flights first came.
SortKey(listings, requested, i) ==
  LET l == listings[i]
  IN <<IF l.number = requested THEN 0 ELSE 1, Priority[l.status],
       IF l.dep.scheduled = None THEN 9999 ELSE l.dep.scheduled, l.number, Min(SamePhysical(listings, i))>>
SortsBefore(a, b) == \E n \in 1..5 : a[n] < b[n] /\ \A k \in 1..(n - 1) : a[k] = b[k]

\* Those of the set before one of it.
Ahead(best, listings, requested, i) ==
  {j \in best : SortsBefore(SortKey(listings, requested, j), SortKey(listings, requested, i))}

\* Merged and sorted.
Ranked(listings, requested) ==
  LET best == BestListings(listings, requested)
  IN [n \in 1..Cardinality(best) |->
        listings[CHOOSE i \in best : Cardinality(Ahead(best, listings, requested, i)) = n - 1]]

-----------------------------------------------------------------------------
(* The request. *)

AirportKind == {"route", "board", "airlineBoard"}
CallKind == AirportKind \cup {"flight", "airline", "random"}

\* upcoming_search_days and the bound of each function: the days after the first.
DaysAhead(kind, dated) ==
  LET byQuery == CASE dated = "today" -> 1 [] dated = "no" -> 3 [] OTHER -> 0
      byKind == CASE kind \in {"flight", "airlineBoard"} -> 3 [] kind = "route" -> 2 [] kind = "board" -> 1 [] OTHER -> 0
  IN IF byQuery < byKind THEN byQuery ELSE byKind

NoSearch == [pc |-> "typed", kind |-> None, dated |-> None, day |-> 0, provider |-> 0, filtered |-> 0,
             landed |-> FALSE, reasons |-> {}, shown |-> <<>>, reason |-> None, sampled |-> FALSE]

SearchInit ==
  /\ search = NoSearch
  /\ listedDay = <<>>
  /\ listedStatus = {}
  /\ windowLost = FALSE

\* The answer is an explanation, kept as a sample of failed searches.
Explained(why) == [search EXCEPT !.pc = "done", !.reason = why, !.sampled = TRUE]

\* The text, as normalize_query and the rules see it.
Submit(kind, dated) ==
  /\ search.pc = "typed"
  /\ search' = CASE kind = "vague" -> [Explained("ask_back") EXCEPT !.kind = kind]
                 [] OTHER -> [search EXCEPT !.kind = kind, !.dated = dated,
                                            !.pc = CASE kind = "registration" -> "positions"
                                                     [] kind = "unclear" -> "model"
                                                     [] OTHER -> "ask"]
  /\ UNCHANGED <<listedDay, listedStatus, windowLost>>

\* get_function_call: three attempts, an answer that is no valid call of a known
\* function does not count.
AskModel ==
  /\ search.pc = "model"
  /\ \/ \E kind \in CallKind : search' = [search EXCEPT !.kind = kind, !.pc = "ask"]
     \/ search' = Explained("no_results")
  /\ UNCHANGED <<listedDay, listedStatus, windowLost>>

\* resolve_live_aircraft_registration.
AskPositions ==
  /\ search.pc = "positions"
  /\ \/ \E why \in {"provider_rate_limited", "provider_unavailable", "registration_not_live",
                    "registration_live_unresolved"} : search' = Explained(why)
     \/ \E l \in Listing : search' = [search EXCEPT !.pc = "done", !.shown = <<l>>]
  /\ UNCHANGED <<listedDay, listedStatus, windowLost>>

\* What a kind of search keeps of a listing.
Relevant(l, kind) ==
  CASE kind = "route" -> l.onRoute
    [] kind = "airlineBoard" -> l.ofAirline /\ l.route # None
    [] kind = "board" -> l.route # None
    [] OTHER -> TRUE

OnDay(l, k) ==
  LET Moved(segment) == [field \in DOMAIN segment |-> IF segment[field] = None THEN None ELSE segment[field] + 24 * k]
  IN [l EXCEPT !.dep = Moved(@), !.arr = Moved(@)]

\* Mutant: the last day that listed anything decides.
LandedAfterLast(flights) ==
  IF flights = <<>> THEN search.landed ELSE \A l \in Range(flights) : l.status = "Arrived"

\* only_landed_results: every flight of every day that listed any.
LandedAfter(flights) ==
  IF flights = <<>> THEN search.landed
  ELSE /\ \A l \in Range(flights) : l.status = "Arrived"
       /\ search.provider = 0 \/ search.landed

\* What an empty answer says: _execute_search_with_date_fallback_details and
\* recovery_for_empty_result.
EmptyReason(s) ==
  IF s.provider > 0 THEN IF s.landed THEN "landed_only" ELSE "results_filtered_out"
  ELSE IF s.kind = "flight" /\ s.dated = "no" THEN "missing_date"
  ELSE "provider_no_match"

\* What a search keeps of an answer; the estimates of airports are cleaned.
ListedOn(answer, s) ==
  LET listing(i) == OnDay(answer[i], s.day)
  IN [i \in {j \in DOMAIN answer : Relevant(listing(j), s.kind)} |->
        IF s.kind \in AirportKind THEN Sanitized(listing(i)) ELSE listing(i)]

\* The flights among them; any one that can be tracked, if none in particular is meant.
FlightsOf(listings, kind) ==
  CASE kind = "flight" -> Ranked(listings, Wanted)
    [] kind = "random" -> LET good == {i \in DOMAIN listings : Trackable(listings[i])}
                          IN IF good = {} THEN <<>> ELSE <<listings[Min(good)]>>
    [] OTHER -> Ranked(listings, None)
TrackableOf(flights) == SelectSeq(flights, Trackable)

\* The flights of a day have arrived: what can be tracked ends the search, else the
\* next day is asked.
DayAnswered(answer) ==
  LET listings == ListedOn(answer, search)
      flights == FlightsOf(listings, search.kind)
      shown == TrackableOf(flights)
      counted == [search EXCEPT !.provider = @ + Len(flights), !.filtered = @ + Len(flights) - Len(shown),
                                !.landed = LandedAfter(flights),
                                !.reasons = @ \cup {Exclusion(flights[i]) : i \in {j \in DOMAIN flights : ~Trackable(flights[j])}}]
  IN /\ search' = IF shown # <<>> THEN [counted EXCEPT !.pc = "done", !.shown = shown]
                  ELSE IF search.day < DaysAhead(search.kind, search.dated) THEN [counted EXCEPT !.day = @ + 1]
                  ELSE [counted EXCEPT !.pc = "done", !.reason = EmptyReason(counted), !.sampled = TRUE]
     /\ listedDay' = listings
     /\ listedStatus' = listedStatus \cup {flights[i].status : i \in DOMAIN flights}

\* Rows of an earlier search, or the provider; on the first day also the live traffic.
AskFlights ==
  /\ search.pc = "ask" /\ search.kind \notin AirportKind
  /\ \E answer \in BoundedSeq(Listing, MostListed) : DayAnswered(answer)
  /\ UNCHANGED windowLost

\* get_airport_flights: two halves of a day; a lost half is an error only if the other
\* brought nothing in this direction.
AskAirport ==
  /\ search.pc = "ask" /\ search.kind \in AirportKind
  /\ \E answer \in BoundedSeq(Listing, MostListed), lost \in BOOLEAN :
       /\ lost => answer # <<>>
       /\ DayAnswered(answer)
       /\ windowLost' = (windowLost \/ lost)

\* A search by number answers with an explanation, an airport search with a 503.
ProviderFails ==
  /\ search.pc = "ask" /\ search.kind \in AirportKind \cup {"flight"}
  /\ search' = IF search.kind \in AirportKind THEN [search EXCEPT !.pc = "done", !.reason = "503"]
               ELSE [Explained("provider_unavailable") EXCEPT !.provider = 0, !.filtered = 0]
  /\ UNCHANGED <<listedDay, listedStatus, windowLost>>

\* Anything else that fails is sampled as an internal error.
SearchFails ==
  /\ search.pc \in {"ask", "model", "positions"}
  /\ search' = Explained("500")
  /\ UNCHANGED <<listedDay, listedStatus, windowLost>>

SearchNext ==
  \/ \E kind \in CallKind \cup {"vague", "registration", "unclear"}, dated \in {"yesterday", "today", "explicit", "no"} :
       Submit(kind, dated)
  \/ AskModel \/ AskPositions \/ AskFlights \/ AskAirport \/ ProviderFails \/ SearchFails

SearchSpec == SearchInit /\ [][SearchNext]_searchVars

-----------------------------------------------------------------------------
(* Properties. *)

\* Of the listings of one physical flight, one that runs is never hidden by one that is
\* unknown, cancelled or landed, whatever estimates either carries (a search by number
\* prefers its number): _dedupe_airport_flights, _rank_exact_flights.
ActiveWins ==
  search.kind \notin {"flight", "random"} =>
    \A l \in Range(listedDay) : l.status \in TrackableStatus =>
      \E r \in Range(Ranked(listedDay, None)) : PhysicalKey(r) = PhysicalKey(l) /\ r.status \in TrackableStatus

\* An empty answer accounts for every day it asked: all flights that were listed are
\* counted as left out, it says they have landed only if all of them have, and that
\* there are none only if no day listed any.
EmptyAccounted ==
  search.pc = "done" /\ search.reason \in EmptyReasons =>
    /\ search.filtered = search.provider
    /\ search.day = DaysAhead(search.kind, search.dated)
    /\ search.reason = "landed_only" <=> listedStatus = {"Arrived"}
    /\ search.reason \in {"missing_date", "provider_no_match"} <=> listedStatus = {}

\* test_search_recovery.py: "provider 429 is not treated as no match".
NeverFalselyEmpty == search.reason = "provider_no_match" => ~windowLost
=============================================================================
