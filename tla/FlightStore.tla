----------------------------- MODULE FlightStore -----------------------------
(***************************************************************************)
(* From what the user picked to a stored flight: an aircraft on the map,   *)
(* with the aircraft around it as alternatives, or a flight of the search, *)
(* which is tracked from then on.                                          *)
(*                                                                         *)
(* Requests await the provider between their statements.  Rows they insert *)
(* are uncommitted until they answer; until then they hold the only write  *)
(* transaction, and others that want it may give up.                       *)
(***************************************************************************)
EXTENDS Integers, Sequences, Common

CONSTANTS
  Pick,           \* what users pick: kind, user, seq of candidates, airport, time
  Listings,       \* [designator -> [day -> seq of flights the provider lists]]
  Board,          \* [designator -> what the airport's departures list, or None]
  StoreDays,      \* the days of a lookup, in its order: today, yesterday, tomorrow
  Handler,        \* requests under way
  MostRequests    \* bound of asked

\* The normalized code of an aircraft: empty without one, and of one without a code.
Normal(aircraft) == IF aircraft = None THEN "empty" ELSE aircraft

ASSUME FlightStoreAssumption ==
  /\ DOMAIN StoreDays \subseteq Nat
  /\ \A p \in Pick :
       /\ p.kind \in {"several", "one", "exact"}
       /\ \A i \in DOMAIN p.candidates : p.candidates[i].callsign \in DOMAIN Listings /\ p.candidates[i].aircraft # "empty"
  /\ \A n \in DOMAIN Listings, k \in DOMAIN StoreDays : DOMAIN Listings[n][StoreDays[k]] \subseteq Nat

VARIABLES
  stored,         \* flight, with departure: the committed rows
  flightLink,     \* userflightlink
  hasSearched,    \* users with has_searched
  writer,         \* the handler that holds the write transaction, or None
  handling,       \* [Handler -> request or None]
  given,          \* history: [pick, which candidate, the row, whether it is tracked, ...]
  asked           \* what was used of MostRequests, which numbers the rows too

flightStoreVars == <<stored, flightLink, hasSearched, writer, handling, given, asked>>

Picked(w) == handling[w].pick
Candidate(w, i) == Picked(w).candidates[i]

\* create_flights_from_aerodatabox_model: a row for each flight of the listing.
NewRows(w, listing, day) ==
  {[id |-> <<handling[w].no, handling[w].at, i>>, day |-> day, number |-> listing[i].number, aircraft |-> listing[i].aircraft,
    airport |-> listing[i].airport, time |-> listing[i].time] : i \in DOMAIN listing}

Becomes(w, request) == handling' = [handling EXCEPT ![w] = request]

-----------------------------------------------------------------------------
(* Which flight is meant. *)

\* The flights of a listing that may be meant: _aerodatabox_live_flight_is_on_route.
Usable(listing, onRoute) == {i \in DOMAIN listing : onRoute => ~listing[i].over}

Best(points) == {x \in DOMAIN points : \A y \in DOMAIN points : points[y] <= points[x]}
First(S) == CHOOSE i \in S : \A j \in S : i <= j

ListedPoints(l, c) ==
  (IF l.callsign = c.callsign THEN 40 ELSE 0) + (IF l.number = c.callsign THEN 20 ELSE 0)
  + (IF l.aircraft # None /\ l.aircraft = Normal(c.aircraft) THEN 50 ELSE 0) + (IF l.located THEN 10 ELSE 0)

\* _select_matching_global_live_flight: the first of the best.
SelectListed(listing, usable, c) == listing[First(Best([i \in usable |-> ListedPoints(listing[i], c)]))]

StoredPoints(r, live, c) ==
  (IF r.number = live.number THEN 20 ELSE 0)
  + (IF live.aircraft # None /\ Normal(r.aircraft) = live.aircraft THEN 30 ELSE 0)
  + (IF c.aircraft # None /\ r.aircraft = c.aircraft THEN 40 ELSE 0)

\* _select_matching_db_flight; of equal ones any.
SelectStored(rows, live, c) == Best([r \in rows |-> StoredPoints(r, live, c)])

\* The days with a flight that may be meant, by their place in the order.
MatchDays(c, onRoute) == {n \in DOMAIN StoreDays : Usable(Listings[c.callsign][StoreDays[n]], onRoute) # {}}

\* _fetch_global_live_flight_match: of the first such day.
MatchOf(c, onRoute) ==
  LET day == StoreDays[First(MatchDays(c, onRoute))]
      listing == Listings[c.callsign][day]
  IN IF MatchDays(c, onRoute) = {} THEN None
     ELSE [day |-> day, listing |-> listing, live |-> SelectListed(listing, Usable(listing, onRoute), c)]

\* FlightPersistence.get_flights, in the session of the request.
StoredFlights(w, number, day) == {r \in stored \cup handling[w].fresh : r.number = number /\ r.day = day}

-----------------------------------------------------------------------------
(* resolve_global_live_flight, resolve_global_live_flight_candidates *)

NewRequest(p) ==
  [no |-> asked + 1, pick |-> p, phase |-> IF p.kind = "exact" THEN "read" ELSE "lookups", at |-> 1,
   task |-> [i \in DOMAIN p.candidates |-> "running"], settled |-> {}, lost |-> {}, linked |-> FALSE,
   match |-> None, found |-> {}, fresh |-> {}, row |-> None]

BeginRequest(w, p) ==
  /\ handling[w] = None /\ asked < MostRequests
  /\ asked' = asked + 1
  /\ handling' = [handling EXCEPT ![w] = NewRequest(p)]
  /\ UNCHANGED <<stored, flightLink, hasSearched, writer, given>>

\* The lookups run side by side; each may fail or time out.
LookupEnds(w, i) ==
  /\ handling[w] # None /\ handling[w].phase \in {"lookups", "insert"} /\ Picked(w).kind # "exact"
  /\ handling[w].task[i] = "running"
  /\ \E m \in {None, MatchOf(Candidate(w, i), Picked(w).kind = "several")} :
       Becomes(w, [handling[w] EXCEPT !.task[i] = IF m = None THEN "none" ELSE "match"])
  /\ UNCHANGED <<stored, flightLink, hasSearched, writer, given, asked>>

\* Mutant: whichever lookup ends first.
TurnOfAny(w, i) == i \notin handling[w].settled

\* The aircraft that was picked comes before those around it, which come as they end.
TurnOf(w, i) == i \notin handling[w].settled /\ (i = 1 \/ 1 \in handling[w].settled)

\* _persist_global_live_flight_match: flights of this number and day are there, or the
\* whole listing is to be inserted.
Settle(w, i) ==
  /\ handling[w] # None /\ handling[w].phase = "lookups"
  /\ handling[w].task[i] \in {"none", "match"} /\ TurnOf(w, i)
  /\ LET m == MatchOf(Candidate(w, i), Picked(w).kind = "several")
         rows == StoredFlights(w, m.live.number, m.day)
     IN IF handling[w].task[i] = "none"
        THEN Becomes(w, [handling[w] EXCEPT !.settled = @ \cup {i}])
        ELSE IF rows = {} THEN Becomes(w, [handling[w] EXCEPT !.phase = "insert", !.at = i, !.match = m])
        ELSE \E r \in SelectStored(rows, m.live, Candidate(w, i)) :
               Becomes(w, [handling[w] EXCEPT !.phase = "commit", !.at = i, !.row = r])
  /\ UNCHANGED <<stored, flightLink, hasSearched, writer, given, asked>>

\* The rows are flushed; the other lookups are then cancelled, which is awaited.
Insert(w) ==
  /\ handling[w] # None /\ handling[w].phase = "insert" /\ writer \in {None, w}
  /\ writer' = w
  /\ LET m == handling[w].match
         rows == NewRows(w, m.listing, m.day)
     IN IF Picked(w).kind = "exact"
        THEN Becomes(w, [handling[w] EXCEPT !.phase = "choose", !.found = rows, !.fresh = @ \cup rows])
        ELSE \E r \in SelectStored(rows, m.live, Candidate(w, handling[w].at)) :
               Becomes(w, [handling[w] EXCEPT !.phase = "commit", !.row = r, !.fresh = rows])
  /\ UNCHANGED <<stored, flightLink, hasSearched, given, asked>>

\* What is left after a rollback.
Released(w) == IF writer = w THEN None ELSE writer

\* The database is locked, or rejects the rows: create_flights rolls back and returns none.
InsertFails(w) ==
  /\ handling[w] # None /\ handling[w].phase = "insert"
  /\ writer' = Released(w)
  /\ Becomes(w, IF Picked(w).kind = "exact" THEN [handling[w] EXCEPT !.phase = "choose", !.found = {}, !.fresh = {}]
                ELSE [handling[w] EXCEPT !.phase = "lookups", !.settled = @ \cup {handling[w].at},
                                         !.lost = @ \cup {handling[w].at}])
  /\ UNCHANGED <<stored, flightLink, hasSearched, given, asked>>

AnswerPick(w, r, track) ==
  given' = given \cup {[no |-> handling[w].no, pick |-> Picked(w), at |-> handling[w].at, row |-> r, track |-> track,
                        firstFailed |-> handling[w].task[1] = "none" \/ 1 \in handling[w].lost]}

Ends(w) == handling' = [handling EXCEPT ![w] = None]

\* The answer to a pick on the map.
CommitResolved(w) ==
  /\ handling[w] # None /\ handling[w].phase = "commit"
  /\ stored' = stored \cup handling[w].fresh
  /\ writer' = Released(w)
  /\ AnswerPick(w, handling[w].row, FALSE)
  /\ Ends(w)
  /\ UNCHANGED <<flightLink, hasSearched, asked>>

\* 404 when nothing is left to try; anything else that fails is rolled back too.
RequestFails(w) ==
  /\ handling[w] # None
  /\ writer' = Released(w)
  /\ Ends(w)
  /\ UNCHANGED <<stored, flightLink, hasSearched, given, asked>>

-----------------------------------------------------------------------------
(* get_exact_flight *)

NextNumber(w) ==
  IF handling[w].at < Len(Picked(w).candidates) THEN [handling[w] EXCEPT !.phase = "read", !.at = @ + 1]
  ELSE [handling[w] EXCEPT !.phase = "board", !.at = 1]

\* FlightService.get_flights: from the database, or else from the provider.
ReadExact(w) ==
  /\ handling[w] # None /\ handling[w].phase = "read"
  /\ LET c == Candidate(w, handling[w].at)
         rows == StoredFlights(w, c.callsign, Picked(w).day)
         listing == Listings[c.callsign][Picked(w).day]
     IN Becomes(w, IF rows # {} THEN [handling[w] EXCEPT !.phase = "choose", !.found = rows]
                   ELSE IF listing = <<>> THEN NextNumber(w)
                   ELSE [handling[w] EXCEPT !.phase = "insert", !.match = [listing |-> listing, day |-> Picked(w).day]])
  /\ UNCHANGED <<stored, flightLink, hasSearched, writer, given, asked>>

\* The flight that was picked: its airport and its time.
Meant(w, r) == r.airport = Picked(w).airport /\ r.time = Picked(w).time

ChooseExact(w) ==
  /\ handling[w] # None /\ handling[w].phase = "choose"
  /\ IF \E r \in handling[w].found : Meant(w, r)
     THEN \E r \in {x \in handling[w].found : Meant(w, x)} :
            Becomes(w, [handling[w] EXCEPT !.phase = "track", !.row = r,
                                           !.linked = <<Picked(w).user, r.id>> \in flightLink])
     ELSE Becomes(w, NextNumber(w))
  /\ UNCHANGED <<stored, flightLink, hasSearched, writer, given, asked>>

\* A link that another request has inserted meanwhile violates the primary key.
TrackExact(w) ==
  /\ handling[w] # None /\ handling[w].phase = "track" /\ writer \in {None, w}
  /\ ~handling[w].linked => <<Picked(w).user, handling[w].row.id>> \notin flightLink
  /\ stored' = stored \cup handling[w].fresh
  /\ flightLink' = flightLink \cup {<<Picked(w).user, handling[w].row.id>>}
  /\ hasSearched' = hasSearched \cup {Picked(w).user}
  /\ writer' = Released(w)
  /\ AnswerPick(w, handling[w].row, TRUE)
  /\ Ends(w)
  /\ UNCHANGED asked

\* get_exact_flight_temp: from the departures of the airport, stored without looking for
\* a row that is there, and not tracked.
FromBoard(w) ==
  /\ handling[w] # None /\ handling[w].phase = "board" /\ writer \in {None, w}
  /\ LET l == Board[Candidate(w, handling[w].at).callsign]
         row == [id |-> <<handling[w].no, handling[w].at, 0>>, day |-> Picked(w).day, number |-> l.number, aircraft |-> None,
                 airport |-> Picked(w).airport, time |-> l.time]
     IN IF l # None /\ Picked(w).time \in {None, l.time}
        THEN /\ stored' = stored \cup handling[w].fresh \cup {row}
             /\ writer' = Released(w)
             /\ AnswerPick(w, row, FALSE)
             /\ Ends(w)
        ELSE /\ handling[w].at < Len(Picked(w).candidates)
             /\ Becomes(w, [handling[w] EXCEPT !.at = @ + 1])
             /\ UNCHANGED <<stored, writer, given>>
  /\ UNCHANGED <<flightLink, hasSearched, asked>>

-----------------------------------------------------------------------------
FlightStoreInit ==
  /\ stored = {} /\ flightLink = {} /\ hasSearched = {}
  /\ writer = None
  /\ handling = [w \in Handler |-> None]
  /\ given = {} /\ asked = 0

FlightStoreNext ==
  \E w \in Handler :
    \/ \E p \in Pick : BeginRequest(w, p)
    \/ handling[w] # None /\ \E i \in DOMAIN Picked(w).candidates : LookupEnds(w, i) \/ Settle(w, i)
    \/ Insert(w) \/ InsertFails(w) \/ CommitResolved(w) \/ RequestFails(w)
    \/ ReadExact(w) \/ ChooseExact(w) \/ TrackExact(w) \/ FromBoard(w)

FlightStoreSpec == FlightStoreInit /\ [][FlightStoreNext]_flightStoreVars

-----------------------------------------------------------------------------
\* What a user is answered is what was picked and is stored: of the candidates of the map
\* the first, unless its lookup failed or its rows were refused, whatever order the
\* lookups end in, by the number the provider gave it, or by its aircraft if that number
\* has none; of the search, and tracked, the flight of its airport and time, although the
\* number may be a recovered one.  A request that fails leaves no rows, nor does a
\* candidate that lost.
AnsweredAsPicked ==
  /\ \A g \in given :
       /\ g.row \in stored
       /\ g.pick.kind = "several" /\ g.at # 1 => g.firstFailed
       /\ g.pick.kind # "exact" =>
            LET c == g.pick.candidates[g.at]
                m == MatchOf(c, g.pick.kind = "several")
            IN /\ g.row.day = m.day
               /\ \/ g.row.number = m.live.number
                  \/ m.live.aircraft = None /\ c.aircraft # None /\ g.row.aircraft = c.aircraft
       /\ g.track => /\ <<g.pick.user, g.row.id>> \in flightLink
                     /\ g.row.airport = g.pick.airport /\ g.row.time = g.pick.time
  /\ \A r \in stored : \E g \in given : g.no = r.id[1] /\ (g.pick.kind = "exact" \/ g.at = r.id[2])
=============================================================================
