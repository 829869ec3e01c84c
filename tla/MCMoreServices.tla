--------------------------- MODULE MCMoreServices ---------------------------
(***************************************************************************)
(* Further components that share no state, one of which runs in each       *)
(* behaviour.                                                              *)
(***************************************************************************)
EXTENDS FlightShare, Cockpit, RevenueAlerts, Recoveries, FlightStore, TLC

VARIABLE component   \* the component that runs

MCBudget == [request |-> 4, view |-> 2, restart |-> 2]

MCSymmetry == Permutations(Share) \cup Permutations(Secret) \cup Permutations(Request)

\* Cockpit: m1 and m2 have one text and tell of one event; m1 is of a saved flight.
MCId == [m1 |-> 1, m2 |-> 2, m3 |-> 3]
MCAge == [m1 |-> 0, m2 |-> 1, m3 |-> 0]
MCNature == [m1 |-> "ordinary", m2 |-> "urgent", m3 |-> "sensitive"]
MCContent == [m1 |-> "c1", m2 |-> "c1", m3 |-> "c2"]
MCHappening == [m1 |-> "h1", m2 |-> "h1", m3 |-> "h2"]
MCTurn == [a1 |-> -1, t1 |-> 0]
MCHits == {<<"a1", "m1">>, <<"t1", "m1">>, <<"t1", "m2">>, <<"t1", "m3">>}
Left(fault, late, reviews, room) == [fault |-> fault, late |-> late, review |-> reviews, room |-> room]
MCAirBudgets == {Left(1, 1, 0, 1), Left(0, 0, 2, 3), Left(1, 0, 1, 3)}

\* RevenueAlerts: x1 may be bought before the alerts are enabled.
MCBoughtAt == [x1 |-> 0, x2 |-> 1]

\* Recoveries: b2 is a purchase of the sandbox.
MCBuyerOf == [b1 |-> "a1", b2 |-> "a1"]

\* FlightStore: a flight that goes on tomorrow under two numbers, another one near it, and
\* numbers of which only the airport's departures know a time.
Aircraft(number, aircraft, airport, time, over) ==
  [number |-> number, callsign |-> number, aircraft |-> aircraft, located |-> ~over, over |-> over,
   airport |-> airport, time |-> time]
MCListings ==
  [A1 |-> [d0 |-> <<Aircraft("A1", "m1", "p1", 9, TRUE)>>, d1 |-> <<Aircraft("B1", "m1", "p2", 8, FALSE), Aircraft("A1", None, "p2", 8, FALSE)>>],
   A2 |-> [d0 |-> <<Aircraft("A2", None, "p1", 10, FALSE)>>, d1 |-> <<>>],
   X1 |-> [d0 |-> <<Aircraft("X1", "m2", "p2", 10, FALSE)>>, d1 |-> <<>>]]
MCBoard == [A1 |-> None, A2 |-> [number |-> "A2", time |-> 12], X1 |-> None]
MCStoreDays == <<"d0", "d1">>
Aim(callsign, aircraft) == [callsign |-> callsign, aircraft |-> aircraft]
PickOf(kind, user, candidates, time) ==
  [kind |-> kind, user |-> user, candidates |-> candidates, day |-> "d0", airport |-> "p1", time |-> time]
MCPick ==
  {PickOf("several", "w1", <<Aim("A1", "m1"), Aim("A2", None)>>, None),
   PickOf("one", "w1", <<Aim("A1", None)>>, None),
   PickOf("exact", "w1", <<Aim("X1", None), Aim("A2", None)>>, 10),
   PickOf("exact", "w1", <<Aim("A2", None)>>, 12)}

sumVars == <<component, vars, airVars, revenueVars, recoveryVars, flightStoreVars>>

SumInit ==
  /\ component \in {"shares", "stories", "revenue", "recovery", "pick"}
  /\ Init /\ AirInit /\ RevenueInit /\ RecoveryInit /\ FlightStoreInit
  /\ component # "stories" => airLeft.review = 2       \* one of its initial states
  /\ component # "shares" => link = {} /\ ended = {}   \* the same

\* The timer goes on beyond LastTenth.
Beyond == tenth = LastTenth /\ lastRun = tenth /\ refresh = Off /\ UNCHANGED airVars

\* Requests go on beyond the bounds of their number.
BeyondReports ==
  /\ reports = MaxReports /\ instant = LastInstant /\ monitor = None /\ \A w \in Reporting : waiting[w] = None
  /\ UNCHANGED recoveryVars
BeyondPicks == asked = MostRequests /\ (\A w \in Handler : handling[w] = None) /\ UNCHANGED flightStoreVars

SumNext ==
  /\ UNCHANGED component
  /\ \/ component = "shares" /\ Next /\ UNCHANGED <<airVars, revenueVars, recoveryVars, flightStoreVars>>
     \/ /\ component = "stories" /\ (AirNext \/ Beyond)
        /\ UNCHANGED <<vars, revenueVars, recoveryVars, flightStoreVars>>
     \/ component = "revenue" /\ RevenueNext /\ UNCHANGED <<vars, airVars, recoveryVars, flightStoreVars>>
     \/ /\ component = "recovery" /\ (RecoveryNext \/ BeyondReports)
        /\ UNCHANGED <<vars, airVars, revenueVars, flightStoreVars>>
     \/ /\ component = "pick" /\ (FlightStoreNext \/ BeyondPicks)
        /\ UNCHANGED <<vars, airVars, revenueVars, recoveryVars>>

SumSpec == SumInit /\ [][SumNext]_sumVars
=============================================================================
