----------------------------- MODULE MCServices -----------------------------
(***************************************************************************)
(* Components that share no state, one of which runs in each behaviour.    *)
(***************************************************************************)
EXTENDS Subscriptions, StoryPush, FlightAlerts, PushToStart, FlightSearch, SearchFailures,
        Experiments, TLC

VARIABLE component   \* the component that runs

\* Subscriptions: a first period, its renewal, and a Lifetime purchase.
MCOriginal == [t1 |-> "s1", t2 |-> "s1"]
MCPurchaseDate == [t1 |-> 0, t2 |-> 1]
MCExpiresDate == [t1 |-> 1, t2 |-> 3]
MCToken == [t1 |-> "u1", t2 |-> None]
MCStoreBudget == [apple |-> 2, request |-> 3]
Form(kind, snapshot, renewal, grace) == [kind |-> kind, snapshot |-> snapshot, renewal |-> renewal, grace |-> grace]
MCNoticeForm ==
  {Form("refund", TRUE, FALSE, FALSE), Form("refund_reversed", TRUE, FALSE, FALSE),
   Form("grace_period_started", TRUE, TRUE, TRUE), Form("expiration", TRUE, TRUE, FALSE),
   Form("billing_failure", FALSE, TRUE, FALSE), Form("auto_renew_disabled", TRUE, TRUE, FALSE)}

\* StoryPush: one reader with a phone, which may move to another time zone or be joined by
\* a second one; the third story is a later one that reads like the first.
MCOffset == [z1 |-> 0, z2 |-> 3]
MCFingerprint == [s1 |-> "p1", s2 |-> "p2", s3 |-> "p1"]
MCReceived == [s1 |-> 9, s2 |-> 9, s3 |-> 33]
MCPhoneRow(k, z) == [user |-> "r1", token |-> k, active |-> TRUE, enabled |-> TRUE, zone |-> z]
MCPhoneAtStart == [d1 |-> MCPhoneRow("k1", "z1"), d2 |-> None]
MCTier == [s1 |-> 2, s2 |-> 1, s3 |-> 2]
MCKind == [s1 |-> "a", s2 |-> "b", s3 |-> "a"]
MCFollows == {<<"r1", "s1">>}
MCPushBudget == [app |-> 1, run |-> 2]

\* FlightAlerts: times in minutes around the schedule.
EndOf(revised, predicted, runway, gate) ==
  [scheduled |-> 0, revised |-> revised, predicted |-> predicted, runway |-> runway, gate |-> gate]
Snap(status, aircraft, dep, arr) == [status |-> status, aircraft |-> aircraft, departure |-> dep, arrival |-> arr]
Quiet == EndOf(None, None, None, None)
MCFlightAtFirst == Snap("Expected", None, Quiet, Quiet)
MCFlightSnapshot == {
  Snap("Expected", None, EndOf(6, None, None, None), Quiet),
  Snap("Expected", None, EndOf(12, None, None, None), EndOf(None, 12, None, None)),
  Snap("Expected", "N1", EndOf(-12, None, None, "g1"), EndOf(None, 6, None, None)),
  Snap("Boarding", "N1", Quiet, EndOf(None, 12, None, None)),
  Snap("Departed", None, EndOf(12, None, 12, "g1"), EndOf(-12, None, None, None)),
  Snap("Canceled", None, Quiet, EndOf(None, 12, None, None))}
MCStatusRank == [Expected |-> 40, Boarding |-> 105, Departed |-> 100, Canceled |-> 120]
MCDetailRank == [gate |-> 110]
MCAlertBudget == [snapshot |-> 3, reset |-> 1]

\* PushToStart: one phone, one activity at most.
MCStartBudget == [pass |-> 3, app |-> 3, flight |-> 1]

\* FlightSearch: listings that are one flight, flights of other routes, without times.
ListingOf(number, route, status, sched, est, onRoute) ==
  [number |-> number, route |-> route, status |-> status, onRoute |-> onRoute, ofAirline |-> number = 1,
   dep |-> [scheduled |-> sched, revised |-> None, predicted |-> None, runway |-> None],
   arr |-> [scheduled |-> IF sched = None THEN None ELSE sched + 2, revised |-> est, predicted |-> est, runway |-> est]]
MCListing ==
  {ListingOf(1, "r1", "Expected", 4, None, TRUE), ListingOf(2, "r1", "Unknown", 4, 6, TRUE),
   ListingOf(2, "r1", "Arrived", -5, -3, TRUE), ListingOf(1, "r2", "Canceled", -5, 40, FALSE),
   ListingOf(1, None, "Departed", None, None, FALSE)}

\* SearchFailures: one sample of the older version.
MCSampleAtStart ==
  [i1 |-> [owner |-> "u1", query |-> "q1", source |-> "backend", reason |-> "generic", journey |-> None,
           created |-> 0, expires |-> 5]]
MCSampleBudget == [app |-> 1, report |-> 1, sweep |-> 1]

\* ActivationJourney, Diagnostics, Experiments: one installation; per behaviour a few requests.
Requests(assign, enroll, settings, attribute, answers, goals, events, legacy) ==
  [assign |-> assign, enroll |-> enroll, settings |-> settings, attribute |-> attribute, answers |-> answers,
   goals |-> goals, events |-> events, legacy |-> legacy]
MCJourneyBudgets ==
  {Requests(2, 0, 1, 1, 0, 0, 1, 0), Requests(1, 2, 0, 0, 2, 0, 0, 0), Requests(1, 1, 0, 0, 0, 0, 1, 0),
   Requests(0, 0, 0, 0, 0, 3, 0, 0), Requests(0, 0, 0, 0, 0, 0, 3, 0), Requests(1, 0, 0, 0, 0, 0, 0, 2)}
MCEnrolledAt == [e1 |-> 1]
MCCheckoutOwner == [t1 |-> "u1"]
MCCheckoutSubscription == [t1 |-> "s1"]
MCCheckoutAt == [t1 |-> 1]
Context(source, variant) == [key |-> <<"journey", "n1">>, event |-> "e1", source |-> source, variant |-> variant]
Sent(id, name, less, context, attempt, at) ==
  [id |-> id, install |-> "n1", name |-> name, cohortless |-> less, context |-> context, attempt |-> attempt, at |-> at]
MCClientEvent == {
  Sent("v1", "enrolled", FALSE, Context("server_assignment", "goals"), None, 0),
  Sent("v2", "selected_flight", FALSE, Context("configuration_fallback", "standard"), None, 0),
  Sent("v1", "checkout_completed", TRUE, None, "c1", 0),
  Sent("v3", "checkout_completed", TRUE, None, "c1", 0),
  Sent("v2", "onboarding", FALSE, None, None, 1)}
MCGoalsAtStart == {[n1 |-> None], [n1 |-> [owner |-> "u1", at |-> 0, keys |-> "g1"]]}

vars == <<component, storeVars, pushVars, alertVars, startVars, searchVars, sampleVars, cohortVars>>

Init ==
  /\ component \in {"store", "push", "alert", "start", "search", "sample", "cohort"}
  /\ StoreInit /\ PushInit /\ AlertInit /\ StartInit /\ SearchInit /\ SampleInit /\ CohortInit
  /\ component # "cohort" => journeyLeft.enroll = 2                          \* one of its initial states
  /\ component # "cohort" \/ journeyLeft.legacy = 2 => goalChoice["n1"] = None   \* the install starts afresh

Next ==
  /\ UNCHANGED component
  /\ \/ component = "store" /\ StoreNext /\ UNCHANGED <<pushVars, alertVars, startVars, searchVars, sampleVars, cohortVars>>
     \/ component = "push" /\ PushNext /\ UNCHANGED <<storeVars, alertVars, startVars, searchVars, sampleVars, cohortVars>>
     \/ component = "alert" /\ AlertNext /\ UNCHANGED <<storeVars, pushVars, startVars, searchVars, sampleVars, cohortVars>>
     \/ component = "start" /\ StartNext /\ UNCHANGED <<storeVars, pushVars, alertVars, searchVars, sampleVars, cohortVars>>
     \/ component = "search" /\ SearchNext /\ UNCHANGED <<storeVars, pushVars, alertVars, startVars, sampleVars, cohortVars>>
     \/ component = "sample" /\ SampleNext /\ UNCHANGED <<storeVars, pushVars, alertVars, startVars, searchVars, cohortVars>>
     \/ component = "cohort" /\ CohortNext /\ UNCHANGED <<storeVars, pushVars, alertVars, startVars, searchVars, sampleVars>>

Spec == Init /\ [][Next]_vars
=============================================================================
