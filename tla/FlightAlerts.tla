---------------------------- MODULE FlightAlerts ----------------------------
(***************************************************************************)
(* Alerts about a followed flight.                                         *)
(*                                                                         *)
(* AeroDataBox posts snapshots of the flight.  A worker reads the flight   *)
(* and the times users were last told, picks at most one alert, writes the *)
(* snapshot and the times, and sends the alert after its commit.  Several  *)
(* workers may do so at once; the ORM writes the columns that differ from  *)
(* what it read.                                                           *)
(***************************************************************************)
EXTENDS Integers, FiniteSetsExt, Common

CONSTANTS
  AlertWorker,    \* webhook requests in progress
  FlightSnapshot, \* snapshots the provider may post
  FlightAtFirst,  \* the flight's row when it was added
  StatusRank,     \* [status -> priority of its alert]
  Detail,         \* the fields announced at each end: gate, terminal, ...
  DetailRank,     \* [Detail -> priority of its alert]
  AlertBudget     \* bound of snapshots posted and of resets of the badge

VARIABLES
  flightRow,      \* Flight with its Departure and Arrival
  notice,         \* FlightTimeNotice, by end
  badge,          \* User.notification_count of a follower
  alerter,        \* the workers
  told,           \* history: the time of the last alert about an end, else what was shown
  chosen,         \* history: the alert of the last commit
  latest,         \* history: the snapshot of the last commit
  lone,           \* history: the last commit saw no other in between
  raced,          \* history: some commit did, or an alert was not delivered
  alertLeft       \* what is left of AlertBudget

alertVars == <<flightRow, notice, badge, alerter, told, chosen, latest, lone, raced, alertLeft>>

End == {"departure", "arrival"}
TimeField == {"scheduled", "revised", "predicted", "runway"}

\* The priorities of alerts.
AlertRank == 10..120

\* What is known of an end, and of a flight.
IsEnd(x) == x = [c \in TimeField \cup Detail |-> x[c]] /\ \A c \in TimeField : x[c] \in Int \cup {None}
IsFlight(f) ==
  /\ f = [status |-> f.status, aircraft |-> f.aircraft, departure |-> f.departure, arrival |-> f.arrival]
  /\ f.status \in DOMAIN StatusRank
  /\ IsEnd(f.departure) /\ IsEnd(f.arrival)

ASSUME AlertAssumption ==
  /\ \A f \in FlightSnapshot \cup {FlightAtFirst} : IsFlight(f)
  /\ \A x \in DOMAIN StatusRank : StatusRank[x] \in AlertRank
  /\ DetailRank \in [Detail -> AlertRank]
  /\ None \notin Int

AlertSpend(e) == alertLeft[e] > 0 /\ alertLeft' = [alertLeft EXCEPT ![e] = @ - 1]

AtRest == [pc |-> "idle"]
NoAlert == [kind |-> "none"]

AlertInit ==
  /\ flightRow = FlightAtFirst
  /\ notice = [e \in End |-> None]
  /\ badge = 0
  /\ alerter = [w \in AlertWorker |-> AtRest]
  /\ told = [e \in End |-> None]
  /\ chosen = NoAlert
  /\ latest = FlightAtFirst
  /\ lone = TRUE
  /\ raced = FALSE
  /\ alertLeft = AlertBudget

-----------------------------------------------------------------------------
(* Which alert. *)

Abs(n) == IF n < 0 THEN -n ELSE n

\* expected_time_utc
Expected(x) ==
  IF x.revised # None THEN x.revised ELSE IF x.predicted # None THEN x.predicted ELSE x.scheduled

\* DEPARTURE_TIME_SETTLED, ARRIVAL_TIME_SETTLED
FlightOver(e) == {"Arrived", "Canceled", "CanceledUncertain", "Diverted"}
            \cup (IF e = "departure" THEN {"Departed", "EnRoute", "Approaching"} ELSE {})

Settled(row, snap, e) ==
  snap.status \in FlightOver(e) \/ row[e].runway # None \/ snap[e].runway # None \/ Expected(snap[e]) = None

\* Mutant: the move is measured from the snapshot before.
KnownFromRow(row, notices, e) == Expected(row[e])

\* What users know of an end: what they were told, else what the app shows.
Known(row, notices, e) == IF notices[e] # None THEN notices[e] ELSE Expected(row[e])

\* extract_time_alert
Moved(row, snap, notices, e) ==
  /\ ~Settled(row, snap, e)
  /\ Known(row, notices, e) # None
  /\ Abs(Expected(snap[e]) - Known(row, notices, e)) >= 10

\* The priority of a time alert depends on the delay against the schedule.
TimeRank(row, snap, notices, e) ==
  LET old == IF snap[e].scheduled # None THEN snap[e].scheduled ELSE Known(row, notices, e)
      delay == Expected(snap[e]) - old
  IN IF delay > 0 THEN 115 ELSE IF delay < 0 THEN 90 ELSE 65

\* Changes of status and aircraft, then of each end's fields and time; a field that
\* was retracted is no news.
Alerts(row, snap, notices) ==
  LET place(e) == IF e = "departure" THEN 3 ELSE 5
  IN {[kind |-> "status", end |-> None, rank |-> StatusRank[snap.status], place |-> 1] :
        x \in {y \in {1} : row.status # snap.status}}
     \cup {[kind |-> "aircraft", end |-> None, rank |-> 50, place |-> 2] :
        x \in {y \in {1} : snap.aircraft # None /\ row.aircraft # snap.aircraft}}
     \cup {[kind |-> "detail", end |-> e, rank |-> Max({DetailRank[d] : d \in {c \in Detail : snap[e][c] \notin {None, row[e][c]}}}),
            place |-> place(e)] :
        e \in {x \in End : \E d \in Detail : snap[x][d] \notin {None, row[x][d]}}}
     \cup {[kind |-> "time", end |-> e, rank |-> TimeRank(row, snap, notices, e), place |-> place(e) + 1] :
        e \in {x \in End : Moved(row, snap, notices, x)}}

\* consolidate_notification_batches: the highest priority, then the first.
Chosen(alerts) ==
  IF alerts = {} THEN NoAlert
  ELSE CHOOSE a \in alerts : \A b \in alerts : a.rank > b.rank \/ (a.rank = b.rank /\ a.place <= b.place)

\* Mutant: an alert that another one outranks counts as sent.
NotifiedIfMoved(row, snap, notices, e, alert) ==
  IF Moved(row, snap, notices, e) THEN Expected(snap[e])
  ELSE IF Settled(row, snap, e) THEN notices[e]
  ELSE IF Known(row, notices, e) = None THEN Expected(snap[e]) ELSE Known(row, notices, e)

\* notified_times after the choice; None stays without a row.
Notified(row, snap, notices, e, alert) ==
  IF Settled(row, snap, e) THEN notices[e]
  ELSE IF Known(row, notices, e) = None \/ (alert.kind = "time" /\ alert.end = e) THEN Expected(snap[e])
  ELSE Known(row, notices, e)

-----------------------------------------------------------------------------
(* The handler. *)

\* The flight, its devices and its notices are read.
HandleRead(w, snap) ==
  /\ alerter[w] = AtRest
  /\ AlertSpend("snapshot")
  /\ alerter' = [alerter EXCEPT ![w] = [pc |-> "read", snap |-> snap, row |-> flightRow, notices |-> notice]]
  /\ UNCHANGED <<flightRow, notice, badge, told, chosen, latest, lone, raced>>

\* A value the ORM writes: the new one if it differs from the copy.
Column(current, copy, new) == IF new # copy THEN new ELSE current

\* update_flight_from_webhook_data: status and aircraft as they are in the snapshot, and
\* what it has of both ends.
Updated(row, copy, snap) ==
  [row EXCEPT
     !.status = Column(@, copy.status, snap.status),
     !.aircraft = Column(@, copy.aircraft, snap.aircraft),
     !.departure = [c \in TimeField \cup Detail |->
        IF snap.departure[c] = None THEN row.departure[c]
        ELSE Column(row.departure[c], copy.departure[c], snap.departure[c])],
     !.arrival = [c \in TimeField \cup Detail |->
        IF snap.arrival[c] = None THEN row.arrival[c]
        ELSE Column(row.arrival[c], copy.arrival[c], snap.arrival[c])]]

\* One transaction; a first notice that another worker has inserted meanwhile is a
\* violation of the primary key, and all is rolled back.
HandleCommit(w) ==
  LET snap == alerter[w].snap
      copy == alerter[w].row
      notices == alerter[w].notices
      alert == Chosen(Alerts(copy, snap, notices))
      new == [e \in End |-> Notified(copy, snap, notices, e, alert)]
      alone == copy = flightRow /\ notices = notice
  IN /\ alerter[w].pc = "read"
     /\ IF \E e \in End : notices[e] = None /\ new[e] # None /\ notice[e] # None
        THEN /\ alerter' = [alerter EXCEPT ![w] = AtRest]
             /\ UNCHANGED <<flightRow, notice, badge, told, chosen, latest, lone, raced>>
        ELSE /\ flightRow' = Updated(flightRow, copy, snap)
             /\ notice' = [e \in End |-> Column(notice[e], notices[e], new[e])]
             /\ badge' = IF alert = NoAlert THEN badge ELSE badge + 1
             /\ alerter' = [alerter EXCEPT ![w] =
                  IF alert = NoAlert THEN AtRest
                  ELSE [pc |-> "send", alert |-> alert, time |-> IF alert.kind = "time" THEN new[alert.end] ELSE None]]
             /\ told' = [e \in End |-> IF told[e] = None /\ ~(alert.kind = "time" /\ alert.end = e)
                                       THEN new[e] ELSE told[e]]
             /\ chosen' = alert
             /\ latest' = snap
             /\ lone' = alone
             /\ raced' = (raced \/ ~alone \/ \E x \in AlertWorker \ {w} : alerter[x].pc = "send")
     /\ UNCHANGED alertLeft

\* send_multiple_batches, a background task: every device of the flight at once.
SendAlert(w) ==
  /\ alerter[w].pc = "send"
  /\ told' = IF alerter[w].alert.kind = "time" THEN [told EXCEPT ![alerter[w].alert.end] = alerter[w].time] ELSE told
  /\ alerter' = [alerter EXCEPT ![w] = AtRest]
  /\ UNCHANGED <<flightRow, notice, badge, chosen, latest, lone, raced, alertLeft>>

\* The worker dies, or APNs cannot be reached.
HandleFail(w) ==
  /\ alerter[w] # AtRest
  /\ raced' = (raced \/ alerter[w].pc = "send")
  /\ alerter' = [alerter EXCEPT ![w] = AtRest]
  /\ UNCHANGED <<flightRow, notice, badge, told, chosen, latest, lone, alertLeft>>

\* clear_user_notification
ResetBadge ==
  /\ AlertSpend("reset")
  /\ badge # 0
  /\ badge' = 0
  /\ UNCHANGED <<flightRow, notice, alerter, told, chosen, latest, lone, raced>>

AlertNext ==
  \/ \E w \in AlertWorker, s \in FlightSnapshot : HandleRead(w, s)
  \/ \E w \in AlertWorker : HandleCommit(w) \/ SendAlert(w) \/ HandleFail(w)
  \/ ResetBadge

AlertSpec == AlertInit /\ [][AlertNext]_alertVars

-----------------------------------------------------------------------------
(* Properties. *)

Busy == \E w \in AlertWorker : alerter[w].pc = "send"

\* However small the steps of an estimate are, once a snapshot is handled alone users
\* know each open end to ten minutes, unless an alert of the same priority came first:
\* extract_all_notifications_for_flight.
DriftAnnounced ==
  lone /\ latest # FlightAtFirst =>
    \A e \in End :
      \/ latest.status \in FlightOver(e) \/ flightRow[e].runway # None \/ Expected(latest[e]) = None
      \/ Abs(Expected(latest[e]) - IF raced \/ Busy THEN notice[e] ELSE told[e]) < 10
      \/ chosen # NoAlert /\ ~(chosen.kind = "time" /\ chosen.end = e)
         /\ chosen.rank >= TimeRank(flightRow, latest, notice, e)

\* FlightTimeNotice is what users were told last, as long as requests do not overlap and
\* alerts arrive.
NoticeTruthful ==
  ~raced /\ ~Busy => \A e \in End : notice[e] = told[e]
=============================================================================
