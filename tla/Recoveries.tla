----------------------------- MODULE Recoveries -----------------------------
(***************************************************************************)
(* Purchases whose selected flight is still being saved: the app reports   *)
(* that one waits, or no longer does, and a loop of the fetcher's process  *)
(* raises an alert for each that waits too long.                           *)
(*                                                                         *)
(* Requests and the loop read a row and commit later; the ORM then writes  *)
(* only the columns that differ from what was read.                        *)
(***************************************************************************)
EXTENDS Naturals, Common

CONSTANTS
  Purchase,       \* verified transactions
  BuyerOf,        \* [Purchase -> the account of its app-account token, or None]
  Production,     \* the purchases whose environment is production
  Buyer,          \* accounts
  Failure,        \* reasons the app gives
  Reporting,      \* workers of the application
  AlertDelay,     \* RECOVERY_ALERT_DELAY_SECONDS
  LastInstant,    \* bound of instant
  MaxReports      \* bound of requests

VARIABLES
  instant,        \* the clock
  recovery,       \* purchase_activation_recovery: [Purchase -> row or None]
  waiting,        \* [Reporting -> request that read the row, or None]
  monitor,        \* the loop: None, or the rows it read and logged
  reports         \* what was used of MaxReports

RecoveryRow ==
  [user : Buyer, state : {"recovery_pending", "resolved"}, reason : Failure \cup {None}, first : Nat,
   due : Nat, last : Nat, resolved : Nat \cup {None}, alerted : Nat \cup {None}]

ASSUME RecoveryAssumption ==
  /\ None \notin RecoveryRow /\ None \notin Nat
  /\ AlertDelay \in Nat /\ LastInstant \in Nat /\ MaxReports \in Nat

recoveryVars == <<instant, recovery, waiting, monitor, reports>>

NewRecovery(u) ==
  [user |-> u, state |-> "recovery_pending", reason |-> None, first |-> instant, due |-> instant + AlertDelay,
   last |-> instant, resolved |-> None, alerted |-> None]

\* Mutant: every column of the row is written.
SavedWhole(current, copy, new) == new

\* The ORM writes the columns that differ from what was read.
SavedColumns(current, copy, new) ==
  [c \in DOMAIN new |-> IF new[c] # copy[c] THEN new[c] ELSE current[c]]

-----------------------------------------------------------------------------
(* report_activation_recovery *)

Owned(t, u) ==
  /\ BuyerOf[t] = u
  /\ recovery[t] # None => recovery[t].user = u

\* Everything but these requests changes nothing: the purchase of another account, a
\* purchase of the sandbox, what is resolved already.
Writes(t, u, state) ==
  /\ Owned(t, u) /\ t \in Production
  /\ IF state = "resolved" THEN recovery[t] # None
     ELSE recovery[t] # None => recovery[t].state # "resolved"

After(t, u, state, reason) ==
  LET row == IF recovery[t] = None THEN NewRecovery(u) ELSE recovery[t]
  IN IF state = "resolved"
     THEN [row EXCEPT !.state = state, !.reason = None, !.last = instant,
                      !.resolved = IF @ = None THEN instant ELSE @]
     ELSE [row EXCEPT !.state = state, !.reason = reason, !.last = instant]

BeginReport(w, t, u, state, reason) ==
  /\ waiting[w] = None /\ reports < MaxReports
  /\ reports' = reports + 1
  /\ IF Writes(t, u, state)
     THEN waiting' = [waiting EXCEPT ![w] = [purchase |-> t, copy |-> recovery[t], new |-> After(t, u, state, reason)]]
     ELSE UNCHANGED waiting
  /\ UNCHANGED <<instant, recovery, monitor>>

\* An insert fails if another request has inserted the row.
CommitReport(w) ==
  /\ waiting[w] # None
  /\ LET t == waiting[w].purchase
         r == waiting[w]
     IN recovery' = IF r.copy # None THEN [recovery EXCEPT ![t] = SavedColumns(@, r.copy, r.new)]
                    ELSE IF recovery[t] = None THEN [recovery EXCEPT ![t] = r.new]
                    ELSE recovery
  /\ waiting' = [waiting EXCEPT ![w] = None]
  /\ UNCHANGED <<instant, monitor, reports>>

\* The worker dies, or the database is locked.
LoseReport(w) ==
  /\ waiting[w] # None
  /\ waiting' = [waiting EXCEPT ![w] = None]
  /\ UNCHANGED <<instant, recovery, monitor, reports>>

-----------------------------------------------------------------------------
(* emit_due_activation_recovery_alerts *)

Overdue(r) == r # None /\ r.state = "recovery_pending" /\ r.due <= instant /\ r.alerted = None

MonitorReads ==
  /\ monitor = None
  /\ \E t \in Purchase : Overdue(recovery[t])
  /\ monitor' = [due |-> {t \in Purchase : Overdue(recovery[t])}, now |-> instant]
  /\ UNCHANGED <<instant, recovery, waiting, reports>>

\* The only column it changed.
MonitorCommits ==
  /\ monitor # None
  /\ recovery' = [t \in Purchase |-> IF t \in monitor.due THEN [recovery[t] EXCEPT !.alerted = monitor.now]
                                     ELSE recovery[t]]
  /\ monitor' = None
  /\ UNCHANGED <<instant, waiting, reports>>

MonitorDies ==
  /\ monitor # None
  /\ monitor' = None
  /\ UNCHANGED <<instant, recovery, waiting, reports>>

InstantPasses ==
  /\ instant < LastInstant
  /\ instant' = instant + 1
  /\ UNCHANGED <<recovery, waiting, monitor, reports>>

RecoveryInit ==
  /\ instant = 0
  /\ recovery = [t \in Purchase |-> None]
  /\ waiting = [w \in Reporting |-> None]
  /\ monitor = None
  /\ reports = 0

RecoveryNext ==
  \/ \E w \in Reporting, t \in Purchase, u \in Buyer :
       \/ BeginReport(w, t, u, "resolved", None)
       \/ \E reason \in Failure : BeginReport(w, t, u, "recovery_pending", reason)
  \/ \E w \in Reporting : CommitReport(w) \/ LoseReport(w)
  \/ MonitorReads \/ MonitorCommits \/ MonitorDies \/ InstantPasses

RecoverySpec == RecoveryInit /\ [][RecoveryNext]_recoveryVars

-----------------------------------------------------------------------------
\* What was resolved never waits again, and no later report gives a purchase that waits
\* another account or a later alert, although reports that read the row before are
\* committed after; an alert that was noted is not forgotten, which would raise it again.
ResolvedStays ==
  [][\A t \in Purchase : recovery[t] # None =>
       /\ recovery'[t].state = "recovery_pending" => recovery[t].state = "recovery_pending"
       /\ recovery'[t].user = recovery[t].user /\ recovery'[t].due = recovery[t].due
       /\ recovery[t].alerted # None => recovery'[t].alerted # None]_recoveryVars
=============================================================================
