----------------------------- MODULE Experiments -----------------------------
(***************************************************************************)
(* The older experiments: exposures, revision 2 enrollments, conversions,  *)
(* and the answers to the goals question, which come from old apps without *)
(* a revision and from newer ones with one, late or more than once.        *)
(***************************************************************************)
EXTENDS Diagnostics

CONSTANTS
  PaywallArm,      \* variants of the paywall experiment
  LegacyTime,      \* the times an app may report
  GoalsAtStart     \* what ExperimentGoalSelection may hold from before the ledger

\* A row of ExperimentGoalSelection.
ChoiceRow == [owner : Account, at : LegacyTime, keys : GoalAnswer]

VARIABLES
  conversion,      \* ExperimentConversion
  goalLedger,      \* ExperimentGoalConfirmation
  goalReceipt,     \* ExperimentGoalConfirmationReceipt
  goalChoice,      \* ExperimentGoalSelection
  goalAnswered     \* the answers whose sender was told success

cohortVars == <<journeyTables, legacyTables, arm, pending, lateTold, journeyLeft, diagVars,
                conversion, goalLedger, goalReceipt, goalChoice, goalAnswered>>
journeyRest == <<proposal, entry, capture, firstPick, attribution, journeyGoal, journeyReceipt, diagnostic, arm, lateTold, diagVars>>
goalVars == <<goalLedger, goalReceipt, goalChoice, goalAnswered>>

SourceRank == [purchase_registration |-> 0, onboarding_goal_selection |-> 1, onboarding_exposure |-> 2]

\* _upsert_experiment_exposure, after the reservation; the variant never changes.
UpsertExposure(u, x, n, variant, at, source) ==
  LET old == exposure[<<x, n>>]
  IN /\ x = "paywall" /\ cohort[n] # None => cohort[n].variant = variant
     /\ old # None => old.variant = variant
     /\ exposure' = [exposure EXCEPT ![<<x, n>>] =
          IF old = None THEN [owner |-> u, variant |-> variant, at |-> at, source |-> source]
          ELSE IF SourceRank[source] > SourceRank[old.source] THEN [old EXCEPT !.source = source] ELSE old]

-----------------------------------------------------------------------------
(* What begins with reserve_legacy_installation, whose first check precedes the lock. *)

\* report_experiment_exposure, _report_experiment_enrollment, and what create_or_update_transaction
\* records once the purchase is committed: request.kind says which.
BeginLegacy(w, kind, u, n, variant, at, t) ==
  /\ JourneySpend("legacy")
  /\ (kind = "convert") = (t # None)
  /\ Begin(w, [kind |-> kind, user |-> u, install |-> n, variant |-> variant, at |-> at, checkout |-> t], LegacyOpen(n))
  /\ UNCHANGED <<journeyTables, legacyTables, arm, lateTold, diagVars, conversion, goalVars>>

Expose(w) ==
  /\ pending[w] # None /\ pending[w].kind = "expose"
  /\ LET r == pending[w]
     IN /\ ReserveLegacy(r.install, r.user)
        /\ UpsertExposure(r.user, "paywall", r.install, r.variant, r.at, "onboarding_exposure")
  /\ Idle(w)
  /\ UNCHANGED <<journeyRest, cohort, conversion, goalVars, journeyLeft>>

\* An earlier exposure shows that the installation is of revision 1.
EnterCohort(w) ==
  /\ pending[w] # None /\ pending[w].kind = "cohort"
  /\ LET r == pending[w]
         shown == exposure[<<"paywall", r.install>>]
     IN /\ ReserveLegacy(r.install, r.user)
        /\ \/ cohort[r.install] # None /\ cohort[r.install].variant = r.variant /\ UNCHANGED cohort
           \/ /\ cohort[r.install] = None
              /\ shown # None => shown.at >= r.at
              /\ cohort' = [cohort EXCEPT ![r.install] = [owner |-> r.user, variant |-> r.variant, at |-> r.at]]
  /\ Idle(w)
  /\ UNCHANGED <<journeyRest, exposure, conversion, goalVars, journeyLeft>>

\* _record_experiment_conversion: the cohort is the installation's, not the request's.
CohortOf(n, variant) ==
  IF cohort[n] # None THEN cohort[n].variant
  ELSE IF exposure[<<"paywall", n>>] # None THEN exposure[<<"paywall", n>>].variant ELSE variant

Convert(w) ==
  /\ pending[w] # None /\ pending[w].kind = "convert"
  /\ LET r == pending[w]
     IN /\ ReserveLegacy(r.install, r.user)
        /\ UpsertExposure(r.user, "paywall", r.install, r.variant, r.at, "purchase_registration")
        /\ conversion' = [conversion EXCEPT ![r.checkout] =
             IF @ # None THEN @ ELSE [owner |-> r.user, install |-> r.install, variant |-> CohortOf(r.install, r.variant)]]
  /\ Idle(w)
  /\ UNCHANGED <<journeyRest, cohort, goalVars, journeyLeft>>

-----------------------------------------------------------------------------
(* apply_goal_confirmation and report_experiment_goal_selection: the ledger's insert takes
   the lock.  An answer of an old app has no id and revision 0. *)

LegacyAnswer == [id : {None}, revision : {0}, at : LegacyTime, keys : GoalAnswer]
VersionedAnswer == [id : Confirmation, revision : 1..MaxRevision, at : LegacyTime, keys : GoalAnswer]

\* The ledger, filled from an answer that is older than it.
Ledger(n) ==
  IF goalLedger[n] = None /\ goalChoice[n] # None
  THEN [id |-> None, revision |-> 0, at |-> goalChoice[n].at, keys |-> goalChoice[n].keys] ELSE goalLedger[n]

\* Mutant: by the time the answer was selected.
NewerByTime(a, last) == last # None => a.at > last.at

Newer(a, last) ==
  last # None => \/ a.revision > last.revision
                 \/ a.revision = 0 /\ last.revision = 0 /\ a.at > last.at

\* An answer as new as the ledger's is that answer; an older one is only acknowledged.
Stale(a, last) == a = last \/ a.revision # last.revision \/ (a.revision = 0 /\ a.at # last.at)

ChosenGoals(u, a, last, old) ==
  IF ~Newer(a, last) THEN old
  ELSE [owner |-> IF old = None THEN u ELSE old.owner, at |-> a.at, keys |-> a.keys]

ConfirmGoals(u, n, a) ==
  /\ JourneySpend("goals")
  /\ \A row \in {goalChoice[n], exposure[<<"simplified", n>>]} \ {None} : row.owner = u
  /\ LET last == Ledger(n)
     IN /\ \A r \in goalReceipt : r.install = n /\ r.answer.id = a.id => r.answer = a
        /\ last # None /\ a.id # None /\ last.id = a.id => last = a
        /\ ~Newer(a, last) => Stale(a, last)
        /\ goalLedger' = [goalLedger EXCEPT ![n] = IF Newer(a, last) THEN a ELSE last]
        /\ goalReceipt' = IF Newer(a, last) /\ a.id # None
                          THEN goalReceipt \cup {[install |-> n, answer |-> a]} ELSE goalReceipt
        /\ goalChoice' = [goalChoice EXCEPT ![n] = ChosenGoals(u, a, last, @)]
  /\ LegacyOpen(n) /\ ReserveLegacy(n, u)
  /\ UpsertExposure(u, "simplified", n, "treatment_simplified", 0, "onboarding_goal_selection")
  /\ goalAnswered' = goalAnswered \cup {[install |-> n, answer |-> a]}
  /\ UNCHANGED <<journeyRest, pending, cohort, conversion>>

\* What may have been stored before the ledger.
ASSUME GoalAssumption ==
  /\ LegacyTime \subseteq Nat
  /\ GoalsAtStart \subseteq [Install -> ChoiceRow \cup {None}]
  /\ None \notin ChoiceRow \cup LegacyAnswer \cup VersionedAnswer

-----------------------------------------------------------------------------
CohortInit ==
  /\ JourneyInit /\ DiagInit
  /\ cohort = [n \in Install |-> None] /\ diagnostic = [i \in DiagnosticId |-> None]
  /\ conversion = [t \in Checkout |-> None]
  /\ goalLedger = [n \in Install |-> None] /\ goalReceipt = {}
  /\ goalChoice \in GoalsAtStart
  /\ exposure = [k \in LegacyExperiment \X Install |->
       IF k[1] = "paywall" \/ goalChoice[k[2]] = None THEN None
       ELSE [owner |-> goalChoice[k[2]].owner, variant |-> "treatment_simplified", at |-> 0, source |-> "onboarding_goal_selection"]]
  /\ goalAnswered = {[install |-> n, answer |-> Ledger(n)] : n \in {n \in Install : goalChoice[n] # None}}

CohortNext ==
  \/ JourneyNext /\ UNCHANGED <<diagVars, conversion, goalVars>>
  \/ DiagNext /\ UNCHANGED <<conversion, goalVars>>
  \/ \E w \in CohortWorker, kind \in {"expose", "cohort", "convert"}, u \in Account, n \in Install, v \in PaywallArm,
        at \in LegacyTime, t \in Checkout \cup {None} : BeginLegacy(w, kind, u, n, v, at, t)
  \/ \E w \in CohortWorker : Expose(w) \/ EnterCohort(w) \/ Convert(w)
  \/ \E u \in Account, n \in Install, a \in LegacyAnswer \cup VersionedAnswer : ConfirmGoals(u, n, a)

CohortSpec == CohortInit /\ [][CohortNext]_cohortVars

-----------------------------------------------------------------------------
\* Answers may come late, again and out of order: the stored one is the newest that was
\* acknowledged, by its revision, an answer without one giving way to any that has one
\* (apply_goal_confirmation, confirm_journey_goals).
GoalsNewest ==
  /\ \A n \in Install : goalLedger[n] # None =>
       /\ goalChoice[n].at = goalLedger[n].at /\ goalChoice[n].keys = goalLedger[n].keys
       /\ \A x \in goalAnswered : x.install = n =>
            /\ x.answer.revision <= goalLedger[n].revision
            /\ x.answer.revision = goalLedger[n].revision =>
                 x.answer = goalLedger[n] \/ (x.answer.revision = 0 /\ x.answer.at < goalLedger[n].at)
  /\ \A r \in journeyReceipt :
       LET kept == journeyGoal[r.key]
       IN r.revision <= kept.revision /\ (r.revision = kept.revision => r.answer = kept.answer)
=============================================================================
