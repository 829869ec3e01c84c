-------------------------- MODULE ActivationJourney --------------------------
(***************************************************************************)
(* The full-journey experiments: which journey an installation was given,  *)
(* and the ledgers that carry the context it was given.                    *)
(*                                                                         *)
(* The server proposes a context; the phone may have timed out by then and *)
(* delivered its fallback.  The first context the phone reports is frozen. *)
(* A request is one transaction: its first write takes the database's      *)
(* lock, and what it checked before that may be out of date by then.       *)
(***************************************************************************)
EXTENDS Integers, FiniteSets, Common

CONSTANTS
  Account, Install, CohortWorker,
  EnrollEvent,     \* enrollment_event_id; it stands for the whole assignment request
  EnrolledAt,      \* the time of an enrollment event
  GoalAnswer,      \* sets of goal keys
  Confirmation,    \* confirmation_id
  MaxRevision,     \* bound of confirmation_revision
  Checkout,        \* verified transactions, and for each of them
  CheckoutOwner, CheckoutSubscription, CheckoutAt,
  DiagnosticId,    \* event_id
  JourneyBudgets   \* bounds of the requests of each kind, one of them for a behaviour

VARIABLES
  identity,     \* ActivationJourneyIdentity
  proposal,     \* ActivationJourneyAssignment
  entry,        \* ActivationJourneyEnrollment
  capture,      \* ActivationJourneyDiagnosticContext
  firstPick,    \* ActivationJourneySelection
  attribution,  \* ActivationJourneyAttribution
  journeyGoal, journeyReceipt,  \* ActivationJourneyGoalSelection, ...GoalReceipt
  arm,          \* the variant the settings give to a new installation
  pending,      \* per worker, the request that has passed its first checks
  lateTold,     \* the contexts answered once a context was frozen
  exposure, cohort,  \* ExperimentExposure, ExperimentEnrollment: the older protocol
  diagnostic,   \* ExperimentDiagnosticEvent
  journeyLeft   \* what is left of the behaviour's budget

journeyTables == <<identity, proposal, entry, capture, firstPick, attribution, journeyGoal, journeyReceipt>>
legacyTables == <<exposure, cohort, diagnostic>>

JourneySpend(e) == journeyLeft[e] > 0 /\ journeyLeft' = [journeyLeft EXCEPT ![e] = @ - 1]

\* EXPERIMENTS and their arms; the first arm of the settings is the fallback.
JourneyExperiment == {"journey", "closable"}
Arms == [journey |-> {"standard", "goals"}, closable |-> {"control", "soft"}]
FallbackArm == [journey |-> "standard", closable |-> "control"]

\* The older experiments: a paywall, and the goals question of a simplified onboarding.
LegacyExperiment == {"paywall", "simplified"}

\* identity_key, enrollment_id.
Key == JourneyExperiment \X Install
OtherKeys(k) == {o \in Key : o[2] = k[2] /\ o[1] # k[1]}

\* ActivationJourneyContext and its validator: only a server assignment is randomized,
\* everything else is the fallback experience.
JourneyContext ==
  {c \in [key : Key, event : EnrollEvent, source : {"server_assignment", "server_disabled", "configuration_fallback"},
          variant : UNION {Arms[e] : e \in JourneyExperiment}] :
     /\ c.variant \in Arms[c.key[1]]
     /\ c.source # "server_assignment" => c.variant = FallbackArm[c.key[1]]}
Randomized(c) == c.source = "server_assignment"

\* The rows of the tables.
IdentityRow == [owner : Account, protocol : {"journey", "legacy"}, frozen : JourneyContext \cup {None}]
EntryRow == [owner : Account, context : JourneyContext]
CaptureRow == [key : Key, owner : Account, context : JourneyContext]
AttributionRow == [key : Key, owner : Account, context : JourneyContext, first : Checkout]
JourneyGoalRow == [id : Confirmation, revision : 1..MaxRevision, answer : GoalAnswer]

ASSUME JourneyAssumption ==
  /\ MaxRevision \in Nat
  /\ None \notin JourneyContext \cup IdentityRow \cup EntryRow \cup CaptureRow \cup AttributionRow \cup JourneyGoalRow

\* Old evidence that an installation has begun the older onboarding.
BoundaryEvents(n) ==
  {row.event : row \in {r \in {diagnostic[v] : v \in DiagnosticId} \ {None} :
                 /\ r.event.install = n /\ r.event.name = "onboarding"
                 /\ r.event.context # None \/ ~r.event.cohortless}}
InOldCohort(n) == cohort[n] # None \/ \E x \in LegacyExperiment : exposure[<<x, n>>] # None
KnownLegacy(n) == InOldCohort(n) \/ BoundaryEvents(n) # {}

-----------------------------------------------------------------------------
(* What every request does first. *)

\* _refuse_other_experiment.
Belongs(k) == identity[k] # None \/ proposal[k] # None \/ entry[k] # None
NoOther(k) == \A o \in OtherKeys(k) : ~Belongs(o)

\* reserve_identity: the row after the insert that may have done nothing, and who may go on.
Reserved(k, u, protocol) ==
  IF identity[k] = None THEN [owner |-> u, protocol |-> protocol, frozen |-> None] ELSE identity[k]
JourneyOf(row, u) == row.owner = u /\ row.protocol = "journey"

FrozenBy(row, c) == [row EXCEPT !.frozen = IF @ = None THEN c ELSE @]

\* reserve_legacy_installation: the reservation is the journey experiment's row.
LegacyOpen(n) == identity[<<"closable", n>>] = None
ReserveLegacy(n, u) ==
  LET k == <<"journey", n>>
  IN /\ Reserved(k, u, "legacy").protocol = "legacy"
     /\ identity' = [identity EXCEPT ![k] = Reserved(k, u, "legacy")]

\* A request passes the checks it makes before its first write.
Begin(w, request, checked) ==
  /\ pending[w] = None
  /\ checked
  /\ pending' = [pending EXCEPT ![w] = request]

Idle(w) == pending' = [pending EXCEPT ![w] = None]

\* It is refused later on, or the lock is not had in time: everything is rolled back.
RefuseRequest(w) ==
  /\ pending[w] # None
  /\ Idle(w)
  /\ UNCHANGED <<journeyTables, legacyTables, arm, lateTold, journeyLeft>>

-----------------------------------------------------------------------------
(* assign_journey, assign_closable_flow. *)

BeginAssign(w, u, k, event) ==
  /\ JourneySpend("assign")
  /\ Begin(w, [kind |-> "assign", user |-> u, key |-> k, event |-> event], NoOther(k))
  /\ UNCHANGED <<journeyTables, legacyTables, arm, lateTold>>

\* Mutant: the server's own proposal is looked up first.
ProposalFirst(k, row) ==
  IF proposal[k] # None THEN proposal[k].context ELSE IF row.frozen # None THEN row.frozen
  ELSE IF entry[k] # None THEN entry[k].context ELSE None

\* _existing_assignment.
Existing(k, row) ==
  IF row.frozen # None THEN row.frozen ELSE IF entry[k] # None THEN entry[k].context
  ELSE IF proposal[k] # None THEN proposal[k].context ELSE None

\* What the settings give: an app that does not know the matched paywalls gets the fallback.
Given(k, event) ==
  {[key |-> k, event |-> event, source |-> IF a = "off" THEN "server_disabled" ELSE "server_assignment",
    variant |-> IF a = "off" THEN FallbackArm[k[1]] ELSE a] :
     a \in {arm[k[1]]} \cup IF k[1] = "closable" THEN {"off"} ELSE {}}

Assign(w) ==
  /\ pending[w] # None /\ pending[w].kind = "assign"
  /\ LET k == pending[w].key
         u == pending[w].user
         row == Reserved(k, u, "journey")
         known == Existing(k, row)
     IN /\ JourneyOf(row, u)
        /\ identity' = [identity EXCEPT ![k] = row]
        /\ \/ /\ known # None /\ known.event = pending[w].event
              /\ UNCHANGED proposal
           \/ /\ known = None /\ ~KnownLegacy(k[2])
              /\ \E c \in Given(k, pending[w].event) :
                   proposal' = [proposal EXCEPT ![k] = [owner |-> u, context |-> c]]
        /\ lateTold' = IF row.frozen = None THEN lateTold ELSE lateTold \cup {known}
  /\ Idle(w)
  /\ UNCHANGED <<entry, capture, firstPick, attribution, journeyGoal, journeyReceipt, legacyTables, arm, journeyLeft>>

\* A deployment with other settings.
Resettle(e, a) ==
  /\ JourneySpend("settings")
  /\ a \in Arms[e] \cup {"off"} /\ a # arm[e]
  /\ arm' = [arm EXCEPT ![e] = a]
  /\ UNCHANGED <<journeyTables, legacyTables, pending, lateTold>>

-----------------------------------------------------------------------------
(* validate_journey, enroll_journey. *)

Valid(row, u, c) ==
  LET k == c.key
  IN /\ row # None => JourneyOf(row, u) /\ row.frozen \in {None, c}
     /\ entry[k] # None => entry[k].owner = u /\ entry[k].context = c
     /\ entry[k] = None /\ proposal[k] # None =>
          /\ proposal[k].owner = u
          /\ IF c.source = "configuration_fallback" THEN proposal[k].context.event = c.event
             ELSE proposal[k].context = c
     /\ entry[k] = None /\ proposal[k] = None => c.source = "configuration_fallback"

\* The entry a valid context makes; the enrollment event is unique.
Enter(u, c) ==
  \/ entry[c.key] # None /\ UNCHANGED entry
  \/ /\ entry[c.key] = None
     /\ ~InOldCohort(c.key[2])
     /\ \A v \in BoundaryEvents(c.key[2]) : v.context = c
     /\ \A k \in Key : entry[k] # None => entry[k].context.event # c.event
     /\ entry' = [entry EXCEPT ![c.key] = [owner |-> u, context |-> c]]

\* The route; the closable flow enrolls by its exposure event alone.
BeginEnroll(w, u, c) ==
  /\ JourneySpend("enroll")
  /\ c.key[1] = "journey"
  /\ Begin(w, [kind |-> "enroll", user |-> u, context |-> c], NoOther(c.key))
  /\ UNCHANGED <<journeyTables, legacyTables, arm, lateTold>>

Enroll(w) ==
  /\ pending[w] # None /\ pending[w].kind = "enroll"
  /\ LET c == pending[w].context
         u == pending[w].user
         row == FrozenBy(Reserved(c.key, u, "journey"), c)
     IN /\ row.frozen = c /\ Valid(row, u, c)
        /\ identity' = [identity EXCEPT ![c.key] = row]
        /\ Enter(u, c)
  /\ Idle(w)
  /\ UNCHANGED <<proposal, capture, firstPick, attribution, journeyGoal, journeyReceipt, legacyTables,
                 arm, lateTold, journeyLeft>>

-----------------------------------------------------------------------------
(* record_journey_diagnostic, in the transaction that stored the event v. *)

Enrolls(name, c) == IF c.key[1] = "closable" THEN name = "exposed" \/ ~Randomized(c) ELSE name = "enrolled"

\* The captures left when the expired events have gone.
Without(expired) == [i \in DiagnosticId |-> IF i \in expired THEN None ELSE capture[i]]

RecordJourney(v, u, name, c, expired) ==
  LET row == FrozenBy(Reserved(c.key, u, "journey"), c)
  IN /\ row.frozen = c /\ Valid(row, u, c)
     /\ identity' = [identity EXCEPT ![c.key] = row]
     /\ IF Enrolls(name, c) THEN NoOther(c.key) /\ Enter(u, c) ELSE UNCHANGED entry
     /\ capture' = [Without(expired) EXCEPT ![v] = IF @ = None THEN [key |-> c.key, owner |-> u, context |-> c] ELSE @]
     /\ IF name # "selected_flight" THEN UNCHANGED firstPick
        ELSE /\ firstPick[c.key] \in {None, v}
             /\ firstPick' = [firstPick EXCEPT ![c.key] = v]

-----------------------------------------------------------------------------
(* attribute_journey_transaction, confirm_journey_goals. *)

\* Only the account of the original checkout, and only a purchase of the journey itself.
Attribute(u, k, t) ==
  /\ JourneySpend("attribute")
  /\ entry[k] # None
  /\ LET c == entry[k].context
         mine == [key |-> k, owner |-> u, context |-> c, first |-> t]
         s == CheckoutSubscription[t]
     IN /\ Valid(identity[k], u, c)
        /\ CheckoutOwner[t] = u /\ CheckoutAt[t] >= EnrolledAt[c.event]
        /\ attribution[s] = None
        /\ attribution' = [attribution EXCEPT ![s] = mine]
  /\ UNCHANGED <<identity, proposal, entry, capture, firstPick, journeyGoal, journeyReceipt, legacyTables,
                 arm, pending, lateTold>>

NewerRevision(revision, goal) == goal = None \/ revision > goal.revision

\* A confirmation and its revision belong together, each names one answer for good.
ConfirmJourneyGoals(u, k, id, revision, answer) ==
  /\ JourneySpend("answers")
  /\ entry[k] # None /\ entry[k].context.variant = "goals"
  /\ Valid(identity[k], u, entry[k].context)
  /\ LET receipt == [key |-> k, id |-> id, revision |-> revision, answer |-> answer]
     IN /\ \A r \in journeyReceipt : r.key = k /\ (r.id = id \/ r.revision = revision) => r = receipt
        /\ journeyReceipt' = journeyReceipt \cup {receipt}
        /\ journeyGoal' = [journeyGoal EXCEPT ![k] =
             IF NewerRevision(revision, @) THEN [id |-> id, revision |-> revision, answer |-> answer] ELSE @]
  /\ UNCHANGED <<identity, proposal, entry, capture, firstPick, attribution, legacyTables, arm, pending, lateTold>>

-----------------------------------------------------------------------------
JourneyInit ==
  /\ identity = [k \in Key |-> None] /\ proposal = [k \in Key |-> None] /\ entry = [k \in Key |-> None]
  /\ capture = [v \in DiagnosticId |-> None] /\ firstPick = [k \in Key |-> None]
  /\ attribution = [s \in {CheckoutSubscription[t] : t \in Checkout} |-> None]
  /\ journeyGoal = [k \in Key |-> None] /\ journeyReceipt = {}
  /\ arm = [journey |-> "goals", closable |-> "soft"]
  /\ pending = [w \in CohortWorker |-> None]
  /\ lateTold = {}
  /\ journeyLeft \in JourneyBudgets

JourneyNext ==
  \/ \E w \in CohortWorker, u \in Account, k \in Key, event \in EnrollEvent : BeginAssign(w, u, k, event)
  \/ \E w \in CohortWorker, u \in Account, c \in JourneyContext : BeginEnroll(w, u, c)
  \/ \E w \in CohortWorker : Assign(w) \/ Enroll(w) \/ RefuseRequest(w)
  \/ \E e \in JourneyExperiment : \E a \in Arms[e] \cup {"off"} : Resettle(e, a)
  \/ \E u \in Account, k \in Key, t \in Checkout : Attribute(u, k, t)
  \/ \E u \in Account, k \in Key, id \in Confirmation, r \in 1..MaxRevision, g \in GoalAnswer :
       ConfirmJourneyGoals(u, k, id, r, g)

-----------------------------------------------------------------------------
\* The context an installation's first report froze is the one of its entry, of every
\* event captured, of the purchase attributed to it, and of every later answer to it,
\* although the server's proposal, the settings and the phone's fallback may all differ
\* and answers may be late (validate_journey, _existing_assignment).
ContextAgrees ==
  \A k \in Key :
    LET ledger == {capture[v] : v \in {v \in DiagnosticId : capture[v] # None}}
                    \cup {attribution[s] : s \in {s \in DOMAIN attribution : attribution[s] # None}}
        contexts == (IF entry[k] = None THEN {} ELSE {entry[k].context})
                      \cup {x.context : x \in {x \in ledger : x.key = k}} \cup {c \in lateTold : c.key = k}
    IN contexts # {} => identity[k] # None /\ contexts = {identity[k].frozen}

\* _refuse_other_experiment: "An installation belongs to at most one full-journey
\* experiment."
OneJourney == \A k \in Key : identity[k] # None => \A o \in OtherKeys(k) : identity[o] = None
=============================================================================
