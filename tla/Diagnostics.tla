----------------------------- MODULE Diagnostics -----------------------------
(***************************************************************************)
(* The app's diagnostic events: batches that may be sent again after a     *)
(* lost answer, while an earlier attempt is still being handled.           *)
(***************************************************************************)
EXTENDS ActivationJourney

CONSTANTS
  ClientEvent,    \* the events the app sends: id, install, name, cohortless, context, attempt, at
  MostEvents,     \* events an account may store within a day
  MostInBatch     \* bound of a batch

\* An event, and its row in the table.
IsEvent(v) == v.id \in DiagnosticId /\ v.install \in Install /\ v.context \in JourneyContext \cup {None} /\ v.at \in Nat
EventRow == [owner : Account, event : ClientEvent]

ASSUME DiagAssumption ==
  /\ IsFiniteSet(ClientEvent) /\ \A v \in ClientEvent : IsEvent(v)
  /\ None \notin EventRow

VARIABLES
  diagClock,      \* the clock, in retention periods
  acknowledged    \* the events whose sender was told success, with its account

diagVars == <<diagClock, acknowledged>>

\* _row, _facts: a row carries every fact of its event.
Row(u, v) == [owner |-> u, event |-> v]

\* The end of a checkout attempt, of which there is one per account and attempt.
Terminal(v) == v.name = "checkout_completed"
EventsOf(u) == {row.event : row \in {r \in {diagnostic[i] : i \in DiagnosticId} \ {None} : r.owner = u}}
Ended(u, attempt) == \E v \in EventsOf(u) : Terminal(v) /\ v.attempt = attempt

Incoming(batch) == {v \in batch : diagnostic[v.id] = None}
StoredToday(u) == Cardinality({v \in EventsOf(u) : v.at = diagClock})

\* Bounded here: of the events of a batch one at most concerns a protocol.
OfJourney(v) == v.context # None
OfLegacy(v) == ~OfJourney(v) /\ ~v.cohortless /\ v.name \in {"onboarding", "paywall"}
Batch1(batch) == Cardinality({v \in batch : OfJourney(v) \/ OfLegacy(v)}) <= 1

-----------------------------------------------------------------------------
(* record_diagnostic_events: everything is validated before the first write. *)

BeginEvents(w, u, batch) ==
  /\ JourneySpend("events")
  /\ Begin(w, [kind |-> "events", user |-> u, batch |-> batch, incoming |-> Incoming(batch), now |-> diagClock],
           /\ Batch1(batch)
           /\ \A v \in batch, x \in batch : v.id = x.id => v = x
           /\ \A v \in batch : /\ v.at = diagClock
                               /\ OfJourney(v) => Valid(identity[v.context.key], u, v.context)
                               /\ diagnostic[v.id] \in {None, Row(u, v)}
           /\ StoredToday(u) + Cardinality(Incoming(batch)) <= MostEvents
           /\ \A v \in Incoming(batch) : Terminal(v) =>
                /\ ~Ended(u, v.attempt)
                /\ \A x \in Incoming(batch) : Terminal(x) /\ x.attempt = v.attempt => x = v)
  /\ UNCHANGED <<journeyTables, legacyTables, arm, lateTold, diagVars>>

\* The primary key and the index of terminal events.
Inserts(u, incoming) ==
  \A v \in incoming : diagnostic[v.id] = None /\ (Terminal(v) => ~Ended(u, v.attempt))

\* The rows are flushed, then what they mean to the experiments is recorded: of every
\* event, those that were there before included.  Old rows go.
StoreEvents(w) ==
  /\ pending[w] # None /\ pending[w].kind = "events"
  /\ LET u == pending[w].user
         batch == pending[w].batch
         Fresh(i) == CHOOSE v \in pending[w].incoming : v.id = i
         stored == [i \in DiagnosticId |-> IF \E v \in pending[w].incoming : v.id = i THEN Row(u, Fresh(i)) ELSE diagnostic[i]]
         expired == {i \in DiagnosticId : stored[i] # None /\ stored[i].event.at < pending[w].now}
         journey == {v \in batch : OfJourney(v)}
         legacy == {v \in batch : OfLegacy(v)}
     IN /\ Inserts(u, pending[w].incoming)
        /\ diagnostic' = [i \in DiagnosticId |-> IF i \in expired THEN None ELSE stored[i]]
        /\ \/ \E v \in journey : RecordJourney(v.id, u, v.name, v.context, expired)
           \/ \E v \in legacy : LegacyOpen(v.install) /\ ReserveLegacy(v.install, u)
                                /\ UNCHANGED <<entry, firstPick>> /\ capture' = Without(expired)
           \/ /\ journey \cup legacy = {}
              /\ capture' = Without(expired)
              /\ UNCHANGED <<identity, entry, firstPick>>
        /\ acknowledged' = acknowledged \cup {[owner |-> u, event |-> v] : v \in batch}
  /\ Idle(w)
  /\ UNCHANGED <<proposal, attribution, journeyGoal, journeyReceipt, exposure, cohort, arm, lateTold, journeyLeft, diagClock>>

\* Mutant: the rows of a batch that collides are taken for those of its first attempt.
ConfirmedBlindly(u, incoming) == TRUE

\* Another attempt has stored something first; all of it must be there, as it was sent.
Confirmed(u, incoming) == \A v \in incoming : diagnostic[v.id] = Row(u, v)

EventsCollide(w) ==
  /\ pending[w] # None /\ pending[w].kind = "events"
  /\ ~Inserts(pending[w].user, pending[w].incoming)
  /\ Confirmed(pending[w].user, pending[w].incoming)
  /\ acknowledged' = acknowledged \cup {[owner |-> pending[w].user, event |-> v] : v \in pending[w].batch}
  /\ Idle(w)
  /\ UNCHANGED <<journeyTables, legacyTables, arm, lateTold, journeyLeft, diagClock>>

\* Ninety days pass.
DiagTick ==
  /\ diagClock = 0
  /\ diagClock' = 1
  /\ UNCHANGED <<journeyTables, legacyTables, arm, pending, lateTold, journeyLeft, acknowledged>>

DiagInit == diagClock = 0 /\ acknowledged = {}

DiagNext ==
  \/ \E w \in CohortWorker, u \in Account, batch \in SUBSET ClientEvent :
       Cardinality(batch) \in 1..MostInBatch /\ BeginEvents(w, u, batch)
  \/ \E w \in CohortWorker : StoreEvents(w) \/ EventsCollide(w)
  \/ DiagTick

-----------------------------------------------------------------------------
\* An event whose sender was told success is stored as it was sent until it expires,
\* although attempts with other batches were handled at the same time; if it is the one
\* that enrolls, its journey has its entry, and no checkout attempt has two ends.
EventsKept ==
  /\ \A a \in acknowledged :
       /\ a.event.at = diagClock => diagnostic[a.event.id] = Row(a.owner, a.event)
       /\ OfJourney(a.event) /\ Enrolls(a.event.name, a.event.context) =>
            /\ entry[a.event.context.key] # None
            /\ entry[a.event.context.key].context = a.event.context
  /\ \A u \in Account, v \in ClientEvent, x \in ClientEvent :
       {v, x} \subseteq EventsOf(u) /\ Terminal(v) /\ Terminal(x) /\ v.attempt = x.attempt => v = x
=============================================================================
