----------------------------- MODULE JourneyProofs -----------------------------
(***************************************************************************)
(* The activation journey and the diagnostics of experiments, together,    *)
(* for every value of their constants.                                     *)
(*                                                                         *)
(* The context an installation froze is the one of its entry, its          *)
(* purchase, its events and its later answers, and a request under way     *)
(* carries it or is refused (ContextInv, the conjuncts of Good). An event  *)
(* that was acknowledged is still stored while its retention lasts, with   *)
(* the entry it makes, and no attempt has two ends (EventsInv). The answer *)
(* to the goals question that is stored is the newest by its revision, and *)
(* every receipt is of a revision no newer (GoalsInv).                     *)
(***************************************************************************)
EXTENDS Experiments, FiniteSetTheorems, TLAPS

-----------------------------------------------------------------------------
(* Types. *)

Bought == {CheckoutSubscription[t] : t \in Checkout}

AssignRequest == [kind : {"assign"}, user : Account, key : Key, event : EnrollEvent]
EnrollRequest == [kind : {"enroll"}, user : Account, context : JourneyContext]
EventsRequest == [kind : {"events"}, user : Account, batch : SUBSET ClientEvent, incoming : SUBSET ClientEvent, now : Nat]
OldRequest == [kind : {"expose", "cohort", "convert"}, user : Account, install : Install, variant : PaywallArm,
               at : LegacyTime, checkout : Checkout \cup {None}]

CohortTypes ==
  /\ identity \in [Key -> IdentityRow \cup {None}]
  /\ proposal \in [Key -> EntryRow \cup {None}]
  /\ entry \in [Key -> EntryRow \cup {None}]
  /\ capture \in [DiagnosticId -> CaptureRow \cup {None}]
  /\ attribution \in [Bought -> AttributionRow \cup {None}]
  /\ journeyGoal \in [Key -> JourneyGoalRow \cup {None}]
  /\ journeyReceipt \subseteq [key : Key, id : Confirmation, revision : 1..MaxRevision, answer : GoalAnswer]
  /\ arm \in [JourneyExperiment -> {"standard", "goals", "control", "soft", "off"}]
  /\ \A e \in JourneyExperiment : arm[e] \in Arms[e] \cup {"off"}
  /\ pending \in [CohortWorker -> AssignRequest \cup EnrollRequest \cup EventsRequest \cup OldRequest \cup {None}]
  /\ lateTold \subseteq JourneyContext
  /\ diagnostic \in [DiagnosticId -> EventRow \cup {None}]
  /\ diagClock \in Nat
  /\ acknowledged \subseteq EventRow
  /\ goalLedger \in [Install -> LegacyAnswer \cup VersionedAnswer \cup {None}]
  /\ goalChoice \in [Install -> ChoiceRow \cup {None}]
  /\ goalAnswered \subseteq [install : Install, answer : LegacyAnswer \cup VersionedAnswer]

\* A frozen context is the one of its key, and it is that of everything that carries one.
Froze(k, c) == identity[k] # None /\ identity[k].frozen = c
Freezes(k, c) == identity'[k] # None /\ identity'[k].frozen = c   \* the same, after the step

ContextInv ==
  /\ \A k \in Key : identity[k] # None /\ identity[k].frozen # None => identity[k].frozen.key = k
  /\ \A k \in Key : entry[k] # None => entry[k].context.key = k /\ Froze(k, entry[k].context)
  /\ \A v \in DiagnosticId : capture[v] # None => Froze(capture[v].key, capture[v].context)
  /\ \A s \in Bought : attribution[s] # None => Froze(attribution[s].key, attribution[s].context)
  /\ \A c \in lateTold : Froze(c.key, c)

-----------------------------------------------------------------------------
(* Rows and contexts. *)

LEMMA ContextFacts ==
  /\ \A c \in JourneyContext : c.key \in Key /\ c # None
  /\ \A k \in Key : k[1] \in JourneyExperiment /\ k[2] \in Install
  /\ \A n \in Install : <<"journey", n>> \in Key
BY JourneyAssumption DEF JourneyContext, Key, JourneyExperiment

LEMMA GivenTyped ==
  ASSUME CohortTypes, NEW k \in Key, NEW event \in EnrollEvent, NEW c \in Given(k, event)
  PROVE  c \in JourneyContext /\ c.key = k
<1>1. k[1] \in JourneyExperiment /\ arm[k[1]] \in Arms[k[1]] \cup {"off"}
  BY ContextFacts DEF CohortTypes
<1>2. PICK a \in {arm[k[1]], "off"} :
        c = [key |-> k, event |-> event, source |-> IF a = "off" THEN "server_disabled" ELSE "server_assignment",
             variant |-> IF a = "off" THEN FallbackArm[k[1]] ELSE a]
  BY DEF Given
<1>3. c.variant \in Arms[k[1]] /\ (a = "off" => c.variant = FallbackArm[k[1]])
  BY <1>1, <1>2 DEF JourneyExperiment, Arms, FallbackArm
<1> QED BY <1>1, <1>2, <1>3 DEF JourneyContext

LEMMA ReservedTyped ==
  ASSUME CohortTypes, NEW k \in Key, NEW u \in Account, NEW protocol \in {"journey", "legacy"}
  PROVE  /\ Reserved(k, u, protocol) \in IdentityRow
         /\ identity[k] # None => Reserved(k, u, protocol) = identity[k]
         /\ identity[k] = None => Reserved(k, u, protocol).frozen = None
BY DEF CohortTypes, Reserved, IdentityRow

LEMMA FrozenTyped ==
  ASSUME NEW row \in IdentityRow, NEW c \in JourneyContext
  PROVE  FrozenBy(row, c) \in IdentityRow /\ FrozenBy(row, c).frozen = IF row.frozen = None THEN c ELSE row.frozen
BY DEF FrozenBy, IdentityRow

\* A frozen context stays.
LEMMA FrozenStays ==
  ASSUME CohortTypes, ContextInv, NEW k \in Key, NEW row \in IdentityRow, identity' = [identity EXCEPT ![k] = row],
         identity[k] # None => identity[k].frozen \in {None, row.frozen},
         row.frozen # None => row.frozen.key = k
  PROVE  /\ identity' \in [Key -> IdentityRow \cup {None}]
         /\ \A o \in Key : identity'[o] # None /\ identity'[o].frozen # None => identity'[o].frozen.key = o
         /\ \A o \in Key, c \in JourneyContext : Froze(o, c) => Freezes(o, c)
<1>1. identity' \in [Key -> IdentityRow \cup {None}]
  BY DEF CohortTypes
<1>2. row # None
  BY JourneyAssumption
<1>3. \A o \in Key : identity'[o] = IF o = k THEN row ELSE identity[o]
  BY DEF CohortTypes
<1>4. ASSUME NEW o \in Key, NEW c \in JourneyContext, Froze(o, c)
      PROVE  Freezes(o, c)
  BY <1>2, <1>3, <1>4, ContextFacts DEF Froze, Freezes
<1>5. ASSUME NEW o \in Key, identity'[o] # None, identity'[o].frozen # None
      PROVE  identity'[o].frozen.key = o
  BY <1>3, <1>5 DEF ContextInv
<1> QED BY <1>1, <1>4, <1>5

LEMMA ReserveLegacyKeeps ==
  ASSUME CohortTypes, ContextInv, NEW n \in Install, NEW u \in Account, ReserveLegacy(n, u)
  PROVE  /\ identity' \in [Key -> IdentityRow \cup {None}]
         /\ \A o \in Key : identity'[o] # None /\ identity'[o].frozen # None => identity'[o].frozen.key = o
         /\ \A o \in Key, c \in JourneyContext : Froze(o, c) => Freezes(o, c)
<1> DEFINE k == <<"journey", n>>
           row == Reserved(k, u, "legacy")
<1>1. k \in Key
  BY ContextFacts
<1>2. row \in IdentityRow /\ (identity[k] # None => row = identity[k]) /\ (identity[k] = None => row.frozen = None)
  BY <1>1, ReservedTyped
<1>3. identity' = [identity EXCEPT ![k] = row]
  BY DEF ReserveLegacy
<1>4. row.frozen # None => row.frozen.key = k
  BY <1>1, <1>2 DEF ContextInv
<1> HIDE DEF k, row
<1> QED BY <1>1, <1>2, <1>3, <1>4, FrozenStays

\* What a step writes into the tables carries the context that is frozen then.
NewEntries == \A k \in Key : entry'[k] # None =>
  entry'[k] = entry[k] \/ (entry'[k].context.key = k /\ Freezes(k, entry'[k].context))
NewCaptures == \A v \in DiagnosticId : capture'[v] # None =>
  capture'[v] = capture[v] \/ Freezes(capture'[v].key, capture'[v].context)
NewAttributions == \A s \in Bought : attribution'[s] # None =>
  attribution'[s] = attribution[s] \/ Freezes(attribution'[s].key, attribution'[s].context)
NewAnswers == \A c \in lateTold' : c \in lateTold \/ Freezes(c.key, c)

LEMMA ContextKept ==
  ASSUME CohortTypes, ContextInv,
         \A o \in Key : identity'[o] # None /\ identity'[o].frozen # None => identity'[o].frozen.key = o,
         \A o \in Key, c \in JourneyContext : Froze(o, c) => Freezes(o, c),
         NewEntries, NewCaptures, NewAttributions, NewAnswers
  PROVE  ContextInv'
<1>1. ASSUME NEW k \in Key, entry'[k] # None
      PROVE  entry'[k].context.key = k /\ Freezes(k, entry'[k].context)
  <2>1. CASE entry'[k] = entry[k]
    <3>1. entry[k] \in EntryRow /\ entry[k].context.key = k /\ Froze(k, entry[k].context)
      BY <1>1, <2>1 DEF CohortTypes, ContextInv
    <3>2. entry[k].context \in JourneyContext
      BY <3>1 DEF EntryRow
    <3> QED BY <2>1, <3>1, <3>2 DEF Froze, Freezes
  <2> QED BY <1>1, <2>1 DEF NewEntries
<1>2. ASSUME NEW v \in DiagnosticId, capture'[v] # None
      PROVE  Freezes(capture'[v].key, capture'[v].context)
  <2>1. CASE capture'[v] = capture[v]
    <3>1. capture[v] \in CaptureRow /\ Froze(capture[v].key, capture[v].context)
      BY <1>2, <2>1 DEF CohortTypes, ContextInv
    <3>2. capture[v].context \in JourneyContext /\ capture[v].key \in Key
      BY <3>1 DEF CaptureRow
    <3> QED BY <2>1, <3>1, <3>2 DEF Froze, Freezes
  <2> QED BY <1>2, <2>1 DEF NewCaptures
<1>3. ASSUME NEW s \in Bought, attribution'[s] # None
      PROVE  Freezes(attribution'[s].key, attribution'[s].context)
  <2>1. CASE attribution'[s] = attribution[s]
    <3>1. attribution[s] \in AttributionRow /\ Froze(attribution[s].key, attribution[s].context)
      BY <1>3, <2>1 DEF CohortTypes, ContextInv
    <3>2. attribution[s].context \in JourneyContext /\ attribution[s].key \in Key
      BY <3>1 DEF AttributionRow
    <3> QED BY <2>1, <3>1, <3>2 DEF Froze, Freezes
  <2> QED BY <1>3, <2>1 DEF NewAttributions
<1>4. ASSUME NEW c \in lateTold'
      PROVE  Freezes(c.key, c)
  <2>1. CASE c \in lateTold
    <3>1. c \in JourneyContext /\ c.key \in Key /\ Froze(c.key, c)
      BY <2>1, ContextFacts DEF CohortTypes, ContextInv
    <3> QED BY <3>1 DEF Froze, Freezes
  <2> QED BY <1>4, <2>1 DEF NewAnswers
<1> QED BY <1>1, <1>2, <1>3, <1>4 DEF ContextInv, Froze, Freezes

LEMMA NothingNew ==
  /\ entry' = entry => NewEntries
  /\ capture' = capture => NewCaptures
  /\ attribution' = attribution => NewAttributions
  /\ lateTold' = lateTold => NewAnswers
BY DEF NewEntries, NewCaptures, NewAttributions, NewAnswers

LEMMA ContextSame ==
  ASSUME CohortTypes, ContextInv, UNCHANGED <<identity, entry, capture, attribution, lateTold>>
  PROVE  ContextInv'
BY DEF ContextInv, Froze

-----------------------------------------------------------------------------
(* The steps. *)

Good == CohortTypes /\ ContextInv

LEMMA BeginsKeep ==
  ASSUME Good, NEW w \in CohortWorker, NEW r \in AssignRequest \cup EnrollRequest \cup EventsRequest \cup OldRequest \cup {None},
         pending' = [pending EXCEPT ![w] = r],
         UNCHANGED <<journeyTables, legacyTables, arm, lateTold, diagClock, acknowledged, conversion, goalVars>>
  PROVE  Good'
<1>1. CohortTypes'
  BY DEF Good, CohortTypes, journeyTables, legacyTables, goalVars
<1>2. ContextInv'
  BY ContextSame DEF Good, journeyTables
<1> QED BY <1>1, <1>2 DEF Good

LEMMA BeginsTyped ==
  ASSUME CohortTypes, NEW u \in Account
  PROVE  /\ \A k \in Key, event \in EnrollEvent :
              [kind |-> "assign", user |-> u, key |-> k, event |-> event] \in AssignRequest
         /\ \A c \in JourneyContext : [kind |-> "enroll", user |-> u, context |-> c] \in EnrollRequest
         /\ \A batch \in SUBSET ClientEvent :
              [kind |-> "events", user |-> u, batch |-> batch, incoming |-> Incoming(batch), now |-> diagClock] \in EventsRequest
         /\ \A kind \in {"expose", "cohort", "convert"}, n \in Install, v \in PaywallArm, at \in LegacyTime, t \in Checkout \cup {None} :
              [kind |-> kind, user |-> u, install |-> n, variant |-> v, at |-> at, checkout |-> t] \in OldRequest
BY DEF AssignRequest, EnrollRequest, EventsRequest, OldRequest, Incoming, CohortTypes

LEMMA AssignKeeps ==
  ASSUME Good, NEW w \in CohortWorker, Assign(w), UNCHANGED <<diagVars, conversion, goalVars>>
  PROVE  Good'
<1> DEFINE k == pending[w].key
           u == pending[w].user
           event == pending[w].event
           row == Reserved(k, u, "journey")
           known == Existing(k, row)
<1> USE DEF Good
<1>1. k \in Key /\ u \in Account /\ event \in EnrollEvent
  BY DEF Assign, CohortTypes, AssignRequest, EnrollRequest, EventsRequest, OldRequest
<1>2. row \in IdentityRow /\ (identity[k] # None => row = identity[k]) /\ (identity[k] = None => row.frozen = None)
  BY <1>1, ReservedTyped
<1>3. row.frozen # None => row.frozen.key = k
  BY <1>1, <1>2 DEF ContextInv
<1>4. /\ identity' = [identity EXCEPT ![k] = row]
      /\ proposal' = proposal \/ \E c \in Given(k, event) : proposal' = [proposal EXCEPT ![k] = [owner |-> u, context |-> c]]
      /\ lateTold' = IF row.frozen = None THEN lateTold ELSE lateTold \cup {known}
      /\ pending' = [pending EXCEPT ![w] = None]
      /\ UNCHANGED <<entry, capture, firstPick, attribution, journeyGoal, journeyReceipt, legacyTables, arm>>
  BY DEF Assign, Idle
<1>5. row.frozen # None => known = row.frozen
  BY DEF Existing
<1> HIDE DEF k, u, event, row, known
<1>6. /\ identity' \in [Key -> IdentityRow \cup {None}]
      /\ \A o \in Key : identity'[o] # None /\ identity'[o].frozen # None => identity'[o].frozen.key = o
      /\ \A o \in Key, c \in JourneyContext : Froze(o, c) => Freezes(o, c)
  BY <1>1, <1>2, <1>3, <1>4, FrozenStays
<1>7. proposal' \in [Key -> EntryRow \cup {None}]
  <2>1. ASSUME NEW c \in Given(k, event)
        PROVE  [owner |-> u, context |-> c] \in EntryRow
    BY <1>1, GivenTyped DEF EntryRow
  <2> QED BY <1>4, <2>1 DEF CohortTypes
<1>8. row.frozen # None => row.frozen \in JourneyContext /\ identity[k] = row
  BY <1>2 DEF IdentityRow
<1>9. lateTold' \subseteq JourneyContext
  BY <1>4, <1>5, <1>8 DEF CohortTypes
<1>10. CohortTypes'
  BY <1>4, <1>6, <1>7, <1>9 DEF CohortTypes, diagVars, goalVars, legacyTables
<1>11. NewAnswers
  <2>1. ASSUME row.frozen # None
        PROVE  Freezes(k, row.frozen)
    <3>1. Froze(k, row.frozen) /\ row.frozen \in JourneyContext
      BY <1>8, <2>1, <1>2, JourneyAssumption DEF Froze
    <3> QED BY <1>1, <1>6, <3>1
  <2>2. ASSUME NEW c \in lateTold', c \notin lateTold
        PROVE  c = row.frozen /\ row.frozen # None
    BY <1>4, <1>5, <2>2
  <2> QED BY <1>3, <2>1, <2>2 DEF NewAnswers
<1>12. ContextInv'
  BY <1>4, <1>6, <1>11, ContextKept, NothingNew
<1> QED BY <1>10, <1>12

LEMMA ResettleKeeps ==
  ASSUME Good, NEW e \in JourneyExperiment, NEW a \in Arms[e] \cup {"off"}, Resettle(e, a),
         UNCHANGED <<diagVars, conversion, goalVars>>
  PROVE  Good'
<1>1. CohortTypes'
  <2>1. a \in {"standard", "goals", "control", "soft", "off"}
    BY DEF JourneyExperiment, Arms
  <2> QED BY <2>1 DEF Good, Resettle, CohortTypes, journeyTables, legacyTables, diagVars, goalVars
<1>2. ContextInv'
  BY ContextSame DEF Good, Resettle, journeyTables
<1> QED BY <1>1, <1>2 DEF Good

\* The entry a context that was frozen makes.
LEMMA EnterKeeps ==
  ASSUME Good, NEW u \in Account, NEW c \in JourneyContext, Enter(u, c), NEW row, Valid(row, u, c)
  PROVE  /\ entry' \in [Key -> EntryRow \cup {None}]
         /\ entry'[c.key] # None /\ entry'[c.key].context = c
         /\ \A k \in Key : entry'[k] = entry[k] \/ (entry[k] = None /\ k = c.key)
<1>1. c.key \in Key
  BY ContextFacts
<1>2. [owner |-> u, context |-> c] \in EntryRow /\ [owner |-> u, context |-> c] # None
  BY JourneyAssumption DEF EntryRow
<1>3. CASE entry[c.key] # None /\ entry' = entry
  BY <1>1, <1>3 DEF Good, CohortTypes, Valid
<1>4. CASE entry[c.key] = None /\ entry' = [entry EXCEPT ![c.key] = [owner |-> u, context |-> c]]
  BY <1>1, <1>2, <1>4 DEF Good, CohortTypes
<1> QED BY <1>3, <1>4 DEF Enter

\* An identity that freezes the context of a request.
LEMMA FreezeKeeps ==
  ASSUME Good, NEW u \in Account, NEW c \in JourneyContext,
         FrozenBy(Reserved(c.key, u, "journey"), c).frozen = c,
         identity' = [identity EXCEPT ![c.key] = FrozenBy(Reserved(c.key, u, "journey"), c)]
  PROVE  /\ identity' \in [Key -> IdentityRow \cup {None}]
         /\ \A o \in Key : identity'[o] # None /\ identity'[o].frozen # None => identity'[o].frozen.key = o
         /\ \A o \in Key, x \in JourneyContext : Froze(o, x) => Freezes(o, x)
         /\ Freezes(c.key, c)
<1> DEFINE old == Reserved(c.key, u, "journey")
           row == FrozenBy(old, c)
<1>1. c.key \in Key
  BY ContextFacts
<1>2. old \in IdentityRow /\ (identity[c.key] # None => old = identity[c.key])
  BY <1>1, ReservedTyped DEF Good
<1> HIDE DEF old
<1>3. row \in IdentityRow /\ row.frozen = c /\ old.frozen \in {None, c}
  BY <1>2, FrozenTyped DEF old
<1> HIDE DEF row
<1>4. /\ identity' \in [Key -> IdentityRow \cup {None}]
      /\ \A o \in Key : identity'[o] # None /\ identity'[o].frozen # None => identity'[o].frozen.key = o
      /\ \A o \in Key, x \in JourneyContext : Froze(o, x) => Freezes(o, x)
  BY <1>1, <1>2, <1>3, FrozenStays DEF Good, row, old
<1>5. identity'[c.key] = row /\ row # None
  BY <1>1, <1>3, JourneyAssumption DEF Good, CohortTypes, row, old
<1> QED BY <1>3, <1>4, <1>5 DEF Froze, Freezes

LEMMA EnrollKeeps ==
  ASSUME Good, NEW w \in CohortWorker, Enroll(w), UNCHANGED <<diagVars, conversion, goalVars>>
  PROVE  Good'
<1> DEFINE c == pending[w].context
           u == pending[w].user
           row == FrozenBy(Reserved(c.key, u, "journey"), c)
<1>1. c \in JourneyContext /\ u \in Account
  BY DEF Enroll, Good, CohortTypes, AssignRequest, EnrollRequest, EventsRequest, OldRequest
<1>2. /\ row.frozen = c /\ Valid(row, u, c)
      /\ identity' = [identity EXCEPT ![c.key] = row]
      /\ Enter(u, c)
      /\ pending' = [pending EXCEPT ![w] = None]
      /\ UNCHANGED <<proposal, capture, firstPick, attribution, journeyGoal, journeyReceipt, legacyTables, arm, lateTold>>
  BY DEF Enroll, Idle
<1> HIDE DEF c, u
<1>3. /\ identity' \in [Key -> IdentityRow \cup {None}]
      /\ \A o \in Key : identity'[o] # None /\ identity'[o].frozen # None => identity'[o].frozen.key = o
      /\ \A o \in Key, x \in JourneyContext : Froze(o, x) => Freezes(o, x)
      /\ Freezes(c.key, c)
  BY <1>1, <1>2, FreezeKeeps
<1>4. /\ entry' \in [Key -> EntryRow \cup {None}]
      /\ entry'[c.key] # None /\ entry'[c.key].context = c
      /\ \A k \in Key : entry'[k] = entry[k] \/ (entry[k] = None /\ k = c.key)
  BY <1>1, <1>2, EnterKeeps
<1>5. CohortTypes'
  BY <1>2, <1>3, <1>4 DEF Good, CohortTypes, diagVars, goalVars, legacyTables
<1>6. NewEntries
  BY <1>3, <1>4 DEF NewEntries
<1>7. ContextInv'
  BY <1>2, <1>3, <1>6, ContextKept, NothingNew DEF Good
<1> QED BY <1>5, <1>7 DEF Good

LEMMA AttributeKeeps ==
  ASSUME Good, NEW u \in Account, NEW k \in Key, NEW t \in Checkout, Attribute(u, k, t), UNCHANGED <<diagVars, conversion, goalVars>>
  PROVE  Good'
<1> DEFINE c == entry[k].context
           s == CheckoutSubscription[t]
           mine == [key |-> k, owner |-> u, context |-> c, first |-> t]
<1>1. entry[k] # None /\ attribution' = [attribution EXCEPT ![s] = mine] /\ s \in Bought
      /\ UNCHANGED <<identity, proposal, entry, capture, firstPick, journeyGoal, journeyReceipt, legacyTables, arm, pending, lateTold>>
  BY DEF Attribute, Bought
<1>2. mine \in AttributionRow /\ Froze(mine.key, mine.context)
  BY <1>1 DEF Good, CohortTypes, EntryRow, AttributionRow, ContextInv
<1> HIDE DEF s, mine
<1>3. CohortTypes'
  BY <1>1, <1>2 DEF Good, CohortTypes, diagVars, goalVars, legacyTables
<1>4. NewAttributions
  BY <1>1, <1>2 DEF NewAttributions, Froze, Freezes, Good, CohortTypes
<1>5. /\ \A o \in Key : identity'[o] # None /\ identity'[o].frozen # None => identity'[o].frozen.key = o
      /\ \A o \in Key, x \in JourneyContext : Froze(o, x) => Freezes(o, x)
  BY <1>1 DEF Good, ContextInv, Froze, Freezes
<1>6. ContextInv'
  BY <1>1, <1>4, <1>5, ContextKept, NothingNew DEF Good
<1> QED BY <1>3, <1>6 DEF Good

LEMMA ConfirmJourneyGoalsKeeps ==
  ASSUME Good, NEW u \in Account, NEW k \in Key, NEW id \in Confirmation, NEW r \in 1..MaxRevision, NEW g \in GoalAnswer,
         ConfirmJourneyGoals(u, k, id, r, g), UNCHANGED <<diagVars, conversion, goalVars>>
  PROVE  Good'
<1>1. [id |-> id, revision |-> r, answer |-> g] \in JourneyGoalRow
  BY DEF JourneyGoalRow
<1>2. journeyGoal' \in [Key -> JourneyGoalRow \cup {None}]
  BY <1>1 DEF Good, CohortTypes, ConfirmJourneyGoals
<1>3. journeyReceipt' \subseteq [key : Key, id : Confirmation, revision : 1..MaxRevision, answer : GoalAnswer]
  BY DEF Good, CohortTypes, ConfirmJourneyGoals
<1>4. CohortTypes'
  BY <1>2, <1>3 DEF Good, CohortTypes, ConfirmJourneyGoals, diagVars, goalVars, legacyTables
<1>5. ContextInv'
  BY ContextSame DEF Good, ConfirmJourneyGoals
<1> QED BY <1>4, <1>5 DEF Good

\* The older experiments write no table of the journeys but the identities.
LEMMA OldRequestsKeep ==
  ASSUME Good, NEW w \in CohortWorker, Expose(w) \/ EnterCohort(w) \/ Convert(w)
  PROVE  Good'
<1>1. pending[w] \in OldRequest
  BY DEF Expose, EnterCohort, Convert, Good, CohortTypes, AssignRequest, EnrollRequest, EventsRequest, OldRequest
<1>2. /\ ReserveLegacy(pending[w].install, pending[w].user)
      /\ pending' = [pending EXCEPT ![w] = None]
      /\ UNCHANGED <<journeyRest, goalVars>>
  BY DEF Expose, EnterCohort, Convert, Idle
<1>3. pending[w].install \in Install /\ pending[w].user \in Account
  BY <1>1 DEF OldRequest
<1>4. /\ identity' \in [Key -> IdentityRow \cup {None}]
      /\ \A o \in Key : identity'[o] # None /\ identity'[o].frozen # None => identity'[o].frozen.key = o
      /\ \A o \in Key, c \in JourneyContext : Froze(o, c) => Freezes(o, c)
  BY <1>2, <1>3, ReserveLegacyKeeps DEF Good
<1>5. CohortTypes'
  BY <1>2, <1>4 DEF Good, CohortTypes, journeyRest, goalVars, diagVars
<1>6. ContextInv'
  BY <1>2, <1>4, ContextKept, NothingNew DEF Good, journeyRest
<1> QED BY <1>5, <1>6 DEF Good

LEMMA ConfirmGoalsTyped ==
  ASSUME Good, NEW u \in Account, NEW n \in Install, NEW a \in LegacyAnswer \cup VersionedAnswer, ConfirmGoals(u, n, a)
  PROVE  /\ Ledger(n) \in LegacyAnswer \cup VersionedAnswer \cup {None}
         /\ goalLedger' \in [Install -> LegacyAnswer \cup VersionedAnswer \cup {None}]
         /\ goalChoice' \in [Install -> ChoiceRow \cup {None}]
         /\ goalAnswered' \subseteq [install : Install, answer : LegacyAnswer \cup VersionedAnswer]
<1>1. Ledger(n) \in LegacyAnswer \cup VersionedAnswer \cup {None}
  BY DEF Ledger, Good, CohortTypes, ChoiceRow, LegacyAnswer
<1>2. goalLedger' = [goalLedger EXCEPT ![n] = IF Newer(a, Ledger(n)) THEN a ELSE Ledger(n)]
      /\ goalChoice' = [goalChoice EXCEPT ![n] = ChosenGoals(u, a, Ledger(n), goalChoice[n])]
      /\ goalAnswered' = goalAnswered \cup {[install |-> n, answer |-> a]}
  BY DEF ConfirmGoals, Good, CohortTypes
<1>3. ChosenGoals(u, a, Ledger(n), goalChoice[n]) \in ChoiceRow \cup {None}
  BY DEF ChosenGoals, Good, CohortTypes, ChoiceRow, LegacyAnswer, VersionedAnswer
<1> QED BY <1>1, <1>2, <1>3 DEF Good, CohortTypes

LEMMA ConfirmGoalsKeeps ==
  ASSUME Good, NEW u \in Account, NEW n \in Install, NEW a \in LegacyAnswer \cup VersionedAnswer, ConfirmGoals(u, n, a)
  PROVE  Good'
<1>1. ReserveLegacy(n, u) /\ UNCHANGED <<journeyRest, pending>>
  BY DEF ConfirmGoals
<1>2. /\ identity' \in [Key -> IdentityRow \cup {None}]
      /\ \A o \in Key : identity'[o] # None /\ identity'[o].frozen # None => identity'[o].frozen.key = o
      /\ \A o \in Key, c \in JourneyContext : Froze(o, c) => Freezes(o, c)
  BY <1>1, ReserveLegacyKeeps DEF Good
<1>3. CohortTypes'
  BY <1>1, <1>2, ConfirmGoalsTyped DEF Good, CohortTypes, journeyRest, diagVars
<1>4. ContextInv'
  BY <1>1, <1>2, ContextKept, NothingNew DEF Good, journeyRest
<1> QED BY <1>3, <1>4 DEF Good

-----------------------------------------------------------------------------
(* The events. *)

\* The row of an event, and the entry of an event that enrolls.
Entered(c) == entry[c.key] # None /\ entry[c.key].context = c
Enrolling(v) == OfJourney(v) /\ Enrolls(v.name, v.context)

EntriesStay == \A k \in Key : entry[k] # None => entry'[k] = entry[k]

LEMMA RecordJourneyKeeps ==
  ASSUME Good, NEW u \in Account, NEW v \in ClientEvent, OfJourney(v), NEW expired,
         RecordJourney(v.id, u, v.name, v.context, expired)
  PROVE  /\ identity' \in [Key -> IdentityRow \cup {None}]
         /\ \A o \in Key : identity'[o] # None /\ identity'[o].frozen # None => identity'[o].frozen.key = o
         /\ \A o \in Key, x \in JourneyContext : Froze(o, x) => Freezes(o, x)
         /\ entry' \in [Key -> EntryRow \cup {None}] /\ NewEntries /\ EntriesStay
         /\ capture' \in [DiagnosticId -> CaptureRow \cup {None}] /\ NewCaptures
         /\ Enrolling(v) => entry'[v.context.key] # None /\ entry'[v.context.key].context = v.context
<1> DEFINE c == v.context
           row == FrozenBy(Reserved(c.key, u, "journey"), c)
           mine == [key |-> c.key, owner |-> u, context |-> c]
<1>1. c \in JourneyContext /\ v.id \in DiagnosticId /\ c.key \in Key
  BY DiagAssumption, ContextFacts DEF IsEvent, OfJourney
<1>2. /\ row.frozen = c /\ Valid(row, u, c)
      /\ identity' = [identity EXCEPT ![c.key] = row]
      /\ IF Enrolls(v.name, c) THEN Enter(u, c) ELSE entry' = entry
      /\ capture' = [Without(expired) EXCEPT ![v.id] = IF Without(expired)[v.id] = None THEN mine ELSE Without(expired)[v.id]]
  BY <1>1 DEF RecordJourney, Without
<1>3. mine \in CaptureRow /\ mine.key = c.key /\ mine.context = c
  BY <1>1 DEF CaptureRow
<1> HIDE DEF c, mine
<1>4. /\ identity' \in [Key -> IdentityRow \cup {None}]
      /\ \A o \in Key : identity'[o] # None /\ identity'[o].frozen # None => identity'[o].frozen.key = o
      /\ \A o \in Key, x \in JourneyContext : Froze(o, x) => Freezes(o, x)
      /\ Freezes(c.key, c)
  BY <1>1, <1>2, FreezeKeeps
<1>5. Enter(u, c) => /\ entry' \in [Key -> EntryRow \cup {None}]
                    /\ entry'[c.key] # None /\ entry'[c.key].context = c
                    /\ \A k \in Key : entry'[k] = entry[k] \/ (entry[k] = None /\ k = c.key)
  BY <1>1, <1>2, EnterKeeps
<1>6. entry' \in [Key -> EntryRow \cup {None}] /\ NewEntries /\ EntriesStay
  BY <1>2, <1>4, <1>5 DEF NewEntries, EntriesStay, Good, CohortTypes
<1>7. Without(expired) \in [DiagnosticId -> CaptureRow \cup {None}] /\ \A i \in DiagnosticId : Without(expired)[i] \in {None, capture[i]}
  BY DEF Without, Good, CohortTypes
<1>8. \A i \in DiagnosticId : capture'[i] \in {None, capture[i], mine}
  <2> DEFINE base == Without(expired)
  <2> HIDE DEF base
  <2>1. capture' = [base EXCEPT ![v.id] = IF base[v.id] = None THEN mine ELSE base[v.id]]
        /\ base \in [DiagnosticId -> CaptureRow \cup {None}] /\ \A i \in DiagnosticId : base[i] \in {None, capture[i]}
    BY <1>2, <1>7 DEF base
  <2> QED BY <1>1, <2>1
<1>9. capture' \in [DiagnosticId -> CaptureRow \cup {None}]
  <2> DEFINE base == Without(expired)
  <2> HIDE DEF base
  <2>1. capture' = [base EXCEPT ![v.id] = IF base[v.id] = None THEN mine ELSE base[v.id]]
        /\ base \in [DiagnosticId -> CaptureRow \cup {None}]
    BY <1>2, <1>7 DEF base
  <2> QED BY <1>1, <1>3, <2>1
<1>10. NewCaptures
  BY <1>3, <1>4, <1>8 DEF NewCaptures
<1> QED BY <1>2, <1>4, <1>5, <1>6, <1>9, <1>10 DEF Enrolling, c

\* What a request knows that has passed its checks.
Sound(r) ==
  /\ r.incoming \subseteq r.batch /\ r.now <= diagClock
  /\ \A v \in r.batch : v.at = r.now
  /\ \A v, x \in r.batch : v.id = x.id => v = x
  /\ \A v, x \in r.batch : OfJourney(v) /\ (OfJourney(x) \/ OfLegacy(x)) => v = x
  /\ \A v, x \in r.incoming : Terminal(v) /\ Terminal(x) /\ v.attempt = x.attempt => v = x
  /\ \A v \in r.batch \ r.incoming : /\ r.now = diagClock => diagnostic[v.id] = Row(r.user, v)
                                     /\ Enrolling(v) => Entered(v.context)

EventsInv ==
  /\ \A i \in DiagnosticId : diagnostic[i] # None =>
       diagnostic[i].event.id = i /\ (Enrolling(diagnostic[i].event) => Entered(diagnostic[i].event.context))
  /\ \A i, j \in DiagnosticId :
       /\ diagnostic[i] # None /\ diagnostic[j] # None /\ diagnostic[i].owner = diagnostic[j].owner
       /\ Terminal(diagnostic[i].event) /\ Terminal(diagnostic[j].event)
       /\ diagnostic[i].event.attempt = diagnostic[j].event.attempt
       => i = j
  /\ \A a \in acknowledged :
       /\ a.event.at <= diagClock
       /\ a.event.at = diagClock => diagnostic[a.event.id] = Row(a.owner, a.event)
       /\ Enrolling(a.event) => Entered(a.event.context)
  /\ \A w \in CohortWorker : pending[w] # None /\ pending[w].kind = "events" => Sound(pending[w])

\* The same, after the step.
EnteredNext(c) == entry'[c.key] # None /\ entry'[c.key].context = c
SoundNext(r) ==
  /\ r.incoming \subseteq r.batch /\ r.now <= diagClock'
  /\ \A v \in r.batch : v.at = r.now
  /\ \A v, x \in r.batch : v.id = x.id => v = x
  /\ \A v, x \in r.batch : OfJourney(v) /\ (OfJourney(x) \/ OfLegacy(x)) => v = x
  /\ \A v, x \in r.incoming : Terminal(v) /\ Terminal(x) /\ v.attempt = x.attempt => v = x
  /\ \A v \in r.batch \ r.incoming : /\ r.now = diagClock' => diagnostic'[v.id] = Row(r.user, v)
                                     /\ Enrolling(v) => EnteredNext(v.context)

\* A step that does not end the day's events, nor removes an entry, keeps the invariant if
\* what it adds to the rows, the acknowledgements and the requests is as it says.
RowsStay == \A i \in DiagnosticId :
  diagnostic[i] # None /\ diagnostic[i].event.at = diagClock' => diagnostic'[i] = diagnostic[i]

LEMMA SoundStays ==
  ASSUME Good, NEW r \in EventsRequest, Sound(r), EntriesStay, RowsStay, diagClock' \in Nat, diagClock' >= diagClock
  PROVE  SoundNext(r)
<1>1. ASSUME NEW v \in r.batch \ r.incoming
      PROVE  /\ r.now = diagClock' => diagnostic'[v.id] = Row(r.user, v)
             /\ Enrolling(v) => EnteredNext(v.context)
  <2>1. IsEvent(v) /\ v \in ClientEvent /\ v.at = r.now
    BY DiagAssumption DEF EventsRequest, Sound
  <2>2. r.user \in Account /\ r.now \in Nat /\ diagClock \in Nat /\ r.now <= diagClock
    BY DEF EventsRequest, Good, CohortTypes, Sound
  <2>3. Row(r.user, v) \in EventRow /\ Row(r.user, v).event = v /\ Row(r.user, v) # None
    BY <2>1, <2>2, DiagAssumption DEF Row, EventRow
  <2>4. ASSUME r.now = diagClock'
        PROVE  diagnostic'[v.id] = Row(r.user, v)
    <3>1. r.now = diagClock
      BY <2>2, <2>4
    <3>2. diagnostic[v.id] = Row(r.user, v)
      BY <3>1 DEF Sound
    <3> QED BY <2>1, <2>3, <2>4, <3>2 DEF RowsStay, IsEvent
  <2>5. ASSUME Enrolling(v)
        PROVE  EnteredNext(v.context)
    <3>1. v.context \in JourneyContext /\ Entered(v.context)
      BY <2>1, <2>5 DEF Enrolling, OfJourney, IsEvent, Sound
    <3> QED BY <3>1, ContextFacts DEF Entered, EnteredNext, EntriesStay
  <2> QED BY <2>4, <2>5
<1>2. r.now <= diagClock'
  BY DEF Sound, EventsRequest, Good, CohortTypes
<1> QED BY <1>1, <1>2 DEF Sound, SoundNext

NewRows == \A i \in DiagnosticId : diagnostic'[i] # None /\ diagnostic'[i] # diagnostic[i] =>
  /\ diagnostic[i] = None
  /\ diagnostic'[i].event.id = i /\ (Enrolling(diagnostic'[i].event) => EnteredNext(diagnostic'[i].event.context))
NewTerminals == \A i, j \in DiagnosticId :
       /\ diagnostic'[i] # None /\ diagnostic'[j] # None /\ diagnostic'[i].owner = diagnostic'[j].owner
       /\ Terminal(diagnostic'[i].event) /\ Terminal(diagnostic'[j].event)
       /\ diagnostic'[i].event.attempt = diagnostic'[j].event.attempt
       => i = j
NewAcknowledged == \A a \in acknowledged' \ acknowledged :
       /\ a.event.at <= diagClock'
       /\ a.event.at = diagClock' => diagnostic'[a.event.id] = Row(a.owner, a.event)
       /\ Enrolling(a.event) => EnteredNext(a.event.context)
NewRequests == \A w \in CohortWorker : pending'[w] # None /\ pending'[w].kind = "events" =>
                 pending'[w] = pending[w] \/ SoundNext(pending'[w])

LEMMA EventsKeep ==
  ASSUME Good, EventsInv, EntriesStay, RowsStay, diagClock' \in Nat, diagClock' >= diagClock,
         NewRows, NewTerminals, NewAcknowledged, NewRequests
  PROVE  EventsInv'
<1>1. ASSUME NEW i \in DiagnosticId, diagnostic'[i] # None
      PROVE  diagnostic'[i].event.id = i /\ (Enrolling(diagnostic'[i].event) => EnteredNext(diagnostic'[i].event.context))
  <2>1. CASE diagnostic'[i] = diagnostic[i]
    <3>1. /\ diagnostic[i].event.id = i /\ (Enrolling(diagnostic[i].event) => Entered(diagnostic[i].event.context))
          /\ diagnostic[i] \in EventRow
      BY <1>1, <2>1 DEF EventsInv, Good, CohortTypes
    <3>2. IsEvent(diagnostic[i].event)
      BY <3>1, DiagAssumption DEF EventRow
    <3>3. Enrolling(diagnostic[i].event) => diagnostic[i].event.context.key \in Key
      BY <3>2, ContextFacts DEF Enrolling, OfJourney, IsEvent
    <3> QED BY <2>1, <3>1, <3>3 DEF Entered, EnteredNext, EntriesStay
  <2> QED BY <1>1, <2>1 DEF NewRows
<1>2. ASSUME NEW a \in acknowledged'
      PROVE  /\ a.event.at <= diagClock'
             /\ a.event.at = diagClock' => diagnostic'[a.event.id] = Row(a.owner, a.event)
             /\ Enrolling(a.event) => EnteredNext(a.event.context)
  <2>1. CASE a \in acknowledged
    <3>1. a \in EventRow /\ IsEvent(a.event)
      BY <2>1, DiagAssumption DEF Good, CohortTypes, EventRow
    <3>2. /\ a.event.at <= diagClock /\ a.event.at \in Nat /\ diagClock \in Nat
          /\ a.event.at = diagClock => diagnostic[a.event.id] = Row(a.owner, a.event)
          /\ Enrolling(a.event) => Entered(a.event.context)
      BY <2>1, <3>1 DEF EventsInv, IsEvent, Good, CohortTypes
    <3>3. Enrolling(a.event) => a.event.context.key \in Key
      BY <3>1, ContextFacts DEF Enrolling, OfJourney, IsEvent
    <3>4. ASSUME a.event.at = diagClock'
          PROVE  diagnostic'[a.event.id] = Row(a.owner, a.event)
      <4>1. diagnostic[a.event.id] = Row(a.owner, a.event)
        BY <3>2, <3>4
      <4>2. Row(a.owner, a.event) # None /\ Row(a.owner, a.event).event = a.event
        BY <3>1, DiagAssumption DEF Row, EventRow
      <4> QED BY <3>1, <3>4, <4>1, <4>2 DEF RowsStay, IsEvent
    <3> QED BY <3>2, <3>3, <3>4 DEF Entered, EnteredNext, EntriesStay
  <2> QED BY <2>1 DEF NewAcknowledged
<1>3. ASSUME NEW w \in CohortWorker, pending'[w] # None, pending'[w].kind = "events"
      PROVE  SoundNext(pending'[w])
  <2>1. CASE pending'[w] = pending[w]
    <3>1. Sound(pending[w]) /\ pending[w] \in EventsRequest
      BY <1>3, <2>1 DEF EventsInv, Good, CohortTypes, AssignRequest, EnrollRequest, OldRequest
    <3> QED BY <2>1, <3>1, SoundStays
  <2> QED BY <1>3, <2>1 DEF NewRequests
<1> QED BY <1>1, <1>2, <1>3 DEF NewTerminals, EventsInv, EnteredNext, Entered, SoundNext, Sound

LEMMA EventsSame ==
  ASSUME Good, EventsInv, EntriesStay, NewRequests, UNCHANGED <<diagnostic, diagClock, acknowledged>>
  PROVE  EventsInv'
<1>1. diagClock' \in Nat /\ diagClock' >= diagClock
  BY DEF Good, CohortTypes
<1>2. RowsStay /\ NewRows /\ NewAcknowledged
  BY DEF RowsStay, NewRows, NewAcknowledged
<1>3. NewTerminals
  BY DEF NewTerminals, EventsInv
<1> QED BY <1>1, <1>2, <1>3, EventsKeep

\* A request that is no batch of events.
LEMMA OtherRequest ==
  ASSUME Good, NEW w \in CohortWorker, NEW r, r = None \/ r.kind # "events", pending' = [pending EXCEPT ![w] = r]
  PROVE  NewRequests
BY DEF NewRequests, Good, CohortTypes

LEMMA SameRequests == pending' = pending => NewRequests
BY DEF NewRequests

LEMMA AtMostOne ==
  ASSUME NEW S, IsFiniteSet(S), Cardinality(S) <= 1, NEW x \in S, NEW y \in S
  PROVE  x = y
<1>1. SUFFICES ASSUME x # y PROVE FALSE
  OBVIOUS
<1>2. IsFiniteSet(S \ {x}) /\ Cardinality(S \ {x}) = Cardinality(S) - 1
  BY FS_RemoveElement
<1>3. Cardinality(S \ {x}) \in Nat /\ Cardinality(S) \in Nat
  BY <1>2, FS_CardinalityType
<1>4. Cardinality(S \ {x}) = 0
  BY <1>2, <1>3
<1>5. S \ {x} = {}
  BY <1>2, <1>4, FS_EmptySet
<1> QED BY <1>1, <1>5

LEMMA BeginEventsKeeps ==
  ASSUME Good, EventsInv, NEW w \in CohortWorker, NEW u \in Account, NEW batch \in SUBSET ClientEvent, BeginEvents(w, u, batch)
  PROVE  EventsInv'
<1> DEFINE r == [kind |-> "events", user |-> u, batch |-> batch, incoming |-> Incoming(batch), now |-> diagClock]
<1>1. PICK q \in EventsRequest : q = r
  BY BeginsTyped DEF Good
<1>2. /\ pending' = [pending EXCEPT ![w] = r]
      /\ Batch1(batch)
      /\ \A v \in batch, x \in batch : v.id = x.id => v = x
      /\ \A v \in batch : v.at = diagClock /\ diagnostic[v.id] \in {None, Row(u, v)}
      /\ \A v \in Incoming(batch), x \in Incoming(batch) : Terminal(v) /\ Terminal(x) /\ x.attempt = v.attempt => x = v
      /\ UNCHANGED <<entry, diagnostic, diagClock, acknowledged>>
  BY DEF BeginEvents, Begin, journeyTables, legacyTables, diagVars
<1>3. ASSUME NEW v \in batch, NEW x \in batch, OfJourney(v), OfJourney(x) \/ OfLegacy(x)
      PROVE  v = x
  <2> DEFINE S == {y \in batch : OfJourney(y) \/ OfLegacy(y)}
  <2>1. IsFiniteSet(S)
    BY DiagAssumption, FS_Subset
  <2>2. Cardinality(S) <= 1 /\ v \in S /\ x \in S
    BY <1>2, <1>3 DEF Batch1
  <2> HIDE DEF S
  <2> QED BY <2>1, <2>2, AtMostOne
<1>4. ASSUME NEW v \in batch \ Incoming(batch)
      PROVE  diagnostic[v.id] = Row(u, v) /\ (Enrolling(v) => Entered(v.context))
  <2>1. diagnostic[v.id] = Row(u, v) /\ diagnostic[v.id] # None /\ v.id \in DiagnosticId
    BY <1>2, DiagAssumption DEF Incoming, IsEvent
  <2> QED BY <2>1 DEF EventsInv, Row
<1>5. SoundNext(q)
  <2>1. q.batch = batch /\ q.incoming = Incoming(batch) /\ q.now = diagClock /\ q.user = u
    BY <1>1
  <2>2. Incoming(batch) \subseteq batch /\ diagClock <= diagClock'
    BY <1>2 DEF Incoming, Good, CohortTypes
  <2>3. \A c : Entered(c) => EnteredNext(c)
    BY <1>2 DEF Entered, EnteredNext
  <2> QED BY <1>2, <1>3, <1>4, <2>1, <2>2, <2>3 DEF SoundNext
<1>6. NewRequests
  BY <1>1, <1>2, <1>5 DEF NewRequests, Good, CohortTypes
<1>7. EntriesStay
  BY <1>2 DEF EntriesStay
<1> QED BY <1>2, <1>6, <1>7, EventsSame

\* What the batch r leaves of the rows.
StoredAfter(r, i) == IF \E v \in r.incoming : v.id = i THEN Row(r.user, CHOOSE v \in r.incoming : v.id = i) ELSE diagnostic[i]

LEMMA StoredRows ==
  ASSUME Good, NEW r \in EventsRequest, Sound(r), Inserts(r.user, r.incoming), NEW i \in DiagnosticId
  PROVE  /\ StoredAfter(r, i) = diagnostic[i]
            \/ \E v \in r.incoming : v.id = i /\ StoredAfter(r, i) = Row(r.user, v) /\ diagnostic[i] = None
         /\ \A v \in r.incoming : v.id = i => StoredAfter(r, i) = Row(r.user, v)
<1>1. \A v, x \in r.incoming : v.id = x.id => v = x
  BY DEF Sound
<1>2. \A v \in r.incoming : v.id = i => (CHOOSE x \in r.incoming : x.id = i) = v
  BY <1>1
<1> QED BY <1>2 DEF StoredAfter, Inserts

LEMMA StoreEventsFacts ==
  ASSUME Good, EventsInv, NEW w \in CohortWorker, StoreEvents(w), NEW r, r = pending[w]
  PROVE  /\ r \in EventsRequest /\ Sound(r) /\ Inserts(r.user, r.incoming)
         /\ diagnostic' = [i \in DiagnosticId |-> IF StoredAfter(r, i) # None /\ StoredAfter(r, i).event.at < r.now THEN None
                                                 ELSE StoredAfter(r, i)]
         /\ acknowledged' = acknowledged \cup {[owner |-> r.user, event |-> v] : v \in r.batch}
         /\ pending' = [pending EXCEPT ![w] = None]
         /\ diagClock' = diagClock
         /\ UNCHANGED <<proposal, attribution, journeyGoal, journeyReceipt, arm, lateTold>>
<1>1. r \in EventsRequest /\ Sound(r)
  BY DEF StoreEvents, EventsInv, Good, CohortTypes, AssignRequest, EnrollRequest, OldRequest
<1>2. Inserts(r.user, r.incoming) /\ acknowledged' = acknowledged \cup {[owner |-> r.user, event |-> v] : v \in r.batch}
      /\ pending' = [pending EXCEPT ![w] = None] /\ diagClock' = diagClock
      /\ UNCHANGED <<proposal, attribution, journeyGoal, journeyReceipt, arm, lateTold>>
  BY DEF StoreEvents, Idle
<1>3. diagnostic' = [i \in DiagnosticId |-> IF StoredAfter(r, i) # None /\ StoredAfter(r, i).event.at < r.now THEN None
                                          ELSE StoredAfter(r, i)]
  BY DEF StoreEvents, StoredAfter
<1> QED BY <1>1, <1>2, <1>3

LEMMA StoreEventsTables ==
  ASSUME Good, EventsInv, NEW w \in CohortWorker, StoreEvents(w), NEW r, r = pending[w]
  PROVE  /\ identity' \in [Key -> IdentityRow \cup {None}]
         /\ \A o \in Key : identity'[o] # None /\ identity'[o].frozen # None => identity'[o].frozen.key = o
         /\ \A o \in Key, x \in JourneyContext : Froze(o, x) => Freezes(o, x)
         /\ entry' \in [Key -> EntryRow \cup {None}] /\ NewEntries /\ EntriesStay
         /\ capture' \in [DiagnosticId -> CaptureRow \cup {None}] /\ NewCaptures
         /\ \A v \in r.batch : Enrolling(v) => EnteredNext(v.context)
<1>1. r \in EventsRequest /\ Sound(r) /\ r.batch \subseteq ClientEvent /\ r.user \in Account
  BY StoreEventsFacts DEF EventsRequest
<1>2. PICK expired :
        \/ \E v \in {x \in r.batch : OfJourney(x)} : RecordJourney(v.id, r.user, v.name, v.context, expired)
        \/ \E v \in {x \in r.batch : OfLegacy(x)} : LegacyOpen(v.install) /\ ReserveLegacy(v.install, r.user)
                                /\ UNCHANGED <<entry, firstPick>> /\ capture' = Without(expired)
        \/ /\ {x \in r.batch : OfJourney(x)} \cup {x \in r.batch : OfLegacy(x)} = {}
           /\ capture' = Without(expired)
           /\ UNCHANGED <<identity, entry, firstPick>>
  BY DEF StoreEvents
<1>3. ASSUME NEW v \in r.batch, OfJourney(v), RecordJourney(v.id, r.user, v.name, v.context, expired)
      PROVE  /\ identity' \in [Key -> IdentityRow \cup {None}]
             /\ \A o \in Key : identity'[o] # None /\ identity'[o].frozen # None => identity'[o].frozen.key = o
             /\ \A o \in Key, x \in JourneyContext : Froze(o, x) => Freezes(o, x)
             /\ entry' \in [Key -> EntryRow \cup {None}] /\ NewEntries /\ EntriesStay
             /\ capture' \in [DiagnosticId -> CaptureRow \cup {None}] /\ NewCaptures
             /\ \A x \in r.batch : Enrolling(x) => EnteredNext(x.context)
  <2>1. Enrolling(v) => EnteredNext(v.context)
    BY <1>1, <1>3, RecordJourneyKeeps DEF EnteredNext
  <2>2. \A x \in r.batch : Enrolling(x) => x = v
    BY <1>1, <1>3 DEF Sound, Enrolling
  <2> QED BY <1>1, <1>3, <2>1, <2>2, RecordJourneyKeeps
<1>4. ASSUME capture' = Without(expired)
      PROVE  capture' \in [DiagnosticId -> CaptureRow \cup {None}] /\ NewCaptures
  BY <1>4 DEF Without, NewCaptures, Good, CohortTypes
<1>5. entry' = entry => entry' \in [Key -> EntryRow \cup {None}] /\ NewEntries /\ EntriesStay
  BY DEF NewEntries, EntriesStay, Good, CohortTypes
<1>6. ASSUME NEW v \in r.batch, OfLegacy(v), ReserveLegacy(v.install, r.user), entry' = entry, capture' = Without(expired)
      PROVE  /\ identity' \in [Key -> IdentityRow \cup {None}]
             /\ \A o \in Key : identity'[o] # None /\ identity'[o].frozen # None => identity'[o].frozen.key = o
             /\ \A o \in Key, x \in JourneyContext : Froze(o, x) => Freezes(o, x)
             /\ \A x \in r.batch : ~Enrolling(x)
  <2>1. v.install \in Install
    BY <1>1, DiagAssumption DEF IsEvent
  <2>2. \A x \in r.batch : ~Enrolling(x)
    BY <1>1, <1>6 DEF Sound, Enrolling, OfLegacy
  <2> QED BY <1>1, <1>6, <2>1, <2>2, ReserveLegacyKeeps DEF Good
<1>7. ASSUME {x \in r.batch : OfJourney(x)} \cup {x \in r.batch : OfLegacy(x)} = {}, identity' = identity
      PROVE  /\ identity' \in [Key -> IdentityRow \cup {None}]
             /\ \A o \in Key : identity'[o] # None /\ identity'[o].frozen # None => identity'[o].frozen.key = o
             /\ \A o \in Key, x \in JourneyContext : Froze(o, x) => Freezes(o, x)
             /\ \A x \in r.batch : ~Enrolling(x)
  BY <1>7 DEF Good, CohortTypes, ContextInv, Froze, Freezes, Enrolling
<1> QED BY <1>2, <1>3, <1>4, <1>5, <1>6, <1>7

LEMMA StoreEventsKeeps ==
  ASSUME Good, EventsInv, NEW w \in CohortWorker, StoreEvents(w), UNCHANGED <<conversion, goalVars>>
  PROVE  Good' /\ EventsInv'
<1>1. PICK r : r = pending[w]
  OBVIOUS
<1>2. /\ r \in EventsRequest /\ Sound(r) /\ Inserts(r.user, r.incoming)
      /\ diagnostic' = [i \in DiagnosticId |-> IF StoredAfter(r, i) # None /\ StoredAfter(r, i).event.at < r.now THEN None
                                              ELSE StoredAfter(r, i)]
      /\ acknowledged' = acknowledged \cup {[owner |-> r.user, event |-> v] : v \in r.batch}
      /\ pending' = [pending EXCEPT ![w] = None]
      /\ diagClock' = diagClock
      /\ UNCHANGED <<proposal, attribution, journeyGoal, journeyReceipt, arm, lateTold>>
  BY <1>1, StoreEventsFacts
<1>3. /\ identity' \in [Key -> IdentityRow \cup {None}]
      /\ \A o \in Key : identity'[o] # None /\ identity'[o].frozen # None => identity'[o].frozen.key = o
      /\ \A o \in Key, x \in JourneyContext : Froze(o, x) => Freezes(o, x)
      /\ entry' \in [Key -> EntryRow \cup {None}] /\ NewEntries /\ EntriesStay
      /\ capture' \in [DiagnosticId -> CaptureRow \cup {None}] /\ NewCaptures
      /\ \A v \in r.batch : Enrolling(v) => EnteredNext(v.context)
  BY <1>1, StoreEventsTables
<1>4. r.user \in Account /\ r.batch \subseteq ClientEvent /\ r.incoming \subseteq r.batch /\ r.now \in Nat /\ diagClock \in Nat
      /\ r.now <= diagClock /\ \A v \in r.batch : v.at = r.now /\ IsEvent(v)
  BY <1>2, DiagAssumption DEF EventsRequest, Sound, Good, CohortTypes
<1>5. \A v \in r.batch : Row(r.user, v) \in EventRow /\ Row(r.user, v) # None /\ Row(r.user, v).event = v /\ Row(r.user, v).owner = r.user
  BY <1>4, DiagAssumption DEF Row, EventRow
<1>6. \A i \in DiagnosticId : \/ diagnostic'[i] = None
                              \/ diagnostic'[i] = diagnostic[i]
                              \/ \E v \in r.incoming : v.id = i /\ diagnostic'[i] = Row(r.user, v) /\ diagnostic[i] = None
  BY <1>2, StoredRows
<1>7. diagnostic' \in [DiagnosticId -> EventRow \cup {None}]
  <2>1. \A i \in DiagnosticId : diagnostic'[i] \in EventRow \cup {None}
    BY <1>4, <1>5, <1>6 DEF Good, CohortTypes
  <2> QED BY <1>2, <2>1
<1>8. acknowledged' \subseteq EventRow
  BY <1>2, <1>4, <1>5 DEF Row, Good, CohortTypes
<1>9. CohortTypes'
  BY <1>2, <1>3, <1>7, <1>8 DEF Good, CohortTypes, goalVars
<1>10. ContextInv'
  BY <1>2, <1>3, ContextKept, NothingNew DEF Good
<1>11. RowsStay
  <2>1. ASSUME NEW i \in DiagnosticId, diagnostic[i] # None, diagnostic[i].event.at = diagClock
        PROVE  diagnostic'[i] = diagnostic[i]
    <3>1. StoredAfter(r, i) = diagnostic[i]
      BY <1>2, <2>1, StoredRows
    <3> QED BY <1>2, <1>4, <2>1, <3>1
  <2> QED BY <1>2, <2>1 DEF RowsStay
<1>12. NewRows
  BY <1>3, <1>4, <1>5, <1>6 DEF NewRows
<1>13. NewTerminals
  <2> SUFFICES ASSUME NEW i \in DiagnosticId, NEW j \in DiagnosticId,
                      diagnostic'[i] # None, diagnostic'[j] # None, diagnostic'[i].owner = diagnostic'[j].owner,
                      Terminal(diagnostic'[i].event), Terminal(diagnostic'[j].event),
                      diagnostic'[i].event.attempt = diagnostic'[j].event.attempt
               PROVE  i = j
    BY DEF NewTerminals
  <2>1. ASSUME NEW m \in DiagnosticId, NEW v \in r.incoming, diagnostic[m] # None, diagnostic[m].owner = r.user,
               Terminal(diagnostic[m].event), Terminal(v), diagnostic[m].event.attempt = v.attempt
        PROVE  FALSE
    <3>1. diagnostic[m].event \in EventsOf(r.user)
      BY <2>1 DEF EventsOf
    <3> QED BY <1>2, <2>1, <3>1 DEF Inserts, Ended
  <2>2. CASE diagnostic'[i] = diagnostic[i] /\ diagnostic'[j] = diagnostic[j]
    BY <2>2 DEF EventsInv
  <2>3. CASE diagnostic'[i] = diagnostic[i] /\ diagnostic'[j] # diagnostic[j]
    <3>1. PICK v \in r.incoming : diagnostic'[j] = Row(r.user, v)
      BY <1>6, <2>3
    <3>2. diagnostic'[j].event = v /\ diagnostic'[j].owner = r.user
      BY <1>4, <1>5, <3>1
    <3> QED BY <2>1, <2>3, <3>2
  <2>4. CASE diagnostic'[i] # diagnostic[i] /\ diagnostic'[j] = diagnostic[j]
    <3>1. PICK v \in r.incoming : diagnostic'[i] = Row(r.user, v)
      BY <1>6, <2>4
    <3>2. diagnostic'[i].event = v /\ diagnostic'[i].owner = r.user
      BY <1>4, <1>5, <3>1
    <3> QED BY <2>1, <2>4, <3>2
  <2>5. CASE diagnostic'[i] # diagnostic[i] /\ diagnostic'[j] # diagnostic[j]
    <3>1. PICK v \in r.incoming : v.id = i /\ diagnostic'[i] = Row(r.user, v)
      BY <1>6, <2>5
    <3>2. PICK x \in r.incoming : x.id = j /\ diagnostic'[j] = Row(r.user, x)
      BY <1>6, <2>5
    <3>3. diagnostic'[i].event = v /\ diagnostic'[j].event = x
      BY <1>4, <1>5, <3>1, <3>2
    <3> QED BY <1>2, <3>1, <3>2, <3>3 DEF Sound
  <2> QED BY <2>2, <2>3, <2>4, <2>5
<1>14. ASSUME NEW v \in r.batch, r.now = diagClock
       PROVE  diagnostic'[v.id] = Row(r.user, v)
  <2>1. CASE v \in r.incoming
    <3>1. StoredAfter(r, v.id) = Row(r.user, v)
      BY <1>2, <1>4, <2>1, StoredRows DEF IsEvent
    <3> QED BY <1>2, <1>4, <1>5, <3>1 DEF IsEvent
  <2>2. CASE v \notin r.incoming
    <3>1. diagnostic[v.id] = Row(r.user, v)
      BY <1>2, <1>14, <2>2 DEF Sound
    <3> QED BY <1>2, <1>4, <1>5, <1>11, <1>14, <3>1 DEF RowsStay, IsEvent
  <2> QED BY <2>1, <2>2
<1>15. NewAcknowledged
  <2> SUFFICES ASSUME NEW v \in r.batch
               PROVE  LET a == [owner |-> r.user, event |-> v]
                      IN /\ a.event.at <= diagClock'
                         /\ a.event.at = diagClock' => diagnostic'[a.event.id] = Row(a.owner, a.event)
                         /\ Enrolling(a.event) => EnteredNext(a.event.context)
    BY <1>2 DEF NewAcknowledged
  <2> QED BY <1>2, <1>3, <1>4, <1>14
<1>16. NewRequests
  BY <1>2, OtherRequest
<1>17. EventsInv'
  BY <1>2, <1>3, <1>4, <1>11, <1>12, <1>13, <1>15, <1>16, EventsKeep
<1> QED BY <1>9, <1>10, <1>17 DEF Good

LEMMA EventsCollideKeeps ==
  ASSUME Good, EventsInv, NEW w \in CohortWorker, EventsCollide(w), UNCHANGED <<conversion, goalVars>>
  PROVE  Good' /\ EventsInv'
<1>1. PICK r : r = pending[w]
  OBVIOUS
<1>2. r \in EventsRequest /\ Sound(r)
  BY <1>1 DEF EventsCollide, EventsInv, Good, CohortTypes, AssignRequest, EnrollRequest, OldRequest
<1>3. /\ Confirmed(r.user, r.incoming)
      /\ acknowledged' = acknowledged \cup {[owner |-> r.user, event |-> v] : v \in r.batch}
      /\ pending' = [pending EXCEPT ![w] = None]
      /\ UNCHANGED <<journeyTables, legacyTables, arm, lateTold, diagClock>>
  BY <1>1 DEF EventsCollide, Idle
<1>4. r.user \in Account /\ r.batch \subseteq ClientEvent /\ r.now \in Nat /\ diagClock \in Nat
      /\ r.now <= diagClock /\ \A v \in r.batch : v.at = r.now /\ IsEvent(v)
  BY <1>2, DiagAssumption DEF EventsRequest, Sound, Good, CohortTypes
<1>5. \A v \in r.batch : Row(r.user, v) \in EventRow /\ Row(r.user, v) # None /\ Row(r.user, v).event = v
  BY <1>4, DiagAssumption DEF Row, EventRow
<1>6. acknowledged' \subseteq EventRow
  BY <1>3, <1>5 DEF Row, Good, CohortTypes
<1>7. CohortTypes'
  BY <1>3, <1>6 DEF Good, CohortTypes, goalVars, journeyTables, legacyTables
<1>8. ContextInv'
  BY <1>3, ContextSame DEF Good, journeyTables
<1>9. ASSUME NEW v \in r.batch
      PROVE  /\ r.now = diagClock => diagnostic[v.id] = Row(r.user, v)
             /\ Enrolling(v) => Entered(v.context)
  <2>1. CASE v \in r.incoming
    <3>1. diagnostic[v.id] = Row(r.user, v) /\ v.id \in DiagnosticId
      BY <1>3, <1>4, <2>1 DEF Confirmed, IsEvent
    <3>2. diagnostic[v.id] # None /\ diagnostic[v.id].event = v
      BY <1>5, <3>1
    <3> QED BY <3>1, <3>2 DEF EventsInv
  <2>2. CASE v \notin r.incoming
    BY <1>2, <2>2 DEF Sound
  <2> QED BY <2>1, <2>2
<1>10. EntriesStay /\ RowsStay /\ NewRows
  BY <1>3 DEF EntriesStay, RowsStay, NewRows, journeyTables, legacyTables
<1>11. NewTerminals
  BY <1>3 DEF NewTerminals, EventsInv, legacyTables
<1>12. NewAcknowledged
  <2> SUFFICES ASSUME NEW v \in r.batch
               PROVE  LET a == [owner |-> r.user, event |-> v]
                      IN /\ a.event.at <= diagClock'
                         /\ a.event.at = diagClock' => diagnostic'[a.event.id] = Row(a.owner, a.event)
                         /\ Enrolling(a.event) => EnteredNext(a.event.context)
    BY <1>3 DEF NewAcknowledged
  <2>1. diagClock' = diagClock /\ diagnostic' = diagnostic /\ \A c : Entered(c) => EnteredNext(c)
    BY <1>3 DEF Entered, EnteredNext, journeyTables, legacyTables
  <2> QED BY <1>4, <1>9, <2>1
<1>13. NewRequests
  BY <1>3, OtherRequest
<1>14. EventsInv'
  BY <1>3, <1>4, <1>10, <1>11, <1>12, <1>13, EventsKeep
<1> QED BY <1>7, <1>8, <1>14 DEF Good

LEMMA DiagTickKeeps ==
  ASSUME Good, EventsInv, DiagTick, UNCHANGED <<conversion, goalVars>>
  PROVE  Good' /\ EventsInv'
<1>1. diagClock = 0 /\ diagClock' = 1 /\ UNCHANGED <<journeyTables, legacyTables, arm, pending, lateTold, acknowledged>>
  BY DEF DiagTick
<1>2. CohortTypes'
  BY <1>1 DEF Good, CohortTypes, goalVars, journeyTables, legacyTables
<1>3. ContextInv'
  BY <1>1, ContextSame DEF Good, journeyTables
<1>4. EntriesStay /\ RowsStay /\ NewRows /\ NewAcknowledged /\ NewRequests
  BY <1>1 DEF EntriesStay, RowsStay, NewRows, NewAcknowledged, NewRequests, journeyTables, legacyTables
<1>5. NewTerminals
  BY <1>1 DEF NewTerminals, EventsInv, legacyTables
<1>6. EventsInv'
  BY <1>1, <1>4, <1>5, EventsKeep
<1> QED BY <1>2, <1>3, <1>6 DEF Good

LEMMA EnrollEntries ==
  ASSUME Good, NEW w \in CohortWorker, Enroll(w)
  PROVE  EntriesStay /\ NewRequests
<1>1. pending[w].context \in JourneyContext /\ pending[w].user \in Account
  BY DEF Enroll, Good, CohortTypes, AssignRequest, EnrollRequest, EventsRequest, OldRequest
<1>2. EntriesStay
  BY <1>1, EnterKeeps DEF Enroll, EntriesStay
<1>3. NewRequests
  BY OtherRequest DEF Enroll, Idle
<1> QED BY <1>2, <1>3

\* Every step that stores no event.
LEMMA JourneyKeeps ==
  ASSUME Good, EventsInv, JourneyNext, UNCHANGED <<diagVars, conversion, goalVars>>
  PROVE  Good' /\ EventsInv'
<1> USE DEF diagVars
<1>1. ASSUME NEW w \in CohortWorker, NEW u \in Account, NEW k \in Key, NEW event \in EnrollEvent, BeginAssign(w, u, k, event)
      PROVE  Good' /\ EventsInv'
  <2> DEFINE r == [kind |-> "assign", user |-> u, key |-> k, event |-> event]
  <2>1. r \in AssignRequest /\ r.kind # "events"
    BY BeginsTyped DEF Good
  <2> HIDE DEF r
  <2>2. pending' = [pending EXCEPT ![w] = r] /\ UNCHANGED <<journeyTables, legacyTables, arm, lateTold>>
    BY <1>1 DEF BeginAssign, Begin, r
  <2>3. Good'
    BY <2>1, <2>2, BeginsKeep
  <2>4. NewRequests /\ EntriesStay
    BY <2>1, <2>2, OtherRequest DEF EntriesStay, journeyTables
  <2> QED BY <2>2, <2>3, <2>4, EventsSame DEF legacyTables
<1>2. ASSUME NEW w \in CohortWorker, NEW u \in Account, NEW c \in JourneyContext, BeginEnroll(w, u, c)
      PROVE  Good' /\ EventsInv'
  <2> DEFINE r == [kind |-> "enroll", user |-> u, context |-> c]
  <2>1. r \in EnrollRequest /\ r.kind # "events"
    BY BeginsTyped DEF Good
  <2> HIDE DEF r
  <2>2. pending' = [pending EXCEPT ![w] = r] /\ UNCHANGED <<journeyTables, legacyTables, arm, lateTold>>
    BY <1>2 DEF BeginEnroll, Begin, r
  <2>3. Good'
    BY <2>1, <2>2, BeginsKeep
  <2>4. NewRequests /\ EntriesStay
    BY <2>1, <2>2, OtherRequest DEF EntriesStay, journeyTables
  <2> QED BY <2>2, <2>3, <2>4, EventsSame DEF legacyTables
<1>3. ASSUME NEW w \in CohortWorker, RefuseRequest(w)
      PROVE  Good' /\ EventsInv'
  <2>1. pending' = [pending EXCEPT ![w] = None] /\ UNCHANGED <<journeyTables, legacyTables, arm, lateTold>>
    BY <1>3 DEF RefuseRequest, Idle
  <2>2. Good'
    BY <2>1, BeginsKeep
  <2>3. NewRequests /\ EntriesStay
    BY <2>1, OtherRequest DEF EntriesStay, journeyTables
  <2> QED BY <2>1, <2>2, <2>3, EventsSame DEF legacyTables
<1>4. ASSUME NEW w \in CohortWorker, Assign(w)
      PROVE  Good' /\ EventsInv'
  <2>1. NewRequests /\ EntriesStay /\ UNCHANGED legacyTables
    BY <1>4, OtherRequest DEF Assign, Idle, EntriesStay
  <2> QED BY <1>4, <2>1, AssignKeeps, EventsSame DEF legacyTables
<1>5. ASSUME NEW w \in CohortWorker, Enroll(w)
      PROVE  Good' /\ EventsInv'
  <2>1. UNCHANGED legacyTables
    BY <1>5 DEF Enroll
  <2> QED BY <1>5, <2>1, EnrollKeeps, EnrollEntries, EventsSame DEF legacyTables
<1>6. ASSUME NEW e \in JourneyExperiment, NEW a \in Arms[e] \cup {"off"}, Resettle(e, a)
      PROVE  Good' /\ EventsInv'
  <2>1. NewRequests /\ EntriesStay /\ UNCHANGED legacyTables
    BY <1>6, SameRequests DEF Resettle, EntriesStay, journeyTables
  <2> QED BY <1>6, <2>1, ResettleKeeps, EventsSame DEF legacyTables
<1>7. ASSUME NEW u \in Account, NEW k \in Key, NEW t \in Checkout, Attribute(u, k, t)
      PROVE  Good' /\ EventsInv'
  <2>1. NewRequests /\ EntriesStay /\ UNCHANGED legacyTables
    BY <1>7, SameRequests DEF Attribute, EntriesStay
  <2> QED BY <1>7, <2>1, AttributeKeeps, EventsSame DEF legacyTables
<1>8. ASSUME NEW u \in Account, NEW k \in Key, NEW id \in Confirmation, NEW r \in 1..MaxRevision, NEW g \in GoalAnswer,
             ConfirmJourneyGoals(u, k, id, r, g)
      PROVE  Good' /\ EventsInv'
  <2>1. NewRequests /\ EntriesStay /\ UNCHANGED legacyTables
    BY <1>8, SameRequests DEF ConfirmJourneyGoals, EntriesStay
  <2> QED BY <1>8, <2>1, ConfirmJourneyGoalsKeeps, EventsSame DEF legacyTables
<1> QED BY <1>1, <1>2, <1>3, <1>4, <1>5, <1>6, <1>7, <1>8 DEF JourneyNext

LEMMA Kept ==
  ASSUME Good, EventsInv, [CohortNext]_cohortVars
  PROVE  Good' /\ EventsInv'
<1>1. CASE JourneyNext /\ UNCHANGED <<diagVars, conversion, goalVars>>
  BY <1>1, JourneyKeeps
<1>2. CASE DiagNext /\ UNCHANGED <<conversion, goalVars>>
  <2>1. ASSUME NEW w \in CohortWorker, NEW u \in Account, NEW batch \in SUBSET ClientEvent, BeginEvents(w, u, batch)
        PROVE  Good' /\ EventsInv'
    <3> DEFINE r == [kind |-> "events", user |-> u, batch |-> batch, incoming |-> Incoming(batch), now |-> diagClock]
    <3>1. r \in EventsRequest
      BY BeginsTyped DEF Good
    <3> HIDE DEF r
    <3>2. pending' = [pending EXCEPT ![w] = r] /\ UNCHANGED <<journeyTables, legacyTables, arm, lateTold, diagVars>>
      BY <2>1 DEF BeginEvents, Begin, r
    <3>3. Good'
      BY <1>2, <3>1, <3>2, BeginsKeep DEF diagVars
    <3> QED BY <2>1, <3>3, BeginEventsKeeps
  <2> QED BY <1>2, <2>1, StoreEventsKeeps, EventsCollideKeeps, DiagTickKeeps DEF DiagNext
<1>3. ASSUME NEW w \in CohortWorker, NEW kind \in {"expose", "cohort", "convert"}, NEW u \in Account, NEW n \in Install,
             NEW v \in PaywallArm, NEW at \in LegacyTime, NEW t \in Checkout \cup {None}, BeginLegacy(w, kind, u, n, v, at, t)
      PROVE  Good' /\ EventsInv'
  <2> DEFINE r == [kind |-> kind, user |-> u, install |-> n, variant |-> v, at |-> at, checkout |-> t]
  <2>1. r \in OldRequest /\ r.kind # "events"
    BY BeginsTyped DEF Good
  <2> HIDE DEF r
  <2>2. pending' = [pending EXCEPT ![w] = r]
        /\ UNCHANGED <<journeyTables, legacyTables, arm, lateTold, diagVars, conversion, goalVars>>
    BY <1>3 DEF BeginLegacy, Begin, r
  <2>3. Good'
    BY <2>1, <2>2, BeginsKeep DEF diagVars
  <2>4. NewRequests /\ EntriesStay
    BY <2>1, <2>2, OtherRequest DEF EntriesStay, journeyTables
  <2> QED BY <2>2, <2>3, <2>4, EventsSame DEF legacyTables, diagVars
<1>4. ASSUME NEW w \in CohortWorker, Expose(w) \/ EnterCohort(w) \/ Convert(w)
      PROVE  Good' /\ EventsInv'
  <2>1. NewRequests /\ EntriesStay /\ UNCHANGED <<diagnostic, diagVars>>
    BY <1>4, OtherRequest DEF Expose, EnterCohort, Convert, Idle, journeyRest, EntriesStay
  <2> QED BY <1>4, <2>1, OldRequestsKeep, EventsSame DEF diagVars
<1>5. ASSUME NEW u \in Account, NEW n \in Install, NEW a \in LegacyAnswer \cup VersionedAnswer, ConfirmGoals(u, n, a)
      PROVE  Good' /\ EventsInv'
  <2>1. NewRequests /\ EntriesStay /\ UNCHANGED <<diagnostic, diagVars>>
    BY <1>5, SameRequests DEF ConfirmGoals, journeyRest, EntriesStay
  <2> QED BY <1>5, <2>1, ConfirmGoalsKeeps, EventsSame DEF diagVars
<1>6. CASE UNCHANGED cohortVars
  <2>1. NewRequests /\ EntriesStay /\ UNCHANGED <<diagnostic, diagVars>>
    BY <1>6, SameRequests DEF cohortVars, journeyTables, legacyTables, EntriesStay
  <2>2. Good'
    BY <1>6, ContextSame DEF Good, CohortTypes, cohortVars, journeyTables, legacyTables, diagVars
  <2> QED BY <2>1, <2>2, EventsSame DEF diagVars
<1> QED BY <1>1, <1>2, <1>3, <1>4, <1>5, <1>6 DEF CohortNext

LEMMA CohortInitGood == CohortInit => Good /\ EventsInv
<1> SUFFICES ASSUME CohortInit PROVE Good /\ EventsInv
  OBVIOUS
<1>1. /\ identity = [k \in Key |-> None] /\ proposal = [k \in Key |-> None] /\ entry = [k \in Key |-> None]
      /\ capture = [v \in DiagnosticId |-> None]
      /\ attribution = [s \in Bought |-> None]
      /\ journeyGoal = [k \in Key |-> None] /\ journeyReceipt = {}
      /\ pending = [w \in CohortWorker |-> None]
      /\ lateTold = {} /\ diagClock = 0 /\ acknowledged = {}
      /\ diagnostic = [i \in DiagnosticId |-> None]
      /\ goalLedger = [n \in Install |-> None]
      /\ goalChoice \in [Install -> ChoiceRow \cup {None}]
  BY GoalAssumption DEF CohortInit, JourneyInit, DiagInit, Bought
<1>2. arm = [journey |-> "goals", closable |-> "soft"]
  BY DEF CohortInit, JourneyInit
<1>3. /\ arm \in [JourneyExperiment -> {"standard", "goals", "control", "soft", "off"}]
      /\ \A e \in JourneyExperiment : arm[e] \in Arms[e] \cup {"off"}
  BY <1>2 DEF JourneyExperiment, Arms
<1>4. goalAnswered \subseteq [install : Install, answer : LegacyAnswer \cup VersionedAnswer]
  <2>1. ASSUME NEW n \in Install, goalChoice[n] # None
        PROVE  Ledger(n) \in LegacyAnswer
    BY <1>1, <2>1 DEF Ledger, ChoiceRow, LegacyAnswer
  <2> QED BY <2>1 DEF CohortInit
<1>5. CohortTypes
  BY <1>1, <1>3, <1>4 DEF CohortTypes
<1>6. ContextInv /\ EventsInv
  BY <1>1 DEF ContextInv, EventsInv
<1> QED BY <1>5, <1>6 DEF Good

LEMMA EventsImply == Good /\ EventsInv => EventsKept
<1> SUFFICES ASSUME Good, EventsInv PROVE EventsKept
  OBVIOUS
<1>1. ASSUME NEW u \in Account, NEW v \in ClientEvent, NEW x \in ClientEvent,
             {v, x} \subseteq EventsOf(u), Terminal(v), Terminal(x), v.attempt = x.attempt
      PROVE  v = x
  <2>1. PICK i \in DiagnosticId : diagnostic[i] # None /\ diagnostic[i].owner = u /\ diagnostic[i].event = v
    BY <1>1 DEF EventsOf
  <2>2. PICK j \in DiagnosticId : diagnostic[j] # None /\ diagnostic[j].owner = u /\ diagnostic[j].event = x
    BY <1>1 DEF EventsOf
  <2> QED BY <1>1, <2>1, <2>2 DEF EventsInv
<1> QED BY <1>1 DEF EventsKept, EventsInv, Enrolling, Entered

LEMMA ContextImplies == Good => ContextAgrees
<1> SUFFICES ASSUME Good, NEW k \in Key,
                    NEW ledger, ledger = {capture[v] : v \in {v \in DiagnosticId : capture[v] # None}}
                      \cup {attribution[s] : s \in {s \in DOMAIN attribution : attribution[s] # None}},
                    NEW contexts, contexts = (IF entry[k] = None THEN {} ELSE {entry[k].context})
                      \cup {x.context : x \in {x \in ledger : x.key = k}} \cup {c \in lateTold : c.key = k},
                    contexts # {}
             PROVE  identity[k] # None /\ contexts = {identity[k].frozen}
  BY DEF ContextAgrees
<1>1. \A x \in ledger : Froze(x.key, x.context)
  BY DEF Good, ContextInv, CohortTypes
<1>2. \A c \in contexts : Froze(k, c)
  BY <1>1 DEF Good, ContextInv
<1> QED BY <1>2 DEF Froze

-----------------------------------------------------------------------------
(* The answers to the goals question. *)

\* An answer against the newest one.
Outdated(a, last) ==
  /\ a.revision <= last.revision
  /\ a.revision = last.revision => a = last \/ (a.revision = 0 /\ a.at < last.at)

GoalsOf(n) ==
  /\ goalLedger[n] # None => /\ goalChoice[n] # None
                             /\ goalChoice[n].at = goalLedger[n].at /\ goalChoice[n].keys = goalLedger[n].keys
  /\ \A x \in goalAnswered : x.install = n => Ledger(n) # None /\ Outdated(x.answer, Ledger(n))

JourneyGoalsOf(k) ==
  /\ journeyGoal[k] # None =>
       [key |-> k, id |-> journeyGoal[k].id, revision |-> journeyGoal[k].revision, answer |-> journeyGoal[k].answer] \in journeyReceipt
  /\ \A r \in journeyReceipt : r.key = k =>
       /\ journeyGoal[k] # None /\ r.revision <= journeyGoal[k].revision
       /\ r.revision = journeyGoal[k].revision => r.answer = journeyGoal[k].answer

GoalsInv == (\A n \in Install : GoalsOf(n)) /\ \A k \in Key : JourneyGoalsOf(k)

LEMMA AnswerFacts ==
  \A a \in LegacyAnswer \cup VersionedAnswer : a.revision \in Nat /\ a.at \in Nat /\ a # None
BY GoalAssumption, JourneyAssumption DEF LegacyAnswer, VersionedAnswer

\* Either the answer is newer than all before, or it is itself outdated.
LEMMA NewerOrOutdated ==
  ASSUME NEW a \in LegacyAnswer \cup VersionedAnswer, NEW last \in LegacyAnswer \cup VersionedAnswer, last # None
  PROVE  /\ Newer(a, last) => \A b \in LegacyAnswer \cup VersionedAnswer : Outdated(b, last) => Outdated(b, a)
         /\ ~Newer(a, last) /\ Stale(a, last) => Outdated(a, last)
         /\ Outdated(a, a)
<1>1. a.revision \in Nat /\ a.at \in Nat /\ last.revision \in Nat /\ last.at \in Nat
  BY AnswerFacts
<1>2. ASSUME Newer(a, last), NEW b \in LegacyAnswer \cup VersionedAnswer, Outdated(b, last)
      PROVE  Outdated(b, a)
  <2>1. b.revision \in Nat /\ b.at \in Nat
    BY AnswerFacts
  <2>2. b.revision <= last.revision /\ (b.revision = last.revision => b = last \/ (b.revision = 0 /\ b.at < last.at))
    BY <1>2 DEF Outdated
  <2>3. CASE a.revision > last.revision
    BY <1>1, <2>1, <2>2, <2>3 DEF Outdated
  <2>4. CASE a.revision = 0 /\ last.revision = 0 /\ a.at > last.at
    BY <1>1, <2>1, <2>2, <2>4 DEF Outdated
  <2> QED BY <1>2, <2>3, <2>4 DEF Newer
<1>3. ASSUME ~Newer(a, last), Stale(a, last)
      PROVE  Outdated(a, last)
  BY <1>1, <1>3 DEF Newer, Stale, Outdated
<1> QED BY <1>1, <1>2, <1>3 DEF Outdated

LEMMA ConfirmGoalsNewest ==
  ASSUME Good, GoalsInv, NEW u \in Account, NEW m \in Install, NEW a \in LegacyAnswer \cup VersionedAnswer, ConfirmGoals(u, m, a)
  PROVE  GoalsInv'
<1>1. PICK last : last = Ledger(m)
  OBVIOUS
<1>2. /\ goalLedger' = [goalLedger EXCEPT ![m] = IF Newer(a, last) THEN a ELSE last]
      /\ goalChoice' = [goalChoice EXCEPT ![m] = ChosenGoals(u, a, last, goalChoice[m])]
      /\ goalAnswered' = goalAnswered \cup {[install |-> m, answer |-> a]}
      /\ ~Newer(a, last) => Stale(a, last)
      /\ UNCHANGED <<journeyGoal, journeyReceipt>>
  BY <1>1 DEF ConfirmGoals, Good, CohortTypes, journeyRest
<1>3. /\ last \in LegacyAnswer \cup VersionedAnswer \cup {None}
      /\ goalLedger \in [Install -> LegacyAnswer \cup VersionedAnswer \cup {None}]
      /\ goalChoice \in [Install -> ChoiceRow \cup {None}]
      /\ goalAnswered \subseteq [install : Install, answer : LegacyAnswer \cup VersionedAnswer]
  BY <1>1, ConfirmGoalsTyped DEF Good, CohortTypes
<1>4. last = None => Newer(a, last)
  BY DEF Newer
<1>5. PICK now : now = IF Newer(a, last) THEN a ELSE last
  OBVIOUS
<1>6. now \in LegacyAnswer \cup VersionedAnswer /\ now # None
  BY <1>3, <1>4, <1>5, AnswerFacts
<1>7. goalLedger'[m] = now /\ Ledger(m)' = now
  BY <1>2, <1>3, <1>5, <1>6 DEF Ledger
<1>8. goalChoice'[m] # None /\ goalChoice'[m].at = now.at /\ goalChoice'[m].keys = now.keys
  <2>1. goalChoice'[m] = ChosenGoals(u, a, last, goalChoice[m])
    BY <1>2, <1>3
  <2>2. CASE Newer(a, last)
    <3>1. goalChoice'[m] = [owner |-> IF goalChoice[m] = None THEN u ELSE goalChoice[m].owner, at |-> a.at, keys |-> a.keys]
      BY <2>1, <2>2 DEF ChosenGoals
    <3>2. goalChoice'[m] \in ChoiceRow
      BY <3>1, <1>3 DEF ChoiceRow, LegacyAnswer, VersionedAnswer
    <3> QED BY <1>5, <2>2, <3>1, <3>2, GoalAssumption
  <2>3. CASE ~Newer(a, last)
    <3>1. goalChoice'[m] = goalChoice[m] /\ now = last /\ last # None
      BY <1>4, <1>5, <2>1, <2>3 DEF ChosenGoals
    <3>2. goalChoice[m] # None /\ goalChoice[m].at = last.at /\ goalChoice[m].keys = last.keys
      BY <1>1, <3>1 DEF Ledger, GoalsInv, GoalsOf
    <3> QED BY <3>1, <3>2
  <2> QED BY <2>2, <2>3
<1>9. ASSUME NEW x \in goalAnswered', x.install = m
      PROVE  Outdated(x.answer, now)
  <2>1. CASE x \in goalAnswered
    <3>1. x.answer \in LegacyAnswer \cup VersionedAnswer /\ last # None /\ Outdated(x.answer, last)
      BY <1>1, <1>3, <1>9, <2>1 DEF GoalsInv, GoalsOf
    <3> QED BY <1>3, <1>5, <3>1, NewerOrOutdated
  <2>2. CASE x.answer = a
    <3>1. CASE Newer(a, last)
      BY <1>5, <1>6, <2>2, <3>1, NewerOrOutdated
    <3>2. CASE ~Newer(a, last)
      BY <1>2, <1>3, <1>4, <1>5, <2>2, <3>2, NewerOrOutdated
    <3> QED BY <3>1, <3>2
  <2> QED BY <1>2, <2>1, <2>2
<1>10. ASSUME NEW n \in Install, n # m
       PROVE  GoalsOf(n)'
  <2>1. goalLedger'[n] = goalLedger[n] /\ goalChoice'[n] = goalChoice[n] /\ Ledger(n)' = Ledger(n)
    BY <1>2, <1>3, <1>10 DEF Ledger
  <2>2. \A x \in goalAnswered' : x.install = n => x \in goalAnswered
    BY <1>2, <1>10
  <2> QED BY <2>1, <2>2 DEF GoalsInv, GoalsOf
<1>11. GoalsOf(m)'
  BY <1>6, <1>7, <1>8, <1>9 DEF GoalsOf
<1>12. \A k \in Key : JourneyGoalsOf(k)'
  BY <1>2 DEF GoalsInv, JourneyGoalsOf
<1> QED BY <1>10, <1>11, <1>12 DEF GoalsInv

LEMMA ConfirmJourneyGoalsNewest ==
  ASSUME Good, GoalsInv, NEW u \in Account, NEW k \in Key, NEW id \in Confirmation, NEW revision \in 1..MaxRevision,
         NEW g \in GoalAnswer, ConfirmJourneyGoals(u, k, id, revision, g), UNCHANGED goalVars
  PROVE  GoalsInv'
<1> DEFINE receipt == [key |-> k, id |-> id, revision |-> revision, answer |-> g]
           goal == [id |-> id, revision |-> revision, answer |-> g]
<1>1. /\ \A r \in journeyReceipt : r.key = k /\ (r.id = id \/ r.revision = revision) => r = receipt
      /\ journeyReceipt' = journeyReceipt \cup {receipt}
      /\ journeyGoal' = [journeyGoal EXCEPT ![k] = IF NewerRevision(revision, journeyGoal[k]) THEN goal ELSE journeyGoal[k]]
  BY DEF ConfirmJourneyGoals, Good, CohortTypes
<1>2. \A n \in Install : GoalsOf(n)'
  BY DEF GoalsInv, GoalsOf, Ledger, goalVars, Outdated
<1>3. /\ journeyGoal \in [Key -> JourneyGoalRow \cup {None}]
      /\ journeyReceipt \subseteq [key : Key, id : Confirmation, revision : 1..MaxRevision, answer : GoalAnswer]
      /\ revision \in Nat
  BY JourneyAssumption DEF Good, CohortTypes
<1>4. goal # None /\ goal.id = id /\ goal.revision = revision /\ goal.answer = g
      /\ receipt.key = k /\ receipt.id = id /\ receipt.revision = revision /\ receipt.answer = g
  BY JourneyAssumption DEF JourneyGoalRow
<1>5. journeyGoal[k] # None => journeyGoal[k].revision \in Nat
  BY <1>3, JourneyAssumption DEF JourneyGoalRow
<1>6. \A r \in journeyReceipt : r.revision \in Nat
  BY <1>3, JourneyAssumption
<1>7. ASSUME NEW o \in Key, o # k
      PROVE  JourneyGoalsOf(o)'
  <2>1. journeyGoal'[o] = journeyGoal[o] /\ \A r \in journeyReceipt' : r.key = o => r \in journeyReceipt
    BY <1>1, <1>3, <1>4, <1>7
  <2>2. journeyReceipt \subseteq journeyReceipt'
    BY <1>1
  <2> QED BY <2>1, <2>2 DEF GoalsInv, JourneyGoalsOf
<1>8. JourneyGoalsOf(k)
  BY DEF GoalsInv
<1> HIDE DEF goal
<1>9. JourneyGoalsOf(k)'
  <2>1. CASE NewerRevision(revision, journeyGoal[k])
    <3>1. journeyGoal'[k] = goal
      BY <1>1, <1>3, <2>1
    <3>2. [key |-> k, id |-> journeyGoal'[k].id, revision |-> journeyGoal'[k].revision, answer |-> journeyGoal'[k].answer] \in journeyReceipt'
      BY <1>1, <1>4, <3>1
    <3> HIDE DEF receipt
    <3>3. ASSUME NEW r \in journeyReceipt', r.key = k
          PROVE  /\ r.revision <= revision
                 /\ r.revision = revision => r.answer = g
      <4>1. CASE r = receipt
        BY <1>3, <1>4, <4>1
      <4>2. CASE r \in journeyReceipt
        <5>1. journeyGoal[k] # None /\ r.revision <= journeyGoal[k].revision
          BY <1>8, <3>3, <4>2 DEF JourneyGoalsOf
        <5>2. revision > journeyGoal[k].revision
          BY <2>1, <5>1 DEF NewerRevision
        <5> QED BY <1>3, <1>5, <1>6, <4>2, <5>1, <5>2
      <4> QED BY <1>1, <3>3, <4>1, <4>2
    <3> QED BY <1>4, <3>1, <3>2, <3>3 DEF JourneyGoalsOf
  <2>2. CASE ~NewerRevision(revision, journeyGoal[k])
    <3>1. journeyGoal'[k] = journeyGoal[k] /\ journeyGoal[k] # None /\ revision <= journeyGoal[k].revision
      BY <1>1, <1>3, <1>5, <2>2 DEF NewerRevision
    <3>2. PICK kept : kept = [key |-> k, id |-> journeyGoal[k].id, revision |-> journeyGoal[k].revision, answer |-> journeyGoal[k].answer]
      OBVIOUS
    <3>3. kept \in journeyReceipt /\ kept.key = k /\ kept.revision = journeyGoal[k].revision /\ kept.answer = journeyGoal[k].answer
      BY <1>8, <3>1, <3>2 DEF JourneyGoalsOf
    <3> HIDE DEF receipt
    <3>4. ASSUME NEW r \in journeyReceipt', r.key = k
          PROVE  /\ r.revision <= journeyGoal[k].revision
                 /\ r.revision = journeyGoal[k].revision => r.answer = journeyGoal[k].answer
      <4>1. CASE r = receipt
        BY <1>1, <1>4, <3>1, <3>3, <4>1
      <4>2. CASE r \in journeyReceipt
        BY <1>8, <3>4, <4>2 DEF JourneyGoalsOf
      <4> QED BY <1>1, <3>4, <4>1, <4>2
    <3> QED BY <1>1, <3>1, <3>2, <3>3, <3>4 DEF JourneyGoalsOf
  <2> QED BY <2>1, <2>2
<1> QED BY <1>2, <1>7, <1>9 DEF GoalsInv

LEMMA GoalsSame ==
  ASSUME GoalsInv, UNCHANGED <<goalLedger, goalChoice, goalAnswered, journeyGoal, journeyReceipt>>
  PROVE  GoalsInv'
BY DEF GoalsInv, GoalsOf, JourneyGoalsOf, Ledger, Outdated

LEMMA GoalsKept ==
  ASSUME Good, GoalsInv, [CohortNext]_cohortVars
  PROVE  GoalsInv'
<1>1. CASE JourneyNext /\ UNCHANGED <<diagVars, conversion, goalVars>>
  <2>1. ASSUME NEW u \in Account, NEW k \in Key, NEW id \in Confirmation, NEW r \in 1..MaxRevision, NEW g \in GoalAnswer,
               ConfirmJourneyGoals(u, k, id, r, g)
        PROVE  GoalsInv'
    BY <1>1, <2>1, ConfirmJourneyGoalsNewest
  <2>2. ASSUME UNCHANGED <<journeyGoal, journeyReceipt>>
        PROVE  GoalsInv'
    BY <1>1, <2>2, GoalsSame DEF goalVars
  <2>3. \/ \E u \in Account, k \in Key, id \in Confirmation, r \in 1..MaxRevision, g \in GoalAnswer :
            ConfirmJourneyGoals(u, k, id, r, g)
        \/ UNCHANGED <<journeyGoal, journeyReceipt>>
    BY <1>1 DEF JourneyNext, BeginAssign, BeginEnroll, RefuseRequest, Assign, Enroll, Resettle, Attribute, journeyTables
  <2> QED BY <2>1, <2>2, <2>3
<1>2. CASE DiagNext /\ UNCHANGED <<conversion, goalVars>>
  <2>1. UNCHANGED <<journeyGoal, journeyReceipt>>
    BY <1>2 DEF DiagNext, BeginEvents, StoreEvents, EventsCollide, DiagTick, journeyTables
  <2> QED BY <1>2, <2>1, GoalsSame DEF goalVars
<1>3. ASSUME NEW w \in CohortWorker, NEW kind, NEW u, NEW n, NEW v, NEW at, NEW t, BeginLegacy(w, kind, u, n, v, at, t)
      PROVE  GoalsInv'
  BY <1>3, GoalsSame DEF BeginLegacy, journeyTables, goalVars
<1>4. ASSUME NEW w \in CohortWorker, Expose(w) \/ EnterCohort(w) \/ Convert(w)
      PROVE  GoalsInv'
  BY <1>4, GoalsSame DEF Expose, EnterCohort, Convert, journeyRest, goalVars
<1>5. CASE UNCHANGED cohortVars
  BY <1>5, GoalsSame DEF cohortVars, journeyTables
<1> QED BY <1>1, <1>2, <1>3, <1>4, <1>5, ConfirmGoalsNewest DEF CohortNext

LEMMA CohortInitGoals == CohortInit => GoalsInv
<1> SUFFICES ASSUME CohortInit PROVE GoalsInv
  OBVIOUS
<1>1. /\ goalLedger = [n \in Install |-> None] /\ journeyGoal = [k \in Key |-> None] /\ journeyReceipt = {}
      /\ goalChoice \in [Install -> ChoiceRow \cup {None}]
      /\ goalAnswered = {[install |-> n, answer |-> Ledger(n)] : n \in {n \in Install : goalChoice[n] # None}}
  BY GoalAssumption DEF CohortInit, JourneyInit
<1>2. \A n \in Install : goalChoice[n] # None => Ledger(n) \in LegacyAnswer
  BY <1>1 DEF Ledger, ChoiceRow, LegacyAnswer
<1>3. ASSUME NEW x \in goalAnswered
      PROVE  Ledger(x.install) # None /\ Outdated(x.answer, Ledger(x.install))
  BY <1>1, <1>2, <1>3, NewerOrOutdated, AnswerFacts
<1> QED BY <1>1, <1>3 DEF GoalsInv, GoalsOf, JourneyGoalsOf

LEMMA GoalsImply == Good /\ GoalsInv => GoalsNewest
<1> SUFFICES ASSUME Good, GoalsInv PROVE GoalsNewest
  OBVIOUS
<1>1. ASSUME NEW n \in Install, goalLedger[n] # None
      PROVE  /\ goalChoice[n].at = goalLedger[n].at /\ goalChoice[n].keys = goalLedger[n].keys
             /\ \A x \in goalAnswered : x.install = n => Outdated(x.answer, goalLedger[n])
  BY <1>1 DEF GoalsInv, GoalsOf, Ledger
<1>2. ASSUME NEW r \in journeyReceipt
      PROVE  LET kept == journeyGoal[r.key]
             IN r.revision <= kept.revision /\ (r.revision = kept.revision => r.answer = kept.answer)
  <2>1. r.key \in Key
    BY DEF Good, CohortTypes
  <2> QED BY <2>1 DEF GoalsInv, JourneyGoalsOf
<1> QED BY <1>1, <1>2 DEF GoalsNewest, Outdated

-----------------------------------------------------------------------------
(* The theorems. *)

\* Every table of the experiments holds rows of its type, whatever the requests and the
\* order they commit in.
THEOREM CohortTypeCorrect == CohortSpec => []CohortTypes
<1>1. CohortInit => Good /\ EventsInv
  BY CohortInitGood
<1>2. Good /\ EventsInv /\ [CohortNext]_cohortVars => (Good /\ EventsInv)'
  BY Kept
<1>3. Good => CohortTypes
  BY DEF Good
<1> QED BY <1>1, <1>2, <1>3, PTL DEF CohortSpec

\* The first context an installation reports is the one of its entry, of its events, of
\* its purchase and of every later answer (reserve_identity, validate_journey).
THEOREM ContextCorrect == CohortSpec => []ContextAgrees
<1>1. CohortInit => Good /\ EventsInv
  BY CohortInitGood
<1>2. Good /\ EventsInv /\ [CohortNext]_cohortVars => (Good /\ EventsInv)'
  BY Kept
<1>3. Good => ContextAgrees
  BY ContextImplies
<1> QED BY <1>1, <1>2, <1>3, PTL DEF CohortSpec

\* An event that was acknowledged is stored as it was sent until it expires, with the
\* entry it makes, and no attempt has two ends (record_diagnostic_events).
THEOREM EventsCorrect == CohortSpec => []EventsKept
<1>1. CohortInit => Good /\ EventsInv
  BY CohortInitGood
<1>2. Good /\ EventsInv /\ [CohortNext]_cohortVars => (Good /\ EventsInv)'
  BY Kept
<1>3. Good /\ EventsInv => EventsKept
  BY EventsImply
<1> QED BY <1>1, <1>2, <1>3, PTL DEF CohortSpec

\* The stored answer to the goals question is the newest that was acknowledged, by its
\* revision, however late and often answers come (apply_goal_confirmation,
\* confirm_journey_goals).
THEOREM GoalsCorrect == CohortSpec => []GoalsNewest
<1>1. CohortInit => Good /\ EventsInv /\ GoalsInv
  BY CohortInitGood, CohortInitGoals
<1>2. Good /\ EventsInv /\ GoalsInv /\ [CohortNext]_cohortVars => (Good /\ EventsInv /\ GoalsInv)'
  BY Kept, GoalsKept
<1>3. Good /\ GoalsInv => GoalsNewest
  BY GoalsImply
<1> QED BY <1>1, <1>2, <1>3, PTL DEF CohortSpec
=============================================================================
