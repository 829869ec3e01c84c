---------------------------- MODULE DelayPreview ----------------------------
(***************************************************************************)
(* The onboarding delay preview: POST /flights/delay-preview.              *)
(*                                                                         *)
(* An account gets one prediction, for the first flight it asks about.  A  *)
(* claim binds the account and its installation to that flight, holds a    *)
(* lease while a request builds the prediction, and then the result.       *)
(* Builds that need AeroDataBox reserve a budget for the day and for the   *)
(* minute, and what AeroDataBox answers is cached for all workers.         *)
(*                                                                         *)
(* Requests of one account overlap in several workers.  No request is      *)
(* bound to finish within its lease: it may wait for SQLite's write lock   *)
(* at each of its five transactions, and for the provider in between.      *)
(***************************************************************************)
EXTENDS Naturals, FiniteSets

CONSTANTS
  Account,       \* ids of accounts, UUIDs that are never given twice
  Installation,  \* installations of the app
  OwnerOf,       \* the account each installation is assigned to, for good
  Flight,        \* identities of flights
  Asked,         \* the flights the app may ask for, with the installation
  Input,         \* cache keys of what the provider knows: history and airports
  InputsOf,      \* the inputs the prediction of each flight needs
  Answers,       \* the payloads the provider may give for each input
  Live,          \* what the flight's own times and status may add: payloads
  Request,       \* requests that may be under way at once
  Lease,         \* LEASE_MS
  Cooldown,      \* RETRY_COOLDOWN_MS
  Minute,        \* the length of a minute
  InputTtl,      \* AIRPORT_TTL_MS or HISTORY_TTL_MS, for each input
  ResultTtl,     \* RESULT_TTL_MS
  MaxBuilds,     \* MAX_BUILDS
  MaxTries,      \* the rounds of the loop in _bind
  DayCap,        \* DELAY_PREVIEW_DAILY_BUILD_CAP
  MinuteCap,     \* DELAY_PREVIEW_MINUTE_BUILD_CAP
  Busy,          \* minutes whose budget other accounts may use up
  Span,          \* how long a request may last
  Horizon,       \* bound: the last tick of the clock, within one day
  Budget,        \* bound: how many requests come ("ask"), and how often a worker
                 \* dies or the account is deleted ("end")
  None           \* SQL NULL or Python None

\* A payload has no usable data, data that add nothing to the score, or data
\* that raise it.
Payload == {"nothing", "calm", "risk"}

ASSUME PreviewAssumption ==
  /\ OwnerOf \in [Installation -> Account]
  /\ Asked \subseteq Installation \X Flight
  /\ InputsOf \in [Flight -> SUBSET Input]
  /\ Answers \in [Input -> SUBSET Payload]
  /\ Live \subseteq Payload
  /\ {Lease, Cooldown, Minute, MaxTries, MaxBuilds, DayCap, MinuteCap} \subseteq Nat \ {0}
  /\ InputTtl \in [Input -> Nat \ {0}]
  /\ ResultTtl \in Nat \ {0}
  /\ {Span, Horizon} \subseteq Nat
  /\ Busy \subseteq 0 .. Horizon \div Minute
  /\ Budget \in [{"ask", "end"} -> Nat]
  /\ IsFiniteSet(Request)

VARIABLES
  now,        \* current_time_ms()
  account,    \* the accounts that exist
  claim,      \* DelayPreviewClaim, by account
  inputs,     \* DelayPreviewCache: provider payloads
  results,    \* DelayPreviewCache: composed results, by flight and fingerprint
  day,        \* DelayPreviewBudget: reservations of the day
  minute,     \* DelayPreviewBudget: reservations of each minute
  request,    \* the state of each request
  left,       \* what is left of Budget
  builds,     \* history: how often a build for the account asked the provider
  served,     \* history: the flights the account was given results of
  overtaken   \* history: accounts whose lease was taken while its holder went on

cacheVars  == <<inputs, results>>
budgetVars == <<day, minute>>
history    == <<builds, served, overtaken>>
vars == <<now, account, claim, cacheVars, budgetVars, request, left, history>>

-----------------------------------------------------------------------------
(* Data. *)

\* What compose and _envelope make of the inputs.
Level == {"insufficient", "low", "raised"}

\* "partial": some input is missing because its call failed; "bare": all are.
Envelope == [flight : Flight, level : Level, partial : BOOLEAN, bare : BOOLEAN]

Claim ==
  [inst : Installation, flight : Flight,
   state : {"pending", "ready", "insufficient_data", "failed"},
   attempts : Nat, reason : {None, "capacity", "provider"},
   result : Envelope \cup {None},
   until : Nat \cup {None}, updated : Nat, revision : Nat]

Ask == [user : Account, inst : Installation, flight : Flight, live : Live, at : Nat]

\* The attributes of the claim a request works with.
Held == [revision : Nat, attempts : Nat]

ASSUME NoneAssumption == None \notin Nat \cup Envelope \cup Claim \cup Held

\* Mutant: only a prediction is final.
FinalReady == {"ready"}

FinalStates == {"ready", "insufficient_data"}

\* A payload read from the cache; an expired row counts as absent.
Cached(row, time) == IF row = None \/ row.until <= time THEN None ELSE row.value

Put(value, time, ttl) == [value |-> value, until |-> time + ttl]

\* compose, _has_signal and _envelope: without a signal there is no number.
Composed(got) ==
  IF "risk" \in got THEN "raised"
  ELSE IF "calm" \in got THEN "low"
  ELSE "insufficient"

StateOf(envelope) ==
  IF envelope.level = "insufficient" THEN "insufficient_data" ELSE "ready"

Init ==
  /\ now = 0
  /\ account = Account
  /\ claim = [u \in Account |-> None]
  /\ inputs = [k \in Input |-> None]
  /\ results = [k \in Flight \X Live |-> None]
  /\ day = 0
  /\ \E full \in SUBSET Busy :
       minute = [m \in 0 .. Horizon \div Minute |-> IF m \in full THEN MinuteCap ELSE 0]
  /\ request = [r \in Request |-> [pc |-> "idle"]]
  /\ left = Budget
  /\ builds = [u \in Account |-> 0]
  /\ served = [u \in Account |-> {}]
  /\ overtaken = {}

Spend(e) == left[e] > 0 /\ left' = [left EXCEPT ![e] = @ - 1]

Becomes(r, state) == request' = [request EXCEPT ![r] = state]

\* The request is answered without a result.
Answered(r) == Becomes(r, [pc |-> "idle"])

\* The request is answered with the result of a flight.
Serve(r, u, flight) ==
  /\ Answered(r)
  /\ served' = [served EXCEPT ![u] = @ \cup {flight}]

-----------------------------------------------------------------------------
(* Binding the claim. *)

\* The account is authenticated, owns the assignment of the installation, and
\* the flight is valid and has not left.  Any other request changes nothing.
Start(r, inst, flight, live) ==
  /\ request[r].pc = "idle"
  /\ <<inst, flight>> \in Asked
  /\ Spend("ask")
  /\ OwnerOf[inst] \in account
  /\ Becomes(r, [pc |-> "bind", tries |-> 0,
                 ask |-> [user |-> OwnerOf[inst], inst |-> inst, flight |-> flight,
                          live |-> live, at |-> now]])
  /\ UNCHANGED <<now, account, claim, cacheVars, budgetVars, history>>

\* by_user and by_installation.  An installation is assigned to one account for
\* good, so the row of the installation is the account's own.
Rows(a) ==
  {claim[v] : v \in {w \in Account : claim[w] # None
                                     /\ (w = a.user \/ claim[w].inst = a.inst)}}

\* Mutant: only the row of the installation is compared.
OtherFlightHere(a) == \E c \in Rows(a) : c.inst = a.inst /\ c.flight # a.flight

OtherFlight(a) == \E c \in Rows(a) : c.flight # a.flight

Exhausted(c) == c.attempts >= MaxBuilds

Leased(c, time) == c.state = "pending" /\ c.until > time

\* A refusal for capacity is retried without a cooldown.
Cooling(c, time) == c.reason # "capacity" /\ time < c.updated + Cooldown

\* The claim is not final, and this request must not build.
Waits(c, time) == Leased(c, time) \/ Exhausted(c) \/ Cooling(c, time)

\* Another flight, a lease of another request, no build left, or a cooldown; or
\* the loop has lost every round.
BindRefused(r) ==
  LET q == request[r]
      c == claim[q.ask.user]
  IN /\ q.pc = "bind"
     /\ \/ q.tries = MaxTries
        \/ OtherFlight(q.ask)
        \/ Rows(q.ask) # {} /\ c.state \notin FinalStates /\ Waits(c, q.ask.at)
     /\ Answered(r)
     /\ UNCHANGED <<now, left, account, claim, cacheVars, budgetVars, history>>

\* The result stored on the claim.
BindStored(r) ==
  LET q == request[r]
      c == claim[q.ask.user]
  IN /\ q.pc = "bind" /\ q.tries < MaxTries
     /\ Rows(q.ask) # {} /\ ~OtherFlight(q.ask)
     /\ c.state \in FinalStates
     /\ Serve(r, q.ask.user, c.result.flight)
     /\ UNCHANGED <<now, left, account, claim, cacheVars, budgetVars, builds, overtaken>>

\* No claim, or one this request may build for: its write comes next.
BindGo(r) ==
  LET q == request[r]
      c == claim[q.ask.user]
  IN /\ q.pc = "bind" /\ q.tries < MaxTries
     /\ \/ /\ Rows(q.ask) = {}
           /\ Becomes(r, [q EXCEPT !.pc = "insert"])
        \/ /\ Rows(q.ask) # {} /\ ~OtherFlight(q.ask)
           /\ c.state \notin FinalStates /\ ~Waits(c, q.ask.at)
           /\ Becomes(r, [pc |-> "lease", tries |-> q.tries, ask |-> q.ask,
                          revision |-> c.revision])
     /\ UNCHANGED <<now, left, account, claim, cacheVars, budgetVars, history>>

NewClaim(a) ==
  [inst |-> a.inst, flight |-> a.flight, state |-> "pending", attempts |-> 0,
   reason |-> None, result |-> None, until |-> a.at + Lease, updated |-> a.at,
   revision |-> 1]

\* The next round of the loop in _bind.
Again(q) == [pc |-> "bind", tries |-> q.tries + 1, ask |-> q.ask]

\* INSERT ... ON CONFLICT DO NOTHING, for the account and the installation alike.
BindInsert(r) ==
  LET q == request[r]
  IN /\ q.pc = "insert"
     /\ IF Rows(q.ask) = {}
        THEN /\ claim' = [claim EXCEPT ![q.ask.user] = NewClaim(q.ask)]
             /\ Becomes(r, [q EXCEPT !.pc = "inserted"])
        ELSE /\ Becomes(r, Again(q))
             /\ UNCHANGED claim
     /\ UNCHANGED <<now, left, account, cacheVars, budgetVars, history>>

\* _transition finds the revision it observed.
Matches(u, revision) == claim[u] # None /\ claim[u].revision = revision

\* Requests that go on with a lease on the claim of an account.
Holding == {"inserted", "leased", "build", "reserve", "counted", "refused", "attempt",
            "refuse", "attempted", "fetch", "composed", "settle"}

Holders(u) == {r \in Request : request[r].pc \in Holding /\ request[r].ask.user = u}

\* The claim with a lease from the time a request started.
Renewed(c, time) ==
  [c EXCEPT !.state = "pending", !.until = time + Lease, !.updated = time,
            !.revision = c.revision + 1]

\* The compare-and-swap that takes the lease.
BindLease(r) ==
  LET q == request[r]
      u == q.ask.user
  IN /\ q.pc = "lease"
     /\ IF Matches(u, q.revision)
        THEN /\ claim' = [claim EXCEPT ![u] =
                            Renewed(claim[u], q.ask.at)]
             /\ Becomes(r, [pc |-> "leased", tries |-> q.tries, ask |-> q.ask])
             /\ overtaken' = IF Holders(u) = {} THEN overtaken ELSE overtaken \cup {u}
        ELSE /\ Becomes(r, Again(q))
             /\ UNCHANGED <<claim, overtaken>>
     /\ UNCHANGED <<now, left, account, cacheVars, budgetVars, builds, served>>

-----------------------------------------------------------------------------
(* Building.  A commit expires the copy of the claim, so that the next use of *)
(* it reads the row again, whatever has become of it.                         *)

HeldOf(u) == [revision |-> claim[u].revision, attempts |-> claim[u].attempts]

\* After the commit that inserted or leased.  A request that inserted builds with
\* what it finds, be it nothing.
Reload(r) ==
  LET q == request[r]
      u == q.ask.user
  IN /\ q.pc \in {"inserted", "leased"}
     /\ IF claim[u] = None /\ q.pc = "leased"
        THEN Becomes(r, Again(q))
        ELSE Becomes(r, [pc |-> "build", ask |-> q.ask,
                         held |-> IF claim[u] = None THEN None ELSE HeldOf(u)])
     /\ UNCHANGED <<now, left, account, claim, cacheVars, budgetVars, history>>

Read(a) == [k \in InputsOf[a.flight] |-> Cached(inputs[k], a.at)]

Missing(got) == {k \in DOMAIN got : got[k] = None}

Envelop(a, got) ==
  [flight  |-> a.flight,
   level   |-> Composed({got[k] : k \in DOMAIN got} \cup {a.live}),
   partial |-> Missing(got) # {},
   bare    |-> Missing(got) = DOMAIN got]

\* The caches: a result for the same flight and fingerprint, or every input.
BuildCached(r) ==
  LET q == request[r]
      a == q.ask
      shared == Cached(results[<<a.flight, a.live>>], a.at)
      got == Read(a)
  IN /\ q.pc = "build"
     /\ shared # None \/ Missing(got) = {}
     /\ IF q.held = None
        THEN Answered(r)
        ELSE Becomes(r, [pc |-> "settle", ask |-> a, held |-> q.held,
                         envelope |-> IF shared # None THEN shared ELSE Envelop(a, got),
                         share |-> shared = None, time |-> a.at])
     /\ UNCHANGED <<now, left, account, claim, cacheVars, budgetVars, history>>

\* Some input is missing: a build has to be reserved.
BuildMissing(r) ==
  LET q == request[r]
      got == Read(q.ask)
  IN /\ q.pc = "build"
     /\ Cached(results[<<q.ask.flight, q.ask.live>>], q.ask.at) = None
     /\ Missing(got) # {}
     /\ Becomes(r, [pc |-> "reserve", ask |-> q.ask, got |-> got, lost |-> q.held = None])
     /\ UNCHANGED <<now, left, account, claim, cacheVars, budgetVars, history>>

\* _reserve_build: one of the day and one of the minute in which the request
\* started, or neither.  Its commits expire the copy of the claim.
Reserve(r) ==
  LET q == request[r]
      m == q.ask.at \div Minute
  IN /\ q.pc = "reserve"
     /\ IF day < DayCap /\ minute[m] < MinuteCap
        THEN /\ day' = day + 1
             /\ minute' = [minute EXCEPT ![m] = @ + 1]
             /\ Becomes(r, [q EXCEPT !.pc = "counted"])
        ELSE /\ Becomes(r, [pc |-> "refused", ask |-> q.ask, lost |-> q.lost])
             /\ UNCHANGED budgetVars
     /\ UNCHANGED <<now, left, account, claim, cacheVars, history>>

\* The first use of the expired copy reads the row; a deleted row is an error.
Refresh(r) ==
  LET q == request[r]
      u == q.ask.user
  IN /\ q.pc \in {"counted", "refused", "composed"}
     /\ claim[u] # None
     /\ \/ /\ q.pc = "counted" /\ ~q.lost
           /\ Becomes(r, [pc |-> "attempt", ask |-> q.ask, got |-> q.got, held |-> HeldOf(u)])
        \/ /\ q.pc = "refused" /\ ~q.lost
           /\ Becomes(r, [pc |-> "refuse", ask |-> q.ask, held |-> HeldOf(u)])
        \/ /\ q.pc = "composed"
           /\ Becomes(r, [pc |-> "settle", ask |-> q.ask, held |-> HeldOf(u),
                          envelope |-> q.envelope, share |-> q.share, time |-> q.time])
     /\ UNCHANGED <<now, left, account, claim, cacheVars, budgetVars, history>>

RefreshFails(r) ==
  LET q == request[r]
  IN /\ q.pc \in {"counted", "refused", "composed"}
     /\ claim[q.ask.user] = None \/ (q.pc # "composed" /\ q.lost)
     /\ Answered(r)
     /\ UNCHANGED <<now, left, account, claim, cacheVars, budgetVars, history>>

\* The claim after a failure; the attempts stay.
Failed(c, reason, time) ==
  [c EXCEPT !.state = "failed", !.reason = reason, !.until = None, !.updated = time,
            !.revision = c.revision + 1]

\* No budget: the claim fails for capacity, unless another request changed it.
Refuse(r) ==
  LET q == request[r]
      u == q.ask.user
  IN /\ q.pc = "refuse"
     /\ claim' = IF Matches(u, q.held.revision)
                 THEN [claim EXCEPT ![u] = Failed(claim[u], "capacity", q.ask.at)]
                 ELSE claim
     /\ Answered(r)
     /\ UNCHANGED <<now, left, account, cacheVars, budgetVars, history>>

\* Mutant: the attempt is not counted.
UncountedAttempt(c, held, a) == Renewed(c, a.at)

\* The attempt is counted and the lease renewed before the provider is asked.
Attempted(c, held, a) == [Renewed(c, a.at) EXCEPT !.attempts = held.attempts + 1]

Attempt(r) ==
  LET q == request[r]
      u == q.ask.user
  IN /\ q.pc = "attempt"
     /\ IF Matches(u, q.held.revision)
        THEN /\ claim' = [claim EXCEPT ![u] = Attempted(claim[u], q.held, q.ask)]
             /\ Becomes(r, [pc |-> "attempted", ask |-> q.ask, got |-> q.got])
        ELSE /\ Answered(r)
             /\ UNCHANGED claim
     /\ UNCHANGED <<now, left, account, cacheVars, budgetVars, history>>

\* After that commit the row is read once more, and the provider is asked.
AskProvider(r) ==
  LET q == request[r]
      u == q.ask.user
  IN /\ q.pc = "attempted"
     /\ IF claim[u] # None
        THEN /\ Becomes(r, [pc |-> "fetch", ask |-> q.ask, got |-> q.got, held |-> HeldOf(u)])
             /\ builds' = [builds EXCEPT ![u] = @ + 1]
        ELSE /\ Answered(r)
             /\ UNCHANGED builds
     /\ UNCHANGED <<now, left, account, claim, cacheVars, budgetVars, served, overtaken>>

\* A payload, or None for a failed call.
Fetched(keys) ==
  {answer \in [keys -> Payload \cup {None}] :
     \A k \in keys : answer[k] \in Answers[k] \cup {None}}

\* The calls end, by the deadline at the latest: each one with a payload or with
\* a failure.  Payloads are cached in a transaction that expires the copy of the
\* claim; failures are not.
Fetch(r) ==
  LET q == request[r]
  IN /\ q.pc = "fetch"
     /\ \E answer \in Fetched(Missing(q.got)) :
          LET got == [k \in DOMAIN q.got |-> IF k \in DOMAIN answer THEN answer[k] ELSE q.got[k]]
              new == {k \in DOMAIN answer : answer[k] # None}
              envelope == Envelop(q.ask, got)
          IN /\ inputs' = [k \in Input |-> IF k \in new THEN Put(answer[k], now, InputTtl[k])
                                           ELSE inputs[k]]
             /\ IF new # {}
                THEN Becomes(r, [pc |-> "composed", ask |-> q.ask, envelope |-> envelope,
                                 share |-> ~envelope.partial, time |-> now])
                ELSE Becomes(r, [pc |-> "settle", ask |-> q.ask, held |-> q.held,
                                 envelope |-> envelope, share |-> FALSE, time |-> now])
     /\ UNCHANGED <<now, left, account, claim, results, budgetVars, history>>

\* Mutant: a partial result that reads low is shown.
UnusableIfInsufficient(envelope) ==
  envelope.partial /\ (envelope.bare \/ envelope.level = "insufficient")

\* With a call failed, no signal and a low risk may only be the missing input's.
Unusable(envelope) ==
  envelope.partial /\ (envelope.bare \/ envelope.level # "raised")

SettleFailed(r) ==
  LET q == request[r]
      u == q.ask.user
  IN /\ q.pc = "settle"
     /\ Unusable(q.envelope)
     /\ claim' = IF Matches(u, q.held.revision)
                 THEN [claim EXCEPT ![u] = Failed(claim[u], "provider", q.time)]
                 ELSE claim
     /\ Answered(r)
     /\ UNCHANGED <<now, left, account, cacheVars, budgetVars, history>>

\* Mutant: the lease is left on the claim.
FinishedLeased(c, envelope, time) ==
  [c EXCEPT !.state = StateOf(envelope), !.result = envelope, !.reason = None,
            !.updated = time, !.revision = c.revision + 1]

Finished(c, envelope, time) ==
  [c EXCEPT !.state = StateOf(envelope), !.result = envelope, !.reason = None,
            !.until = None, !.updated = time, !.revision = c.revision + 1]

\* _finish: the result is stored if the revision still matches; it is shared, when
\* every input is real, and answered either way.
Finish(r) ==
  LET q == request[r]
      u == q.ask.user
  IN /\ q.pc = "settle"
     /\ ~Unusable(q.envelope)
     /\ claim' = IF Matches(u, q.held.revision)
                 THEN [claim EXCEPT ![u] = Finished(claim[u], q.envelope, q.time)]
                 ELSE claim
     /\ results' = IF q.share
                   THEN [results EXCEPT ![<<q.ask.flight, q.ask.live>>] =
                           Put(q.envelope, q.time, ResultTtl)]
                   ELSE results
     /\ Serve(r, u, q.envelope.flight)
     /\ UNCHANGED <<now, left, account, inputs, budgetVars, builds, overtaken>>

-----------------------------------------------------------------------------
(* Around the requests. *)

\* The account deletes itself, and its claim with it.
DeleteUser(u) ==
  /\ u \in account
  /\ Spend("end")
  /\ account' = account \ {u}
  /\ claim' = [claim EXCEPT ![u] = None]
  /\ UNCHANGED <<now, cacheVars, budgetVars, request, history>>

\* A worker dies, or SQLite's write lock is not free within its time-out.
Die(r) ==
  /\ request[r].pc # "idle"
  /\ Spend("end")
  /\ Answered(r)
  /\ UNCHANGED <<now, account, claim, cacheVars, budgetVars, history>>

Tick ==
  /\ now < Horizon
  /\ \A r \in Request : request[r].pc # "idle" => now < request[r].ask.at + Span
  /\ now' = now + 1
  /\ UNCHANGED <<account, claim, cacheVars, budgetVars, request, left, history>>

\* Nothing is under way and the bounds allow nothing more.
Rest ==
  /\ \A r \in Request : request[r].pc = "idle"
  /\ left["ask"] = 0 \/ account = {}
  /\ UNCHANGED vars

Step(r) ==
  \/ \E inst \in Installation, flight \in Flight, live \in Live : Start(r, inst, flight, live)
  \/ BindRefused(r)
  \/ BindStored(r)
  \/ BindGo(r)
  \/ BindInsert(r)
  \/ BindLease(r)
  \/ Reload(r)
  \/ BuildCached(r)
  \/ BuildMissing(r)
  \/ Reserve(r)
  \/ Refresh(r)
  \/ RefreshFails(r)
  \/ Refuse(r)
  \/ Attempt(r)
  \/ AskProvider(r)
  \/ Fetch(r)
  \/ SettleFailed(r)
  \/ Finish(r)
  \/ Die(r)

Next ==
  \/ \E r \in Request : Step(r)
  \/ \E u \in Account : DeleteUser(u)
  \/ Tick
  \/ Rest

Spec == Init /\ [][Next]_vars

-----------------------------------------------------------------------------
(* Properties. *)

Got == UNION {[InputsOf[f] -> Payload \cup {None}] : f \in Flight}

RequestState ==
  [pc : {"idle"}]
  \cup [pc : {"bind", "insert", "inserted", "leased"}, tries : 0 .. MaxTries, ask : Ask]
  \cup [pc : {"lease"}, tries : 0 .. MaxTries, ask : Ask, revision : Nat]
  \cup [pc : {"build"}, ask : Ask, held : Held \cup {None}]
  \cup [pc : {"reserve", "counted"}, ask : Ask, got : Got, lost : BOOLEAN]
  \cup [pc : {"refused"}, ask : Ask, lost : BOOLEAN]
  \cup [pc : {"refuse"}, ask : Ask, held : Held]
  \cup [pc : {"attempted"}, ask : Ask, got : Got]
  \cup [pc : {"attempt", "fetch"}, ask : Ask, got : Got, held : Held]
  \cup [pc : {"composed"}, ask : Ask, envelope : Envelope, share : BOOLEAN, time : Nat]
  \cup [pc : {"settle"}, ask : Ask, held : Held, envelope : Envelope, share : BOOLEAN,
        time : Nat]

\* The type of the state.  A claim has a lease exactly while it is pending, and a
\* result when it is final.
TypeOK ==
  /\ now \in 0 .. Horizon
  /\ account \subseteq Account
  /\ claim \in [Account -> Claim \cup {None}]
  /\ \A u \in Account : claim[u] # None =>
       /\ claim[u].until # None <=> claim[u].state = "pending"
       /\ claim[u].state \in {"ready", "insufficient_data"} => claim[u].result # None
  /\ inputs \in [Input -> [value : Payload, until : Nat] \cup {None}]
  /\ results \in [Flight \X Live -> [value : Envelope, until : Nat] \cup {None}]
  /\ day \in 0 .. DayCap
  /\ minute \in [0 .. Horizon \div Minute -> 0 .. MinuteCap]
  /\ request \in [Request -> RequestState]
  /\ left \in [{"ask", "end"} -> Nat]
  /\ builds \in [Account -> Nat]
  /\ served \in [Account -> SUBSET Flight]
  /\ overtaken \subseteq Account

\* "The first request binds the account and the installation to one flight
\* identity, for good": whatever requests of an account overlap, for whichever of
\* its installations, every result it was ever given is of the flight its claim
\* names, and so is the result that is stored.
OneFlight ==
  \A u \in account :
    /\ served[u] # {} => claim[u] # None
    /\ claim[u] # None =>
         /\ served[u] \subseteq {claim[u].flight}
         /\ claim[u].result # None => claim[u].result.flight = claim[u].flight

\* "At most two uncached builds per claim": whatever retries, overlaps and deaths of
\* workers there are, every time the provider was asked is counted on the claim, and
\* it is not asked more often than that, unless a lease on the claim was taken over
\* while its holder went on.
TwoBuilds ==
  \A u \in account :
    /\ builds[u] > 0 => claim[u] # None /\ builds[u] <= claim[u].attempts
    /\ u \notin overtaken => builds[u] <= MaxBuilds

\* "A failed provider call is never scored as low risk": no low risk and no lack
\* of signals is stored on a claim that was composed without one of the inputs; and
\* what is shared with other accounts was composed of all of them.
NeverFalselyCalm ==
  /\ \A u \in Account :
       LET e == claim[u].result
       IN claim[u] # None /\ e # None => ~e.partial \/ (e.level = "raised" /\ ~e.bare)
  /\ \A k \in Flight \X Live : results[k] # None => ~results[k].value.partial

\* A claim that is final keeps its state and its result.
KeptFor(users) ==
  \A u \in users :
    /\ claim[u] # None
    /\ claim[u].state \in {"ready", "insufficient_data"}
    => /\ claim'[u] # None
       /\ claim'[u].state = claim[u].state
       /\ claim'[u].result = claim[u].result

\* No step changes a final claim, short of the end of the account, unless a lease
\* on the claim was taken over while its holder went on.
FinalUnlessOvertaken == [][KeptFor((account \cap account') \ overtaken)]_vars

\* "The same flight later returns the stored result": no step changes a final
\* claim, since "every state change requires the observed revision".
FinalKept == [][KeptFor(account \cap account')]_vars
=============================================================================
