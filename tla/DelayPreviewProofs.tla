------------------------- MODULE DelayPreviewProofs -------------------------
(* Proofs about DelayPreview, for any accounts, flights, requests and bounds. *)
EXTENDS DelayPreview, FiniteSetTheorems, TLAPS

-----------------------------------------------------------------------------
(* Types. *)

\* What is carried by a request at each step.
BindState == [pc : {"bind", "insert", "inserted", "leased"}, tries : 0 .. MaxTries, ask : Ask]
LeaseState == [pc : {"lease"}, tries : 0 .. MaxTries, ask : Ask, revision : Nat]
BuildState == [pc : {"build"}, ask : Ask, held : Held \cup {None}]
ReserveState == [pc : {"reserve", "counted"}, ask : Ask, got : Got, lost : BOOLEAN]
RefusedState == [pc : {"refused"}, ask : Ask, lost : BOOLEAN]
RefuseState == [pc : {"refuse"}, ask : Ask, held : Held]
AttemptedState == [pc : {"attempted"}, ask : Ask, got : Got]
FetchState == [pc : {"attempt", "fetch"}, ask : Ask, got : Got, held : Held]
ComposedState ==
  [pc : {"composed"}, ask : Ask, envelope : Envelope, share : BOOLEAN, time : Nat]
SettleState ==
  [pc : {"settle"}, ask : Ask, held : Held, envelope : Envelope, share : BOOLEAN, time : Nat]

LEMMA States ==
  RequestState = [pc : {"idle"}] \cup BindState \cup LeaseState \cup BuildState
                 \cup ReserveState \cup RefusedState \cup RefuseState \cup AttemptedState
                 \cup FetchState \cup ComposedState \cup SettleState
BY DEF RequestState, BindState, LeaseState, BuildState, ReserveState, RefusedState,
       RefuseState, AttemptedState, FetchState, ComposedState, SettleState

LEMMA Shapes ==
  ASSUME NEW q \in RequestState
  PROVE  /\ q.pc # "idle" => q.ask \in Ask
         /\ q.pc \in {"bind", "insert", "inserted", "leased"} => q \in BindState
         /\ q.pc = "lease" => q \in LeaseState
         /\ q.pc = "build" => q \in BuildState
         /\ q.pc \in {"reserve", "counted"} => q \in ReserveState
         /\ q.pc = "refused" => q \in RefusedState
         /\ q.pc = "refuse" => q \in RefuseState
         /\ q.pc = "attempted" => q \in AttemptedState
         /\ q.pc \in {"attempt", "fetch"} => q \in FetchState
         /\ q.pc = "composed" => q \in ComposedState
         /\ q.pc = "settle" => q \in SettleState
<1>1. CASE q \in [pc : {"idle"}]
  BY <1>1
<1>2. CASE q \in BindState
  BY <1>2 DEF BindState
<1>3. CASE q \in LeaseState
  BY <1>3 DEF LeaseState
<1>4. CASE q \in BuildState
  BY <1>4 DEF BuildState
<1>5. CASE q \in ReserveState
  BY <1>5 DEF ReserveState
<1>6. CASE q \in RefusedState
  BY <1>6 DEF RefusedState
<1>7. CASE q \in RefuseState
  BY <1>7 DEF RefuseState
<1>8. CASE q \in AttemptedState
  BY <1>8 DEF AttemptedState
<1>9. CASE q \in FetchState
  BY <1>9 DEF FetchState
<1>10. CASE q \in ComposedState
  BY <1>10 DEF ComposedState
<1>11. CASE q \in SettleState
  BY <1>11 DEF SettleState
<1> QED
  BY <1>1, <1>2, <1>3, <1>4, <1>5, <1>6, <1>7, <1>8, <1>9, <1>10, <1>11, States

-----------------------------------------------------------------------------
(* Rows. *)

RowOK(c) ==
  /\ c.until # None <=> c.state = "pending"
  /\ c.state \in {"ready", "insufficient_data"} => c.result # None

\* What every write of a claim that exists does.
Written(c, d) ==
  /\ d \in Claim /\ d # None /\ RowOK(d)
  /\ d.inst = c.inst /\ d.flight = c.flight
  /\ d.revision = c.revision + 1

LEMMA NewRow ==
  ASSUME NEW a \in Ask
  PROVE  /\ NewClaim(a) \in Claim /\ NewClaim(a) # None /\ RowOK(NewClaim(a))
         /\ NewClaim(a).inst = a.inst /\ NewClaim(a).flight = a.flight
         /\ NewClaim(a).attempts = 0 /\ NewClaim(a).revision = 1
         /\ NewClaim(a).state = "pending" /\ NewClaim(a).result = None
<1>1. a.at + Lease \in Nat /\ a.at \in Nat /\ a.inst \in Installation /\ a.flight \in Flight
  BY PreviewAssumption DEF Ask
<1>2. NewClaim(a) \in Claim
  BY <1>1 DEF NewClaim, Claim
<1> QED
  BY <1>1, <1>2, NoneAssumption DEF NewClaim, RowOK

LEMMA RenewedRow ==
  ASSUME NEW c \in Claim, NEW time \in Nat
  PROVE  /\ Written(c, Renewed(c, time))
         /\ Renewed(c, time).state = "pending"
         /\ Renewed(c, time).attempts = c.attempts
         /\ Renewed(c, time).result = c.result
<1>1. time + Lease \in Nat /\ c.revision + 1 \in Nat
  BY PreviewAssumption DEF Claim
<1>2. Renewed(c, time) \in Claim
  BY <1>1, Zenon DEF Claim, Renewed
<1>3. /\ Renewed(c, time).until = time + Lease
      /\ Renewed(c, time).state = "pending"
      /\ Renewed(c, time).inst = c.inst /\ Renewed(c, time).flight = c.flight
      /\ Renewed(c, time).attempts = c.attempts /\ Renewed(c, time).result = c.result
      /\ Renewed(c, time).revision = c.revision + 1
  BY DEF Renewed, Claim
<1> QED
  BY <1>1, <1>2, <1>3, NoneAssumption DEF Written, RowOK

LEMMA AttemptedRow ==
  ASSUME NEW c \in Claim, NEW held \in Held, NEW a \in Ask
  PROVE  /\ Written(c, Attempted(c, held, a))
         /\ Attempted(c, held, a).state = "pending"
         /\ Attempted(c, held, a).attempts = held.attempts + 1
         /\ Attempted(c, held, a).result = c.result
<1> DEFINE d == Renewed(c, a.at)
<1>1. a.at \in Nat /\ held.attempts + 1 \in Nat
  BY DEF Ask, Held
<1>2. Written(c, d) /\ d.state = "pending" /\ d.result = c.result
  BY <1>1, RenewedRow
<1>3. Attempted(c, held, a) =
        [inst |-> d.inst, flight |-> d.flight, state |-> d.state,
         attempts |-> held.attempts + 1, reason |-> d.reason, result |-> d.result,
         until |-> d.until, updated |-> d.updated, revision |-> d.revision]
  BY <1>2 DEF Attempted, Written, Claim
<1>4. Attempted(c, held, a) \in Claim
  BY <1>1, <1>2, <1>3 DEF Claim, Written
<1> QED
  BY <1>2, <1>3, <1>4, NoneAssumption DEF Written, RowOK

LEMMA FailedRow ==
  ASSUME NEW c \in Claim, NEW reason \in {"capacity", "provider"}, NEW time \in Nat
  PROVE  /\ Written(c, Failed(c, reason, time))
         /\ Failed(c, reason, time).attempts = c.attempts
         /\ Failed(c, reason, time).result = c.result
<1>1. c.revision + 1 \in Nat
  BY DEF Claim
<1>2. Failed(c, reason, time) \in Claim
  BY <1>1, Zenon DEF Claim, Failed
<1>3. /\ Failed(c, reason, time).until = None
      /\ Failed(c, reason, time).state = "failed"
      /\ Failed(c, reason, time).inst = c.inst /\ Failed(c, reason, time).flight = c.flight
      /\ Failed(c, reason, time).attempts = c.attempts
      /\ Failed(c, reason, time).result = c.result
      /\ Failed(c, reason, time).revision = c.revision + 1
  BY DEF Failed, Claim
<1> QED
  BY <1>2, <1>3, NoneAssumption DEF Written, RowOK

LEMMA FinishedRow ==
  ASSUME NEW c \in Claim, NEW e \in Envelope, NEW time \in Nat
  PROVE  /\ Written(c, Finished(c, e, time))
         /\ Finished(c, e, time).attempts = c.attempts
         /\ Finished(c, e, time).result = e
<1>1. c.revision + 1 \in Nat /\ StateOf(e) \in {"ready", "insufficient_data"}
  BY DEF Claim, StateOf
<1>2. Finished(c, e, time) \in Claim
  BY <1>1, Zenon DEF Claim, Finished
<1>3. /\ Finished(c, e, time).until = None
      /\ Finished(c, e, time).state = StateOf(e)
      /\ Finished(c, e, time).inst = c.inst /\ Finished(c, e, time).flight = c.flight
      /\ Finished(c, e, time).attempts = c.attempts
      /\ Finished(c, e, time).result = e
      /\ Finished(c, e, time).revision = c.revision + 1
  BY DEF Finished, Claim
<1> QED
  BY <1>1, <1>2, <1>3, NoneAssumption DEF Written, RowOK

-----------------------------------------------------------------------------
(* What a request reads. *)

\* A request and a claim belong to the account their installation is assigned to.
AskInv == \A r \in Request :
  request[r].pc # "idle" => request[r].ask.user = OwnerOf[request[r].ask.inst]

ClaimInv == \A u \in Account : claim[u] # None => OwnerOf[claim[u].inst] = u

BaseInv == TypeOK /\ AskInv /\ ClaimInv

\* The loop has a round left for a request whose write it has begun.
TriesInv == \A r \in Request :
  request[r].pc \in {"insert", "inserted", "leased", "lease"} => request[r].tries < MaxTries

\* So the row of the installation is the row of the account.
LEMMA OwnRows ==
  ASSUME TypeOK, ClaimInv, NEW a \in Ask, a.user = OwnerOf[a.inst]
  PROVE  /\ claim[a.user] = None => Rows(a) = {} /\ ~OtherFlight(a)
         /\ claim[a.user] # None => /\ claim[a.user] \in Claim
                                    /\ Rows(a) = {claim[a.user]}
                                    /\ OtherFlight(a) <=> claim[a.user].flight # a.flight
<1>1. a.user \in Account
  BY DEF Ask
<1>2. \A v \in Account : claim[v] # None /\ claim[v].inst = a.inst => v = a.user
  BY DEF ClaimInv
<1>3. Rows(a) = {claim[v] : v \in {w \in Account : claim[w] # None /\ w = a.user}}
  BY <1>2 DEF Rows
<1>4. claim[a.user] # None => claim[a.user] \in Claim
  BY <1>1 DEF TypeOK
<1> QED
  BY <1>1, <1>3, <1>4 DEF OtherFlight

LEMMA ReadType ==
  ASSUME TypeOK, NEW a \in Ask
  PROVE  Read(a) \in Got
<1>1. \A k \in InputsOf[a.flight] : Cached(inputs[k], a.at) \in Payload \cup {None}
  <2> SUFFICES ASSUME NEW k \in InputsOf[a.flight]
               PROVE  Cached(inputs[k], a.at) \in Payload \cup {None}
    OBVIOUS
  <2>1. k \in Input
    BY PreviewAssumption DEF Ask
  <2>2. inputs[k] # None => inputs[k].value \in Payload
    BY <2>1 DEF TypeOK
  <2> QED
    BY <2>2 DEF Cached
<1>2. Read(a) \in [InputsOf[a.flight] -> Payload \cup {None}]
  BY <1>1 DEF Read
<1>3. a.flight \in Flight
  BY DEF Ask
<1> QED
  BY <1>2, <1>3 DEF Got

LEMMA EnvelopType ==
  ASSUME NEW a \in Ask, NEW got
  PROVE  /\ Envelop(a, got) \in Envelope
         /\ Envelop(a, got).flight = a.flight
         /\ Envelop(a, got).partial <=> Missing(got) # {}
<1>1. Composed({got[k] : k \in DOMAIN got} \cup {a.live}) \in Level
  BY DEF Composed, Level
<1> QED
  BY <1>1 DEF Envelop, Envelope, Ask

\* A shared result is found under its flight.
LEMMA SharedType ==
  ASSUME TypeOK, NEW a \in Ask, Cached(results[<<a.flight, a.live>>], a.at) # None
  PROVE  /\ Cached(results[<<a.flight, a.live>>], a.at) \in Envelope
         /\ results[<<a.flight, a.live>>] # None
         /\ Cached(results[<<a.flight, a.live>>], a.at) = results[<<a.flight, a.live>>].value
<1>1. <<a.flight, a.live>> \in Flight \X Live
  BY DEF Ask
<1>2. results[<<a.flight, a.live>>] # None
  BY DEF Cached
<1> QED
  BY <1>1, <1>2 DEF Cached, TypeOK

LEMMA FetchedType ==
  ASSUME NEW got \in Got, NEW answer \in Fetched(Missing(got))
  PROVE  /\ DOMAIN answer = Missing(got) /\ DOMAIN answer \subseteq Input
         /\ \A k \in DOMAIN answer : answer[k] \in Payload \cup {None}
         /\ [k \in DOMAIN got |-> IF k \in DOMAIN answer THEN answer[k] ELSE got[k]] \in Got
<1>1. PICK f \in Flight : got \in [InputsOf[f] -> Payload \cup {None}]
  BY DEF Got
<1>2. DOMAIN got \subseteq Input
  BY <1>1, PreviewAssumption
<1>3. DOMAIN answer = Missing(got)
  BY DEF Fetched
<1>4. \A k \in DOMAIN answer : answer[k] \in Payload \cup {None}
  BY DEF Fetched
<1>5. [k \in DOMAIN got |-> IF k \in DOMAIN answer THEN answer[k] ELSE got[k]]
        \in [InputsOf[f] -> Payload \cup {None}]
  BY <1>1, <1>4
<1> QED
  BY <1>2, <1>3, <1>4, <1>5 DEF Got, Missing

-----------------------------------------------------------------------------
(* What a step of a request changes, and that types last. *)

Moved(r) ==
  /\ request' \in [Request -> RequestState]
  /\ \A s \in Request \ {r} : request'[s] = request[s]
  /\ request'[r].pc # "idle" => request'[r].ask.user = OwnerOf[request'[r].ask.inst]

\* The new row, the row of an inserted claim, or the row after a write.
RowsMove ==
  /\ claim' \in [Account -> Claim \cup {None}]
  /\ \A u \in Account :
       \/ claim'[u] = claim[u]
       \/ claim[u] # None /\ Written(claim[u], claim'[u])
       \/ /\ claim[u] = None /\ claim'[u] # None /\ RowOK(claim'[u])
          /\ OwnerOf[claim'[u].inst] = u

OtherTypes ==
  /\ now \in 0 .. Horizon
  /\ account \subseteq Account
  /\ inputs \in [Input -> [value : Payload, until : Nat] \cup {None}]
  /\ results \in [Flight \X Live -> [value : Envelope, until : Nat] \cup {None}]
  /\ day \in 0 .. DayCap
  /\ minute \in [0 .. Horizon \div Minute -> 0 .. MinuteCap]
  /\ left \in [{"ask", "end"} -> Nat]
  /\ builds \in [Account -> Nat]
  /\ served \in [Account -> SUBSET Flight]
  /\ overtaken \subseteq Account

LEMMA MovedBy ==
  ASSUME TypeOK, NEW r \in Request, NEW st \in RequestState, Becomes(r, st),
         st.pc # "idle" => st.ask.user = OwnerOf[st.ask.inst]
  PROVE  Moved(r) /\ request'[r] = st
BY DEF TypeOK, Becomes, Moved

LEMMA AnsweredMoves ==
  ASSUME TypeOK, NEW r \in Request, Answered(r)
  PROVE  Moved(r) /\ request'[r] = [pc |-> "idle"]
<1>1. [pc |-> "idle"] \in RequestState
  BY DEF RequestState
<1> QED
  BY <1>1, MovedBy DEF Answered

LEMMA SameRows ==
  ASSUME TypeOK, UNCHANGED claim
  PROVE  RowsMove
BY DEF TypeOK, RowsMove

LEMMA WrittenMoves ==
  ASSUME TypeOK, NEW u \in Account, claim[u] # None, NEW d, Written(claim[u], d),
         claim' = [claim EXCEPT ![u] = d]
  PROVE  RowsMove
BY DEF TypeOK, RowsMove, Written

LEMMA MatchesClaim ==
  ASSUME TypeOK, NEW u \in Account, NEW n, Matches(u, n)
  PROVE  claim[u] # None /\ claim[u] \in Claim /\ claim[u].revision = n
BY DEF Matches, TypeOK

LEMMA StartMoves ==
  ASSUME BaseInv, NEW r \in Request, NEW inst \in Installation, NEW flight \in Flight,
         NEW live \in Live, Start(r, inst, flight, live)
  PROVE  Moved(r) /\ RowsMove /\ OtherTypes'
<1> DEFINE a == [user |-> OwnerOf[inst], inst |-> inst, flight |-> flight, live |-> live,
                 at |-> now]
           st == [pc |-> "bind", tries |-> 0, ask |-> a]
<1>1. a \in Ask
  BY PreviewAssumption DEF BaseInv, TypeOK, Ask
<1>2. st \in RequestState
  BY <1>1, PreviewAssumption DEF RequestState
<1>3. Moved(r)
  BY <1>2, MovedBy DEF BaseInv, Start
<1>4. RowsMove
  BY SameRows DEF BaseInv, Start
<1>5. OtherTypes'
  BY DEF BaseInv, TypeOK, OtherTypes, Start, Spend, cacheVars, budgetVars, history
<1> QED
  BY <1>3, <1>4, <1>5

\* The steps of a request that leave the claims alone and end the request.
LEMMA EndMoves ==
  ASSUME BaseInv, NEW r \in Request, BindRefused(r) \/ RefreshFails(r) \/ Die(r)
  PROVE  Moved(r) /\ RowsMove /\ OtherTypes'
<1>1. Answered(r) /\ UNCHANGED claim
  BY DEF BindRefused, RefreshFails, Die
<1>2. OtherTypes'
  BY SMTT(30) DEF BaseInv, TypeOK, OtherTypes, BindRefused, RefreshFails, Die, Spend, cacheVars,
         budgetVars, history
<1> QED
  BY <1>1, <1>2, AnsweredMoves, SameRows DEF BaseInv

LEMMA BindStoredMoves ==
  ASSUME BaseInv, NEW r \in Request, BindStored(r)
  PROVE  /\ Moved(r) /\ RowsMove /\ OtherTypes'
         /\ request'[r].pc = "idle"
         /\ claim[request[r].ask.user] # None
         /\ claim[request[r].ask.user].result # None
<1> DEFINE a == request[r].ask
           c == claim[a.user]
<1>1. a \in Ask /\ a.user = OwnerOf[a.inst] /\ a.user \in Account
  BY Shapes DEF BaseInv, TypeOK, AskInv, BindStored, Ask
<1>2. c # None /\ c \in Claim
  BY <1>1, OwnRows DEF BaseInv, BindStored
<1>3. c.result \in Envelope /\ c.result # None
  BY <1>1, <1>2 DEF BaseInv, TypeOK, BindStored, FinalStates, Claim
<1>4. c.result.flight \in Flight
  BY <1>3 DEF Envelope
<1>5. Answered(r) /\ UNCHANGED claim
  BY DEF BindStored, Serve
<1>6. OtherTypes'
  BY <1>1, <1>4 DEF BaseInv, TypeOK, OtherTypes, BindStored, Serve, cacheVars, budgetVars
<1>7. Moved(r) /\ request'[r] = [pc |-> "idle"] /\ RowsMove
  BY <1>5, AnsweredMoves, SameRows DEF BaseInv
<1> QED
  BY <1>2, <1>3, <1>6, <1>7

LEMMA BindGoMoves ==
  ASSUME BaseInv, NEW r \in Request, BindGo(r)
  PROVE  Moved(r) /\ RowsMove /\ OtherTypes'
<1> DEFINE q == request[r]
           c == claim[q.ask.user]
<1>1. q \in BindState /\ q.ask \in Ask /\ q.ask.user = OwnerOf[q.ask.inst]
  BY Shapes DEF BaseInv, TypeOK, AskInv, BindGo
<1>2. OtherTypes' /\ RowsMove
  BY SameRows DEF BaseInv, TypeOK, OtherTypes, BindGo, cacheVars, budgetVars, history
<1>3. CASE Becomes(r, [q EXCEPT !.pc = "insert"])
  <2>1. [q EXCEPT !.pc = "insert"] \in BindState /\ [q EXCEPT !.pc = "insert"].ask = q.ask
    BY <1>1 DEF BindState
  <2> QED
    BY <1>1, <1>2, <1>3, <2>1, MovedBy, States DEF BaseInv
<1>4. CASE /\ Rows(q.ask) # {}
           /\ Becomes(r, [pc |-> "lease", tries |-> q.tries, ask |-> q.ask,
                          revision |-> c.revision])
  <2>1. c \in Claim
    BY <1>1, <1>4, OwnRows DEF BaseInv
  <2>2. [pc |-> "lease", tries |-> q.tries, ask |-> q.ask, revision |-> c.revision]
          \in LeaseState
    BY <1>1, <2>1 DEF LeaseState, BindState, Claim
  <2> QED
    BY <1>1, <1>2, <1>4, <2>2, MovedBy, States DEF BaseInv
<1> QED
  BY <1>3, <1>4 DEF BindGo

LEMMA AgainType ==
  ASSUME NEW q, q.tries \in 0 .. MaxTries, q.tries < MaxTries, q.ask \in Ask
  PROVE  Again(q) \in RequestState /\ Again(q).ask = q.ask /\ Again(q).pc = "bind"
<1>1. q.tries + 1 \in 0 .. MaxTries
  BY PreviewAssumption
<1> QED
  BY <1>1 DEF Again, RequestState

LEMMA BindInsertMoves ==
  ASSUME BaseInv, TriesInv, NEW r \in Request, BindInsert(r)
  PROVE  Moved(r) /\ RowsMove /\ OtherTypes'
<1> DEFINE q == request[r]
<1>1. /\ q \in BindState /\ q.ask \in Ask /\ q.ask.user = OwnerOf[q.ask.inst]
      /\ q.ask.user \in Account /\ q.tries \in 0 .. MaxTries /\ q.tries < MaxTries
  BY Shapes DEF BaseInv, TypeOK, AskInv, BindInsert, Ask, TriesInv, BindState
<1>2. OtherTypes'
  BY DEF BaseInv, TypeOK, OtherTypes, BindInsert, cacheVars, budgetVars, history
<1>3. CASE Rows(q.ask) = {}
  <2>1. claim[q.ask.user] = None
    BY <1>1, <1>3, OwnRows DEF BaseInv
  <2>2. [q EXCEPT !.pc = "inserted"] \in BindState /\ [q EXCEPT !.pc = "inserted"].ask = q.ask
    BY <1>1 DEF BindState
  <2>3. Moved(r)
    BY <1>1, <1>3, <2>2, MovedBy, States DEF BaseInv, BindInsert
  <2>4. RowsMove
    BY <1>1, <1>3, <2>1, NewRow DEF BaseInv, TypeOK, RowsMove, BindInsert
  <2> QED
    BY <1>2, <2>3, <2>4
<1>4. CASE Rows(q.ask) # {}
  BY <1>1, <1>2, <1>4, AgainType, MovedBy, SameRows DEF BaseInv, BindInsert
<1> QED
  BY <1>3, <1>4

LEMMA BindLeaseMoves ==
  ASSUME BaseInv, TriesInv, NEW r \in Request, BindLease(r)
  PROVE  Moved(r) /\ RowsMove /\ OtherTypes'
<1> DEFINE q == request[r]
           u == q.ask.user
<1>1. /\ q \in LeaseState /\ q.ask \in Ask /\ u = OwnerOf[q.ask.inst]
      /\ u \in Account /\ q.ask.at \in Nat /\ q.tries \in 0 .. MaxTries /\ q.tries < MaxTries
  BY Shapes DEF BaseInv, TypeOK, AskInv, BindLease, Ask, TriesInv, LeaseState
<1>2. OtherTypes'
  BY <1>1 DEF BaseInv, TypeOK, OtherTypes, BindLease, cacheVars, budgetVars
<1>3. CASE Matches(u, q.revision)
  <2> DEFINE st == [pc |-> "leased", tries |-> q.tries, ask |-> q.ask]
  <2>1. st \in BindState
    BY <1>1 DEF BindState, LeaseState
  <2>2. Moved(r)
    BY <1>1, <1>3, <2>1, MovedBy, States DEF BaseInv, BindLease
  <2>3. claim[u] # None /\ Written(claim[u], Renewed(claim[u], q.ask.at))
    BY <1>1, <1>3, MatchesClaim, RenewedRow DEF BaseInv
  <2>4. RowsMove
    BY <1>1, <1>3, <2>3, WrittenMoves DEF BaseInv, BindLease
  <2> QED
    BY <1>2, <2>2, <2>4
<1>4. CASE ~Matches(u, q.revision)
  BY <1>1, <1>2, <1>4, AgainType, MovedBy, SameRows DEF BaseInv, BindLease
<1> QED
  BY <1>3, <1>4

LEMMA HeldType ==
  ASSUME TypeOK, NEW u \in Account, claim[u] # None
  PROVE  HeldOf(u) \in Held
BY DEF HeldOf, Held, TypeOK, Claim

LEMMA ReloadMoves ==
  ASSUME BaseInv, TriesInv, NEW r \in Request, Reload(r)
  PROVE  Moved(r) /\ RowsMove /\ OtherTypes'
<1> DEFINE q == request[r]
           u == q.ask.user
           h == IF claim[u] = None THEN None ELSE HeldOf(u)
<1>1. /\ q \in BindState /\ q.ask \in Ask /\ u = OwnerOf[q.ask.inst]
      /\ u \in Account /\ q.tries \in 0 .. MaxTries /\ q.tries < MaxTries
  BY Shapes DEF BaseInv, TypeOK, AskInv, Reload, Ask, TriesInv, BindState
<1>2. OtherTypes' /\ RowsMove
  BY SameRows DEF BaseInv, TypeOK, OtherTypes, Reload, cacheVars, budgetVars, history
<1>3. CASE Becomes(r, Again(q))
  BY <1>1, <1>2, <1>3, AgainType, MovedBy DEF BaseInv
<1>4. CASE Becomes(r, [pc |-> "build", ask |-> q.ask, held |-> h])
  <2>1. h \in Held \cup {None}
    BY <1>1, HeldType DEF BaseInv
  <2>2. [pc |-> "build", ask |-> q.ask, held |-> h] \in BuildState
    BY <1>1, <2>1 DEF BuildState
  <2> HIDE DEF h
  <2> QED
    BY <1>1, <1>2, <1>4, <2>2, MovedBy, States DEF BaseInv
<1> QED
  BY <1>3, <1>4 DEF Reload

LEMMA BuildCachedMoves ==
  ASSUME BaseInv, NEW r \in Request, BuildCached(r)
  PROVE  Moved(r) /\ RowsMove /\ OtherTypes'
<1> DEFINE q == request[r]
           a == q.ask
           shared == Cached(results[<<a.flight, a.live>>], a.at)
           e == IF shared # None THEN shared ELSE Envelop(a, Read(a))
           st == [pc |-> "settle", ask |-> a, held |-> q.held, envelope |-> e,
                  share |-> shared = None, time |-> a.at]
<1>1. q \in BuildState /\ a \in Ask /\ a.user = OwnerOf[a.inst] /\ a.at \in Nat
  BY Shapes DEF BaseInv, TypeOK, AskInv, BuildCached, Ask
<1>2. OtherTypes' /\ RowsMove
  BY SameRows DEF BaseInv, TypeOK, OtherTypes, BuildCached, cacheVars, budgetVars, history
<1>3. CASE q.held = None
  BY <1>2, <1>3, AnsweredMoves DEF BaseInv, BuildCached
<1>4. CASE q.held # None
  <2>1. e \in Envelope
    BY <1>1, SharedType, EnvelopType DEF BaseInv
  <2>2. q.held \in Held
    BY <1>1, <1>4 DEF BuildState
  <2>3. (shared = None) \in BOOLEAN
    OBVIOUS
  <2>4. Becomes(r, st)
    BY <1>4 DEF BuildCached
  <2> HIDE DEF e, shared
  <2>5. st \in SettleState
    BY <1>1, <2>1, <2>2, <2>3 DEF SettleState
  <2> QED
    BY <1>1, <1>2, <2>4, <2>5, MovedBy, States DEF BaseInv
<1> QED
  BY <1>3, <1>4

LEMMA BuildMissingMoves ==
  ASSUME BaseInv, NEW r \in Request, BuildMissing(r)
  PROVE  Moved(r) /\ RowsMove /\ OtherTypes'
<1> DEFINE q == request[r]
           got == Read(q.ask)
           st == [pc |-> "reserve", ask |-> q.ask, got |-> got, lost |-> q.held = None]
<1>1. q.ask \in Ask /\ q.ask.user = OwnerOf[q.ask.inst]
  BY Shapes DEF BaseInv, TypeOK, AskInv, BuildMissing
<1>2. OtherTypes' /\ RowsMove
  BY SameRows DEF BaseInv, TypeOK, OtherTypes, BuildMissing, cacheVars, budgetVars, history
<1>3. got \in Got
  BY <1>1, ReadType DEF BaseInv
<1>4. Becomes(r, st)
  BY DEF BuildMissing
<1> HIDE DEF got
<1>5. st \in ReserveState
  BY <1>1, <1>3 DEF ReserveState
<1> QED
  BY <1>1, <1>2, <1>4, <1>5, MovedBy, States DEF BaseInv

LEMMA ReserveMoves ==
  ASSUME BaseInv, NEW r \in Request, Reserve(r)
  PROVE  Moved(r) /\ RowsMove /\ OtherTypes'
<1> DEFINE q == request[r]
           st == [pc |-> "refused", ask |-> q.ask, lost |-> q.lost]
<1>1. q \in ReserveState /\ q.ask \in Ask /\ q.ask.user = OwnerOf[q.ask.inst]
  BY Shapes DEF BaseInv, TypeOK, AskInv, Reserve
<1>2. RowsMove
  BY SameRows DEF BaseInv, Reserve
<1>3. OtherTypes'
  <2> DEFINE M == 0 .. Horizon \div Minute
             m == q.ask.at \div Minute
  <2>1. day \in 0 .. DayCap /\ minute \in [M -> 0 .. MinuteCap] /\ {DayCap, MinuteCap} \subseteq Nat
    BY PreviewAssumption DEF BaseInv, TypeOK
  <2>2. day' \in 0 .. DayCap /\ minute' \in [M -> 0 .. MinuteCap]
    <3>1. CASE day < DayCap /\ minute[m] < MinuteCap
      <4>1. day' = day + 1 /\ minute' = [minute EXCEPT ![m] = minute[m] + 1]
        BY <3>1 DEF Reserve
      <4> HIDE DEF M, m
      <4>2. day' \in 0 .. DayCap
        BY <2>1, <3>1, <4>1
      <4>3. \A n \in M : minute'[n] \in 0 .. MinuteCap
        BY <2>1, <3>1, <4>1
      <4> QED
        BY <2>1, <4>1, <4>2, <4>3
    <3>2. CASE ~(day < DayCap /\ minute[m] < MinuteCap)
      BY <2>1, <3>2 DEF Reserve, budgetVars
    <3> QED
      BY <3>1, <3>2
  <2> QED
    BY <2>2 DEF BaseInv, TypeOK, OtherTypes, Reserve, cacheVars, history
<1>4. [q EXCEPT !.pc = "counted"] \in ReserveState /\ [q EXCEPT !.pc = "counted"].ask = q.ask
  BY <1>1 DEF ReserveState
<1>5. st \in RefusedState
  BY <1>1 DEF RefusedState, ReserveState
<1>6. \/ Becomes(r, [q EXCEPT !.pc = "counted"])
      \/ Becomes(r, st)
  BY DEF Reserve
<1> QED
  BY <1>1, <1>2, <1>3, <1>4, <1>5, <1>6, MovedBy, States DEF BaseInv

LEMMA RefreshMoves ==
  ASSUME BaseInv, NEW r \in Request, Refresh(r)
  PROVE  Moved(r) /\ RowsMove /\ OtherTypes'
<1> DEFINE q == request[r]
           h == HeldOf(q.ask.user)
           s1 == [pc |-> "attempt", ask |-> q.ask, got |-> q.got, held |-> h]
           s2 == [pc |-> "refuse", ask |-> q.ask, held |-> h]
           s3 == [pc |-> "settle", ask |-> q.ask, held |-> h, envelope |-> q.envelope,
                  share |-> q.share, time |-> q.time]
<1>1. q.ask \in Ask /\ q.ask.user = OwnerOf[q.ask.inst] /\ q.ask.user \in Account
  BY Shapes DEF BaseInv, TypeOK, AskInv, Refresh, Ask
<1>2. OtherTypes' /\ RowsMove
  BY SameRows DEF BaseInv, TypeOK, OtherTypes, Refresh, cacheVars, budgetVars, history
<1>3. h \in Held
  BY <1>1, HeldType DEF BaseInv, Refresh
<1>4. \/ q.pc = "counted" /\ Becomes(r, s1)
      \/ q.pc = "refused" /\ Becomes(r, s2)
      \/ q.pc = "composed" /\ Becomes(r, s3)
  BY DEF Refresh
<1> HIDE DEF h
<1>5. CASE q.pc = "counted" /\ Becomes(r, s1)
  <2>1. q \in ReserveState
    BY <1>5, Shapes DEF BaseInv, TypeOK
  <2>2. s1 \in FetchState
    BY <1>1, <1>3, <2>1 DEF FetchState, ReserveState
  <2> QED
    BY <1>1, <1>2, <1>5, <2>2, MovedBy, States DEF BaseInv
<1>6. CASE q.pc = "refused" /\ Becomes(r, s2)
  <2>1. s2 \in RefuseState
    BY <1>1, <1>3 DEF RefuseState
  <2> QED
    BY <1>1, <1>2, <1>6, <2>1, MovedBy, States DEF BaseInv
<1>7. CASE q.pc = "composed" /\ Becomes(r, s3)
  <2>1. q \in ComposedState
    BY <1>7, Shapes DEF BaseInv, TypeOK
  <2>2. s3 \in SettleState
    BY <1>1, <1>3, <2>1 DEF SettleState, ComposedState
  <2> QED
    BY <1>1, <1>2, <1>7, <2>2, MovedBy, States DEF BaseInv
<1> QED
  BY <1>4, <1>5, <1>6, <1>7

\* The steps that write a failure, or nothing, and end the request.
LEMMA FailureMoves ==
  ASSUME BaseInv, NEW r \in Request, Refuse(r) \/ SettleFailed(r)
  PROVE  Moved(r) /\ RowsMove /\ OtherTypes' /\ request'[r] = [pc |-> "idle"]
<1> DEFINE q == request[r]
           u == q.ask.user
<1>1. u \in Account /\ q.ask.at \in Nat
  BY Shapes DEF BaseInv, TypeOK, Refuse, SettleFailed, Ask
<1>2. Moved(r) /\ request'[r] = [pc |-> "idle"]
  BY AnsweredMoves DEF BaseInv, Refuse, SettleFailed
<1>3. OtherTypes'
  BY DEF BaseInv, TypeOK, OtherTypes, Refuse, SettleFailed, cacheVars, budgetVars, history
<1>4. RowsMove
  <2>1. CASE Refuse(r)
    <3>1. CASE Matches(u, q.held.revision)
      <4>1. claim[u] # None /\ Written(claim[u], Failed(claim[u], "capacity", q.ask.at))
        BY <1>1, <3>1, MatchesClaim, FailedRow DEF BaseInv
      <4> QED
        BY <1>1, <2>1, <3>1, <4>1, WrittenMoves DEF BaseInv, Refuse
    <3>2. CASE ~Matches(u, q.held.revision)
      BY <2>1, <3>2, SameRows DEF BaseInv, Refuse
    <3> QED
      BY <3>1, <3>2
  <2>2. CASE SettleFailed(r)
    <3>1. q.time \in Nat
      BY <2>2, Shapes DEF BaseInv, TypeOK, SettleFailed, SettleState
    <3>2. CASE Matches(u, q.held.revision)
      <4>1. claim[u] # None /\ Written(claim[u], Failed(claim[u], "provider", q.time))
        BY <1>1, <3>1, <3>2, MatchesClaim, FailedRow DEF BaseInv
      <4> QED
        BY <1>1, <2>2, <3>2, <4>1, WrittenMoves DEF BaseInv, SettleFailed
    <3>3. CASE ~Matches(u, q.held.revision)
      BY <2>2, <3>3, SameRows DEF BaseInv, SettleFailed
    <3> QED
      BY <3>2, <3>3
  <2> QED
    BY <2>1, <2>2
<1> QED
  BY <1>2, <1>3, <1>4

LEMMA AttemptMoves ==
  ASSUME BaseInv, NEW r \in Request, Attempt(r)
  PROVE  Moved(r) /\ RowsMove /\ OtherTypes'
<1> DEFINE q == request[r]
           u == q.ask.user
           st == [pc |-> "attempted", ask |-> q.ask, got |-> q.got]
<1>1. q \in FetchState /\ q.ask \in Ask /\ u = OwnerOf[q.ask.inst] /\ u \in Account
  BY Shapes DEF BaseInv, TypeOK, AskInv, Attempt, Ask
<1>2. OtherTypes'
  BY DEF BaseInv, TypeOK, OtherTypes, Attempt, cacheVars, budgetVars, history
<1>3. CASE Matches(u, q.held.revision)
  <2>1. q.held \in Held /\ st \in AttemptedState
    BY <1>1 DEF FetchState, AttemptedState
  <2>2. Moved(r)
    BY <1>1, <1>3, <2>1, MovedBy, States DEF BaseInv, Attempt
  <2>3. claim[u] # None /\ Written(claim[u], Attempted(claim[u], q.held, q.ask))
    BY <1>1, <1>3, <2>1, MatchesClaim, AttemptedRow DEF BaseInv
  <2>4. RowsMove
    BY <1>1, <1>3, <2>3, WrittenMoves DEF BaseInv, Attempt
  <2> QED
    BY <1>2, <2>2, <2>4
<1>4. CASE ~Matches(u, q.held.revision)
  BY <1>2, <1>4, AnsweredMoves, SameRows DEF BaseInv, Attempt
<1> QED
  BY <1>3, <1>4

LEMMA AskProviderMoves ==
  ASSUME BaseInv, NEW r \in Request, AskProvider(r)
  PROVE  Moved(r) /\ RowsMove /\ OtherTypes'
<1> DEFINE q == request[r]
           u == q.ask.user
           h == HeldOf(u)
           st == [pc |-> "fetch", ask |-> q.ask, got |-> q.got, held |-> h]
<1>1. q \in AttemptedState /\ q.ask \in Ask /\ u = OwnerOf[q.ask.inst] /\ u \in Account
  BY Shapes DEF BaseInv, TypeOK, AskInv, AskProvider, Ask
<1>2. RowsMove
  BY SameRows DEF BaseInv, AskProvider
<1>3. OtherTypes'
  BY <1>1 DEF BaseInv, TypeOK, OtherTypes, AskProvider, cacheVars, budgetVars
<1>4. CASE claim[u] # None
  <2>1. h \in Held /\ Becomes(r, st)
    BY <1>1, <1>4, HeldType DEF BaseInv, AskProvider
  <2> HIDE DEF h
  <2>2. st \in FetchState
    BY <1>1, <2>1 DEF FetchState, AttemptedState
  <2> QED
    BY <1>1, <1>2, <1>3, <2>1, <2>2, MovedBy, States DEF BaseInv
<1>5. CASE claim[u] = None
  BY <1>2, <1>3, <1>5, AnsweredMoves DEF BaseInv, AskProvider
<1> QED
  BY <1>4, <1>5

\* What the request goes on with after its calls.
LEMMA FetchTo ==
  ASSUME BaseInv, NEW r \in Request, Fetch(r)
  PROVE  \E e \in Envelope, share \in BOOLEAN :
           /\ e.flight = request[r].ask.flight
           /\ share => ~e.partial
           /\ \/ Becomes(r, [pc |-> "composed", ask |-> request[r].ask, envelope |-> e,
                             share |-> share, time |-> now])
              \/ Becomes(r, [pc |-> "settle", ask |-> request[r].ask, held |-> request[r].held,
                             envelope |-> e, share |-> share, time |-> now])
<1> DEFINE q == request[r]
<1>1. q \in FetchState /\ q.ask \in Ask /\ q.got \in Got
  BY Shapes DEF BaseInv, TypeOK, Fetch, FetchState
<1>2. PICK answer \in Fetched(Missing(q.got)) :
        LET got == [k \in DOMAIN q.got |-> IF k \in DOMAIN answer THEN answer[k] ELSE q.got[k]]
            new == {k \in DOMAIN answer : answer[k] # None}
            envelope == Envelop(q.ask, got)
        IN IF new # {}
           THEN Becomes(r, [pc |-> "composed", ask |-> q.ask, envelope |-> envelope,
                            share |-> ~envelope.partial, time |-> now])
           ELSE Becomes(r, [pc |-> "settle", ask |-> q.ask, held |-> q.held,
                            envelope |-> envelope, share |-> FALSE, time |-> now])
  BY DEF Fetch
<1> DEFINE got == [k \in DOMAIN q.got |-> IF k \in DOMAIN answer THEN answer[k] ELSE q.got[k]]
           e == Envelop(q.ask, got)
<1>3. e \in Envelope /\ e.flight = q.ask.flight
  BY <1>1, EnvelopType
<1>4. (~e.partial) \in BOOLEAN /\ FALSE \in BOOLEAN
  OBVIOUS
<1>5. \/ Becomes(r, [pc |-> "composed", ask |-> q.ask, envelope |-> e, share |-> ~e.partial,
                     time |-> now])
      \/ Becomes(r, [pc |-> "settle", ask |-> q.ask, held |-> q.held, envelope |-> e,
                     share |-> FALSE, time |-> now])
  BY <1>2
<1> HIDE DEF e
<1> QED
  BY <1>3, <1>4, <1>5

LEMMA FetchMoves ==
  ASSUME BaseInv, NEW r \in Request, Fetch(r)
  PROVE  Moved(r) /\ RowsMove /\ OtherTypes'
<1> DEFINE q == request[r]
<1>1. /\ q \in FetchState /\ q.ask \in Ask /\ q.ask.user = OwnerOf[q.ask.inst]
      /\ q.got \in Got /\ q.held \in Held
  BY Shapes DEF BaseInv, TypeOK, AskInv, Fetch, FetchState
<1>2. RowsMove
  BY SameRows DEF BaseInv, Fetch
<1>3. now \in Nat
  BY PreviewAssumption DEF BaseInv, TypeOK
<1>4. inputs' \in [Input -> [value : Payload, until : Nat] \cup {None}]
  <2>1. PICK answer \in Fetched(Missing(q.got)) :
          inputs' = [k \in Input |->
                       IF k \in {j \in DOMAIN answer : answer[j] # None}
                       THEN Put(answer[k], now, InputTtl[k]) ELSE inputs[k]]
    BY DEF Fetch
  <2>2. \A k \in DOMAIN answer : answer[k] \in Payload \cup {None}
    BY <1>1, FetchedType
  <2>3. \A k \in Input : InputTtl[k] \in Nat
    BY PreviewAssumption
  <2>4. \A k \in Input : k \in DOMAIN answer /\ answer[k] # None =>
          Put(answer[k], now, InputTtl[k]) \in [value : Payload, until : Nat]
    BY <1>3, <2>2, <2>3 DEF Put
  <2> QED
    BY <2>1, <2>4 DEF BaseInv, TypeOK
<1>5. OtherTypes'
  BY <1>4 DEF BaseInv, TypeOK, OtherTypes, Fetch, budgetVars, history
<1>6. Moved(r)
  <2>1. PICK e \in Envelope, share \in BOOLEAN :
          \/ Becomes(r, [pc |-> "composed", ask |-> q.ask, envelope |-> e, share |-> share,
                         time |-> now])
          \/ Becomes(r, [pc |-> "settle", ask |-> q.ask, held |-> q.held, envelope |-> e,
                         share |-> share, time |-> now])
    BY FetchTo
  <2>2. [pc |-> "composed", ask |-> q.ask, envelope |-> e, share |-> share, time |-> now]
          \in ComposedState
    BY <1>1, <1>3 DEF ComposedState
  <2>3. [pc |-> "settle", ask |-> q.ask, held |-> q.held, envelope |-> e, share |-> share,
         time |-> now] \in SettleState
    BY <1>1, <1>3 DEF SettleState
  <2> QED
    BY <1>1, <2>1, <2>2, <2>3, MovedBy, States DEF BaseInv
<1> QED
  BY <1>2, <1>5, <1>6

LEMMA FinishMoves ==
  ASSUME BaseInv, NEW r \in Request, Finish(r)
  PROVE  Moved(r) /\ RowsMove /\ OtherTypes' /\ request'[r] = [pc |-> "idle"]
<1> DEFINE q == request[r]
           u == q.ask.user
<1>1. q \in SettleState /\ q.ask \in Ask /\ u \in Account
  BY Shapes DEF BaseInv, TypeOK, Finish, Ask
<1>2. q.envelope \in Envelope /\ q.time \in Nat /\ q.envelope.flight \in Flight
  BY <1>1 DEF SettleState, Envelope
<1>3. Moved(r) /\ request'[r] = [pc |-> "idle"]
  BY AnsweredMoves DEF BaseInv, Finish, Serve
<1>4. RowsMove
  <2>1. CASE Matches(u, q.held.revision)
    BY <1>1, <1>2, <2>1, MatchesClaim, FinishedRow, WrittenMoves DEF BaseInv, Finish
  <2>2. CASE ~Matches(u, q.held.revision)
    BY <2>2, SameRows DEF BaseInv, Finish
  <2> QED
    BY <2>1, <2>2
<1>5. Put(q.envelope, q.time, ResultTtl) \in [value : Envelope, until : Nat]
  BY <1>2, PreviewAssumption DEF Put
<1>6. results' \in [Flight \X Live -> [value : Envelope, until : Nat] \cup {None}]
  BY <1>5 DEF BaseInv, TypeOK, Finish
<1>7. served' \in [Account -> SUBSET Flight]
  BY <1>1, <1>2 DEF BaseInv, TypeOK, Finish, Serve
<1>8. OtherTypes'
  BY <1>6, <1>7 DEF BaseInv, TypeOK, OtherTypes, Finish, budgetVars
<1> QED
  BY <1>3, <1>4, <1>8

LEMMA StepMoves ==
  ASSUME BaseInv, TriesInv, NEW r \in Request, Step(r)
  PROVE  Moved(r) /\ RowsMove /\ OtherTypes'
BY StartMoves, EndMoves, BindStoredMoves, BindGoMoves, BindInsertMoves, BindLeaseMoves,
   ReloadMoves, BuildCachedMoves, BuildMissingMoves, ReserveMoves, RefreshMoves, FailureMoves,
   AttemptMoves, AskProviderMoves, FetchMoves, FinishMoves
DEF Step

\* Rounds left, for the request that moved.
LEMMA StepTries ==
  ASSUME BaseInv, TriesInv, NEW r \in Request, Step(r)
  PROVE  TriesInv'
<1> USE DEF BaseInv, TypeOK, Becomes
<1> DEFINE q == request[r]
           p == request'[r]
<1>1. Moved(r)
  BY StepMoves
<1>2. SUFFICES p.pc \in {"insert", "inserted", "leased", "lease"} => p.tries < MaxTries
  BY <1>1 DEF TriesInv, Moved
<1>3. CASE BindGo(r)
  <2>1. q \in BindState /\ q.tries < MaxTries
    BY <1>3, Shapes DEF BindGo
  <2>2. \/ p = [q EXCEPT !.pc = "insert"]
        \/ p.tries = q.tries
    BY <1>3 DEF BindGo
  <2> QED
    BY <2>1, <2>2 DEF BindState
<1>4. CASE BindInsert(r)
  <2>1. q \in BindState /\ q.tries < MaxTries
    BY <1>4, Shapes DEF BindInsert, TriesInv
  <2>2. p = [q EXCEPT !.pc = "inserted"] \/ p.pc = "bind"
    BY <1>4 DEF BindInsert, Again
  <2> QED
    BY <2>1, <2>2 DEF BindState
<1>5. CASE BindLease(r)
  <2>1. p.tries = q.tries \/ p.pc = "bind"
    BY <1>5 DEF BindLease, Again
  <2> QED
    BY <1>5, <2>1 DEF TriesInv, BindLease
<1>6. CASE Reload(r)
  BY <1>6 DEF Reload, Again
<1>7. CASE Reserve(r)
  <2>1. q \in ReserveState
    BY <1>7, Shapes DEF Reserve
  <2>2. \/ request' = [request EXCEPT ![r] = [q EXCEPT !.pc = "counted"]]
        \/ request' = [request EXCEPT ![r] = [pc |-> "refused", ask |-> q.ask, lost |-> q.lost]]
    BY <1>7, Zenon DEF Reserve
  <2> QED
    BY <2>1, <2>2 DEF ReserveState
<1>8. CASE Fetch(r)
  <2>1. p.pc \in {"composed", "settle"}
    BY <1>8, FetchTo
  <2> QED
    BY <2>1
<1>9. CASE \E inst \in Installation, flight \in Flight, live \in Live :
             Start(r, inst, flight, live)
  BY <1>9 DEF Start
<1>10. CASE BindRefused(r) \/ BindStored(r) \/ RefreshFails(r) \/ Die(r) \/ Refuse(r)
            \/ SettleFailed(r) \/ Finish(r)
  BY SMTT(30), <1>10 DEF BindRefused, BindStored, RefreshFails, Die, Refuse, SettleFailed, Finish, Serve,
               Answered
<1>11. CASE BuildCached(r) \/ BuildMissing(r)
  BY <1>11 DEF BuildCached, BuildMissing, Answered
<1>12. CASE Refresh(r)
  BY <1>12 DEF Refresh
<1>13. CASE Attempt(r) \/ AskProvider(r)
  BY <1>13 DEF Attempt, AskProvider, Answered
<1> QED
  BY <1>3, <1>4, <1>5, <1>6, <1>7, <1>8, <1>9, <1>10, <1>11, <1>12, <1>13 DEF Step

\* The steps around the requests.
LEMMA DeleteMoves ==
  ASSUME TypeOK, NEW u \in Account, DeleteUser(u)
  PROVE  /\ OtherTypes' /\ UNCHANGED request /\ account' = account \ {u}
         /\ claim' \in [Account -> Claim \cup {None}]
         /\ claim'[u] = None /\ \A v \in Account \ {u} : claim'[v] = claim[v]
BY DEF DeleteUser, Spend, TypeOK, OtherTypes, cacheVars, budgetVars, history

LEMMA TickMoves ==
  ASSUME TypeOK, Tick
  PROVE  OtherTypes' /\ UNCHANGED <<account, claim, request>>
<1>1. now' \in 0 .. Horizon
  BY PreviewAssumption DEF Tick, TypeOK
<1> QED
  BY <1>1 DEF Tick, TypeOK, OtherTypes, cacheVars, budgetVars, history

LEMMA BaseStep ==
  ASSUME BaseInv, TriesInv, [Next]_vars
  PROVE  BaseInv' /\ TriesInv'
<1>1. ASSUME NEW r \in Request, Step(r)
      PROVE  BaseInv' /\ TriesInv'
  <2>1. Moved(r) /\ RowsMove /\ OtherTypes' /\ TriesInv'
    BY <1>1, StepMoves, StepTries
  <2>2. AskInv'
    BY <2>1 DEF AskInv, Moved, BaseInv
  <2>3. \A u \in Account : claim'[u] # None => RowOK(claim'[u]) /\ OwnerOf[claim'[u].inst] = u
    BY <2>1 DEF RowsMove, Written, BaseInv, ClaimInv, TypeOK, RowOK
  <2>4. TypeOK'
    BY <2>1, <2>3 DEF Moved, RowsMove, OtherTypes, TypeOK, RowOK
  <2> QED
    BY <2>1, <2>2, <2>3, <2>4 DEF BaseInv, ClaimInv
<1>2. ASSUME NEW u \in Account, DeleteUser(u)
      PROVE  BaseInv' /\ TriesInv'
  <2>1. TypeOK
    BY DEF BaseInv
  <2>2. /\ OtherTypes' /\ UNCHANGED request /\ claim' \in [Account -> Claim \cup {None}]
        /\ claim'[u] = None /\ \A v \in Account \ {u} : claim'[v] = claim[v]
    BY <1>2, <2>1, DeleteMoves
  <2>3. TypeOK'
    BY <2>1, <2>2 DEF TypeOK, OtherTypes
  <2> QED
    BY <2>2, <2>3 DEF BaseInv, AskInv, ClaimInv, TriesInv
<1>3. ASSUME Tick
      PROVE  BaseInv' /\ TriesInv'
  <2>1. OtherTypes' /\ UNCHANGED <<account, claim, request>>
    BY <1>3, TickMoves DEF BaseInv
  <2> QED
    BY <2>1 DEF BaseInv, TypeOK, OtherTypes, AskInv, ClaimInv, TriesInv
<1>4. ASSUME UNCHANGED vars
      PROVE  BaseInv' /\ TriesInv'
  BY <1>4 DEF vars, cacheVars, budgetVars, history, BaseInv, TypeOK, AskInv, ClaimInv, TriesInv,
              RowOK
<1> QED
  BY <1>1, <1>2, <1>3, <1>4 DEF Next, Rest

LEMMA BaseInit ==
  ASSUME Init
  PROVE  BaseInv /\ TriesInv
<1>1. now \in 0 .. Horizon /\ DayCap \in Nat /\ MinuteCap \in Nat
  BY PreviewAssumption DEF Init
<1>2. minute \in [0 .. Horizon \div Minute -> 0 .. MinuteCap]
  BY <1>1 DEF Init
<1>3. request \in [Request -> RequestState]
  BY DEF Init, RequestState
<1>4. TypeOK
  BY <1>1, <1>2, <1>3, PreviewAssumption DEF Init, TypeOK
<1> QED
  BY <1>4 DEF Init, BaseInv, AskInv, ClaimInv, TriesInv

\* The type of the state, for any constants: a claim has a lease exactly while it is
\* pending, and a result when it is final.
THEOREM TypeCorrect == Spec => []TypeOK
<1>1. Init => BaseInv /\ TriesInv
  BY BaseInit
<1>2. BaseInv /\ TriesInv /\ [Next]_vars => BaseInv' /\ TriesInv'
  BY BaseStep
<1>3. BaseInv => TypeOK
  BY DEF BaseInv
<1> QED
  BY <1>1, <1>2, <1>3, PTL DEF Spec

-----------------------------------------------------------------------------
(* What each request knows of the claim, and of its result. *)

Working == Holding \cup {"lease"}

\* The claim of a registered account a request works for is there, for its flight.
HoldOK(r) ==
  LET q == request[r]
  IN q.pc \in Working /\ q.ask.user \in account =>
       claim[q.ask.user] # None /\ claim[q.ask.user].flight = q.ask.flight

\* While the claim has the revision a request is about to lease it at, it is neither
\* final nor exhausted.
LeaseOK(r) ==
  LET q == request[r]
      c == claim[q.ask.user]
  IN q.pc = "lease" /\ q.ask.user \in account =>
       /\ q.revision <= c.revision
       /\ q.revision = c.revision => c.state \notin FinalStates /\ c.attempts < MaxBuilds

\* While the claim has the revision a request read, it has the attempts it read.
HeldOK(r) ==
  LET q == request[r]
      c == claim[q.ask.user]
  IN /\ q.pc \in {"build", "attempt", "refuse", "fetch", "settle"}
     /\ q.ask.user \in account /\ q.held # None
     => /\ q.held.revision <= c.revision
        /\ q.held.revision = c.revision => q.held.attempts = c.attempts

\* A request composes the result of its own flight, and shares no partial one.
EnvelopeOK(r) ==
  LET q == request[r]
  IN q.pc \in {"composed", "settle"} =>
       q.envelope.flight = q.ask.flight /\ (q.share => ~q.envelope.partial)

RequestOK(r) == HoldOK(r) /\ LeaseOK(r) /\ HeldOK(r) /\ EnvelopeOK(r)

RequestInv == \A r \in Request : RequestOK(r)

\* A shared result is found under its own flight.
SharedInv == \A k \in Flight \X Live : results[k] # None => results[k].value.flight = k[1]

StoreInv == OneFlight /\ NeverFalselyCalm /\ SharedInv

\* The claims of accounts that stay stay, with the same flight.
Evolves ==
  /\ account' \subseteq account
  /\ \A u \in account' :
       claim[u] # None => claim'[u] = claim[u] \/ Written(claim[u], claim'[u])

\* A request that does not move still knows what it knew.
LEMMA OthersOK ==
  ASSUME BaseInv, Evolves, NEW s \in Request, request'[s] = request[s], RequestOK(s)
  PROVE  RequestOK(s)'
<1> DEFINE q == request[s]
           u == q.ask.user
<1>1. CASE u \in account' /\ q.pc \in Working
  <2>1. q.ask \in Ask /\ u \in Account /\ u \in account
    BY <1>1, Shapes DEF BaseInv, TypeOK, Working, Holding, Ask, Evolves
  <2>2. claim[u] # None /\ claim[u] \in Claim /\ claim[u].flight = q.ask.flight
    BY <1>1, <2>1 DEF RequestOK, HoldOK, BaseInv, TypeOK
  <2>3. claim'[u] = claim[u] \/ Written(claim[u], claim'[u])
    BY <1>1, <2>2 DEF Evolves
  <2>4. HoldOK(s)'
    BY <2>2, <2>3 DEF HoldOK, Written
  <2>5. claim[u].revision \in Nat
    BY <2>2 DEF Claim
  <2>6. LeaseOK(s)'
    <3>1. CASE q.pc = "lease"
      <4>1. q.revision \in Nat
        BY <3>1, Shapes DEF BaseInv, TypeOK, LeaseState
      <4> QED
        BY <2>1, <2>3, <2>5, <3>1, <4>1 DEF RequestOK, LeaseOK, Written
    <3> QED
      BY <3>1 DEF LeaseOK
  <2>7. HeldOK(s)'
    <3>1. CASE q.pc \in {"build", "attempt", "refuse", "fetch", "settle"} /\ q.held # None
      <4>1. q.held \in Held
        BY <3>1, Shapes DEF BaseInv, TypeOK, BuildState, FetchState, RefuseState, SettleState
      <4>2. q.held.revision \in Nat
        BY <4>1 DEF Held
      <4> QED
        BY <2>1, <2>3, <2>5, <3>1, <4>2 DEF RequestOK, HeldOK, Written
    <3> QED
      BY <3>1 DEF HeldOK
  <2> QED
    BY <2>4, <2>6, <2>7 DEF RequestOK, EnvelopeOK
<1>2. CASE ~(u \in account' /\ q.pc \in Working)
  BY <1>2 DEF RequestOK, HoldOK, LeaseOK, HeldOK, EnvelopeOK, Working, Holding
<1> QED
  BY <1>1, <1>2

\* A request that has ended, or is at the start of a round, knows nothing.
LEMMA IdleOK ==
  ASSUME NEW r \in Request, request'[r].pc \in {"idle", "bind", "insert"}
  PROVE  RequestOK(r)'
BY DEF RequestOK, HoldOK, LeaseOK, HeldOK, EnvelopeOK, Working, Holding

\* A request that goes on with the claim as it is.
LEMMA GoesOn ==
  ASSUME NEW r \in Request, HoldOK(r), UNCHANGED <<account, claim>>,
         request[r].pc \in Working, request'[r].ask = request[r].ask
  PROVE  HoldOK(r)'
BY DEF HoldOK

LEMMA BindGoOK ==
  ASSUME BaseInv, NEW r \in Request, BindGo(r)
  PROVE  RequestOK(r)'
<1> DEFINE q == request[r]
           u == q.ask.user
           c == claim[u]
           st == [pc |-> "lease", tries |-> q.tries, ask |-> q.ask, revision |-> c.revision]
<1>1. q \in BindState /\ q.ask \in Ask /\ u = OwnerOf[q.ask.inst] /\ UNCHANGED <<account, claim>>
  BY Shapes DEF BaseInv, TypeOK, AskInv, BindGo
<1>2. CASE Becomes(r, [q EXCEPT !.pc = "insert"])
  <2>1. request'[r].pc = "insert"
    BY <1>1, <1>2 DEF BaseInv, TypeOK, Becomes, BindState
  <2> QED
    BY <2>1, IdleOK
<1>3. CASE /\ Rows(q.ask) # {} /\ ~OtherFlight(q.ask)
           /\ c.state \notin FinalStates /\ ~Waits(c, q.ask.at)
           /\ Becomes(r, st)
  <2>1. request'[r] = st
    BY <1>3 DEF BaseInv, TypeOK, Becomes
  <2>2. c # None /\ c \in Claim /\ c.flight = q.ask.flight
    BY <1>1, <1>3, OwnRows DEF BaseInv
  <2>3. c.attempts < MaxBuilds /\ c.revision \in Nat
    BY <1>3, <2>2, PreviewAssumption DEF Waits, Exhausted, Claim
  <2>4. request'[r].pc = "lease" /\ request'[r].ask = q.ask /\ request'[r].revision = c.revision
    BY <2>1
  <2> HIDE DEF st
  <2>5. claim'[request'[r].ask.user] = c /\ account' = account
    BY <1>1, <2>4
  <2>6. HoldOK(r)'
    BY <1>1, <2>2, <2>4, <2>5 DEF HoldOK
  <2>7. LeaseOK(r)'
    BY <1>3, <2>3, <2>4, <2>5 DEF LeaseOK
  <2>8. HeldOK(r)' /\ EnvelopeOK(r)'
    BY <2>4 DEF HeldOK, EnvelopeOK
  <2> QED BY <2>6, <2>7, <2>8 DEF RequestOK
<1> QED
  BY <1>2, <1>3 DEF BindGo

LEMMA BindInsertOK ==
  ASSUME BaseInv, NEW r \in Request, BindInsert(r)
  PROVE  RequestOK(r)'
<1> DEFINE q == request[r]
<1>1. q \in BindState /\ q.ask \in Ask /\ q.ask.user \in Account
  BY Shapes DEF BaseInv, TypeOK, BindInsert, Ask
<1>2. CASE Rows(q.ask) = {}
  <2>1. request'[r].pc = "inserted" /\ request'[r].ask = q.ask
    BY <1>1, <1>2 DEF BaseInv, TypeOK, BindInsert, Becomes, BindState
  <2>2. claim'[q.ask.user] = NewClaim(q.ask)
    BY <1>1, <1>2 DEF BaseInv, TypeOK, BindInsert
  <2> QED
    BY <1>1, <2>1, <2>2, NewRow DEF RequestOK, HoldOK, LeaseOK, HeldOK, EnvelopeOK
<1>3. CASE Rows(q.ask) # {}
  <2>1. request'[r].pc = "bind"
    BY <1>3 DEF BaseInv, TypeOK, BindInsert, Becomes, Again
  <2> QED
    BY <2>1, IdleOK
<1> QED
  BY <1>2, <1>3

LEMMA BindLeaseOK ==
  ASSUME BaseInv, NEW r \in Request, HoldOK(r), BindLease(r)
  PROVE  RequestOK(r)'
<1> DEFINE q == request[r]
           u == q.ask.user
<1>1. q.ask \in Ask /\ u \in Account /\ q.ask.at \in Nat
  BY Shapes DEF BaseInv, TypeOK, BindLease, Ask
<1>2. CASE Matches(u, q.revision)
  <2>1. request'[r] = [pc |-> "leased", tries |-> q.tries, ask |-> q.ask]
    BY <1>2 DEF BaseInv, TypeOK, BindLease, Becomes
  <2>2. claim'[u] = Renewed(claim[u], q.ask.at) /\ UNCHANGED account
    BY <1>1, <1>2 DEF BaseInv, TypeOK, BindLease
  <2>3. Written(claim[u], claim'[u])
    BY <1>1, <1>2, <2>2, MatchesClaim, RenewedRow DEF BaseInv
  <2>4. q.pc = "lease"
    BY DEF BindLease
  <2> QED
    BY <2>1, <2>2, <2>3, <2>4
    DEF RequestOK, HoldOK, LeaseOK, HeldOK, EnvelopeOK, Working, Written
<1>3. CASE ~Matches(u, q.revision)
  <2>1. request'[r].pc = "bind"
    BY <1>3 DEF BaseInv, TypeOK, BindLease, Becomes, Again
  <2> QED
    BY <2>1, IdleOK
<1> QED
  BY <1>2, <1>3

\* What HeldOf reads is what the claim says.
LEMMA HeldNow ==
  ASSUME TypeOK, NEW u \in Account, claim[u] # None
  PROVE  /\ HeldOf(u).revision <= claim[u].revision
         /\ HeldOf(u).attempts = claim[u].attempts
BY DEF HeldOf, TypeOK, Claim

LEMMA ReloadOK ==
  ASSUME BaseInv, NEW r \in Request, HoldOK(r), Reload(r)
  PROVE  RequestOK(r)'
<1> DEFINE q == request[r]
           u == q.ask.user
           h == IF claim[u] = None THEN None ELSE HeldOf(u)
<1>1. q.ask \in Ask /\ u \in Account /\ UNCHANGED <<account, claim>> /\ q.pc \in Working
  BY Shapes DEF BaseInv, TypeOK, Reload, Ask, Working, Holding
<1>2. CASE Becomes(r, Again(q))
  <2>1. request'[r].pc = "bind"
    BY <1>2 DEF BaseInv, TypeOK, Becomes, Again
  <2> QED
    BY <2>1, IdleOK
<1>3. CASE Becomes(r, [pc |-> "build", ask |-> q.ask, held |-> h])
  <2>1. request'[r] = [pc |-> "build", ask |-> q.ask, held |-> h]
    BY <1>3 DEF BaseInv, TypeOK, Becomes
  <2>2. HoldOK(r)'
    BY <1>1, <2>1, GoesOn
  <2>3. h # None => /\ h.revision <= claim[u].revision
                    /\ h.attempts = claim[u].attempts
    BY <1>1, HeldNow DEF BaseInv
  <2> HIDE DEF h
  <2> QED
    BY <1>1, <2>1, <2>2, <2>3 DEF RequestOK, LeaseOK, HeldOK, EnvelopeOK
<1> QED
  BY <1>2, <1>3 DEF Reload

LEMMA BuildCachedOK ==
  ASSUME BaseInv, StoreInv, NEW r \in Request, RequestOK(r), BuildCached(r)
  PROVE  RequestOK(r)'
<1> DEFINE q == request[r]
           a == q.ask
           shared == Cached(results[<<a.flight, a.live>>], a.at)
           e == IF shared # None THEN shared ELSE Envelop(a, Read(a))
           fresh == shared = None
           st == [pc |-> "settle", ask |-> a, held |-> q.held, envelope |-> e,
                  share |-> fresh, time |-> a.at]
<1>1. a \in Ask /\ UNCHANGED <<account, claim>> /\ q.pc = "build" /\ q.pc \in Working
  BY Shapes DEF BaseInv, TypeOK, BuildCached, Working, Holding
<1>2. CASE q.held = None
  BY <1>2, AnsweredMoves, IdleOK DEF BaseInv, BuildCached
<1>3. CASE q.held # None
  <2>1. e.flight = a.flight
    <3>1. CASE shared # None
      <4>1. <<a.flight, a.live>> \in Flight \X Live
        BY <1>1 DEF Ask
      <4>2. results[<<a.flight, a.live>>].value.flight = a.flight
        BY <1>1, <3>1, <4>1, SharedType DEF BaseInv, StoreInv, SharedInv
      <4> QED
        BY <1>1, <3>1, <4>2, SharedType DEF BaseInv
    <3>2. CASE shared = None
      BY <1>1, <3>2, EnvelopType
    <3> QED
      BY <3>1, <3>2
  <2>2. fresh => ~e.partial
    BY <1>1, EnvelopType DEF BuildCached
  <2>3. request'[r] = st
    BY <1>3 DEF BaseInv, TypeOK, BuildCached, Becomes
  <2>4. HoldOK(r)'
    BY <1>1, <2>3, GoesOn DEF RequestOK
  <2> HIDE DEF e, fresh
  <2>5. EnvelopeOK(r)'
    BY <2>1, <2>2, <2>3 DEF EnvelopeOK
  <2>6. HeldOK(r)'
    BY <1>1, <2>3 DEF RequestOK, HeldOK
  <2> QED
    BY <2>3, <2>4, <2>5, <2>6 DEF RequestOK, LeaseOK
<1> QED
  BY <1>2, <1>3

\* The steps of a request that leave the claims alone and learn nothing of them.
LEMMA PassOK ==
  ASSUME BaseInv, NEW r \in Request, HoldOK(r), BuildMissing(r) \/ Reserve(r)
  PROVE  RequestOK(r)'
<1> DEFINE q == request[r]
<1>1. UNCHANGED <<account, claim>> /\ q.pc \in Working
  BY DEF BuildMissing, Reserve, Working, Holding
<1>2. request'[r].pc \in {"reserve", "counted", "refused"} /\ request'[r].ask = q.ask
  <2>1. CASE BuildMissing(r)
    BY <2>1 DEF BaseInv, TypeOK, BuildMissing, Becomes
  <2>2. CASE Reserve(r)
    <3>1. q \in ReserveState
      BY <2>2, Shapes DEF BaseInv, TypeOK, Reserve
    <3>2. \/ request' = [request EXCEPT ![r] = [q EXCEPT !.pc = "counted"]]
          \/ request' = [request EXCEPT ![r] = [pc |-> "refused", ask |-> q.ask,
                                                lost |-> q.lost]]
      BY <2>2, Zenon DEF Reserve, Becomes
    <3> QED
      BY <3>1, <3>2 DEF BaseInv, TypeOK, ReserveState
  <2> QED
    BY <2>1, <2>2
<1> QED
  BY <1>1, <1>2, GoesOn DEF RequestOK, LeaseOK, HeldOK, EnvelopeOK

LEMMA RefreshOK ==
  ASSUME BaseInv, NEW r \in Request, RequestOK(r), Refresh(r)
  PROVE  RequestOK(r)'
<1> DEFINE q == request[r]
           u == q.ask.user
           h == HeldOf(u)
<1>1. /\ q.ask \in Ask /\ u \in Account /\ UNCHANGED <<account, claim>>
      /\ q.pc \in Working /\ claim[u] # None
  BY Shapes DEF BaseInv, TypeOK, Refresh, Ask, Working, Holding
<1>2. h.revision <= claim[u].revision /\ h.attempts = claim[u].attempts
  BY <1>1, HeldNow DEF BaseInv
<1>3. \/ request'[r] = [pc |-> "attempt", ask |-> q.ask, got |-> q.got, held |-> h]
      \/ request'[r] = [pc |-> "refuse", ask |-> q.ask, held |-> h]
      \/ /\ q.pc = "composed"
         /\ request'[r] = [pc |-> "settle", ask |-> q.ask, held |-> h, envelope |-> q.envelope,
                           share |-> q.share, time |-> q.time]
  BY DEF BaseInv, TypeOK, Refresh, Becomes
<1> HIDE DEF h
<1>4. HoldOK(r)'
  BY <1>1, <1>3, GoesOn DEF RequestOK
<1>5. HeldOK(r)'
  BY <1>1, <1>2, <1>3 DEF HeldOK
<1>6. EnvelopeOK(r)'
  BY <1>3 DEF RequestOK, EnvelopeOK
<1> QED
  BY <1>3, <1>4, <1>5, <1>6 DEF RequestOK, LeaseOK

LEMMA AttemptOK ==
  ASSUME BaseInv, NEW r \in Request, HoldOK(r), Attempt(r)
  PROVE  RequestOK(r)'
<1> DEFINE q == request[r]
           u == q.ask.user
<1>1. q \in FetchState /\ q.ask \in Ask /\ u \in Account /\ q.held \in Held
  BY Shapes DEF BaseInv, TypeOK, Attempt, Ask, FetchState
<1>2. CASE Matches(u, q.held.revision)
  <2>1. request'[r] = [pc |-> "attempted", ask |-> q.ask, got |-> q.got]
    BY <1>2 DEF BaseInv, TypeOK, Attempt, Becomes
  <2>2. claim'[u] = Attempted(claim[u], q.held, q.ask) /\ UNCHANGED account
    BY <1>1, <1>2 DEF BaseInv, TypeOK, Attempt
  <2>3. Written(claim[u], claim'[u])
    BY <1>1, <1>2, <2>2, MatchesClaim, AttemptedRow DEF BaseInv
  <2>4. q.pc \in Working
    BY DEF Attempt, Working, Holding
  <2> QED
    BY <2>1, <2>2, <2>3, <2>4 DEF RequestOK, HoldOK, LeaseOK, HeldOK, EnvelopeOK, Written
<1>3. CASE ~Matches(u, q.held.revision)
  BY <1>3, AnsweredMoves, IdleOK DEF BaseInv, Attempt
<1> QED
  BY <1>2, <1>3

LEMMA AskProviderOK ==
  ASSUME BaseInv, NEW r \in Request, HoldOK(r), AskProvider(r)
  PROVE  RequestOK(r)'
<1> DEFINE q == request[r]
           u == q.ask.user
           h == HeldOf(u)
<1>1. q.ask \in Ask /\ u \in Account /\ UNCHANGED <<account, claim>> /\ q.pc \in Working
  BY Shapes DEF BaseInv, TypeOK, AskProvider, Ask, Working, Holding
<1>2. CASE claim[u] # None
  <2>1. request'[r] = [pc |-> "fetch", ask |-> q.ask, got |-> q.got, held |-> h]
    BY <1>2 DEF BaseInv, TypeOK, AskProvider, Becomes
  <2>2. h.revision <= claim[u].revision /\ h.attempts = claim[u].attempts
    BY <1>1, <1>2, HeldNow DEF BaseInv
  <2>3. HoldOK(r)'
    BY <1>1, <2>1, GoesOn
  <2> HIDE DEF h
  <2> QED
    BY <1>1, <2>1, <2>2, <2>3 DEF RequestOK, LeaseOK, HeldOK, EnvelopeOK
<1>3. CASE claim[u] = None
  BY <1>3, AnsweredMoves, IdleOK DEF BaseInv, AskProvider
<1> QED
  BY <1>2, <1>3

LEMMA FetchOK ==
  ASSUME BaseInv, NEW r \in Request, RequestOK(r), Fetch(r)
  PROVE  RequestOK(r)'
<1> DEFINE q == request[r]
<1>1. UNCHANGED <<account, claim>> /\ q.pc = "fetch" /\ q.pc \in Working
  BY DEF Fetch, Working, Holding
<1>2. PICK e \in Envelope, share \in BOOLEAN :
        /\ e.flight = q.ask.flight /\ (share => ~e.partial)
        /\ \/ Becomes(r, [pc |-> "composed", ask |-> q.ask, envelope |-> e, share |-> share,
                          time |-> now])
           \/ Becomes(r, [pc |-> "settle", ask |-> q.ask, held |-> q.held, envelope |-> e,
                          share |-> share, time |-> now])
  BY FetchTo
<1>3. /\ request'[r].pc \in {"composed", "settle"} /\ request'[r].ask = q.ask
      /\ request'[r].envelope = e /\ request'[r].share = share
      /\ request'[r].pc = "settle" => request'[r].held = q.held
  BY <1>2 DEF BaseInv, TypeOK, Becomes
<1>4. HoldOK(r)'
  BY <1>1, <1>3, GoesOn DEF RequestOK
<1>5. EnvelopeOK(r)'
  BY <1>2, <1>3 DEF EnvelopeOK
<1>6. HeldOK(r)'
  BY <1>1, <1>3 DEF RequestOK, HeldOK
<1> QED
  BY <1>3, <1>4, <1>5, <1>6 DEF RequestOK, LeaseOK

\* The request that moves knows what it should.
LEMMA MoverOK ==
  ASSUME BaseInv, StoreInv, NEW r \in Request, RequestOK(r), Step(r)
  PROVE  RequestOK(r)'
<1>1. HoldOK(r)
  BY DEF RequestOK
<1>2. ASSUME NEW inst \in Installation, NEW flight \in Flight, NEW live \in Live,
             Start(r, inst, flight, live)
      PROVE  request'[r].pc = "bind"
  BY <1>2 DEF BaseInv, TypeOK, Start, Becomes
<1>3. ASSUME BindRefused(r) \/ BindStored(r) \/ RefreshFails(r) \/ Die(r) \/ Refuse(r)
             \/ SettleFailed(r) \/ Finish(r)
      PROVE  request'[r].pc = "idle"
  <2>1. Answered(r)
    BY <1>3 DEF BindRefused, BindStored, RefreshFails, Die, Refuse, SettleFailed, Finish, Serve
  <2> QED
    BY <2>1, AnsweredMoves DEF BaseInv
<1> QED
  BY <1>1, <1>2, <1>3, IdleOK, BindGoOK, BindInsertOK, BindLeaseOK, ReloadOK, BuildCachedOK,
     PassOK, RefreshOK, AttemptOK, AskProviderOK, FetchOK
  DEF Step

LEMMA StepAccount ==
  ASSUME NEW r \in Request, Step(r)
  PROVE  UNCHANGED account
BY DEF Step, Start, BindRefused, BindStored, BindGo, BindInsert, BindLease, Reload, BuildCached,
       BuildMissing, Reserve, Refresh, RefreshFails, Refuse, Attempt, AskProvider, Fetch,
       SettleFailed, Finish, Die

-----------------------------------------------------------------------------
(* Results. *)

\* A step that stores and serves no result.
Quiet ==
  /\ UNCHANGED <<account, served, results>>
  /\ \A u \in Account :
       \/ claim'[u] = claim[u]
       \/ /\ claim[u] # None /\ Written(claim[u], claim'[u])
          /\ claim'[u].result = claim[u].result
       \/ claim[u] = None /\ claim'[u].result = None

LEMMA QuietStore ==
  ASSUME BaseInv, StoreInv, Quiet
  PROVE  StoreInv'
<1>1. account \subseteq Account
  BY DEF BaseInv, TypeOK
<1>2. OneFlight'
  BY <1>1 DEF StoreInv, OneFlight, Quiet, Written
<1>3. NeverFalselyCalm'
  BY DEF StoreInv, NeverFalselyCalm, Quiet
<1>4. SharedInv'
  BY DEF StoreInv, SharedInv, Quiet
<1> QED
  BY <1>2, <1>3, <1>4 DEF StoreInv

LEMMA StepStore ==
  ASSUME BaseInv, StoreInv, NEW r \in Request, RequestOK(r), Step(r)
  PROVE  StoreInv'
<1> DEFINE q == request[r]
           u == q.ask.user
           c == claim[u]
<1>1. ASSUME BindStored(r)
      PROVE  StoreInv'
  <2>1. c # None /\ c.result # None
    BY <1>1, BindStoredMoves
  <2>2. u \in Account
    BY <1>1, Shapes DEF BaseInv, TypeOK, BindStored, Ask
  <2>3. UNCHANGED <<account, claim, results>>
    BY <1>1 DEF BindStored, cacheVars
  <2>4. served' = [served EXCEPT ![u] = @ \cup {c.result.flight}]
    BY <1>1 DEF BindStored, Serve
  <2>5. account \subseteq Account /\ served \in [Account -> SUBSET Flight]
    BY DEF BaseInv, TypeOK
  <2>6. OneFlight'
    BY <2>1, <2>2, <2>3, <2>4, <2>5 DEF StoreInv, OneFlight
  <2> QED
    BY <2>3, <2>6 DEF StoreInv, NeverFalselyCalm, SharedInv
<1>2. ASSUME Finish(r)
      PROVE  StoreInv'
  <2> DEFINE e == q.envelope
  <2>1. q \in SettleState /\ q.ask \in Ask /\ u \in Account /\ e \in Envelope /\ q.time \in Nat
    BY <1>2, Shapes DEF BaseInv, TypeOK, Finish, Ask, SettleState
  <2>2. /\ e.flight = q.ask.flight /\ (q.share => ~e.partial)
        /\ ~e.partial \/ (e.level = "raised" /\ ~e.bare)
    BY <1>2 DEF RequestOK, EnvelopeOK, Finish, Unusable
  <2>3. /\ account' = account /\ served' = [served EXCEPT ![u] = @ \cup {e.flight}]
        /\ account \subseteq Account /\ served \in [Account -> SUBSET Flight]
    BY <1>2 DEF Finish, Serve, BaseInv, TypeOK
  <2>4. u \in account => c # None /\ c.flight = q.ask.flight
    BY <1>2 DEF RequestOK, HoldOK, Finish, Working, Holding
  <2>5. \/ claim' = claim
        \/ /\ c # None /\ Written(c, claim'[u]) /\ claim'[u].result = e
           /\ \A v \in Account \ {u} : claim'[v] = claim[v]
    <3>1. CASE Matches(u, q.held.revision)
      <4>1. c # None /\ c \in Claim
        BY <2>1, <3>1, MatchesClaim DEF BaseInv
      <4>2. claim' = [claim EXCEPT ![u] = Finished(c, e, q.time)]
        BY <1>2, <3>1 DEF Finish
      <4>3. Written(c, Finished(c, e, q.time)) /\ Finished(c, e, q.time).result = e
        BY <2>1, <4>1, FinishedRow
      <4> QED
        BY <2>1, <4>1, <4>2, <4>3 DEF BaseInv, TypeOK
    <3>2. CASE ~Matches(u, q.held.revision)
      BY <1>2, <3>2 DEF Finish
    <3> QED
      BY <3>1, <3>2
  <2>6. OneFlight'
    BY <2>1, <2>2, <2>3, <2>4, <2>5 DEF StoreInv, OneFlight, Written
  <2>7. \/ /\ q.share
           /\ results' = [results EXCEPT ![<<q.ask.flight, q.ask.live>>] =
                            Put(e, q.time, ResultTtl)]
        \/ results' = results
    BY <1>2 DEF Finish
  <2>8. Put(e, q.time, ResultTtl).value = e
    BY DEF Put
  <2>9. \A k \in Flight \X Live :
          results'[k] = results[k]
          \/ /\ k = <<q.ask.flight, q.ask.live>> /\ q.share
             /\ results'[k] = Put(e, q.time, ResultTtl)
    BY <2>7 DEF BaseInv, TypeOK
  <2>10. SharedInv'
    BY <2>2, <2>8, <2>9 DEF StoreInv, SharedInv
  <2>11. NeverFalselyCalm'
    BY <2>2, <2>5, <2>8, <2>9 DEF StoreInv, NeverFalselyCalm
  <2> QED
    BY <2>6, <2>10, <2>11 DEF StoreInv
<1>3. ASSUME BindInsert(r)
      PROVE  Quiet
  <2>1. q.ask \in Ask /\ u = OwnerOf[q.ask.inst] /\ u \in Account
    BY <1>3, Shapes DEF BaseInv, TypeOK, AskInv, BindInsert, Ask
  <2>2. UNCHANGED <<account, served, results>>
    BY <1>3 DEF BindInsert, cacheVars, history
  <2>3. CASE Rows(q.ask) = {}
    <3>1. c = None
      BY <2>1, <2>3, OwnRows DEF BaseInv
    <3>2. claim' = [claim EXCEPT ![u] = NewClaim(q.ask)]
      BY <1>3, <2>3 DEF BindInsert
    <3> QED
      BY <2>1, <2>2, <3>1, <3>2, NewRow DEF BaseInv, TypeOK, Quiet
  <2>4. CASE Rows(q.ask) # {}
    BY <1>3, <2>2, <2>4 DEF BindInsert, Quiet
  <2> QED
    BY <2>3, <2>4
<1>4. ASSUME NEW d, claim' = [claim EXCEPT ![u] = d] \/ claim' = claim, u \in Account,
             claim' # claim => /\ c # None /\ Written(c, d) /\ d.result = c.result,
             UNCHANGED <<account, served, results>>
      PROVE  Quiet
  BY <1>4 DEF BaseInv, TypeOK, Quiet
<1>5. ASSUME BindLease(r)
      PROVE  Quiet
  <2>1. u \in Account /\ q.ask.at \in Nat
    BY <1>5, Shapes DEF BaseInv, TypeOK, BindLease, Ask
  <2>2. UNCHANGED <<account, served, results>>
    BY <1>5 DEF BindLease, cacheVars
  <2>3. CASE Matches(u, q.revision)
    <3>1. claim' = [claim EXCEPT ![u] = Renewed(c, q.ask.at)]
      BY <1>5, <2>3 DEF BindLease
    <3>2. /\ c # None /\ Written(c, Renewed(c, q.ask.at))
          /\ Renewed(c, q.ask.at).result = c.result
      BY <2>1, <2>3, MatchesClaim, RenewedRow DEF BaseInv
    <3> QED
      BY <1>4, <2>1, <2>2, <3>1, <3>2
  <2>4. CASE ~Matches(u, q.revision)
    BY <1>5, <2>2, <2>4 DEF BindLease, Quiet
  <2> QED
    BY <2>3, <2>4
<1>6. ASSUME Attempt(r)
      PROVE  Quiet
  <2>1. u \in Account /\ q.ask \in Ask /\ q.held \in Held
    BY <1>6, Shapes DEF BaseInv, TypeOK, Attempt, Ask, FetchState
  <2>2. UNCHANGED <<account, served, results>>
    BY <1>6 DEF Attempt, cacheVars, history
  <2>3. CASE Matches(u, q.held.revision)
    <3>1. claim' = [claim EXCEPT ![u] = Attempted(c, q.held, q.ask)]
      BY <1>6, <2>3 DEF Attempt
    <3>2. /\ c # None /\ Written(c, Attempted(c, q.held, q.ask))
          /\ Attempted(c, q.held, q.ask).result = c.result
      BY <2>1, <2>3, MatchesClaim, AttemptedRow DEF BaseInv
    <3> QED
      BY <1>4, <2>1, <2>2, <3>1, <3>2
  <2>4. CASE ~Matches(u, q.held.revision)
    BY <1>6, <2>2, <2>4 DEF Attempt, Quiet
  <2> QED
    BY <2>3, <2>4
<1>7. ASSUME NEW reason \in {"capacity", "provider"}, NEW time \in Nat, u \in Account,
             claim' = IF Matches(u, q.held.revision)
                      THEN [claim EXCEPT ![u] = Failed(c, reason, time)] ELSE claim,
             UNCHANGED <<account, served, results>>
      PROVE  Quiet
  <2>1. CASE Matches(u, q.held.revision)
    <3>1. /\ c # None /\ Written(c, Failed(c, reason, time))
          /\ Failed(c, reason, time).result = c.result
      BY <1>7, <2>1, MatchesClaim, FailedRow DEF BaseInv
    <3>2. claim' = [claim EXCEPT ![u] = Failed(c, reason, time)]
      BY <1>7, <2>1
    <3> QED
      BY <1>4, <1>7, <3>1, <3>2
  <2>2. CASE ~Matches(u, q.held.revision)
    BY <1>7, <2>2 DEF Quiet
  <2> QED
    BY <2>1, <2>2
<1>8. ASSUME Refuse(r)
      PROVE  Quiet
  <2>1. u \in Account /\ q.ask.at \in Nat
    BY <1>8, Shapes DEF BaseInv, TypeOK, Refuse, Ask
  <2>2. UNCHANGED <<account, served, results>>
    BY <1>8 DEF Refuse, cacheVars, history
  <2> QED
    BY <1>7, <1>8, <2>1, <2>2 DEF Refuse
<1>9. ASSUME SettleFailed(r)
      PROVE  Quiet
  <2>1. u \in Account /\ q.time \in Nat
    BY <1>9, Shapes DEF BaseInv, TypeOK, SettleFailed, Ask, SettleState
  <2>2. UNCHANGED <<account, served, results>>
    BY <1>9 DEF SettleFailed, cacheVars, history
  <2> QED
    BY <1>7, <1>9, <2>1, <2>2 DEF SettleFailed
<1>10. ASSUME UNCHANGED <<account, claim, served, results>>
       PROVE  Quiet
  BY <1>10 DEF Quiet
<1> QED
  BY <1>1, <1>2, <1>3, <1>5, <1>6, <1>8, <1>9, <1>10, QuietStore
  DEF Step, Start, BindRefused, BindGo, Reload, BuildCached, BuildMissing, Reserve, Refresh,
      RefreshFails, AskProvider, Fetch, Die, cacheVars, history

-----------------------------------------------------------------------------
(* Leases.  Every step of a request is one of these, for its account's claim. *)

\* Requests that have not asked the provider yet, and may.
Before == {"inserted", "leased", "build", "reserve", "counted", "attempt"}

Inserts(r) ==
  LET u == request[r].ask.user
  IN /\ u \in Account /\ claim[u] = None
     /\ claim'[u].state = "pending" /\ claim'[u].attempts = 0
     /\ \A v \in Account \ {u} : claim'[v] = claim[v]
     /\ request'[r].pc = "inserted" /\ request'[r].ask = request[r].ask
     /\ UNCHANGED <<overtaken, builds>>

Leases(r) ==
  LET u == request[r].ask.user
  IN /\ u \in Account /\ request[r].pc = "lease" /\ Matches(u, request[r].revision)
     /\ Written(claim[u], claim'[u])
     /\ claim'[u].state = "pending" /\ claim'[u].attempts = claim[u].attempts
     /\ \A v \in Account \ {u} : claim'[v] = claim[v]
     /\ request'[r].pc = "leased" /\ request'[r].ask = request[r].ask
     /\ overtaken' = IF Holders(u) = {} THEN overtaken ELSE overtaken \cup {u}
     /\ UNCHANGED builds

Attempts(r) ==
  LET u == request[r].ask.user
  IN /\ u \in Account /\ request[r].pc = "attempt"
     /\ request[r].held # None /\ Matches(u, request[r].held.revision)
     /\ Written(claim[u], claim'[u])
     /\ claim'[u].state = "pending" /\ claim'[u].attempts = request[r].held.attempts + 1
     /\ \A v \in Account \ {u} : claim'[v] = claim[v]
     /\ request'[r].pc = "attempted" /\ request'[r].ask = request[r].ask
     /\ UNCHANGED <<overtaken, builds>>

Settles(r) ==
  LET u == request[r].ask.user
  IN /\ u \in Account /\ request[r].pc \in {"refuse", "settle"} /\ claim[u] # None
     /\ Written(claim[u], claim'[u]) /\ claim'[u].attempts = claim[u].attempts
     /\ \A v \in Account \ {u} : claim'[v] = claim[v]
     /\ request'[r].pc = "idle"
     /\ UNCHANGED <<overtaken, builds>>

Asks(r) ==
  LET u == request[r].ask.user
  IN /\ u \in Account /\ request[r].pc = "attempted" /\ claim[u] # None
     /\ request'[r].pc = "fetch" /\ request'[r].ask = request[r].ask
     /\ builds' = [builds EXCEPT ![u] = @ + 1]
     /\ UNCHANGED <<claim, overtaken>>

Proceeds(r) ==
  /\ UNCHANGED <<claim, overtaken, builds>>
  /\ request'[r].pc # "attempted"
  /\ request'[r].pc \in Holding =>
       /\ request[r].pc \in Holding /\ request'[r].ask = request[r].ask
       /\ request'[r].pc \in Before => request[r].pc \in Before

Kinds(r) ==
  Inserts(r) \/ Leases(r) \/ Attempts(r) \/ Settles(r) \/ Asks(r) \/ Proceeds(r)

LEMMA WriteKinds ==
  ASSUME BaseInv, NEW r \in Request,
         BindInsert(r) \/ BindLease(r) \/ Attempt(r) \/ Refuse(r) \/ SettleFailed(r) \/ Finish(r)
  PROVE  Kinds(r)
<1> DEFINE q == request[r]
           u == q.ask.user
           c == claim[u]
<1>1. q.ask \in Ask /\ u = OwnerOf[q.ask.inst] /\ u \in Account /\ q.ask.at \in Nat
  BY Shapes DEF BaseInv, TypeOK, AskInv, BindInsert, BindLease, Attempt, Refuse, SettleFailed,
                Finish, Ask
<1>2. claim \in [Account -> Claim \cup {None}]
  BY DEF BaseInv, TypeOK
<1>3. CASE BindInsert(r)
  <2>1. q \in BindState /\ UNCHANGED <<overtaken, builds>>
    BY <1>3, Shapes DEF BaseInv, TypeOK, BindInsert, history
  <2>2. CASE Rows(q.ask) = {}
    <3>1. c = None
      BY <1>1, <2>2, OwnRows DEF BaseInv
    <3>2. claim' = [claim EXCEPT ![u] = NewClaim(q.ask)]
      BY <1>3, <2>2 DEF BindInsert
    <3>3. request'[r].pc = "inserted" /\ request'[r].ask = q.ask
      BY <1>3, <2>1, <2>2 DEF BaseInv, TypeOK, BindInsert, Becomes, BindState
    <3> QED
      BY <1>1, <1>2, <2>1, <3>1, <3>2, <3>3, NewRow DEF Kinds, Inserts
  <2>3. CASE Rows(q.ask) # {}
    <3>1. UNCHANGED claim /\ request'[r].pc = "bind"
      BY <1>3, <2>3 DEF BaseInv, TypeOK, BindInsert, Becomes, Again
    <3> QED
      BY <2>1, <3>1 DEF Kinds, Proceeds, Holding
  <2> QED
    BY <2>2, <2>3
<1>4. CASE BindLease(r)
  <2>1. UNCHANGED builds /\ q.pc = "lease"
    BY <1>4 DEF BindLease
  <2>2. CASE Matches(u, q.revision)
    <3>1. /\ claim' = [claim EXCEPT ![u] = Renewed(c, q.ask.at)]
          /\ overtaken' = IF Holders(u) = {} THEN overtaken ELSE overtaken \cup {u}
      BY <1>4, <2>2 DEF BindLease
    <3>2. /\ Written(c, Renewed(c, q.ask.at)) /\ Renewed(c, q.ask.at).state = "pending"
          /\ Renewed(c, q.ask.at).attempts = c.attempts
      BY <1>1, <2>2, MatchesClaim, RenewedRow DEF BaseInv
    <3>3. request'[r].pc = "leased" /\ request'[r].ask = q.ask
      BY <1>4, <2>2 DEF BaseInv, TypeOK, BindLease, Becomes
    <3> QED
      BY <1>1, <1>2, <2>1, <2>2, <3>1, <3>2, <3>3 DEF Kinds, Leases
  <2>3. CASE ~Matches(u, q.revision)
    <3>1. UNCHANGED <<claim, overtaken>> /\ request'[r].pc = "bind"
      BY <1>4, <2>3 DEF BaseInv, TypeOK, BindLease, Becomes, Again
    <3> QED
      BY <2>1, <3>1 DEF Kinds, Proceeds, Holding
  <2> QED
    BY <2>2, <2>3
<1>5. CASE Attempt(r)
  <2>1. q.held \in Held /\ q.held # None
    BY <1>5, Shapes, NoneAssumption DEF BaseInv, TypeOK, Attempt, FetchState
  <2>2. UNCHANGED <<overtaken, builds>> /\ q.pc = "attempt"
    BY <1>5 DEF Attempt, history
  <2>3. CASE Matches(u, q.held.revision)
    <3>1. claim' = [claim EXCEPT ![u] = Attempted(c, q.held, q.ask)]
      BY <1>5, <2>3 DEF Attempt
    <3>2. /\ Written(c, Attempted(c, q.held, q.ask))
          /\ Attempted(c, q.held, q.ask).state = "pending"
          /\ Attempted(c, q.held, q.ask).attempts = q.held.attempts + 1
      BY <1>1, <2>1, <2>3, MatchesClaim, AttemptedRow DEF BaseInv
    <3>3. request'[r].pc = "attempted" /\ request'[r].ask = q.ask
      BY <1>5, <2>3 DEF BaseInv, TypeOK, Attempt, Becomes
    <3> QED
      BY <1>1, <1>2, <2>1, <2>2, <2>3, <3>1, <3>2, <3>3 DEF Kinds, Attempts
  <2>4. CASE ~Matches(u, q.held.revision)
    <3>1. UNCHANGED claim /\ request'[r].pc = "idle"
      BY <1>5, <2>4, AnsweredMoves DEF BaseInv, Attempt
    <3> QED
      BY <2>2, <3>1 DEF Kinds, Proceeds, Holding
  <2> QED
    BY <2>3, <2>4
<1>6. ASSUME NEW d, q.pc \in {"refuse", "settle"}, UNCHANGED <<overtaken, builds>>,
             request'[r].pc = "idle",
             claim' = IF Matches(u, q.held.revision) THEN [claim EXCEPT ![u] = d] ELSE claim,
             c # None => Written(c, d) /\ d.attempts = c.attempts
      PROVE  Kinds(r)
  <2>1. CASE Matches(u, q.held.revision)
    <3>1. c # None
      BY <2>1 DEF Matches
    <3> QED
      BY <1>1, <1>2, <1>6, <2>1, <3>1 DEF Kinds, Settles
  <2>2. CASE ~Matches(u, q.held.revision)
    BY <1>6, <2>2 DEF Kinds, Proceeds, Holding
  <2> QED
    BY <2>1, <2>2
<1>7. CASE Refuse(r)
  <2>1. c # None => /\ Written(c, Failed(c, "capacity", q.ask.at))
                    /\ Failed(c, "capacity", q.ask.at).attempts = c.attempts
    BY <1>1, <1>2, FailedRow
  <2>2. UNCHANGED <<overtaken, builds>> /\ q.pc = "refuse" /\ request'[r].pc = "idle"
    BY <1>7, FailureMoves DEF Refuse, history
  <2> QED
    BY <1>6, <1>7, <2>1, <2>2 DEF Refuse
<1>8. CASE SettleFailed(r)
  <2>1. q.time \in Nat
    BY <1>8, Shapes DEF BaseInv, TypeOK, SettleFailed, SettleState
  <2>2. c # None => /\ Written(c, Failed(c, "provider", q.time))
                    /\ Failed(c, "provider", q.time).attempts = c.attempts
    BY <1>1, <1>2, <2>1, FailedRow
  <2>3. UNCHANGED <<overtaken, builds>> /\ q.pc = "settle" /\ request'[r].pc = "idle"
    BY <1>8, FailureMoves DEF SettleFailed, history
  <2> QED
    BY <1>6, <1>8, <2>2, <2>3 DEF SettleFailed
<1>9. CASE Finish(r)
  <2>1. q.time \in Nat /\ q.envelope \in Envelope
    BY <1>9, Shapes DEF BaseInv, TypeOK, Finish, SettleState
  <2>2. c # None => /\ Written(c, Finished(c, q.envelope, q.time))
                    /\ Finished(c, q.envelope, q.time).attempts = c.attempts
    BY <1>1, <1>2, <2>1, FinishedRow
  <2>3. UNCHANGED <<overtaken, builds>> /\ q.pc = "settle" /\ request'[r].pc = "idle"
    BY <1>9, FinishMoves DEF Finish, history
  <2> QED
    BY <1>6, <1>9, <2>2, <2>3 DEF Finish
<1> QED
  BY <1>3, <1>4, <1>5, <1>7, <1>8, <1>9

LEMMA StepKinds ==
  ASSUME BaseInv, NEW r \in Request, Step(r)
  PROVE  Kinds(r)
<1> DEFINE q == request[r]
           u == q.ask.user
<1>1. CASE BindInsert(r) \/ BindLease(r) \/ Attempt(r) \/ Refuse(r) \/ SettleFailed(r) \/ Finish(r)
  BY <1>1, WriteKinds
<1>2. CASE AskProvider(r)
  <2>1. u \in Account /\ q.pc = "attempted" /\ UNCHANGED <<claim, overtaken>>
    BY <1>2, Shapes DEF BaseInv, TypeOK, AskProvider, Ask
  <2>2. CASE claim[u] # None
    <3>1. request'[r].pc = "fetch" /\ request'[r].ask = q.ask
      BY <1>2, <2>2 DEF BaseInv, TypeOK, AskProvider, Becomes
    <3> QED
      BY <1>2, <2>1, <2>2, <3>1 DEF AskProvider, Kinds, Asks
  <2>3. CASE claim[u] = None
    <3>1. request'[r].pc = "idle" /\ UNCHANGED builds
      BY <1>2, <2>3, AnsweredMoves DEF BaseInv, AskProvider
    <3> QED
      BY <2>1, <3>1 DEF Kinds, Proceeds, Holding
  <2> QED
    BY <2>2, <2>3
<1>3. ASSUME UNCHANGED <<claim, overtaken, builds>>,
             request'[r].pc \in {"idle", "bind", "insert", "lease"}
      PROVE  Kinds(r)
  BY <1>3 DEF Kinds, Proceeds, Holding
<1>4. CASE BindRefused(r) \/ BindStored(r) \/ RefreshFails(r) \/ Die(r)
  <2>1. Answered(r) /\ UNCHANGED <<claim, overtaken, builds>>
    BY <1>4 DEF BindRefused, BindStored, RefreshFails, Die, Serve, history
  <2> QED
    BY <1>3, <2>1, AnsweredMoves DEF BaseInv
<1>5. CASE \E inst \in Installation, flight \in Flight, live \in Live :
             Start(r, inst, flight, live)
  <2>1. request'[r].pc = "bind" /\ UNCHANGED <<claim, overtaken, builds>>
    BY <1>5 DEF BaseInv, TypeOK, Start, Becomes, history
  <2> QED
    BY <1>3, <2>1
<1>6. CASE BindGo(r)
  <2>1. q \in BindState /\ UNCHANGED <<claim, overtaken, builds>>
    BY <1>6, Shapes DEF BaseInv, TypeOK, BindGo, history
  <2>2. \/ request' = [request EXCEPT ![r] = [q EXCEPT !.pc = "insert"]]
        \/ request' = [request EXCEPT ![r] = [pc |-> "lease", tries |-> q.tries, ask |-> q.ask,
                                              revision |-> claim[u].revision]]
    BY <1>6, Zenon DEF BindGo, Becomes
  <2>3. request'[r] = [q EXCEPT !.pc = "insert"] \/ request'[r].pc = "lease"
    BY <2>2 DEF BaseInv, TypeOK
  <2> QED
    BY <1>3, <2>1, <2>3 DEF BindState
<1>7. ASSUME UNCHANGED <<claim, overtaken, builds>>, request'[r].ask = q.ask,
             \/ q.pc \in {"inserted", "leased"} /\ request'[r].pc = "build"
             \/ q.pc = "build" /\ request'[r].pc \in {"reserve", "settle"}
             \/ q.pc = "reserve" /\ request'[r].pc \in {"counted", "refused"}
             \/ q.pc = "counted" /\ request'[r].pc = "attempt"
             \/ q.pc = "refused" /\ request'[r].pc = "refuse"
             \/ q.pc = "composed" /\ request'[r].pc = "settle"
             \/ q.pc = "fetch" /\ request'[r].pc \in {"composed", "settle"}
      PROVE  Kinds(r)
  BY <1>7 DEF Kinds, Proceeds, Holding, Before
<1>8. CASE Reload(r)
  <2>1. UNCHANGED <<claim, overtaken, builds>> /\ q.pc \in {"inserted", "leased"}
    BY <1>8 DEF Reload, history
  <2>2. \/ request'[r].pc = "bind"
        \/ request'[r].pc = "build" /\ request'[r].ask = q.ask
    BY <1>8 DEF BaseInv, TypeOK, Reload, Becomes, Again
  <2> QED
    BY <1>3, <1>7, <2>1, <2>2
<1>9. CASE BuildCached(r) \/ BuildMissing(r)
  <2>1. UNCHANGED <<claim, overtaken, builds>> /\ q.pc = "build"
    BY <1>9 DEF BuildCached, BuildMissing, history
  <2>2. \/ request'[r].pc = "idle"
        \/ request'[r].pc \in {"reserve", "settle"} /\ request'[r].ask = q.ask
    BY <1>9 DEF BaseInv, TypeOK, BuildCached, BuildMissing, Becomes, Answered
  <2> QED
    BY <1>3, <1>7, <2>1, <2>2
<1>10. CASE Reserve(r)
  <2>1. /\ UNCHANGED <<claim, overtaken, builds>> /\ q.pc = "reserve"
        /\ request'[r].pc \in {"reserve", "counted", "refused"} /\ request'[r].ask = q.ask
        /\ request'[r].pc # "reserve"
    <3>1. q \in ReserveState /\ q.pc = "reserve" /\ UNCHANGED <<claim, overtaken, builds>>
      BY <1>10, Shapes DEF BaseInv, TypeOK, Reserve, history
    <3>2. \/ request' = [request EXCEPT ![r] = [q EXCEPT !.pc = "counted"]]
          \/ request' = [request EXCEPT ![r] = [pc |-> "refused", ask |-> q.ask,
                                                lost |-> q.lost]]
      BY <1>10, Zenon DEF Reserve, Becomes
    <3> QED
      BY <3>1, <3>2 DEF BaseInv, TypeOK, ReserveState
  <2> QED
    BY <1>7, <2>1
<1>11. CASE Refresh(r)
  <2>1. UNCHANGED <<claim, overtaken, builds>> /\ request'[r].ask = q.ask
    BY <1>11 DEF BaseInv, TypeOK, Refresh, Becomes, history
  <2>2. \/ q.pc = "counted" /\ request'[r].pc = "attempt"
        \/ q.pc = "refused" /\ request'[r].pc = "refuse"
        \/ q.pc = "composed" /\ request'[r].pc = "settle"
    BY <1>11 DEF BaseInv, TypeOK, Refresh, Becomes
  <2> QED
    BY <1>7, <2>1, <2>2
<1>12. CASE Fetch(r)
  <2>1. UNCHANGED <<claim, overtaken, builds>> /\ q.pc = "fetch"
    BY <1>12 DEF Fetch, history
  <2>2. PICK e \in Envelope, share \in BOOLEAN :
          \/ Becomes(r, [pc |-> "composed", ask |-> q.ask, envelope |-> e, share |-> share,
                         time |-> now])
          \/ Becomes(r, [pc |-> "settle", ask |-> q.ask, held |-> q.held, envelope |-> e,
                         share |-> share, time |-> now])
    BY <1>12, FetchTo
  <2>3. request'[r].pc \in {"composed", "settle"} /\ request'[r].ask = q.ask
    BY <2>2 DEF BaseInv, TypeOK, Becomes
  <2> QED
    BY <1>7, <2>1, <2>3
<1> QED
  BY <1>1, <1>2, <1>4, <1>5, <1>6, <1>8, <1>9, <1>10, <1>11, <1>12 DEF Step

\* Unless a lease was overtaken, one request at most goes on with a lease; the claim
\* is then pending, and has a build left as long as the request may ask.
SoleInv == \A u \in account \ overtaken :
  /\ \A r, s \in Holders(u) : r = s
  /\ \A r \in Holders(u) : /\ claim[u].state = "pending"
                           /\ request[r].pc \in Before => claim[u].attempts < MaxBuilds
  /\ claim[u] # None => claim[u].attempts <= MaxBuilds

LEMMA StepSole ==
  ASSUME BaseInv, RequestInv, SoleInv, NEW r \in Request, Moved(r), Kinds(r), UNCHANGED account
  PROVE  SoleInv'
<1> DEFINE q == request[r]
           w == q.ask.user
<1>1. SUFFICES ASSUME NEW u \in account, u \notin overtaken'
               PROVE  /\ \A s, t \in Holders(u)' : s = t
                      /\ \A s \in Holders(u)' :
                           /\ claim'[u].state = "pending"
                           /\ request'[s].pc \in Before => claim'[u].attempts < MaxBuilds
                      /\ claim'[u] # None => claim'[u].attempts <= MaxBuilds
  BY DEF SoleInv
<1>2. /\ u \in Account /\ MaxBuilds \in Nat \ {0}
      /\ claim[u] # None => claim[u] \in Claim
  BY PreviewAssumption DEF BaseInv, TypeOK
<1>3. \A s \in Request \ {r} : request'[s] = request[s]
  BY DEF Moved
<1>4. \A s \in Holders(u) : claim[u] # None /\ claim[u] \in Claim
  BY <1>2 DEF RequestInv, RequestOK, HoldOK, Holders, Working
<1>5. overtaken \subseteq overtaken'
  BY DEF Kinds, Inserts, Leases, Attempts, Settles, Asks, Proceeds
<1>6. /\ \A s, t \in Holders(u) : s = t
      /\ \A s \in Holders(u) : /\ claim[u].state = "pending"
                               /\ request[s].pc \in Before => claim[u].attempts < MaxBuilds
      /\ claim[u] # None => claim[u].attempts <= MaxBuilds
  BY <1>1, <1>5 DEF SoleInv
<1>7. CASE Proceeds(r)
  <2>1. Holders(u)' \subseteq Holders(u)
    BY <1>3, <1>7 DEF Holders, Proceeds
  <2>2. \A s \in Holders(u)' : request'[s].pc \in Before => request[s].pc \in Before
    BY <1>3, <1>7 DEF Holders, Proceeds
  <2> QED
    BY <1>6, <1>7, <2>1, <2>2 DEF Proceeds
<1>8. CASE Asks(r)
  <2>1. Holders(u)' \subseteq Holders(u)
    BY <1>3, <1>8 DEF Holders, Asks, Holding
  <2>2. \A s \in Holders(u)' : request'[s].pc \in Before => request[s].pc \in Before
    BY <1>3, <1>8 DEF Holders, Asks, Before
  <2> QED
    BY <1>6, <1>8, <2>1, <2>2 DEF Asks
<1>9. CASE Settles(r)
  <2>1. Holders(u)' = Holders(u) \ {r}
    BY <1>3, <1>9 DEF Holders, Settles, Holding
  <2>2. CASE u = w
    <3>1. r \in Holders(u)
      BY <1>9, <2>2 DEF Holders, Settles, Holding
    <3>2. Holders(u)' = {}
      BY <1>6, <2>1, <3>1
    <3> QED
      BY <1>6, <1>9, <2>2, <3>2 DEF Settles
  <2>3. CASE u # w
    <3>1. claim'[u] = claim[u]
      BY <1>2, <1>9, <2>3 DEF Settles
    <3>2. \A s \in Holders(u)' : s \in Holders(u) /\ request'[s] = request[s]
      BY <1>3, <2>1 DEF Holders
    <3> QED
      BY <1>6, <3>1, <3>2
  <2> QED
    BY <2>2, <2>3
<1>10. ASSUME Inserts(r) \/ Leases(r), u # w
       PROVE  /\ Holders(u)' = Holders(u) /\ claim'[u] = claim[u]
              /\ \A s \in Holders(u) : request'[s] = request[s]
  <2>1. w \in Account /\ claim'[u] = claim[u] /\ request'[r].ask = q.ask
    BY <1>2, <1>10 DEF Inserts, Leases
  <2> QED
    BY <1>3, <1>10, <2>1 DEF Holders
<1>11. CASE Inserts(r)
  <2>1. CASE u = w
    <3>1. Holders(u) = {}
      BY <1>4, <1>11, <2>1 DEF Inserts
    <3>2. Holders(u)' \subseteq {r}
      BY <1>3, <3>1 DEF Holders
    <3> QED
      BY <1>2, <1>11, <2>1, <3>2 DEF Inserts
  <2>2. CASE u # w
    BY <1>6, <1>10, <1>11, <2>2
  <2> QED
    BY <2>1, <2>2
<1>12. CASE Leases(r)
  <2>1. CASE u = w
    <3>1. Holders(u) = {}
      BY <1>1, <1>12, <2>1 DEF Leases
    <3>2. Holders(u)' \subseteq {r}
      BY <1>3, <3>1 DEF Holders
    <3>3. claim[u].attempts < MaxBuilds
      BY <1>12, <2>1 DEF Leases, Matches, RequestInv, RequestOK, LeaseOK
    <3>4. claim[u] \in Claim /\ claim[u].attempts \in Nat
      BY <1>2, <1>12, <2>1 DEF Leases, Matches, Claim
    <3> QED
      BY SMTT(30), <1>2, <1>12, <2>1, <3>2, <3>3, <3>4 DEF Leases
  <2>2. CASE u # w
    BY <1>6, <1>10, <1>12, <2>2
  <2> QED
    BY <2>1, <2>2
<1>13. CASE Attempts(r)
  <2>1. Holders(u)' = Holders(u)
    BY <1>3, <1>13 DEF Holders, Attempts, Holding
  <2>2. CASE u = w
    <3>1. r \in Holders(u) /\ q.pc \in Before
      BY <1>13, <2>2 DEF Holders, Attempts, Holding, Before
    <3>2. Holders(u)' = {r}
      BY <1>6, <2>1, <3>1
    <3>3. claim[u].attempts < MaxBuilds /\ claim[u].attempts \in Nat
      BY <1>4, <1>6, <3>1 DEF Claim
    <3>4. q.held.attempts = claim[u].attempts
      BY <1>13, <2>2 DEF Attempts, Matches, RequestInv, RequestOK, HeldOK
    <3>5. /\ claim'[u].state = "pending" /\ claim'[u].attempts <= MaxBuilds
          /\ request'[r].pc \notin Before
      BY <1>2, <1>13, <2>2, <3>3, <3>4 DEF Attempts, Before
    <3> QED
      BY <3>2, <3>5
  <2>3. CASE u # w
    <3>1. claim'[u] = claim[u]
      BY <1>2, <1>13, <2>3 DEF Attempts
    <3>2. r \notin Holders(u)
      BY <2>3 DEF Holders
    <3> QED
      BY <1>3, <1>6, <2>1, <3>1, <3>2 DEF Holders
  <2> QED
    BY <2>2, <2>3
<1> QED
  BY <1>7, <1>8, <1>9, <1>11, <1>12, <1>13 DEF Kinds

-----------------------------------------------------------------------------
(* Builds. *)

\* Requests that are counted on the claim and have not asked the provider yet.
Trying(u) == {r \in Request : request[r].pc = "attempted" /\ request[r].ask.user = u}

\* Every call of the provider, made or about to be made, is counted on the claim.
CountInv == \A u \in account :
  /\ claim[u] = None => builds[u] = 0
  /\ claim[u] # None => builds[u] + Cardinality(Trying(u)) <= claim[u].attempts

LEMMA TryingFinite ==
  ASSUME NEW u
  PROVE  IsFiniteSet(Trying(u)) /\ Cardinality(Trying(u)) \in Nat
<1>1. Trying(u) \subseteq Request
  BY DEF Trying
<1> QED
  BY <1>1, PreviewAssumption, FS_Subset, FS_CardinalityType

\* How the count changes with the requests.
LEMMA FewerTrying ==
  ASSUME NEW u, NEW S, S \subseteq Trying(u)
  PROVE  Cardinality(S) \in Nat /\ Cardinality(S) <= Cardinality(Trying(u))
BY TryingFinite, FS_Subset, FS_CardinalityType

LEMMA StepCount ==
  ASSUME BaseInv, RequestInv, CountInv, NEW r \in Request, Moved(r), Kinds(r), UNCHANGED account
  PROVE  CountInv'
<1> DEFINE q == request[r]
           w == q.ask.user
<1>1. SUFFICES ASSUME NEW u \in account
               PROVE  /\ claim'[u] = None => builds'[u] = 0
                      /\ claim'[u] # None =>
                           builds'[u] + Cardinality(Trying(u)') <= claim'[u].attempts
  BY DEF CountInv
<1> DEFINE old == Trying(u)
           new == Trying(u)'
<1>2. /\ u \in Account /\ builds \in [Account -> Nat] /\ builds[u] \in Nat
      /\ claim[u] # None => claim[u] \in Claim /\ claim[u].attempts \in Nat
  BY DEF BaseInv, TypeOK, Claim
<1>3. \A s \in Request \ {r} : request'[s] = request[s]
  BY DEF Moved
<1>4. /\ claim[u] = None => builds[u] = 0
      /\ claim[u] # None => builds[u] + Cardinality(old) <= claim[u].attempts
  BY DEF CountInv
<1>5. IsFiniteSet(old) /\ Cardinality(old) \in Nat
  BY TryingFinite
<1>6. ASSUME new \subseteq old, builds'[u] = builds[u], claim[u] # None,
             claim'[u] # None, claim'[u].attempts = claim[u].attempts
      PROVE  /\ claim'[u] = None => builds'[u] = 0
             /\ claim'[u] # None => builds'[u] + Cardinality(new) <= claim'[u].attempts
  <2>1. Cardinality(new) \in Nat /\ Cardinality(new) <= Cardinality(old)
    BY <1>6, FewerTrying
  <2> QED
    BY <1>2, <1>4, <1>5, <1>6, <2>1
<1>7. ASSUME claim'[u] = claim[u], builds'[u] = builds[u], new \subseteq old
      PROVE  /\ claim'[u] = None => builds'[u] = 0
             /\ claim'[u] # None => builds'[u] + Cardinality(new) <= claim'[u].attempts
  <2>1. CASE claim[u] = None
    BY <1>4, <1>7, <2>1
  <2>2. CASE claim[u] # None
    BY <1>6, <1>7, <2>2
  <2> QED
    BY <2>1, <2>2
<1>8. CASE Proceeds(r)
  <2>1. new \subseteq old
    BY <1>3, <1>8 DEF Trying, Proceeds
  <2> QED
    BY <1>7, <1>8, <2>1 DEF Proceeds
<1>9. CASE Asks(r)
  <2>1. CASE u = w
    <3>1. r \in old /\ new = old \ {r}
      BY <1>3, <1>9, <2>1 DEF Trying, Asks
    <3>2. Cardinality(new) = Cardinality(old) - 1
      BY <1>5, <3>1, FS_RemoveElement
    <3>3. builds'[u] = builds[u] + 1 /\ claim'[u] = claim[u] /\ claim[u] # None
      BY <1>2, <1>9, <2>1 DEF Asks
    <3> QED
      BY <1>2, <1>4, <1>5, <3>2, <3>3
  <2>2. CASE u # w
    <3>1. new \subseteq old /\ claim'[u] = claim[u] /\ builds'[u] = builds[u]
      BY <1>2, <1>3, <1>9, <2>2 DEF Trying, Asks
    <3> QED
      BY <1>7, <3>1
  <2> QED
    BY <2>1, <2>2
<1>10. CASE Settles(r) \/ Leases(r)
  <2>1. new \subseteq old /\ builds'[u] = builds[u]
    BY <1>3, <1>10 DEF Trying, Settles, Leases
  <2>2. CASE u = w
    <3>1. /\ claim[u] # None /\ claim'[u] # None
          /\ claim'[u].attempts = claim[u].attempts
      BY <1>10, <2>2 DEF Settles, Leases, Matches, Written
    <3> QED
      BY <1>6, <2>1, <3>1
  <2>3. CASE u # w
    <3>1. claim'[u] = claim[u]
      BY <1>2, <1>10, <2>3 DEF Settles, Leases
    <3> QED
      BY <1>7, <2>1, <3>1
  <2> QED
    BY <2>2, <2>3
<1>11. CASE Inserts(r)
  <2>1. new \subseteq old /\ builds'[u] = builds[u]
    BY <1>3, <1>11 DEF Trying, Inserts
  <2>2. CASE u = w
    <3>1. old = {}
      BY <1>11, <2>2 DEF Trying, Inserts, RequestInv, RequestOK, HoldOK, Working, Holding
    <3>2. Cardinality(new) = 0
      BY <2>1, <3>1, FS_EmptySet
    <3>3. builds'[u] = 0 /\ claim'[u].attempts = 0
      BY <1>4, <1>11, <2>1, <2>2 DEF Inserts
    <3> QED
      BY <3>2, <3>3
  <2>3. CASE u # w
    <3>1. claim'[u] = claim[u]
      BY <1>2, <1>11, <2>3 DEF Inserts
    <3> QED
      BY <1>7, <2>1, <3>1
  <2> QED
    BY <2>2, <2>3
<1>12. CASE Attempts(r)
  <2>1. CASE u = w
    <3>1. r \notin old /\ new = old \cup {r}
      BY <1>3, <1>12, <2>1 DEF Trying, Attempts
    <3>2. Cardinality(new) = Cardinality(old) + 1
      BY <1>5, <3>1, FS_AddElement
    <3>3. claim[u] # None /\ claim'[u] # None /\ builds'[u] = builds[u]
      BY <1>12, <2>1 DEF Attempts, Matches, Written
    <3>4. q.held.attempts = claim[u].attempts
      BY <1>12, <2>1 DEF Attempts, Matches, RequestInv, RequestOK, HeldOK
    <3>5. claim'[u].attempts = claim[u].attempts + 1
      BY <1>12, <2>1, <3>4 DEF Attempts
    <3> QED
      BY <1>2, <1>4, <1>5, <3>2, <3>3, <3>5
  <2>2. CASE u # w
    <3>1. new \subseteq old /\ claim'[u] = claim[u] /\ builds'[u] = builds[u]
      BY <1>2, <1>3, <1>12, <2>2 DEF Trying, Attempts
    <3> QED
      BY <1>7, <3>1
  <2> QED
    BY <2>1, <2>2
<1> QED
  BY <1>8, <1>9, <1>10, <1>11, <1>12 DEF Kinds

-----------------------------------------------------------------------------
(* The theorems. *)

PreviewInv ==
  BaseInv /\ TriesInv /\ RequestInv /\ StoreInv /\ SoleInv /\ CountInv

LEMMA StepPreview ==
  ASSUME PreviewInv, NEW r \in Request, Step(r)
  PROVE  RequestInv' /\ StoreInv' /\ SoleInv' /\ CountInv'
<1>1. BaseInv /\ TriesInv /\ RequestInv /\ StoreInv /\ SoleInv /\ CountInv /\ RequestOK(r)
  BY DEF PreviewInv, RequestInv
<1>2. Moved(r) /\ RowsMove /\ UNCHANGED account /\ Kinds(r)
  BY <1>1, StepMoves, StepAccount, StepKinds
<1>3. Evolves
  BY <1>1, <1>2 DEF Evolves, RowsMove, BaseInv, TypeOK
<1>4. RequestInv'
  <2>1. RequestOK(r)'
    BY <1>1, MoverOK
  <2>2. \A s \in Request \ {r} : RequestOK(s)'
    BY <1>1, <1>2, <1>3, OthersOK DEF Moved, RequestInv
  <2> QED
    BY <2>1, <2>2 DEF RequestInv
<1> QED
  BY <1>1, <1>2, <1>4, StepStore, StepSole, StepCount

\* A deleted account takes its claim along; nothing is said of it any more.
LEMMA DeletePreview ==
  ASSUME PreviewInv, NEW u \in Account, DeleteUser(u)
  PROVE  RequestInv' /\ StoreInv' /\ SoleInv' /\ CountInv'
<1>1. /\ BaseInv /\ TypeOK /\ RequestInv /\ StoreInv /\ SoleInv /\ CountInv
      /\ account \subseteq Account
  BY DEF PreviewInv, BaseInv, TypeOK
<1>2. /\ UNCHANGED request /\ account' = account \ {u} /\ claim'[u] = None
      /\ \A v \in Account \ {u} : claim'[v] = claim[v]
  BY <1>1, DeleteMoves
<1>3. UNCHANGED <<results, builds, served, overtaken>>
  BY DEF DeleteUser, cacheVars, history
<1>4. Evolves
  BY <1>1, <1>2 DEF Evolves
<1>5. RequestInv'
  BY <1>1, <1>2, <1>4, OthersOK DEF RequestInv
<1>6. StoreInv'
  BY <1>1, <1>2, <1>3 DEF StoreInv, OneFlight, NeverFalselyCalm, SharedInv
<1>7. SoleInv'
  BY <1>1, <1>2, <1>3 DEF SoleInv, Holders
<1>8. CountInv'
  BY <1>1, <1>2, <1>3 DEF CountInv, Trying
<1> QED
  BY <1>5, <1>6, <1>7, <1>8

LEMMA PreviewStep ==
  ASSUME PreviewInv, [Next]_vars
  PROVE  PreviewInv'
<1>1. BaseInv' /\ TriesInv'
  BY BaseStep DEF PreviewInv
<1>2. ASSUME UNCHANGED <<account, claim, request, results, builds, served, overtaken>>
      PROVE  RequestInv' /\ StoreInv' /\ SoleInv' /\ CountInv'
  BY SMTT(30), <1>2 DEF PreviewInv, RequestInv, RequestOK, HoldOK, LeaseOK, HeldOK, EnvelopeOK, StoreInv,
              OneFlight, NeverFalselyCalm, SharedInv, SoleInv, Holders, CountInv, Trying
<1>3. Tick \/ UNCHANGED vars => UNCHANGED <<account, claim, request, results, builds, served,
                                           overtaken>>
  BY DEF Tick, vars, cacheVars, budgetVars, history
<1>4. RequestInv' /\ StoreInv' /\ SoleInv' /\ CountInv'
  BY <1>2, <1>3, StepPreview, DeletePreview DEF Next, Rest
<1> QED
  BY <1>1, <1>4 DEF PreviewInv

LEMMA PreviewInit ==
  ASSUME Init
  PROVE  PreviewInv
<1>1. BaseInv /\ TriesInv
  BY BaseInit
<1>2. RequestInv
  BY DEF Init, RequestInv, RequestOK, HoldOK, LeaseOK, HeldOK, EnvelopeOK, Working, Holding
<1>3. StoreInv
  BY DEF Init, StoreInv, OneFlight, NeverFalselyCalm, SharedInv
<1>4. SoleInv
  BY DEF Init, SoleInv, Holders, Holding
<1>5. CountInv
  BY DEF Init, CountInv
<1> QED
  BY <1>1, <1>2, <1>3, <1>4, <1>5 DEF PreviewInv

LEMMA PreviewAlways == Spec => []PreviewInv
<1>1. Init => PreviewInv
  BY PreviewInit
<1>2. PreviewInv /\ [Next]_vars => PreviewInv'
  BY PreviewStep
<1> QED
  BY <1>1, <1>2, PTL DEF Spec

\* All results an account was ever given are of the one flight its claim names.
THEOREM OneFlightCorrect == Spec => []OneFlight
<1>1. PreviewInv => OneFlight
  BY DEF PreviewInv, StoreInv
<1> QED
  BY <1>1, PreviewAlways, PTL

\* Nothing that lacks an input is stored as calm, or shared at all.
THEOREM CalmCorrect == Spec => []NeverFalselyCalm
<1>1. PreviewInv => NeverFalselyCalm
  BY DEF PreviewInv, StoreInv
<1> QED
  BY <1>1, PreviewAlways, PTL

\* Every call of the provider is counted on the claim, and without an overtaken lease
\* there are at most MaxBuilds.
THEOREM TwoBuildsCorrect == Spec => []TwoBuilds
<1>1. PreviewInv => TwoBuilds
  <2> SUFFICES ASSUME PreviewInv, NEW u \in account
               PROVE  /\ builds[u] > 0 => claim[u] # None /\ builds[u] <= claim[u].attempts
                      /\ u \notin overtaken => builds[u] <= MaxBuilds
    BY DEF TwoBuilds
  <2>1. /\ builds[u] \in Nat /\ MaxBuilds \in Nat
        /\ claim[u] # None => claim[u].attempts \in Nat
    BY PreviewAssumption DEF PreviewInv, BaseInv, TypeOK, Claim
  <2>2. /\ claim[u] = None => builds[u] = 0
        /\ claim[u] # None => builds[u] + Cardinality(Trying(u)) <= claim[u].attempts
    BY DEF PreviewInv, CountInv
  <2>3. Cardinality(Trying(u)) \in Nat
    BY TryingFinite
  <2>4. u \notin overtaken /\ claim[u] # None => claim[u].attempts <= MaxBuilds
    BY DEF PreviewInv, SoleInv
  <2> QED
    BY <2>1, <2>2, <2>3, <2>4
<1> QED
  BY <1>1, PreviewAlways, PTL

\* A final claim is only changed when a lease of it was overtaken.
THEOREM FinalCorrect == Spec => FinalUnlessOvertaken
<1>1. PreviewInv /\ [Next]_vars => [KeptFor((account \cap account') \ overtaken)]_vars
  <2> SUFFICES ASSUME PreviewInv, Next,
                      NEW u \in account, u \in account', u \notin overtaken, claim[u] # None,
                      claim[u].state \in {"ready", "insufficient_data"}
               PROVE  claim'[u] = claim[u]
    BY DEF KeptFor
  <2>1. u \in Account /\ BaseInv /\ TypeOK /\ RequestInv /\ SoleInv
    BY DEF PreviewInv, BaseInv, TypeOK
  <2>2. Holders(u) = {}
    BY <2>1 DEF SoleInv
  <2>3. ASSUME NEW r \in Request, Step(r)
        PROVE  claim'[u] = claim[u]
    <3>1. Kinds(r)
      BY <2>1, <2>3, StepKinds
    <3>2. CASE request[r].ask.user = u
      <4>1. request[r].pc \notin Holding
        BY <2>2, <3>2 DEF Holders
      <4>2. ~Leases(r)
        BY <2>1, <3>2 DEF Leases, Matches, RequestInv, RequestOK, LeaseOK, FinalStates
      <4> QED
        BY <3>1, <3>2, <4>1, <4>2
        DEF Kinds, Inserts, Attempts, Settles, Asks, Proceeds, Holding
    <3>3. CASE request[r].ask.user # u
      BY <2>1, <3>1, <3>3 DEF Kinds, Inserts, Leases, Attempts, Settles, Asks, Proceeds
    <3> QED
      BY <3>2, <3>3
  <2>4. ASSUME NEW v \in Account, DeleteUser(v)
        PROVE  claim'[u] = claim[u]
    BY <2>1, <2>4, DeleteMoves
  <2>5. Tick \/ Rest => claim'[u] = claim[u]
    BY DEF Tick, Rest, vars
  <2> QED
    BY <2>3, <2>4, <2>5 DEF Next
<1> QED
  BY <1>1, PreviewAlways, PTL DEF Spec, FinalUnlessOvertaken
=============================================================================
