----------------------------- MODULE FlightProofs -----------------------------
(***************************************************************************)
(* FlightAlerts, SearchFailures, FlightShare, FlightStore and              *)
(* FlightSearch, for every value of their constants.                       *)
(*                                                                         *)
(* FlightAlerts. That a notice is what users were told needs what a        *)
(* handler under way is about to say (TellingInv). That no drift goes      *)
(* unannounced needs the ranks: a change of ten minutes always makes an    *)
(* alert, and one that is passed over was outranked by what was sent       *)
(* (NearInv).                                                              *)
(*                                                                         *)
(* SearchFailures. A report answers what it has decrypted of the samples   *)
(* it selected; ReadInv accounts for each one, decrypted, left, or dead. A *)
(* sweep records a success right after it has seen nothing expired.        *)
(*                                                                         *)
(* FlightShare. A request that is about to answer has seen to it that the  *)
(* hash is current (AnswerInv), and what it has found stays (FoundInv).    *)
(*                                                                         *)
(* FlightStore. A request on the map knows what became of the candidates   *)
(* before the one it settles (MapInv), and what it has in hand is stored   *)
(* or its own (HandInv). That the row it takes of a listing it has stored  *)
(* fits the flight it means is a matter of points: that flight is among    *)
(* the rows, and only the aircraft that was picked outweighs its number    *)
(* (StoredIs).                                                             *)
(*                                                                         *)
(* FlightSearch. Of each physical flight there is a best listing (BestIs), *)
(* which weighs by its status before anything else (ScoreIs) and has a     *)
(* place in the order (RankedIs). A request accounts for the days it has   *)
(* asked (Accounts).                                                       *)
(***************************************************************************)
EXTENDS SearchFailures, FlightAlerts, FlightShare, FlightStore, FlightSearch, FiniteSetTheorems, WellFoundedInduction, TLAPS

-----------------------------------------------------------------------------
(* FlightAlerts. *)

\* A set of numbers with a bound has a greatest element.
LEMMA MaxOfBounded ==
  ASSUME NEW S \in SUBSET Nat, S # {}, NEW b \in Nat, \A x \in S : x <= b
  PROVE  Max(S) \in S /\ \A y \in S : Max(S) >= y
<1> DEFINE T == {b - x : x \in S}
<1>1. T \subseteq Nat /\ T # {}
  <2>1. T \subseteq Nat
    OBVIOUS
  <2>2. PICK x \in S : TRUE
    OBVIOUS
  <2>3. b - x \in T
    OBVIOUS
  <2> QED BY <2>1, <2>3
<1>2. PICK m \in T : \A y \in T : ~(<<y, m>> \in OpToRel(<, Nat))
  <2> HIDE DEF T
  <2> QED BY <1>1, WFMin, NatLessThanWellFounded
<1>3. \A y \in T : ~(y < m)
  <2> HIDE DEF T
  <2> QED BY <1>1, <1>2 DEF OpToRel
<1>4. PICK x \in S : m = b - x
  BY <1>2
<1>5. \A y \in S : x >= y
  BY <1>3, <1>4
<1> QED
  BY <1>5 DEF Max

AlertTypes ==
  /\ IsFlight(flightRow)
  /\ \A e \in End : notice[e] \in Int \cup {None}
  /\ notice = [e \in End |-> notice[e]]
  /\ told = [e \in End |-> told[e]]
  /\ alerter = [w \in AlertWorker |-> alerter[w]]
  /\ \A w \in AlertWorker : alerter[w].pc = "read" =>
       /\ IsFlight(alerter[w].row) /\ IsFlight(alerter[w].snap)
       /\ \A e \in End : alerter[w].notices[e] \in Int \cup {None}
       /\ alerter[w].notices = [e \in End |-> alerter[w].notices[e]]

\* A worker that is about to tell users the time of an end.
Telling(w, e) == alerter[w].pc = "send" /\ alerter[w].alert.kind = "time" /\ alerter[w].alert.end = e

\* As long as requests do not overlap and alerts arrive, at most one worker has an alert to
\* send, and the notice of an end is what users were told, or are about to be.
TellingInv ==
  ~raced =>
    /\ \A v, w \in AlertWorker : alerter[v].pc = "send" /\ alerter[w].pc = "send" => v = w
    /\ \A e \in End :
         /\ \A w \in AlertWorker : Telling(w, e) => alerter[w].time = notice[e]
         /\ (\A w \in AlertWorker : ~Telling(w, e)) => told[e] = notice[e]

LEMMA TellingTruthful == TellingInv => NoticeTruthful
BY DEF TellingInv, NoticeTruthful, Telling, Busy

LEMMA ExpectedIs ==
  ASSUME NEW x, IsEnd(x)
  PROVE  Expected(x) \in Int \cup {None}
BY DEF Expected, IsEnd, TimeField

LEMMA FlightEnds ==
  ASSUME NEW f, IsFlight(f), NEW e \in End
  PROVE  IsEnd(f[e])
BY DEF IsFlight, End

LEMMA KnownIs ==
  ASSUME NEW base, IsFlight(base), NEW e \in End, NEW notices, notices[e] \in Int \cup {None}
  PROVE  Known(base, notices, e) \in Int \cup {None}
BY FlightEnds, ExpectedIs DEF Known

LEMMA NotifiedIs ==
  ASSUME NEW base, IsFlight(base), NEW snap, IsFlight(snap), NEW e \in End, NEW notices,
         notices[e] \in Int \cup {None}, NEW alert
  PROVE  Notified(base, snap, notices, e, alert) \in Int \cup {None}
BY KnownIs, FlightEnds, ExpectedIs DEF Notified

\* Writing the columns of an end keeps it one.
LEMMA EndWritten ==
  ASSUME NEW x, NEW y, NEW z, IsEnd(x), IsEnd(z),
         NEW new, new = [c \in TimeField \cup Detail |-> IF z[c] = None THEN x[c] ELSE Column(x[c], y[c], z[c])]
  PROVE  IsEnd(new)
BY DEF IsEnd, Column

LEMMA UpdatedIs ==
  ASSUME NEW base, NEW copy, NEW snap, IsFlight(base), IsFlight(snap)
  PROVE  /\ IsFlight(Updated(base, copy, snap))
         /\ \A e \in End : \A c \in TimeField \cup Detail :
              Updated(base, copy, snap)[e][c] = IF snap[e][c] = None THEN base[e][c]
                                               ELSE Column(base[e][c], copy[e][c], snap[e][c])
<1> DEFINE dep == [c \in TimeField \cup Detail |-> IF snap.departure[c] = None THEN base.departure[c]
                     ELSE Column(base.departure[c], copy.departure[c], snap.departure[c])]
           arr == [c \in TimeField \cup Detail |-> IF snap.arrival[c] = None THEN base.arrival[c]
                     ELSE Column(base.arrival[c], copy.arrival[c], snap.arrival[c])]
           status == Column(base.status, copy.status, snap.status)
           aircraft == Column(base.aircraft, copy.aircraft, snap.aircraft)
<1>1. IsEnd(dep) /\ IsEnd(arr)
  BY EndWritten DEF IsFlight
<1>2. status \in DOMAIN StatusRank
  BY DEF Column, IsFlight
<1>3. Updated(base, copy, snap) = [base EXCEPT !.status = status, !.aircraft = aircraft, !.departure = dep, !.arrival = arr]
  BY DEF Updated
<1>4. \A c \in TimeField \cup Detail :
        /\ dep[c] = IF snap["departure"][c] = None THEN base["departure"][c]
                    ELSE Column(base["departure"][c], copy["departure"][c], snap["departure"][c])
        /\ arr[c] = IF snap["arrival"][c] = None THEN base["arrival"][c]
                    ELSE Column(base["arrival"][c], copy["arrival"][c], snap["arrival"][c])
  OBVIOUS
<1> HIDE DEF dep, arr, status, aircraft
<1>5. base = [status |-> base.status, aircraft |-> base.aircraft, departure |-> base.departure, arrival |-> base.arrival]
  BY DEF IsFlight
<1>6. Updated(base, copy, snap) = [status |-> status, aircraft |-> aircraft, departure |-> dep, arrival |-> arr]
  BY <1>3, <1>5
<1>7. IsFlight(Updated(base, copy, snap))
  BY <1>1, <1>2, <1>6 DEF IsFlight
<1>8. Updated(base, copy, snap)["departure"] = dep /\ Updated(base, copy, snap)["arrival"] = arr
  BY <1>6
<1> QED BY <1>4, <1>7, <1>8 DEF End

\* What a commit writes that is not rolled back.
Commits(w, alert, new, alone) ==
  /\ alerter[w].pc = "read"
  /\ alert = Chosen(Alerts(alerter[w].row, alerter[w].snap, alerter[w].notices))
  /\ new = [e \in End |-> Notified(alerter[w].row, alerter[w].snap, alerter[w].notices, e, alert)]
  /\ alone = (alerter[w].row = flightRow /\ alerter[w].notices = notice)
  /\ flightRow' = Updated(flightRow, alerter[w].row, alerter[w].snap)
  /\ notice' = [e \in End |-> Column(notice[e], alerter[w].notices[e], new[e])]
  /\ alerter' = [alerter EXCEPT ![w] =
       IF alert = NoAlert THEN AtRest
       ELSE [pc |-> "send", alert |-> alert, time |-> IF alert.kind = "time" THEN new[alert.end] ELSE None]]
  /\ told' = [e \in End |-> IF told[e] = None /\ ~(alert.kind = "time" /\ alert.end = e)
                            THEN new[e] ELSE told[e]]
  /\ chosen' = alert
  /\ latest' = alerter[w].snap
  /\ lone' = alone
  /\ raced' = (raced \/ ~alone \/ \E x \in AlertWorker \ {w} : alerter[x].pc = "send")

LEMMA CommitOrRollback ==
  ASSUME NEW w \in AlertWorker, HandleCommit(w)
  PROVE  \/ /\ alerter[w].pc = "read" /\ alerter' = [alerter EXCEPT ![w] = AtRest]
            /\ UNCHANGED <<flightRow, notice, told, chosen, latest, lone, raced>>
         \/ \E alert, new, alone : Commits(w, alert, new, alone)
<1> DEFINE alert == Chosen(Alerts(alerter[w].row, alerter[w].snap, alerter[w].notices))
           new == [e \in End |-> Notified(alerter[w].row, alerter[w].snap, alerter[w].notices, e, alert)]
           alone == alerter[w].row = flightRow /\ alerter[w].notices = notice
<1>1. CASE \E e \in End : alerter[w].notices[e] = None /\ new[e] # None /\ notice[e] # None
  BY <1>1 DEF HandleCommit
<1>2. CASE ~\E e \in End : alerter[w].notices[e] = None /\ new[e] # None /\ notice[e] # None
  <2>1. Commits(w, alert, new, alone)
    BY <1>2 DEF HandleCommit, Commits
  <2> QED BY <2>1
<1> QED BY <1>1, <1>2

LEMMA CommitTypes ==
  ASSUME AlertTypes, NEW w \in AlertWorker, NEW alert, NEW new, NEW alone, Commits(w, alert, new, alone)
  PROVE  /\ AlertTypes'
         /\ \A e \in End : new[e] \in Int \cup {None} /\ notice'[e] = Column(notice[e], alerter[w].notices[e], new[e])
<1>1. /\ IsFlight(alerter[w].row) /\ IsFlight(alerter[w].snap)
      /\ \A e \in End : alerter[w].notices[e] \in Int \cup {None}
  BY DEF AlertTypes, Commits
<1>2. \A e \in End : new[e] \in Int \cup {None} /\ notice'[e] = Column(notice[e], alerter[w].notices[e], new[e])
  BY <1>1, NotifiedIs DEF Commits
<1>3. IsFlight(flightRow')
  BY <1>1, UpdatedIs DEF Commits, AlertTypes
<1>4. \A e \in End : notice'[e] \in Int \cup {None}
  BY <1>2 DEF Column, AlertTypes
<1>5. notice' = [e \in End |-> notice'[e]] /\ told' = [e \in End |-> told'[e]]
  BY DEF Commits
<1>6. \E x : x.pc # "read" /\ alerter' = [alerter EXCEPT ![w] = x]
  <2> DEFINE x == IF alert = NoAlert THEN AtRest
                  ELSE [pc |-> "send", alert |-> alert, time |-> IF alert.kind = "time" THEN new[alert.end] ELSE None]
  <2>1. x.pc # "read"
    BY DEF AtRest
  <2>2. alerter' = [alerter EXCEPT ![w] = x]
    BY DEF Commits
  <2> QED BY <2>1, <2>2
<1>7. alerter' = [v \in AlertWorker |-> alerter'[v]]
      /\ \A v \in AlertWorker : alerter'[v].pc = "read" => alerter'[v] = alerter[v]
  BY <1>6 DEF AlertTypes
<1> QED BY <1>2, <1>3, <1>4, <1>5, <1>7 DEF AlertTypes

LEMMA AlertTypesKept ==
  ASSUME AlertTypes, [AlertNext]_alertVars
  PROVE  AlertTypes'
<1>1. ASSUME NEW w \in AlertWorker, NEW x, alerter' = [alerter EXCEPT ![w] = x],
             x.pc = "read" => /\ IsFlight(x.row) /\ IsFlight(x.snap)
                              /\ \A e \in End : x.notices[e] \in Int \cup {None}
                              /\ x.notices = [e \in End |-> x.notices[e]],
             UNCHANGED <<flightRow, notice>>, told' = [e \in End |-> told'[e]]
      PROVE  AlertTypes'
  <2>1. \A v \in AlertWorker : alerter'[v] = IF v = w THEN x ELSE alerter[v]
    BY <1>1 DEF AlertTypes
  <2>2. alerter' = [v \in AlertWorker |-> alerter'[v]]
    BY <1>1 DEF AlertTypes
  <2> QED BY <1>1, <2>1, <2>2 DEF AlertTypes
<1>2. told = [e \in End |-> told[e]]
  BY DEF AlertTypes
<1>3. ASSUME NEW w \in AlertWorker, NEW s \in FlightSnapshot, HandleRead(w, s)
      PROVE  AlertTypes'
  <2> DEFINE x == [pc |-> "read", snap |-> s, row |-> flightRow, notices |-> notice]
  <2>1. IsFlight(s)
    BY AlertAssumption
  <2>2. /\ IsFlight(x.row) /\ IsFlight(x.snap)
        /\ \A e \in End : x.notices[e] \in Int \cup {None}
        /\ x.notices = [e \in End |-> x.notices[e]]
    BY <2>1 DEF AlertTypes
  <2>3. alerter' = [alerter EXCEPT ![w] = x] /\ UNCHANGED <<flightRow, notice, told>>
    BY <1>3 DEF HandleRead
  <2> HIDE DEF x
  <2> QED BY <1>1, <1>2, <2>2, <2>3
<1>4. AtRest.pc # "read"
  BY DEF AtRest
<1>5. ASSUME NEW w \in AlertWorker, HandleCommit(w)
      PROVE  AlertTypes'
  BY <1>1, <1>2, <1>4, <1>5, CommitOrRollback, CommitTypes
<1>6. ASSUME NEW w \in AlertWorker, SendAlert(w)
      PROVE  AlertTypes'
  <2>1. told' = [e \in End |-> told'[e]]
    BY <1>2, <1>6 DEF SendAlert
  <2> QED BY <1>1, <1>4, <1>6, <2>1 DEF SendAlert
<1>7. ASSUME NEW w \in AlertWorker, HandleFail(w)
      PROVE  AlertTypes'
  BY <1>1, <1>2, <1>4, <1>7 DEF HandleFail
<1>8. CASE ResetBadge
  BY <1>8 DEF ResetBadge, AlertTypes
<1>9. CASE UNCHANGED alertVars
  BY <1>9 DEF alertVars, AlertTypes
<1> QED BY <1>3, <1>5, <1>6, <1>7, <1>8, <1>9 DEF AlertNext

\* A time that is not told leaves the notice, or is its first one.
LEMMA UntoldTime ==
  ASSUME NEW base, NEW snap, NEW notices, NEW e \in End, NEW alert, ~(alert.kind = "time" /\ alert.end = e)
  PROVE  notices[e] # None => Notified(base, snap, notices, e, alert) = notices[e]
BY DEF Notified, Known

LEMMA TellingKept ==
  ASSUME AlertTypes, TellingInv, [AlertNext]_alertVars
  PROVE  TellingInv'
<1>1. ASSUME NEW w \in AlertWorker, alerter' = [alerter EXCEPT ![w] = AtRest], UNCHANGED <<notice, told>>,
             alerter[w].pc # "send" \/ raced', raced => raced'
      PROVE  TellingInv'
  <2>1. \A v \in AlertWorker : alerter'[v] = IF v = w THEN AtRest ELSE alerter[v]
    BY <1>1 DEF AlertTypes
  <2>2. AtRest.pc # "send"
    BY DEF AtRest
  <2> QED BY <1>1, <2>1, <2>2 DEF TellingInv, Telling
<1>2. ASSUME NEW w \in AlertWorker, NEW s \in FlightSnapshot, HandleRead(w, s)
      PROVE  TellingInv'
  <2> DEFINE x == [pc |-> "read", snap |-> s, row |-> flightRow, notices |-> notice]
  <2>1. alerter[w] = AtRest /\ alerter' = [alerter EXCEPT ![w] = x] /\ UNCHANGED <<notice, told, raced>>
    BY <1>2 DEF HandleRead
  <2>2. x.pc # "send" /\ AtRest.pc # "send"
    BY DEF AtRest
  <2> HIDE DEF x
  <2>3. \A v \in AlertWorker : alerter'[v] = IF v = w THEN x ELSE alerter[v]
    BY <2>1 DEF AlertTypes
  <2> QED BY <2>1, <2>2, <2>3 DEF TellingInv, Telling
<1>3. ASSUME NEW w \in AlertWorker, NEW alert, NEW new, NEW alone, Commits(w, alert, new, alone)
      PROVE  TellingInv'
  <2> SUFFICES ASSUME ~raced'
               PROVE  TellingInv'
    BY DEF TellingInv
  <2>1. ~raced /\ alone /\ \A x \in AlertWorker \ {w} : alerter[x].pc # "send"
    BY <1>3 DEF Commits
  <2>2. alerter[w].notices = notice /\ alerter[w].pc = "read"
    BY <1>3, <2>1 DEF Commits
  <2> DEFINE x == IF alert = NoAlert THEN AtRest
                  ELSE [pc |-> "send", alert |-> alert, time |-> IF alert.kind = "time" THEN new[alert.end] ELSE None]
  <2>3. alerter' = [alerter EXCEPT ![w] = x]
    BY <1>3 DEF Commits
  <2>4. \A v \in AlertWorker : alerter'[v] = IF v = w THEN x ELSE alerter[v]
    <3> HIDE DEF x
    <3> QED BY <2>3 DEF AlertTypes
  <2>5. \A v \in AlertWorker : alerter[v].pc # "send"
    BY <2>1, <2>2
  <2>6. \A v \in AlertWorker : v # w => alerter'[v].pc # "send"
    BY <2>4, <2>5
  <2>7. \A e \in End : notice'[e] = new[e]
    BY <1>3, <2>2, CommitTypes DEF Column
  <2>8. \A e \in End : told[e] = notice[e]
    BY <2>1, <2>5 DEF TellingInv, Telling
  <2>9. ASSUME NEW e \in End, alert.kind = "time" /\ alert.end = e
        PROVE  Telling(w, e)' /\ alerter'[w].time = new[e]
    <3>1. alert # NoAlert
      BY <2>9 DEF NoAlert
    <3>2. alerter'[w] = [pc |-> "send", alert |-> alert, time |-> new[e]]
      BY <2>4, <2>9, <3>1
    <3> QED BY <2>9, <3>2 DEF Telling
  <2>10. ASSUME NEW e \in End, ~(alert.kind = "time" /\ alert.end = e)
         PROVE  ~Telling(w, e)' /\ told'[e] = new[e]
    <3>1. ~Telling(w, e)'
      BY <2>4, <2>10 DEF Telling, AtRest
    <3>2. told'[e] = IF told[e] = None THEN new[e] ELSE told[e]
      BY <1>3, <2>10 DEF Commits
    <3>3. notice[e] # None => new[e] = notice[e]
      BY <1>3, <2>2, <2>10, UntoldTime DEF Commits
    <3> QED BY <2>8, <3>1, <3>2, <3>3
  <2> HIDE DEF x
  <2>11. \A v \in AlertWorker, e \in End : v # w => ~Telling(v, e)'
    BY <2>6 DEF Telling
  <2>12. ASSUME NEW e \in End
         PROVE  /\ \A v \in AlertWorker : Telling(v, e)' => alerter'[v].time = notice'[e]
                /\ (\A v \in AlertWorker : ~Telling(v, e)') => told'[e] = notice'[e]
    BY <2>7, <2>9, <2>10, <2>11
  <2> QED BY <2>6, <2>12 DEF TellingInv
<1>4. ASSUME NEW w \in AlertWorker, HandleCommit(w)
      PROVE  TellingInv'
  BY <1>1, <1>3, <1>4, CommitOrRollback
<1>5. ASSUME NEW w \in AlertWorker, SendAlert(w)
      PROVE  TellingInv'
  <2> SUFFICES ASSUME ~raced
               PROVE  TellingInv'
    BY <1>5 DEF SendAlert, TellingInv
  <2>1. /\ alerter[w].pc = "send" /\ alerter' = [alerter EXCEPT ![w] = AtRest] /\ UNCHANGED <<notice, raced>>
        /\ told' = IF alerter[w].alert.kind = "time" THEN [told EXCEPT ![alerter[w].alert.end] = alerter[w].time] ELSE told
    BY <1>5 DEF SendAlert
  <2>2. \A v \in AlertWorker : alerter'[v] = IF v = w THEN AtRest ELSE alerter[v]
    BY <2>1 DEF AlertTypes
  <2>3. \A v \in AlertWorker : alerter'[v].pc # "send"
    BY <2>1, <2>2 DEF TellingInv, AtRest
  <2>4. ASSUME NEW e \in End
        PROVE  told'[e] = notice[e]
    <3>1. CASE Telling(w, e)
      BY <2>1, <3>1 DEF TellingInv, Telling, AlertTypes
    <3>2. CASE ~Telling(w, e)
      <4>1. told'[e] = told[e]
        BY <2>1, <3>2 DEF Telling, AlertTypes
      <4>2. \A v \in AlertWorker : ~Telling(v, e)
        BY <2>1, <3>2 DEF TellingInv, Telling
      <4> QED BY <4>1, <4>2 DEF TellingInv
    <3> QED BY <3>1, <3>2
  <2> QED BY <2>1, <2>3, <2>4 DEF TellingInv, Telling
<1>6. ASSUME NEW w \in AlertWorker, HandleFail(w)
      PROVE  TellingInv'
  BY <1>1, <1>6 DEF HandleFail
<1>7. CASE UNCHANGED alertVars \/ ResetBadge
  BY <1>7 DEF alertVars, ResetBadge, TellingInv, Telling
<1> QED BY <1>2, <1>4, <1>5, <1>6, <1>7 DEF AlertNext

LEMMA AlertInitially == AlertInit => AlertTypes /\ TellingInv
BY AlertAssumption DEF AlertInit, AlertTypes, TellingInv, Telling, AtRest

\* Flights, departures, alerts and what a handler has read keep their types
\* (services/apn/service.py).
THEOREM AlertTypeCorrect == AlertSpec => []AlertTypes
BY AlertInitially, AlertTypesKept, PTL DEF AlertSpec

\* FlightTimeNotice is what users were told last, as long as requests do not overlap and
\* alerts arrive.
THEOREM NoticeCorrect == AlertSpec => []NoticeTruthful
<1>1. AlertInit => TellingInv
  BY AlertInitially
<1>2. AlertTypes /\ TellingInv /\ [AlertNext]_alertVars => TellingInv'
  BY TellingKept
<1> QED BY <1>1, <1>2, TellingTruthful, AlertTypeCorrect, PTL DEF AlertSpec

-----------------------------------------------------------------------------
LEMMA TimeRankIs ==
  ASSUME NEW base, NEW snap, NEW notices, NEW e
  PROVE  TimeRank(base, snap, notices, e) \in AlertRank
BY DEF TimeRank, AlertRank

\* The detail of the highest priority has one.
LEMMA DetailRankIs ==
  ASSUME NEW ds \in SUBSET Detail, ds # {}
  PROVE  Max({DetailRank[d] : d \in ds}) \in AlertRank
<1> DEFINE S == {DetailRank[d] : d \in ds}
<1>1. S \subseteq AlertRank /\ S # {}
  BY AlertAssumption
<1> HIDE DEF S
<1>2. S \in SUBSET Nat /\ \A x \in S : x <= 120
  BY <1>1 DEF AlertRank
<1>3. Max(S) \in S
  BY <1>1, <1>2, MaxOfBounded
<1> QED BY <1>1, <1>3 DEF S

LEMMA AlertsRanked ==
  ASSUME NEW base, NEW snap, IsFlight(snap), NEW notices, NEW a \in Alerts(base, snap, notices)
  PROVE  a.rank \in AlertRank /\ a.place \in 1..6 /\ a.kind # "none"
<1> DEFINE place(e) == IF e = "departure" THEN 3 ELSE 5
           New(e) == {c \in Detail : snap[e][c] \notin {None, base[e][c]}}
           detail(e) == [kind |-> "detail", end |-> e, rank |-> Max({DetailRank[d] : d \in New(e)}), place |-> place(e)]
           time(e) == [kind |-> "time", end |-> e, rank |-> TimeRank(base, snap, notices, e), place |-> place(e) + 1]
<1>1. \/ a = [kind |-> "status", end |-> None, rank |-> StatusRank[snap.status], place |-> 1]
      \/ a = [kind |-> "aircraft", end |-> None, rank |-> 50, place |-> 2]
      \/ \E e \in End : New(e) # {} /\ a = detail(e)
      \/ \E e \in End : a = time(e)
  BY DEF Alerts
<1>2. StatusRank[snap.status] \in AlertRank
  BY AlertAssumption DEF IsFlight
<1>3. \A e \in End : New(e) # {} => Max({DetailRank[d] : d \in New(e)}) \in AlertRank
  BY DetailRankIs
<1>4. \A e \in End : TimeRank(base, snap, notices, e) \in AlertRank
  BY TimeRankIs
<1>5. \A e \in End : place(e) \in {3, 5} /\ place(e) + 1 \in {4, 6}
  OBVIOUS
<1> HIDE DEF New, place
<1>6. CASE \E e \in End : New(e) # {} /\ a = detail(e)
  BY <1>3, <1>5, <1>6
<1>7. CASE \E e \in End : a = time(e)
  BY <1>4, <1>5, <1>7
<1>8. CASE \/ a = [kind |-> "status", end |-> None, rank |-> StatusRank[snap.status], place |-> 1]
           \/ a = [kind |-> "aircraft", end |-> None, rank |-> 50, place |-> 2]
  BY <1>2, <1>8 DEF AlertRank
<1> QED BY <1>1, <1>6, <1>7, <1>8

\* The chosen alert is one of the alerts, and none outranks it.
LEMMA ChosenFirst ==
  ASSUME NEW base, NEW snap, IsFlight(snap), NEW notices, Alerts(base, snap, notices) # {}
  PROVE  LET a == Chosen(Alerts(base, snap, notices))
         IN a \in Alerts(base, snap, notices) /\ \A b \in Alerts(base, snap, notices) : a.rank >= b.rank
<1> DEFINE As == Alerts(base, snap, notices)
           key(a) == 8 * a.rank + 8 - a.place
           S == {key(a) : a \in As}
<1>1. \A a \in As : a.rank \in AlertRank /\ a.place \in 1..6
  BY AlertsRanked
<1> HIDE DEF As
<1>2. S \in SUBSET Nat /\ S # {} /\ \A x \in S : x <= 1000
  <2>1. \A a \in As : key(a) \in Nat /\ key(a) <= 1000
    BY <1>1 DEF AlertRank
  <2>2. PICK a \in As : TRUE
    BY DEF As
  <2>3. key(a) \in S
    OBVIOUS
  <2> QED BY <2>1, <2>3
<1>3. Max(S) \in S /\ \A y \in S : Max(S) >= y
  <2> DEFINE bound == 1000
  <2>1. bound \in Nat /\ \A x \in S : x <= bound
    BY <1>2
  <2> HIDE DEF S, bound
  <2> QED BY ZenonT(30), <1>2, <2>1, MaxOfBounded
<1>4. PICK a \in As : \A b \in As : key(a) >= key(b)
  BY <1>3
<1>5. ASSUME NEW b \in As
      PROVE  a.rank > b.rank \/ (a.rank = b.rank /\ a.place <= b.place)
  <2>1. 8 * a.rank + 8 - a.place >= 8 * b.rank + 8 - b.place
    BY <1>4
  <2>2. a.rank \in Int /\ b.rank \in Int /\ a.place \in 1..6 /\ b.place \in 1..6
    BY <1>1 DEF AlertRank
  <2> QED BY <2>1, <2>2
<1> DEFINE c == CHOOSE x \in As : \A b \in As : x.rank > b.rank \/ (x.rank = b.rank /\ x.place <= b.place)
<1>6. c \in As /\ \A b \in As : c.rank > b.rank \/ (c.rank = b.rank /\ c.place <= b.place)
  BY <1>5
<1>7. Chosen(As) = c
  BY DEF Chosen, As
<1> HIDE DEF c
<1>8. ASSUME NEW b \in As
      PROVE  c.rank >= b.rank
  <2>1. c.rank \in Int /\ b.rank \in Int
    BY <1>1, <1>6 DEF AlertRank
  <2>2. c.rank > b.rank \/ c.rank = b.rank
    BY <1>6
  <2> HIDE DEF As
  <2> QED BY <2>1, <2>2
<1> QED BY <1>6, <1>7, <1>8 DEF As

\* What a commit that saw no other in between leaves of an end: it is over, its notice is
\* within ten minutes, or another alert of the same priority or a higher one was sent.
Near(e) ==
  \/ latest.status \in FlightOver(e) \/ flightRow[e].runway # None \/ Expected(latest[e]) = None
  \/ Abs(Expected(latest[e]) - notice[e]) < 10
  \/ chosen # NoAlert /\ ~(chosen.kind = "time" /\ chosen.end = e)
     /\ chosen.rank >= TimeRank(flightRow, latest, notice, e)

NearInv == lone /\ latest # FlightAtFirst => \A e \in End : Near(e)

LEMMA CommitNear ==
  ASSUME AlertTypes, NEW w \in AlertWorker, NEW alert, NEW new, NEW alone, Commits(w, alert, new, alone), alone,
         NEW e \in End
  PROVE  Near(e)'
<1> DEFINE base == flightRow
           snap == alerter[w].snap
<1>1. /\ alerter[w].row = base /\ alerter[w].notices = notice
      /\ IsFlight(base) /\ IsFlight(snap)
      /\ notice[e] \in Int \cup {None}
  BY DEF Commits, AlertTypes
<1>2. /\ alert = Chosen(Alerts(base, snap, notice)) /\ new[e] = Notified(base, snap, notice, e, alert)
      /\ chosen' = alert /\ latest' = snap
      /\ flightRow' = Updated(base, base, snap)
  BY <1>1 DEF Commits
<1>3. notice'[e] = new[e] /\ new[e] \in Int \cup {None}
  <2>1. new[e] \in Int \cup {None} /\ notice'[e] = Column(notice[e], alerter[w].notices[e], new[e])
    BY CommitTypes
  <2> QED BY <1>1, <2>1 DEF Column
<1>4. Expected(snap[e]) \in Int \cup {None} /\ Known(base, notice, e) \in Int \cup {None}
  BY <1>1, ExpectedIs, FlightEnds, KnownIs
<1>5. flightRow'[e].runway = None <=> snap[e].runway = None /\ base[e].runway = None
  <2>1. flightRow'[e]["runway"] = IF snap[e]["runway"] = None THEN base[e]["runway"]
                                  ELSE Column(base[e]["runway"], base[e]["runway"], snap[e]["runway"])
    BY <1>1, <1>2, UpdatedIs DEF TimeField
  <2> QED BY <2>1 DEF Column
<1> HIDE DEF base, snap
<1> SUFFICES ASSUME ~(snap.status \in FlightOver(e) \/ flightRow'[e].runway # None \/ Expected(snap[e]) = None)
             PROVE  \/ Abs(Expected(snap[e]) - new[e]) < 10
                    \/ alert # NoAlert /\ ~(alert.kind = "time" /\ alert.end = e)
                       /\ alert.rank >= TimeRank(flightRow', snap, notice', e)
  BY <1>2, <1>3 DEF Near
<1>6. ~Settled(base, snap, e)
  BY <1>5 DEF Settled
<1>7. Expected(snap[e]) \in Int
  BY <1>4
<1>8. CASE Known(base, notice, e) = None \/ (alert.kind = "time" /\ alert.end = e)
  <2>1. new[e] = Expected(snap[e])
    BY <1>2, <1>6, <1>8 DEF Notified
  <2> QED BY <1>7, <2>1 DEF Abs
<1>9. CASE Known(base, notice, e) # None /\ ~(alert.kind = "time" /\ alert.end = e)
  <2>1. new[e] = Known(base, notice, e) /\ new[e] \in Int
    BY <1>2, <1>4, <1>6, <1>9 DEF Notified
  <2>2. CASE ~Moved(base, snap, notice, e)
    BY <1>6, <1>7, <1>9, <2>1, <2>2 DEF Moved, Abs
  <2>3. CASE Moved(base, snap, notice, e)
    <3> DEFINE b == [kind |-> "time", end |-> e, rank |-> TimeRank(base, snap, notice, e),
                     place |-> (IF e = "departure" THEN 3 ELSE 5) + 1]
    <3>1. b \in Alerts(base, snap, notice)
      BY <2>3 DEF Alerts
    <3>2. alert \in Alerts(base, snap, notice) /\ alert.rank >= b.rank
      <4> HIDE DEF b
      <4> QED BY <1>1, <1>2, <3>1, ChosenFirst
    <3>3. alert # NoAlert
      BY <1>1, <3>2, AlertsRanked DEF NoAlert
    <3>4. Known(flightRow', notice', e) = Known(base, notice, e)
      BY <1>3, <1>9, <2>1, AlertAssumption DEF Known
    <3>5. TimeRank(flightRow', snap, notice', e) = TimeRank(base, snap, notice, e)
      BY <3>4 DEF TimeRank
    <3> QED BY <1>9, <3>2, <3>3, <3>5
  <2> QED BY <2>2, <2>3
<1> QED BY <1>8, <1>9

LEMMA NearKept ==
  ASSUME AlertTypes, NearInv, [AlertNext]_alertVars
  PROVE  NearInv'
<1>1. ASSUME UNCHANGED <<flightRow, notice, chosen, latest, lone>>
      PROVE  NearInv'
  BY <1>1 DEF NearInv, Near
<1>2. ASSUME NEW w \in AlertWorker, HandleCommit(w)
      PROVE  NearInv'
  <2>1. ASSUME NEW alert, NEW new, NEW alone, Commits(w, alert, new, alone)
        PROVE  NearInv'
    <3> SUFFICES ASSUME lone', NEW e \in End
                 PROVE  Near(e)'
      BY DEF NearInv
    <3>1. alone = lone'
      BY <2>1 DEF Commits
    <3>2. alone
      BY <3>1
    <3> QED BY <2>1, <3>2, CommitNear
  <2> QED BY <1>1, <1>2, <2>1, CommitOrRollback
<1> QED BY <1>1, <1>2 DEF AlertNext, alertVars, HandleRead, SendAlert, HandleFail, ResetBadge

LEMMA NearAnnounced == NearInv /\ NoticeTruthful => DriftAnnounced
BY DEF NearInv, Near, NoticeTruthful, DriftAnnounced

\* Once a snapshot is handled alone users know each open end to ten minutes, unless an
\* alert of the same priority came first.
THEOREM DriftCorrect == AlertSpec => []DriftAnnounced
<1>1. AlertInit => NearInv
  BY DEF AlertInit, NearInv
<1>2. AlertTypes /\ NearInv /\ [AlertNext]_alertVars => NearInv'
  BY NearKept
<1> QED BY <1>1, <1>2, NearAnnounced, NoticeCorrect, AlertTypeCorrect, PTL DEF AlertSpec

-----------------------------------------------------------------------------
(* SearchFailures. *)

Shown == [id : Sample, row : SampleRow]

Outcomes == {"never_run", "running", "deadline_exceeded", "bounded_backlog", "success", "checkpoint_busy",
             "cleanup_failed"}

Phases == {"batch", "assess", "save"}
SweepRecord == [pc : Phases, started : Int, batches : Int, outcome : Outcomes]

SampleTypes ==
  /\ today \in Int
  /\ sample \in [Sample -> SampleRow \cup {None}]
  /\ sweepLog \in [outcome : Outcomes, success : Int \cup {None}]
  /\ \/ sweep = NoSweep
     \/ sweep \in SweepRecord
  /\ report.pc = "read" =>
       report \in [pc : {"read"}, all : SUBSET Shown, left : SUBSET Sample, shown : SUBSET Shown]

\* A report in progress has one copy of a sample.  What it has decrypted and what it
\* has not is all of what it selected that is still live.
ReadInv ==
  report.pc = "read" =>
    /\ report.shown \subseteq report.all
    /\ \A c, d \in report.all : c.id = d.id => c = d
    /\ \A c \in report.all : c.row.created <= today
    /\ \A c \in report.all : c.id \in report.left \/ c \in report.shown \/ ~LiveAt(c.row, today)

\* The retention of a live row has not run out.
LEMMA LiveKept ==
  ASSUME NEW r \in SampleRow, NEW t \in Int, LiveAt(r, t)
  PROVE  t < r.created + Kept
BY SampleAssumption DEF SampleRow, LiveAt, Expiry

\* A row that is live no more will not be live again.
LEMMA DeadStays ==
  ASSUME NEW r \in SampleRow, NEW t \in Int, NEW later \in Int, t <= later, r.created <= t, ~LiveAt(r, t)
  PROVE  ~LiveAt(r, later)
BY SampleAssumption DEF SampleRow, LiveAt, Expiry

LEMMA AppReportKeepsRow ==
  ASSUME NEW base \in SampleRow, NEW j \in Journey, NEW reason \in FailureReason
  PROVE  [base EXCEPT !.source = "backend_and_app",
                     !.reason = IF reason = "generic" THEN base.reason ELSE reason,
                     !.journey = j,
                     !.expires = Expiry(base)] \in SampleRow
<1>1. Expiry(base) \in Int
  BY SampleAssumption DEF SampleRow, Expiry
<1> DEFINE x == Expiry(base)
           y == IF reason = "generic" THEN base.reason ELSE reason
<1>2. y \in FailureReason \cup {"generic"}
  BY DEF SampleRow
<1> HIDE DEF x, y
<1>3. [base EXCEPT !.source = "backend_and_app", !.reason = y, !.journey = j, !.expires = x] \in SampleRow
  BY <1>1, <1>2 DEF SampleRow, x
<1> QED BY <1>3 DEF x, y

LEMMA SweepChange ==
  ASSUME NEW s \in SweepRecord, NEW p \in Phases, NEW o \in Outcomes
  PROVE  /\ s.batches \in Int /\ s.pc \in Phases
         /\ [s EXCEPT !.batches = @ + 1, !.pc = p] \in SweepRecord
         /\ [s EXCEPT !.pc = p] \in SweepRecord
         /\ [s EXCEPT !.pc = p, !.outcome = o] \in SweepRecord
<1>1. s.batches \in Int /\ s.pc \in Phases /\ s.batches + 1 \in Int
  BY DEF SweepRecord
<1>2. [s EXCEPT !.pc = p] \in SweepRecord
  BY DEF SweepRecord
<1>3. [s EXCEPT !.pc = p, !.outcome = o] \in SweepRecord
  BY DEF SweepRecord
<1> DEFINE b == s.batches + 1
<1>4. b \in Int
  BY <1>1
<1> HIDE DEF b
<1>5. [s EXCEPT !.batches = b, !.pc = p] \in SweepRecord
  BY <1>4 DEF SweepRecord
<1> QED BY <1>1, <1>2, <1>3, <1>5 DEF b

LEMMA SampleTypesKept ==
  ASSUME SampleTypes, [SampleNext]_sampleVars
  PROVE  SampleTypes'
<1> USE DEF SampleTypes
<1>1. CASE UNCHANGED sampleVars
  BY <1>1 DEF sampleVars
<1>2. CASE SampleTick
  BY <1>2 DEF SampleTick
<1>3. ASSUME NEW i \in Sample, NEW u \in Searcher, NEW q \in FailedQuery, NEW reason \in FailureReason,
             Capture(i, u, q, reason)
      PROVE  SampleTypes'
  <2>1. [owner |-> u, query |-> q, source |-> "backend", reason |-> reason,
         journey |-> None, created |-> today, expires |-> today + Kept] \in SampleRow
    BY SampleAssumption DEF SampleRow
  <2> QED BY <1>3, <2>1 DEF Capture
<1>4. ASSUME NEW i \in Sample, NEW u \in Searcher, NEW q \in FailedQuery, NEW reason \in FailureReason,
             NEW j \in Journey, AppReport(i, u, q, j, reason)
      PROVE  SampleTypes'
  <2>1. sample[i] \in SampleRow
    BY <1>4 DEF AppReport, Rows
  <2>2. sample' \in [Sample -> SampleRow \cup {None}]
    BY <1>4, <2>1, AppReportKeepsRow DEF AppReport
  <2> QED BY <1>4, <2>2 DEF AppReport
<1>5. CASE ReportSelect
  <2>1. /\ report' = [pc |-> "read", all |-> {[id |-> i, row |-> sample[i]] : i \in {j \in Rows : LiveAt(sample[j], today)}},
                      left |-> {i \in Rows : LiveAt(sample[i], today)}, shown |-> {}]
        /\ UNCHANGED <<sample, today, sweep, sweepLog>>
    BY <1>5 DEF ReportSelect
  <2>2. {[id |-> i, row |-> sample[i]] : i \in {j \in Rows : LiveAt(sample[j], today)}} \subseteq Shown
    BY DEF Rows, Shown
  <2> QED BY <2>1, <2>2 DEF Rows
<1>6. ASSUME NEW c \in report.all, report.pc = "read", ReportItem(c)
      PROVE  SampleTypes'
  <2>1. c \in Shown
    BY <1>6
  <2> QED BY <1>6, <2>1 DEF ReportItem
<1>7. CASE ReportAnswer \/ ReportOver
  BY <1>7 DEF ReportAnswer, ReportOver, NoReport
<1>8. CASE SweepStart
  BY <1>8 DEF SweepStart, SweepRecord, Phases, Outcomes
<1>9. CASE SweepBatch
  <2>1. PICK gone \in Batches(Expired(today)), long \in Batches(Extended \ Expired(today)) :
          sample' = [i \in Sample |-> IF i \in gone THEN None
                                      ELSE IF i \in long THEN [sample[i] EXCEPT !.expires = sample[i].created + Kept]
                                      ELSE sample[i]]
    BY <1>9 DEF SweepBatch
  <2>2. long \subseteq Rows
    BY DEF Batches, Extended
  <2>3. \A r \in SampleRow : [r EXCEPT !.expires = r.created + Kept] \in SampleRow
    BY SampleAssumption DEF SampleRow
  <2>4. \A i \in long : sample[i] \in SampleRow
    BY <2>2 DEF Rows
  <2>5. sample' \in [Sample -> SampleRow \cup {None}]
    BY <2>1, <2>3, <2>4
  <2>6. sweep' \in SweepRecord
    <3>1. \E p \in Phases : sweep' = [sweep EXCEPT !.batches = @ + 1, !.pc = p]
      BY <1>9 DEF SweepBatch, Phases
    <3>2. sweep \in SweepRecord
      BY <1>9 DEF SweepBatch, NoSweep
    <3> QED BY ZenonT(30), <3>1, <3>2, SweepChange DEF Outcomes
  <2> QED BY <1>9, <2>5, <2>6 DEF SweepBatch
<1>10. CASE SweepStop
  <2>1. sweep \in SweepRecord /\ "assess" \in Phases /\ "deadline_exceeded" \in Outcomes
    BY <1>10 DEF SweepStop, NoSweep, Phases, Outcomes
  <2>2. sweep' = [sweep EXCEPT !.pc = "assess"] \/ sweep' = [sweep EXCEPT !.pc = "assess", !.outcome = "deadline_exceeded"]
    BY <1>10 DEF SweepStop
  <2>3. /\ [sweep EXCEPT !.pc = "assess"] \in SweepRecord
        /\ [sweep EXCEPT !.pc = "assess", !.outcome = "deadline_exceeded"] \in SweepRecord
    BY <2>1, SweepChange
  <2>4. sweep' \in SweepRecord
    BY <2>2, <2>3
  <2> QED BY <1>10, <2>4 DEF SweepStop
<1>11. CASE SweepAssess
  <2>1. sweep \in SweepRecord /\ "save" \in Phases
    BY <1>11 DEF SweepAssess, NoSweep, Phases
  <2>2. \E o \in Outcomes : sweep' = [sweep EXCEPT !.pc = "save", !.outcome = o]
    BY <1>11, <2>1 DEF SweepAssess, SweepRecord, Outcomes
  <2>3. \A o \in Outcomes : [sweep EXCEPT !.pc = "save", !.outcome = o] \in SweepRecord
    BY <2>1, SweepChange
  <2>4. sweep' \in SweepRecord
    BY <2>2, <2>3
  <2> QED BY <1>11, <2>4 DEF SweepAssess
<1>12. CASE SweepSave
  BY <1>12 DEF SweepSave, FinalOutcome, NoSweep, SweepRecord, Phases, Outcomes
<1>13. CASE SweepFail
  BY <1>13 DEF SweepFail, NoSweep, SweepRecord, Phases, Outcomes
<1> QED BY <1>1, <1>2, <1>3, <1>4, <1>5, <1>6, <1>7, <1>8, <1>9, <1>10, <1>11, <1>12, <1>13 DEF SampleNext

LEMMA ReportKept ==
  ASSUME SampleTypes, ReadInv, ReportedLive, [SampleNext]_sampleVars
  PROVE  ReadInv' /\ ReportedLive'
<1>1. ASSUME report' = report, today' = today
      PROVE  ReadInv' /\ ReportedLive'
  BY <1>1 DEF ReadInv, ReportedLive
<1>2. CASE SampleTick
  <2>1. report' = report /\ today' = today + 1 /\ today \in Int
    BY <1>2 DEF SampleTick, SampleTypes
  <2>2. ASSUME report.pc = "read", NEW c \in report.all
        PROVE  c.row.created <= today' /\ (LiveAt(c.row, today') => LiveAt(c.row, today))
    <3>1. c.row \in SampleRow /\ c.row.created <= today
      BY <2>2 DEF SampleTypes, Shown, ReadInv
    <3>2. c.row.created \in Int
      BY <3>1 DEF SampleRow
    <3> QED BY <2>1, <3>1, <3>2, DeadStays
  <2> QED BY <2>1, <2>2 DEF ReadInv, ReportedLive
<1>3. CASE ReportSelect
  <2>1. /\ report' = [pc |-> "read", all |-> {[id |-> i, row |-> sample[i]] : i \in {j \in Rows : LiveAt(sample[j], today)}},
                      left |-> {i \in Rows : LiveAt(sample[i], today)}, shown |-> {}]
        /\ today' = today
    BY <1>3 DEF ReportSelect
  <2> QED BY <2>1 DEF ReadInv, ReportedLive, LiveAt
<1>4. ASSUME NEW c \in report.all, report.pc = "read", ReportItem(c)
      PROVE  ReadInv' /\ ReportedLive'
  <2>1. report \in [pc : {"read"}, all : SUBSET Shown, left : SUBSET Sample, shown : SUBSET Shown]
    BY <1>4 DEF SampleTypes
  <2>2. /\ report'.pc = "read" /\ report'.all = report.all /\ report'.left = report.left \ {c.id}
        /\ report'.shown = IF LiveAt(c.row, today) THEN report.shown \cup {c} ELSE report.shown
        /\ today' = today
    BY <1>4, <2>1 DEF ReportItem
  <2> QED BY <1>4, <2>2 DEF ReadInv, ReportedLive
<1>5. CASE ReportAnswer
  <2> DEFINE final == {c \in report.shown : StillShown(c)}
  <2>1. report.pc = "read" /\ report.left = {}
        /\ report' = [pc |-> "answered", shown |-> final,
                      count |-> Cardinality({c \in report.all : StillShown(c)}), at |-> today]
    BY <1>5 DEF ReportAnswer
  <2>2. {c \in report.all : StillShown(c)} = final
    BY <2>1 DEF ReadInv, StillShown
  <2>3. \A c \in final : today < c.row.created + Kept
    BY <2>1, LiveKept DEF SampleTypes, Shown, StillShown
  <2>4. {c \in final : today < c.row.created + Kept} = final
    BY <2>3
  <2> HIDE DEF final
  <2> QED BY <2>1, <2>2, <2>3, <2>4 DEF ReadInv, ReportedLive
<1>6. CASE ReportOver
  BY <1>6 DEF ReportOver, NoReport, ReadInv, ReportedLive
<1>7. CASE UNCHANGED sampleVars
  BY <1>1, <1>7 DEF sampleVars
<1>8. CASE \/ \E i \in Sample, u \in Searcher, q \in FailedQuery, reason \in FailureReason :
                \/ Capture(i, u, q, reason)
                \/ \E j \in Journey : AppReport(i, u, q, j, reason)
           \/ SweepStart \/ SweepBatch \/ SweepStop \/ SweepAssess \/ SweepSave \/ SweepFail
  BY ZenonT(30), <1>1, <1>8 DEF Capture, AppReport, SweepStart, SweepBatch, SweepStop, SweepAssess, SweepSave, SweepFail
<1> QED BY <1>2, <1>3, <1>4, <1>5, <1>6, <1>7, <1>8 DEF SampleNext

\* Only a sweep that ends with nothing expired records a success.
LEMMA SavedSuccess ==
  ASSUME SampleTypes, [SampleNext]_sampleVars, sweepLog'.success # sweepLog.success
  PROVE  \A i \in Sample : sample[i] # None => today < sample[i].created + Kept
<1>1. SweepSave
  <2>1. \A x : [sweepLog EXCEPT !.outcome = x].success = sweepLog.success
    BY DEF SampleTypes
  <2> QED BY <2>1 DEF SampleNext, sampleVars, SampleTick, Capture, AppReport, ReportSelect, ReportItem, ReportAnswer,
                      ReportOver, SweepStart, SweepBatch, SweepStop, SweepAssess, SweepFail
<1>2. Expired(today) = {}
  BY <1>1 DEF SweepSave, FinalOutcome
<1> SUFFICES ASSUME NEW i \in Sample, sample[i] # None
             PROVE  today < sample[i].created + Kept
  OBVIOUS
<1>3. ~(Expiry(sample[i]) <= today)
  BY <1>2 DEF Expired, Rows
<1>4. sample[i] \in SampleRow /\ today \in Int
  BY DEF SampleTypes
<1> QED BY <1>3, <1>4, SampleAssumption DEF SampleRow, Expiry

LEMMA SampleInitially == SampleInit => SampleTypes /\ ReadInv /\ ReportedLive
BY SampleAssumption DEF SampleInit, SampleTypes, ReadInv, ReportedLive, NoSweep, NoReport, Outcomes

\* Samples, the sweep and the report keep their types (search_failures.py).
THEOREM SampleTypeCorrect == SampleSpec => []SampleTypes
BY SampleInitially, SampleTypesKept, PTL DEF SampleSpec

\* A report, however long it takes and whatever a sweep deletes meanwhile, answers
\* nothing, not even a count, of a sample past its retention.
THEOREM ReportedLiveCorrect == SampleSpec => []ReportedLive
<1>1. SampleInit => ReadInv /\ ReportedLive
  BY SampleInitially
<1>2. SampleTypes /\ (ReadInv /\ ReportedLive) /\ [SampleNext]_sampleVars => (ReadInv /\ ReportedLive)'
  BY ReportKept
<1> QED BY <1>1, <1>2, SampleTypeCorrect, PTL DEF SampleSpec

\* A sweep that is recorded as a success has left nothing that had expired then.
THEOREM SuccessCorrect == SampleSpec => SuccessMeansSwept
<1>1. SampleTypes /\ [SampleNext]_sampleVars =>
        [sweepLog'.success # sweepLog.success =>
           \A i \in Sample : sample[i] # None => today < sample[i].created + Kept]_sampleVars
  BY SavedSuccess
<1> QED BY <1>1, SampleTypeCorrect, PTL DEF SampleSpec, SuccessMeansSwept

-----------------------------------------------------------------------------
(* FlightShare, for any users, secrets, requests and budgets. *)

\* A request that is about to answer has seen to it that the hash is current.
AnswerInv ==
  \A q \in Request : request[q].pc = "answer" =>
    row[request[q].share] # None /\ row[request[q].share].hashed = secret

\* A request has found a row; a hash that was current then still is.
FoundInv ==
  \A q \in Request : request[q].pc = "found" =>
    /\ row[request[q].share] # None
    /\ request[q].copy.hashed = secret => row[request[q].share].hashed = secret

\* A viewer has been shown the page of a row.
ShownInv == \A v \in Viewer : viewer[v].pc = "shown" => row[viewer[v].share] # None

\* No view is counted for a share that does not exist.
UncountedInv == \A s \in Share : row[s] = None => viewed[s] = 0

IInv == TypeOK /\ HandedOutResolves /\ ViewsExact /\ AnswerInv /\ FoundInv /\ ShownInv
        /\ UncountedInv

-----------------------------------------------------------------------------
\* A missing row is not a row.
LEMMA NoneIsNoRow == None \notin Row
BY FlightShareAssumption DEF Row

\* Changing the columns of a row leaves a row with the other columns as they were.
LEMMA RowChange ==
  ASSUME NEW r \in Row, NEW copy
  PROVE  /\ [r EXCEPT !.revoked = TRUE] \in Row
         /\ [r EXCEPT !.user = Deleted, !.revoked = TRUE] \in Row
         /\ secret \in Secret => Rekeyed(r, copy) \in Row
         /\ Counted(r, copy) \in Row
         /\ r # None
<1>1. [r EXCEPT !.revoked = TRUE] \in Row
  BY DEF Row
<1>2. [r EXCEPT !.user = Deleted, !.revoked = TRUE] \in Row
  BY DEF Row
<1>3. secret \in Secret => Rekeyed(r, copy) \in Row
  BY DEF Row, Rekeyed
<1>4. Counted(r, copy) \in Row
  BY DEF Row, Counted
<1>5. r # None
  BY FlightShareAssumption DEF Row
<1> QED
  BY <1>1, <1>2, <1>3, <1>4, <1>5

\* A row after a step, seen column by column: it stays, its hash stays or becomes
\* current, and the count and the revocation are not undone.
RowKept(r, new) ==
  /\ r = None <=> new = None
  /\ r # None => /\ new.hashed = r.hashed
                 /\ new.view_count = r.view_count
                 /\ new.user \in {r.user, Deleted}
                 /\ r.revoked => new.revoked

\* revoke_flight_shares changes nothing but the revocation.
LEMMA RevokedRowsKept ==
  ASSUME TypeOK, NEW u, NEW f
  PROVE  /\ RevokedRows(u, f) \in [Share -> Row \cup {None}]
         /\ \A s \in Share : RowKept(row[s], RevokedRows(u, f)[s])
<1>1. ASSUME NEW s \in Share
      PROVE  /\ RevokedRows(u, f)[s] \in Row \cup {None}
             /\ RowKept(row[s], RevokedRows(u, f)[s])
  <2>1. CASE s \in Active(u, f)
    <3>1. row[s] \in Row
      BY <2>1 DEF Active, TypeOK
    <3>2. RevokedRows(u, f)[s] = [row[s] EXCEPT !.revoked = TRUE]
      BY <2>1 DEF RevokedRows
    <3>3. RevokedRows(u, f)[s] \in Row /\ RevokedRows(u, f)[s] # None
      BY <3>1, <3>2, RowChange, FlightShareAssumption DEF Row
    <3> QED
      BY <3>1, <3>2, <3>3, RowChange DEF RowKept, Row
  <2>2. CASE s \notin Active(u, f)
    BY <2>2 DEF RevokedRows, RowKept, TypeOK
  <2> QED
    BY <2>1, <2>2
<1> QED
  BY <1>1 DEF RevokedRows

\* So does delete_user, which takes the owner's name as well.
LEMMA DeletedRowsKept ==
  ASSUME TypeOK, NEW u \in User, DeleteUser(u)
  PROVE  /\ row' \in [Share -> Row \cup {None}]
         /\ \A s \in Share : RowKept(row[s], row'[s])
<1>1. ASSUME NEW s \in Share
      PROVE  row'[s] \in Row \cup {None} /\ RowKept(row[s], row'[s])
  <2>1. CASE row[s] # None /\ row[s].user = u
    <3>1. row[s] \in Row
      BY <2>1 DEF TypeOK
    <3>2. row'[s] = [row[s] EXCEPT !.user = Deleted, !.revoked = TRUE]
      BY <2>1 DEF DeleteUser
    <3>3. row'[s] \in Row /\ row'[s] # None
      BY <3>1, <3>2, RowChange, FlightShareAssumption DEF Row
    <3> QED
      BY <3>1, <3>2, <3>3, RowChange DEF RowKept, Row
  <2>2. CASE ~(row[s] # None /\ row[s].user = u)
    BY <2>2 DEF DeleteUser, RowKept, TypeOK
  <2> QED
    BY <2>1, <2>2
<1> QED
  BY <1>1 DEF DeleteUser

LEMMA InitType == Init => TypeOK
BY FlightShareAssumption DEF Init, TypeOK, RequestState, ViewerState, Idle, Event

LEMMA NextType == IInv /\ [Next]_vars => TypeOK'
<1> SUFFICES ASSUME IInv, [Next]_vars PROVE TypeOK'
  OBVIOUS
<1>a. TypeOK /\ FoundInv /\ ShownInv
  BY DEF IInv
<1> USE FlightShareAssumption DEF TypeOK, requests, history
<1>1. ASSUME NEW q \in Request, NEW u \in User, NEW f \in Flight, CreateCheck(q, u, f) PROVE TypeOK'
  BY <1>1, <1>a DEF CreateCheck, Spend, Row, RequestState, ViewerState, Idle, Event
<1>2. ASSUME NEW q \in Request, NEW u \in User, NEW f \in Flight, GetLookup(q, u, f) PROVE TypeOK'
  BY <1>2, <1>a DEF GetLookup, Found, Active, Spend, Row, RequestState, ViewerState, Idle, Event
<1>3. ASSUME NEW q \in Request, CreateLookup(q) PROVE TypeOK'
  BY <1>3, <1>a DEF CreateLookup, Found, Active, Row, RequestState, ViewerState, Idle, Event
<1>4. ASSUME NEW q \in Request, CreateInsert(q) PROVE TypeOK'
  <2>1. row' \in [Share -> Row \cup {None}]
    <3>1. request[q] \in [pc : {"insert"}, user : User, flight : Flight]
      BY <1>4, <1>a DEF CreateInsert, RequestState
    <3>2. NewRow(request[q].user, request[q].flight) \in Row
      BY <3>1, <1>a DEF NewRow, Row
    <3> QED
      BY <1>4, <1>a, <3>2 DEF CreateInsert
  <2>2. request' \in [Request -> RequestState]
    BY <1>4, <1>a DEF CreateInsert, RequestState, Idle
  <2> QED
    BY <1>4, <1>a, <2>1, <2>2 DEF CreateInsert
<1>5. ASSUME NEW q \in Request, CreateConflict(q) PROVE TypeOK'
  BY <1>5, <1>a DEF CreateConflict, Found, Active, Row, RequestState, ViewerState, Idle, Event
<1>6. ASSUME NEW q \in Request, Rekey(q) PROVE TypeOK'
  <2>1. request[q] \in [pc : {"found"}, share : Share, copy : Row]
    BY <1>6, <1>a DEF Rekey, RequestState
  <2>2. row' \in [Share -> Row \cup {None}]
    <3>1. row[request[q].share] \in Row
      BY <1>6, <1>a, <2>1 DEF Rekey, FoundInv
    <3> QED
      BY <1>6, <1>a, <2>1, <3>1, RowChange DEF Rekey
  <2>3. request' \in [Request -> RequestState]
    BY <1>6, <1>a, <2>1 DEF Rekey, RequestState
  <2> QED
    BY <1>6, <1>a, <2>2, <2>3 DEF Rekey
<1>7. ASSUME NEW q \in Request, Answer(q) PROVE TypeOK'
  BY <1>7, <1>a DEF Answer, Row, RequestState, ViewerState, Idle, Event
<1>8. ASSUME NEW u \in User, NEW f \in Flight, RevokeShare(u, f) PROVE TypeOK'
  BY <1>8, <1>a, RevokedRowsKept DEF RevokeShare, Spend, Event
<1>9. ASSUME NEW u \in User, NEW f \in Flight, RemoveFlight(u, f) PROVE TypeOK'
  BY <1>9, <1>a, RevokedRowsKept DEF RemoveFlight, Spend, Event
<1>10. ASSUME NEW u \in User, NEW f \in Flight, AssignFlight(u, f) PROVE TypeOK'
  BY <1>10, <1>a DEF AssignFlight, Spend, Row, RequestState, ViewerState, Idle, Event
<1>11. ASSUME NEW u \in User, DeleteUser(u) PROVE TypeOK'
  <2>1. row' \in [Share -> Row \cup {None}]
    BY <1>11, <1>a, DeletedRowsKept
  <2>2. account' \subseteq User /\ link' \subseteq User \X Flight
    <3>1. account' = account \ {u} /\ link' = link \ ({u} \X Flight)
      BY <1>11 DEF DeleteUser
    <3>2. link' \subseteq link
      BY <3>1, Zenon
    <3> QED
      BY <3>1, <3>2, <1>a
  <2>3. left' \in [Event -> Nat]
    <3>1. Spend("request")
      BY <1>11 DEF DeleteUser
    <3> QED
      BY <3>1, <1>a DEF Spend, Event
  <2>4. UNCHANGED <<ended, secret, request, viewer, handed, current, viewed>>
    BY <1>11 DEF DeleteUser
  <2> QED
    BY <1>a, <2>1, <2>2, <2>3, <2>4
<1>12. ASSUME NEW f \in Flight, FlightMoves(f) PROVE TypeOK'
  BY <1>12, <1>a DEF FlightMoves, Row, RequestState, ViewerState, Idle, Event
<1>13. ASSUME NEW v \in Viewer, NEW h \in handed, OpenPage(v, h) PROVE TypeOK'
  BY <1>13, <1>a DEF OpenPage, Resolves, Spend, Row, RequestState, ViewerState, Idle, Event
<1>14. ASSUME NEW v \in Viewer, RecordView(v) PROVE TypeOK'
  <2>1. viewer[v] \in [pc : {"shown"}, share : Share, copy : Row]
    BY <1>14, <1>a DEF RecordView, ViewerState
  <2>2. row[viewer[v].share] \in Row
    BY <1>14, <1>a, <2>1 DEF RecordView, ShownInv
  <2>3. row' \in [Share -> Row \cup {None}]
    BY <1>14, <1>a, <2>1, <2>2, RowChange DEF RecordView
  <2>4. viewed' \in [Share -> Nat] /\ viewer' \in [Viewer -> ViewerState]
    BY <1>14, <1>a, <2>1 DEF RecordView, ViewerState, Idle
  <2> QED
    BY <1>14, <1>a, <2>3, <2>4 DEF RecordView
<1>15. ASSUME Restart PROVE TypeOK'
  BY <1>15, <1>a DEF Restart, Spend, Row, RequestState, ViewerState, Idle, Event
<1>16. ASSUME NEW v \in Viewer, LoseView(v) PROVE TypeOK'
  BY <1>16, <1>a DEF LoseView, ViewerState, Idle
<1>30. CASE UNCHANGED vars
  BY <1>30, <1>a DEF vars
<1> QED
  BY <1>1, <1>2, <1>3, <1>4, <1>5, <1>6, <1>7, <1>8, <1>9,
     <1>10, <1>11, <1>12, <1>13, <1>14, <1>15, <1>16, <1>30 DEF Next

-----------------------------------------------------------------------------
LEMMA InitIInv == Init => IInv
BY InitType DEF Init, IInv, HandedOutResolves, ViewsExact, AnswerInv, FoundInv, ShownInv,
   UncountedInv, Idle

\* What requests and viewers in progress refer to is a share.
LEMMA ReferTo ==
  ASSUME TypeOK
  PROVE  /\ current \subseteq Share /\ secret \in Secret
         /\ \A p \in Request : request[p].pc \in {"answer", "found"} => request[p].share \in Share
         /\ \A v \in Viewer : viewer[v].pc = "shown" => viewer[v].share \in Share
<1>1. current \subseteq Share /\ secret \in Secret
  BY DEF TypeOK
<1>2. \A p \in Request : request[p].pc \in {"answer", "found"} => request[p].share \in Share
  BY DEF TypeOK, RequestState
<1>3. \A v \in Viewer : viewer[v].pc = "shown" => viewer[v].share \in Share
  BY DEF TypeOK, ViewerState
<1> QED BY <1>1, <1>2, <1>3

\* Replacing a stale hash keeps the invariant.
LEMMA RekeyKeeps ==
  ASSUME IInv, NEW q \in Request, Rekey(q)
  PROVE  /\ HandedOutResolves' /\ ViewsExact' /\ AnswerInv' /\ FoundInv' /\ ShownInv'
         /\ UncountedInv'
<1> DEFINE s0 == request[q].share
           copy == request[q].copy
<1>a. TypeOK
  BY DEF IInv
<1>1. s0 \in Share /\ copy \in Row
  BY <1>a DEF Rekey, TypeOK, RequestState
<1>2. row[s0] # None /\ (copy.hashed = secret => row[s0].hashed = secret)
  BY DEF Rekey, IInv, FoundInv
<1>3. row[s0] \in Row
  BY <1>a, <1>1, <1>2 DEF TypeOK
<1>4. /\ row'[s0] # None /\ row'[s0].hashed = secret /\ row'[s0].view_count = row[s0].view_count
      /\ \A s \in Share \ {s0} : row'[s] = row[s]
  <2>1. CASE Stale(copy)
    <3>1. row'[s0] = Rekeyed(row[s0], copy) /\ \A s \in Share \ {s0} : row'[s] = row[s]
      BY <1>a, <1>1, <2>1 DEF Rekey, TypeOK
    <3>2. Rekeyed(row[s0], copy) \in Row
      BY <1>a, <1>3, RowChange DEF TypeOK
    <3>3. /\ Rekeyed(row[s0], copy).hashed = secret
          /\ Rekeyed(row[s0], copy).view_count = row[s0].view_count
      BY <1>3 DEF Rekeyed, Row
    <3> QED BY <3>1, <3>2, <3>3, NoneIsNoRow
  <2>2. CASE ~Stale(copy)
    BY <1>2, <2>2 DEF Rekey, Stale
  <2> QED BY <2>1, <2>2
<1>5. /\ request'[q].pc = "answer" /\ request'[q].share = s0
      /\ \A p \in Request \ {q} : request'[p] = request[p]
  BY <1>a DEF Rekey, TypeOK
<1>6. secret' = secret /\ viewer' = viewer /\ current' = current /\ viewed' = viewed
  BY DEF Rekey, history
<1>7. \A s \in Share : /\ row'[s] = None <=> row[s] = None
                       /\ row[s] # None => /\ row'[s].view_count = row[s].view_count
                                           /\ row'[s].hashed \in {row[s].hashed, secret}
  BY <1>2, <1>4
<1> HIDE DEF s0, copy
<1>8. HandedOutResolves'
  BY <1>a, <1>6, <1>7, ReferTo DEF IInv, HandedOutResolves
<1>9. ViewsExact' /\ UncountedInv'
  BY <1>6, <1>7 DEF IInv, ViewsExact, UncountedInv
<1>10. AnswerInv'
  BY <1>a, <1>4, <1>5, <1>6, <1>7, ReferTo DEF IInv, AnswerInv
<1>11. FoundInv'
  BY <1>a, <1>5, <1>6, <1>7, ReferTo DEF IInv, FoundInv
<1>12. ShownInv'
  BY <1>a, <1>6, <1>7, ReferTo DEF IInv, ShownInv
<1> QED BY <1>8, <1>9, <1>10, <1>11, <1>12

\* Counting a view keeps the invariant.
LEMMA RecordViewKeeps ==
  ASSUME IInv, NEW v \in Viewer, RecordView(v)
  PROVE  /\ HandedOutResolves' /\ ViewsExact' /\ AnswerInv' /\ FoundInv' /\ ShownInv'
         /\ UncountedInv'
<1> DEFINE s0 == viewer[v].share
           copy == viewer[v].copy
<1>a. TypeOK
  BY DEF IInv
<1>1. s0 \in Share
  BY <1>a, ReferTo DEF RecordView
<1>2. row[s0] # None
  BY DEF RecordView, IInv, ShownInv
<1>3. row[s0] \in Row
  BY <1>a, <1>1, <1>2 DEF TypeOK
<1>4. /\ row'[s0] # None /\ row'[s0].hashed = row[s0].hashed
      /\ row'[s0].view_count = row[s0].view_count + 1
      /\ \A s \in Share \ {s0} : row'[s] = row[s]
  <2>1. row'[s0] = Counted(row[s0], copy) /\ \A s \in Share \ {s0} : row'[s] = row[s]
    BY <1>a, <1>1 DEF RecordView, TypeOK
  <2>2. Counted(row[s0], copy) \in Row
    BY <1>3, RowChange
  <2>3. /\ Counted(row[s0], copy).hashed = row[s0].hashed
        /\ Counted(row[s0], copy).view_count = row[s0].view_count + 1
    BY <1>3 DEF Counted, Row
  <2> QED BY <2>1, <2>2, <2>3, NoneIsNoRow
<1>5. viewed'[s0] = viewed[s0] + 1 /\ \A s \in Share \ {s0} : viewed'[s] = viewed[s]
  BY <1>a, <1>1 DEF RecordView, TypeOK
<1>6. secret' = secret /\ request' = request /\ current' = current
  BY DEF RecordView, history
<1>7. \A w \in Viewer : viewer'[w].pc = "shown" => viewer'[w] = viewer[w]
  BY <1>a DEF RecordView, TypeOK, Idle
<1>8. \A s \in Share : /\ row'[s] = None <=> row[s] = None
                       /\ row[s] # None => row'[s].hashed = row[s].hashed
  BY <1>2, <1>4
<1> HIDE DEF s0, copy
<1>9. HandedOutResolves'
  BY <1>a, <1>6, <1>8, ReferTo DEF IInv, HandedOutResolves
<1>10. ViewsExact' /\ UncountedInv'
  BY <1>2, <1>4, <1>5 DEF IInv, ViewsExact, UncountedInv
<1>11. AnswerInv'
  BY <1>a, <1>6, <1>8, ReferTo DEF IInv, AnswerInv
<1>12. FoundInv'
  BY <1>a, <1>6, <1>8, ReferTo DEF IInv, FoundInv
<1>13. ShownInv'
  BY <1>a, <1>7, <1>8, ReferTo DEF IInv, ShownInv
<1> QED BY <1>9, <1>10, <1>11, <1>12, <1>13

LEMMA NextIInv == IInv /\ [Next]_vars => IInv'
<1> SUFFICES ASSUME IInv, [Next]_vars PROVE IInv'
  OBVIOUS
<1> USE FlightShareAssumption DEF requests, history
<1>a. TypeOK /\ TypeOK'
  BY NextType DEF IInv
<1> DEFINE Rest == HandedOutResolves /\ ViewsExact /\ AnswerInv /\ FoundInv /\ ShownInv
                   /\ UncountedInv
<1> USE DEF IInv, HandedOutResolves, ViewsExact, AnswerInv, FoundInv, ShownInv, UncountedInv
<1>1. ASSUME NEW q \in Request, NEW u \in User, NEW f \in Flight, CreateCheck(q, u, f) PROVE Rest'
  BY <1>1, <1>a DEF CreateCheck, Spend, TypeOK, Row, RequestState, ViewerState, Idle
<1>2. ASSUME NEW q \in Request, NEW u \in User, NEW f \in Flight, GetLookup(q, u, f) PROVE Rest'
  BY <1>2, <1>a DEF GetLookup, Found, Active, Spend, TypeOK, Row, RequestState, ViewerState, Idle
<1>3. ASSUME NEW q \in Request, CreateLookup(q) PROVE Rest'
  BY <1>3, <1>a DEF CreateLookup, Found, Active, TypeOK, Row, RequestState, ViewerState, Idle
<1>4. ASSUME NEW q \in Request, CreateInsert(q) PROVE Rest'
  <2>1. request[q] \in [pc : {"insert"}, user : User, flight : Flight]
    BY <1>4, <1>a DEF CreateInsert, TypeOK, RequestState
  <2>2. CASE Active(request[q].user, request[q].flight) # {}
    BY <1>4, <1>a, <2>1, <2>2 DEF CreateInsert, TypeOK, RequestState
  <2>3. CASE Active(request[q].user, request[q].flight) = {}
    <3>1. PICK s \in Share :
            /\ row[s] = None
            /\ row' = [row EXCEPT ![s] = NewRow(request[q].user, request[q].flight)]
            /\ request' = [request EXCEPT ![q] = [pc |-> "answer", share |-> s]]
      BY <1>4, <2>3 DEF CreateInsert
    <3>2. /\ row'[s] # None /\ row'[s].hashed = secret /\ row'[s].view_count = 0
          /\ \A t \in Share \ {s} : row'[t] = row[t]
      <4>1. row'[s] = NewRow(request[q].user, request[q].flight)
        BY <3>1, <1>a DEF TypeOK
      <4>2. NewRow(request[q].user, request[q].flight) \in Row
        BY <2>1, <1>a DEF NewRow, Row, TypeOK
      <4>3. row'[s] # None
        BY <4>1, <4>2, NoneIsNoRow
      <4> QED
        BY <3>1, <4>1, <4>3, <1>a DEF NewRow, TypeOK
    <3>3. /\ request'[q].pc = "answer" /\ request'[q].share = s
          /\ \A p \in Request \ {q} : request'[p] = request[p]
      BY <3>1, <1>a DEF TypeOK
    <3> QED
      BY SMTT(30), <1>4, <1>a, <3>1, <3>2, <3>3 DEF CreateInsert, TypeOK, RequestState, ViewerState
  <2> QED
    BY <2>2, <2>3
<1>5. ASSUME NEW q \in Request, CreateConflict(q) PROVE Rest'
  BY <1>5, <1>a DEF CreateConflict, Found, Active, TypeOK, Row, RequestState, ViewerState, Idle
<1>6. ASSUME NEW q \in Request, Rekey(q) PROVE Rest'
  BY <1>6, RekeyKeeps
<1>7. ASSUME NEW q \in Request, Answer(q) PROVE Rest'
  BY <1>7, <1>a DEF Answer, TypeOK, Row, RequestState, ViewerState, Idle
<1>8. ASSUME NEW u \in User, NEW f \in Flight, RevokeShare(u, f) PROVE Rest'
  <2>1. \A s \in Share : RowKept(row[s], row'[s])
    BY <1>8, <1>a, RevokedRowsKept DEF RevokeShare
  <2> QED
    BY <1>8, <1>a, <2>1 DEF RevokeShare, RowKept, TypeOK, RequestState, ViewerState
<1>9. ASSUME NEW u \in User, NEW f \in Flight, RemoveFlight(u, f) PROVE Rest'
  <2>1. \A s \in Share : RowKept(row[s], row'[s])
    BY <1>9, <1>a, RevokedRowsKept DEF RemoveFlight
  <2> QED
    BY <1>9, <1>a, <2>1 DEF RemoveFlight, RowKept, TypeOK, RequestState, ViewerState
<1>10. ASSUME NEW u \in User, NEW f \in Flight, AssignFlight(u, f) PROVE Rest'
  BY <1>10, <1>a DEF AssignFlight, Spend, TypeOK, Row, RequestState, ViewerState, Idle
<1>11. ASSUME NEW u \in User, DeleteUser(u) PROVE Rest'
  <2>1. \A s \in Share : RowKept(row[s], row'[s])
    BY <1>11, <1>a, DeletedRowsKept
  <2>2. UNCHANGED <<secret, request, viewer, handed, current, viewed>>
    BY <1>11 DEF DeleteUser
  <2> QED
    BY SMTT(30), <1>a, <2>1, <2>2 DEF RowKept, TypeOK, RequestState, ViewerState
<1>12. ASSUME NEW f \in Flight, FlightMoves(f) PROVE Rest'
  BY <1>12, <1>a DEF FlightMoves, TypeOK, Row, RequestState, ViewerState, Idle
<1>13. ASSUME NEW v \in Viewer, NEW h \in handed, OpenPage(v, h) PROVE Rest'
  BY <1>13, <1>a DEF OpenPage, Resolves, Spend, TypeOK, Row, RequestState, ViewerState, Idle
<1>14. ASSUME NEW v \in Viewer, RecordView(v) PROVE Rest'
  BY <1>14, RecordViewKeeps
<1>15. ASSUME Restart PROVE Rest'
  BY <1>15, <1>a DEF Restart, Spend, TypeOK, Row, RequestState, ViewerState, Idle
<1>16. ASSUME NEW v \in Viewer, LoseView(v) PROVE Rest'
  <2>1. UNCHANGED <<row, secret, request, current, viewed>>
    BY <1>16 DEF LoseView
  <2>2. \A x \in Viewer : viewer'[x].pc = "shown" => viewer'[x] = viewer[x]
    BY <1>16, <1>a DEF LoseView, TypeOK, Idle
  <2> QED
    BY <2>1, <2>2
<1>30. CASE UNCHANGED vars
  BY <1>30, <1>a DEF vars
<1> QED
  BY <1>a, <1>1, <1>2, <1>3, <1>4, <1>5, <1>6, <1>7, <1>8,
     <1>9, <1>10, <1>11, <1>12, <1>13, <1>14, <1>15, <1>16, <1>30 DEF Next

LEMMA AlwaysIInv == Spec => []IInv
<1>1. IInv /\ [Next]_vars => IInv'
  BY NextIInv
<1> QED
  BY <1>1, InitIInv, PTL DEF Spec

-----------------------------------------------------------------------------
\* No step revives a revoked row or gives it to another account.
LEMMA NextRevoked ==
  ASSUME IInv, [Next]_vars, NEW s \in Share, row[s] # None, row[s].revoked
  PROVE  row'[s].revoked /\ row'[s].user \in {row[s].user, Deleted}
<1> DEFINE Goal == row'[s].revoked /\ row'[s].user \in {row[s].user, Deleted}
<1>a. TypeOK /\ FoundInv /\ ShownInv /\ row[s] \in Row
  BY DEF IInv, TypeOK
<1>b. row' = row => Goal
  OBVIOUS
<1>c. RowKept(row[s], row'[s]) => Goal
  BY DEF RowKept
<1>1. ASSUME NEW q \in Request, CreateInsert(q) PROVE Goal
  BY <1>1, <1>a DEF CreateInsert, TypeOK
<1>2. ASSUME NEW q \in Request, Rekey(q) PROVE Goal
  <2>1. row'[s] = row[s] \/ row'[s] = Rekeyed(row[s], request[q].copy)
    BY <1>2, <1>a DEF Rekey, TypeOK
  <2> QED
    BY <2>1, <1>a DEF Rekeyed, Row
<1>3. ASSUME NEW u \in User, NEW f \in Flight, RevokeShare(u, f) \/ RemoveFlight(u, f) PROVE Goal
  BY <1>3, <1>a, <1>c, RevokedRowsKept DEF RevokeShare, RemoveFlight
<1>4. ASSUME NEW u \in User, DeleteUser(u) PROVE Goal
  BY <1>4, <1>a, <1>c, DeletedRowsKept
<1>5. ASSUME NEW v \in Viewer, RecordView(v) PROVE Goal
  <2>1. row'[s] = row[s] \/ row'[s] = Counted(row[s], viewer[v].copy)
    BY <1>5, <1>a DEF RecordView, TypeOK
  <2> QED
    BY <2>1, <1>a DEF Counted, Row
<1>6. ASSUME NEW q \in Request, NEW u \in User, NEW f \in Flight,
             CreateCheck(q, u, f) \/ GetLookup(q, u, f)
      PROVE  row' = row
  BY <1>6 DEF CreateCheck, GetLookup
<1>7. ASSUME NEW q \in Request, CreateLookup(q) \/ CreateConflict(q) \/ Answer(q)
      PROVE  row' = row
  BY <1>7 DEF CreateLookup, CreateConflict, Answer
<1>8. ASSUME NEW u \in User, NEW f \in Flight, AssignFlight(u, f) PROVE row' = row
  BY <1>8 DEF AssignFlight
<1>9. ASSUME NEW v \in Viewer, NEW h \in handed, OpenPage(v, h) PROVE row' = row
  BY <1>9 DEF OpenPage
<1>10. Restart => row' = row
  BY DEF Restart
<1>14. ASSUME NEW v \in Viewer, LoseView(v) PROVE row' = row
  BY <1>14 DEF LoseView
<1>11. ASSUME NEW f \in Flight, FlightMoves(f) PROVE row' = row
  BY <1>11 DEF FlightMoves
<1>12. UNCHANGED vars => row' = row
  BY DEF vars
<1> HIDE DEF Goal
<1>13. Goal
  BY <1>b, <1>1, <1>2, <1>3, <1>4, <1>5, <1>6, <1>7, <1>8, <1>9, <1>10, <1>11, <1>12, <1>14 DEF Next
<1> QED
  BY <1>13 DEF Goal

-----------------------------------------------------------------------------
(* The properties. *)

\* Every variable keeps its type.
THEOREM TypeCorrect == Spec => []TypeOK
BY AlwaysIInv, PTL DEF IInv

\* A link an owner was given finds its row until the secret changes.
THEOREM HandedOutCorrect == Spec => []HandedOutResolves
BY AlwaysIInv, PTL DEF IInv

\* The count of a share is the number of views recorded.
THEOREM ViewsCorrect == Spec => []ViewsExact
BY AlwaysIInv, PTL DEF IInv

\* A revoked share stays revoked, with its owner or none, whichever requests
\* read it before.
THEOREM RevocationLasts == Spec => RevokedStaysDead
<1>1. IInv /\ [Next]_vars =>
        [\A s \in Share : (row[s] # None /\ row[s].revoked) =>
            row'[s].revoked /\ row'[s].user \in {row[s].user, Deleted}]_vars
  BY NextRevoked
<1> QED
  BY <1>1, AlwaysIInv, PTL DEF Spec, RevokedStaysDead

-----------------------------------------------------------------------------
(* FlightStore. *)

\* The least of some numbers, and the best of what has points up to a bound.
LEMMA FirstExists ==
  ASSUME NEW S \in SUBSET Nat, S # {}
  PROVE  First(S) \in S
<1>1. PICK m \in S : \A y \in S : ~(<<y, m>> \in OpToRel(<, Nat))
  BY WFMin, NatLessThanWellFounded
<1>2. \A y \in S : ~(y < m)
  BY <1>1 DEF OpToRel
<1>3. \A y \in S : m <= y
  BY <1>2
<1> QED BY <1>3 DEF First

LEMMA BestExists ==
  ASSUME NEW points, NEW b \in Nat, DOMAIN points # {}, \A x \in DOMAIN points : points[x] \in Nat /\ points[x] <= b
  PROVE  Best(points) # {}
<1> DEFINE T == {b - points[x] : x \in DOMAIN points}
<1>1. T \subseteq Nat /\ T # {}
  OBVIOUS
<1>2. PICK m \in T : \A y \in T : ~(<<y, m>> \in OpToRel(<, Nat))
  <2> HIDE DEF T
  <2> QED BY <1>1, WFMin, NatLessThanWellFounded
<1>3. \A y \in T : ~(y < m)
  <2> HIDE DEF T
  <2> QED BY <1>1, <1>2 DEF OpToRel
<1>4. PICK x \in DOMAIN points : m = b - points[x]
  BY <1>2
<1>5. ASSUME NEW y \in DOMAIN points
      PROVE  points[y] <= points[x]
  <2>1. b - points[y] \in T
    OBVIOUS
  <2>2. ~(b - points[y] < b - points[x])
    <3> HIDE DEF T
    <3> QED BY <1>3, <1>4, <2>1
  <2>3. points[x] \in Nat /\ points[y] \in Nat
    BY <1>4
  <2> HIDE DEF T
  <2> QED BY <2>2, <2>3
<1> QED BY <1>4, <1>5 DEF Best

-----------------------------------------------------------------------------
(* Which flight is meant. *)

\* The flight a lookup means is one of the listing.
LEMMA ListedIs ==
  ASSUME NEW listing, NEW usable \in SUBSET Nat, usable # {}, NEW c
  PROVE  \E i \in usable : SelectListed(listing, usable, c) = listing[i]
<1> DEFINE points == [i \in usable |-> ListedPoints(listing[i], c)]
<1>1. \A i \in usable : points[i] \in Nat /\ points[i] <= 120
  BY DEF ListedPoints
<1>2. DOMAIN points = usable
  OBVIOUS
<1> HIDE DEF points
<1>3. Best(points) # {} /\ Best(points) \subseteq usable
  BY <1>1, <1>2, BestExists DEF Best
<1>4. First(Best(points)) \in usable
  BY <1>3, FirstExists
<1> QED BY <1>4 DEF SelectListed, points

LEMMA MatchIs ==
  ASSUME NEW p \in Pick, NEW i \in DOMAIN p.candidates, NEW onRoute, NEW m, m = MatchOf(p.candidates[i], onRoute), m # None
  PROVE  \E k \in DOMAIN m.listing : m.live = m.listing[k]
<1> DEFINE c == p.candidates[i]
           days == MatchDays(c, onRoute)
           day == StoreDays[First(days)]
           listing == Listings[c.callsign][day]
           usable == Usable(listing, onRoute)
<1>1. days # {} /\ m = [day |-> day, listing |-> listing, live |-> SelectListed(listing, usable, c)]
  BY DEF MatchOf
<1>2. days \subseteq Nat /\ days \subseteq DOMAIN StoreDays
  BY FlightStoreAssumption DEF MatchDays
<1>3. First(days) \in days
  <2> HIDE DEF days
  <2> QED BY <1>1, <1>2, FirstExists
<1>4. usable # {}
  BY <1>3 DEF MatchDays
<1>5. usable \subseteq DOMAIN listing /\ usable \subseteq Nat
  BY <1>2, <1>3, FlightStoreAssumption DEF Usable
<1>6. \E k \in usable : SelectListed(listing, usable, c) = listing[k]
  <2> HIDE DEF usable, listing, c
  <2> QED BY <1>4, <1>5, ListedIs
<1>7. PICK k \in usable : SelectListed(listing, usable, c) = listing[k]
  BY <1>6
<1>8. m.listing = listing /\ m.live = listing[k] /\ k \in DOMAIN listing
  <2> HIDE DEF usable, listing, day, c, days
  <2> QED BY <1>1, <1>5, <1>7
<1> HIDE DEF usable, listing, day, c, days
<1> QED BY <1>8

\* The row that is taken has the number that is meant, or the aircraft that was picked if
\* none is known of that number.
Fits(r, live, c) ==
  \/ r.number = live.number
  \/ live.aircraft = None /\ c.aircraft # None /\ r.aircraft = c.aircraft

\* The points of a row, term by term.
PointsOf(x, live, c, first, second, third) ==
  /\ StoredPoints(x, live, c) = first + second + third
  /\ first = 20 <=> x.number = live.number
  /\ second = 30 <=> live.aircraft # None /\ Normal(x.aircraft) = live.aircraft
  /\ third = 40 <=> c.aircraft # None /\ x.aircraft = c.aircraft

LEMMA PointsAre ==
  ASSUME NEW x, NEW live, NEW c
  PROVE  \E own1 \in {0, 20}, own2 \in {0, 30}, own3 \in {0, 40} : PointsOf(x, live, c, own1, own2, own3)
<1>1. PICK own1 \in {0, 20} : own1 = IF x.number = live.number THEN 20 ELSE 0
  OBVIOUS
<1>2. PICK own2 \in {0, 30} : own2 = IF live.aircraft # None /\ Normal(x.aircraft) = live.aircraft THEN 30 ELSE 0
  OBVIOUS
<1>3. PICK own3 \in {0, 40} : own3 = IF c.aircraft # None /\ x.aircraft = c.aircraft THEN 40 ELSE 0
  OBVIOUS
<1>4. StoredPoints(x, live, c) = own1 + own2 + own3
  BY <1>1, <1>2, <1>3, Zenon DEF StoredPoints
<1>5. PointsOf(x, live, c, own1, own2, own3)
  BY <1>1, <1>2, <1>3, <1>4 DEF PointsOf
<1> QED BY <1>5

LEMMA Outweighed ==
  ASSUME NEW own2 \in {0, 30}, NEW own3 \in {0, 40}, NEW row2 \in {0, 30}, NEW row3 \in {0, 40}, 20 + own2 + own3 <= 0 + row2 + row3
  PROVE  (row2 = 0 => row3 = 40) /\ (own2 = 30 => row2 = 30 /\ row3 = 40 /\ own3 = 0)
OBVIOUS

LEMMA StoredIs ==
  ASSUME NEW rows, NEW live, NEW c, c.aircraft # "empty",
         NEW own \in rows, own.number = live.number, own.aircraft = live.aircraft,
         NEW r \in SelectStored(rows, live, c)
  PROVE  r \in rows /\ Fits(r, live, c)
<1>1. r \in rows /\ StoredPoints(own, live, c) <= StoredPoints(r, live, c)
  BY DEF SelectStored, Best
<1>2. PICK own1 \in {0, 20}, own2 \in {0, 30}, own3 \in {0, 40} : PointsOf(own, live, c, own1, own2, own3)
  BY PointsAre
<1>3. PICK row1 \in {0, 20}, row2 \in {0, 30}, row3 \in {0, 40} : PointsOf(r, live, c, row1, row2, row3)
  BY PointsAre
<1>4. own1 = 20 /\ own1 + own2 + own3 <= row1 + row2 + row3
  BY <1>1, <1>2, <1>3 DEF PointsOf
<1>5. SUFFICES ASSUME r.number # live.number
               PROVE  live.aircraft = None /\ row3 = 40
  BY <1>1, <1>3 DEF Fits, PointsOf
<1>6. row1 = 0
  BY <1>3, <1>5 DEF PointsOf
<1>7. (row2 = 0 => row3 = 40) /\ (own2 = 30 => row2 = 30 /\ row3 = 40 /\ own3 = 0)
  <2>1. 20 + own2 + own3 <= 0 + row2 + row3
    BY <1>4, <1>6
  <2> QED BY <2>1, Outweighed
<1>8. live.aircraft # None => own2 = 30
  BY <1>2 DEF Normal, PointsOf
<1>9. ~(row2 = 30 /\ row3 = 40 /\ own3 = 0)
  <2>1. SUFFICES ASSUME row2 = 30, row3 = 40
                 PROVE  own3 # 0
    OBVIOUS
  <2>2. Normal(r.aircraft) = live.aircraft /\ c.aircraft # None /\ r.aircraft = c.aircraft
    BY <1>3, <2>1 DEF PointsOf
  <2>3. own.aircraft = c.aircraft
    BY <2>2 DEF Normal
  <2>4. own3 = 40
    BY <1>2, <2>2, <2>3 DEF PointsOf
  <2> QED BY <2>4
<1>10. live.aircraft = None => row2 = 0
  BY <1>3 DEF PointsOf
<1>11. live.aircraft = None /\ row3 = 40
  BY <1>7, <1>8, <1>9, <1>10
<1> QED BY <1>11

-----------------------------------------------------------------------------
(* A request. *)

StorePhases == {"lookups", "insert", "commit", "read", "choose", "track", "board"}

IsRequest(q) ==
  /\ q = [no |-> q.no, pick |-> q.pick, phase |-> q.phase, at |-> q.at, task |-> q.task, settled |-> q.settled,
          lost |-> q.lost, linked |-> q.linked, match |-> q.match, found |-> q.found, fresh |-> q.fresh, row |-> q.row]
  /\ q.pick \in Pick /\ q.phase \in StorePhases
  /\ q.task = [i \in DOMAIN q.pick.candidates |-> q.task[i]]
  /\ q.phase \in {"lookups", "commit"} => q.pick.kind # "exact"
  /\ q.phase \in {"read", "choose", "track", "board"} => q.pick.kind = "exact"

Meaning(q, i) == MatchOf(q.pick.candidates[i], q.pick.kind = "several")

\* What a request on the map has settled was not found, or lost; the others wait for the
\* first.
MapInv(q) ==
  /\ \A i \in DOMAIN q.pick.candidates : q.task[i] = "match" => Meaning(q, i) # None
  /\ \A i \in q.settled : q.task[i] # "running"
  /\ 1 \in q.settled => q.task[1] = "none" \/ 1 \in q.lost
  /\ q.phase # "commit" => q.fresh = {}
  /\ q.phase \in {"insert", "commit"} => q.at \in DOMAIN q.pick.candidates /\ (q.at # 1 => 1 \in q.settled)
  /\ q.phase = "insert" => q.match = Meaning(q, q.at) /\ q.match # None /\ q.task[q.at] = "match"
  /\ q.phase = "commit" => q.row.day = Meaning(q, q.at).day /\ Fits(q.row, Meaning(q, q.at).live, q.pick.candidates[q.at])

\* What it has in hand is stored, or is its own.
HandInv(q, rows) ==
  /\ \A r \in q.fresh : r.id[1] = q.no /\ (q.pick.kind # "exact" => r.id[2] = q.at)
  /\ q.phase \in {"commit", "track"} => q.row \in rows \cup q.fresh
  /\ q.phase = "choose" => q.found \subseteq rows \cup q.fresh
  /\ q.phase = "track" => q.row.airport = q.pick.airport /\ q.row.time = q.pick.time

RequestOK(q, rows) == IsRequest(q) /\ (q.pick.kind # "exact" => MapInv(q)) /\ HandInv(q, rows)

HandlingInv ==
  /\ handling = [w \in Handler |-> handling[w]]
  /\ \A w \in Handler : handling[w] # None => RequestOK(handling[w], stored)

StoreInv == HandlingInv /\ AnsweredAsPicked

\* Rows only come.
LEMMA RequestStays ==
  ASSUME HandlingInv, NEW w \in Handler, NEW q, handling' = [handling EXCEPT ![w] = q], stored \subseteq stored',
         q = None \/ RequestOK(q, stored')
  PROVE  HandlingInv'
<1>1. handling' = [v \in Handler |-> handling'[v]]
  BY DEF HandlingInv
<1>2. ASSUME NEW v \in Handler, handling'[v] # None
      PROVE  RequestOK(handling'[v], stored')
  <2>1. CASE v = w
    BY <1>2, <2>1 DEF HandlingInv
  <2>2. CASE v # w
    <3>1. handling'[v] = handling[v] /\ RequestOK(handling[v], stored)
      BY <1>2, <2>2 DEF HandlingInv
    <3>2. HandInv(handling[v], stored')
      BY <3>1 DEF RequestOK, HandInv
    <3> QED BY <3>1, <3>2 DEF RequestOK
  <2> QED BY <2>1, <2>2
<1> QED BY <1>1, <1>2 DEF HandlingInv, RequestOK, HandInv

\* A step that answers nothing.
LEMMA UnansweredKeeps ==
  ASSUME StoreInv, NEW w \in Handler, NEW q, handling' = [handling EXCEPT ![w] = q],
         UNCHANGED <<stored, flightLink, given>>, q = None \/ RequestOK(q, stored)
  PROVE  StoreInv'
<1>1. HandlingInv'
  BY RequestStays DEF StoreInv
<1>2. AnsweredAsPicked'
  BY DEF StoreInv, AnsweredAsPicked
<1> QED BY <1>1, <1>2 DEF StoreInv

LEMMA BeginRequestKeeps ==
  ASSUME StoreInv, NEW w \in Handler, NEW p \in Pick, BeginRequest(w, p)
  PROVE  StoreInv'
<1> DEFINE q == NewRequest(p)
<1>1. IsRequest(q)
  BY DEF IsRequest, NewRequest, StorePhases
<1>2. MapInv(q)
  BY DEF MapInv, NewRequest
<1>3. HandInv(q, stored)
  BY DEF HandInv, NewRequest
<1>4. RequestOK(q, stored)
  BY <1>1, <1>2, <1>3 DEF RequestOK
<1> HIDE DEF q
<1>5. handling' = [handling EXCEPT ![w] = q] /\ UNCHANGED <<stored, flightLink, given>>
  BY DEF BeginRequest, q
<1> QED BY <1>4, <1>5, UnansweredKeeps

LEMMA LookupEndsKeeps ==
  ASSUME StoreInv, NEW w \in Handler, handling[w] # None, NEW i \in DOMAIN Picked(w).candidates, LookupEnds(w, i)
  PROVE  StoreInv'
<1>1. PICK p : p = handling[w]
  OBVIOUS
<1>2. PICK how \in {"none", "match"} :
        /\ handling' = [handling EXCEPT ![w] = [p EXCEPT !.task[i] = how]]
        /\ how = "match" => Meaning(p, i) # None
  BY <1>1 DEF LookupEnds, Becomes, Meaning, Candidate, Picked
<1>3. p.pick.kind # "exact" /\ p.task[i] = "running" /\ i \in DOMAIN p.pick.candidates
      /\ UNCHANGED <<stored, flightLink, given>>
  BY <1>1 DEF LookupEnds, Picked
<1>4. IsRequest(p) /\ MapInv(p) /\ HandInv(p, stored)
  BY <1>1, <1>3 DEF StoreInv, HandlingInv, RequestOK
<1>5. PICK t : t = [p.task EXCEPT ![i] = how]
  OBVIOUS
<1>6. /\ t = [j \in DOMAIN p.pick.candidates |-> t[j]] /\ t[i] = how
      /\ \A j \in DOMAIN p.pick.candidates : j # i => t[j] = p.task[j]
      /\ \A j : j \notin DOMAIN p.pick.candidates => t[j] = p.task[j]
  BY <1>3, <1>4, <1>5 DEF IsRequest
<1>7. PICK q : q = [p EXCEPT !.task = t]
  OBVIOUS
<1>8. /\ q = [no |-> p.no, pick |-> p.pick, phase |-> p.phase, at |-> p.at, task |-> t, settled |-> p.settled,
              lost |-> p.lost, linked |-> p.linked, match |-> p.match, found |-> p.found, fresh |-> p.fresh, row |-> p.row]
  BY <1>4, <1>7 DEF IsRequest
<1>9. IsRequest(q)
  BY <1>4, <1>6, <1>8 DEF IsRequest
<1>10. MapInv(q)
  BY <1>2, <1>3, <1>4, <1>6, <1>8 DEF MapInv, Meaning
<1>11. HandInv(q, stored)
  BY <1>4, <1>8 DEF HandInv
<1>12. handling' = [handling EXCEPT ![w] = q]
  BY <1>2, <1>5, <1>7
<1> QED BY <1>3, <1>9, <1>10, <1>11, <1>12, UnansweredKeeps DEF RequestOK

\* The request of a handler.
LEMMA RequestIs ==
  ASSUME StoreInv, NEW w \in Handler, handling[w] # None
  PROVE  IsRequest(handling[w]) /\ HandInv(handling[w], stored) /\ (handling[w].pick.kind # "exact" => MapInv(handling[w]))
BY DEF StoreInv, HandlingInv, RequestOK

LEMMA SettleKeeps ==
  ASSUME StoreInv, NEW w \in Handler, handling[w] # None, NEW i \in DOMAIN Picked(w).candidates, Settle(w, i)
  PROVE  StoreInv'
<1>1. PICK p : p = handling[w]
  OBVIOUS
<1>2. PICK m : m = Meaning(p, i)
  OBVIOUS
<1>3. PICK rows : rows = StoredFlights(w, m.live.number, m.day)
  OBVIOUS
<1>4. i \in DOMAIN p.pick.candidates /\ p.phase = "lookups" /\ p.task[i] \in {"none", "match"}
      /\ (i = 1 \/ 1 \in p.settled) /\ UNCHANGED <<stored, flightLink, given>>
  BY <1>1 DEF Settle, TurnOf, Picked
<1>5. IsRequest(p) /\ HandInv(p, stored)
  BY <1>1, RequestIs
<1>6. p.pick.kind # "exact" /\ MapInv(p)
  BY <1>1, <1>4, <1>5, RequestIs DEF IsRequest
<1>7. \/ /\ p.task[i] = "none"
         /\ handling' = [handling EXCEPT ![w] = [p EXCEPT !.settled = @ \cup {i}]]
      \/ /\ p.task[i] = "match" /\ rows = {}
         /\ handling' = [handling EXCEPT ![w] = [p EXCEPT !.phase = "insert", !.at = i, !.match = m]]
      \/ /\ p.task[i] = "match"
         /\ \E r \in SelectStored(rows, m.live, p.pick.candidates[i]) :
              handling' = [handling EXCEPT ![w] = [p EXCEPT !.phase = "commit", !.at = i, !.row = r]]
  BY <1>1, <1>2, <1>3, <1>4 DEF Settle, Becomes, Meaning, Candidate, Picked
<1>8. CASE p.task[i] = "none" /\ handling' = [handling EXCEPT ![w] = [p EXCEPT !.settled = @ \cup {i}]]
  <2>1. PICK q : q = [p EXCEPT !.settled = @ \cup {i}]
    OBVIOUS
  <2>2. q = [no |-> p.no, pick |-> p.pick, phase |-> p.phase, at |-> p.at, task |-> p.task, settled |-> p.settled \cup {i},
             lost |-> p.lost, linked |-> p.linked, match |-> p.match, found |-> p.found, fresh |-> p.fresh, row |-> p.row]
    BY <1>5, <2>1 DEF IsRequest
  <2>3. IsRequest(q) /\ HandInv(q, stored)
    BY <1>5, <2>2 DEF IsRequest, HandInv
  <2>4. MapInv(q)
    BY <1>4, <1>6, <1>8, <2>2 DEF MapInv, Meaning
  <2> QED BY <1>4, <1>8, <2>1, <2>3, <2>4, UnansweredKeeps DEF RequestOK
<1>9. CASE /\ p.task[i] = "match" /\ rows = {}
           /\ handling' = [handling EXCEPT ![w] = [p EXCEPT !.phase = "insert", !.at = i, !.match = m]]
  <2>1. PICK q : q = [p EXCEPT !.phase = "insert", !.at = i, !.match = m]
    OBVIOUS
  <2>2. q = [no |-> p.no, pick |-> p.pick, phase |-> "insert", at |-> i, task |-> p.task, settled |-> p.settled,
             lost |-> p.lost, linked |-> p.linked, match |-> m, found |-> p.found, fresh |-> p.fresh, row |-> p.row]
    BY <1>5, <2>1 DEF IsRequest
  <2>3. p.fresh = {} /\ m # None
    BY <1>2, <1>4, <1>6, <1>9 DEF MapInv
  <2>4. IsRequest(q)
    BY <1>5, <1>6, <2>2 DEF IsRequest, StorePhases
  <2>5. HandInv(q, stored)
    BY <2>2, <2>3 DEF HandInv
  <2>6. MapInv(q)
    BY <1>2, <1>4, <1>6, <1>9, <2>2, <2>3 DEF MapInv, Meaning
  <2> QED BY <1>4, <1>9, <2>1, <2>4, <2>5, <2>6, UnansweredKeeps DEF RequestOK
<1>10. ASSUME p.task[i] = "match", NEW r \in SelectStored(rows, m.live, p.pick.candidates[i]),
              handling' = [handling EXCEPT ![w] = [p EXCEPT !.phase = "commit", !.at = i, !.row = r]]
       PROVE  StoreInv'
  <2>1. PICK q : q = [p EXCEPT !.phase = "commit", !.at = i, !.row = r]
    OBVIOUS
  <2>2. q = [no |-> p.no, pick |-> p.pick, phase |-> "commit", at |-> i, task |-> p.task, settled |-> p.settled,
             lost |-> p.lost, linked |-> p.linked, match |-> p.match, found |-> p.found, fresh |-> p.fresh, row |-> r]
    BY <1>5, <2>1 DEF IsRequest
  <2>3. p.fresh = {}
    BY <1>4, <1>6 DEF MapInv
  <2>4. r \in rows
    BY <1>10 DEF SelectStored, Best
  <2>5. r \in stored /\ r.number = m.live.number /\ r.day = m.day
    BY <1>1, <1>3, <2>3, <2>4 DEF StoredFlights
  <2>6. IsRequest(q)
    BY <1>5, <1>6, <2>2 DEF IsRequest, StorePhases
  <2>7. HandInv(q, stored)
    BY <2>2, <2>3, <2>5 DEF HandInv
  <2>8. MapInv(q)
    BY <1>2, <1>4, <1>6, <1>10, <2>2, <2>5 DEF MapInv, Meaning, Fits
  <2> QED BY <1>4, <1>10, <2>1, <2>6, <2>7, <2>8, UnansweredKeeps DEF RequestOK
<1> QED BY <1>7, <1>8, <1>9, <1>10

\* Its own rows are numbered as it is.
LEMMA NewRowsAre ==
  ASSUME NEW w, NEW listing, NEW day, NEW r \in NewRows(w, listing, day)
  PROVE  r.id[1] = handling[w].no /\ r.id[2] = handling[w].at /\ r.day = day
BY DEF NewRows

LEMMA InsertKeeps ==
  ASSUME StoreInv, NEW w \in Handler, Insert(w)
  PROVE  StoreInv'
<1>1. PICK p : p = handling[w]
  OBVIOUS
<1>2. PICK m : m = p.match
  OBVIOUS
<1>3. PICK rows : rows = NewRows(w, m.listing, m.day)
  OBVIOUS
<1>4. p # None /\ p.phase = "insert" /\ UNCHANGED <<stored, flightLink, given>>
  BY <1>1 DEF Insert
<1>5. IsRequest(p) /\ HandInv(p, stored)
  BY <1>1, <1>4, RequestIs
<1>6. \A r \in rows : r.id[1] = p.no /\ r.id[2] = p.at /\ r.day = m.day
  BY <1>1, <1>3, NewRowsAre
<1>7. CASE p.pick.kind = "exact"
  <2>1. PICK q : q = [p EXCEPT !.phase = "choose", !.found = rows, !.fresh = @ \cup rows]
    OBVIOUS
  <2>2. q = [no |-> p.no, pick |-> p.pick, phase |-> "choose", at |-> p.at, task |-> p.task, settled |-> p.settled,
             lost |-> p.lost, linked |-> p.linked, match |-> p.match, found |-> rows, fresh |-> p.fresh \cup rows, row |-> p.row]
    BY <1>5, <2>1 DEF IsRequest
  <2>3. handling' = [handling EXCEPT ![w] = q]
    BY <1>1, <1>2, <1>3, <1>7, <2>1 DEF Insert, Becomes, Picked
  <2>4. IsRequest(q)
    BY <1>5, <1>7, <2>2 DEF IsRequest, StorePhases
  <2>5. HandInv(q, stored)
    BY <1>5, <1>6, <1>7, <2>2 DEF HandInv
  <2> QED BY <1>4, <1>7, <2>2, <2>3, <2>4, <2>5, UnansweredKeeps DEF RequestOK
<1>8. CASE p.pick.kind # "exact"
  <2>1. PICK c : c = p.pick.candidates[p.at]
    OBVIOUS
  <2>2. PICK r \in SelectStored(rows, m.live, c) :
          handling' = [handling EXCEPT ![w] = [p EXCEPT !.phase = "commit", !.row = r, !.fresh = rows]]
    BY <1>1, <1>2, <1>3, <1>8, <2>1 DEF Insert, Becomes, Picked, Candidate
  <2>3. MapInv(p)
    BY <1>1, <1>4, <1>8, RequestIs
  <2>4. p.at \in DOMAIN p.pick.candidates /\ m = Meaning(p, p.at) /\ m # None /\ p.pick \in Pick
    BY <1>2, <1>4, <1>5, <2>3 DEF MapInv, IsRequest
  <2>5. PICK k \in DOMAIN m.listing : m.live = m.listing[k]
    <3>1. PICK onRoute : onRoute = (p.pick.kind = "several")
      OBVIOUS
    <3>2. m = MatchOf(p.pick.candidates[p.at], onRoute)
      BY <2>4, <3>1 DEF Meaning
    <3> QED BY <2>4, <3>2, MatchIs
  <2>6. PICK own : own = [id |-> <<handling[w].no, handling[w].at, k>>, day |-> m.day, number |-> m.listing[k].number,
                          aircraft |-> m.listing[k].aircraft, airport |-> m.listing[k].airport, time |-> m.listing[k].time]
    OBVIOUS
  <2>7. own \in rows
    BY <1>3, <2>5, <2>6 DEF NewRows
  <2>8. own.number = m.live.number /\ own.aircraft = m.live.aircraft
    BY <2>5, <2>6
  <2>9. c.aircraft # "empty"
    BY <2>1, <2>4, FlightStoreAssumption
  <2>10. r \in rows /\ Fits(r, m.live, c)
    BY <2>2, <2>7, <2>8, <2>9, StoredIs
  <2>11. PICK q : q = [p EXCEPT !.phase = "commit", !.row = r, !.fresh = rows]
    OBVIOUS
  <2>12. q = [no |-> p.no, pick |-> p.pick, phase |-> "commit", at |-> p.at, task |-> p.task, settled |-> p.settled,
              lost |-> p.lost, linked |-> p.linked, match |-> p.match, found |-> p.found, fresh |-> rows, row |-> r]
    BY <1>5, <2>11 DEF IsRequest
  <2>13. IsRequest(q)
    BY <1>5, <1>8, <2>12 DEF IsRequest, StorePhases
  <2>14. HandInv(q, stored)
    BY <1>6, <2>10, <2>12 DEF HandInv
  <2>15. MapInv(q)
    BY <1>4, <1>6, <2>1, <2>3, <2>4, <2>10, <2>12 DEF MapInv, Meaning
  <2> QED BY <1>4, <2>2, <2>11, <2>13, <2>14, <2>15, UnansweredKeeps DEF RequestOK
<1> QED BY <1>7, <1>8

LEMMA InsertFailsKeeps ==
  ASSUME StoreInv, NEW w \in Handler, InsertFails(w)
  PROVE  StoreInv'
<1>1. PICK p : p = handling[w]
  OBVIOUS
<1>2. p # None /\ p.phase = "insert" /\ UNCHANGED <<stored, flightLink, given>>
  BY <1>1 DEF InsertFails
<1>3. IsRequest(p) /\ HandInv(p, stored)
  BY <1>1, <1>2, RequestIs
<1>4. CASE p.pick.kind = "exact"
  <2>1. PICK q : q = [p EXCEPT !.phase = "choose", !.found = {}, !.fresh = {}]
    OBVIOUS
  <2>2. q = [no |-> p.no, pick |-> p.pick, phase |-> "choose", at |-> p.at, task |-> p.task, settled |-> p.settled,
             lost |-> p.lost, linked |-> p.linked, match |-> p.match, found |-> {}, fresh |-> {}, row |-> p.row]
    BY <1>3, <2>1 DEF IsRequest
  <2>3. handling' = [handling EXCEPT ![w] = q]
    BY <1>1, <1>4, <2>1 DEF InsertFails, Becomes, Picked
  <2>4. IsRequest(q)
    BY <1>3, <1>4, <2>2 DEF IsRequest, StorePhases
  <2>5. HandInv(q, stored)
    BY <2>2 DEF HandInv
  <2> QED BY <1>2, <1>4, <2>2, <2>3, <2>4, <2>5, UnansweredKeeps DEF RequestOK
<1>5. CASE p.pick.kind # "exact"
  <2>1. PICK q : q = [p EXCEPT !.phase = "lookups", !.settled = @ \cup {p.at}, !.lost = @ \cup {p.at}]
    OBVIOUS
  <2>2. q = [no |-> p.no, pick |-> p.pick, phase |-> "lookups", at |-> p.at, task |-> p.task, settled |-> p.settled \cup {p.at},
             lost |-> p.lost \cup {p.at}, linked |-> p.linked, match |-> p.match, found |-> p.found, fresh |-> p.fresh, row |-> p.row]
    BY <1>3, <2>1 DEF IsRequest
  <2>3. handling' = [handling EXCEPT ![w] = q]
    BY <1>1, <1>5, <2>1 DEF InsertFails, Becomes, Picked
  <2>4. MapInv(p)
    BY <1>1, <1>2, <1>5, RequestIs
  <2>5. IsRequest(q)
    BY <1>3, <1>5, <2>2 DEF IsRequest, StorePhases
  <2>6. HandInv(q, stored)
    BY <1>2, <2>2, <2>4 DEF HandInv, MapInv
  <2>7. MapInv(q)
    BY <1>2, <2>2, <2>4 DEF MapInv, Meaning
  <2> QED BY <1>2, <2>3, <2>5, <2>6, <2>7, UnansweredKeeps DEF RequestOK
<1> QED BY <1>4, <1>5

-----------------------------------------------------------------------------
(* Answers. *)

GivenOK(g, rows, links) ==
  /\ g.row \in rows
  /\ g.pick.kind = "several" /\ g.at # 1 => g.firstFailed
  /\ g.pick.kind # "exact" =>
       LET c == g.pick.candidates[g.at]
           m == MatchOf(c, g.pick.kind = "several")
       IN g.row.day = m.day /\ Fits(g.row, m.live, c)
  /\ g.track => <<g.pick.user, g.row.id>> \in links /\ g.row.airport = g.pick.airport /\ g.row.time = g.pick.time

Numbered(r, g) == g.no = r.id[1] /\ (g.pick.kind = "exact" \/ g.at = r.id[2])

LEMMA AnswersAre == AnsweredAsPicked <=> /\ \A g \in given : GivenOK(g, stored, flightLink)
                                         /\ \A r \in stored : \E g \in given : Numbered(r, g)
BY DEF AnsweredAsPicked, GivenOK, Numbered, Fits

LEMMA AnswerKeeps ==
  ASSUME StoreInv, NEW w \in Handler, handling' = [handling EXCEPT ![w] = None],
         NEW g, given' = given \cup {g}, stored \subseteq stored', flightLink \subseteq flightLink',
         GivenOK(g, stored', flightLink'), \A r \in stored' : r \in stored \/ Numbered(r, g)
  PROVE  StoreInv'
<1>1. HandlingInv'
  <2>1. HandlingInv
    BY DEF StoreInv
  <2> QED BY <2>1, RequestStays
<1>2. /\ \A h \in given : GivenOK(h, stored, flightLink)
      /\ \A r \in stored : \E h \in given : Numbered(r, h)
  BY AnswersAre DEF StoreInv
<1>3. \A h \in given' : GivenOK(h, stored', flightLink')
  BY <1>2 DEF GivenOK
<1>4. \A r \in stored' : \E h \in given' : Numbered(r, h)
  BY <1>2
<1>5. AnsweredAsPicked'
  BY <1>3, <1>4 DEF AnsweredAsPicked, GivenOK, Numbered, Fits
<1> QED BY <1>1, <1>5 DEF StoreInv

LEMMA CommitResolvedKeeps ==
  ASSUME StoreInv, NEW w \in Handler, CommitResolved(w)
  PROVE  StoreInv'
<1>1. PICK p : p = handling[w]
  OBVIOUS
<1>2. PICK g : g = [no |-> p.no, pick |-> p.pick, at |-> p.at, row |-> p.row, track |-> FALSE,
                    firstFailed |-> p.task[1] = "none" \/ 1 \in p.lost]
  OBVIOUS
<1>3. /\ p # None /\ p.phase = "commit" /\ handling' = [handling EXCEPT ![w] = None]
      /\ given' = given \cup {g} /\ stored' = stored \cup p.fresh /\ flightLink' = flightLink
  BY <1>1, <1>2 DEF CommitResolved, AnswerPick, Ends, Picked
<1>4. IsRequest(p) /\ HandInv(p, stored)
  BY <1>1, <1>3, RequestIs
<1>5. p.pick.kind # "exact" /\ MapInv(p)
  BY <1>1, <1>3, <1>4, RequestIs DEF IsRequest
<1>6. p.row \in stored'
  BY <1>3, <1>4 DEF HandInv
<1>7. p.at # 1 => p.task[1] = "none" \/ 1 \in p.lost
  BY <1>3, <1>5 DEF MapInv
<1>8. p.row.day = Meaning(p, p.at).day /\ Fits(p.row, Meaning(p, p.at).live, p.pick.candidates[p.at])
  BY <1>3, <1>5 DEF MapInv
<1>9. GivenOK(g, stored', flightLink')
  BY <1>2, <1>6, <1>7, <1>8 DEF GivenOK, Meaning
<1>10. \A r \in stored' : r \in stored \/ Numbered(r, g)
  BY <1>2, <1>3, <1>4, <1>5 DEF HandInv, Numbered
<1> QED BY <1>3, <1>9, <1>10, AnswerKeeps

LEMMA RequestFailsKeeps ==
  ASSUME StoreInv, NEW w \in Handler, RequestFails(w)
  PROVE  StoreInv'
BY UnansweredKeeps DEF RequestFails, Ends

-----------------------------------------------------------------------------
(* A flight of the search. *)

LEMMA NextNumberKeeps ==
  ASSUME StoreInv, NEW w \in Handler, handling[w] # None, handling[w].pick.kind = "exact",
         handling' = [handling EXCEPT ![w] = NextNumber(w)], UNCHANGED <<stored, flightLink, given>>
  PROVE  StoreInv'
<1>1. PICK p : p = handling[w]
  OBVIOUS
<1>2. IsRequest(p) /\ HandInv(p, stored)
  BY <1>1, RequestIs
<1>3. PICK phase : phase = IF p.at < Len(p.pick.candidates) THEN "read" ELSE "board"
  OBVIOUS
<1>4. PICK at : at = IF p.at < Len(p.pick.candidates) THEN p.at + 1 ELSE 1
  OBVIOUS
<1>5. phase \in {"read", "board"} /\ NextNumber(w) = [p EXCEPT !.phase = phase, !.at = at]
  BY <1>1, <1>3, <1>4 DEF NextNumber, Picked
<1>6. PICK q : q = [p EXCEPT !.phase = phase, !.at = at]
  OBVIOUS
<1>7. q = [no |-> p.no, pick |-> p.pick, phase |-> phase, at |-> at, task |-> p.task, settled |-> p.settled,
           lost |-> p.lost, linked |-> p.linked, match |-> p.match, found |-> p.found, fresh |-> p.fresh, row |-> p.row]
  BY <1>2, <1>6 DEF IsRequest
<1>8. IsRequest(q)
  BY <1>1, <1>2, <1>5, <1>7 DEF IsRequest, StorePhases
<1>9. HandInv(q, stored)
  BY <1>1, <1>2, <1>5, <1>7 DEF HandInv
<1>10. RequestOK(q, stored)
  BY <1>1, <1>7, <1>8, <1>9 DEF RequestOK
<1>11. handling' = [handling EXCEPT ![w] = q]
  BY <1>5, <1>6
<1> QED BY <1>10, <1>11, UnansweredKeeps

LEMMA ReadExactKeeps ==
  ASSUME StoreInv, NEW w \in Handler, ReadExact(w)
  PROVE  StoreInv'
<1>1. PICK p : p = handling[w]
  OBVIOUS
<1>2. PICK rows : rows = StoredFlights(w, Candidate(w, p.at).callsign, p.pick.day)
  OBVIOUS
<1>3. PICK m : m = [listing |-> Listings[Candidate(w, p.at).callsign][p.pick.day], day |-> p.pick.day]
  OBVIOUS
<1>4. p # None /\ p.phase = "read" /\ UNCHANGED <<stored, flightLink, given>>
  BY <1>1 DEF ReadExact
<1>5. IsRequest(p) /\ HandInv(p, stored) /\ p.pick.kind = "exact"
  BY <1>1, <1>4, RequestIs DEF IsRequest
<1>6. \/ handling' = [handling EXCEPT ![w] = [p EXCEPT !.phase = "choose", !.found = rows]]
      \/ handling' = [handling EXCEPT ![w] = NextNumber(w)]
      \/ handling' = [handling EXCEPT ![w] = [p EXCEPT !.phase = "insert", !.match = m]]
  BY <1>1, <1>2, <1>3, Zenon DEF ReadExact, Becomes, Picked
<1>7. CASE handling' = [handling EXCEPT ![w] = [p EXCEPT !.phase = "choose", !.found = rows]]
  <2>1. PICK q : q = [p EXCEPT !.phase = "choose", !.found = rows]
    OBVIOUS
  <2>2. q = [no |-> p.no, pick |-> p.pick, phase |-> "choose", at |-> p.at, task |-> p.task, settled |-> p.settled,
             lost |-> p.lost, linked |-> p.linked, match |-> p.match, found |-> rows, fresh |-> p.fresh, row |-> p.row]
    BY <1>5, <2>1 DEF IsRequest
  <2>3. rows \subseteq stored \cup p.fresh
    BY <1>1, <1>2 DEF StoredFlights
  <2>4. IsRequest(q)
    BY <1>5, <2>2 DEF IsRequest, StorePhases
  <2>5. HandInv(q, stored)
    BY <1>5, <2>2, <2>3 DEF HandInv
  <2> QED BY <1>4, <1>5, <1>7, <2>1, <2>2, <2>4, <2>5, UnansweredKeeps DEF RequestOK
<1>8. CASE handling' = [handling EXCEPT ![w] = NextNumber(w)]
  BY <1>1, <1>4, <1>5, <1>8, NextNumberKeeps
<1>9. CASE handling' = [handling EXCEPT ![w] = [p EXCEPT !.phase = "insert", !.match = m]]
  <2>1. PICK q : q = [p EXCEPT !.phase = "insert", !.match = m]
    OBVIOUS
  <2>2. q = [no |-> p.no, pick |-> p.pick, phase |-> "insert", at |-> p.at, task |-> p.task, settled |-> p.settled,
             lost |-> p.lost, linked |-> p.linked, match |-> m, found |-> p.found, fresh |-> p.fresh, row |-> p.row]
    BY <1>5, <2>1 DEF IsRequest
  <2>3. IsRequest(q)
    BY <1>5, <2>2 DEF IsRequest, StorePhases
  <2>4. HandInv(q, stored)
    BY <1>5, <2>2 DEF HandInv
  <2> QED BY <1>4, <1>5, <1>9, <2>1, <2>2, <2>3, <2>4, UnansweredKeeps DEF RequestOK
<1> QED BY <1>6, <1>7, <1>8, <1>9

LEMMA ChooseExactKeeps ==
  ASSUME StoreInv, NEW w \in Handler, ChooseExact(w)
  PROVE  StoreInv'
<1>1. PICK p : p = handling[w]
  OBVIOUS
<1>2. p # None /\ p.phase = "choose" /\ UNCHANGED <<stored, flightLink, given>>
  BY <1>1 DEF ChooseExact
<1>3. IsRequest(p) /\ HandInv(p, stored) /\ p.pick.kind = "exact"
  BY <1>1, <1>2, RequestIs DEF IsRequest
<1>4. CASE \E r \in p.found : Meant(w, r)
  <2>1. PICK r, linked :
          /\ r \in p.found /\ Meant(w, r)
          /\ handling' = [handling EXCEPT ![w] = [p EXCEPT !.phase = "track", !.row = r, !.linked = linked]]
    BY <1>1, <1>4 DEF ChooseExact, Becomes
  <2>2. PICK q : q = [p EXCEPT !.phase = "track", !.row = r, !.linked = linked]
    OBVIOUS
  <2>3. q = [no |-> p.no, pick |-> p.pick, phase |-> "track", at |-> p.at, task |-> p.task, settled |-> p.settled,
             lost |-> p.lost, linked |-> linked, match |-> p.match, found |-> p.found, fresh |-> p.fresh, row |-> r]
    BY <1>3, <2>2 DEF IsRequest
  <2>4. r \in stored \cup p.fresh
    BY <1>2, <1>3, <2>1 DEF HandInv
  <2>5. r.airport = p.pick.airport /\ r.time = p.pick.time
    BY <1>1, <2>1 DEF Meant, Picked
  <2>6. IsRequest(q)
    BY <1>3, <2>3 DEF IsRequest, StorePhases
  <2>7. HandInv(q, stored)
    BY <1>3, <2>3, <2>4, <2>5 DEF HandInv
  <2> QED BY <1>2, <1>3, <2>1, <2>2, <2>3, <2>6, <2>7, UnansweredKeeps DEF RequestOK
<1>5. CASE ~\E r \in p.found : Meant(w, r)
  BY <1>1, <1>2, <1>3, <1>5, NextNumberKeeps DEF ChooseExact, Becomes
<1> QED BY <1>4, <1>5

LEMMA TrackExactKeeps ==
  ASSUME StoreInv, NEW w \in Handler, TrackExact(w)
  PROVE  StoreInv'
<1>1. PICK p : p = handling[w]
  OBVIOUS
<1>2. PICK g : g = [no |-> p.no, pick |-> p.pick, at |-> p.at, row |-> p.row, track |-> TRUE,
                    firstFailed |-> p.task[1] = "none" \/ 1 \in p.lost]
  OBVIOUS
<1>3. /\ p # None /\ p.phase = "track" /\ handling' = [handling EXCEPT ![w] = None]
      /\ given' = given \cup {g} /\ stored' = stored \cup p.fresh
      /\ flightLink' = flightLink \cup {<<p.pick.user, p.row.id>>}
  BY <1>1, <1>2 DEF TrackExact, AnswerPick, Ends, Picked
<1>4. IsRequest(p) /\ HandInv(p, stored) /\ p.pick.kind = "exact"
  BY <1>1, <1>3, RequestIs DEF IsRequest
<1>5. p.row \in stored' /\ p.row.airport = p.pick.airport /\ p.row.time = p.pick.time
  BY <1>3, <1>4 DEF HandInv
<1>6. GivenOK(g, stored', flightLink')
  BY <1>2, <1>3, <1>4, <1>5 DEF GivenOK
<1>7. \A r \in stored' : r \in stored \/ Numbered(r, g)
  BY <1>2, <1>3, <1>4 DEF HandInv, Numbered
<1> QED BY <1>3, <1>6, <1>7, AnswerKeeps

LEMMA FromBoardKeeps ==
  ASSUME StoreInv, NEW w \in Handler, FromBoard(w)
  PROVE  StoreInv'
<1>1. PICK p : p = handling[w]
  OBVIOUS
<1>2. p # None /\ p.phase = "board" /\ flightLink' = flightLink
  BY <1>1 DEF FromBoard
<1>3. IsRequest(p) /\ HandInv(p, stored) /\ p.pick.kind = "exact"
  BY <1>1, <1>2, RequestIs DEF IsRequest
<1>4. PICK l : l = Board[Candidate(w, p.at).callsign]
  OBVIOUS
<1>5. PICK base : base = [id |-> <<p.no, p.at, 0>>, day |-> p.pick.day, number |-> l.number, aircraft |-> None,
                        airport |-> p.pick.airport, time |-> l.time]
  OBVIOUS
<1>6. \/ /\ stored' = stored \cup p.fresh \cup {base}
         /\ AnswerPick(w, base, FALSE) /\ Ends(w)
      \/ /\ Becomes(w, [p EXCEPT !.at = @ + 1])
         /\ UNCHANGED <<stored, given>>
  BY <1>1, <1>4, <1>5, Zenon DEF FromBoard, Picked
<1>7. CASE stored' = stored \cup p.fresh \cup {base} /\ AnswerPick(w, base, FALSE) /\ Ends(w)
  <2>1. PICK g : g = [no |-> p.no, pick |-> p.pick, at |-> p.at, row |-> base, track |-> FALSE,
                      firstFailed |-> p.task[1] = "none" \/ 1 \in p.lost]
    OBVIOUS
  <2>2. given' = given \cup {g} /\ handling' = [handling EXCEPT ![w] = None]
    BY <1>1, <1>7, <2>1 DEF AnswerPick, Ends, Picked
  <2>3. GivenOK(g, stored', flightLink')
    BY <1>3, <1>7, <2>1 DEF GivenOK
  <2>4. base.id[1] = p.no
    BY <1>5
  <2>5. \A r \in stored' : r \in stored \/ Numbered(r, g)
    BY <1>3, <1>7, <2>1, <2>4 DEF HandInv, Numbered
  <2> QED BY <1>2, <1>7, <2>2, <2>3, <2>5, AnswerKeeps
<1>8. CASE Becomes(w, [p EXCEPT !.at = @ + 1]) /\ UNCHANGED <<stored, given>>
  <2>1. PICK q : q = [p EXCEPT !.at = @ + 1]
    OBVIOUS
  <2>2. q = [no |-> p.no, pick |-> p.pick, phase |-> p.phase, at |-> p.at + 1, task |-> p.task, settled |-> p.settled,
             lost |-> p.lost, linked |-> p.linked, match |-> p.match, found |-> p.found, fresh |-> p.fresh, row |-> p.row]
    BY <1>3, <2>1 DEF IsRequest
  <2>3. IsRequest(q)
    BY <1>3, <2>2 DEF IsRequest
  <2>4. HandInv(q, stored)
    BY <1>2, <1>3, <2>2 DEF HandInv
  <2>5. handling' = [handling EXCEPT ![w] = q]
    BY <1>8, <2>1 DEF Becomes
  <2> QED BY <1>2, <1>3, <1>8, <2>2, <2>3, <2>4, <2>5, UnansweredKeeps DEF RequestOK
<1> QED BY <1>6, <1>7, <1>8

LEMMA StoreKept ==
  ASSUME StoreInv, [FlightStoreNext]_flightStoreVars
  PROVE  StoreInv'
<1>1. CASE UNCHANGED flightStoreVars
  BY <1>1 DEF flightStoreVars, StoreInv, HandlingInv, RequestOK, HandInv, AnsweredAsPicked
<1>2. ASSUME NEW w \in Handler,
             \/ \E p \in Pick : BeginRequest(w, p)
             \/ handling[w] # None /\ \E i \in DOMAIN Picked(w).candidates : LookupEnds(w, i) \/ Settle(w, i)
             \/ Insert(w) \/ InsertFails(w) \/ CommitResolved(w) \/ RequestFails(w)
             \/ ReadExact(w) \/ ChooseExact(w) \/ TrackExact(w) \/ FromBoard(w)
      PROVE  StoreInv'
  BY <1>2, BeginRequestKeeps, LookupEndsKeeps, SettleKeeps, InsertKeeps, InsertFailsKeeps, CommitResolvedKeeps,
     RequestFailsKeeps, ReadExactKeeps, ChooseExactKeeps, TrackExactKeeps, FromBoardKeeps
<1> QED BY <1>1, <1>2 DEF FlightStoreNext

\* A user is answered with a flight that is what was picked and is stored, and tracked if
\* that was asked for (routers/flights.py, FlightService): the first of the candidates
\* unless it failed; no row stays of a request or a candidate that failed.
THEOREM AnsweredCorrect == FlightStoreSpec => []AnsweredAsPicked
<1>1. FlightStoreInit => StoreInv
  BY DEF FlightStoreInit, StoreInv, HandlingInv, AnsweredAsPicked
<1>2. StoreInv /\ [FlightStoreNext]_flightStoreVars => StoreInv'
  BY StoreKept
<1>3. StoreInv => AnsweredAsPicked
  BY DEF StoreInv
<1> QED BY <1>1, <1>2, <1>3, PTL DEF FlightStoreSpec

-----------------------------------------------------------------------------
(* FlightSearch. *)

LEMMA LeastOfNat ==
  ASSUME NEW S \in SUBSET Nat, S # {}
  PROVE  \E i \in S : \A j \in S : i <= j
<1>1. PICK i \in S : \A j \in S : ~(<<j, i>> \in OpToRel(<, Nat))
  BY WFMin, NatLessThanWellFounded
<1>2. \A j \in S : ~(j < i)
  BY <1>1 DEF OpToRel
<1> QED BY <1>2

\* Listings that have been moved to their day, some cleaned.
LEMMA OnDayIs == ASSUME NEW l \in ListingRow, NEW k \in Int PROVE OnDay(l, k) \in ListingRow
<1> DEFINE Shifted(s) == [field \in DOMAIN s |-> IF s[field] = None THEN None ELSE s[field] + 24 * k]
<1>1. ASSUME NEW s \in Segment PROVE Shifted(s) \in Segment
  BY <1>1 DEF Segment
<1>2. OnDay(l, k) = [l EXCEPT !.dep = Shifted(l.dep), !.arr = Shifted(l.arr)]
  BY DEF OnDay, ListingRow
<1>3. l.dep \in Segment /\ l.arr \in Segment
  BY DEF ListingRow
<1>4. Shifted(l.dep) \in Segment /\ Shifted(l.arr) \in Segment
  BY <1>1, <1>3
<1> HIDE DEF Moved
<1> QED BY <1>2, <1>4 DEF ListingRow

LEMMA SanitizedIs == ASSUME NEW l \in ListingRow PROVE Sanitized(l) \in ListingRow
<1> DEFINE Retained(s, early) == [field \in DOMAIN s |->
             IF field # "scheduled" /\ s[field] # None /\ s.scheduled # None
                /\ (s[field] - s.scheduled < -early \/ s[field] - s.scheduled > 24)
             THEN None ELSE s[field]]
<1>1. ASSUME NEW s \in Segment, NEW early \in Int PROVE Retained(s, early) \in Segment
  BY <1>1 DEF Segment
<1>2. Sanitized(l) = [l EXCEPT !.dep = Retained(l.dep, 3), !.arr = Retained(l.arr, 6)]
  BY DEF Sanitized, ListingRow
<1>3. l.dep \in Segment /\ l.arr \in Segment
  BY DEF ListingRow
<1>4. Retained(l.dep, 3) \in Segment /\ Retained(l.arr, 6) \in Segment
  BY <1>1, <1>3
<1> HIDE DEF Retained
<1> QED BY <1>2, <1>4 DEF ListingRow

\* A status weighs more than all estimates together.
LEMMA PriorityIs ==
  /\ \A s \in DOMAIN Priority : Priority[s] \in 0..40
  /\ \A s \in TrackableStatus : s \in DOMAIN Priority /\ Priority[s] \in 0..8
  /\ \A s \in DOMAIN Priority : s \notin TrackableStatus => Priority[s] \in 20..40
BY DEF Priority, TrackableStatus, ActiveStatus

LEMMA ScoreIs ==
  ASSUME NEW l \in ListingRow
  PROVE  /\ \A r : Score(l, r) \in Int /\ 11120 - Score(l, r) \in Nat
         /\ l.status \in TrackableStatus => Score(l, None) \in 840..1120
         /\ l.status \notin TrackableStatus => Score(l, None) \in 200..720
<1> DEFINE Weight(t, n) == IF t = None THEN 0 ELSE n
           Estimates(s) == Weight(s.runway, 30) + Weight(s.predicted, 20) + Weight(s.revised, 10)
<1>1. \A s : Estimates(s) \in 0..60
  OBVIOUS
<1>2. l.status \in DOMAIN Priority /\ l.number \in Int
  BY DEF ListingRow
<1>3. \A r : Score(l, r) = (IF l.number = r THEN 10000 ELSE 0) + 1000 - 20 * Priority[l.status] + Estimates(l.dep) + Estimates(l.arr)
  BY DEF Score
<1>4. l.number # None
  BY <1>2, SearchAssumption
<1> HIDE DEF Estimates
<1>5. Priority[l.status] \in 0..40 /\ Estimates(l.dep) \in 0..60 /\ Estimates(l.arr) \in 0..60
  BY <1>1, <1>2, PriorityIs
<1> DEFINE q == Priority[l.status]
           d == Estimates(l.dep)
           a == Estimates(l.arr)
<1>6. ASSUME NEW r PROVE Score(l, r) \in Int /\ 11120 - Score(l, r) \in Nat
  <2> DEFINE n == IF l.number = r THEN 10000 ELSE 0
  <2>1. n \in {0, 10000} /\ Score(l, r) = n + 1000 - 20 * q + d + a
    BY <1>3
  <2>2. q \in 0..40 /\ d \in 0..60 /\ a \in 0..60
    BY <1>5
  <2> HIDE DEF n, q, d, a
  <2> QED BY <2>1, <2>2
<1>7. Score(l, None) = 1000 - 20 * q + d + a
  BY <1>3, <1>4, <1>5
<1>8. ASSUME l.status \in TrackableStatus PROVE Score(l, None) \in 840..1120
  <2>1. q \in 0..8
    BY <1>8, PriorityIs
  <2> HIDE DEF q, d, a
  <2> QED BY <1>5, <1>7, <2>1 DEF d, a
<1>9. ASSUME l.status \notin TrackableStatus PROVE Score(l, None) \in 200..720
  <2>1. q \in 20..40 /\ d \in 0..60 /\ a \in 0..60
    BY <1>2, <1>5, <1>9, PriorityIs
  <2> HIDE DEF q, d, a
  <2> QED BY <1>7, <2>1
<1> QED BY <1>6, <1>8, <1>9

\* Listings by their places.
Placed(f) == DOMAIN f \in SUBSET Nat /\ IsFiniteSet(DOMAIN f) /\ \A i \in DOMAIN f : f[i] \in ListingRow

\* Of each physical flight there is a best listing.
LEMMA BestIs ==
  ASSUME NEW f, Placed(f), NEW r, NEW i \in DOMAIN f
  PROVE  \E b \in BestListings(f, r) : PhysicalKey(f[b]) = PhysicalKey(f[i]) /\ Score(f[i], r) <= Score(f[b], r)
<1> DEFINE T == SamePhysical(f, i)
           lack(j) == 11120 - Score(f[j], r)
           S == {lack(j) : j \in T}
<1>1. T \in SUBSET Nat /\ T \in SUBSET DOMAIN f /\ i \in T
  BY DEF SamePhysical, Placed
<1>2. \A j \in DOMAIN f : Score(f[j], r) \in Int /\ lack(j) \in Nat
  BY ScoreIs DEF Placed
<1>3. PICK c \in S : \A d \in S : c <= d
  <2>1. S \in SUBSET Nat /\ S # {}
    BY <1>1, <1>2
  <2> HIDE DEF S
  <2> QED BY <2>1, LeastOfNat
<1> DEFINE U == {j \in T : lack(j) = c}
<1>4. U \in SUBSET Nat /\ U # {}
  BY <1>1, <1>3
<1>5. PICK b \in U : \A j \in U : b <= j
  <2> HIDE DEF U
  <2> QED BY <1>4, LeastOfNat
<1>6. b \in DOMAIN f /\ b \in Nat /\ b \in T /\ SamePhysical(f, b) = T /\ PhysicalKey(f[b]) = PhysicalKey(f[i])
  BY <1>1, <1>5 DEF SamePhysical
<1>7. ASSUME NEW j \in T
      PROVE  \/ Score(f[j], r) < Score(f[b], r)
             \/ Score(f[j], r) = Score(f[b], r) /\ b <= j
  <2>1. lack(b) = c /\ c <= lack(j)
    BY <1>3, <1>5
  <2>2. lack(j) = c => b <= j
    BY <1>5
  <2>3. Score(f[j], r) \in Int /\ Score(f[b], r) \in Int
    BY <1>1, <1>2, <1>6
  <2> QED BY <2>1, <2>2, <2>3
<1>8. b \in BestListings(f, r)
  BY <1>6, <1>7 DEF BestListings
<1>9. Score(f[i], r) <= Score(f[b], r)
  BY <1>1, <1>2, <1>6, <1>7
<1> QED BY <1>6, <1>8, <1>9

-----------------------------------------------------------------------------
(* Sorting. *)

Keys == [1..5 -> Int]

LEMMA SortsOnce ==
  /\ \A a \in Keys : ~SortsBefore(a, a)
  /\ \A a, b \in Keys : a # b => SortsBefore(a, b) \/ SortsBefore(b, a)
  /\ \A a, b, c \in Keys : SortsBefore(a, b) /\ SortsBefore(b, c) => SortsBefore(a, c)
<1> DEFINE Less(a, b) ==
      \/ a[1] < b[1]
      \/ a[1] = b[1] /\ a[2] < b[2]
      \/ a[1] = b[1] /\ a[2] = b[2] /\ a[3] < b[3]
      \/ a[1] = b[1] /\ a[2] = b[2] /\ a[3] = b[3] /\ a[4] < b[4]
      \/ a[1] = b[1] /\ a[2] = b[2] /\ a[3] = b[3] /\ a[4] = b[4] /\ a[5] < b[5]
<1>1. \A a, b \in Keys : SortsBefore(a, b) <=> Less(a, b)
  <2> SUFFICES ASSUME NEW a \in Keys, NEW b \in Keys PROVE SortsBefore(a, b) <=> Less(a, b)
    OBVIOUS
  <2>1. ASSUME SortsBefore(a, b) PROVE Less(a, b)
    <3>1. PICK n \in 1..5 : a[n] < b[n] /\ \A k \in 1..(n - 1) : a[k] = b[k]
      BY <2>1 DEF SortsBefore
    <3>2. n = 1 \/ n = 2 \/ n = 3 \/ n = 4 \/ n = 5
      OBVIOUS
    <3> QED BY <3>1, <3>2
  <2>2. ASSUME Less(a, b) PROVE SortsBefore(a, b)
    <3>1. \E n \in {1, 2, 3, 4, 5} : a[n] < b[n] /\ \A k \in 1..(n - 1) : a[k] = b[k]
      <4>1. \A k \in 1..(1 - 1) : FALSE
        OBVIOUS
      <4>2. \A k \in 1..(2 - 1) : k = 1
        OBVIOUS
      <4>3. \A k \in 1..(3 - 1) : k = 1 \/ k = 2
        OBVIOUS
      <4>4. \A k \in 1..(4 - 1) : k = 1 \/ k = 2 \/ k = 3
        OBVIOUS
      <4>5. \A k \in 1..(5 - 1) : k = 1 \/ k = 2 \/ k = 3 \/ k = 4
        OBVIOUS
      <4> QED BY <2>2, <4>1, <4>2, <4>3, <4>4, <4>5
    <3> QED BY <3>1 DEF SortsBefore
  <2> QED BY <2>1, <2>2
<1>2. \A a \in Keys : a[1] \in Int /\ a[2] \in Int /\ a[3] \in Int /\ a[4] \in Int /\ a[5] \in Int
  BY DEF Keys
<1>3. \A a, b \in Keys : a # b => a[1] # b[1] \/ a[2] # b[2] \/ a[3] # b[3] \/ a[4] # b[4] \/ a[5] # b[5]
  <2> SUFFICES ASSUME NEW a \in Keys, NEW b \in Keys, a # b
               PROVE  a[1] # b[1] \/ a[2] # b[2] \/ a[3] # b[3] \/ a[4] # b[4] \/ a[5] # b[5]
    OBVIOUS
  <2>1. PICK n \in 1..5 : a[n] # b[n]
    BY DEF Keys
  <2>2. n = 1 \/ n = 2 \/ n = 3 \/ n = 4 \/ n = 5
    OBVIOUS
  <2> QED BY <2>1, <2>2
<1>4. \A a \in Keys : ~Less(a, a)
  BY <1>2
<1>5. \A a, b \in Keys : a # b => Less(a, b) \/ Less(b, a)
  BY <1>2, <1>3
<1>6. \A a, b, c \in Keys : Less(a, b) /\ Less(b, c) => Less(a, c)
  BY <1>2
<1> HIDE DEF Less
<1> QED BY <1>1, <1>4, <1>5, <1>6

\* No two of the best have one key to sort by: they are different physical flights.
LEMMA KeysDiffer ==
  ASSUME NEW f, Placed(f), NEW r, NEW i \in BestListings(f, r)
  PROVE  /\ SortKey(f, r, i) \in Keys
         /\ \A j \in BestListings(f, r) : SortKey(f, r, i) = SortKey(f, r, j) => i = j
<1>1. ASSUME NEW k \in BestListings(f, r)
      PROVE  /\ k \in DOMAIN f /\ k \in Nat /\ f[k] \in ListingRow
             /\ Min(SamePhysical(f, k)) \in SamePhysical(f, k) /\ Min(SamePhysical(f, k)) \in Int
  <2>1. k \in DOMAIN f /\ k \in Nat /\ f[k] \in ListingRow
    BY DEF BestListings, Placed
  <2>2. SamePhysical(f, k) \in SUBSET Nat /\ SamePhysical(f, k) # {}
    BY <2>1 DEF SamePhysical, Placed
  <2>3. Min(SamePhysical(f, k)) \in SamePhysical(f, k)
    <3>1. PICK n \in SamePhysical(f, k) : \A o \in SamePhysical(f, k) : n <= o
      BY <2>2, LeastOfNat
    <3> QED BY <3>1 DEF Min
  <2> QED BY <2>1, <2>2, <2>3
<1>2. SortKey(f, r, i) \in Keys
  <2>1. f[i].number \in Int /\ Priority[f[i].status] \in Int /\ (f[i].dep.scheduled = None \/ f[i].dep.scheduled \in Int)
    BY <1>1, PriorityIs DEF ListingRow, Segment
  <2>2. /\ (IF f[i].number = r THEN 0 ELSE 1) \in Int
        /\ (IF f[i].dep.scheduled = None THEN 9999 ELSE f[i].dep.scheduled) \in Int
    BY <2>1
  <2> QED BY <1>1, <2>1, <2>2 DEF SortKey, Keys
<1>3. ASSUME NEW j \in BestListings(f, r), SortKey(f, r, i) = SortKey(f, r, j)
      PROVE  i = j
  <2>1. Min(SamePhysical(f, i)) = Min(SamePhysical(f, j))
    BY <1>3 DEF SortKey
  <2>2. i \in Nat /\ j \in Nat /\ PhysicalKey(f[i]) = PhysicalKey(f[j])
    BY <1>1, <2>1 DEF SamePhysical
  <2>3. i \in SamePhysical(f, j) /\ j \in SamePhysical(f, i)
    BY <1>1, <2>2 DEF SamePhysical
  <2>4. Score(f[i], r) \in Int /\ Score(f[j], r) \in Int
    BY <1>1, ScoreIs
  <2> QED BY <2>2, <2>3, <2>4 DEF BestListings
<1> QED BY <1>2, <1>3

\* So each of them gets a place.
LEMMA RankedIs ==
  ASSUME NEW f, Placed(f), NEW r
  PROVE  /\ Len(Ranked(f, r)) \in Nat /\ DOMAIN Ranked(f, r) = 1..Len(Ranked(f, r))
         /\ \A b \in BestListings(f, r) : \E n \in DOMAIN Ranked(f, r) : Ranked(f, r)[n] = f[b]
<1> DEFINE best == BestListings(f, r)
           key(i) == SortKey(f, r, i)
           place(i) == Cardinality(Ahead(best, f, r, i))
<1>1. best \in SUBSET DOMAIN f /\ IsFiniteSet(best) /\ Cardinality(best) \in Nat
  <2>1. best \in SUBSET DOMAIN f
    BY DEF BestListings
  <2> QED BY <2>1, FS_Subset, FS_CardinalityType DEF Placed
<1>2. \A i \in best : key(i) \in Keys /\ \A j \in best : key(i) = key(j) => i = j
  BY KeysDiffer
<1>3. ASSUME NEW i \in best
      PROVE  /\ Ahead(best, f, r, i) \in SUBSET best /\ i \notin Ahead(best, f, r, i)
             /\ IsFiniteSet(Ahead(best, f, r, i)) /\ place(i) \in Nat /\ place(i) < Cardinality(best)
  <2>1. Ahead(best, f, r, i) \in SUBSET best /\ i \notin Ahead(best, f, r, i)
    BY <1>2, SortsOnce DEF Ahead
  <2>2. IsFiniteSet(Ahead(best, f, r, i)) /\ place(i) \in Nat
    BY <1>1, <2>1, FS_Subset, FS_CardinalityType
  <2>3. place(i) <= Cardinality(best) /\ place(i) # Cardinality(best)
    BY <1>1, <2>1, FS_Subset
  <2> QED BY <1>1, <2>1, <2>2, <2>3
<1>4. ASSUME NEW i \in best, NEW j \in best, SortsBefore(key(i), key(j))
      PROVE  place(i) < place(j)
  <2>1. Ahead(best, f, r, i) \in SUBSET Ahead(best, f, r, j) /\ i \in Ahead(best, f, r, j)
    BY <1>2, <1>4, SortsOnce DEF Ahead
  <2>2. place(i) <= place(j) /\ place(i) # place(j)
    BY <1>3, <2>1, FS_Subset
  <2> QED BY <1>3, <2>2
<1>5. ASSUME NEW i \in best, NEW j \in best, place(i) = place(j) PROVE i = j
  <2> SUFFICES ASSUME i # j PROVE FALSE
    OBVIOUS
  <2>1. SortsBefore(key(i), key(j)) \/ SortsBefore(key(j), key(i))
    BY <1>2, SortsOnce
  <2> QED BY <1>3, <1>4, <1>5, <2>1
<1> DEFINE at(n) == CHOOSE i \in best : place(i) = n - 1
<1>6. Ranked(f, r) = [n \in 1..Cardinality(best) |-> f[at(n)]]
  BY DEF Ranked
<1>7. ASSUME NEW b \in best PROVE \E n \in 1..Cardinality(best) : at(n) = b
  <2>1. place(b) + 1 \in 1..Cardinality(best) /\ (place(b) + 1) - 1 = place(b)
    BY <1>1, <1>3
  <2>2. at(place(b) + 1) = b
    <3> HIDE DEF place, best
    <3> QED BY <1>5, <2>1
  <2> QED BY <2>1, <2>2
<1>8. Ranked(f, r) \in Seq({f[at(n)] : n \in 1..Cardinality(best)}) /\ DOMAIN Ranked(f, r) = 1..Cardinality(best)
  <2> HIDE DEF best, at
  <2> QED BY <1>1, <1>6
<1>9. Len(Ranked(f, r)) \in Nat /\ DOMAIN Ranked(f, r) = 1..Len(Ranked(f, r))
  BY <1>8
<1>10. ASSUME NEW b \in best PROVE \E n \in DOMAIN Ranked(f, r) : Ranked(f, r)[n] = f[b]
  <2>1. PICK n \in 1..Cardinality(best) : at(n) = b
    BY <1>7
  <2>2. Ranked(f, r)[n] = f[b]
    <3> HIDE DEF at, best
    <3> QED BY <1>6, <2>1
  <2> QED BY <1>8, <2>2
<1> QED BY <1>9, <1>10

-----------------------------------------------------------------------------
(* The request. *)

\* What a day has brought.
LEMMA ListedOnIs ==
  ASSUME NEW answer \in BoundedSeq(Listing, MostListed), NEW s, s.day \in Int
  PROVE  Placed(ListedOn(answer, s))
<1> DEFINE listing(i) == OnDay(answer[i], s.day)
           kept == {j \in DOMAIN answer : Relevant(listing(j), s.kind)}
<1>1. PICK n \in 0..MostListed : answer \in [1..n -> Listing]
  BY DEF BoundedSeq, SeqOf
<1>2. kept \in SUBSET (1..n) /\ kept \in SUBSET Nat
  BY <1>1
<1>3. IsFiniteSet(kept)
  <2>1. n \in Int /\ IsFiniteSet(1..n)
    BY SearchAssumption, FS_Interval
  <2> QED BY <1>2, <2>1, FS_Subset
<1>4. ASSUME NEW i \in kept
      PROVE  listing(i) \in ListingRow /\ Sanitized(listing(i)) \in ListingRow
  <2>1. answer[i] \in ListingRow
    BY <1>1, <1>2, SearchAssumption
  <2>2. listing(i) \in ListingRow
    BY <2>1, OnDayIs
  <2> QED BY <2>2, SanitizedIs
<1>5. ListedOn(answer, s) = [i \in kept |-> IF s.kind \in AirportKind THEN Sanitized(listing(i)) ELSE listing(i)]
  BY DEF ListedOn
<1> HIDE DEF kept, listing
<1> QED BY <1>2, <1>3, <1>4, <1>5 DEF Placed

\* Whatever is shown is a list.
LEMMA FlightsAre ==
  ASSUME NEW f, Placed(f), NEW kind
  PROVE  Len(FlightsOf(f, kind)) \in Nat /\ DOMAIN FlightsOf(f, kind) = 1..Len(FlightsOf(f, kind))
<1>1. CASE kind = "flight"
  BY <1>1, RankedIs DEF FlightsOf
<1>2. CASE kind = "random"
  <2> DEFINE good == {i \in DOMAIN f : Trackable(f[i])}
  <2>1. FlightsOf(f, kind) = IF good = {} THEN <<>> ELSE <<f[Min(good)]>>
    BY <1>2 DEF FlightsOf
  <2> HIDE DEF good
  <2>2. CASE good = {}
    BY <2>1, <2>2
  <2>3. CASE good # {}
    <3>1. PICK x : FlightsOf(f, kind) = <<x>>
      BY <2>1, <2>3
    <3> QED BY <3>1
  <2> QED BY <2>2, <2>3
<1>3. CASE kind \notin {"flight", "random"}
  BY <1>3, RankedIs DEF FlightsOf
<1> QED BY <1>1, <1>2, <1>3

LEMMA DaysAre == \A kind, dated : DaysAhead(kind, dated) \in 0..3
BY DEF DaysAhead

\* As far as a request has come, it accounts for the days it asked.
SearchTypes ==
  /\ search = [pc |-> search.pc, kind |-> search.kind, dated |-> search.dated, day |-> search.day,
               provider |-> search.provider, filtered |-> search.filtered, landed |-> search.landed,
               reasons |-> search.reasons, shown |-> search.shown, reason |-> search.reason, sampled |-> search.sampled]
  /\ search.day \in Nat
  /\ Placed(listedDay)

Accounts ==
  /\ search.provider \in Nat /\ search.filtered = search.provider
  /\ search.landed \in BOOLEAN
  /\ search.provider = 0 <=> listedStatus = {}
  /\ search.landed <=> listedStatus = {"Arrived"}
  /\ search.day <= DaysAhead(search.kind, search.dated)

AskedInv ==
  /\ search.pc \in {"typed", "model", "positions"} => search.day = 0
  /\ search.pc # "done" => Accounts /\ search.reason = None

SearchInv == SearchTypes /\ AskedInv /\ EmptyAccounted

LEMMA SearchInitially == SearchInit => SearchInv
<1> SUFFICES ASSUME SearchInit PROVE SearchInv
  OBVIOUS
<1>1. SearchTypes
  <2>1. DOMAIN <<>> = {} /\ IsFiniteSet({})
    BY FS_EmptySet
  <2>2. Placed(listedDay)
    BY <2>1 DEF SearchInit, Placed
  <2> QED BY <2>2 DEF SearchInit, NoSearch, SearchTypes
<1>2. Accounts /\ search.pc = "typed" /\ search.reason = None /\ search.day = 0
  BY DaysAre DEF SearchInit, NoSearch, Accounts
<1> QED BY <1>1, <1>2 DEF SearchInv, AskedInv, EmptyAccounted

\* An answer that explains itself otherwise has nothing to account for.
LEMMA OtherwiseAnswered ==
  ASSUME SearchTypes', search'.pc = "done", search'.reason \notin EmptyReasons
  PROVE  SearchInv'
BY DEF SearchInv, AskedInv, EmptyAccounted

\* "Landed" stays what the statuses say.
LEMMA LandedIs ==
  ASSUME Accounts, NEW flights, Len(flights) \in Nat, DOMAIN flights = 1..Len(flights),
         NEW statuses, statuses = listedStatus \cup {flights[i].status : i \in DOMAIN flights}
  PROVE  /\ LandedAfter(flights) \in BOOLEAN
         /\ LandedAfter(flights) <=> statuses = {"Arrived"}
         /\ search.provider + Len(flights) = 0 <=> statuses = {}
<1>1. (Len(flights) = 0 <=> DOMAIN flights = {}) /\ (flights = <<>> <=> Len(flights) = 0)
  <2>1. \A n \in Nat : n = 0 <=> 1..n = {}
    OBVIOUS
  <2>2. flights = <<>> => Len(flights) = 0
    OBVIOUS
  <2>3. Len(flights) = 0 => flights = <<>>
    OBVIOUS
  <2> QED BY <2>1, <2>2, <2>3
<1>2. CASE flights = <<>>
  <2>1. statuses = listedStatus /\ LandedAfter(flights) = search.landed
    BY <1>1, <1>2 DEF LandedAfter
  <2> QED BY <1>1, <1>2, <2>1 DEF Accounts
<1>3. CASE flights # <<>>
  <2>1. DOMAIN flights # {} /\ statuses # {} /\ search.provider + Len(flights) # 0
    <3>1. PICK i : i \in DOMAIN flights
      BY <1>1, <1>3
    <3>2. flights[i].status \in statuses
      BY <3>1
    <3>3. search.provider + Len(flights) # 0
      <4>1. search.provider \in Nat
        BY DEF Accounts
      <4>2. Len(flights) # 0 /\ Len(flights) \in Nat
        BY <1>1, <1>3
      <4> QED BY <4>1, <4>2
    <3>4. statuses # {}
      BY <3>2
    <3> QED BY <3>1, <3>3, <3>4
  <2>2. LandedAfter(flights) <=>
          (\A i \in DOMAIN flights : flights[i].status = "Arrived") /\ (search.provider = 0 \/ search.landed)
    BY <1>3 DEF LandedAfter, Range
  <2>3. search.provider = 0 \/ search.landed <=> listedStatus \in {{}, {"Arrived"}}
    BY DEF Accounts
  <2>4. LandedAfter(flights) \in BOOLEAN
    BY <1>3 DEF LandedAfter
  <2>5. statuses = {"Arrived"} <=> (\A i \in DOMAIN flights : flights[i].status = "Arrived") /\ listedStatus \in {{}, {"Arrived"}}
    <3>1. ASSUME statuses = {"Arrived"} PROVE listedStatus \in {{}, {"Arrived"}} /\ \A i \in DOMAIN flights : flights[i].status = "Arrived"
      BY <3>1
    <3>2. ASSUME \A i \in DOMAIN flights : flights[i].status = "Arrived", listedStatus \in {{}, {"Arrived"}}
          PROVE  statuses = {"Arrived"}
      BY <2>1, <3>2
    <3> QED BY <3>1, <3>2
  <2> QED BY <2>1, <2>2, <2>3, <2>4, <2>5
<1> QED BY <1>2, <1>3

LEMMA CountedIs ==
  ASSUME SearchTypes, NEW provider, NEW filtered, NEW landed, NEW reasons
  PROVE  [search EXCEPT !.provider = provider, !.filtered = filtered, !.landed = landed, !.reasons = reasons] =
           [pc |-> search.pc, kind |-> search.kind, dated |-> search.dated, day |-> search.day,
            provider |-> provider, filtered |-> filtered, landed |-> landed, reasons |-> reasons,
            shown |-> search.shown, reason |-> search.reason, sampled |-> search.sampled]
<1> DEFINE Record(p, f, l, r) == [pc |-> search.pc, kind |-> search.kind, dated |-> search.dated, day |-> search.day,
                                  provider |-> p, filtered |-> f, landed |-> l, reasons |-> r,
                                  shown |-> search.shown, reason |-> search.reason, sampled |-> search.sampled]
<1>1. search = Record(search.provider, search.filtered, search.landed, search.reasons)
  BY DEF SearchTypes
<1>2. \A p, f, l, r : [Record(p, f, l, r) EXCEPT !.provider = provider] = Record(provider, f, l, r)
  OBVIOUS
<1>3. \A p, f, l, r : [Record(p, f, l, r) EXCEPT !.filtered = filtered] = Record(p, filtered, l, r)
  OBVIOUS
<1>4. \A p, f, l, r : [Record(p, f, l, r) EXCEPT !.landed = landed] = Record(p, f, landed, r)
  OBVIOUS
<1>5. \A p, f, l, r : [Record(p, f, l, r) EXCEPT !.reasons = reasons] = Record(p, f, l, reasons)
  OBVIOUS
<1> DEFINE one == [search EXCEPT !.provider = provider]
           two == [one EXCEPT !.filtered = filtered]
           three == [two EXCEPT !.landed = landed]
           four == [three EXCEPT !.reasons = reasons]
<1>6. [search EXCEPT !.provider = provider, !.filtered = filtered, !.landed = landed, !.reasons = reasons] = four
  OBVIOUS
<1> HIDE DEF Record
<1>7. one = Record(provider, search.filtered, search.landed, search.reasons)
  BY <1>1, <1>2
<1> HIDE DEF one
<1>8. two = Record(provider, filtered, search.landed, search.reasons)
  BY <1>3, <1>7
<1> HIDE DEF two
<1>9. three = Record(provider, filtered, landed, search.reasons)
  BY <1>4, <1>8
<1> HIDE DEF three
<1>10. four = Record(provider, filtered, landed, reasons)
  BY <1>5, <1>9
<1> QED BY <1>6, <1>10 DEF Record

\* A day answered.
LEMMA DayKeeps ==
  ASSUME SearchInv, search.pc = "ask", NEW answer \in BoundedSeq(Listing, MostListed), DayAnswered(answer)
  PROVE  SearchInv'
<1> DEFINE listings == ListedOn(answer, search)
           flights == FlightsOf(listings, search.kind)
           shown == TrackableOf(flights)
           reasons == search.reasons \cup {Exclusion(flights[i]) : i \in {j \in DOMAIN flights : ~Trackable(flights[j])}}
           counted == [search EXCEPT !.provider = @ + Len(flights), !.filtered = @ + Len(flights) - Len(shown),
                                     !.landed = LandedAfter(flights), !.reasons = reasons]
           statuses == listedStatus \cup {flights[i].status : i \in DOMAIN flights}
<1>1. /\ search' = IF shown # <<>> THEN [counted EXCEPT !.pc = "done", !.shown = shown]
                   ELSE IF search.day < DaysAhead(search.kind, search.dated) THEN [counted EXCEPT !.day = @ + 1]
                   ELSE [counted EXCEPT !.pc = "done", !.reason = EmptyReason(counted), !.sampled = TRUE]
      /\ listedDay' = listings /\ listedStatus' = statuses
  BY DEF DayAnswered
<1>2. SearchTypes /\ Accounts /\ search.reason = None /\ search.day \in Int
  BY DEF SearchInv, AskedInv, SearchTypes
<1>3. Placed(listings)
  BY <1>2, ListedOnIs
<1>4. Len(flights) \in Nat /\ DOMAIN flights = 1..Len(flights)
  BY <1>3, FlightsAre
<1>5. /\ LandedAfter(flights) \in BOOLEAN /\ (LandedAfter(flights) <=> statuses = {"Arrived"})
      /\ search.provider + Len(flights) = 0 <=> statuses = {}
  <2> HIDE DEF flights
  <2> QED BY <1>2, <1>4, LandedIs
<1> HIDE DEF listings, flights, shown, reasons, statuses
<1>6. /\ counted = [pc |-> search.pc, kind |-> search.kind, dated |-> search.dated, day |-> search.day,
                    provider |-> search.provider + Len(flights), filtered |-> search.filtered + Len(flights) - Len(shown),
                    landed |-> LandedAfter(flights), reasons |-> reasons, shown |-> search.shown,
                    reason |-> search.reason, sampled |-> search.sampled]
  <2>1. counted = [search EXCEPT !.provider = search.provider + Len(flights),
                                 !.filtered = search.filtered + Len(flights) - Len(shown),
                                 !.landed = LandedAfter(flights), !.reasons = reasons]
    OBVIOUS
  <2> HIDE DEF counted
  <2> QED BY Zenon, <1>2, <2>1, CountedIs
<1> HIDE DEF counted
<1>7. SearchTypes'
  <2>1. listedDay' = listings /\ search.day \in Nat
    BY <1>1, <1>2 DEF SearchTypes
  <2>2. CASE shown # <<>>
    BY <1>1, <1>3, <1>6, <2>1, <2>2 DEF SearchTypes, Placed
  <2>3. CASE shown = <<>> /\ search.day < DaysAhead(search.kind, search.dated)
    BY <1>1, <1>3, <1>6, <2>1, <2>3 DEF SearchTypes, Placed
  <2>4. CASE shown = <<>> /\ ~(search.day < DaysAhead(search.kind, search.dated))
    BY <1>1, <1>3, <1>6, <2>1, <2>4 DEF SearchTypes, Placed
  <2> QED BY <2>2, <2>3, <2>4
<1>8. DaysAhead(search.kind, search.dated) \in 0..3
  BY DaysAre
<1>9. CASE shown # <<>>
  <2>1. search'.pc = "done" /\ search'.reason = None
    BY <1>1, <1>2, <1>6, <1>9
  <2> QED BY <1>7, <2>1, SearchAssumption DEF SearchInv, AskedInv, EmptyAccounted
<1>10. CASE shown = <<>> /\ search.day < DaysAhead(search.kind, search.dated)
  <2>1. search' = [counted EXCEPT !.day = @ + 1] /\ Len(shown) = 0
    BY <1>1, <1>10
  <2>2. /\ search'.pc = "ask" /\ search'.reason = None /\ search'.day = search.day + 1
        /\ search'.kind = search.kind /\ search'.dated = search.dated
        /\ search'.provider = search.provider + Len(flights) /\ search'.filtered = search.filtered + Len(flights)
        /\ search'.landed = LandedAfter(flights)
    BY <1>2, <1>4, <1>6, <2>1 DEF Accounts
  <2>3. Accounts'
    BY <1>1, <1>2, <1>4, <1>5, <1>8, <1>10, <2>2 DEF Accounts
  <2> QED BY <1>7, <2>2, <2>3 DEF SearchInv, AskedInv, EmptyAccounted
<1>11. CASE shown = <<>> /\ ~(search.day < DaysAhead(search.kind, search.dated))
  <2>1. search' = [counted EXCEPT !.pc = "done", !.reason = EmptyReason(counted), !.sampled = TRUE] /\ Len(shown) = 0
    BY <1>1, <1>11
  <2>2. /\ search'.pc = "done" /\ search'.reason = EmptyReason(counted) /\ search'.day = search.day
        /\ search'.kind = search.kind /\ search'.dated = search.dated
        /\ search'.provider = search.provider + Len(flights) /\ search'.filtered = search.filtered + Len(flights)
    BY <1>2, <1>4, <1>6, <2>1 DEF Accounts
  <2>3. search.day = DaysAhead(search.kind, search.dated)
    BY <1>2, <1>8, <1>11 DEF Accounts
  <2>4. /\ counted.provider = search.provider + Len(flights) /\ counted.landed = LandedAfter(flights)
        /\ counted.provider \in Nat
    BY <1>2, <1>4, <1>6 DEF Accounts
  <2>5. /\ EmptyReason(counted) = "landed_only" <=> statuses = {"Arrived"}
        /\ EmptyReason(counted) \in {"missing_date", "provider_no_match"} <=> statuses = {}
    <3>1. CASE counted.provider > 0 /\ counted.landed
      <4>1. EmptyReason(counted) = "landed_only"
        BY <3>1 DEF EmptyReason
      <4> QED BY <1>5, <2>4, <3>1, <4>1
    <3>2. CASE counted.provider > 0 /\ ~counted.landed
      <4>1. EmptyReason(counted) = "results_filtered_out"
        BY <3>2 DEF EmptyReason
      <4> QED BY <1>5, <2>4, <3>2, <4>1
    <3>3. CASE ~(counted.provider > 0)
      <4>1. EmptyReason(counted) \in {"missing_date", "provider_no_match"}
        BY <3>3 DEF EmptyReason
      <4>2. counted.provider = 0 /\ statuses = {}
        BY <1>5, <2>4, <3>3
      <4> QED BY <4>1, <4>2
    <3> QED BY <3>1, <3>2, <3>3
  <2>6. EmptyAccounted'
    BY <1>1, <1>2, <2>2, <2>3, <2>5 DEF EmptyAccounted, Accounts
  <2> QED BY <1>7, <2>2, <2>6 DEF SearchInv, AskedInv
<1> QED BY <1>9, <1>10, <1>11

\* A request that is recognised.
LEMMA SubmitKeeps ==
  ASSUME SearchInv, NEW kind, NEW dated, Submit(kind, dated)
  PROVE  SearchInv'
<1>1. SearchTypes /\ Accounts /\ search.pc = "typed" /\ search.reason = None /\ search.day = 0
  BY DEF SearchInv, AskedInv, Submit
<1>2. CASE kind = "vague"
  <2>1. search' = [Explained("ask_back") EXCEPT !.kind = kind] /\ UNCHANGED <<listedDay>>
    BY <1>2 DEF Submit
  <2>2. SearchTypes' /\ search'.pc = "done" /\ search'.reason = "ask_back"
    BY <1>1, <2>1 DEF SearchTypes, Explained
  <2> QED BY <2>2, OtherwiseAnswered DEF EmptyReasons
<1>3. CASE kind # "vague"
  <2> DEFINE pc == CASE kind = "registration" -> "positions" [] kind = "unclear" -> "model" [] OTHER -> "ask"
  <2>1. search' = [search EXCEPT !.kind = kind, !.dated = dated, !.pc = pc] /\ UNCHANGED <<listedDay, listedStatus>>
    BY <1>3 DEF Submit
  <2>2. pc \in {"positions", "model", "ask"}
    OBVIOUS
  <2> HIDE DEF pc
  <2>3. /\ search'.pc = pc /\ search'.reason = None /\ search'.day = 0 /\ search'.kind = kind /\ search'.dated = dated
        /\ search'.provider = search.provider /\ search'.filtered = search.filtered /\ search'.landed = search.landed
        /\ SearchTypes'
    BY <1>1, <2>1 DEF SearchTypes
  <2>4. Accounts'
    BY <1>1, <2>1, <2>3, DaysAre DEF Accounts
  <2> QED BY <2>2, <2>3, <2>4 DEF SearchInv, AskedInv, EmptyAccounted
<1> QED BY <1>2, <1>3

LEMMA AskModelKeeps == ASSUME SearchInv, AskModel PROVE SearchInv'
<1>1. SearchTypes /\ Accounts /\ search.pc = "model" /\ search.reason = None /\ search.day = 0
  BY DEF SearchInv, AskedInv, AskModel
<1>2. ASSUME NEW kind \in CallKind, search' = [search EXCEPT !.kind = kind, !.pc = "ask"], UNCHANGED <<listedDay, listedStatus>>
      PROVE  SearchInv'
  <2>1. /\ search'.pc = "ask" /\ search'.reason = None /\ search'.day = 0 /\ search'.kind = kind /\ search'.dated = search.dated
        /\ search'.provider = search.provider /\ search'.filtered = search.filtered /\ search'.landed = search.landed
        /\ SearchTypes'
    BY <1>1, <1>2 DEF SearchTypes
  <2>2. Accounts'
    BY <1>1, <1>2, <2>1, DaysAre DEF Accounts
  <2> QED BY <2>1, <2>2 DEF SearchInv, AskedInv, EmptyAccounted
<1>3. ASSUME search' = Explained("no_results"), UNCHANGED <<listedDay>> PROVE SearchInv'
  <2>1. SearchTypes' /\ search'.pc = "done" /\ search'.reason = "no_results"
    BY <1>1, <1>3 DEF SearchTypes, Explained
  <2> QED BY <2>1, OtherwiseAnswered DEF EmptyReasons
<1> QED BY <1>2, <1>3 DEF AskModel

LEMMA AskPositionsKeeps == ASSUME SearchInv, AskPositions PROVE SearchInv'
<1>1. SearchTypes /\ search.reason = None /\ search.pc = "positions" /\ UNCHANGED listedDay
  BY DEF SearchInv, AskedInv, AskPositions
<1>2. ASSUME NEW why \in {"provider_rate_limited", "provider_unavailable", "registration_not_live", "registration_live_unresolved"},
             search' = Explained(why)
      PROVE  SearchInv'
  <2>1. SearchTypes' /\ search'.pc = "done" /\ search'.reason = why
    BY <1>1, <1>2 DEF SearchTypes, Explained
  <2> QED BY <1>2, <2>1, OtherwiseAnswered DEF EmptyReasons
<1>3. ASSUME NEW l \in Listing, search' = [search EXCEPT !.pc = "done", !.shown = <<l>>]
      PROVE  SearchInv'
  <2>1. SearchTypes' /\ search'.pc = "done" /\ search'.reason = None
    BY <1>1, <1>3 DEF SearchTypes
  <2> QED BY <2>1, SearchAssumption DEF SearchInv, AskedInv, EmptyAccounted
<1> QED BY <1>2, <1>3 DEF AskPositions

LEMMA FailureKeeps == ASSUME SearchInv, ProviderFails \/ SearchFails PROVE SearchInv'
<1>1. SearchTypes /\ UNCHANGED listedDay
  BY DEF SearchInv, ProviderFails, SearchFails
<1>2. CASE ProviderFails
  <2>1. \/ search' = [search EXCEPT !.pc = "done", !.reason = "503"]
        \/ search' = [Explained("provider_unavailable") EXCEPT !.provider = 0, !.filtered = 0]
    BY <1>2 DEF ProviderFails
  <2>2. SearchTypes' /\ search'.pc = "done" /\ search'.reason \in {"503", "provider_unavailable"}
    BY <1>1, <2>1 DEF SearchTypes, Explained
  <2> QED BY <2>2, OtherwiseAnswered DEF EmptyReasons
<1>3. CASE SearchFails
  <2>1. search' = Explained("500")
    BY <1>3 DEF SearchFails
  <2>2. SearchTypes' /\ search'.pc = "done" /\ search'.reason = "500"
    BY <1>1, <2>1 DEF SearchTypes, Explained
  <2> QED BY <2>2, OtherwiseAnswered DEF EmptyReasons
<1> QED BY <1>2, <1>3

LEMMA SearchKept == SearchInv /\ [SearchNext]_searchVars => SearchInv'
<1> SUFFICES ASSUME SearchInv, [SearchNext]_searchVars PROVE SearchInv'
  OBVIOUS
<1>1. ASSUME NEW kind \in CallKind \cup {"vague", "registration", "unclear"},
             NEW dated \in {"yesterday", "today", "explicit", "no"}, Submit(kind, dated)
      PROVE  SearchInv'
  BY <1>1, SubmitKeeps
<1>2. CASE AskModel
  BY <1>2, AskModelKeeps
<1>3. CASE AskPositions
  BY <1>3, AskPositionsKeeps
<1>4. CASE AskFlights
  BY <1>4, DayKeeps DEF AskFlights
<1>5. CASE AskAirport
  BY <1>5, DayKeeps DEF AskAirport
<1>6. CASE ProviderFails \/ SearchFails
  BY <1>6, FailureKeeps
<1>7. CASE UNCHANGED searchVars
  BY <1>7 DEF searchVars, SearchInv, SearchTypes, AskedInv, Accounts, EmptyAccounted, Placed
<1> QED BY <1>1, <1>2, <1>3, <1>4, <1>5, <1>6, <1>7 DEF SearchNext

\* Merging leaves out nothing that runs.
LEMMA ActiveIsBest == ASSUME SearchTypes PROVE ActiveWins
<1>1. Placed(listedDay)
  BY DEF SearchTypes
<1>2. ASSUME NEW i \in DOMAIN listedDay, listedDay[i].status \in TrackableStatus
      PROVE  \E r \in Range(Ranked(listedDay, None)) :
               PhysicalKey(r) = PhysicalKey(listedDay[i]) /\ r.status \in TrackableStatus
  <2>1. PICK b \in BestListings(listedDay, None) :
          PhysicalKey(listedDay[b]) = PhysicalKey(listedDay[i]) /\ Score(listedDay[i], None) <= Score(listedDay[b], None)
    BY <1>1, BestIs
  <2>2. listedDay[b] \in ListingRow /\ listedDay[i] \in ListingRow
    BY <1>1 DEF BestListings, Placed
  <2>3. listedDay[b].status \in TrackableStatus
    <3>1. Score(listedDay[i], None) \in 840..1120
      BY <1>2, <2>2, ScoreIs
    <3>2. listedDay[b].status \notin TrackableStatus => Score(listedDay[b], None) \in 200..720
      BY <2>2, ScoreIs
    <3>3. ASSUME Score(listedDay[b], None) \in 200..720 PROVE FALSE
      <4> DEFINE x == Score(listedDay[i], None)
                 y == Score(listedDay[b], None)
      <4>1. x \in 840..1120 /\ y \in 200..720 /\ x <= y
        BY <2>1, <3>1, <3>3
      <4> HIDE DEF x, y
      <4> QED BY <4>1
    <3> QED BY <3>2, <3>3
  <2>4. listedDay[b] \in Range(Ranked(listedDay, None))
    BY <1>1, RankedIs DEF Range
  <2> QED BY <2>1, <2>3, <2>4
<1> QED BY <1>2 DEF ActiveWins, Range

\* Of the listings of one physical flight, one that runs is never hidden by one that does not,
\* whatever a provider lists: _dedupe_airport_flights and _rank_exact_flights.
THEOREM ActiveCorrect == SearchSpec => []ActiveWins
BY SearchInitially, SearchKept, ActiveIsBest, PTL DEF SearchSpec, SearchInv

\* An empty answer accounts for every flight of every day it asked, and says they have landed, or
\* that there were none, only if that is so: _execute_search_with_date_fallback_details.
THEOREM EmptyCorrect == SearchSpec => []EmptyAccounted
BY SearchInitially, SearchKept, PTL DEF SearchSpec, SearchInv
=============================================================================
