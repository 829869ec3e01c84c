----------------------------- MODULE PushProofs -----------------------------
(***************************************************************************)
(* LiveActivity and PushToStart, for every value of their constants.       *)
(*                                                                         *)
(* LiveActivity. SnapshotTruthful is not inductive: that the completion of *)
(* a send may record its content rests on the timestamps. The reservations *)
(* give an activity strictly growing timestamps (OrderInv), so no two      *)
(* deliveries share one and none is newer than the row; what APNs holds as *)
(* newest is then the content of the one delivery with that timestamp      *)
(* (AcceptInv).                                                            *)
(*                                                                         *)
(* PushToStart. A start that was settled is not sent again because the     *)
(* pass finds it: in the committed ledger, if an earlier pass settled it,  *)
(* or in the rows this pass is to commit (SettledInv). The ledger keeps    *)
(* one token for each flight, so this needs that tokens only grow, in the  *)
(* registration, its copies and the ledger (TokensInv), and that the pass  *)
(* comes to a device and to a flight once (OnceInv).                       *)
(*                                                                         *)
(* StoryPush. Whoever sends has a row (SendingHasRow), which no other      *)
(* worker passes unless the account is gone, and then nothing is sent      *)
(* anew (OneSends, SendsNews); all this because runs are short (Timely).   *)
(* A window is bound to a story by its campaign, or else, once the         *)
(* campaign is purged, by being past in every zone (Bound). Four campaigns *)
(* are kept from a day by the last of them: the day before it has three    *)
(* (Few), which the rows themselves do not show when workers overlap.      *)
(***************************************************************************)
EXTENDS LiveActivity, PushToStart, StoryPush, FiniteSetTheorems, WellFoundedInduction, TLAPS

-----------------------------------------------------------------------------
(* LiveActivity. *)

\* The latest timestamp reserved for an activity.
Latest(a) == IF reg[a] = None THEN 0 ELSE reg[a].last_apns_timestamp

OrderInv ==
  /\ \A a \in Activity : newest[a].timestamp <= Latest(a)
  /\ \A s \in Sender, a \in Activity :
       sent[s][a] # None => sent[s][a].timestamp <= Latest(a)
  /\ \A s, t \in Sender, a \in Activity :
       (s # t /\ sent[s][a] # None /\ sent[t][a] # None)
         => sent[s][a].timestamp # sent[t][a].timestamp

AcceptInv ==
  \A s \in Sender, a \in Activity : sent[s][a] # None =>
    /\ sent[s][a].result = "success" => sent[s][a].timestamp <= newest[a].timestamp
    /\ sent[s][a].timestamp = newest[a].timestamp => newest[a].content = sent[s][a].content
    /\ sent[s][a].result = "invalid" => sent[s][a].push_token \notin valid

SnapshotInv ==
  \A a \in Activity :
    (reg[a] # None /\ reg[a].last_content_state_json # None)
      => /\ newest[a].timestamp = reg[a].last_apns_timestamp
         /\ newest[a].content = reg[a].last_content_state_json

IInv == TypeOK /\ OrderInv /\ AcceptInv /\ SnapshotInv

-----------------------------------------------------------------------------
(* Types. *)

LEMMA InitTypeOK == Init => TypeOK
BY LiveActivityAssumption DEF Init, TypeOK, HandlerState

\* What a registration writes is a row.
LEMMA RotatedType ==
  ASSUME NEW row \in Row, NEW copy \in Row, NEW r \in Request
  PROVE  Rotated(row, copy, r) \in Row
BY ZenonT(30) DEF Rotated, Row, Request

LEMMA WithoutTokenType ==
  ASSUME NEW row \in Row \cup {None}, NEW t
  PROVE  WithoutToken(row, t) \in Row \cup {None}
BY DEF WithoutToken, Row

\* What a reservation and a completion write are rows.
LEMMA ReservedType ==
  ASSUME NEW row \in Row, NEW now \in Nat \ {0}
  PROVE  /\ Reserved(row, now) \in Row
         /\ NextTimestamp(row.last_apns_timestamp, now) \in Nat \ {0}
         /\ NextTimestamp(row.last_apns_timestamp, now) > row.last_apns_timestamp
<1> DEFINE ts == row.last_apns_timestamp
           next == NextTimestamp(ts, now)
<1>1. ts \in Nat
  BY DEF Row
<1>2. next \in Nat \ {0} /\ next > ts
  BY <1>1 DEF NextTimestamp
<1>3. Reserved(row, now) = [row EXCEPT !.last_apns_timestamp = next,
                                      !.last_content_state_json = None]
  BY DEF Reserved
<1> HIDE DEF next
<1>4. Reserved(row, now) \in Row
  BY <1>2, <1>3 DEF Row
<1> QED
  BY <1>2, <1>4 DEF next

LEMMA SwitchedOffType ==
  ASSUME NEW row \in Row
  PROVE  [row EXCEPT !.active = FALSE] \in Row
BY DEF Row

LEMMA CompletedType ==
  ASSUME NEW row \in Row, NEW d \in Delivery
  PROVE  Completed(row, d) \in Row
BY DEF Completed, Row, Delivery

LEMMA SpendType ==
  ASSUME TypeOK, NEW e \in Event, Spend(e)
  PROVE  left' \in [Event -> Nat]
BY DEF TypeOK, Spend

LEMMA SendReadType ==
  ASSUME TypeOK, NEW s \in Sender, NEW f \in Flight, SendRead(s, f)
  PROVE  /\ pc' \in [Sender -> {"idle", "reserving", "sending"}]
         /\ seen' \in [Sender -> [flight_id : Flight, data : Data] \cup {None}]
         /\ \A t \in Sender : pc'[t] = "reserving" => seen'[t] \in [flight_id : Flight, data : Data]
         /\ todo' \in [Sender -> [Activity -> Row \cup {None}]]
<1>1. Selected(f) \in [Activity -> Row \cup {None}]
  BY DEF TypeOK, Selected
<1>2. [flight_id |-> f, data |-> flight[f]] \in [flight_id : Flight, data : Data]
  BY DEF TypeOK
<1>3. CASE Selected(f) = Nothing
  BY <1>3 DEF TypeOK, SendRead
<1>4. CASE Selected(f) # Nothing
  <2>1. /\ pc' = [pc EXCEPT ![s] = "reserving"]
        /\ seen' = [seen EXCEPT ![s] = [flight_id |-> f, data |-> flight[f]]]
        /\ todo' = [todo EXCEPT ![s] = Selected(f)]
    BY <1>4 DEF SendRead
  <2>2. todo' \in [Sender -> [Activity -> Row \cup {None}]]
    BY <1>1, <2>1 DEF TypeOK
  <2> QED
    BY <1>2, <2>1, <2>2 DEF TypeOK
<1> QED
  BY <1>3, <1>4

LEMMA AcceptType ==
  ASSUME TypeOK, NEW a \in Activity, NEW d \in Delivery, Accept(a, d)
  PROVE  newest' \in [Activity -> [timestamp : Nat, content : Content \cup {None}]]
BY DEF TypeOK, Accept, Delivery

LEMMA SendReserveType ==
  ASSUME TypeOK, NEW s \in Sender, NEW a \in Activity, SendReserve(s, a)
  PROVE  /\ reg' \in [Activity -> Row \cup {None}]
         /\ todo' \in [Sender -> [Activity -> Row \cup {None}]]
         /\ sent' \in [Sender -> [Activity -> Delivery \cup {None}]]
<1> DEFINE copy == todo[s][a]
           content == MakeContentState(seen[s].flight_id, seen[s].data, copy.prefs)
<1>1. copy \in Row
  BY DEF SendReserve, TypeOK
<1>2. content \in Content
  <2>1. seen[s] \in [flight_id : Flight, data : Data]
    BY DEF SendReserve, TypeOK
  <2> QED
    BY <1>1, <2>1 DEF MakeContentState, Content, Row
<1>3. todo' \in [Sender -> [Activity -> Row \cup {None}]]
  BY DEF SendReserve, TypeOK
<1>4. CASE Suppressed(copy, content) \/ ~Matches(reg[a], copy)
  BY <1>3, <1>4 DEF SendReserve, TypeOK
<1>5. CASE ~(Suppressed(copy, content) \/ ~Matches(reg[a], copy))
  <2>1. reg[a] \in Row
    BY <1>5 DEF Matches, TypeOK
  <2>2. PICK now \in 1..MaxNow :
          /\ reg' = [reg EXCEPT ![a] = Reserved(@, now)]
          /\ sent' = [sent EXCEPT ![s][a] =
               [push_token |-> copy.push_token,
                timestamp |-> NextTimestamp(reg[a].last_apns_timestamp, now),
                content |-> content, attempts |-> 0, result |-> "none"]]
    BY <1>5 DEF SendReserve
  <2>3. now \in Nat \ {0}
    BY LiveActivityAssumption
  <2>4. /\ Reserved(reg[a], now) \in Row
        /\ NextTimestamp(reg[a].last_apns_timestamp, now) \in Nat \ {0}
    BY <2>1, <2>3, ReservedType
  <2>5. [push_token |-> copy.push_token,
         timestamp |-> NextTimestamp(reg[a].last_apns_timestamp, now),
         content |-> content, attempts |-> 0, result |-> "none"] \in Delivery
    BY <1>1, <1>2, <2>4 DEF Delivery, Row, Result
  <2>6. reg' \in [Activity -> Row \cup {None}]
    BY <2>2, <2>4 DEF TypeOK
  <2>7. sent' \in [Sender -> [Activity -> Delivery \cup {None}]]
    BY <2>2, <2>5 DEF TypeOK
  <2> QED
    BY <1>3, <2>6, <2>7
<1> QED
  BY <1>4, <1>5

LEMMA SendAttemptType ==
  ASSUME TypeOK, NEW s \in Sender, NEW a \in Activity, SendAttempt(s, a)
  PROVE  /\ sent' \in [Sender -> [Activity -> Delivery \cup {None}]]
         /\ newest' \in [Activity -> [timestamp : Nat, content : Content \cup {None}]]
         /\ left' \in [Event -> Nat]
<1>1. sent[s][a] \in Delivery
  BY DEF SendAttempt, TypeOK
<1>2. ASSUME NEW result \in Result,
             sent' = [sent EXCEPT ![s][a].attempts = @ + 1, ![s][a].result = result]
      PROVE  sent' \in [Sender -> [Activity -> Delivery \cup {None}]]
  <2> DEFINE d == [sent[s][a] EXCEPT !.attempts = @ + 1, !.result = result]
  <2>1. d \in Delivery
    <3>1. sent[s][a].attempts + 1 \in Nat
      BY <1>1 DEF Delivery
    <3> DEFINE n == sent[s][a].attempts + 1
    <3>2. d = [sent[s][a] EXCEPT !.attempts = n, !.result = result]
      OBVIOUS
    <3> HIDE DEF n
    <3> QED
      BY <1>1, <3>1, <3>2 DEF Delivery, n
  <2>2. sent' = [sent EXCEPT ![s][a] = d]
    BY <1>2 DEF TypeOK
  <2> QED
    BY <2>1, <2>2 DEF TypeOK
<1>3. sent' \in [Sender -> [Activity -> Delivery \cup {None}]]
  BY <1>2 DEF SendAttempt, Result
<1>4. newest' \in [Activity -> [timestamp : Nat, content : Content \cup {None}]]
  BY <1>1, AcceptType DEF SendAttempt, TypeOK
<1>5. left' \in [Event -> Nat]
  BY SpendType DEF SendAttempt, TypeOK, Event
<1> QED
  BY <1>3, <1>4, <1>5

LEMMA NextTypeOK == TypeOK /\ [Next]_vars => TypeOK'
<1> SUFFICES ASSUME TypeOK, [Next]_vars PROVE TypeOK'
  OBVIOUS
<1> USE LiveActivityAssumption
<1>0. /\ "webhook" \in Event /\ "request" \in Event
      /\ "run" \in Event /\ "fault" \in Event
  BY DEF Event
<1>1. ASSUME NEW f \in Flight, WebhookCommit(f) PROVE TypeOK'
  BY <1>0, <1>1, SpendType DEF WebhookCommit, TypeOK, appVars, senderVars
<1>2. ASSUME NEW h \in Handler, RegisterCheck(h) PROVE TypeOK'
  BY <1>0, <1>2, SpendType DEF RegisterCheck, TypeOK, senderVars, HandlerState
<1>3. ASSUME NEW h \in Handler, RegisterRead(h) PROVE TypeOK'
  <2>1. hdl[h].req \in Request
    BY <1>3 DEF RegisterRead, TypeOK, HandlerState
  <2>2. reg[hdl[h].req.activity_id] \in Row \cup {None}
    BY <2>1 DEF TypeOK, Request
  <2>3. hdl' \in [Handler -> HandlerState]
    BY <1>3, <2>1, <2>2 DEF RegisterRead, TypeOK, HandlerState
  <2> QED
    BY <1>3, <2>3 DEF RegisterRead, TypeOK, senderVars
<1>4. ASSUME NEW h \in Handler, RegisterCommit(h) PROVE TypeOK'
  <2> DEFINE r == hdl[h].req
             copy == hdl[h].copy
  <2>1. r \in Request /\ copy \in Row \cup {None}
    BY <1>4 DEF RegisterCommit, TypeOK, HandlerState
  <2>2. ASSUME NEW b \in Activity PROVE reg'[b] \in Row \cup {None}
    <3>1. CASE b # r.activity_id
      <4>1. reg'[b] = WithoutToken(reg[b], r.push_token)
        BY <1>4, <3>1 DEF RegisterCommit
      <4> QED
        BY <4>1, WithoutTokenType DEF TypeOK
    <3>2. CASE b = r.activity_id /\ copy = None
      BY <1>4, <2>1, <3>2 DEF RegisterCommit, NewRow, Request, Row
    <3>3. CASE b = r.activity_id /\ copy # None
      <4>1. reg[b] \in Row /\ copy \in Row
        BY <1>4, <2>1, <3>3 DEF RegisterCommit, TypeOK
      <4> QED
        BY <1>4, <2>1, <3>3, <4>1, RotatedType DEF RegisterCommit
    <3> QED
      BY <3>1, <3>2, <3>3
  <2>3. reg' \in [Activity -> Row \cup {None}]
    BY <1>4, <2>2 DEF RegisterCommit
  <2>4. startState' \in [Device \X Flight -> {"absent", "delivered", "confirmed"}]
    BY <1>4 DEF RegisterCommit, TypeOK
  <2>5. hdl' \in [Handler -> HandlerState]
    BY <1>4 DEF RegisterCommit, TypeOK, HandlerState
  <2> QED
    BY <1>4, <2>3, <2>4, <2>5 DEF RegisterCommit, TypeOK, senderVars
<1>5. ASSUME NEW h \in Handler, RegisterFail(h) PROVE TypeOK'
  <2>1. left' \in [Event -> Nat]
    BY <1>0, <1>5, SpendType DEF RegisterFail, TypeOK
  <2>2. hdl' \in [Handler -> HandlerState]
    BY <1>5 DEF RegisterFail, TypeOK, HandlerState
  <2> QED
    BY <1>5, <2>1, <2>2 DEF RegisterFail, TypeOK, senderVars
<1>6. ASSUME NEW a \in Activity, Unregister(a) PROVE TypeOK'
  <2>1. reg' \in [Activity -> Row \cup {None}]
    BY <1>6, SwitchedOffType DEF Unregister, TypeOK
  <2> QED
    BY <1>0, <1>6, <2>1, SpendType DEF Unregister, TypeOK, senderVars
<1>7. ASSUME NEW d \in Device, NEW f \in Flight, RemoveFlight(d, f) PROVE TypeOK'
  <2>1. ASSUME NEW a \in Activity PROVE reg'[a] \in Row \cup {None}
    BY <1>7, SwitchedOffType DEF RemoveFlight, TypeOK
  <2>2. reg' \in [Activity -> Row \cup {None}]
    BY <1>7, <2>1 DEF RemoveFlight
  <2> QED
    BY <1>0, <1>7, <2>2, SpendType DEF RemoveFlight, TypeOK, senderVars
<1>8. ASSUME NEW d \in Device, NEW f \in Flight, AssignFlight(d, f) PROVE TypeOK'
  BY <1>0, <1>8, SpendType DEF AssignFlight, TypeOK, senderVars
<1>9. ASSUME NEW w \in Worker, NEW f \in Flight, WorkerStart(w, f) PROVE TypeOK'
  <2>1. w \in Sender
    BY DEF Sender
  <2> QED
    BY <1>0, <1>9, <2>1, SpendType, SendReadType
    DEF WorkerStart, SendRead, TypeOK, appVars
<1>10. CASE ReconcileScan
  BY <1>10 DEF ReconcileScan, TypeOK, appVars, IsActive, Row
<1>11. ASSUME NEW f \in Flight, ReconcileNext(f) PROVE TypeOK'
  <2>1. Fetcher \in Sender
    BY DEF Sender
  <2> QED
    BY <1>11, <2>1, SendReadType DEF ReconcileNext, SendRead, TypeOK, appVars
<1>12. ASSUME NEW s \in Sender, NEW a \in Activity, SendReserve(s, a) PROVE TypeOK'
  BY <1>12, SendReserveType DEF SendReserve, TypeOK
<1>13. ASSUME NEW s \in Sender, SendGather(s) PROVE TypeOK'
  BY <1>13 DEF SendGather, TypeOK, appVars
<1>14. ASSUME NEW s \in Sender, NEW a \in Activity, SendAttempt(s, a) PROVE TypeOK'
  BY <1>14, SendAttemptType DEF SendAttempt, TypeOK, appVars
<1>15. ASSUME NEW s \in Sender, SendComplete(s) PROVE TypeOK'
  <2>1. ASSUME NEW a \in Activity PROVE reg'[a] \in Row \cup {None}
    BY <1>15, CompletedType DEF SendComplete, TypeOK, Current
  <2>2. reg' \in [Activity -> Row \cup {None}]
    BY <1>15, <2>1 DEF SendComplete
  <2>3. sent' \in [Sender -> [Activity -> Delivery \cup {None}]]
    BY <1>15 DEF SendComplete, TypeOK, Nothing
  <2> QED
    BY <1>15, <2>2, <2>3 DEF SendComplete, TypeOK
<1>16. ASSUME NEW s \in Sender, Crash(s) PROVE TypeOK'
  <2>1. /\ todo' \in [Sender -> [Activity -> Row \cup {None}]]
        /\ sent' \in [Sender -> [Activity -> Delivery \cup {None}]]
        /\ round' \subseteq Flight
    BY <1>16 DEF Crash, TypeOK, Nothing
  <2> QED
    BY <1>0, <1>16, <2>1, SpendType DEF Crash, TypeOK, appVars
<1>17. ASSUME NEW t \in Token, InvalidateToken(t) PROVE TypeOK'
  BY <1>0, <1>17, SpendType DEF InvalidateToken, TypeOK, appVars, senderVars
<1>18. CASE UNCHANGED vars
  BY <1>18 DEF vars, appVars, senderVars, TypeOK
<1> QED
  BY <1>1, <1>2, <1>3, <1>4, <1>5, <1>6, <1>7, <1>8, <1>9, <1>10, <1>11, <1>12,
     <1>13, <1>14, <1>15, <1>16, <1>17, <1>18
  DEF Next, AppStep, FetcherStep, SenderStep, Sender

\* Every variable keeps its type: the rows, the copies of them that senders
\* and requests carry, and the deliveries.
THEOREM TypeCorrect == Spec => []TypeOK
BY InitTypeOK, NextTypeOK, PTL DEF Spec

-----------------------------------------------------------------------------
(* The inductive invariant. *)

LEMMA InitIInv == Init => IInv
<1> SUFFICES ASSUME Init PROVE IInv
  OBVIOUS
<1>1. TypeOK
  BY InitTypeOK
<1> QED
  BY <1>1 DEF Init, IInv, OrderInv, AcceptInv, SnapshotInv, Latest

\* What every step but those of the senders does to a row: the latest
\* timestamp stays, the snapshot stays or is cleared.
RowKept(a) ==
  /\ Latest(a)' = Latest(a)
  /\ (reg'[a] # None /\ reg'[a].last_content_state_json # None)
       => /\ reg[a] # None
          /\ reg'[a].last_content_state_json = reg[a].last_content_state_json
          /\ reg'[a].last_apns_timestamp = reg[a].last_apns_timestamp

LEMMA SwitchedOffKept ==
  ASSUME TypeOK, NEW a \in Activity, reg[a] # None,
         reg'[a] = [reg[a] EXCEPT !.active = FALSE]
  PROVE  RowKept(a)
<1>1. reg[a] \in Row /\ reg'[a] \in Row
  BY SwitchedOffType DEF TypeOK
<1>2. reg'[a] # None
  BY <1>1, NoneAssumption
<1> QED
  BY <1>1, <1>2 DEF RowKept, Latest, Row

LEMMA SameKept ==
  ASSUME NEW a \in Activity, reg'[a] = reg[a]
  PROVE  RowKept(a)
BY DEF RowKept, Latest

\* Steps that keep the rows, and drop deliveries at most, preserve IInv.
LEMMA KeptIInv ==
  ASSUME IInv, TypeOK',
         \A a \in Activity : RowKept(a),
         \A s \in Sender, a \in Activity :
           sent'[s][a] # None => sent'[s][a] = sent[s][a],
         newest' = newest,
         valid' \subseteq valid
  PROVE  IInv'
<1>1. OrderInv'
  BY DEF IInv, OrderInv, RowKept
<1>2. AcceptInv'
  BY DEF IInv, AcceptInv
<1>3. SnapshotInv'
  BY DEF IInv, SnapshotInv, RowKept
<1> QED
  BY <1>1, <1>2, <1>3 DEF IInv

LEMMA AppKept ==
  ASSUME TypeOK, AppStep, NEW a \in Activity
  PROVE  RowKept(a)
<1>1. CASE reg' = reg
  BY <1>1 DEF RowKept, Latest
<1>2. ASSUME NEW h \in Handler, RegisterCommit(h) PROVE RowKept(a)
  <2> DEFINE r == hdl[h].req
             copy == hdl[h].copy
  <2>1a. r \in Request /\ copy \in Row \cup {None}
    BY <1>2 DEF RegisterCommit, TypeOK, HandlerState
  <2>1. CASE a # r.activity_id
    <3>1. reg'[a] = WithoutToken(reg[a], r.push_token)
      BY <1>2, <2>1 DEF RegisterCommit
    <3> QED
      BY <3>1, SwitchedOffKept, SameKept DEF WithoutToken
  <2>2. CASE a = r.activity_id /\ copy = None
    <3>1. reg[a] = None /\ reg'[a] = NewRow(r)
      BY <1>2, <2>2 DEF RegisterCommit
    <3> QED
      BY <3>1 DEF NewRow, RowKept, Latest
  <2>3. CASE a = r.activity_id /\ copy # None
    <3>1. reg[a] \in Row /\ reg'[a] = Rotated(reg[a], copy, r)
      BY <1>2, <2>3 DEF RegisterCommit, TypeOK
    <3>2. /\ reg'[a].last_apns_timestamp = reg[a].last_apns_timestamp
          /\ \/ reg'[a].last_content_state_json = reg[a].last_content_state_json
             \/ reg'[a].last_content_state_json = None
      BY <3>1 DEF Rotated, Row
    <3>3. reg[a] # None /\ reg'[a] # None
      BY <1>2, <2>1a, <2>3, <3>1, RotatedType, NoneAssumption
    <3> QED
      BY <3>2, <3>3 DEF RowKept, Latest
  <2> QED
    BY <2>1, <2>2, <2>3
<1>3. ASSUME NEW b \in Activity, Unregister(b) PROVE RowKept(a)
  BY <1>3, SwitchedOffKept, SameKept DEF Unregister, TypeOK
<1>4. ASSUME NEW d \in Device, NEW f \in Flight, RemoveFlight(d, f) PROVE RowKept(a)
  BY <1>4, SwitchedOffKept, SameKept DEF RemoveFlight
<1> QED
  BY <1>1, <1>2, <1>3, <1>4
  DEF AppStep, WebhookCommit, RegisterCheck, RegisterRead, RegisterFail, AssignFlight, appVars

LEMMA ReserveIInv ==
  ASSUME IInv, TypeOK', NEW s \in Sender, NEW a \in Activity, SendReserve(s, a)
  PROVE  IInv'
<1> DEFINE copy == todo[s][a]
           content == MakeContentState(seen[s].flight_id, seen[s].data, copy.prefs)
<1>1. newest' = newest /\ valid' = valid
  BY DEF SendReserve
<1>2. CASE Suppressed(copy, content) \/ ~Matches(reg[a], copy)
  BY <1>1, <1>2, KeptIInv, SameKept DEF SendReserve
<1>3. CASE ~(Suppressed(copy, content) \/ ~Matches(reg[a], copy))
  <2>1. reg[a] \in Row /\ reg[a] # None
    BY <1>3 DEF Matches, IInv, TypeOK
  <2>2. PICK now \in 1..MaxNow :
          /\ reg' = [reg EXCEPT ![a] = Reserved(@, now)]
          /\ sent' = [sent EXCEPT ![s][a] =
               [push_token |-> copy.push_token,
                timestamp |-> NextTimestamp(reg[a].last_apns_timestamp, now),
                content |-> content, attempts |-> 0, result |-> "none"]]
    BY <1>3 DEF SendReserve
  <2> DEFINE ts == NextTimestamp(reg[a].last_apns_timestamp, now)
             d == sent'[s][a]
  <2>3. now \in Nat \ {0}
    BY LiveActivityAssumption
  <2>4. Reserved(reg[a], now) \in Row /\ ts \in Nat \ {0} /\ ts > reg[a].last_apns_timestamp
    BY <2>1, <2>3, ReservedType
  <2>5. /\ reg'[a] # None
        /\ reg'[a].last_apns_timestamp = ts
        /\ reg'[a].last_content_state_json = None
        /\ \A b \in Activity \ {a} : reg'[b] = reg[b]
    BY <2>1, <2>2, <2>4, NoneAssumption DEF IInv, TypeOK, Reserved, Row
  <2>6. /\ d.timestamp = ts
        /\ d.result = "none"
        /\ \A t \in Sender, b \in Activity :
             (t # s \/ b # a) => sent'[t][b] = sent[t][b]
    BY <2>2 DEF IInv, TypeOK
  <2>7. Latest(a) = reg[a].last_apns_timestamp /\ Latest(a)' = ts
        /\ \A b \in Activity \ {a} : Latest(b)' = Latest(b)
    BY <2>1, <2>5 DEF Latest
  <2>8. /\ \A b \in Activity : Latest(b) \in Nat /\ newest[b].timestamp \in Nat
        /\ \A t \in Sender, b \in Activity : sent[t][b] # None => sent[t][b].timestamp \in Nat
    BY DEF IInv, TypeOK, Latest, Row, Delivery
  <2> HIDE DEF ts, d
  <2>9. OrderInv'
    <3>1. \A b \in Activity : newest'[b].timestamp <= Latest(b)'
      BY <1>1, <2>4, <2>7, <2>8 DEF IInv, OrderInv
    <3>2. \A t \in Sender, b \in Activity :
            sent'[t][b] # None => sent'[t][b].timestamp <= Latest(b)'
      BY <2>4, <2>6, <2>7, <2>8 DEF IInv, OrderInv, d
    <3>3. \A t \in Sender : t # s /\ sent'[t][a] # None => sent'[t][a].timestamp < ts
      BY <2>4, <2>6, <2>7, <2>8 DEF IInv, OrderInv
    <3>4. \A t, u \in Sender, b \in Activity :
            (t # u /\ sent'[t][b] # None /\ sent'[u][b] # None)
              => sent'[t][b].timestamp # sent'[u][b].timestamp
      BY <2>4, <2>6, <3>3 DEF IInv, OrderInv, d
    <3> QED
      BY <3>1, <3>2, <3>4 DEF OrderInv
  <2>10. AcceptInv'
    <3>1. newest[a].timestamp < ts
      BY <2>4, <2>7, <2>8 DEF IInv, OrderInv
    <3> QED
      BY <1>1, <2>4, <2>6, <2>8, <3>1 DEF IInv, AcceptInv, d
  <2>11. SnapshotInv'
    BY <1>1, <2>5 DEF IInv, SnapshotInv
  <2> QED
    BY <2>9, <2>10, <2>11 DEF IInv
<1> QED
  BY <1>2, <1>3

LEMMA AttemptIInv ==
  ASSUME IInv, TypeOK', NEW s \in Sender, NEW a \in Activity, SendAttempt(s, a)
  PROVE  IInv'
<1> DEFINE d == sent[s][a]
<1>1. d \in Delivery /\ d # None
  BY DEF SendAttempt, IInv, TypeOK
<1>2. reg' = reg /\ valid' = valid
  BY DEF SendAttempt, appVars
<1>3. /\ sent'[s][a].timestamp = d.timestamp
      /\ sent'[s][a].content = d.content
      /\ sent'[s][a].push_token = d.push_token
      /\ \A t \in Sender, b \in Activity :
           (t # s \/ b # a) => sent'[t][b] = sent[t][b]
  BY <1>1 DEF SendAttempt, IInv, TypeOK, Delivery
<1>4. /\ Accept(a, d) \/ newest' = newest
      /\ sent'[s][a].result = "success" => Accept(a, d)
      /\ sent'[s][a].result = "invalid" => d.push_token \notin valid
  BY <1>1 DEF SendAttempt, IInv, TypeOK, Delivery
<1>5. /\ \A b \in Activity : Latest(b) \in Nat /\ newest[b].timestamp \in Nat
      /\ \A t \in Sender, b \in Activity : sent[t][b] # None => sent[t][b].timestamp \in Nat
      /\ \A b \in Activity : Latest(b)' = Latest(b)
  BY <1>2 DEF IInv, TypeOK, Latest, Row, Delivery
\* What APNs holds for an activity: what it held, or this message if newer.
<1>6. /\ \A b \in Activity : b # a => newest'[b] = newest[b]
      /\ \/ newest'[a] = newest[a]
         \/ /\ d.timestamp > newest[a].timestamp
            /\ newest'[a].timestamp = d.timestamp
            /\ newest'[a].content = d.content
  BY <1>4 DEF Accept, IInv, TypeOK
<1>7. sent'[s][a].result = "success" => newest'[a].timestamp >= d.timestamp
  BY <1>1, <1>4, <1>5 DEF Accept, IInv, TypeOK
<1>8. OrderInv'
  <2>1. \A b \in Activity : newest'[b].timestamp <= Latest(b)'
    BY <1>1, <1>5, <1>6 DEF IInv, OrderInv
  <2>2. \A t \in Sender, b \in Activity :
          sent'[t][b] # None => sent'[t][b].timestamp <= Latest(b)'
    BY <1>1, <1>3, <1>5 DEF IInv, OrderInv
  <2>3. \A t, u \in Sender, b \in Activity :
          (t # u /\ sent'[t][b] # None /\ sent'[u][b] # None)
            => sent'[t][b].timestamp # sent'[u][b].timestamp
    BY <1>1, <1>3 DEF IInv, OrderInv
  <2> QED
    BY <2>1, <2>2, <2>3 DEF OrderInv
<1>9. AcceptInv'
  <2>1. ASSUME NEW t \in Sender, NEW b \in Activity, sent'[t][b] # None
        PROVE  /\ sent'[t][b].result = "success" => sent'[t][b].timestamp <= newest'[b].timestamp
               /\ sent'[t][b].timestamp = newest'[b].timestamp
                    => newest'[b].content = sent'[t][b].content
               /\ sent'[t][b].result = "invalid" => sent'[t][b].push_token \notin valid'
    <3>1. CASE t = s /\ b = a
      BY <1>1, <1>2, <1>3, <1>4, <1>6, <1>7, <3>1 DEF IInv, AcceptInv
    <3>2. CASE t # s /\ b = a
      <4>1. sent[t][a] # None /\ sent'[t][a] = sent[t][a]
        BY <1>3, <2>1, <3>2
      <4>2. sent[t][a].timestamp # d.timestamp
        BY <1>1, <3>2, <4>1 DEF IInv, OrderInv
      <4> QED
        BY <1>1, <1>2, <1>5, <1>6, <3>2, <4>1, <4>2 DEF IInv, AcceptInv
    <3>3. CASE b # a
      BY <1>2, <1>3, <1>6, <2>1, <3>3 DEF IInv, AcceptInv
    <3> QED
      BY <3>1, <3>2, <3>3
  <2> QED
    BY <2>1 DEF AcceptInv
\* A set snapshot belongs to the latest reservation, which this message does
\* not exceed.
<1>10. SnapshotInv'
  <2>1. d.timestamp <= Latest(a)
    BY <1>1 DEF IInv, OrderInv
  <2> QED
    BY <1>1, <1>2, <1>5, <1>6, <2>1 DEF IInv, SnapshotInv, Latest
<1> QED
  BY <1>8, <1>9, <1>10 DEF IInv

LEMMA CompleteIInv ==
  ASSUME IInv, TypeOK', NEW s \in Sender, SendComplete(s)
  PROVE  IInv'
<1>1. newest' = newest /\ valid' = valid
  BY DEF SendComplete
<1>2. \A t \in Sender, a \in Activity : sent'[t][a] # None => sent'[t][a] = sent[t][a]
  BY DEF SendComplete, Nothing, IInv, TypeOK
<1>3. ASSUME NEW a \in Activity
      PROVE  /\ Latest(a)' = Latest(a)
             /\ (reg'[a] # None /\ reg'[a].last_content_state_json # None)
                  => /\ newest[a].timestamp = reg'[a].last_apns_timestamp
                     /\ newest[a].content = reg'[a].last_content_state_json
  <2> DEFINE d == sent[s][a]
  <2>1. CASE d = None \/ ~Current(reg[a], d)
    <3>1. reg'[a] = reg[a]
      BY <2>1 DEF SendComplete
    <3> QED
      BY <3>1 DEF Latest, IInv, SnapshotInv
  <2>2. CASE d # None /\ Current(reg[a], d)
    <3>1. d \in Delivery /\ reg[a] \in Row /\ reg[a] # None
      BY <2>2 DEF IInv, TypeOK, Current
    <3>2. reg'[a] = Completed(reg[a], d)
      BY <2>2 DEF SendComplete
    <3>3. reg'[a] # None
      BY <3>1, <3>2, CompletedType, NoneAssumption
    <3>4. /\ reg'[a].last_apns_timestamp = reg[a].last_apns_timestamp
          /\ reg'[a].last_content_state_json =
               IF d.result = "success" THEN d.content ELSE reg[a].last_content_state_json
      BY <3>1, <3>2 DEF Completed, Row
    <3>5. Latest(a)' = Latest(a)
      BY <3>1, <3>3, <3>4 DEF Latest
    \* The delivery carries the latest timestamp and APNs took it, so that it
    \* is what APNs holds as newest.
    <3>6. CASE d.result = "success"
      <4>1. d.timestamp = Latest(a)
        BY <2>2, <3>1 DEF Current, Latest
      <4>2. newest[a].timestamp = d.timestamp
        <5>1. d.timestamp <= newest[a].timestamp /\ newest[a].timestamp <= d.timestamp
          BY <2>2, <3>6, <4>1 DEF IInv, AcceptInv, OrderInv
        <5>2. d.timestamp \in Nat /\ newest[a].timestamp \in Nat
          BY <3>1 DEF Delivery, IInv, TypeOK
        <5> QED
          BY <5>1, <5>2
      <4>3. newest[a].content = d.content
        BY <2>2, <4>2 DEF IInv, AcceptInv
      <4> QED
        BY <2>2, <3>4, <3>5, <3>6, <4>2, <4>3 DEF Current
    <3>7. CASE d.result # "success"
      BY <3>1, <3>4, <3>5, <3>7 DEF IInv, SnapshotInv
    <3> QED
      BY <3>6, <3>7
  <2> QED
    BY <2>1, <2>2
<1>4. OrderInv'
  BY <1>1, <1>2, <1>3 DEF IInv, OrderInv
<1>5. AcceptInv'
  BY <1>1, <1>2 DEF IInv, AcceptInv
<1>6. SnapshotInv'
  BY <1>1, <1>3 DEF SnapshotInv
<1> QED
  BY <1>4, <1>5, <1>6 DEF IInv

LEMMA NextIInv == IInv /\ [Next]_vars => IInv'
<1> SUFFICES ASSUME IInv, [Next]_vars PROVE IInv'
  OBVIOUS
<1>1. TypeOK /\ TypeOK'
  BY NextTypeOK DEF IInv
<1>2. CASE AppStep
  <2>1. UNCHANGED <<sent, newest, valid>>
    BY <1>2 DEF AppStep, WebhookCommit, RegisterCheck, RegisterRead, RegisterCommit,
                RegisterFail, Unregister, RemoveFlight, AssignFlight, senderVars
  <2>2. \A a \in Activity : RowKept(a)
    BY <1>1, <1>2, AppKept
  <2> QED
    BY <1>1, <2>1, <2>2, KeptIInv
<1>3. ASSUME reg' = reg, newest' = newest, valid' \subseteq valid,
             \A s \in Sender, a \in Activity :
               sent'[s][a] # None => sent'[s][a] = sent[s][a]
      PROVE  IInv'
  BY <1>1, <1>3, KeptIInv, SameKept
<1>4. ASSUME NEW w \in Worker, NEW f \in Flight, WorkerStart(w, f) PROVE IInv'
  BY <1>3, <1>4 DEF WorkerStart, SendRead, appVars
<1>5. CASE ReconcileScan
  BY <1>3, <1>5 DEF ReconcileScan, appVars
<1>6. ASSUME NEW f \in Flight, ReconcileNext(f) PROVE IInv'
  BY <1>3, <1>6 DEF ReconcileNext, SendRead, appVars
<1>7. ASSUME NEW s \in Sender, SenderStep(s) PROVE IInv'
  <2>1. ASSUME NEW a \in Activity, SendReserve(s, a) PROVE IInv'
    BY <1>1, <2>1, ReserveIInv
  <2>2. ASSUME NEW a \in Activity, SendAttempt(s, a) PROVE IInv'
    BY <1>1, <2>2, AttemptIInv
  <2>3. CASE SendGather(s)
    BY <1>3, <2>3 DEF SendGather, appVars
  <2>4. CASE SendComplete(s)
    BY <1>1, <2>4, CompleteIInv
  <2> QED
    BY <1>7, <2>1, <2>2, <2>3, <2>4 DEF SenderStep
<1>8. ASSUME NEW s \in Sender, Crash(s) PROVE IInv'
  <2>1. \A t \in Sender, a \in Activity : sent'[t][a] # None => sent'[t][a] = sent[t][a]
    BY <1>1, <1>8 DEF Crash, Nothing, TypeOK
  <2> QED
    BY <1>3, <1>8, <2>1 DEF Crash, appVars
<1>9. ASSUME NEW t \in Token, InvalidateToken(t) PROVE IInv'
  BY <1>3, <1>9 DEF InvalidateToken, appVars, senderVars
<1>10. CASE UNCHANGED vars
  BY <1>3, <1>10 DEF vars, appVars, senderVars
<1> QED
  BY <1>2, <1>4, <1>5, <1>6, <1>7, <1>8, <1>9, <1>10 DEF Next, FetcherStep, Sender

LEMMA AlwaysIInv == Spec => []IInv
BY InitIInv, NextIInv, PTL DEF Spec

-----------------------------------------------------------------------------
(* The properties. *)

\* A set deduplication snapshot is the content of the newest message APNs has
\* taken for the activity, for any number of senders, requests and faults.
THEOREM SnapshotCorrect == Spec => []SnapshotTruthful
<1>1. IInv => SnapshotTruthful
  BY DEF IInv, SnapshotInv, SnapshotTruthful
<1> QED
  BY <1>1, AlwaysIInv, PTL

\* A completion switches a registration off only for a token APNs has declared
\* dead, or after the terminal state of its flight became the newest message.
THEOREM DeactivationCorrect == Spec => OnlyEndsDeliveredOrDead
<1>1. ASSUME IInv, NEW s \in Sender, SendComplete(s), NEW a \in Activity,
             IsActive(a), reg[a].push_token \in valid, ~IsActive(a)'
      PROVE  /\ newest[a].content \in Content
             /\ IsEnd(newest[a].content)
             /\ newest[a].content.flight_id = reg[a].flight_id
  <2> DEFINE d == sent[s][a]
  <2>1. d # None /\ Current(reg[a], d)
    BY <1>1 DEF SendComplete, IsActive
  <2>2. d \in Delivery /\ reg[a] \in Row /\ reg[a] # None
    BY <1>1, <2>1 DEF IInv, TypeOK, Current
  <2>3. reg'[a] = Completed(reg[a], d)
    BY <1>1, <2>1 DEF SendComplete
  <2>4. reg'[a] # None
    BY <2>2, <2>3, CompletedType, NoneAssumption
  <2>5. d.result # "invalid"
    BY <1>1, <2>1 DEF IInv, AcceptInv, Current
  <2>6. d.result = "success" /\ IsEnd(d.content)
    BY <1>1, <2>2, <2>3, <2>4, <2>5 DEF Completed, IsActive, Row
  <2>7. newest[a].timestamp = d.timestamp
    <3>1. d.timestamp <= newest[a].timestamp
      BY <1>1, <2>1, <2>6 DEF IInv, AcceptInv
    <3>2. newest[a].timestamp <= d.timestamp
      BY <1>1, <2>1, <2>2 DEF IInv, OrderInv, Latest, Current
    <3>3. d.timestamp \in Nat /\ newest[a].timestamp \in Nat
      BY <1>1, <2>2 DEF Delivery, IInv, TypeOK
    <3> QED
      BY <3>1, <3>2, <3>3
  <2>8. newest[a].content = d.content
    BY <1>1, <2>1, <2>7 DEF IInv, AcceptInv
  <2> QED
    BY <2>1, <2>2, <2>6, <2>8 DEF Current, Delivery
<1>2. IInv /\ [Next]_vars =>
        [\A s \in Sender : SendComplete(s) =>
           \A a \in Activity :
             (IsActive(a) /\ reg[a].push_token \in valid /\ ~IsActive(a)')
               => /\ newest[a].content \in Content
                  /\ IsEnd(newest[a].content)
                  /\ newest[a].content.flight_id = reg[a].flight_id]_vars
  BY <1>1
<1> QED
  BY <1>2, AlwaysIInv, PTL DEF Spec, OnlyEndsDeliveredOrDead

-----------------------------------------------------------------------------
(* PushToStart. *)

(* Types. *)

StartKey == Phone \X DueFlight
Copies == [phone : Phone, token : StartToken]
Starts == [phone : Phone, flight : DueFlight, token : StartToken]

Passes ==
  [pc : {"next", "flight", "send"}, todo : SUBSET Copies, reg : Copies \cup {None}, flights : SUBSET DueFlight, count : Nat,
   dirty : BOOLEAN, ledger : [StartKey -> DeliveryRow \cup {None}], off : SUBSET Phone, sent : SUBSET Starts]
AppRequests == [pc : {"write"}, phone : Phone, token : StartToken, copy : StartRow \cup {None}]

StartTypes ==
  /\ startReg \in [Phone -> StartRow \cup {None}]
  /\ startLedger \in [StartKey -> DeliveryRow \cup {None}]
  /\ owned \subseteq Phone /\ tracked \in [Phone -> SUBSET DueFlight] /\ running \subseteq StartKey
  /\ startPass = NoPass \/ startPass \in Passes
  /\ startApp = NoRequest \/ startApp \in AppRequests
  /\ startSettled \subseteq Starts /\ refusedTok \subseteq StartToken
  /\ startPass.pc \in {"flight", "send"} => startPass.reg \in Copies /\ startPass.flights # {}

\* The token of a delivery is no newer than the one it is for.
NoNewer(d, k) == startReg[d] # None /\ k <= startReg[d].token

AppCopy ==
  startApp # NoRequest =>
    IF startApp.copy = None THEN startReg[startApp.phone] = None
    ELSE /\ startReg[startApp.phone] # None /\ startReg[startApp.phone].token = startApp.copy.token
         /\ startApp.copy.token <= startApp.token

\* What the pass has read is the newest the ledger may hold.
Newest(c) ==
  /\ NoNewer(c.phone, c.token)
  /\ \A f \in DueFlight : startLedger[<<c.phone, f>>] # None => startLedger[<<c.phone, f>>].token <= c.token

Busy == startPass.pc \in {"flight", "send"}

TokensInv ==
  /\ \A x \in StartKey : startLedger[x] # None => NoNewer(x[1], startLedger[x].token)
  /\ AppCopy
  /\ startPass # NoPass =>
       /\ \A c \in startPass.todo : Newest(c)
       /\ Busy => Newest(startPass.reg)
       /\ \A x \in StartKey : startPass.ledger[x] # None => NoNewer(x[1], startPass.ledger[x].token)
       /\ \A d \in startPass.off : startReg[d] # None

\* The pass comes to a device and a flight once.
OnceInv == startPass # NoPass =>
  /\ \A c, e \in startPass.todo : c.phone = e.phone => c = e
  /\ Busy => \A c \in startPass.todo : c.phone # startPass.reg.phone
  /\ \A x \in StartKey : startPass.ledger[x] # None =>
       /\ \A c \in startPass.todo : c.phone # x[1]
       /\ Busy /\ startPass.reg.phone = x[1] => x[2] \notin startPass.flights

\* A start that is settled is in the ledger, which the next pass will find, or in what the
\* pass is to commit.
Covers(row, k) ==
  /\ row # None /\ k <= row.token
  /\ row.token = k => row.state \in {"delivered", "confirmed", "failed_permanent"}
Sent == IF startPass = NoPass THEN {} ELSE startPass.sent

SettledInv ==
  /\ \A s \in startSettled \ Sent : Covers(startLedger[<<s.phone, s.flight>>], s.token)
  /\ startPass # NoPass =>
       /\ \A s \in startPass.sent : startPass.ledger[<<s.phone, s.flight>>] # None
       /\ \A s \in startSettled : startPass.ledger[<<s.phone, s.flight>>] # None =>
            Covers(startPass.ledger[<<s.phone, s.flight>>], s.token)

StartInv == StartTypes /\ TokensInv /\ OnceInv /\ SettledInv /\ StartedOnce

-----------------------------------------------------------------------------
(* The pass's operators. *)

LEMMA DueExists ==
  ASSUME NEW p, p.flights \subseteq DueFlight, p.flights # {}
  PROVE  NextDue(p) \in p.flights
<1> DEFINE T == p.flights
<1>1. T \subseteq Nat /\ T # {}
  BY StartAssumption
<1>2. PICK m \in T : \A y \in T : ~(<<y, m>> \in OpToRel(<, Nat))
  <2> HIDE DEF T
  <2> QED BY <1>1, WFMin, NatLessThanWellFounded
<1>3. \A y \in T : ~(y < m)
  <2> HIDE DEF T
  <2> QED BY <1>1, <1>2 DEF OpToRel
<1>4. \A y \in T : m <= y
  BY <1>1, <1>3
<1> QED BY <1>4 DEF NextDue

LEMMA NoteIs ==
  ASSUME NEW p \in Passes, NEW d \in Phone, NEW f \in DueFlight, NEW row \in DeliveryRow
  PROVE  LET q == Note(p, d, f, row)
             x == <<d, f>>
         IN /\ q \in Passes
            /\ q.todo = p.todo /\ q.reg = p.reg /\ q.flights = p.flights /\ q.off = p.off /\ q.sent = p.sent /\ q.pc = p.pc
            /\ q.ledger = [p.ledger EXCEPT ![x] = row]
<1> DEFINE l == [p.ledger EXCEPT ![<<d, f>>] = row]
           q == Note(p, d, f, row)
<1>1. <<d, f>> \in StartKey /\ p.ledger \in [StartKey -> DeliveryRow \cup {None}]
  BY DEF StartKey, Passes
<1>2. l \in [StartKey -> DeliveryRow \cup {None}]
  BY <1>1
<1>3. q = [p EXCEPT !.ledger = l, !.dirty = TRUE]
  BY DEF Note
<1> HIDE DEF l, q
<1>4. q \in Passes /\ q.ledger = l
      /\ q.todo = p.todo /\ q.reg = p.reg /\ q.flights = p.flights /\ q.off = p.off /\ q.sent = p.sent /\ q.pc = p.pc
  BY <1>2, <1>3 DEF Passes
<1> QED BY <1>4 DEF q, l

LEMMA OnwardIs ==
  ASSUME NEW p \in Passes, NEW f \in p.flights
  PROVE  LET q == Onward(p, f)
         IN /\ q \in Passes
            /\ q.todo = p.todo /\ q.reg = p.reg /\ q.off = p.off /\ q.sent = p.sent /\ q.ledger = p.ledger
            /\ q.flights = p.flights \ {f}
            /\ q.pc \in {"next", "flight"} /\ (q.pc = "flight" => q.flights # {})
BY DEF Onward, Passes

-----------------------------------------------------------------------------
(* The steps of the pass. *)

\* The pass is done with a flight: it may have noted a row for it and settled a start.
PassGoesOn(f, x, q, new, row) ==
  /\ startPass' = q
  /\ q.todo = startPass.todo /\ q.reg = startPass.reg /\ q.flights \subseteq startPass.flights \ {f}
  /\ q.pc \in {"next", "flight"} /\ (q.pc = "flight" => q.flights # {})
  /\ q.off \subseteq startPass.off \cup {startPass.reg.phone}
  /\ \A s \in new : s.phone = startPass.reg.phone /\ s.flight = f
  /\ q.sent = startPass.sent \cup new /\ startSettled' = startSettled \cup new
  /\ row.token <= startPass.reg.token
  /\ \/ q.ledger = startPass.ledger /\ new = {}
     \/ /\ q.ledger = [startPass.ledger EXCEPT ![x] = row]
        /\ \A s \in startSettled \cup new : s.phone = startPass.reg.phone /\ s.flight = f => Covers(row, s.token)
  /\ refusedTok' \subseteq StartToken
  /\ UNCHANGED <<startReg, startLedger, owned, tracked, running, startApp>>

LEMMA PassStays ==
  ASSUME StartInv, Busy, startPass # NoPass,
         NEW f, f = NextDue(startPass), NEW x, x = <<startPass.reg.phone, f>>,
         NEW q \in Passes, NEW new \in SUBSET Starts, NEW row \in DeliveryRow, PassGoesOn(f, x, q, new, row)
  PROVE  StartInv'
<1> USE DEF PassGoesOn
<1> DEFINE p == startPass
<1>1. p \in Passes /\ p.reg \in Copies /\ p.flights # {} /\ p.flights \subseteq DueFlight
  BY DEF StartInv, StartTypes, Busy, Passes
<1>2. f \in p.flights /\ f \in DueFlight /\ x \in StartKey /\ x[1] = p.reg.phone /\ x[2] = f
  BY <1>1, DueExists DEF StartKey, Copies
<1>3. q # NoPass /\ q.reg \in Copies
  BY <1>1 DEF Passes, NoPass
<1>4. StartTypes'
  BY <1>1, <1>3 DEF StartInv, StartTypes
<1>5. /\ \A y \in StartKey : y # x => q.ledger[y] = p.ledger[y]
      /\ q.ledger[x] = p.ledger[x] \/ q.ledger[x] = row
      /\ q.ledger # p.ledger \/ new # {} => q.ledger[x] = row /\ row # None
  BY <1>1, <1>2, StartAssumption DEF Passes
<1>6. TokensInv'
  <2>1. NoNewer(p.reg.phone, p.reg.token) /\ startReg[p.reg.phone] # None
    BY DEF StartInv, TokensInv, Newest, NoNewer
  <2>2. NoNewer(x[1], row.token)
    <3>1. startReg[p.reg.phone] \in StartRow
      BY <1>1, <2>1 DEF StartInv, StartTypes, Copies
    <3>2. startReg[p.reg.phone].token \in Nat /\ p.reg.token \in Nat /\ row.token \in Nat
      BY <1>1, <3>1, StartAssumption DEF StartRow, Copies, DeliveryRow
    <3> QED BY <1>2, <2>1, <3>2 DEF NoNewer
  <2>3. \A y \in StartKey : q.ledger[y] # None => NoNewer(y[1], q.ledger[y].token)
    BY <1>5, <2>2 DEF StartInv, TokensInv
  <2>4. \A d \in q.off : startReg[d] # None
    BY <2>1 DEF StartInv, TokensInv
  <2>5. AppCopy'
    BY DEF StartInv, TokensInv, AppCopy
  <2> QED BY <2>3, <2>4, <2>5 DEF StartInv, TokensInv, Newest, NoNewer, Busy
<1>7. OnceInv'
  <2>1. \A c \in p.todo : c.phone # p.reg.phone
    BY DEF StartInv, OnceInv
  <2>2. ASSUME NEW y \in StartKey, q.ledger[y] # None
        PROVE  /\ \A c \in q.todo : c.phone # y[1]
               /\ q.pc = "flight" /\ q.reg.phone = y[1] => y[2] \notin q.flights
    <3>1. CASE y = x
      BY <1>2, <2>1, <3>1
    <3>2. CASE y # x
      <4>1. p.ledger[y] # None
        BY <1>5, <2>2, <3>2
      <4> QED BY <4>1 DEF StartInv, OnceInv
    <3> QED BY <3>1, <3>2
  <2> QED BY <2>1, <2>2 DEF StartInv, OnceInv, Busy
<1>8. SettledInv'
  <2>1. Sent' = q.sent /\ Sent = p.sent
    BY <1>3 DEF Sent
  <2>2. \A s \in startSettled' \ q.sent : s \in startSettled \ p.sent
    OBVIOUS
  <2>3. ASSUME NEW s \in q.sent
        PROVE  q.ledger[<<s.phone, s.flight>>] # None
    <3>1. CASE s \in p.sent
      <4>1. p.ledger[<<s.phone, s.flight>>] # None /\ <<s.phone, s.flight>> \in StartKey
        BY <1>1, <3>1 DEF StartInv, SettledInv, Passes, Starts, StartKey
      <4> QED BY <1>5, <4>1, StartAssumption
    <3>2. CASE s \in new
      BY <1>5, <3>2
    <3> QED BY <3>1, <3>2
  <2>4. ASSUME NEW s \in startSettled', q.ledger[<<s.phone, s.flight>>] # None
        PROVE  Covers(q.ledger[<<s.phone, s.flight>>], s.token)
    <3>1. CASE <<s.phone, s.flight>> = x
      <4>1. s.phone = p.reg.phone /\ s.flight = f
        BY <3>1
      <4>2. p.ledger[x] = None
        BY <1>2 DEF StartInv, OnceInv
      <4>3. q.ledger # p.ledger
        BY <2>4, <3>1, <4>2
      <4> QED BY <1>5, <3>1, <4>1, <4>3
    <3>2. CASE <<s.phone, s.flight>> # x
      <4>0. s \in startSettled /\ <<s.phone, s.flight>> \in StartKey
        BY <3>2 DEF StartInv, StartTypes, Starts, StartKey
      <4>1. s \in startSettled /\ p.ledger[<<s.phone, s.flight>>] # None
            /\ q.ledger[<<s.phone, s.flight>>] = p.ledger[<<s.phone, s.flight>>]
        BY <1>5, <2>4, <3>2, <4>0
      <4> QED BY <4>1 DEF StartInv, SettledInv
    <3> QED BY <3>1, <3>2
  <2> QED BY <2>1, <2>2, <2>3, <2>4 DEF StartInv, SettledInv, Covers
<1>9. StartedOnce'
  BY DEF StartedOnce
<1> QED BY <1>4, <1>6, <1>7, <1>8, <1>9 DEF StartInv

\* The delivery the pass finds is older than the token, or it is the token's.
LEMMA FoundRow ==
  ASSUME StartInv, Busy, startPass # NoPass, NEW f, f = NextDue(startPass),
         NEW x, x = <<startPass.reg.phone, f>>, NEW old, old = startLedger[x]
  PROVE  /\ startPass \in Passes /\ startPass.reg \in Copies /\ f \in startPass.flights /\ f \in DueFlight
         /\ x \in StartKey /\ startPass.ledger[x] = None
         /\ old # None => old \in DeliveryRow /\ old.token <= startPass.reg.token
         /\ startPass.reg.token \in Nat
         /\ \A s \in startSettled : s.phone = startPass.reg.phone /\ s.flight = f => s \in Starts /\ Covers(old, s.token)
<1> DEFINE p == startPass
<1>1. p \in Passes /\ p.reg \in Copies /\ p.flights # {} /\ p.flights \subseteq DueFlight
  BY DEF StartInv, StartTypes, Busy, Passes
<1>2. f \in p.flights /\ f \in DueFlight /\ x \in StartKey /\ x[1] = p.reg.phone /\ x[2] = f
  BY <1>1, DueExists DEF StartKey, Copies
<1>3. p.ledger[x] = None
  BY <1>2 DEF StartInv, OnceInv
<1>4. old # None => old \in DeliveryRow /\ old.token <= p.reg.token
  BY <1>2 DEF StartInv, StartTypes, TokensInv, Newest
<1>5. ASSUME NEW s \in startSettled, s.phone = p.reg.phone, s.flight = f
      PROVE  s \in Starts /\ Covers(old, s.token)
  <2>1. s \notin p.sent
    BY <1>3, <1>5 DEF StartInv, SettledInv
  <2>2. Covers(startLedger[<<s.phone, s.flight>>], s.token)
    BY <2>1 DEF StartInv, SettledInv, Sent
  <2> QED BY <1>5, <2>2 DEF StartInv, StartTypes
<1>6. p.reg.token \in Nat
  BY <1>1, StartAssumption DEF Copies
<1> QED BY <1>1, <1>2, <1>3, <1>4, <1>5, <1>6

LEMMA PassFlightKeeps ==
  ASSUME StartInv, PassFlight
  PROVE  StartInv'
<1>1. PICK f : f = NextDue(startPass)
  OBVIOUS
<1>2. PICK x : x = <<startPass.reg.phone, f>>
  OBVIOUS
<1>3. PICK old : old = startLedger[x]
  OBVIOUS
<1>4. PICK row : row = Renewed(old, startPass.reg.token)
  OBVIOUS
<1>5. Busy /\ startPass # NoPass /\ startPass.pc = "flight"
  BY DEF PassFlight, Busy, NoPass
<1>6. /\ startPass \in Passes /\ startPass.reg \in Copies /\ f \in startPass.flights /\ f \in DueFlight
      /\ x \in StartKey /\ startPass.ledger[x] = None
      /\ old # None => old \in DeliveryRow /\ old.token <= startPass.reg.token
      /\ startPass.reg.token \in Nat
      /\ \A s \in startSettled : s.phone = startPass.reg.phone /\ s.flight = f => s \in Starts /\ Covers(old, s.token)
  BY <1>1, <1>2, <1>3, <1>5, FoundRow
<1>7. row \in DeliveryRow /\ row.token = startPass.reg.token
  BY <1>4, <1>6 DEF Renewed, DeliveryRow, Copies
<1>8. \A s \in startSettled : s.phone = startPass.reg.phone /\ s.flight = f => Covers(row, s.token)
  <2> SUFFICES ASSUME NEW s \in startSettled, s.phone = startPass.reg.phone, s.flight = f
               PROVE  Covers(row, s.token)
    OBVIOUS
  <2>1. Covers(old, s.token) /\ s.token \in Nat /\ old # None /\ old.token \in Nat /\ old.token <= startPass.reg.token
    BY <1>6, StartAssumption DEF Starts, Covers, DeliveryRow
  <2>2. row # None
    BY <1>7, StartAssumption
  <2>3. CASE old.token = startPass.reg.token
    BY <1>4, <2>1, <2>3 DEF Renewed
  <2>4. CASE old.token # startPass.reg.token
    BY <1>6, <1>7, <2>1, <2>2, <2>4 DEF Covers
  <2> QED BY <2>3, <2>4
<1> DEFINE counted == [startPass EXCEPT !.count = @ + 1]
           kept == IF old # None /\ row # old THEN Note(startPass, startPass.reg.phone, f, row) ELSE startPass
           confirmed == [old EXCEPT !.state = "confirmed"]
<1>9. counted \in Passes /\ counted.todo = startPass.todo /\ counted.reg = startPass.reg /\ counted.flights = startPass.flights
      /\ counted.off = startPass.off /\ counted.sent = startPass.sent /\ counted.ledger = startPass.ledger
  BY <1>6 DEF Passes
<1>10. /\ startPass' = IF x \in running
                THEN Onward(IF old = None \/ old.state = "confirmed" THEN counted ELSE Note(counted, startPass.reg.phone, f, confirmed), f)
                ELSE IF row.state \in {"delivered", "confirmed"} THEN Onward(counted, f)
                ELSE IF row.state = "failed_permanent" \/ startPass.count >= MaxStarts THEN Onward(kept, f)
                ELSE [startPass EXCEPT !.pc = "send"]
       /\ UNCHANGED <<startReg, startLedger, owned, tracked, running, startApp, startSettled, refusedTok>>
  BY <1>1, <1>2, <1>3, <1>4 DEF PassFlight
<1>11. refusedTok' \subseteq StartToken
  BY <1>10 DEF StartInv, StartTypes
<1>12. startPass.reg.phone \in Phone
  BY <1>6 DEF Copies
<1> HIDE DEF counted, kept, confirmed
\* On to the next flight, whose ledger holds no new row.
<1>13. ASSUME NEW p \in Passes, startPass' = Onward(p, f), p.todo = startPass.todo, p.reg = startPass.reg,
              p.flights = startPass.flights, p.off = startPass.off, p.sent = startPass.sent, p.ledger = startPass.ledger
       PROVE  StartInv'
  <2>1. PICK q : q = Onward(p, f)
    OBVIOUS
  <2>2. /\ q \in Passes
        /\ q.todo = p.todo /\ q.reg = p.reg /\ q.off = p.off /\ q.sent = p.sent /\ q.ledger = p.ledger
        /\ q.flights = p.flights \ {f}
        /\ q.pc \in {"next", "flight"} /\ (q.pc = "flight" => q.flights # {})
    BY <1>6, <1>13, <2>1, OnwardIs
  <2>3. q.sent = startPass.sent \cup {} /\ startSettled' = startSettled \cup {}
    BY <1>10, <1>13, <2>2
  <2>4. row.token <= startPass.reg.token
    BY <1>6, <1>7
  <2>5. PassGoesOn(f, x, q, {}, row)
    BY <1>10, <1>11, <1>13, <2>1, <2>2, <2>3, <2>4 DEF PassGoesOn
  <2> QED BY <1>1, <1>2, <1>5, <1>7, <2>2, <2>5, PassStays
\* On to the next flight, with a new row for this one.
<1>14. ASSUME NEW p \in Passes, NEW new \in DeliveryRow, startPass' = Onward(Note(p, startPass.reg.phone, f, new), f),
              p.todo = startPass.todo, p.reg = startPass.reg,
              p.flights = startPass.flights, p.off = startPass.off, p.sent = startPass.sent, p.ledger = startPass.ledger,
              new.token <= startPass.reg.token,
              \A s \in startSettled : s.phone = startPass.reg.phone /\ s.flight = f => Covers(new, s.token)
       PROVE  StartInv'
  <2>1. PICK n : n = Note(p, startPass.reg.phone, f, new)
    OBVIOUS
  <2>2. /\ n \in Passes
        /\ n.todo = p.todo /\ n.reg = p.reg /\ n.flights = p.flights /\ n.off = p.off /\ n.sent = p.sent
        /\ n.ledger = [p.ledger EXCEPT ![x] = new]
    BY <1>2, <1>6, <1>12, <1>14, <2>1, NoteIs
  <2>3. PICK q : q = Onward(n, f)
    OBVIOUS
  <2>4. /\ q \in Passes
        /\ q.todo = n.todo /\ q.reg = n.reg /\ q.off = n.off /\ q.sent = n.sent /\ q.ledger = n.ledger
        /\ q.flights = n.flights \ {f}
        /\ q.pc \in {"next", "flight"} /\ (q.pc = "flight" => q.flights # {})
    BY <1>6, <1>14, <2>2, <2>3, OnwardIs
  <2>5. q.sent = startPass.sent \cup {} /\ startSettled' = startSettled \cup {}
    BY <1>10, <1>14, <2>2, <2>4
  <2>6. PassGoesOn(f, x, q, {}, new)
    BY <1>10, <1>11, <1>14, <2>1, <2>2, <2>3, <2>4, <2>5 DEF PassGoesOn
  <2> QED BY <1>1, <1>2, <1>5, <2>4, <2>6, PassStays
<1>15. CASE x \in running
  <2>1. CASE old = None \/ old.state = "confirmed"
    BY <1>9, <1>10, <1>13, <1>15, <2>1
  <2>2. CASE old # None /\ old.state # "confirmed"
    <3>1. confirmed \in DeliveryRow /\ confirmed.token = old.token /\ confirmed.state = "confirmed"
      BY <1>6, <2>2 DEF DeliveryRow, confirmed
    <3>2. \A s \in startSettled : s.phone = startPass.reg.phone /\ s.flight = f => Covers(confirmed, s.token)
      BY <1>6, <3>1, StartAssumption DEF Covers
    <3> QED BY <1>6, <1>9, <1>10, <1>14, <1>15, <2>2, <3>1, <3>2
  <2> QED BY <2>1, <2>2
<1>16. CASE x \notin running /\ row.state \in {"delivered", "confirmed"}
  BY <1>9, <1>10, <1>13, <1>16
<1>17. CASE x \notin running /\ row.state \notin {"delivered", "confirmed"} /\ (row.state = "failed_permanent" \/ startPass.count >= MaxStarts)
  <2>1. CASE old # None /\ row # old
    BY <1>6, <1>7, <1>8, <1>10, <1>14, <1>17, <2>1 DEF kept
  <2>2. CASE ~(old # None /\ row # old)
    BY <1>6, <1>10, <1>13, <1>17, <2>2 DEF kept
  <2> QED BY <2>1, <2>2
<1>18. CASE x \notin running /\ row.state \notin {"delivered", "confirmed", "failed_permanent"} /\ ~(startPass.count >= MaxStarts)
  <2>1. startPass' = [startPass EXCEPT !.pc = "send"]
    BY <1>10, <1>18
  <2>2. PICK q : q = startPass'
    OBVIOUS
  <2>3. /\ q \in Passes /\ q.pc = "send" /\ q.todo = startPass.todo /\ q.reg = startPass.reg /\ q.flights = startPass.flights
        /\ q.off = startPass.off /\ q.sent = startPass.sent /\ q.ledger = startPass.ledger /\ q # NoPass
    BY <1>6, <2>1, <2>2 DEF Passes, NoPass
  <2>4. startPass.reg \in Copies /\ startPass.flights # {}
    BY <1>6
  <2>5. StartTypes'
    BY <1>10, <2>2, <2>3, <2>4 DEF StartInv, StartTypes
  <2>6. TokensInv'
    <3>1. AppCopy'
      BY <1>10 DEF StartInv, TokensInv, AppCopy
    <3> QED BY ZenonT(30), <1>5, <1>10, <2>2, <2>3, <3>1 DEF StartInv, TokensInv, Newest, NoNewer, Busy
  <2>7. OnceInv'
    BY <1>5, <2>2, <2>3 DEF StartInv, OnceInv, Busy
  <2>8. SettledInv'
    <3>1. startSettled' = startSettled /\ startLedger' = startLedger
      BY <1>10
    <3>2. startPass # NoPass /\ startPass' # NoPass /\ startPass'.sent = startPass.sent /\ startPass'.ledger = startPass.ledger
      BY <1>5, <2>2, <2>3
    <3>3. Sent' = Sent
      BY <3>2 DEF Sent
    <3>4. \A s \in startSettled \ Sent : Covers(startLedger[<<s.phone, s.flight>>], s.token)
      BY DEF StartInv, SettledInv
    <3>5. /\ \A s \in startPass.sent : startPass.ledger[<<s.phone, s.flight>>] # None
          /\ \A s \in startSettled : startPass.ledger[<<s.phone, s.flight>>] # None =>
               Covers(startPass.ledger[<<s.phone, s.flight>>], s.token)
      BY <3>2 DEF StartInv, SettledInv
    <3> QED BY <3>1, <3>2, <3>3, <3>4, <3>5 DEF SettledInv, Covers
  <2>9. [phone |-> startPass.reg.phone, flight |-> f, token |-> startPass.reg.token] \notin startSettled
    <3>1. SUFFICES ASSUME [phone |-> startPass.reg.phone, flight |-> f, token |-> startPass.reg.token] \in startSettled
                   PROVE  FALSE
      OBVIOUS
    <3>2. Covers(row, startPass.reg.token)
      BY <1>8, <3>1
    <3> QED BY <1>7, <1>18, <3>2 DEF Covers
  <2>10. StartedOnce'
    <3>1. NextDue(q) = f
      BY <1>1, <2>3 DEF NextDue
    <3> QED BY <1>10, <2>2, <2>3, <2>9, <3>1 DEF StartedOnce
  <2> QED BY <2>5, <2>6, <2>7, <2>8, <2>10 DEF StartInv
<1> QED BY <1>15, <1>16, <1>17, <1>18

LEMMA PassSendKeeps ==
  ASSUME StartInv, PassSend
  PROVE  StartInv'
<1>1. PICK f : f = NextDue(startPass)
  OBVIOUS
<1>2. PICK x : x = <<startPass.reg.phone, f>>
  OBVIOUS
<1>3. PICK old : old = startLedger[x]
  OBVIOUS
<1>4. Busy /\ startPass # NoPass /\ startPass.pc = "send"
  BY DEF PassSend, Busy, NoPass
<1>5. /\ startPass \in Passes /\ startPass.reg \in Copies /\ f \in startPass.flights /\ f \in DueFlight
      /\ x \in StartKey /\ startPass.ledger[x] = None
      /\ old # None => old \in DeliveryRow /\ old.token <= startPass.reg.token
      /\ startPass.reg.token \in Nat
      /\ \A s \in startSettled : s.phone = startPass.reg.phone /\ s.flight = f => s \in Starts /\ Covers(old, s.token)
  BY <1>1, <1>2, <1>3, <1>4, FoundRow
<1>6. startPass.reg.phone \in Phone /\ startPass.reg.token \in StartToken
  BY <1>5 DEF Copies
<1>7. PICK start : start = [phone |-> startPass.reg.phone, flight |-> f, token |-> startPass.reg.token]
  OBVIOUS
<1>8. start \in Starts /\ start.phone = startPass.reg.phone /\ start.flight = f /\ start.token = startPass.reg.token
  BY <1>5, <1>6, <1>7 DEF Starts
<1>9. start \notin startSettled
  BY <1>1, <1>4, <1>7 DEF StartInv, StartedOnce
<1>10. PICK result \in {"taken", "refused", "invalid", "failed"} :
         LET settles == IF result = "failed" THEN {} ELSE {start}
             noted == [Note(startPass, startPass.reg.phone, f, [token |-> startPass.reg.token, state |-> StateAfter(result)])
                         EXCEPT !.sent = @ \cup settles]
         IN /\ startPass' = CASE result = "taken" -> Onward([noted EXCEPT !.count = @ + 1], f)
                              [] result = "invalid" -> [noted EXCEPT !.off = @ \cup {startPass.reg.phone}, !.flights = {}, !.pc = "next"]
                              [] OTHER -> Onward(noted, f)
            /\ startSettled' = startSettled \cup settles
            /\ refusedTok' = IF result = "invalid" THEN refusedTok \cup {startPass.reg.token} ELSE refusedTok
            /\ UNCHANGED <<startReg, startLedger, owned, tracked, running, startApp>>
  BY <1>1, <1>7 DEF PassSend
<1>11. PICK settles : settles = (IF result = "failed" THEN {} ELSE {start})
  OBVIOUS
<1>12. PICK row : row = [token |-> startPass.reg.token, state |-> StateAfter(result)]
  OBVIOUS
<1>13. /\ row \in DeliveryRow /\ row.token = startPass.reg.token /\ row # None
       /\ result # "failed" => row.state \in {"delivered", "confirmed", "failed_permanent"}
  BY <1>6, <1>12, StartAssumption DEF DeliveryRow, StateAfter
<1>14. PICK n : n = Note(startPass, startPass.reg.phone, f, row)
  OBVIOUS
<1>15. /\ n \in Passes
       /\ n.todo = startPass.todo /\ n.reg = startPass.reg /\ n.flights = startPass.flights /\ n.off = startPass.off
       /\ n.sent = startPass.sent /\ n.ledger = [startPass.ledger EXCEPT ![x] = row]
  BY <1>2, <1>5, <1>6, <1>13, <1>14, NoteIs
<1>16. PICK noted : noted = [n EXCEPT !.sent = @ \cup settles]
  OBVIOUS
<1>17. /\ noted \in Passes
       /\ noted.todo = startPass.todo /\ noted.reg = startPass.reg /\ noted.flights = startPass.flights /\ noted.off = startPass.off
       /\ noted.sent = startPass.sent \cup settles /\ noted.ledger = [startPass.ledger EXCEPT ![x] = row]
  BY <1>8, <1>11, <1>15, <1>16 DEF Passes
<1>18. /\ startPass' = CASE result = "taken" -> Onward([noted EXCEPT !.count = @ + 1], f)
                        [] result = "invalid" -> [noted EXCEPT !.off = @ \cup {startPass.reg.phone}, !.flights = {}, !.pc = "next"]
                        [] OTHER -> Onward(noted, f)
       /\ startSettled' = startSettled \cup settles
  BY <1>10, <1>11, <1>12, <1>14, <1>16
<1>19. refusedTok' \subseteq StartToken
  BY <1>6, <1>10 DEF StartInv, StartTypes
<1>20. settles \in SUBSET Starts /\ \A s \in settles : s = start
  BY <1>8, <1>11
<1>21. \A s \in startSettled \cup settles : s.phone = startPass.reg.phone /\ s.flight = f => Covers(row, s.token)
  <2>1. ASSUME NEW s \in startSettled, s.phone = startPass.reg.phone, s.flight = f
        PROVE  Covers(row, s.token)
    <3>1. s \in Starts /\ Covers(old, s.token)
      BY <1>5, <2>1
    <3>2. s.token \in StartToken /\ old.token \in StartToken /\ s.token <= old.token /\ old.token <= startPass.reg.token
      BY <1>5, <3>1 DEF Starts, Covers, DeliveryRow
    <3>3. s.token \in Nat /\ row.token \in Nat /\ s.token <= row.token
      BY <1>5, <1>13, <3>2, StartAssumption
    <3>4. s.token # startPass.reg.token
      <4>1. s.token = startPass.reg.token => s = start
        BY <1>7, <2>1, <3>1 DEF Starts
      <4> QED BY <1>9, <4>1
    <3> QED BY <1>13, <3>3, <3>4 DEF Covers
  <2>2. ASSUME NEW s \in settles
        PROVE  Covers(row, s.token)
    BY <1>5, <1>8, <1>11, <1>13, <1>20, <2>2 DEF Covers
  <2> QED BY <2>1, <2>2
<1>22. ASSUME NEW q \in Passes, startPass' = q,
              q.todo = startPass.todo, q.reg = startPass.reg, q.flights \subseteq startPass.flights \ {f},
              q.pc \in {"next", "flight"}, q.pc = "flight" => q.flights # {},
              q.off \subseteq startPass.off \cup {startPass.reg.phone},
              q.sent = noted.sent, q.ledger = noted.ledger
       PROVE  StartInv'
  <2>1. row.token <= startPass.reg.token
    BY <1>5, <1>13
  <2>2. PassGoesOn(f, x, q, settles, row)
    BY <1>8, <1>10, <1>17, <1>18, <1>19, <1>20, <1>21, <1>22, <2>1 DEF PassGoesOn
  <2> QED BY <1>1, <1>2, <1>4, <1>13, <1>20, <2>2, PassStays
<1>23. ASSUME NEW p \in Passes, startPass' = Onward(p, f), p.todo = startPass.todo, p.reg = startPass.reg,
              p.flights = startPass.flights, p.off = startPass.off, p.sent = noted.sent, p.ledger = noted.ledger
       PROVE  StartInv'
  <2>1. PICK q : q = Onward(p, f)
    OBVIOUS
  <2>2. /\ q \in Passes
        /\ q.todo = p.todo /\ q.reg = p.reg /\ q.off = p.off /\ q.sent = p.sent /\ q.ledger = p.ledger
        /\ q.flights = p.flights \ {f}
        /\ q.pc \in {"next", "flight"} /\ (q.pc = "flight" => q.flights # {})
    BY <1>5, <1>23, <2>1, OnwardIs
  <2> QED BY <1>22, <1>23, <2>1, <2>2
<1>24. CASE result = "taken"
  <2>1. PICK p : p = [noted EXCEPT !.count = @ + 1]
    OBVIOUS
  <2>2. p \in Passes /\ p.todo = startPass.todo /\ p.reg = startPass.reg
        /\ p.flights = startPass.flights /\ p.off = startPass.off /\ p.sent = noted.sent /\ p.ledger = noted.ledger
    BY <1>17, <2>1 DEF Passes
  <2>3. startPass' = Onward(p, f)
    BY <1>18, <1>24, <2>1
  <2> QED BY <1>23, <2>2, <2>3
<1>25. CASE result = "invalid"
  <2>1. PICK q : q = [noted EXCEPT !.off = @ \cup {startPass.reg.phone}, !.flights = {}, !.pc = "next"]
    OBVIOUS
  <2>2. q \in Passes /\ q.todo = startPass.todo /\ q.reg = startPass.reg /\ q.flights = {} /\ q.pc = "next"
        /\ q.off = startPass.off \cup {startPass.reg.phone} /\ q.sent = noted.sent /\ q.ledger = noted.ledger
    BY <1>6, <1>17, <2>1 DEF Passes
  <2>3. startPass' = q
    BY <1>18, <1>25, <2>1
  <2> QED BY <1>22, <2>2, <2>3
<1>26. CASE result \in {"refused", "failed"}
  <2>1. startPass' = Onward(noted, f)
    BY <1>18, <1>26
  <2> QED BY <1>17, <1>23, <2>1
<1> QED BY <1>24, <1>25, <1>26

LEMMA PassDeviceKeeps ==
  ASSUME StartInv, PassDevice
  PROVE  StartInv'
<1> DEFINE p == startPass
<1>1. PICK c \in p.todo :
        LET due == IF c.phone \in owned THEN tracked[c.phone] ELSE {}
            rest == [p EXCEPT !.todo = @ \ {c}]
        IN startPass' = IF due # {} THEN [rest EXCEPT !.reg = c, !.flights = due, !.count = 0, !.pc = "flight"]
                        ELSE IF c.phone \in owned THEN rest
                        ELSE [rest EXCEPT !.off = @ \cup {c.phone}, !.dirty = TRUE]
  BY DEF PassDevice
<1>2. p \in Passes /\ p # NoPass /\ p.pc = "next"
  BY DEF PassDevice, StartInv, StartTypes, NoPass
<1>3. c \in Copies /\ c.phone \in Phone /\ tracked[c.phone] \subseteq DueFlight
  BY <1>2 DEF Passes, Copies, StartInv, StartTypes
<1>4. UNCHANGED <<startReg, startLedger, owned, tracked, running, startApp, startSettled, refusedTok>>
  BY DEF PassDevice
<1>5. PICK q : q = startPass'
  OBVIOUS
<1>6. /\ q \in Passes /\ q # NoPass /\ q.todo = p.todo \ {c} /\ q.ledger = p.ledger /\ q.sent = p.sent
      /\ q.off \subseteq p.off \cup {c.phone}
      /\ q.pc = "next" \/ (q.pc = "flight" /\ q.reg = c /\ q.flights # {})
  <2>1. PICK due : due = IF c.phone \in owned THEN tracked[c.phone] ELSE {}
    OBVIOUS
  <2>2. PICK rest : rest = [p EXCEPT !.todo = @ \ {c}]
    OBVIOUS
  <2>3. /\ rest \in Passes /\ rest.todo = p.todo \ {c} /\ rest.ledger = p.ledger /\ rest.sent = p.sent
        /\ rest.off = p.off /\ rest.pc = "next"
    BY <1>2, <2>2 DEF Passes
  <2>4. due \subseteq DueFlight
    BY <1>3, <2>1
  <2>5. startPass' = IF due # {} THEN [rest EXCEPT !.reg = c, !.flights = due, !.count = 0, !.pc = "flight"]
                    ELSE IF c.phone \in owned THEN rest ELSE [rest EXCEPT !.off = @ \cup {c.phone}, !.dirty = TRUE]
    BY <1>1, <2>1, <2>2
  <2>6. CASE due # {}
    <3>1. q = [rest EXCEPT !.reg = c, !.flights = due, !.count = 0, !.pc = "flight"]
      BY <1>5, <2>5, <2>6
    <3> QED BY <1>3, <2>3, <2>4, <2>6, <3>1 DEF Passes, NoPass
  <2>7. CASE due = {} /\ c.phone \in owned
    <3>1. q = rest
      BY <1>5, <2>5, <2>7
    <3> QED BY <2>3, <3>1 DEF NoPass
  <2>8. CASE due = {} /\ c.phone \notin owned
    <3>1. q = [rest EXCEPT !.off = @ \cup {c.phone}, !.dirty = TRUE]
      BY <1>5, <2>5, <2>8
    <3>2. q \in Passes
      BY <1>3, <2>3, <3>1 DEF Passes
    <3>3. q.todo = rest.todo /\ q.ledger = rest.ledger /\ q.sent = rest.sent /\ q.off = rest.off \cup {c.phone} /\ q.pc = "next"
      BY <2>3, <3>1 DEF Passes
    <3> QED BY <2>3, <3>2, <3>3 DEF NoPass
  <2> QED BY <2>6, <2>7, <2>8
<1>7. StartTypes'
  BY <1>3, <1>4, <1>5, <1>6 DEF StartInv, StartTypes
<1>8. Newest(c)
  BY <1>2 DEF StartInv, TokensInv
<1>9. TokensInv'
  <2>1. AppCopy'
    BY <1>4 DEF StartInv, TokensInv, AppCopy
  <2>2. \A d \in q.off : startReg[d] # None
    BY <1>2, <1>6, <1>8 DEF StartInv, TokensInv, Newest, NoNewer
  <2>3. q.pc \in {"flight", "send"} => Newest(q.reg)
    BY <1>6, <1>8
  <2> QED BY <1>2, <1>4, <1>5, <1>6, <2>1, <2>2, <2>3 DEF StartInv, TokensInv, Newest, NoNewer, Busy
<1>10. OnceInv'
  BY <1>2, <1>4, <1>5, <1>6 DEF StartInv, OnceInv, Busy
<1>11. SettledInv'
  BY <1>2, <1>4, <1>5, <1>6 DEF StartInv, SettledInv, Sent, Covers
<1>12. StartedOnce'
  BY <1>5, <1>6 DEF StartedOnce
<1> QED BY <1>7, <1>9, <1>10, <1>11, <1>12 DEF StartInv

LEMMA PassStartKeeps ==
  ASSUME StartInv, PassStart
  PROVE  StartInv'
<1> DEFINE live == {x \in Phone : startReg[x] # None /\ startReg[x].active}
           copies == {[phone |-> d, token |-> startReg[d].token] : d \in live}
           blank == [x \in StartKey |-> None]
           q == [pc |-> "next", todo |-> copies, reg |-> None, flights |-> {}, count |-> 0,
                 dirty |-> FALSE, ledger |-> blank, off |-> {}, sent |-> {}]
<1>1. /\ startPass = NoPass /\ startPass' = q
      /\ UNCHANGED <<startReg, startLedger, owned, tracked, running, startApp, startSettled, refusedTok>>
  BY DEF PassStart, StartKey
<1>2. \A c \in copies : /\ c \in Copies /\ startReg[c.phone] # None /\ c.token = startReg[c.phone].token
                        /\ startReg[c.phone] \in StartRow /\ c.token \in Nat
  <2> SUFFICES ASSUME NEW d \in live
               PROVE  /\ [phone |-> d, token |-> startReg[d].token] \in Copies
                      /\ startReg[d] # None /\ startReg[d] \in StartRow /\ startReg[d].token \in Nat
    OBVIOUS
  <2>1. startReg[d] \in StartRow
    BY DEF StartInv, StartTypes
  <2> QED BY <2>1, StartAssumption DEF StartRow, Copies
<1>3. \A c, e \in copies : c.phone = e.phone => c = e
  OBVIOUS
<1>4. blank \in [StartKey -> DeliveryRow \cup {None}] /\ \A x \in StartKey : blank[x] = None
  OBVIOUS
<1> HIDE DEF copies, blank
<1>5. q \in Passes /\ q # NoPass /\ q.todo = copies /\ q.pc = "next" /\ q.ledger = blank /\ q.off = {} /\ q.sent = {}
  BY <1>2, <1>4 DEF Passes, NoPass
<1> HIDE DEF q
<1>6. StartTypes'
  BY <1>1, <1>5 DEF StartInv, StartTypes
<1>7. \A c \in copies : Newest(c)
  <2> SUFFICES ASSUME NEW c \in copies, NEW f \in DueFlight, startLedger[<<c.phone, f>>] # None
               PROVE  startLedger[<<c.phone, f>>].token <= c.token
    BY <1>2 DEF Newest, NoNewer
  <2>1. <<c.phone, f>> \in StartKey
    BY <1>2 DEF StartKey, Copies
  <2> QED BY <1>2, <2>1 DEF StartInv, TokensInv, NoNewer
<1>8. TokensInv'
  <2>1. AppCopy'
    BY <1>1 DEF StartInv, TokensInv, AppCopy
  <2> QED BY <1>1, <1>4, <1>5, <1>7, <2>1 DEF StartInv, TokensInv, Newest, NoNewer, Busy
<1>9. OnceInv'
  BY <1>1, <1>3, <1>4, <1>5 DEF OnceInv, Busy
<1>10. SettledInv'
  <2>1. Sent = {} /\ Sent' = {}
    BY <1>1, <1>5 DEF Sent
  <2>2. \A s \in startSettled : <<s.phone, s.flight>> \in StartKey
    BY DEF StartInv, StartTypes, Starts, StartKey
  <2> QED BY <1>1, <1>4, <1>5, <2>1, <2>2 DEF StartInv, SettledInv, Covers
<1>11. StartedOnce'
  BY <1>1, <1>5 DEF StartedOnce
<1> QED BY <1>6, <1>8, <1>9, <1>10, <1>11 DEF StartInv

LEMMA PassCommitKeeps ==
  ASSUME StartInv, PassCommit
  PROVE  StartInv'
<1> DEFINE p == startPass
<1>1. /\ p.pc = "next" /\ p.todo = {}
      /\ startLedger' = [x \in StartKey |-> IF p.ledger[x] = None THEN startLedger[x] ELSE p.ledger[x]]
      /\ startReg' = [d \in Phone |-> IF d \in p.off THEN [startReg[d] EXCEPT !.active = FALSE] ELSE startReg[d]]
      /\ startPass' = NoPass
      /\ UNCHANGED <<owned, tracked, running, startApp, startSettled, refusedTok>>
  BY DEF PassCommit, StartKey
<1>2. p \in Passes /\ p # NoPass
  BY <1>1 DEF StartInv, StartTypes, NoPass
<1>3. \A d \in Phone : /\ startReg[d] # None => startReg'[d] # None /\ startReg'[d] \in StartRow /\ startReg'[d].token = startReg[d].token
                       /\ startReg[d] = None => startReg'[d] = None
  <2>1. TAKE d \in Phone
  <2>2. d \in p.off => startReg[d] # None
    BY <1>2 DEF StartInv, TokensInv
  <2>3. startReg[d] \in StartRow \cup {None}
    BY DEF StartInv, StartTypes
  <2> QED BY <1>1, <2>2, <2>3, StartAssumption DEF StartRow
<1>4. \A x \in StartKey : /\ startLedger'[x] \in DeliveryRow \cup {None}
                          /\ startLedger'[x] = IF p.ledger[x] = None THEN startLedger[x] ELSE p.ledger[x]
  BY <1>1, <1>2 DEF Passes, StartInv, StartTypes
<1>5. StartTypes'
  <2>1. startReg' \in [Phone -> StartRow \cup {None}]
    <3>1. \A d \in Phone : startReg'[d] \in StartRow \cup {None}
      BY <1>3
    <3> QED BY <1>1, <3>1
  <2>2. startLedger' \in [StartKey -> DeliveryRow \cup {None}]
    BY <1>1, <1>4
  <2> QED BY <1>1, <2>1, <2>2 DEF StartInv, StartTypes, NoPass
<1>6. TokensInv'
  <2>1. \A x \in StartKey : startLedger'[x] # None => NoNewer(x[1], startLedger'[x].token)
    BY <1>2, <1>4 DEF StartInv, TokensInv
  <2>2. \A x \in StartKey : x[1] \in Phone
    BY DEF StartKey
  <2>3. \A d \in Phone : \A k : NoNewer(d, k) => startReg'[d] # None /\ k <= startReg'[d].token
    BY <1>3 DEF NoNewer
  <2>4. AppCopy'
    <3>1. startApp # NoRequest => startApp.phone \in Phone
      BY DEF StartInv, StartTypes, AppRequests
    <3> QED BY <1>1, <1>3, <3>1 DEF StartInv, TokensInv, AppCopy
  <2> QED BY <1>1, <2>1, <2>2, <2>3, <2>4 DEF TokensInv, NoNewer
<1>7. OnceInv'
  BY <1>1 DEF OnceInv
<1>8. SettledInv'
  <2>1. ASSUME NEW s \in startSettled
        PROVE  Covers(startLedger'[<<s.phone, s.flight>>], s.token)
    <3>1. <<s.phone, s.flight>> \in StartKey
      BY DEF StartInv, StartTypes, Starts, StartKey
    <3>2. CASE p.ledger[<<s.phone, s.flight>>] = None
      <4>1. s \notin p.sent
        BY <1>2, <3>2 DEF StartInv, SettledInv
      <4> QED BY <1>2, <1>4, <3>1, <3>2, <4>1 DEF StartInv, SettledInv, Sent
    <3>3. CASE p.ledger[<<s.phone, s.flight>>] # None
      BY <1>2, <1>4, <3>1, <3>3 DEF StartInv, SettledInv
    <3> QED BY <3>2, <3>3
  <2> QED BY <1>1, <2>1 DEF SettledInv, Covers
<1>9. StartedOnce'
  BY <1>1 DEF StartedOnce, NoPass
<1> QED BY <1>5, <1>6, <1>7, <1>8, <1>9 DEF StartInv

LEMMA PassDieKeeps ==
  ASSUME StartInv, PassDie
  PROVE  StartInv'
<1>1. /\ startPass # NoPass /\ startSettled' = startSettled \ startPass.sent /\ startPass' = NoPass
      /\ UNCHANGED <<startReg, startLedger, owned, tracked, running, startApp, refusedTok>>
  BY DEF PassDie
<1>2. StartTypes'
  BY <1>1 DEF StartInv, StartTypes, NoPass
<1>3. TokensInv'
  BY <1>1 DEF StartInv, TokensInv, AppCopy, NoNewer
<1>4. OnceInv'
  BY <1>1 DEF OnceInv
<1>5. SettledInv'
  BY <1>1 DEF StartInv, SettledInv, Sent, Covers
<1>6. StartedOnce'
  BY <1>1 DEF StartedOnce, NoPass
<1> QED BY <1>2, <1>3, <1>4, <1>5, <1>6 DEF StartInv

-----------------------------------------------------------------------------
(* The steps of the app. *)

LEMMA RegisterStartReadKeeps ==
  ASSUME StartInv, NEW d \in Phone, NEW k \in StartToken, RegisterStartRead(d, k)
  PROVE  StartInv'
<1>1. /\ startReg[d] # None => k >= startReg[d].token
      /\ startApp' = [pc |-> "write", phone |-> d, token |-> k, copy |-> startReg[d]]
      /\ UNCHANGED <<startReg, startLedger, owned, tracked, running, startPass, startSettled, refusedTok>>
  BY DEF RegisterStartRead
<1>2. startReg[d] \in StartRow \cup {None}
  BY DEF StartInv, StartTypes
<1>3. StartTypes'
  BY <1>1, <1>2 DEF StartInv, StartTypes, AppRequests
<1>4. TokensInv'
  <2>1. startReg[d] # None => startReg[d].token <= k
    BY <1>1, <1>2, StartAssumption DEF StartRow
  <2>2. AppCopy'
    BY <1>1, <2>1 DEF AppCopy
  <2> QED BY <1>1, <2>2 DEF StartInv, TokensInv, NoNewer, Newest, Busy
<1>5. OnceInv'
  BY <1>1 DEF StartInv, OnceInv, Busy
<1>6. SettledInv'
  BY <1>1 DEF StartInv, SettledInv, Sent, Covers
<1>7. StartedOnce'
  BY <1>1 DEF StartInv, StartedOnce
<1> QED BY <1>3, <1>4, <1>5, <1>6, <1>7 DEF StartInv

LEMMA RegisterStartCommitKeeps ==
  ASSUME StartInv, RegisterStartCommit
  PROVE  StartInv'
<1> DEFINE d == startApp.phone
           old == startReg[d]
           new == IF startApp.copy = None THEN [token |-> startApp.token, active |-> TRUE]
                  ELSE [token |-> IF startApp.token # startApp.copy.token THEN startApp.token ELSE old.token,
                        active |-> old.active \/ ~startApp.copy.active]
<1>1. /\ startApp # NoRequest /\ startApp' = NoRequest
      /\ UNCHANGED <<startLedger, owned, tracked, running, startPass, startSettled, refusedTok>>
  BY DEF RegisterStartCommit, NoRequest
<1>2. startApp \in AppRequests /\ d \in Phone /\ startApp.token \in StartToken /\ old \in StartRow \cup {None}
  BY <1>1 DEF StartInv, StartTypes, AppRequests
<1>3. /\ startApp.copy = None => old = None
      /\ startApp.copy # None => old # None /\ old.token = startApp.copy.token /\ startApp.copy.token <= startApp.token
                                 /\ startApp.copy \in StartRow
  BY <1>1, <1>2 DEF StartInv, TokensInv, AppCopy, AppRequests
<1>4. startReg' = [startReg EXCEPT ![d] = new]
  <2>1. CASE startApp.copy = None
    BY <1>3, <2>1 DEF RegisterStartCommit
  <2>2. CASE startApp.copy # None
    <3>1. startReg' = [startReg EXCEPT ![d] = [token |-> IF startApp.token # startApp.copy.token THEN startApp.token ELSE @.token,
                                               active |-> @.active \/ ~startApp.copy.active]]
      BY <2>2 DEF RegisterStartCommit
    <3> QED BY <1>2, <2>2, <3>1 DEF StartInv, StartTypes
  <2> QED BY <2>1, <2>2
<1>5. new \in StartRow /\ new # None /\ (old # None => old.token <= new.token)
  <2>1. CASE startApp.copy = None
    <3>1. new = [token |-> startApp.token, active |-> TRUE]
      BY <2>1
    <3>2. new \in StartRow
      BY <1>2, <3>1 DEF StartRow
    <3> HIDE DEF new
    <3> QED BY <1>3, <2>1, <3>2, StartAssumption
  <2>2. CASE startApp.copy # None
    <3>1. old \in StartRow /\ startApp.copy \in StartRow
      BY <1>2, <1>3, <2>2
    <3>2. new \in StartRow /\ new.token = startApp.token
      BY <1>2, <1>3, <2>2, <3>1 DEF StartRow
    <3> QED BY <1>2, <1>3, <2>2, <3>1, <3>2, StartAssumption DEF StartRow
  <2> QED BY <2>1, <2>2
<1> HIDE DEF new
<1>6. StartTypes'
  BY <1>1, <1>2, <1>4, <1>5 DEF StartInv, StartTypes, NoRequest
<1>7. \A e \in Phone, j \in StartToken : NoNewer(e, j) => startReg'[e] # None /\ j <= startReg'[e].token
  <2> SUFFICES ASSUME NEW e \in Phone, NEW j \in StartToken, NoNewer(e, j)
               PROVE  startReg'[e] # None /\ j <= startReg'[e].token
    OBVIOUS
  <2>1. startReg \in [Phone -> StartRow \cup {None}]
    BY DEF StartInv, StartTypes
  <2>2. CASE e = d
    <3>1. startReg'[e] = new /\ old \in StartRow
      BY <1>2, <1>4, <2>1, <2>2 DEF NoNewer
    <3>2. j \in Nat /\ old.token \in Nat /\ new.token \in Nat /\ j <= old.token
      BY <1>5, <2>2, <3>1, StartAssumption DEF NoNewer, StartRow
    <3> QED BY <1>5, <2>2, <3>1, <3>2 DEF NoNewer
  <2>3. CASE e # d
    BY <1>2, <1>4, <2>1, <2>3 DEF NoNewer
  <2> QED BY <2>2, <2>3
<1>8. TokensInv'
  <2>1. \A x \in StartKey : startLedger[x] # None => NoNewer(x[1], startLedger[x].token)'
    <3>1. \A x \in StartKey : x[1] \in Phone /\ (startLedger[x] # None => startLedger[x].token \in StartToken)
      BY DEF StartInv, StartTypes, DeliveryRow, StartKey
    <3> QED BY <1>1, <1>7, <3>1 DEF StartInv, TokensInv, NoNewer
  <2>2. ASSUME startPass # NoPass
        PROVE  /\ \A c \in startPass.todo : Newest(c)'
               /\ Busy => Newest(startPass.reg)'
               /\ \A x \in StartKey : startPass.ledger[x] # None => NoNewer(x[1], startPass.ledger[x].token)'
               /\ \A e \in startPass.off : startReg'[e] # None
    <3>1. /\ startPass \in Passes /\ startPass.todo \subseteq Copies /\ startPass.off \subseteq Phone
          /\ \A x \in StartKey : x[1] \in Phone /\ (startPass.ledger[x] # None => startPass.ledger[x].token \in StartToken)
          /\ Busy => startPass.reg \in Copies
      BY <2>2 DEF StartInv, StartTypes, Passes, DeliveryRow, StartKey, Busy
    <3>2. \A c \in Copies : Newest(c) => Newest(c)'
      BY <1>1, <1>7 DEF Newest, NoNewer, Copies
    <3>3. \A x \in StartKey : startPass.ledger[x] # None => NoNewer(x[1], startPass.ledger[x].token)'
      BY <1>1, <1>7, <2>2, <3>1 DEF StartInv, TokensInv, NoNewer
    <3>4. \A e \in startPass.off : startReg'[e] # None
      BY <1>2, <1>4, <1>5, <2>2, <3>1 DEF StartInv, StartTypes, TokensInv
    <3>5. \A c \in startPass.todo : Newest(c)'
      BY <2>2, <3>1, <3>2 DEF StartInv, TokensInv
    <3>6. Busy => Newest(startPass.reg)'
      BY <1>1, <1>7, <2>2, <3>1 DEF StartInv, TokensInv, Newest, NoNewer, Copies
    <3> QED BY <3>3, <3>4, <3>5, <3>6
  <2>3. AppCopy'
    BY <1>1 DEF AppCopy
  <2> QED BY <1>1, <2>1, <2>2, <2>3 DEF TokensInv, Newest, NoNewer, Busy
<1>9. OnceInv'
  BY <1>1 DEF StartInv, OnceInv, Busy
<1>10. SettledInv'
  BY <1>1 DEF StartInv, SettledInv, Sent, Covers
<1>11. StartedOnce'
  BY <1>1 DEF StartInv, StartedOnce
<1> QED BY <1>6, <1>8, <1>9, <1>10, <1>11 DEF StartInv

LEMMA ConfirmKeeps ==
  ASSUME StartInv, NEW d \in Phone, NEW f \in DueFlight, Confirm(d, f)
  PROVE  StartInv'
<1> DEFINE x == <<d, f>>
           old == startLedger[x]
           new == IF old # None THEN [old EXCEPT !.state = "confirmed"] ELSE old
<1>1. /\ startLedger' = [startLedger EXCEPT ![x] = new] /\ running' = running \cup {x} /\ x \in StartKey
      /\ UNCHANGED <<startReg, owned, tracked, startPass, startApp, startSettled, refusedTok>>
  BY DEF Confirm, StartInv, StartTypes, StartKey
<1>2. startLedger \in [StartKey -> DeliveryRow \cup {None}]
  BY DEF StartInv, StartTypes
<1>3. /\ new \in DeliveryRow \cup {None} /\ (new = None <=> old = None)
      /\ old # None => new.token = old.token /\ new.state = "confirmed"
  BY <1>1, <1>2, StartAssumption DEF DeliveryRow
<1> HIDE DEF new, x
<1>4. \A y \in StartKey : /\ startLedger'[y] = None <=> startLedger[y] = None
                          /\ startLedger[y] # None => startLedger'[y].token = startLedger[y].token
  BY <1>1, <1>2, <1>3
<1>5. \A y \in StartKey : \A k : Covers(startLedger[y], k) => Covers(startLedger'[y], k)
  BY <1>1, <1>2, <1>3 DEF Covers
<1>6. StartTypes'
  BY <1>1, <1>2, <1>3 DEF StartInv, StartTypes
<1>7. TokensInv'
  <2>1. AppCopy'
    BY <1>1 DEF StartInv, TokensInv, AppCopy
  <2>2. \A c : c.phone \in Phone /\ Newest(c) => Newest(c)'
    BY <1>1, <1>4 DEF Newest, NoNewer, StartKey
  <2>3. startPass # NoPass => /\ \A c \in startPass.todo : c.phone \in Phone
                              /\ Busy => startPass.reg.phone \in Phone
    BY DEF StartInv, StartTypes, Passes, Copies, Busy
  <2>4. startPass # NoPass /\ Busy => Newest(startPass.reg)'
    <3> SUFFICES ASSUME startPass # NoPass, Busy
                 PROVE  Newest(startPass.reg)'
      OBVIOUS
    <3>1. startPass.reg.phone \in Phone /\ Newest(startPass.reg)
      BY <2>3 DEF StartInv, TokensInv
    <3> QED BY <1>1, <1>4, <3>1 DEF Newest, NoNewer, StartKey
  <2>5. startPass # NoPass => \A c \in startPass.todo : Newest(c)'
    BY <2>2, <2>3 DEF StartInv, TokensInv
  <2> QED BY <1>1, <1>4, <2>1, <2>4, <2>5 DEF StartInv, TokensInv, NoNewer, Newest, Busy
<1>8. OnceInv'
  BY <1>1 DEF StartInv, OnceInv, Busy
<1>9. SettledInv'
  <2>1. \A s \in startSettled : <<s.phone, s.flight>> \in StartKey
    BY DEF StartInv, StartTypes, Starts, StartKey
  <2>2. \A s \in startSettled \ Sent : Covers(startLedger'[<<s.phone, s.flight>>], s.token)
    BY <1>5, <2>1 DEF StartInv, SettledInv
  <2> QED BY <1>1, <2>2 DEF StartInv, SettledInv, Sent, Covers
<1>10. StartedOnce'
  BY <1>1 DEF StartInv, StartedOnce
<1> QED BY <1>6, <1>7, <1>8, <1>9, <1>10 DEF StartInv

\* What ends an activity, tracks a flight or deletes a device leaves tokens and ledger alone.
LEMMA AppKeeps ==
  ASSUME StartInv, owned' \subseteq Phone, tracked' \in [Phone -> SUBSET DueFlight], running' \subseteq StartKey,
         UNCHANGED <<startReg, startLedger, startPass, startApp, startSettled, refusedTok>>
  PROVE  StartInv'
<1>1. StartTypes'
  BY DEF StartInv, StartTypes
<1>2. TokensInv'
  BY DEF StartInv, TokensInv, AppCopy, NoNewer, Newest, Busy
<1>3. OnceInv'
  BY DEF StartInv, OnceInv, Busy
<1>4. SettledInv'
  BY DEF StartInv, SettledInv, Sent, Covers
<1>5. StartedOnce'
  BY DEF StartInv, StartedOnce
<1> QED BY <1>1, <1>2, <1>3, <1>4, <1>5 DEF StartInv

LEMMA StartKept ==
  ASSUME StartInv, [StartNext]_startVars
  PROVE  StartInv'
<1>1. ASSUME NEW d \in Phone, NEW k \in StartToken, RegisterStartRead(d, k)
      PROVE  StartInv'
  BY <1>1, RegisterStartReadKeeps
<1>2. ASSUME NEW d \in Phone, NEW f \in DueFlight, Confirm(d, f)
      PROVE  StartInv'
  BY <1>2, ConfirmKeeps
<1>3. ASSUME NEW d \in Phone, NEW f \in DueFlight, EndActivity(d, f)
      PROVE  StartInv'
  <2>1. owned' \subseteq Phone /\ tracked' \in [Phone -> SUBSET DueFlight] /\ running' \subseteq StartKey
    BY <1>3 DEF EndActivity, StartInv, StartTypes
  <2>2. UNCHANGED <<startReg, startLedger, startPass, startApp, startSettled, refusedTok>>
    BY <1>3 DEF EndActivity
  <2> QED BY <2>1, <2>2, AppKeeps
<1>4. ASSUME NEW d \in Phone, NEW f \in DueFlight, TrackFlight(d, f)
      PROVE  StartInv'
  <2>1. owned' \subseteq Phone /\ tracked' \in [Phone -> SUBSET DueFlight] /\ running' \subseteq StartKey
    BY <1>4 DEF TrackFlight, StartInv, StartTypes
  <2>2. UNCHANGED <<startReg, startLedger, startPass, startApp, startSettled, refusedTok>>
    BY <1>4 DEF TrackFlight
  <2> QED BY <2>1, <2>2, AppKeeps
<1>5. ASSUME NEW d \in Phone, DeletePhone(d)
      PROVE  StartInv'
  <2>1. owned' \subseteq Phone /\ tracked' \in [Phone -> SUBSET DueFlight] /\ running' \subseteq StartKey
    BY <1>5 DEF DeletePhone, StartInv, StartTypes
  <2>2. UNCHANGED <<startReg, startLedger, startPass, startApp, startSettled, refusedTok>>
    BY <1>5 DEF DeletePhone
  <2> QED BY <2>1, <2>2, AppKeeps
<1>6. CASE UNCHANGED startVars
  <2>1. owned' \subseteq Phone /\ tracked' \in [Phone -> SUBSET DueFlight] /\ running' \subseteq StartKey
    BY <1>6 DEF startVars, StartInv, StartTypes
  <2>2. UNCHANGED <<startReg, startLedger, startPass, startApp, startSettled, refusedTok>>
    BY <1>6 DEF startVars
  <2> QED BY <2>1, <2>2, AppKeeps
<1> QED BY <1>1, <1>2, <1>3, <1>4, <1>5, <1>6, RegisterStartCommitKeeps, PassStartKeeps, PassDeviceKeeps, PassFlightKeeps,
           PassSendKeeps, PassCommitKeeps, PassDieKeeps DEF StartNext

LEMMA StartBegins == StartInit => StartInv
<1> SUFFICES ASSUME StartInit
             PROVE  StartInv
  OBVIOUS
<1>1. StartTypes
  BY DEF StartInit, StartTypes, StartKey, NoPass
<1>2. TokensInv
  BY DEF StartInit, TokensInv, AppCopy, StartKey
<1>3. OnceInv /\ SettledInv /\ StartedOnce
  BY DEF StartInit, OnceInv, SettledInv, StartedOnce, NoPass
<1> QED BY <1>1, <1>2, <1>3 DEF StartInv

-----------------------------------------------------------------------------
(* Theorems. *)

LEMMA StartAlways == StartSpec => []StartInv
BY StartBegins, StartKept, PTL DEF StartSpec

\* The registrations, the ledger, the pass and the request of the app keep their types
\* (live_activities.py, the push-to-start pass).
THEOREM StartTypeCorrect == StartSpec => []StartTypes
BY StartAlways, PTL DEF StartInv

\* start_due_activities sends no start again, with the same token, that APNs has taken or
\* refused for good, unless the pass died that sent it.
THEOREM StartedCorrect == StartSpec => []StartedOnce
BY StartAlways, PTL DEF StartInv

-----------------------------------------------------------------------------
(* StoryPush. *)

PhoneRow == [user : Reader, token : PushToken, active : BOOLEAN, enabled : BOOLEAN, zone : Zone]
Phones == PhoneRow \cup {None}
Message == [story : Story, flight : BOOLEAN]
Transmission == {Fingerprint[s] : s \in Story}
WindowStory == [day : Int, slot : 0..2, shared : SUBSET Story]
CampaignRow == [day : Int, slot : 0..2, story : Story, print : Transmission, at : Hour]
Status == {"reserved", "suppressed", "accepted", "failed"}
PushRow ==
  [user : Reader, device : Handset, story : Story, print : Transmission, at : Hour, day : Int,
   slot : -1..2, status : Status, by : StorySender]

Steps == {"pick", "reserve", "recheck", "send", "accepted", "failed"}
SenderState ==
  [pc : Steps, now : Hour, stories : SUBSET Story, cache : SUBSET WindowStory, todo : SUBSET Handset,
   row : [Handset -> Phones], device : Handset \cup {None}, sends : SUBSET Message,
   send : Message \cup {None}, reserved : Int]

\* A worker is at a device, or has a send of it in hand.
AtWork(w) ==
  /\ w.pc # "pick" => w.device \in Handset /\ w.row[w.device] \in PhoneRow
  /\ w.pc \in {"recheck", "send", "accepted", "failed"} => w.send \in Message
  /\ \A x \in w.sends : ~x.flight => w.device \in Handset /\ InWindow(w, w.device)

PushTypes ==
  /\ hour \in Hour
  /\ phone \in [Handset -> Phones]
  /\ reader \subseteq Reader
  /\ campaign \subseteq CampaignRow
  /\ delivery \subseteq PushRow
  /\ sender \in [StorySender -> SenderState \cup {Asleep}]
  /\ \A p \in StorySender : sender[p] # Asleep => AtWork(sender[p])
  /\ \A d \in Handset : phone[d] # None => phone[d].user \in reader
  /\ \A h \in handed : h.at \in Hour

TypesButSender ==
  /\ hour \in Hour
  /\ phone \in [Handset -> Phones]
  /\ reader \subseteq Reader
  /\ campaign \subseteq CampaignRow
  /\ delivery \subseteq PushRow
  /\ \A d \in Handset : phone[d] # None => phone[d].user \in reader
  /\ \A h \in handed : h.at \in Hour

\* A worker that is awake.
LEMMA Awake ==
  ASSUME PushTypes, NEW p \in StorySender, sender[p] # Asleep
  PROVE /\ sender[p] \in SenderState /\ AtWork(sender[p]) /\ sender[p].pc # "off"
        /\ sender[p].now \in Int
BY PushAssumption DEF PushTypes, SenderState, Steps

LEMMA OffIsAsleep ==
  ASSUME PushTypes, NEW p \in StorySender, sender[p].pc # "off"
  PROVE sender[p] # Asleep
BY DEF Asleep

\* A step of a worker that leaves it awake with its types.
LEMMA WorkerTypes ==
  ASSUME PushTypes, TypesButSender', NEW p \in StorySender, NEW w \in SenderState, AtWork(w),
         sender' = [sender EXCEPT ![p] = w]
  PROVE PushTypes'
<1>1. sender' \in [StorySender -> SenderState \cup {Asleep}]
  BY DEF PushTypes
<1>2. \A q \in StorySender : sender'[q] # Asleep => AtWork(sender'[q])
  BY DEF PushTypes
<1>3. QED
  BY <1>1, <1>2 DEF PushTypes, TypesButSender, AtWork

LEMMA TypesSplit == PushTypes => TypesButSender
BY DEF PushTypes, TypesButSender

LEMMA SleepTypes ==
  ASSUME PushTypes, TypesButSender', NEW p \in StorySender, sender' = [sender EXCEPT ![p] = Asleep]
  PROVE PushTypes'
<1>1. sender' \in [StorySender -> SenderState \cup {Asleep}]
  BY DEF PushTypes
<1>2. \A q \in StorySender : sender'[q] # Asleep => AtWork(sender'[q])
  BY DEF PushTypes
<1>3. QED
  BY <1>1, <1>2 DEF PushTypes, TypesButSender, AtWork

\* A day and window of a zone.
LEMMA DayAndWindow ==
  ASSUME NEW z \in Zone, NEW t \in Int
  PROVE /\ LocalDay(z, t) \in Int /\ Window(z, t) \subseteq 0..2
        /\ Window(z, t) # {} => Slot(z, t) \in Window(z, t)
<1>1. t + Offset[z] \in Int
  BY PushAssumption
<1>2. LocalDay(z, t) \in Int
  BY <1>1 DEF LocalDay
<1>3. Window(z, t) \subseteq 0..2
  BY DEF Window
<1>4. QED
  BY <1>2, <1>3 DEF Slot

\* The sends of a device, and where they come from.
LEMMA SendsAre ==
  ASSUME NEW shared \in SUBSET Story, NEW extras \in SUBSET Story
  PROVE /\ Sends(shared, extras) \subseteq Message
        /\ \A x \in Sends(shared, extras) : ~x.flight => x.story \in shared
<1> SUFFICES ASSUME NEW x \in Sends(shared, extras)
             PROVE  x \in Message /\ (~x.flight => x.story \in shared)
  OBVIOUS
<1>1. CASE \E s \in shared : x = [story |-> s, flight |-> FALSE]
  BY <1>1 DEF Message
<1>2. CASE \E s \in extras : x = [story |-> s, flight |-> TRUE]
  BY <1>2 DEF Message
<1>3. QED
  BY <1>1, <1>2 DEF Sends

\* After a send: what a worker keeps.
LEMMA NextSendIs ==
  ASSUME NEW w \in SenderState, w.device \in Handset, w.row[w.device] \in PhoneRow, AtWork(w)
  PROVE /\ NextSend(w) \in SenderState /\ AtWork(NextSend(w)) /\ NextSend(w).pc \in {"pick", "reserve"}
        /\ NextSend(w).now = w.now /\ NextSend(w).cache = w.cache /\ NextSend(w).row = w.row
        /\ NextSend(w).device = w.device /\ NextSend(w).sends \subseteq w.sends
<1> DEFINE stop == w.sends = {} \/ w.reserved = MaxSends
<1>1. /\ w.sends \in SUBSET Message /\ w.pc \in Steps /\ w.device \in Handset \cup {None}
  BY DEF SenderState
<1>2. CASE stop
  <2>1. NextSend(w) = [w EXCEPT !.send = None, !.sends = {}, !.pc = "pick"]
    BY <1>2 DEF NextSend
  <2>2. QED
    BY <2>1, <1>1 DEF SenderState, Steps, AtWork, InWindow
<1>3. CASE ~stop
  <2>1. NextSend(w) = [w EXCEPT !.send = None, !.sends = w.sends, !.pc = "reserve"]
    BY <1>3 DEF NextSend
  <2>2. QED
    BY <2>1, <1>1 DEF SenderState, Steps, AtWork, InWindow
<1>4. QED
  BY <1>2, <1>3

\* The worker p goes to the device d, whose window has the stories shared.
Goes(p, d, shared, cache, v) ==
  /\ AtWork(v) /\ sender' = [sender EXCEPT ![p] = v] /\ v.pc \in {"pick", "reserve"}
  /\ v.now = sender[p].now /\ v.cache = cache /\ v.row = sender[p].row /\ v.device = d
  /\ \A x \in v.sends : ~x.flight => x.story \in shared

\* A worker goes to a device with what it is to get.
LEMMA ProceedIs ==
  ASSUME PushTypes, NEW p \in StorySender, NEW d \in Handset, AtDevice(p, d), Eligible(sender[p].row[d]),
         NEW shared \in SUBSET Story, NEW cache \in SUBSET WindowStory, Proceed(p, d, shared, cache),
         shared = {} \/ InWindow(sender[p], d)
  PROVE \E v \in SenderState : Goes(p, d, shared, cache, v)
<1> DEFINE w == sender[p]
           extras == {s \in w.stories : w.now - Received[s] <= 2 /\ <<w.row[d].user, s>> \in Follows}
           sends == Sends(shared, extras)
           step == IF sends = {} THEN "pick" ELSE "reserve"
           v == [w EXCEPT !.todo = @ \ {d}, !.device = d, !.cache = cache, !.sends = sends, !.pc = step]
<1>1. w.pc = "pick" /\ sender[p] # Asleep
  BY DEF AtDevice, Asleep
<1>2. w \in SenderState
  BY <1>1, Awake
<1>3. w.stories \in SUBSET Story /\ w.todo \in SUBSET Handset /\ w.row \in [Handset -> Phones]
  BY <1>2 DEF SenderState
<1>4. w.row[d] \in PhoneRow
  BY <1>3 DEF Eligible, Capable, Phones
<1>5. extras \in SUBSET Story
  BY <1>3
<1>6. sends \subseteq Message /\ \A x \in sends : ~x.flight => x.story \in shared
  BY <1>5, SendsAre
<1>7. step \in {"pick", "reserve"}
  OBVIOUS
<1>8. sender' = [sender EXCEPT ![p] = v]
  BY DEF Proceed
<1> HIDE DEF sends, step
<1>9. /\ v \in SenderState /\ v.pc = step /\ v.now = w.now /\ v.cache = cache /\ v.row = w.row /\ v.device = d
      /\ v.sends = sends /\ v.stories = w.stories
  BY <1>2, <1>3, <1>6, <1>7 DEF SenderState, Steps
<1>10. AtWork(v)
  BY <1>9, <1>7, <1>4, <1>6 DEF AtWork, InWindow
<1>11. QED
  BY <1>6, <1>7, <1>8, <1>9, <1>10 DEF Goes

\* The key of a device is a day and one of the windows of its zone.
LEMMA DeviceKey ==
  ASSUME NEW w \in SenderState, NEW d \in Handset, w.row[d] \in PhoneRow
  PROVE /\ w.row[d].zone \in Zone /\ w.row[d].user \in Reader /\ w.now \in Hour /\ w.now \in Int
        /\ DayFor(w, d) \in Int
        /\ Window(w.row[d].zone, w.now) # {} =>
             SlotFor(w, d) \in Window(w.row[d].zone, w.now) /\ SlotFor(w, d) \in 0..2
<1>1. /\ w.row[d].zone \in Zone /\ w.row[d].user \in Reader /\ w.now \in Hour /\ w.now \in Int
  BY PushAssumption DEF SenderState, PhoneRow
<1>2. QED
  BY <1>1, DayAndWindow DEF DayFor, SlotFor

\* Whoever picks a device with a window.
LEMMA AtWindow ==
  ASSUME PushTypes, NEW p \in StorySender, NEW d \in Handset, AtDevice(p, d), Eligible(sender[p].row[d])
  PROVE /\ sender[p] # Asleep /\ sender[p].pc = "pick" /\ sender[p] \in SenderState /\ sender[p].row[d] \in PhoneRow
        /\ sender[p].cache \in SUBSET WindowStory /\ sender[p].stories \in SUBSET Story
<1>1. sender[p].pc = "pick" /\ sender[p] # Asleep
  BY DEF AtDevice, Asleep
<1>2. sender[p] \in SenderState
  BY <1>1, Awake
<1>3. sender[p].cache \in SUBSET WindowStory /\ sender[p].stories \in SUBSET Story /\ sender[p].row[d] \in Phones
  BY <1>2 DEF SenderState
<1>4. QED
  BY <1>1, <1>2, <1>3 DEF Eligible, Capable, Phones

\* The same, and the window is remembered.
Recalls(p, d, shared, v) ==
  Goes(p, d, shared, sender[p].cache \cup
         {[day |-> DayFor(sender[p], d), slot |-> SlotFor(sender[p], d), shared |-> shared]}, v)

\* It remembers the story of the window.
LEMMA RememberIs ==
  ASSUME PushTypes, NEW p \in StorySender, NEW d \in Handset, AtDevice(p, d), Eligible(sender[p].row[d]),
         InWindow(sender[p], d), NEW shared \in SUBSET Story, Remember(p, d, shared)
  PROVE \E v \in SenderState : Recalls(p, d, shared, v)
<1> DEFINE w == sender[p]
           entry == [day |-> DayFor(w, d), slot |-> SlotFor(w, d), shared |-> shared]
<1>1. w \in SenderState /\ w.row[d] \in PhoneRow /\ w.cache \in SUBSET WindowStory
  BY AtWindow
<1>2. entry \in WindowStory
  BY <1>1, DeviceKey DEF InWindow, WindowStory
<1>3. Proceed(p, d, shared, w.cache \cup {entry})
  BY DEF Remember
<1>4. w.cache \cup {entry} \in SUBSET WindowStory
  BY <1>1, <1>2
<1>5. PICK cache \in SUBSET WindowStory : cache = w.cache \cup {entry}
  BY <1>4
<1>6. Proceed(p, d, shared, cache)
  BY <1>3, <1>5
<1>7. PICK v \in SenderState : Goes(p, d, shared, cache, v)
  BY <1>6, ProceedIs
<1>8. QED
  BY <1>5, <1>7 DEF Goes, Recalls

-----------------------------------------------------------------------------
(* What an action does to types. *)

LEMMA InitTypes == PushInit => PushTypes
<1> SUFFICES ASSUME PushInit PROVE PushTypes
  OBVIOUS
<1> USE DEF PushInit
<1>1. Asleep \in SenderState \cup {Asleep}
  OBVIOUS
<1>2. phone \in [Handset -> Phones] /\ \A d \in Handset : phone[d] # None => phone[d] \in PhoneRow
  BY PushAssumption DEF Phones, PhoneRow
<1>3. \A d \in Handset : phone[d] # None => phone[d].user \in reader
  BY <1>2 DEF PhoneRow
<1>4. \A p \in StorySender : sender[p] = Asleep
  OBVIOUS
<1>5. QED
  BY <1>1, <1>2, <1>3, <1>4 DEF PushTypes

\* The rows are the rows that were there, as far as they are still there.
SameRow(r, q) ==
  /\ r.user = q.user /\ r.device = q.device /\ r.story = q.story /\ r.print = q.print
  /\ r.at = q.at /\ r.day = q.day /\ r.slot = q.slot

RowsFrom == \A r \in delivery' : \E q \in delivery : SameRow(r, q)
RowsStay == \A q \in delivery : q.user \in reader' =>
                 \/ \E r \in delivery' : SameRow(r, q)
                 \/ hour > q.at + Retention

RowsKept == \A q \in delivery : \E r \in delivery' : SameRow(r, q)

LEMMA RecordedRows ==
  ASSUME PushTypes, NEW p \in StorySender, NEW w \in SenderState, NEW outcome \in Status, delivery' = Recorded(w, p, outcome)
  PROVE /\ delivery' \subseteq PushRow /\ RowsFrom
        /\ \A q \in delivery : \E r \in delivery' : SameRow(r, q)
<1> DEFINE mine(r) == r.by = p /\ r.status = "reserved" /\ r.at = w.now /\ r.device = w.device /\ r.story = w.send.story
           new(r) == IF mine(r) THEN [r EXCEPT !.status = outcome] ELSE r
<1>1. delivery' = {new(r) : r \in delivery}
  BY DEF Recorded
<1>2. ASSUME NEW r \in delivery PROVE new(r) \in PushRow /\ SameRow(new(r), r)
  <2>1. r \in PushRow
    BY DEF PushTypes
  <2>2. CASE mine(r)
    <3>1. new(r) = [r EXCEPT !.status = outcome]
      BY <2>2
    <3>2. QED
      BY <3>1, <2>1 DEF PushRow, SameRow
  <2>3. CASE ~mine(r)
    <3>1. new(r) = r
      BY <2>3
    <3>2. QED
      BY <3>1, <2>1 DEF SameRow
  <2>4. QED
    BY <2>2, <2>3
<1> HIDE DEF new
<1>3. QED
  BY <1>1, <1>2 DEF RowsFrom

\* Its sends, where it is at a device.
HasDevice(w) == /\ w \in SenderState /\ w.device \in Handset /\ w.row[w.device] \in PhoneRow
             /\ w.now \in Int /\ w.row[w.device].user \in Reader

LEMMA AtDeviceNow ==
  ASSUME PushTypes, NEW p \in StorySender, sender[p].pc \in {"reserve", "recheck", "send", "accepted", "failed"}
  PROVE /\ sender[p] # Asleep /\ sender[p] \in SenderState /\ AtWork(sender[p]) /\ HasDevice(sender[p])
        /\ sender[p].now \in Hour /\ sender[p].sends \in SUBSET Message /\ sender[p].row \in [Handset -> Phones]
<1>1. sender[p] # Asleep
  BY DEF Asleep
<1>2. sender[p] \in SenderState /\ AtWork(sender[p]) /\ sender[p].now \in Int
  BY <1>1, Awake
<1>3. sender[p].device \in Handset /\ sender[p].row[sender[p].device] \in PhoneRow
  BY <1>2 DEF AtWork
<1>4. sender[p].row[sender[p].device].user \in Reader
  BY <1>3 DEF PhoneRow
<1>5. sender[p].now \in Hour /\ sender[p].sends \in SUBSET Message /\ sender[p].row \in [Handset -> Phones]
  BY <1>2 DEF SenderState
<1>6. QED
  BY <1>1, <1>2, <1>3, <1>4, <1>5 DEF HasDevice

LEMMA RefreshTypes ==
  ASSUME PushTypes, NEW d \in Handset, NEW u \in Reader, NEW k \in PushToken, NEW z \in Zone, NEW b \in BOOLEAN,
         RefreshToken(d, u, k, z, b)
  PROVE PushTypes'
<1> DEFINE new == [user |-> u, token |-> k, active |-> TRUE, enabled |-> b, zone |-> z]
           next(x) == IF x = d THEN new
                      ELSE IF phone[x] # None /\ phone[x].token = k THEN [phone[x] EXCEPT !.active = FALSE]
                      ELSE phone[x]
<1>1. new \in PhoneRow /\ new.user = u
  BY DEF PhoneRow
<1>2. ASSUME NEW x \in Handset PROVE next(x) \in Phones /\ (next(x) # None => next(x).user \in reader)
  <2>1. phone[x] \in Phones /\ (phone[x] # None => phone[x].user \in reader)
    BY DEF PushTypes
  <2>2. CASE x = d
    BY <2>2, <1>1 DEF Phones, RefreshToken
  <2>3. CASE x # d /\ phone[x] # None /\ phone[x].token = k
    <3>1. next(x) = [phone[x] EXCEPT !.active = FALSE] /\ phone[x] \in PhoneRow
      BY <2>3, <2>1 DEF Phones
    <3>2. next(x) \in PhoneRow /\ next(x).user = phone[x].user
      BY <3>1 DEF PhoneRow
    <3>3. QED
      BY <3>2, <2>1, <2>3 DEF Phones
  <2>4. CASE x # d /\ ~(phone[x] # None /\ phone[x].token = k)
    BY <2>4, <2>1
  <2>5. QED
    BY <2>2, <2>3, <2>4
<1>3. phone' = [x \in Handset |-> next(x)]
  BY DEF RefreshToken
<1> HIDE DEF next
<1>4. QED
  BY <1>2, <1>3 DEF RefreshToken, PushTypes, AtWork

LEMMA DeleteReaderTypes ==
  ASSUME PushTypes, NEW u \in Reader, DeleteReader(u)
  PROVE PushTypes' /\ RowsFrom /\ RowsStay /\ reader' \subseteq reader
<1>1. /\ reader' = reader \ {u} /\ delivery' = {r \in delivery : r.user # u}
      /\ phone' = [d \in Handset |-> IF phone[d] # None /\ phone[d].user = u THEN None ELSE phone[d]]
      /\ hour' = hour /\ campaign' = campaign /\ sender' = sender /\ handed' = handed
  BY DEF DeleteReader
<1>2. phone' \in [Handset -> Phones] /\ \A d \in Handset : phone'[d] # None => phone'[d].user \in reader'
  BY <1>1 DEF PushTypes, Phones
<1>3. PushTypes'
  BY <1>1, <1>2 DEF PushTypes, AtWork
<1>4. \A r \in delivery : SameRow(r, r)
  BY DEF SameRow
<1>5. QED
  BY <1>1, <1>3, <1>4 DEF RowsFrom, RowsStay

LEMMA StartSenderTypes ==
  ASSUME PushTypes, NEW p \in StorySender, StartSender(p)
  PROVE /\ PushTypes' /\ sender'[p].pc = "pick" /\ sender'[p].now = hour /\ sender'[p].cache = {} /\ sender'[p].sends = {}
        /\ \A q \in StorySender : q # p => sender'[q] = sender[q]
<1> PICK stories \in {{}, {s \in Story : Received[s] <= hour}} : sender' = [sender EXCEPT ![p] =
         [pc |-> "pick", now |-> hour, stories |-> stories, cache |-> {}, todo |-> {d \in Handset : phone[d] # None},
          row |-> phone, device |-> None, sends |-> {}, send |-> None, reserved |-> 0]]
  BY DEF StartSender
<1> DEFINE v == [pc |-> "pick", now |-> hour, stories |-> stories, cache |-> {}, todo |-> {d \in Handset : phone[d] # None},
          row |-> phone, device |-> None, sends |-> {}, send |-> None, reserved |-> 0]
<1>1. stories \in SUBSET Story
  OBVIOUS
<1>2. v \in SenderState /\ AtWork(v)
  BY <1>1 DEF SenderState, Steps, AtWork, PushTypes
<1>3. TypesButSender'
  BY DEF StartSender, PushTypes, TypesButSender
<1>4. sender' = [sender EXCEPT ![p] = v] /\ v.pc = "pick" /\ v.now = hour /\ v.cache = {} /\ v.sends = {}
  OBVIOUS
<1> HIDE DEF v
<1>5. PushTypes'
  BY <1>2, <1>3, <1>4, WorkerTypes
<1>6. QED
  BY <1>4, <1>5 DEF PushTypes

\* Another worker stays, this one goes on at the time it started at.
Walks(p) ==
  /\ sender[p] # Asleep /\ sender'[p] # Asleep /\ sender'[p].now = sender[p].now
  /\ sender'[p].pc \in {"pick", "reserve"}
  /\ \A q \in StorySender : q # p => sender'[q] = sender[q]

LEMMA WalkTypes ==
  ASSUME PushTypes, TypesButSender', NEW p \in StorySender, sender[p] # Asleep, NEW v \in SenderState, AtWork(v),
         sender' = [sender EXCEPT ![p] = v], v.pc \in {"pick", "reserve"}, v.now = sender[p].now
  PROVE PushTypes' /\ sender'[p] = v /\ Walks(p)
<1>1. PushTypes'
  BY WorkerTypes
<1>2. sender'[p] = v /\ \A q \in StorySender : q # p => sender'[q] = sender[q]
  BY DEF PushTypes
<1>3. v # Asleep
  BY DEF Asleep
<1>4. QED
  BY <1>1, <1>2, <1>3 DEF Walks

LEMMA PassOverTypes ==
  ASSUME PushTypes, NEW p \in StorySender, NEW d \in Handset, PassOver(p, d)
  PROVE /\ PushTypes' /\ Walks(p)
        /\ sender'[p].cache = sender[p].cache /\ sender'[p].sends = sender[p].sends
        /\ sender'[p].row = sender[p].row /\ sender'[p].device = sender[p].device
<1> DEFINE v == [sender[p] EXCEPT !.todo = @ \ {d}]
<1>1. sender[p].pc = "pick" /\ sender[p] # Asleep
  BY DEF PassOver, AtDevice, Asleep
<1>2. sender[p] \in SenderState
  BY <1>1, Awake
<1>3. sender[p].todo \in SUBSET Handset
  BY <1>2 DEF SenderState
<1>4. /\ v \in SenderState /\ v.pc = "pick" /\ v.now = sender[p].now /\ v.cache = sender[p].cache
      /\ v.sends = sender[p].sends /\ v.row = sender[p].row /\ v.device = sender[p].device
      /\ v.stories = sender[p].stories
  BY <1>1, <1>2, <1>3 DEF SenderState
<1>5. AtWork(v)
  BY <1>1, <1>4, Awake DEF AtWork, InWindow
<1>6. sender' = [sender EXCEPT ![p] = v]
  BY DEF PassOver
<1>7. TypesButSender'
  BY DEF PassOver, PushTypes, TypesButSender
<1> HIDE DEF v
<1>8. PICK w \in SenderState : w = v
  BY <1>4
<1>9. PushTypes' /\ sender'[p] = w /\ Walks(p)
  BY <1>1, <1>4, <1>5, <1>6, <1>7, <1>8, WalkTypes
<1>10. QED
  BY <1>4, <1>8, <1>9

LEMMA GoesTypes ==
  ASSUME PushTypes, TypesButSender', NEW p \in StorySender, NEW d \in Handset, sender[p] # Asleep,
         NEW shared \in SUBSET Story, NEW cache \in SUBSET WindowStory, NEW v \in SenderState, Goes(p, d, shared, cache, v)
  PROVE PushTypes' /\ sender'[p] = v /\ Walks(p)
BY WalkTypes DEF Goes

\* The next device gets the story of its window, if that is known, and what concerns its flights.
Served(p, d, shared) ==
  /\ PushTypes' /\ Walks(p)
  /\ sender'[p].row = sender[p].row /\ sender'[p].device = d
  /\ \A x \in sender'[p].sends : ~x.flight => x.story \in shared

LEMMA PickOutsideTypes ==
  ASSUME PushTypes, NEW p \in StorySender, NEW d \in Handset, PickOutside(p, d)
  PROVE Served(p, d, {}) /\ sender'[p].cache = sender[p].cache
<1>1. AtDevice(p, d) /\ Eligible(sender[p].row[d]) /\ Proceed(p, d, {}, sender[p].cache)
  BY DEF PickOutside
<1>2. sender[p] # Asleep /\ sender[p].cache \in SUBSET WindowStory
  BY <1>1, AtWindow
<1>3. PICK cache \in SUBSET WindowStory : cache = sender[p].cache
  BY <1>2
<1>4. Proceed(p, d, {}, cache)
  BY <1>1, <1>3
<1>5. PICK shared \in SUBSET Story : shared = {}
  OBVIOUS
<1>6. PICK v \in SenderState : Goes(p, d, shared, cache, v)
  BY <1>1, <1>4, <1>5, ProceedIs
<1>7. TypesButSender'
  BY DEF PickOutside, PushTypes, TypesButSender
<1>8. PushTypes' /\ sender'[p] = v /\ Walks(p)
  BY <1>2, <1>6, <1>7, GoesTypes
<1>9. QED
  BY <1>3, <1>5, <1>6, <1>8 DEF Goes, Served

LEMMA PickCachedTypes ==
  ASSUME PushTypes, NEW p \in StorySender, NEW d \in Handset, PickCached(p, d)
  PROVE \E e \in Cached(sender[p], d) : Served(p, d, e.shared) /\ sender'[p].cache = sender[p].cache
<1>1. AtDevice(p, d) /\ Eligible(sender[p].row[d]) /\ InWindow(sender[p], d)
  BY DEF PickCached
<1>2. sender[p] # Asleep /\ sender[p].cache \in SUBSET WindowStory
  BY <1>1, AtWindow
<1>3. PICK cache \in SUBSET WindowStory : cache = sender[p].cache
  BY <1>2
<1>4. PICK e \in Cached(sender[p], d) : Proceed(p, d, e.shared, sender[p].cache)
  BY DEF PickCached
<1>5. e \in WindowStory
  BY <1>2, <1>4 DEF Cached
<1>6. PICK shared \in SUBSET Story : shared = e.shared
  BY <1>5 DEF WindowStory
<1>7. Proceed(p, d, shared, cache)
  BY <1>4, <1>3, <1>6
<1>8. PICK v \in SenderState : Goes(p, d, shared, cache, v)
  BY <1>1, <1>7, ProceedIs
<1>9. TypesButSender'
  BY DEF PickCached, PushTypes, TypesButSender
<1>10. PushTypes' /\ sender'[p] = v /\ Walks(p)
  BY <1>2, <1>8, <1>9, GoesTypes
<1>11. Served(p, d, e.shared) /\ sender'[p].cache = sender[p].cache
  BY <1>3, <1>6, <1>8, <1>10 DEF Goes, Served
<1>12. QED
  BY <1>4, <1>11

\* The story that was frozen.
LEMMA PickFrozenTypes ==
  ASSUME PushTypes, NEW p \in StorySender, NEW d \in Handset, PickFrozen(p, d)
  PROVE \E c \in Frozen(DayFor(sender[p], d), SlotFor(sender[p], d)) :
          LET shared == {c.story} \cap sender[p].stories
          IN Served(p, d, shared) /\ sender'[p].cache = sender[p].cache \cup
               {[day |-> DayFor(sender[p], d), slot |-> SlotFor(sender[p], d), shared |-> shared]}
<1>1. AtDevice(p, d) /\ Eligible(sender[p].row[d]) /\ InWindow(sender[p], d)
  BY DEF PickFrozen
<1>2. sender[p] # Asleep /\ sender[p].stories \in SUBSET Story
  BY <1>1, AtWindow
<1>3. PICK c \in Frozen(DayFor(sender[p], d), SlotFor(sender[p], d)) :
        Remember(p, d, {c.story} \cap sender[p].stories)
  BY DEF PickFrozen
<1>4. PICK shared \in SUBSET Story : shared = {c.story} \cap sender[p].stories
  BY <1>2
<1>5. Remember(p, d, shared)
  BY <1>3, <1>4
<1>6. PICK v \in SenderState : Recalls(p, d, shared, v)
  BY <1>1, <1>5, RememberIs
<1>7. TypesButSender'
  BY DEF PickFrozen, PushTypes, TypesButSender
<1>8. PushTypes' /\ sender'[p] = v /\ Walks(p)
  BY <1>2, <1>6, <1>7, WalkTypes DEF Recalls, Goes
<1>9. QED
  BY <1>3, <1>4, <1>6, <1>8 DEF Recalls, Goes, Served

\* The choice is one of the worker's stories, and no recent campaign has it.
LEMMA ChoiceIs ==
  ASSUME NEW stories \in SUBSET Story, NEW day \in Int, NEW now \in Int, NEW s \in Choice(stories, day, now)
  PROVE s \in stories /\ \A c \in campaign : c.print = Fingerprint[s] => ~(c.at > now - Retention)
BY DEF Choice

\* No story of the window is frozen yet: one is, or there is none to choose.
FreezesNow(p, d, s) ==
  LET c == [day |-> DayFor(sender[p], d), slot |-> SlotFor(sender[p], d), story |-> s, print |-> Fingerprint[s],
            at |-> sender[p].now]
  IN /\ campaign' = campaign \cup {c}
     /\ c \in CampaignRow
     /\ Frozen(c.day, c.slot) = {}
     /\ \A e \in campaign : e.print = c.print => ~(e.at > c.at - Retention)

LEMMA FreezeTypes ==
  ASSUME PushTypes, NEW p \in StorySender, NEW d \in Handset, Freeze(p, d)
  PROVE \E shared \in SUBSET Story :
          /\ Served(p, d, shared)
          /\ sender'[p].cache = sender[p].cache \cup
               {[day |-> DayFor(sender[p], d), slot |-> SlotFor(sender[p], d), shared |-> shared]}
          /\ \/ shared = {} /\ campaign' = campaign
             \/ \E s \in Story : shared = {s} /\ FreezesNow(p, d, s)
<1> DEFINE w == sender[p]
           choice == Choice(w.stories, DayFor(w, d), w.now)
<1>1. AtDevice(p, d) /\ Eligible(w.row[d]) /\ InWindow(w, d) /\ Frozen(DayFor(w, d), SlotFor(w, d)) = {}
  BY DEF Freeze
<1>2. w # Asleep /\ w.stories \in SUBSET Story /\ w \in SenderState /\ w.row[d] \in PhoneRow
  BY <1>1, AtWindow
<1>3. DayFor(w, d) \in Int /\ SlotFor(w, d) \in 0..2 /\ w.now \in Hour /\ w.now \in Int
  BY <1>1, <1>2, DeviceKey DEF InWindow
<1>4. PICK shared \in SUBSET Story :
        /\ Remember(p, d, shared)
        /\ \/ shared = {} /\ campaign' = campaign
           \/ \E s \in choice : shared = {s} /\ s \in Story /\
                campaign' = campaign \cup {[day |-> DayFor(w, d), slot |-> SlotFor(w, d), story |-> s,
                                            print |-> Fingerprint[s], at |-> w.now]}
  <2>1. CASE choice = {} /\ Remember(p, d, {}) /\ campaign' = campaign
    BY <2>1
  <2>2. CASE \E s \in choice :
             /\ Remember(p, d, {s})
             /\ campaign' = campaign \cup {[day |-> DayFor(w, d), slot |-> SlotFor(w, d), story |-> s,
                                            print |-> Fingerprint[s], at |-> w.now]}
    <3>1. PICK s \in choice :
             /\ Remember(p, d, {s})
             /\ campaign' = campaign \cup {[day |-> DayFor(w, d), slot |-> SlotFor(w, d), story |-> s,
                                            print |-> Fingerprint[s], at |-> w.now]}
      BY <2>2
    <3>2. s \in Story
      BY <1>2, <1>3, ChoiceIs
    <3>3. QED
      BY <3>1, <3>2
  <2>3. QED
    BY <2>1, <2>2 DEF Freeze
<1>5. PICK v \in SenderState : Recalls(p, d, shared, v)
  BY <1>1, <1>4, RememberIs
<1>6. ASSUME shared # {} PROVE \E s \in Story : shared = {s} /\ FreezesNow(p, d, s)
  <2>1. PICK s \in choice : shared = {s} /\ s \in Story /\
                campaign' = campaign \cup {[day |-> DayFor(w, d), slot |-> SlotFor(w, d), story |-> s,
                                            print |-> Fingerprint[s], at |-> w.now]}
    BY <1>4, <1>6
  <2>2. \A c \in campaign : c.print = Fingerprint[s] => ~(c.at > w.now - Retention)
    BY <1>2, <1>3, ChoiceIs
  <2>3. Fingerprint[s] \in Transmission
    BY <2>1 DEF Transmission
  <2>4. FreezesNow(p, d, s)
    BY <1>1, <1>3, <2>1, <2>2, <2>3 DEF FreezesNow, CampaignRow
  <2>5. QED
    BY <2>1, <2>4
<1>7. campaign' \subseteq CampaignRow
  <2>1. CASE campaign' = campaign
    BY <2>1 DEF PushTypes
  <2>2. CASE shared # {}
    BY <2>2, <1>6 DEF FreezesNow, PushTypes
  <2>3. QED
    BY <2>1, <2>2, <1>4
<1>8. TypesButSender'
  BY <1>7 DEF Freeze, PushTypes, TypesButSender
<1>9. PushTypes' /\ sender'[p] = v /\ Walks(p)
  BY <1>2, <1>5, <1>8, WalkTypes DEF Recalls, Goes
<1>10. QED
  BY <1>4, <1>5, <1>6, <1>9 DEF Recalls, Goes, Served

\* The row of a reservation.
ReservedRow(p, x) ==
  LET w == sender[p]
  IN [user |-> w.row[w.device].user, device |-> w.device, story |-> x.story, print |-> Fingerprint[x.story],
      at |-> w.now, day |-> DayFor(w, w.device), slot |-> IF x.flight THEN -1 ELSE SlotFor(w, w.device),
      status |-> "reserved", by |-> p]

\* What is known of its account when it is written.
RowAllowed(n) ==
  LET history == {r \in delivery : r.user = n.user /\ r.at > n.at - Retention}
  IN /\ ~Told(history, n.device, n.print)
     /\ n.slot >= 0 => MayShare(history, n.day, n.slot, n.story, n.at)

Reserves(p, x) ==
  /\ RowAllowed(ReservedRow(p, x)) /\ ReservedRow(p, x) \in PushRow
  /\ delivery' = delivery \cup {ReservedRow(p, x)}
  /\ sender'[p].pc = "recheck" /\ sender'[p].send = x /\ x \in sender[p].sends
  /\ sender'[p].device = sender[p].device

LEMMA ReserveTypes ==
  ASSUME PushTypes, NEW p \in StorySender, NEW x \in Message, Reserve(p, x)
  PROVE /\ PushTypes' /\ sender[p].pc = "reserve" /\ sender[p] # Asleep /\ sender'[p] # Asleep
        /\ \A q \in StorySender : q # p => sender'[q] = sender[q]
        /\ sender'[p].now = sender[p].now /\ sender'[p].cache = sender[p].cache
        /\ sender'[p].row = sender[p].row /\ sender'[p].device = sender[p].device
        /\ sender'[p].sends \subseteq sender[p].sends
        /\ \/ Walks(p) /\ delivery' = delivery
           \/ Reserves(p, x)
<1> DEFINE w == [sender[p] EXCEPT !.sends = @ \ {x}]
           d == w.device
           print == Fingerprint[x.story]
           slot == IF x.flight THEN -1 ELSE SlotFor(w, d)
           history == {r \in delivery : r.user = w.row[d].user /\ r.at > w.now - Retention}
           n == [user |-> w.row[d].user, device |-> d, story |-> x.story, print |-> print,
                    at |-> w.now, day |-> DayFor(w, d), slot |-> slot, status |-> "reserved", by |-> p]
           refused == \/ Told(history, d, print)
                      \/ x.flight /\ \E r \in history : r.print = print /\ r.slot >= 0
                      \/ ~x.flight /\ ~MayShare(history, DayFor(w, d), slot, x.story, w.now)
<1>1. sender[p].pc = "reserve" /\ x \in sender[p].sends
  BY DEF Reserve
<1>2. /\ sender[p] # Asleep /\ sender[p] \in SenderState /\ AtWork(sender[p]) /\ HasDevice(sender[p])
      /\ sender[p].now \in Hour /\ sender[p].sends \in SUBSET Message /\ sender[p].row \in [Handset -> Phones]
  BY <1>1, AtDeviceNow
<1>3. /\ w \in SenderState /\ w.now = sender[p].now /\ w.row = sender[p].row /\ w.device = sender[p].device
      /\ w.cache = sender[p].cache /\ w.stories = sender[p].stories /\ w.sends \subseteq sender[p].sends
      /\ w.pc = "reserve"
  BY <1>1, <1>2 DEF SenderState
<1>4. AtWork(w) /\ HasDevice(w)
  BY <1>2, <1>3 DEF AtWork, HasDevice, InWindow
<1>5. DayFor(w, d) \in Int /\ DayFor(w, d) = DayFor(sender[p], d) /\ SlotFor(w, d) = SlotFor(sender[p], d)
  BY <1>3, <1>4, DeviceKey DEF DayFor, SlotFor, HasDevice
<1>6. slot \in -1..2 /\ (slot >= 0 <=> ~x.flight)
  <2>1. CASE x.flight
    BY <2>1
  <2>2. CASE ~x.flight
    <3>1. InWindow(sender[p], sender[p].device)
      BY <1>1, <1>2, <2>2 DEF AtWork
    <3>2. SlotFor(w, d) \in 0..2
      BY <3>1, <1>3, <1>4, DeviceKey DEF InWindow, HasDevice
    <3>3. QED
      BY <3>2, <2>2
  <2>3. QED
    BY <2>1, <2>2
<1>7. x.story \in Story /\ print \in Transmission
  BY DEF Message, Transmission
<1>8. n = ReservedRow(p, x)
  BY <1>3, <1>5 DEF ReservedRow
<1>9. n \in PushRow
  <2>1. w.row[d].user \in Reader /\ d \in Handset /\ w.now \in Hour
    BY <1>2, <1>3, <1>4 DEF HasDevice
  <2>2. PICK user \in Reader : user = w.row[d].user
    BY <2>1
  <2>3. PICK k \in -1..2 : k = slot
    BY <1>6
  <2>4. PICK day \in Int : day = DayFor(w, d)
    BY <1>5
  <2>5. PICK at \in Hour : at = w.now
    BY <2>1
  <2>6. PICK device \in Handset : device = d
    BY <2>1
  <2>7. n = [user |-> user, device |-> device, story |-> x.story, print |-> print,
             at |-> at, day |-> day, slot |-> k, status |-> "reserved", by |-> p]
         /\ user \in Reader /\ k \in -1..2 /\ day \in Int /\ at \in Hour /\ device \in Handset
    BY <2>2, <2>3, <2>4, <2>5, <2>6
  <2> HIDE DEF n, print
  <2>8. QED
    BY <2>7, <1>7 DEF PushRow, Status
<1>10. IF refused THEN sender' = [sender EXCEPT ![p] = NextSend(w)] /\ UNCHANGED delivery
       ELSE /\ delivery' = delivery \cup {n}
            /\ sender' = [sender EXCEPT ![p] = [w EXCEPT !.pc = "recheck", !.send = x, !.reserved = @ + 1]]
  BY DEF Reserve
<1>11. UNCHANGED <<hour, phone, reader, paying, campaign, handed, pushLeft>>
  BY DEF Reserve
<1>12. ~refused => RowAllowed(n)
  BY <1>6 DEF RowAllowed
<1>13. /\ n.user = w.row[d].user /\ n.at = w.now
  OBVIOUS
<1> HIDE DEF refused, n
<1>14. TypesButSender'
  <2>1. delivery' \subseteq PushRow
    BY <1>9, <1>10 DEF PushTypes
  <2>2. QED
    BY <2>1, <1>11 DEF PushTypes, TypesButSender
<1>15. CASE refused
  <2>1. PICK v \in SenderState : v = NextSend(w)
    BY <1>3, <1>4, NextSendIs DEF HasDevice
  <2>2. /\ AtWork(v) /\ v.pc \in {"pick", "reserve"} /\ v.now = w.now /\ v.cache = w.cache /\ v.row = w.row
        /\ v.device = w.device /\ v.sends \subseteq w.sends
    BY <2>1, <1>3, <1>4, NextSendIs DEF HasDevice
  <2>3. sender' = [sender EXCEPT ![p] = v]
    BY <1>10, <1>15, <2>1
  <2>4. PushTypes' /\ sender'[p] = v /\ Walks(p)
    BY <1>2, <1>3, <1>14, <2>2, <2>3, WalkTypes
  <2>5. QED
    BY <1>1, <1>2, <1>3, <1>10, <1>15, <2>2, <2>4 DEF Walks
<1>16. CASE ~refused
  <2> DEFINE v == [w EXCEPT !.pc = "recheck", !.send = x, !.reserved = @ + 1]
  <2>0. w.reserved + 1 \in Int
    BY <1>3 DEF SenderState
  <2>1. /\ v \in SenderState /\ v.pc = "recheck" /\ v.now = w.now /\ v.cache = w.cache /\ v.row = w.row
        /\ v.device = w.device /\ v.sends = w.sends /\ v.send = x /\ v.stories = w.stories
    BY <1>3, <2>0 DEF SenderState, Steps
  <2>2. AtWork(v)
    BY <2>1, <1>4 DEF AtWork, HasDevice, InWindow
  <2>3. sender' = [sender EXCEPT ![p] = v]
    BY <1>10, <1>16
  <2> HIDE DEF v
  <2>4. PICK u \in SenderState : u = v
    BY <2>1
  <2>5. PushTypes'
    BY <2>2, <2>3, <2>4, <1>14, WorkerTypes
  <2>6. sender'[p] = v /\ \A q \in StorySender : q # p => sender'[q] = sender[q]
    BY <2>3 DEF PushTypes
  <2>7. v # Asleep
    BY <2>1 DEF Asleep
  <2>8. Reserves(p, x)
    BY <1>1, <1>3, <1>8, <1>9, <1>10, <1>12, <1>16, <2>1, <2>6 DEF Reserves
  <2>9. QED
    BY <1>1, <1>2, <1>3, <2>1, <2>5, <2>6, <2>7, <2>8
<1>17. QED
  BY <1>15, <1>16

\* An action that leaves the deliveries alone, and one that writes an outcome.
LEMMA SameRows ==
  ASSUME delivery' = delivery
  PROVE RowsFrom /\ RowsStay /\ RowsKept
BY DEF RowsFrom, RowsStay, RowsKept, SameRow

\* The end of a send.
LEMMA SettleTypes ==
  ASSUME PushTypes, TypesButSender', NEW p \in StorySender, sender[p].pc \in {"recheck", "accepted", "failed"},
         sender' = [sender EXCEPT ![p] = NextSend(sender[p])]
  PROVE /\ PushTypes' /\ Walks(p)
        /\ sender'[p].cache = sender[p].cache /\ sender'[p].row = sender[p].row
        /\ sender'[p].device = sender[p].device /\ sender'[p].sends \subseteq sender[p].sends
<1>1. sender[p] # Asleep /\ sender[p] \in SenderState /\ AtWork(sender[p]) /\ HasDevice(sender[p])
  BY AtDeviceNow
<1>2. PICK v \in SenderState : v = NextSend(sender[p])
  BY <1>1, NextSendIs DEF HasDevice
<1>3. /\ AtWork(v) /\ v.pc \in {"pick", "reserve"} /\ v.now = sender[p].now /\ v.cache = sender[p].cache
      /\ v.row = sender[p].row /\ v.device = sender[p].device /\ v.sends \subseteq sender[p].sends
  BY <1>1, <1>2, NextSendIs DEF HasDevice
<1>4. PushTypes' /\ sender'[p] = v /\ Walks(p)
  BY <1>1, <1>2, <1>3, WalkTypes
<1>5. QED
  BY <1>3, <1>4

\* A send goes on: the worker only changes where it stands.
LEMMA StandsAt ==
  ASSUME PushTypes, TypesButSender', NEW p \in StorySender, NEW step \in {"send", "accepted", "failed"},
         sender[p].pc \in {"recheck", "send"}, sender' = [sender EXCEPT ![p] = [sender[p] EXCEPT !.pc = step]]
  PROVE /\ PushTypes' /\ sender'[p] # Asleep /\ sender'[p].pc = step
        /\ sender'[p].now = sender[p].now /\ sender'[p].cache = sender[p].cache /\ sender'[p].row = sender[p].row
        /\ sender'[p].device = sender[p].device /\ sender'[p].sends = sender[p].sends
        /\ sender'[p].send = sender[p].send
        /\ \A q \in StorySender : q # p => sender'[q] = sender[q]
<1> DEFINE v == [sender[p] EXCEPT !.pc = step]
<1>1. sender[p] # Asleep /\ sender[p] \in SenderState /\ AtWork(sender[p]) /\ HasDevice(sender[p])
  BY AtDeviceNow
<1>2. /\ v \in SenderState /\ v.pc = step /\ v.now = sender[p].now /\ v.cache = sender[p].cache /\ v.row = sender[p].row
      /\ v.device = sender[p].device /\ v.sends = sender[p].sends /\ v.send = sender[p].send
      /\ v.stories = sender[p].stories
  BY <1>1 DEF SenderState, Steps
<1>3. AtWork(v)
  BY <1>1, <1>2 DEF AtWork, InWindow
<1> HIDE DEF v
<1>4. PICK u \in SenderState : u = v
  BY <1>2
<1>5. PushTypes'
  BY <1>3, <1>4, WorkerTypes DEF v
<1>6. sender'[p] = v /\ \A q \in StorySender : q # p => sender'[q] = sender[q]
  BY DEF PushTypes, v
<1>7. v # Asleep
  BY <1>2 DEF Asleep
<1>8. QED
  BY <1>2, <1>5, <1>6, <1>7

LEMMA RecheckTypes ==
  ASSUME PushTypes, NEW p \in StorySender, Recheck(p)
  PROVE /\ PushTypes' /\ sender[p].pc = "recheck" /\ sender[p] # Asleep /\ sender'[p] # Asleep
        /\ RowsFrom /\ RowsStay /\ RowsKept
        /\ \A q \in StorySender : q # p => sender'[q] = sender[q]
        /\ sender'[p].now = sender[p].now /\ sender'[p].cache = sender[p].cache
        /\ sender'[p].row = sender[p].row /\ sender'[p].device = sender[p].device
        /\ sender'[p].sends \subseteq sender[p].sends
        /\ \/ Walks(p)
           \/ /\ sender'[p].pc = "send" /\ sender'[p].send = sender[p].send /\ delivery' = delivery
              /\ sender[p].row[sender[p].device].user \in reader
<1> DEFINE w == sender[p]
           current == /\ Eligible(phone[w.device]) /\ phone[w.device].user = w.row[w.device].user
                      /\ phone[w.device].token = w.row[w.device].token
<1>1. sender[p].pc = "recheck"
  BY DEF Recheck
<1>2. sender[p] # Asleep /\ sender[p] \in SenderState /\ AtWork(sender[p]) /\ HasDevice(sender[p])
  BY <1>1, AtDeviceNow
<1>3. UNCHANGED <<hour, phone, reader, paying, campaign, handed, pushLeft>>
  BY DEF Recheck
<1>4. CASE current
  <2>1. sender' = [sender EXCEPT ![p] = [w EXCEPT !.pc = "send"]] /\ delivery' = delivery
    BY <1>4 DEF Recheck
  <2>2. TypesButSender'
    BY <1>3, <2>1 DEF PushTypes, TypesButSender
  <2>3. w.row[w.device].user \in reader
    BY <1>2, <1>4 DEF Eligible, Capable, PushTypes, HasDevice
  <2>4. PICK step \in {"send", "accepted", "failed"} : step = "send"
    OBVIOUS
  <2>5. sender' = [sender EXCEPT ![p] = [sender[p] EXCEPT !.pc = step]]
    BY <2>1, <2>4
  <2>6. /\ PushTypes' /\ sender'[p] # Asleep /\ sender'[p].pc = step
        /\ sender'[p].now = sender[p].now /\ sender'[p].cache = sender[p].cache /\ sender'[p].row = sender[p].row
        /\ sender'[p].device = sender[p].device /\ sender'[p].sends = sender[p].sends
        /\ sender'[p].send = sender[p].send
        /\ \A q \in StorySender : q # p => sender'[q] = sender[q]
    BY <1>1, <2>2, <2>5, StandsAt
  <2>7. QED
    BY <1>1, <1>2, <2>1, <2>3, <2>4, <2>6, SameRows
<1>5. CASE ~current
  <2>1. sender' = [sender EXCEPT ![p] = NextSend(w)] /\ delivery' = Recorded(w, p, "suppressed")
    BY <1>5 DEF Recheck
  <2>2. PICK v \in SenderState : v = w
    BY <1>2
  <2>3. "suppressed" \in Status
    BY DEF Status
  <2>4. delivery' = Recorded(v, p, "suppressed")
    BY <2>1, <2>2
  <2>5. /\ delivery' \subseteq PushRow /\ RowsFrom
        /\ \A q \in delivery : \E r \in delivery' : SameRow(r, q)
    BY <2>3, <2>4, RecordedRows
  <2>6. TypesButSender'
    BY <1>3, <2>5 DEF PushTypes, TypesButSender
  <2>7. /\ PushTypes' /\ Walks(p)
        /\ sender'[p].cache = sender[p].cache /\ sender'[p].row = sender[p].row
        /\ sender'[p].device = sender[p].device /\ sender'[p].sends \subseteq sender[p].sends
    BY <1>1, <2>1, <2>6, SettleTypes
  <2>8. QED
    BY <1>1, <2>5, <2>7 DEF Walks, RowsStay, RowsKept
<1>6. QED
  BY <1>4, <1>5

LEMMA SendStoryTypes ==
  ASSUME PushTypes, NEW p \in StorySender, SendStory(p)
  PROVE /\ PushTypes' /\ sender[p].pc = "send" /\ sender'[p].pc \in {"accepted", "failed"} /\ sender'[p] # Asleep
        /\ \A q \in StorySender : q # p => sender'[q] = sender[q]
        /\ sender'[p].now = sender[p].now /\ sender'[p].cache = sender[p].cache
        /\ sender'[p].row = sender[p].row /\ sender'[p].device = sender[p].device
        /\ sender'[p].sends = sender[p].sends
<1>1. sender[p].pc = "send"
  BY DEF SendStory
<1>2. PICK outcome \in {"accepted", "failed"} : sender' = [sender EXCEPT ![p] = [sender[p] EXCEPT !.pc = outcome]]
  BY DEF SendStory
<1>3. sender[p].now \in Hour
  BY <1>1, AtDeviceNow
<1>4. TypesButSender'
  BY <1>3 DEF SendStory, PushTypes, TypesButSender
<1>5. outcome \in {"send", "accepted", "failed"}
  OBVIOUS
<1>6. QED
  BY <1>1, <1>2, <1>4, <1>5, StandsAt

LEMMA RecordOutcomeTypes ==
  ASSUME PushTypes, NEW p \in StorySender, RecordOutcome(p)
  PROVE /\ PushTypes' /\ Walks(p) /\ RowsFrom /\ RowsStay /\ RowsKept
        /\ sender'[p].cache = sender[p].cache /\ sender'[p].row = sender[p].row
        /\ sender'[p].device = sender[p].device /\ sender'[p].sends \subseteq sender[p].sends
<1>1. /\ sender[p].pc \in {"accepted", "failed"} /\ delivery' = Recorded(sender[p], p, sender[p].pc)
      /\ sender' = [sender EXCEPT ![p] = NextSend(sender[p])]
      /\ UNCHANGED <<hour, phone, reader, paying, campaign, handed, pushLeft>>
  BY DEF RecordOutcome
<1>2. sender[p] \in SenderState
  BY <1>1, AtDeviceNow
<1>3. PICK v \in SenderState : v = sender[p]
  BY <1>2
<1>4. PICK outcome \in Status : outcome = sender[p].pc
  BY <1>1 DEF Status
<1>5. delivery' = Recorded(v, p, outcome)
  BY <1>1, <1>3, <1>4
<1>6. /\ delivery' \subseteq PushRow /\ RowsFrom
      /\ \A q \in delivery : \E r \in delivery' : SameRow(r, q)
  BY <1>5, RecordedRows
<1>7. TypesButSender'
  BY <1>1, <1>6 DEF PushTypes, TypesButSender
<1>8. /\ PushTypes' /\ Walks(p)
      /\ sender'[p].cache = sender[p].cache /\ sender'[p].row = sender[p].row
      /\ sender'[p].device = sender[p].device /\ sender'[p].sends \subseteq sender[p].sends
  BY <1>1, <1>7, SettleTypes
<1>9. QED
  BY <1>6, <1>8 DEF RowsStay, RowsKept

LEMMA Dates ==
  ASSUME PushTypes
  PROVE /\ hour \in Int /\ \A c \in campaign : c.at \in Int
        /\ \A r \in delivery : r.at \in Int
        /\ \A h \in handed : h.at \in Int
<1>1. hour \in Int /\ \A h \in handed : h.at \in Int
  BY PushAssumption DEF PushTypes
<1>2. \A c \in campaign : c.at \in Hour
  BY DEF PushTypes, CampaignRow
<1>3. \A r \in delivery : r.at \in Hour
  BY DEF PushTypes, PushRow
<1>4. QED
  BY <1>1, <1>2, <1>3, PushAssumption

LEMMA EndRunTypes ==
  ASSUME PushTypes, NEW p \in StorySender, EndRun(p), sender[p].now <= hour
  PROVE /\ PushTypes' /\ sender'[p] = Asleep /\ RowsFrom /\ RowsStay
        /\ \A q \in StorySender : q # p => sender'[q] = sender[q]
        /\ campaign' \subseteq campaign /\ \A c \in campaign : hour <= c.at + Retention => c \in campaign'
<1>1. /\ sender[p].pc = "pick" /\ sender' = [sender EXCEPT ![p] = Asleep]
      /\ delivery' = {r \in delivery : r.at >= sender[p].now - Retention}
      /\ campaign' = {c \in campaign : c.at >= sender[p].now - Retention}
      /\ UNCHANGED <<hour, phone, reader, paying, handed, pushLeft>>
  BY DEF EndRun
<1>2. TypesButSender'
  BY <1>1 DEF PushTypes, TypesButSender
<1>3. PushTypes'
  BY <1>1, <1>2, SleepTypes
<1>4. sender'[p] = Asleep /\ \A q \in StorySender : q # p => sender'[q] = sender[q]
  BY <1>1 DEF PushTypes
<1>5. sender[p] # Asleep
  BY <1>1 DEF Asleep
<1>6. sender[p].now \in Int /\ hour \in Int
  BY <1>5, Awake, PushAssumption DEF PushTypes
<1>7. \A c \in campaign : hour <= c.at + Retention => c.at >= sender[p].now - Retention
  <2> SUFFICES ASSUME NEW c \in campaign, hour <= c.at + Retention PROVE c.at >= sender[p].now - Retention
    OBVIOUS
  <2>1. c.at \in Int /\ Retention \in Int
    BY Dates, PushAssumption
  <2>2. QED
    BY <1>6, <2>1
<1>8. \A r \in delivery : r.at >= sender[p].now - Retention \/ hour > r.at + Retention
  <2> SUFFICES ASSUME NEW r \in delivery, ~(r.at >= sender[p].now - Retention) PROVE hour > r.at + Retention
    OBVIOUS
  <2>1. r.at \in Int /\ Retention \in Int
    BY Dates, PushAssumption
  <2>2. QED
    BY <1>6, <2>1
<1>9. \A r \in delivery : SameRow(r, r)
  BY DEF SameRow
<1>10. RowsFrom /\ RowsStay
  BY <1>1, <1>8, <1>9 DEF RowsFrom, RowsStay
<1>11. QED
  BY <1>1, <1>3, <1>4, <1>7, <1>10

LEMMA KillTypes ==
  ASSUME PushTypes, NEW p \in StorySender, KillSender(p)
  PROVE PushTypes' /\ sender'[p] = Asleep /\ \A q \in StorySender : q # p => sender'[q] = sender[q]
<1>1. sender' = [sender EXCEPT ![p] = Asleep] /\ UNCHANGED <<hour, phone, reader, paying, campaign, delivery, handed, pushLeft>>
  BY DEF KillSender
<1>2. TypesButSender'
  BY <1>1 DEF PushTypes, TypesButSender
<1>3. QED
  BY <1>1, <1>2, SleepTypes DEF PushTypes

\* Time passes, and access changes.
LEMMA LaterTypes ==
  ASSUME PushTypes, Later
  PROVE PushTypes'
BY DEF Later, PushTypes, AtWork

LEMMA AccessTypes ==
  ASSUME PushTypes, NEW u \in Reader, ChangeAccess(u)
  PROVE PushTypes'
BY DEF ChangeAccess, PushTypes, AtWork

-----------------------------------------------------------------------------
(* Runs are short. *)

Timely ==
  /\ \A p \in StorySender : sender[p] # Asleep => sender[p].now <= hour /\ hour <= sender[p].now + RunSpan
  /\ \A r \in delivery : r.at <= hour
  /\ \A c \in campaign : c.at <= hour

LEMMA TimelyStep ==
  ASSUME PushTypes, Timely, hour' = hour, RowsFrom, \A c \in campaign' : c.at <= hour,
         \A q \in StorySender : \/ sender'[q] = sender[q] \/ sender'[q] = Asleep
                                \/ sender[q] # Asleep /\ sender'[q].now = sender[q].now
                                \/ sender'[q].now = hour
  PROVE Timely'
<1>1. \A r \in delivery' : r.at <= hour
  BY DEF Timely, RowsFrom, SameRow
<1>2. ASSUME NEW q \in StorySender, sender'[q] # Asleep'
      PROVE sender'[q].now <= hour /\ hour <= sender'[q].now + RunSpan
  <2>1. hour \in Int /\ RunSpan \in Nat
    BY Dates, PushAssumption
  <2>2. CASE sender'[q].now = hour
    BY <2>1, <2>2
  <2>3. CASE sender[q] # Asleep /\ sender'[q].now = sender[q].now
    BY <2>3 DEF Timely
  <2>4. QED
    BY <1>2, <2>2, <2>3 DEF Asleep, Timely
<1>3. QED
  BY <1>1, <1>2 DEF Timely, Asleep

LEMMA TimelyKept ==
  ASSUME PushTypes, Timely, PushNext
  PROVE PushTypes' /\ Timely'
<1> USE DEF Timely
<1>1. ASSUME NEW d \in Handset, NEW u \in Reader, NEW k \in PushToken, NEW z \in Zone, NEW b \in BOOLEAN,
             RefreshToken(d, u, k, z, b)
      PROVE PushTypes' /\ Timely'
  <2>1. PushTypes'
    BY <1>1, RefreshTypes
  <2>2. delivery' = delivery /\ campaign' = campaign /\ sender' = sender /\ hour' = hour
    BY <1>1 DEF RefreshToken
  <2>3. QED
    BY <2>1, <2>2, SameRows, TimelyStep
<1>2. ASSUME NEW u \in Reader, ChangeAccess(u) PROVE PushTypes' /\ Timely'
  <2>1. PushTypes'
    BY <1>2, AccessTypes
  <2>2. delivery' = delivery /\ campaign' = campaign /\ sender' = sender /\ hour' = hour
    BY <1>2 DEF ChangeAccess
  <2>3. QED
    BY <2>1, <2>2, SameRows, TimelyStep
<1>3. ASSUME NEW u \in Reader, DeleteReader(u) PROVE PushTypes' /\ Timely'
  <2>1. PushTypes' /\ RowsFrom
    BY <1>3, DeleteReaderTypes
  <2>2. campaign' = campaign /\ sender' = sender /\ hour' = hour
    BY <1>3 DEF DeleteReader
  <2>3. QED
    BY <2>1, <2>2, TimelyStep
<1>4. ASSUME Later PROVE PushTypes' /\ Timely'
  <2>1. PushTypes'
    BY <1>4, LaterTypes
  <2>2. PICK t \in Hour :
       /\ t > hour
       /\ \A p \in StorySender : sender[p] # Asleep => t - sender[p].now <= RunSpan
       /\ hour' = t
    BY <1>4 DEF Later
  <2>3. t \in Int /\ hour \in Int /\ RunSpan \in Int
    BY PushAssumption, Dates
  <2>4. delivery' = delivery /\ campaign' = campaign /\ sender' = sender
    BY <1>4 DEF Later
  <2>5. \A r \in delivery : r.at <= t
    BY <2>2, <2>3, Dates
  <2>6. \A c \in campaign : c.at <= t
    BY <2>2, <2>3, Dates
  <2>7. ASSUME NEW p \in StorySender, sender[p] # Asleep
        PROVE sender[p].now <= t /\ t <= sender[p].now + RunSpan
    <3>1. sender[p].now \in Int
      BY <2>7, Awake
    <3>2. sender[p].now <= hour /\ t - sender[p].now <= RunSpan
      BY <2>2, <2>7
    <3>3. QED
      BY <3>1, <3>2, <2>2, <2>3
  <2>8. QED
    BY <2>1, <2>2, <2>4, <2>5, <2>6, <2>7 DEF Asleep
<1>5. ASSUME NEW p \in StorySender, StartSender(p) PROVE PushTypes' /\ Timely'
  <2>1. /\ PushTypes' /\ sender'[p].now = hour
        /\ \A q \in StorySender : q # p => sender'[q] = sender[q]
    BY <1>5, StartSenderTypes
  <2>2. delivery' = delivery /\ campaign' = campaign /\ hour' = hour
    BY <1>5 DEF StartSender
  <2>3. QED
    BY <2>1, <2>2, SameRows, TimelyStep
<1>6. ASSUME NEW p \in StorySender, Recheck(p) PROVE PushTypes' /\ Timely'
  <2>1. /\ PushTypes' /\ RowsFrom /\ sender[p] # Asleep /\ sender'[p].now = sender[p].now
        /\ \A q \in StorySender : q # p => sender'[q] = sender[q]
    BY <1>6, RecheckTypes
  <2>2. campaign' = campaign /\ hour' = hour
    BY <1>6 DEF Recheck
  <2>3. QED
    BY <2>1, <2>2, TimelyStep
<1>7. ASSUME NEW p \in StorySender, SendStory(p) PROVE PushTypes' /\ Timely'
  <2>1. /\ PushTypes' /\ sender[p].pc = "send" /\ sender'[p].now = sender[p].now
        /\ \A q \in StorySender : q # p => sender'[q] = sender[q]
    BY <1>7, SendStoryTypes
  <2>2. delivery' = delivery /\ campaign' = campaign /\ hour' = hour
    BY <1>7 DEF SendStory
  <2>3. sender[p] # Asleep
    BY <2>1, AtDeviceNow
  <2>4. QED
    BY <2>1, <2>2, <2>3, SameRows, TimelyStep
<1>8. ASSUME NEW p \in StorySender, RecordOutcome(p) PROVE PushTypes' /\ Timely'
  <2>1. PushTypes' /\ RowsFrom /\ Walks(p)
    BY <1>8, RecordOutcomeTypes
  <2>2. campaign' = campaign /\ hour' = hour
    BY <1>8 DEF RecordOutcome
  <2>3. QED
    BY <2>1, <2>2, TimelyStep DEF Walks
<1>9. ASSUME NEW p \in StorySender, EndRun(p) PROVE PushTypes' /\ Timely'
  <2>1. sender[p] # Asleep
    BY <1>9 DEF EndRun, Asleep
  <2>2. /\ PushTypes' /\ sender'[p] = Asleep /\ RowsFrom /\ campaign' \subseteq campaign
        /\ \A q \in StorySender : q # p => sender'[q] = sender[q]
    BY <1>9, <2>1, EndRunTypes
  <2>3. hour' = hour
    BY <1>9 DEF EndRun
  <2>4. QED
    BY <2>2, <2>3, TimelyStep
<1>10. ASSUME NEW p \in StorySender, KillSender(p) PROVE PushTypes' /\ Timely'
  <2>1. PushTypes' /\ sender'[p] = Asleep /\ \A q \in StorySender : q # p => sender'[q] = sender[q]
    BY <1>10, KillTypes
  <2>2. delivery' = delivery /\ campaign' = campaign /\ hour' = hour
    BY <1>10 DEF KillSender
  <2>3. QED
    BY <2>1, <2>2, SameRows, TimelyStep
<1>11. ASSUME NEW p \in StorySender, NEW d \in Handset,
              PassOver(p, d) \/ PickOutside(p, d) \/ PickCached(p, d) \/ PickFrozen(p, d)
       PROVE PushTypes' /\ Timely'
  <2>1. PushTypes' /\ Walks(p)
    BY <1>11, PassOverTypes, PickOutsideTypes, PickCachedTypes, PickFrozenTypes DEF Served
  <2>2. delivery' = delivery /\ campaign' = campaign /\ hour' = hour
    BY <1>11 DEF PassOver, PickOutside, PickCached, PickFrozen
  <2>3. QED
    BY <2>1, <2>2, SameRows, TimelyStep DEF Walks
<1>12. ASSUME NEW p \in StorySender, NEW d \in Handset, Freeze(p, d) PROVE PushTypes' /\ Timely'
  <2>1. PICK shared \in SUBSET Story :
          /\ Served(p, d, shared)
          /\ \/ shared = {} /\ campaign' = campaign
             \/ \E s \in Story : shared = {s} /\ FreezesNow(p, d, s)
    BY <1>12, FreezeTypes
  <2>2. PushTypes' /\ Walks(p)
    BY <2>1 DEF Served
  <2>3. delivery' = delivery /\ hour' = hour
    BY <1>12 DEF Freeze
  <2>4. sender[p].now <= hour
    BY <2>2 DEF Walks
  <2>5. \A c \in campaign' : c.at <= hour
    <3>1. CASE campaign' = campaign
      BY <3>1
    <3>2. ASSUME NEW s \in Story, FreezesNow(p, d, s) PROVE \A c \in campaign' : c.at <= hour
      <4>1. PICK n : campaign' = campaign \cup {n} /\ n.at = sender[p].now
        BY <3>2 DEF FreezesNow
      <4>2. QED
        BY <4>1, <2>4
    <3>3. QED
      BY <2>1, <3>1, <3>2
  <2>6. QED
    BY <2>2, <2>3, <2>5, SameRows, TimelyStep DEF Walks
<1>13. ASSUME NEW p \in StorySender, NEW x \in Message, Reserve(p, x) PROVE PushTypes' /\ Timely'
  <2>1. /\ PushTypes' /\ sender[p] # Asleep /\ sender'[p].now = sender[p].now
        /\ \A q \in StorySender : q # p => sender'[q] = sender[q]
        /\ delivery' = delivery \/ Reserves(p, x)
    BY <1>13, ReserveTypes
  <2>2. campaign' = campaign /\ hour' = hour
    BY <1>13 DEF Reserve
  <2>3. CASE delivery' = delivery
    BY <2>1, <2>2, <2>3, SameRows, TimelyStep
  <2>4. CASE Reserves(p, x)
    <3>1. delivery' = delivery \cup {ReservedRow(p, x)} /\ ReservedRow(p, x).at = sender[p].now
      BY <2>4 DEF Reserves, ReservedRow
    <3>2. \A r \in delivery' : r.at <= hour
      BY <3>1, <2>1
    <3>3. \A q \in StorySender : sender'[q] # Asleep => sender'[q].now <= hour /\ hour <= sender'[q].now + RunSpan
      BY <2>1
    <3>4. QED
      BY <2>1, <2>2, <3>2, <3>3 DEF Asleep
  <2>5. QED
    BY <2>1, <2>3, <2>4
<1>14. QED
  <2>1. \A s \in Story, extra \in BOOLEAN : [story |-> s, flight |-> extra] \in Message
    BY DEF Message
  <2>2. QED
    BY <1>1, <1>2, <1>3, <1>4, <1>5, <1>6, <1>7, <1>8, <1>9, <1>10, <1>11, <1>12, <1>13, <2>1 DEF PushNext

-----------------------------------------------------------------------------
(* A transmission is given to APNs once. *)

\* A worker has a reservation in hand that it may send.
Sending(p) == sender[p].pc \in {"recheck", "send"}
Addressee(w) == w.row[w.device].user
Printed(w) == Fingerprint[w.send.story]

RowOf(u, d, print, t) ==
  \E r \in delivery : r.user = u /\ r.device = d /\ r.print = print /\ r.at = t

SameSend(v, w) == Addressee(v) = Addressee(w) /\ v.device = w.device /\ Printed(v) = Printed(w)
SameTold(h, w) == h.user = Addressee(w) /\ h.device = w.device /\ h.print = Printed(w)

Apart(s, t) == s - t >= Retention - RunSpan \/ t - s >= Retention - RunSpan

HandedHasRow ==
  \A h \in handed : h.user \in reader => RowOf(h.user, h.device, h.print, h.at) \/ hour > h.at + Retention

SendingHasRow ==
  \A p \in StorySender : Sending(p) /\ Addressee(sender[p]) \in reader =>
    RowOf(Addressee(sender[p]), sender[p].device, Printed(sender[p]), sender[p].now)

OneSends ==
  \A p, q \in StorySender : p # q /\ Sending(p) /\ Sending(q) /\ SameSend(sender[p], sender[q]) =>
    Addressee(sender[p]) \notin reader /\ (sender[p].pc = "recheck" \/ sender[q].pc = "recheck")

SendsNews ==
  \A p \in StorySender, h \in handed : Sending(p) /\ SameTold(h, sender[p]) =>
    \/ Apart(h.at, sender[p].now)
    \/ Addressee(sender[p]) \notin reader /\ sender[p].pc = "recheck"

ToldInv == HandedHasRow /\ SendingHasRow /\ OneSends /\ SendsNews /\ ToldOnce


\* A worker does not send, or stands as it stood.
Quiet(p) ==
  \/ sender'[p] = sender[p]
  \/ sender'[p].pc \notin {"recheck", "send"}

LEMMA SendingIs ==
  ASSUME PushTypes, NEW p \in StorySender, Sending(p)
  PROVE sender[p] # Asleep /\ sender[p].now \in Int
<1>1. sender[p].pc \in {"recheck", "send"}
  BY DEF Sending
<1>2. sender[p] # Asleep
  BY <1>1 DEF Asleep
<1>3. QED
  BY <1>2, Awake

\* Rows that count stay.
LEMMA RowStays ==
  ASSUME PushTypes, RowsStay, reader' \subseteq reader, hour' = hour,
         NEW u \in reader', NEW d, NEW print, NEW t, RowOf(u, d, print, t)
  PROVE RowOf(u, d, print, t)' \/ hour' > t + Retention
<1>1. PICK r \in delivery : r.user = u /\ r.device = d /\ r.print = print /\ r.at = t
  BY DEF RowOf
<1>2. CASE \E q \in delivery' : SameRow(q, r)
  BY <1>1, <1>2 DEF RowOf, SameRow
<1>3. CASE hour > r.at + Retention
  BY <1>1, <1>3
<1>4. QED
  BY <1>1, <1>2, <1>3 DEF RowsStay

LEMMA ToldQuiet ==
  ASSUME PushTypes, PushTypes', Timely, ToldInv, hour' = hour, reader' \subseteq reader, handed' = handed, RowsStay,
         \A p \in StorySender : Quiet(p)
  PROVE ToldInv'
<1> USE DEF ToldInv
<1>0. \A p \in StorySender : Sending(p)' => sender'[p] = sender[p] /\ Sending(p)
  BY DEF Quiet, Sending
<1>1. HandedHasRow'
  <2> SUFFICES ASSUME NEW h \in handed, h.user \in reader'
               PROVE RowOf(h.user, h.device, h.print, h.at)' \/ hour' > h.at + Retention
    BY DEF HandedHasRow
  <2>1. CASE RowOf(h.user, h.device, h.print, h.at)
    BY <2>1, RowStays
  <2>2. CASE hour > h.at + Retention
    BY <2>2
  <2>3. QED
    BY <2>1, <2>2 DEF HandedHasRow
<1>2. SendingHasRow'
  <2> SUFFICES ASSUME NEW p \in StorySender, Sending(p)', Addressee(sender'[p]) \in reader'
               PROVE RowOf(Addressee(sender[p]), sender[p].device, Printed(sender[p]), sender[p].now)'
    BY DEF SendingHasRow, Addressee, Printed
  <2>1. sender'[p] = sender[p] /\ Sending(p)
    BY <1>0
  <2>2. RowOf(Addressee(sender[p]), sender[p].device, Printed(sender[p]), sender[p].now)
    BY <2>1 DEF SendingHasRow, Addressee
  <2>3. hour <= sender[p].now + RunSpan /\ sender[p].now \in Int /\ hour \in Int
    BY <2>1, SendingIs, Dates DEF Timely
  <2>4. ~(hour > sender[p].now + Retention)
    BY <2>3, PushAssumption
  <2>5. QED
    BY <2>1, <2>2, <2>4, RowStays
<1>3. OneSends'
  BY <1>0 DEF OneSends, SameSend, Addressee, Printed
<1>4. SendsNews'
  BY <1>0 DEF SendsNews, SameTold, Addressee, Printed
<1>5. ToldOnce'
  BY DEF ToldOnce
<1>6. QED
  BY <1>1, <1>2, <1>3, <1>4, <1>5

LEMMA ToldLater ==
  ASSUME PushTypes, ToldInv, Later
  PROVE ToldInv'
<1> USE DEF ToldInv
<1>1. PICK t \in Hour : t > hour /\ hour' = t
  BY DEF Later
<1>2. UNCHANGED <<reader, delivery, sender, handed>>
  BY DEF Later
<1>3. \A h \in handed : hour > h.at + Retention => t > h.at + Retention
  <2>1. t \in Int /\ hour \in Int /\ Retention \in Int /\ \A h \in handed : h.at \in Int
    BY PushAssumption, Dates
  <2>2. QED
    BY <1>1, <2>1
<1>4. HandedHasRow'
  BY <1>1, <1>2, <1>3 DEF HandedHasRow, RowOf
<1>5. SendingHasRow' /\ OneSends' /\ SendsNews' /\ ToldOnce'
  BY <1>2 DEF SendingHasRow, OneSends, SendsNews, ToldOnce, RowOf, Sending, SameSend, SameTold, Addressee, Printed
<1>6. QED
  BY <1>4, <1>5

\* A reservation is for what the account has not been told of within the retention.
LEMMA ToldReserve ==
  ASSUME PushTypes, PushTypes', Timely, ToldInv, NEW p \in StorySender, NEW x \in Message, Reserve(p, x), Reserves(p, x)
  PROVE ToldInv'
<1> USE DEF ToldInv
<1> DEFINE w == sender'[p]
<1>1. /\ sender[p].pc = "reserve" /\ sender[p] # Asleep /\ sender'[p].now = sender[p].now
      /\ sender'[p].row = sender[p].row /\ sender'[p].device = sender[p].device
      /\ \A q \in StorySender : q # p => sender'[q] = sender[q]
  BY ReserveTypes
<1>2. UNCHANGED <<hour, reader, handed>>
  BY DEF Reserve
<1>3. PICK n \in PushRow : n = ReservedRow(p, x)
  BY DEF Reserves
<1>4. delivery' = delivery \cup {n} /\ RowAllowed(n) /\ sender'[p].pc = "recheck" /\ sender'[p].send = x
  BY <1>3 DEF Reserves
<1>5. n.user = Addressee(w) /\ n.device = w.device /\ n.print = Printed(w) /\ n.at = w.now /\ n.at = sender[p].now
  BY <1>1, <1>3, <1>4 DEF ReservedRow, Addressee, Printed
<1>6. /\ n.at \in Int /\ hour \in Int /\ n.at <= hour /\ hour <= n.at + RunSpan
      /\ RunSpan \in Int /\ Retention \in Int /\ RunSpan < Retention
  BY <1>1, <1>5, Awake, Dates, PushAssumption DEF Timely
<1>7. \A r \in delivery : r.user = n.user /\ r.device = n.device /\ r.print = n.print => ~(r.at > n.at - Retention)
  BY <1>4 DEF RowAllowed, Told
<1>8. HandedHasRow'
  BY <1>2, <1>4 DEF HandedHasRow, RowOf
<1>9. SendingHasRow'
  <2> SUFFICES ASSUME NEW q \in StorySender, Sending(q)', Addressee(sender'[q]) \in reader'
               PROVE RowOf(Addressee(sender[q]), sender[q].device, Printed(sender[q]), sender[q].now)'
    BY DEF SendingHasRow, Addressee, Printed
  <2>1. CASE q = p
    BY <2>1, <1>4, <1>5 DEF RowOf, Addressee, Printed
  <2>2. CASE q # p
    BY <2>2, <1>1, <1>2, <1>4 DEF SendingHasRow, RowOf, Addressee, Printed, Sending
  <2>3. QED
    BY <2>1, <2>2
<1>10. ASSUME NEW q \in StorySender, q # p, Sending(q), SameSend(sender[q], w)
       PROVE Addressee(w) \notin reader
  <2> SUFFICES ASSUME Addressee(w) \in reader PROVE FALSE
    OBVIOUS
  <2>1. RowOf(Addressee(sender[q]), sender[q].device, Printed(sender[q]), sender[q].now)
    BY <1>10 DEF SendingHasRow, SameSend
  <2>2. PICK r \in delivery : r.user = n.user /\ r.device = n.device /\ r.print = n.print /\ r.at = sender[q].now
    BY <2>1, <1>5, <1>10 DEF RowOf, SameSend
  <2>3. sender[q].now \in Int /\ hour <= sender[q].now + RunSpan
    BY <1>10, SendingIs DEF Timely
  <2>4. r.at > n.at - Retention
    BY <2>2, <2>3, <1>6
  <2>5. QED
    BY <1>7, <2>2, <2>4
<1>11. OneSends'
  <2> SUFFICES ASSUME NEW q \in StorySender, NEW v \in StorySender, q # v, Sending(q)', Sending(v)',
                      SameSend(sender'[q], sender'[v])
               PROVE Addressee(sender'[q]) \notin reader /\ (sender'[q].pc = "recheck" \/ sender'[v].pc = "recheck")
    BY <1>2 DEF OneSends, SameSend, Addressee, Printed
  <2>1. CASE q = p
    BY <2>1, <1>1, <1>4, <1>10 DEF Sending, SameSend
  <2>2. CASE v = p
    BY <2>2, <1>1, <1>4, <1>10 DEF Sending, SameSend
  <2>3. CASE q # p /\ v # p
    BY <2>3, <1>1 DEF OneSends, Sending
  <2>4. QED
    BY <2>1, <2>2, <2>3
<1>12. SendsNews'
  <2> SUFFICES ASSUME NEW q \in StorySender, NEW h \in handed, Sending(q)', SameTold(h, sender'[q])
               PROVE \/ Apart(h.at, sender'[q].now)
                     \/ Addressee(sender'[q]) \notin reader /\ sender'[q].pc = "recheck"
    BY <1>2 DEF SendsNews, SameTold, Addressee, Printed, Apart
  <2>1. CASE q # p
    BY <2>1, <1>1 DEF SendsNews, Sending
  <2>2. CASE q = p /\ Addressee(w) \notin reader
    BY <2>2, <1>4
  <2>3. CASE q = p /\ Addressee(w) \in reader
    <3>1. h.user = n.user /\ h.device = n.device /\ h.print = n.print /\ h.user \in reader
      BY <2>3, <1>5 DEF SameTold
    <3>2. h.at \in Int
      BY Dates
    <3>3. CASE RowOf(h.user, h.device, h.print, h.at)
      <4>1. ~(h.at > n.at - Retention)
        BY <3>1, <3>3, <1>7 DEF RowOf
      <4>2. n.at - h.at >= Retention - RunSpan
        BY <4>1, <3>2, <1>6, PushAssumption
      <4>3. QED
        BY <2>3, <4>2, <1>5 DEF Apart
    <3>4. CASE hour > h.at + Retention
      <4>1. n.at - h.at >= Retention - RunSpan
        BY <3>4, <3>2, <1>6
      <4>2. QED
        BY <2>3, <4>1, <1>5 DEF Apart
    <3>5. QED
      BY <3>1, <3>3, <3>4 DEF HandedHasRow
  <2>4. QED
    BY <2>1, <2>2, <2>3
<1>13. ToldOnce'
  BY <1>2 DEF ToldOnce
<1>14. QED
  BY <1>8, <1>9, <1>11, <1>12, <1>13

\* Only the device of an account that exists is sent to.
LEMMA ToldRecheck ==
  ASSUME PushTypes, PushTypes', Timely, ToldInv, NEW p \in StorySender, Recheck(p)
  PROVE ToldInv'
<1> USE DEF ToldInv
<1>1. /\ sender[p].pc = "recheck" /\ RowsStay /\ sender'[p].now = sender[p].now
      /\ sender'[p].row = sender[p].row /\ sender'[p].device = sender[p].device
      /\ \A q \in StorySender : q # p => sender'[q] = sender[q]
      /\ \/ Walks(p)
         \/ /\ sender'[p].pc = "send" /\ sender'[p].send = sender[p].send /\ delivery' = delivery
            /\ sender[p].row[sender[p].device].user \in reader
  BY RecheckTypes
<1>2. UNCHANGED <<hour, reader, handed>>
  BY DEF Recheck
<1>3. CASE Walks(p)
  BY <1>1, <1>2, <1>3, ToldQuiet DEF Walks, Quiet
<1>4. CASE ~Walks(p)
  <2>1. /\ sender'[p].pc = "send" /\ sender'[p].send = sender[p].send /\ delivery' = delivery
        /\ Addressee(sender[p]) \in reader /\ Sending(p)
    BY <1>1, <1>4 DEF Addressee, Sending
  <2>2. Addressee(sender'[p]) = Addressee(sender[p]) /\ Printed(sender'[p]) = Printed(sender[p])
    BY <1>1, <2>1 DEF Addressee, Printed
  <2>3. \A q \in StorySender : Sending(q)' => Sending(q)
    BY <1>1, <2>1 DEF Sending
  <2>4. HandedHasRow' /\ ToldOnce'
    BY <1>2, <2>1 DEF HandedHasRow, ToldOnce, RowOf
  <2>5. SendingHasRow'
    <3> SUFFICES ASSUME NEW q \in StorySender, Sending(q)', Addressee(sender'[q]) \in reader'
                 PROVE RowOf(Addressee(sender[q]), sender[q].device, Printed(sender[q]), sender[q].now)'
      BY DEF SendingHasRow, Addressee, Printed
    <3>1. /\ Addressee(sender'[q]) = Addressee(sender[q]) /\ Printed(sender'[q]) = Printed(sender[q])
          /\ sender'[q].device = sender[q].device /\ sender'[q].now = sender[q].now
      BY <1>1, <2>2
    <3>2. QED
      BY <1>2, <2>1, <2>3, <3>1 DEF SendingHasRow, RowOf, Addressee, Printed
  <2>6. ASSUME NEW q \in StorySender, q # p, Sending(q) PROVE ~SameSend(sender[q], sender[p])
    BY <2>1, <2>6 DEF OneSends, SameSend
  <2>7. OneSends'
    <3> SUFFICES ASSUME NEW q \in StorySender, NEW v \in StorySender, q # v, Sending(q)', Sending(v)',
                        SameSend(sender'[q], sender'[v])
                 PROVE Addressee(sender'[q]) \notin reader /\ (sender'[q].pc = "recheck" \/ sender'[v].pc = "recheck")
      BY <1>2 DEF OneSends, SameSend, Addressee, Printed
    <3>1. SameSend(sender[q], sender[v]) /\ SameSend(sender[v], sender[q])
      BY <1>1, <2>2 DEF SameSend
    <3>2. q # p /\ v # p
      BY <2>3, <2>6, <3>1
    <3>3. QED
      BY <3>2, <1>1 DEF OneSends, Sending
  <2>8. SendsNews'
    <3> SUFFICES ASSUME NEW q \in StorySender, NEW h \in handed, Sending(q)', SameTold(h, sender'[q])
                 PROVE \/ Apart(h.at, sender'[q].now)
                       \/ Addressee(sender'[q]) \notin reader /\ sender'[q].pc = "recheck"
      BY <1>2 DEF SendsNews, SameTold, Addressee, Printed, Apart
    <3>1. SameTold(h, sender[q]) /\ sender'[q].now = sender[q].now
      BY <1>1, <2>2 DEF SameTold
    <3>2. CASE q = p
      BY <3>1, <3>2, <2>1 DEF SendsNews
    <3>3. CASE q # p
      BY <3>3, <1>1 DEF SendsNews, Sending
    <3>4. QED
      BY <3>2, <3>3
  <2>9. QED
    BY <2>4, <2>5, <2>7, <2>8
<1>5. QED
  BY <1>3, <1>4

\* Whoever sends is alone with the transmission, and is the first within the retention.
LEMMA ToldSend ==
  ASSUME PushTypes, PushTypes', Timely, ToldInv, NEW p \in StorySender, SendStory(p)
  PROVE ToldInv'
<1> USE DEF ToldInv
<1>1. /\ sender[p].pc = "send" /\ sender'[p].pc \in {"accepted", "failed"}
      /\ \A q \in StorySender : q # p => sender'[q] = sender[q]
  BY SendStoryTypes
<1>2. UNCHANGED <<hour, reader, delivery>>
  BY DEF SendStory
<1>3. Quiet(p) /\ \A q \in StorySender : Quiet(q)
  BY <1>1 DEF Quiet
<1>4. CASE handed' = handed
  BY <1>2, <1>3, <1>4, SameRows, ToldQuiet
<1>5. CASE handed' # handed
  <2>1. PICK n : /\ handed' = handed \cup {n} /\ n.user = Addressee(sender[p]) /\ n.device = sender[p].device
                 /\ n.print = Printed(sender[p]) /\ n.at = sender[p].now
    BY <1>5 DEF SendStory, Addressee, Printed
  <2>2. Sending(p)
    BY <1>1 DEF Sending
  <2>3. \A q \in StorySender : Sending(q)' => q # p /\ Sending(q) /\ sender'[q] = sender[q]
    BY <1>1 DEF Sending
  <2>4. HandedHasRow'
    BY <1>2, <2>1, <2>2 DEF HandedHasRow, SendingHasRow, RowOf
  <2>5. SendingHasRow'
    BY <1>2, <2>3 DEF SendingHasRow, RowOf, Addressee, Printed
  <2>6. OneSends'
    BY SMTT(30), <1>2, <2>3 DEF OneSends, SameSend, Addressee, Printed
  <2>7. SendsNews'
    <3> SUFFICES ASSUME NEW q \in StorySender, NEW h \in handed', Sending(q)', SameTold(h, sender'[q])
                 PROVE \/ Apart(h.at, sender'[q].now)
                       \/ Addressee(sender'[q]) \notin reader /\ sender'[q].pc = "recheck"
      BY <1>2 DEF SendsNews, SameTold, Addressee, Printed, Apart
    <3>1. q # p /\ Sending(q) /\ sender'[q] = sender[q]
      BY <2>3
    <3>2. CASE h \in handed
      BY <3>1, <3>2 DEF SendsNews
    <3>3. CASE h = n
      <4>1. SameSend(sender[q], sender[p])
        BY <2>1, <3>1, <3>3 DEF SameTold, SameSend
      <4>2. Addressee(sender[q]) \notin reader /\ sender[q].pc = "recheck"
        BY <3>1, <4>1, <2>2, <1>1 DEF OneSends
      <4>3. QED
        BY <3>1, <4>2
    <3>4. QED
      BY <2>1, <3>2, <3>3
  <2>8. ToldOnce'
    <3>1. ASSUME NEW h \in handed, h.user = n.user, h.device = n.device, h.print = n.print PROVE Apart(h.at, n.at)
      <4>1. SameTold(h, sender[p])
        BY <3>1, <2>1 DEF SameTold
      <4>2. QED
        BY <4>1, <2>1, <2>2, <1>1 DEF SendsNews
    <3>2. n.at \in Int /\ (\A h \in handed : h.at \in Int) /\ Retention \in Int /\ RunSpan \in Int /\ RunSpan < Retention
      BY <2>1, <2>2, SendingIs, Dates, PushAssumption
    <3>3. ASSUME NEW h \in handed', NEW k \in handed', h.user = k.user, h.device = k.device, h.print = k.print,
                 h.at <= k.at, h # k
          PROVE k.at - h.at >= Retention - RunSpan
      <4>1. CASE h \in handed /\ k \in handed
        BY <3>3, <4>1 DEF ToldOnce
      <4>2. CASE h = n /\ k \in handed
        <5>1. Apart(k.at, n.at)
          BY <3>1, <3>3, <4>2
        <5>2. QED
          BY <5>1, <3>2, <3>3, <4>2 DEF Apart
      <4>3. CASE k = n /\ h \in handed
        <5>1. Apart(h.at, n.at)
          BY <3>1, <3>3, <4>3
        <5>2. QED
          BY <5>1, <3>2, <3>3, <4>3 DEF Apart
      <4>4. QED
        BY <4>1, <4>2, <4>3, <3>3, <2>1
    <3>4. QED
      BY <3>3 DEF ToldOnce
  <2>9. QED
    BY <2>4, <2>5, <2>6, <2>7, <2>8
<1>6. QED
  BY <1>4, <1>5

LEMMA ToldKept ==
  ASSUME PushTypes, Timely, ToldInv, PushNext
  PROVE ToldInv'
<1>0. PushTypes' /\ Timely'
  BY TimelyKept
<1>1. ASSUME NEW d \in Handset, NEW u \in Reader, NEW k \in PushToken, NEW z \in Zone, NEW b \in BOOLEAN,
             RefreshToken(d, u, k, z, b)
      PROVE ToldInv'
  <2>1. UNCHANGED <<hour, reader, delivery, sender, handed>>
    BY <1>1 DEF RefreshToken
  <2>2. QED
    BY <1>0, <2>1, SameRows, ToldQuiet DEF Quiet
<1>2. ASSUME NEW u \in Reader, ChangeAccess(u) PROVE ToldInv'
  <2>1. UNCHANGED <<hour, reader, delivery, sender, handed>>
    BY <1>2 DEF ChangeAccess
  <2>2. QED
    BY <1>0, <2>1, SameRows, ToldQuiet DEF Quiet
<1>3. ASSUME NEW u \in Reader, DeleteReader(u) PROVE ToldInv'
  <2>1. UNCHANGED <<hour, sender, handed>>
    BY <1>3 DEF DeleteReader
  <2>2. RowsStay /\ reader' \subseteq reader
    BY <1>3, DeleteReaderTypes
  <2>3. QED
    BY <1>0, <2>1, <2>2, ToldQuiet DEF Quiet
<1>4. ASSUME NEW p \in StorySender, StartSender(p) PROVE ToldInv'
  <2>1. sender'[p].pc = "pick" /\ \A q \in StorySender : q # p => sender'[q] = sender[q]
    BY <1>4, StartSenderTypes
  <2>2. UNCHANGED <<hour, reader, delivery, handed>>
    BY <1>4 DEF StartSender
  <2>3. QED
    BY <1>0, <2>1, <2>2, SameRows, ToldQuiet DEF Quiet
<1>5. ASSUME NEW p \in StorySender, RecordOutcome(p) PROVE ToldInv'
  <2>1. RowsStay /\ Walks(p)
    BY <1>5, RecordOutcomeTypes
  <2>2. UNCHANGED <<hour, reader, handed>>
    BY <1>5 DEF RecordOutcome
  <2>3. QED
    BY <1>0, <2>1, <2>2, ToldQuiet DEF Quiet, Walks
<1>6. ASSUME NEW p \in StorySender, EndRun(p) PROVE ToldInv'
  <2>1. sender[p] # Asleep
    BY <1>6 DEF EndRun, Asleep
  <2>2. sender'[p] = Asleep /\ RowsStay /\ \A q \in StorySender : q # p => sender'[q] = sender[q]
    BY <1>6, <2>1, EndRunTypes DEF Timely
  <2>3. UNCHANGED <<hour, reader, handed>>
    BY <1>6 DEF EndRun
  <2>4. QED
    BY <1>0, <2>2, <2>3, ToldQuiet DEF Quiet, Asleep
<1>7. ASSUME NEW p \in StorySender, KillSender(p) PROVE ToldInv'
  <2>1. sender'[p] = Asleep /\ \A q \in StorySender : q # p => sender'[q] = sender[q]
    BY <1>7, KillTypes
  <2>2. UNCHANGED <<hour, reader, delivery, handed>>
    BY <1>7 DEF KillSender
  <2>3. QED
    BY <1>0, <2>1, <2>2, SameRows, ToldQuiet DEF Quiet, Asleep
<1>8. ASSUME NEW p \in StorySender, NEW d \in Handset,
             PassOver(p, d) \/ PickOutside(p, d) \/ PickCached(p, d) \/ PickFrozen(p, d) \/ Freeze(p, d)
      PROVE ToldInv'
  <2>1. Walks(p)
    BY <1>8, PassOverTypes, PickOutsideTypes, PickCachedTypes, PickFrozenTypes, FreezeTypes DEF Served
  <2>2. UNCHANGED <<hour, reader, delivery, handed>>
    BY <1>8 DEF PassOver, PickOutside, PickCached, PickFrozen, Freeze
  <2>3. QED
    BY <1>0, <2>1, <2>2, SameRows, ToldQuiet DEF Quiet, Walks
<1>9. ASSUME NEW p \in StorySender, NEW x \in Message, Reserve(p, x) PROVE ToldInv'
  <2>1. CASE Walks(p) /\ delivery' = delivery
    <3>1. UNCHANGED <<hour, reader, handed>>
      BY <1>9 DEF Reserve
    <3>2. QED
      BY <1>0, <2>1, <3>1, SameRows, ToldQuiet DEF Quiet, Walks
  <2>2. CASE Reserves(p, x)
    BY <1>0, <1>9, <2>2, ToldReserve
  <2>3. QED
    BY <1>9, <2>1, <2>2, ReserveTypes
<1>10. QED
  <2>1. \A s \in Story, extra \in BOOLEAN : [story |-> s, flight |-> extra] \in Message
    BY DEF Message
  <2>2. QED
    BY <1>0, <1>1, <1>2, <1>3, <1>4, <1>5, <1>6, <1>7, <1>8, <1>9, <2>1, ToldLater, ToldRecheck, ToldSend DEF PushNext

-----------------------------------------------------------------------------
LEMMA InitTold == PushInit => Timely /\ ToldInv
<1> SUFFICES ASSUME PushInit PROVE Timely /\ ToldInv
  OBVIOUS
<1>1. \A p \in StorySender : sender[p] = Asleep /\ ~Sending(p)
  BY DEF PushInit, Asleep, Sending
<1>2. Timely
  BY <1>1 DEF PushInit, Timely
<1>3. HandedHasRow /\ SendingHasRow /\ OneSends /\ SendsNews /\ ToldOnce
  BY <1>1 DEF PushInit, HandedHasRow, SendingHasRow, OneSends, SendsNews, ToldOnce
<1>4. QED
  BY <1>2, <1>3 DEF ToldInv

LEMMA PushAlways == PushSpec => [](PushTypes /\ Timely)
<1>1. PushInit => PushTypes /\ Timely
  BY InitTypes, InitTold
<1>2. PushTypes /\ Timely /\ [PushNext]_pushVars => (PushTypes /\ Timely)'
  <2>1. ASSUME PushTypes, Timely, UNCHANGED pushVars PROVE PushTypes' /\ Timely'
    BY <2>1 DEF PushTypes, Timely, pushVars, AtWork
  <2>2. QED
    BY <2>1, TimelyKept
<1> QED
  BY <1>1, <1>2, PTL DEF PushSpec

LEMMA ToldAlways == PushSpec => []ToldInv
<1>1. PushInit => ToldInv
  BY InitTold
<1>2. PushTypes /\ Timely /\ ToldInv /\ [PushNext]_pushVars => ToldInv'
  <2>1. ASSUME ToldInv, UNCHANGED pushVars PROVE ToldInv'
    BY <2>1 DEF ToldInv, HandedHasRow, SendingHasRow, OneSends, SendsNews, ToldOnce, RowOf, Sending, SameSend,
       SameTold, Addressee, Printed, pushVars
  <2>2. QED
    BY <2>1, ToldKept
<1> QED
  BY <1>1, <1>2, PushAlways, PTL DEF PushSpec

\* Whatever the workers do, a device of an account is given a transmission once in the
\* retention, less what a run takes: dispatch and reserve.
THEOREM ToldCorrect == PushSpec => []ToldOnce
BY ToldAlways, PTL DEF ToldInv

-----------------------------------------------------------------------------
(* One story for a window. *)

InKey(day, slot, t) == \E z \in Zone : LocalDay(z, t) = day /\ slot \in Window(z, t)

\* No worker can be in the window any more, in any zone.
Gone(day, slot) == \A t \in Hour : t >= hour - RunSpan => ~InKey(day, slot, t)

\* Whoever is in the window has the story s, or nobody is.
Bound(day, slot, s) ==
  /\ \A c \in campaign : c.day = day /\ c.slot = slot => c.story = s
  /\ \/ \E c \in campaign : c.day = day /\ c.slot = slot
     \/ Gone(day, slot)

CampaignsInTime == \A c \in campaign : InKey(c.day, c.slot, c.at)
OneFrozen == \A c, e \in campaign : c.day = e.day /\ c.slot = e.slot => c.story = e.story
RowsBound == \A r \in delivery : r.slot >= 0 => Bound(r.day, r.slot, r.story)
CacheBound(w) == \A e \in w.cache : \A s \in e.shared : Bound(e.day, e.slot, s)
SendsBound(w) == \A x \in w.sends : ~x.flight => Bound(DayFor(w, w.device), SlotFor(w, w.device), x.story)
WorkersBound == \A p \in StorySender : sender[p] # Asleep => CacheBound(sender[p]) /\ SendsBound(sender[p])
PrintsOnce ==
  \A c, e \in campaign : c # e /\ c.print = e.print => c.at - e.at >= Retention \/ e.at - c.at >= Retention

CampaignsInv == CampaignsInTime /\ OneFrozen /\ PrintsOnce
FrozenInv == CampaignsInv /\ RowsBound /\ WorkersBound

BoundsStay == \A day, slot, s : Bound(day, slot, s) => Bound(day, slot, s)'

LEMMA FrozenGives == FrozenInv => OneStoryPerWindow
BY DEF FrozenInv, CampaignsInv, RowsBound, Bound, PrintsOnce, OneStoryPerWindow

\* Two times of one local day and window differ by an hour and what the zones differ.
LEMMA SameWindow ==
  ASSUME NEW y \in Zone, NEW z \in Zone, NEW a \in Int, NEW b \in Int, NEW slot \in 0..2,
         LocalDay(y, a) = LocalDay(z, b), slot \in Window(y, a), slot \in Window(z, b)
  PROVE b - a <= Offset[y] - Offset[z] + 1
<1> DEFINE s == a + Offset[y]
           t == b + Offset[z]
           start == (<<10, 15, 19>>)[slot + 1]
<1>1. Offset[y] \in Int /\ Offset[z] \in Int
  BY PushAssumption
<1>2. s \in Int /\ t \in Int /\ start \in Int
  <2>1. slot = 0 \/ slot = 1 \/ slot = 2
    OBVIOUS
  <2>2. QED
    BY <1>1, <2>1
<1>3. s \div 24 = t \div 24
  BY DEF LocalDay
<1>4. (s % 24) - start \in 0..1 /\ (t % 24) - start \in 0..1
  BY DEF Window
<1> HIDE DEF s, t, start
<1>5. s % 24 \in Int /\ t % 24 \in Int /\ s = 24 * (s \div 24) + (s % 24) /\ t = 24 * (t \div 24) + (t % 24)
      /\ s \div 24 \in Int /\ t \div 24 \in Int
  BY <1>2
<1>6. t - s <= 1
  BY <1>2, <1>3, <1>4, <1>5
<1>7. QED
  BY <1>1, <1>6 DEF s, t

LEMMA BoundsStayIf ==
  ASSUME hour' = hour, campaign' = campaign
  PROVE BoundsStay
BY DEF BoundsStay, Bound, Gone

LEMMA RowsStayBound ==
  ASSUME BoundsStay, RowsFrom, RowsBound
  PROVE RowsBound'
<1> SUFFICES ASSUME NEW r \in delivery', r.slot >= 0 PROVE Bound(r.day, r.slot, r.story)'
  BY DEF RowsBound
<1>1. PICK q \in delivery : SameRow(r, q)
  BY DEF RowsFrom
<1>2. Bound(q.day, q.slot, q.story)
  BY <1>1 DEF RowsBound, SameRow
<1>3. r.day = q.day /\ r.slot = q.slot /\ r.story = q.story
  BY <1>1 DEF SameRow
<1>4. QED
  BY <1>2, <1>3 DEF BoundsStay

\* A worker that neither learns of a window nor gets anything to send.
Keeps(p) ==
  \/ sender'[p] = sender[p]
  \/ sender'[p] = Asleep
  \/ /\ sender[p] # Asleep
     /\ sender'[p].now = sender[p].now /\ sender'[p].row = sender[p].row /\ sender'[p].device = sender[p].device
     /\ sender'[p].cache = sender[p].cache /\ sender'[p].sends \subseteq sender[p].sends

LEMMA KeepsBound ==
  ASSUME BoundsStay, WorkersBound, NEW p \in StorySender, Keeps(p), sender'[p] # Asleep
  PROVE CacheBound(sender[p])' /\ SendsBound(sender[p])'
<1>1. sender[p] # Asleep
  BY DEF Keeps
<1>2. /\ sender'[p].now = sender[p].now /\ sender'[p].row = sender[p].row /\ sender'[p].device = sender[p].device
      /\ sender'[p].cache = sender[p].cache /\ sender'[p].sends \subseteq sender[p].sends
  BY DEF Keeps
<1>3. CacheBound(sender[p]) /\ SendsBound(sender[p])
  BY <1>1 DEF WorkersBound
<1>4. CacheBound(sender[p])'
  BY <1>2, <1>3 DEF CacheBound, BoundsStay
<1>5. SendsBound(sender[p])'
  <2> SUFFICES ASSUME NEW x \in sender'[p].sends, ~x.flight
               PROVE Bound(DayFor(sender[p], sender[p].device), SlotFor(sender[p], sender[p].device), x.story)'
    BY DEF SendsBound
  <2>1. PICK day, slot : day = DayFor(sender[p], sender[p].device) /\ slot = SlotFor(sender[p], sender[p].device)
    OBVIOUS
  <2>2. Bound(day, slot, x.story)
    BY <1>2, <1>3, <2>1 DEF SendsBound
  <2>3. Bound(day, slot, x.story)'
    BY <2>2 DEF BoundsStay
  <2>4. DayFor(sender[p], sender[p].device)' = day /\ SlotFor(sender[p], sender[p].device)' = slot
    BY <1>2, <2>1 DEF DayFor, SlotFor
  <2>5. QED
    BY <2>3, <2>4
<1>6. QED
  BY <1>4, <1>5

LEMMA FrozenQuiet ==
  ASSUME FrozenInv, BoundsStay, CampaignsInv', RowsBound', \A p \in StorySender : Keeps(p)
  PROVE FrozenInv'
<1>1. ASSUME NEW p \in StorySender, sender'[p] # Asleep PROVE CacheBound(sender[p])' /\ SendsBound(sender[p])'
  BY <1>1, KeepsBound DEF FrozenInv
<1>2. WorkersBound'
  BY <1>1 DEF WorkersBound, Asleep
<1>3. QED
  BY <1>2 DEF FrozenInv

LEMMA SameCampaigns ==
  ASSUME FrozenInv, hour' = hour, campaign' = campaign
  PROVE BoundsStay /\ CampaignsInv'
BY BoundsStayIf DEF FrozenInv, CampaignsInv, CampaignsInTime, OneFrozen, PrintsOnce

\* The key a worker that is at a device freezes, or finds.
LEMMA KeyNow ==
  ASSUME PushTypes, Timely, NEW p \in StorySender, NEW d \in Handset, AtDevice(p, d), Eligible(sender[p].row[d]),
         InWindow(sender[p], d)
  PROVE /\ InKey(DayFor(sender[p], d), SlotFor(sender[p], d), sender[p].now)
        /\ sender[p].now \in Hour /\ sender[p].now >= hour - RunSpan
        /\ ~Gone(DayFor(sender[p], d), SlotFor(sender[p], d))
<1>1. sender[p] # Asleep /\ sender[p] \in SenderState /\ sender[p].row[d] \in PhoneRow
  BY AtWindow
<1>2. /\ sender[p].row[d].zone \in Zone /\ sender[p].now \in Hour /\ sender[p].now \in Int
      /\ SlotFor(sender[p], d) \in Window(sender[p].row[d].zone, sender[p].now)
  BY <1>1, DeviceKey DEF InWindow
<1>3. InKey(DayFor(sender[p], d), SlotFor(sender[p], d), sender[p].now)
  BY <1>2 DEF InKey, DayFor
<1>4. sender[p].now >= hour - RunSpan
  BY <1>1, <1>2, Dates, PushAssumption DEF Timely
<1>5. QED
  BY <1>2, <1>3, <1>4 DEF Gone

LEMMA FrozenLater ==
  ASSUME PushTypes, FrozenInv, Later
  PROVE FrozenInv'
<1>1. PICK t \in Hour : t > hour /\ hour' = t
  BY DEF Later
<1>2. UNCHANGED <<campaign, delivery, sender>>
  BY DEF Later
<1>3. \A x \in Hour : x >= t - RunSpan => x >= hour - RunSpan
  BY <1>1, Dates, PushAssumption
<1>4. BoundsStay
  BY <1>1, <1>2, <1>3 DEF BoundsStay, Bound, Gone
<1>5. CampaignsInv'
  BY <1>2 DEF FrozenInv, CampaignsInv, CampaignsInTime, OneFrozen, PrintsOnce
<1>6. RowsBound'
  BY <1>2, <1>4, SameRows, RowsStayBound DEF FrozenInv
<1>7. QED
  BY <1>2, <1>4, <1>5, <1>6, FrozenQuiet DEF Keeps

\* When a campaign is purged its window is gone.
LEMMA FrozenEndRun ==
  ASSUME PushTypes, Timely, FrozenInv, NEW p \in StorySender, EndRun(p)
  PROVE FrozenInv'
<1>1. sender[p] # Asleep
  BY DEF EndRun, Asleep
<1>2. /\ sender'[p] = Asleep /\ RowsFrom /\ campaign' \subseteq campaign
      /\ \A q \in StorySender : q # p => sender'[q] = sender[q]
      /\ \A c \in campaign : hour <= c.at + Retention => c \in campaign'
  BY <1>1, EndRunTypes DEF Timely
<1>3. hour' = hour
  BY DEF EndRun
<1>4. ASSUME NEW c \in campaign, c \notin campaign' PROVE Gone(c.day, c.slot)
  <2> SUFFICES ASSUME NEW t \in Hour, t >= hour - RunSpan, InKey(c.day, c.slot, t)
               PROVE FALSE
    BY DEF Gone
  <2>1. c.at \in Int /\ c.slot \in 0..2 /\ t \in Int /\ hour \in Int
    BY Dates, PushAssumption DEF PushTypes, CampaignRow
  <2>2. PICK y \in Zone : LocalDay(y, c.at) = c.day /\ c.slot \in Window(y, c.at)
    BY <1>4 DEF FrozenInv, CampaignsInv, CampaignsInTime, InKey
  <2>3. PICK z \in Zone : LocalDay(z, t) = c.day /\ c.slot \in Window(z, t)
    BY DEF InKey
  <2>4. t - c.at <= Offset[y] - Offset[z] + 1
    BY <2>1, <2>2, <2>3, SameWindow
  <2>5. Offset[y] - Offset[z] + 1 + RunSpan < Retention /\ Offset[y] \in Int /\ Offset[z] \in Int
    BY PushAssumption
  <2>6. hour > c.at + Retention
    BY <1>2, <1>4, <2>1, PushAssumption
  <2>7. QED
    BY <2>1, <2>4, <2>5, <2>6, PushAssumption
<1>5. BoundsStay
  <2> SUFFICES ASSUME NEW day, NEW slot, NEW s, Bound(day, slot, s) PROVE Bound(day, slot, s)'
    BY DEF BoundsStay
  <2>1. \A c \in campaign' : c.day = day /\ c.slot = slot => c.story = s
    BY <1>2 DEF Bound
  <2>2. (\E c \in campaign' : c.day = day /\ c.slot = slot) \/ Gone(day, slot)
    BY <1>4 DEF Bound
  <2>3. Gone(day, slot) => Gone(day, slot)'
    BY <1>3 DEF Gone
  <2>4. QED
    BY <2>1, <2>2, <2>3 DEF Bound
<1>6. CampaignsInv'
  BY <1>2 DEF FrozenInv, CampaignsInv, CampaignsInTime, OneFrozen, PrintsOnce
<1>7. RowsBound'
  BY <1>2, <1>5, RowsStayBound DEF FrozenInv
<1>8. QED
  BY <1>2, <1>5, <1>6, <1>7, FrozenQuiet DEF Keeps

\* A worker takes up a device with a story that its window is bound to.
LEMMA FrozenServed ==
  ASSUME PushTypes, FrozenInv, BoundsStay, CampaignsInv', RowsBound', NEW p \in StorySender, NEW d \in Handset,
         NEW shared, Served(p, d, shared),
         \/ sender'[p].cache = sender[p].cache
         \/ sender'[p].cache = sender[p].cache \cup
               {[day |-> DayFor(sender[p], d), slot |-> SlotFor(sender[p], d), shared |-> shared]},
         \A s \in shared : Bound(DayFor(sender[p], d), SlotFor(sender[p], d), s)'
  PROVE FrozenInv'
<1>1. /\ Walks(p) /\ sender'[p].row = sender[p].row /\ sender'[p].device = d
      /\ \A x \in sender'[p].sends : ~x.flight => x.story \in shared
  BY DEF Served
<1>2. /\ sender[p] # Asleep /\ sender'[p].now = sender[p].now
      /\ \A q \in StorySender : q # p => sender'[q] = sender[q]
  BY <1>1 DEF Walks
<1>3. PICK day, slot : day = DayFor(sender[p], d) /\ slot = SlotFor(sender[p], d)
  OBVIOUS
<1>4. DayFor(sender[p], sender[p].device)' = day /\ SlotFor(sender[p], sender[p].device)' = slot
  BY <1>1, <1>2, <1>3 DEF DayFor, SlotFor
<1>5. \A s \in shared : Bound(day, slot, s)'
  BY <1>4, <1>1, <1>2 DEF DayFor, SlotFor
<1>6. SendsBound(sender[p])'
  <2> SUFFICES ASSUME NEW x \in sender'[p].sends, ~x.flight
               PROVE Bound(DayFor(sender[p], sender[p].device), SlotFor(sender[p], sender[p].device), x.story)'
    BY DEF SendsBound
  <2>1. Bound(day, slot, x.story)'
    BY <1>1, <1>5
  <2>2. QED
    BY <1>4, <2>1
<1>7. CacheBound(sender[p])'
  <2> SUFFICES ASSUME NEW e \in sender'[p].cache, NEW s \in e.shared PROVE Bound(e.day, e.slot, s)'
    BY DEF CacheBound
  <2>1. CASE e \in sender[p].cache
    BY <2>1, <1>2 DEF FrozenInv, WorkersBound, CacheBound, BoundsStay
  <2>2. CASE e = [day |-> day, slot |-> slot, shared |-> shared]
    BY <2>2, <1>5
  <2>3. QED
    BY <2>1, <2>2, <1>3
<1>8. ASSUME NEW q \in StorySender, q # p, sender'[q] # Asleep PROVE CacheBound(sender[q])' /\ SendsBound(sender[q])'
  BY <1>2, <1>8, KeepsBound DEF FrozenInv, Keeps
<1>9. WorkersBound'
  BY <1>6, <1>7, <1>8 DEF WorkersBound, Asleep
<1>10. QED
  BY <1>9 DEF FrozenInv

\* The key of a device does not depend on the step.
LEMMA KeyStays ==
  ASSUME NEW p \in StorySender, NEW d \in Handset, NEW shared, Served(p, d, shared)
  PROVE /\ DayFor(sender[p], d)' = DayFor(sender[p], d) /\ SlotFor(sender[p], d)' = SlotFor(sender[p], d)
BY DEF Served, Walks, DayFor, SlotFor

LEMMA FrozenPicks ==
  ASSUME PushTypes, FrozenInv, NEW p \in StorySender, NEW d \in Handset,
         PickOutside(p, d) \/ PickCached(p, d) \/ PickFrozen(p, d)
  PROVE FrozenInv'
<1>1. hour' = hour /\ campaign' = campaign /\ delivery' = delivery
  BY DEF PickOutside, PickCached, PickFrozen
<1>2. BoundsStay /\ CampaignsInv' /\ RowsBound'
  BY <1>1, SameCampaigns, SameRows, RowsStayBound DEF FrozenInv
<1>3. PICK day, slot : day = DayFor(sender[p], d) /\ slot = SlotFor(sender[p], d)
  OBVIOUS
<1>4. CASE PickOutside(p, d)
  <2>1. PICK shared : shared = {}
    OBVIOUS
  <2>2. Served(p, d, shared) /\ sender'[p].cache = sender[p].cache
    BY <1>4, <2>1, PickOutsideTypes
  <2>3. QED
    BY <1>2, <2>1, <2>2, FrozenServed
<1>5. CASE PickCached(p, d)
  <2>1. PICK e \in Cached(sender[p], d) : Served(p, d, e.shared) /\ sender'[p].cache = sender[p].cache
    BY <1>5, PickCachedTypes
  <2>2. PICK shared : shared = e.shared
    OBVIOUS
  <2>3. Served(p, d, shared)
    BY <2>1, <2>2
  <2>4. sender[p] # Asleep
    BY <2>3 DEF Served, Walks
  <2>5. \A s \in shared : Bound(day, slot, s)
    BY <1>3, <2>1, <2>2, <2>4 DEF Cached, FrozenInv, WorkersBound, CacheBound
  <2>6. \A s \in shared : Bound(day, slot, s)'
    BY <1>2, <2>5 DEF BoundsStay
  <2>7. \A s \in shared : Bound(DayFor(sender[p], d), SlotFor(sender[p], d), s)'
    BY <2>3, <2>6, <1>3, KeyStays
  <2>8. QED
    BY <1>2, <2>1, <2>3, <2>7, FrozenServed
<1>6. CASE PickFrozen(p, d)
  <2>1. PICK c \in Frozen(day, slot) :
          LET shared == {c.story} \cap sender[p].stories
          IN Served(p, d, shared) /\ sender'[p].cache = sender[p].cache \cup
               {[day |-> DayFor(sender[p], d), slot |-> SlotFor(sender[p], d), shared |-> shared]}
    BY <1>3, <1>6, PickFrozenTypes
  <2>2. PICK shared : shared = {c.story} \cap sender[p].stories
    OBVIOUS
  <2>3. Served(p, d, shared) /\ sender'[p].cache = sender[p].cache \cup
               {[day |-> DayFor(sender[p], d), slot |-> SlotFor(sender[p], d), shared |-> shared]}
    BY <2>1, <2>2
  <2>4. c \in campaign /\ c.day = day /\ c.slot = slot
    BY DEF Frozen
  <2>5. Bound(day, slot, c.story)
    BY <2>4 DEF Bound, FrozenInv, CampaignsInv, OneFrozen
  <2>6. \A s \in shared : Bound(day, slot, s)'
    BY <1>2, <2>2, <2>5 DEF BoundsStay
  <2>7. \A s \in shared : Bound(DayFor(sender[p], d), SlotFor(sender[p], d), s)'
    BY <2>3, <2>6, <1>3, KeyStays
  <2>8. QED
    BY <1>2, <2>3, <2>7, FrozenServed
<1>7. QED
  BY <1>4, <1>5, <1>6

\* A new campaign is of a window that has none, and that is not gone.
LEMMA FrozenFreeze ==
  ASSUME PushTypes, Timely, FrozenInv, NEW p \in StorySender, NEW d \in Handset, Freeze(p, d)
  PROVE FrozenInv'
<1>1. hour' = hour /\ delivery' = delivery
  BY DEF Freeze
<1>2. AtDevice(p, d) /\ Eligible(sender[p].row[d]) /\ InWindow(sender[p], d)
  BY DEF Freeze
<1>3. PICK day, slot : day = DayFor(sender[p], d) /\ slot = SlotFor(sender[p], d)
  OBVIOUS
<1>4. InKey(day, slot, sender[p].now) /\ ~Gone(day, slot)
  BY <1>2, <1>3, KeyNow
<1>5. PICK shared \in SUBSET Story :
          /\ Served(p, d, shared)
          /\ sender'[p].cache = sender[p].cache \cup
               {[day |-> DayFor(sender[p], d), slot |-> SlotFor(sender[p], d), shared |-> shared]}
          /\ \/ shared = {} /\ campaign' = campaign
             \/ \E s \in Story : shared = {s} /\ FreezesNow(p, d, s)
  BY FreezeTypes
<1>6. CASE shared = {} /\ campaign' = campaign
  <2>1. BoundsStay /\ CampaignsInv' /\ RowsBound'
    BY <1>1, <1>6, SameCampaigns, SameRows, RowsStayBound DEF FrozenInv
  <2>2. QED
    BY <1>5, <1>6, <2>1, FrozenServed
<1>7. ASSUME NEW s \in Story, shared = {s}, FreezesNow(p, d, s) PROVE FrozenInv'
  <2>1. PICK n : /\ campaign' = campaign \cup {n} /\ n.day = day /\ n.slot = slot /\ n.story = s
                 /\ n.at = sender[p].now /\ Frozen(day, slot) = {}
                 /\ \A e \in campaign : e.print = n.print => ~(e.at > n.at - Retention)
    BY <1>3, <1>7 DEF FreezesNow
  <2>2. \A c \in campaign : ~(c.day = day /\ c.slot = slot)
    BY <2>1 DEF Frozen
  <2>3. \A b, k, x : Bound(b, k, x) => ~(b = day /\ k = slot)
    BY <2>2, <1>4 DEF Bound
  <2>4. BoundsStay
    <3> SUFFICES ASSUME NEW b, NEW k, NEW x, Bound(b, k, x) PROVE Bound(b, k, x)'
      BY DEF BoundsStay
    <3>1. ~(b = day /\ k = slot)
      BY <2>3
    <3>2. \A c \in campaign' : c.day = b /\ c.slot = k => c.story = x
      BY <3>1, <2>1 DEF Bound
    <3>3. (\E c \in campaign' : c.day = b /\ c.slot = k) \/ Gone(b, k)
      BY <2>1 DEF Bound
    <3>4. Gone(b, k) => Gone(b, k)'
      BY <1>1 DEF Gone
    <3>5. QED
      BY <3>2, <3>3, <3>4 DEF Bound
  <2>5. CampaignsInTime'
    BY <2>1, <1>4 DEF FrozenInv, CampaignsInv, CampaignsInTime
  <2>6. OneFrozen'
    BY <2>1, <2>2 DEF FrozenInv, CampaignsInv, OneFrozen
  <2>7. PrintsOnce'
    <3>1. n.at \in Int /\ Retention \in Int /\ \A c \in campaign : c.at \in Int
      <4>1. sender[p].now \in Hour
        BY <1>2, KeyNow
      <4>2. n.at = sender[p].now
        BY <2>1
      <4>3. \A c \in campaign : c.at \in Int
        BY Dates
      <4>4. Hour \subseteq Int /\ Retention \in Int
        BY PushAssumption
      <4>5. n.at \in Int
        BY <4>1, <4>2, <4>4
      <4>6. QED
        BY <4>3, <4>4, <4>5
    <3>2. \A c \in campaign : c.print = n.print => n.at - c.at >= Retention
      BY <2>1, <3>1
    <3>3. QED
      BY <2>1, <3>2 DEF FrozenInv, CampaignsInv, PrintsOnce
  <2>8. CampaignsInv'
    BY <2>5, <2>6, <2>7 DEF CampaignsInv
  <2>9. RowsBound'
    BY <1>1, <2>4, SameRows, RowsStayBound DEF FrozenInv
  <2>10. Bound(day, slot, s)'
    BY <2>1, <2>2 DEF Bound
  <2>11. \A x \in shared : Bound(DayFor(sender[p], d), SlotFor(sender[p], d), x)'
    BY <1>3, <1>5, <1>7, <2>10, KeyStays
  <2>12. QED
    BY <1>5, <2>4, <2>8, <2>9, <2>11, FrozenServed
<1>8. QED
  BY <1>5, <1>6, <1>7

\* A shared delivery is of the window's story.
LEMMA FrozenReserve ==
  ASSUME PushTypes, FrozenInv, NEW p \in StorySender, NEW x \in Message, Reserve(p, x)
  PROVE FrozenInv'
<1>1. /\ sender[p].pc = "reserve" /\ sender[p] # Asleep
      /\ \A q \in StorySender : q # p => sender'[q] = sender[q]
      /\ sender'[p].now = sender[p].now /\ sender'[p].cache = sender[p].cache
      /\ sender'[p].row = sender[p].row /\ sender'[p].device = sender[p].device
      /\ sender'[p].sends \subseteq sender[p].sends
      /\ delivery' = delivery \/ Reserves(p, x)
  BY ReserveTypes
<1>2. hour' = hour /\ campaign' = campaign
  BY DEF Reserve
<1>3. BoundsStay /\ CampaignsInv'
  BY <1>2, SameCampaigns
<1>4. CASE delivery' = delivery
  BY <1>1, <1>3, <1>4, SameRows, RowsStayBound, FrozenQuiet DEF Keeps, FrozenInv
<1>5. CASE Reserves(p, x)
  <2>1. delivery' = delivery \cup {ReservedRow(p, x)} /\ x \in sender[p].sends
    BY <1>5 DEF Reserves
  <2>2. PICK day, slot : day = DayFor(sender[p], sender[p].device) /\ slot = SlotFor(sender[p], sender[p].device)
    OBVIOUS
  <2>3. ~x.flight => Bound(day, slot, x.story)
    BY <1>1, <2>1, <2>2 DEF FrozenInv, WorkersBound, SendsBound
  <2>4. PICK n : n = ReservedRow(p, x)
    OBVIOUS
  <2>5. n.slot >= 0 => n.day = day /\ n.slot = slot /\ n.story = x.story /\ ~x.flight
    BY <2>2, <2>4 DEF ReservedRow
  <2>6. n.slot >= 0 => Bound(n.day, n.slot, n.story)'
    BY <1>3, <2>3, <2>5 DEF BoundsStay
  <2>7. RowsBound'
    <3> SUFFICES ASSUME NEW r \in delivery', r.slot >= 0 PROVE Bound(r.day, r.slot, r.story)'
      BY DEF RowsBound
    <3>1. CASE r \in delivery
      BY <3>1, <1>3 DEF FrozenInv, RowsBound, BoundsStay
    <3>2. CASE r = n
      BY <3>2, <2>6
    <3>3. QED
      BY <2>1, <2>4, <3>1, <3>2
  <2>8. QED
    BY <1>1, <1>3, <2>7, FrozenQuiet DEF Keeps
<1>6. QED
  BY <1>1, <1>4, <1>5

LEMMA FrozenKept ==
  ASSUME PushTypes, Timely, FrozenInv, PushNext
  PROVE FrozenInv'
<1>0. FrozenInv => RowsBound
  BY DEF FrozenInv
<1>1. ASSUME UNCHANGED <<hour, campaign, delivery, sender>> PROVE FrozenInv'
  <2>1. BoundsStay /\ CampaignsInv' /\ RowsBound'
    BY <1>0, <1>1, SameCampaigns, SameRows, RowsStayBound
  <2>2. QED
    BY <1>1, <2>1, FrozenQuiet DEF Keeps
<1>2. ASSUME NEW d \in Handset, NEW u \in Reader, NEW k \in PushToken, NEW z \in Zone, NEW b \in BOOLEAN,
             RefreshToken(d, u, k, z, b)
      PROVE FrozenInv'
  BY <1>1, <1>2 DEF RefreshToken
<1>3. ASSUME NEW u \in Reader, ChangeAccess(u) PROVE FrozenInv'
  BY <1>1, <1>3 DEF ChangeAccess
<1>4. ASSUME NEW u \in Reader, DeleteReader(u) PROVE FrozenInv'
  <2>1. hour' = hour /\ campaign' = campaign /\ sender' = sender
    BY <1>4 DEF DeleteReader
  <2>2. RowsFrom
    BY <1>4, DeleteReaderTypes
  <2>3. BoundsStay /\ CampaignsInv' /\ RowsBound'
    BY <1>0, <2>1, <2>2, SameCampaigns, RowsStayBound
  <2>4. QED
    BY <2>1, <2>3, FrozenQuiet DEF Keeps
<1>5. ASSUME NEW p \in StorySender, StartSender(p) PROVE FrozenInv'
  <2>1. /\ sender'[p].cache = {} /\ sender'[p].sends = {}
        /\ \A q \in StorySender : q # p => sender'[q] = sender[q]
    BY <1>5, StartSenderTypes
  <2>2. hour' = hour /\ campaign' = campaign /\ delivery' = delivery
    BY <1>5 DEF StartSender
  <2>3. BoundsStay /\ CampaignsInv' /\ RowsBound'
    BY <1>0, <2>2, SameCampaigns, SameRows, RowsStayBound
  <2>4. CacheBound(sender[p])' /\ SendsBound(sender[p])'
    BY <2>1 DEF CacheBound, SendsBound
  <2>5. ASSUME NEW q \in StorySender, q # p, sender'[q] # Asleep PROVE CacheBound(sender[q])' /\ SendsBound(sender[q])'
    BY <2>1, <2>3, <2>5, KeepsBound DEF FrozenInv, Keeps
  <2>6. WorkersBound'
    BY <2>4, <2>5 DEF WorkersBound, Asleep
  <2>7. QED
    BY <2>3, <2>6 DEF FrozenInv
<1>6. ASSUME NEW p \in StorySender, Recheck(p) \/ RecordOutcome(p) PROVE FrozenInv'
  <2>1. /\ RowsFrom /\ sender[p] # Asleep
        /\ \A q \in StorySender : q # p => sender'[q] = sender[q]
        /\ sender'[p].now = sender[p].now /\ sender'[p].cache = sender[p].cache
        /\ sender'[p].row = sender[p].row /\ sender'[p].device = sender[p].device
        /\ sender'[p].sends \subseteq sender[p].sends
    BY <1>6, RecheckTypes, RecordOutcomeTypes DEF Walks
  <2>2. hour' = hour /\ campaign' = campaign
    BY <1>6 DEF Recheck, RecordOutcome
  <2>3. BoundsStay /\ CampaignsInv' /\ RowsBound'
    BY <1>0, <2>1, <2>2, SameCampaigns, RowsStayBound
  <2>4. QED
    BY <2>1, <2>3, FrozenQuiet DEF Keeps
<1>7. ASSUME NEW p \in StorySender, SendStory(p) PROVE FrozenInv'
  <2>1. /\ sender[p].pc = "send"
        /\ \A q \in StorySender : q # p => sender'[q] = sender[q]
        /\ sender'[p].now = sender[p].now /\ sender'[p].cache = sender[p].cache
        /\ sender'[p].row = sender[p].row /\ sender'[p].device = sender[p].device
        /\ sender'[p].sends = sender[p].sends
    BY <1>7, SendStoryTypes
  <2>2. sender[p] # Asleep
    BY <2>1, AtDeviceNow
  <2>3. hour' = hour /\ campaign' = campaign /\ delivery' = delivery
    BY <1>7 DEF SendStory
  <2>4. BoundsStay /\ CampaignsInv' /\ RowsBound'
    BY <1>0, <2>3, SameCampaigns, SameRows, RowsStayBound
  <2>5. QED
    BY <2>1, <2>2, <2>4, FrozenQuiet DEF Keeps
<1>8. ASSUME NEW p \in StorySender, KillSender(p) PROVE FrozenInv'
  <2>1. sender'[p] = Asleep /\ \A q \in StorySender : q # p => sender'[q] = sender[q]
    BY <1>8, KillTypes
  <2>2. hour' = hour /\ campaign' = campaign /\ delivery' = delivery
    BY <1>8 DEF KillSender
  <2>3. BoundsStay /\ CampaignsInv' /\ RowsBound'
    BY <1>0, <2>2, SameCampaigns, SameRows, RowsStayBound
  <2>4. QED
    BY <2>1, <2>3, FrozenQuiet DEF Keeps
<1>9. ASSUME NEW p \in StorySender, NEW d \in Handset, PassOver(p, d) PROVE FrozenInv'
  <2>1. /\ Walks(p) /\ sender'[p].cache = sender[p].cache /\ sender'[p].sends = sender[p].sends
        /\ sender'[p].row = sender[p].row /\ sender'[p].device = sender[p].device
    BY <1>9, PassOverTypes
  <2>2. hour' = hour /\ campaign' = campaign /\ delivery' = delivery
    BY <1>9 DEF PassOver
  <2>3. BoundsStay /\ CampaignsInv' /\ RowsBound'
    BY <1>0, <2>2, SameCampaigns, SameRows, RowsStayBound
  <2>4. QED
    BY <2>1, <2>3, FrozenQuiet DEF Keeps, Walks
<1>10. QED
  <2>1. \A s \in Story, extra \in BOOLEAN : [story |-> s, flight |-> extra] \in Message
    BY DEF Message
  <2>2. QED
    BY <1>2, <1>3, <1>4, <1>5, <1>6, <1>7, <1>8, <1>9, <2>1, FrozenLater, FrozenEndRun, FrozenPicks, FrozenFreeze,
       FrozenReserve DEF PushNext

LEMMA InitFrozen == PushInit => FrozenInv
BY DEF PushInit, FrozenInv, CampaignsInv, CampaignsInTime, OneFrozen, PrintsOnce, RowsBound, WorkersBound

LEMMA FrozenAlways == PushSpec => []FrozenInv
<1>1. PushTypes /\ Timely /\ FrozenInv /\ [PushNext]_pushVars => FrozenInv'
  <2>1. ASSUME FrozenInv, UNCHANGED pushVars PROVE FrozenInv'
    <3>1. hour' = hour /\ campaign' = campaign /\ delivery' = delivery /\ sender' = sender
      BY <2>1 DEF pushVars
    <3>2. BoundsStay /\ CampaignsInv' /\ RowsBound'
      BY <2>1, <3>1, SameCampaigns, SameRows, RowsStayBound DEF FrozenInv
    <3>3. QED
      BY <2>1, <3>1, <3>2, FrozenQuiet DEF Keeps
  <2>2. QED
    BY <2>1, FrozenKept
<1> QED
  BY <1>1, InitFrozen, PushAlways, PTL DEF PushSpec

\* Of a day and window everybody gets one story, and no transmission is frozen twice
\* in the retention: campaign_for.
THEOREM OneStoryCorrect == PushSpec => []OneStoryPerWindow
BY FrozenAlways, FrozenGives, PTL

-----------------------------------------------------------------------------
(* The distance of campaigns. *)

SlotsIn(rows) == {<<r.day, r.slot>> : r \in rows}
SharedWith(u) == {r \in delivery : r.user = u /\ r.slot >= 0}

\* Of the rows of an account: those of the last day, and of a day less what a run takes.
LatestOf(S, m) == m \in S /\ \A x \in S : x.at <= m.at
DayBefore(S, t) == {x \in S : x.at > t - 24}
ShortDay(S, t) == {x \in S : x.at <= t /\ x.at > t - 24 + RunSpan}

Few(S) == \A m \in S : LatestOf(S, m) => Cardinality(SlotsIn(DayBefore(S, m.at))) <= 3

Spread(S) ==
  /\ \A r, q \in S : <<r.day, r.slot>> # <<q.day, q.slot>> => r.at - q.at >= 3 \/ q.at - r.at >= 3
  /\ \A r \in S : Cardinality(SlotsIn(ShortDay(S, r.at))) <= 3

SpacedInv ==
  /\ IsFiniteSet(SlotsIn(delivery))
  /\ \A u \in reader : Few(SharedWith(u)) /\ Spread(SharedWith(u))

LEMMA SpacedGives == SpacedInv => CampaignsSpaced
BY DEF SpacedInv, CampaignsSpaced, Spread, SharedWith, SlotsIn, ShortDay

\* Slots of fewer rows.
LEMMA FewerSlots ==
  ASSUME NEW S, NEW T, IsFiniteSet(SlotsIn(S)), \A x \in T : \E y \in S : x.day = y.day /\ x.slot = y.slot
  PROVE /\ IsFiniteSet(SlotsIn(T)) /\ Cardinality(SlotsIn(T)) <= Cardinality(SlotsIn(S))
        /\ Cardinality(SlotsIn(T)) \in Nat /\ Cardinality(SlotsIn(S)) \in Nat
        /\ SlotsIn(T) \subseteq SlotsIn(S)
<1>1. SlotsIn(T) \in SUBSET SlotsIn(S)
  BY DEF SlotsIn
<1>2. QED
  BY <1>1, FS_Subset, FS_CardinalityType

\* There is a latest row.
LEMMA SomeLatest ==
  ASSUME NEW S, S # {}, NEW now \in Int, \A x \in S : x.at \in Int /\ x.at <= now
  PROVE \E m \in S : LatestOf(S, m)
<1> DEFINE ages == {now - x.at : x \in S}
<1>1. ages \subseteq Nat /\ ages # {}
  OBVIOUS
<1>2. PICK a \in ages : \A b \in ages : ~(b < a)
  <2>1. IsWellFoundedOn(OpToRel(<, Nat), Nat)
    BY NatLessThanWellFounded
  <2>2. PICK a \in ages : \A b \in ages : ~(<<b, a>> \in OpToRel(<, Nat))
    BY <1>1, <2>1, WFMin
  <2>3. QED
    BY <2>2, <1>1 DEF OpToRel
<1>3. PICK m \in S : a = now - m.at
  OBVIOUS
<1>4. ASSUME NEW x \in S PROVE x.at <= m.at
  <2>1. ~(now - x.at < now - m.at)
    BY <1>2, <1>3
  <2>2. x.at \in Int /\ m.at \in Int
    OBVIOUS
  <2>3. QED
    BY <2>1, <2>2
<1>5. QED
  BY <1>4 DEF LatestOf

\* Rows that are the rows of S, the oldest of which may be missing.
LEMMA FewerRows ==
  ASSUME NEW S, NEW T, IsFiniteSet(SlotsIn(S)), Few(S), Spread(S), \A x \in S : x.at \in Int,
         \A x \in T : \E y \in S : SameRow(x, y),
         \A y \in S : (\E x \in T : SameRow(x, y)) \/ \A x \in T : y.at <= x.at
  PROVE Few(T) /\ Spread(T)
<1>1. ASSUME NEW m \in T, LatestOf(T, m) PROVE Cardinality(SlotsIn(DayBefore(T, m.at))) <= 3
  <2>1. PICK k \in S : SameRow(m, k)
    OBVIOUS
  <2>2. \A y \in S : y.at <= k.at
    BY <1>1, <2>1 DEF LatestOf, SameRow
  <2>3. Cardinality(SlotsIn(DayBefore(S, k.at))) <= 3
    BY <2>2 DEF Few, LatestOf
  <2>4. IsFiniteSet(SlotsIn(DayBefore(S, k.at)))
    BY FewerSlots DEF DayBefore
  <2>5. \A x \in DayBefore(T, m.at) : \E y \in DayBefore(S, k.at) : x.day = y.day /\ x.slot = y.slot
    BY <2>1 DEF DayBefore, SameRow
  <2>6. QED
    BY <2>3, <2>4, <2>5, FewerSlots
<1>2. ASSUME NEW r \in T PROVE Cardinality(SlotsIn(ShortDay(T, r.at))) <= 3
  <2>1. PICK k \in S : SameRow(r, k)
    OBVIOUS
  <2>2. Cardinality(SlotsIn(ShortDay(S, k.at))) <= 3
    BY DEF Spread
  <2>3. IsFiniteSet(SlotsIn(ShortDay(S, k.at)))
    BY FewerSlots DEF ShortDay
  <2>4. \A x \in ShortDay(T, r.at) : \E y \in ShortDay(S, k.at) : x.day = y.day /\ x.slot = y.slot
    BY <2>1 DEF ShortDay, SameRow
  <2>5. QED
    BY <2>2, <2>3, <2>4, FewerSlots
<1>3. ASSUME NEW r \in T, NEW q \in T, <<r.day, r.slot>> # <<q.day, q.slot>>
      PROVE r.at - q.at >= 3 \/ q.at - r.at >= 3
  <2>1. PICK k \in S : SameRow(r, k)
    OBVIOUS
  <2>2. PICK l \in S : SameRow(q, l)
    OBVIOUS
  <2>3. QED
    BY <1>3, <2>1, <2>2 DEF Spread, SameRow
<1>4. QED
  BY <1>1, <1>2, <1>3 DEF Few, Spread

\* A row more, as MayShare lets it in, which is as old as a run at most.
LEMMA RowMore ==
  ASSUME NEW S, NEW n, NEW now \in Int, IsFiniteSet(SlotsIn(S)), Few(S), Spread(S),
         \A x \in S : x.at \in Int /\ x.at <= now, n.at \in Int, n.at <= now, now <= n.at + RunSpan,
         \/ Cardinality(SlotsIn(DayBefore(S, n.at))) < 3
         \/ <<n.day, n.slot>> \in SlotsIn(DayBefore(S, n.at)),
         \A x \in DayBefore(S, n.at) : <<x.day, x.slot>> # <<n.day, n.slot>> => n.at - x.at >= 3
  PROVE Few(S \cup {n}) /\ Spread(S \cup {n})
<1> DEFINE T == S \cup {n}
           key == <<n.day, n.slot>>
<1>0. RunSpan \in Int
  BY PushAssumption
<1>1. ASSUME NEW x \in S, <<x.day, x.slot>> # key PROVE n.at - x.at >= 3
  <2>1. CASE x \in DayBefore(S, n.at)
    BY <1>1, <2>1
  <2>2. CASE x \notin DayBefore(S, n.at)
    BY <2>2 DEF DayBefore
  <2>3. QED
    BY <2>1, <2>2
<1>2. \A R : R \subseteq S => IsFiniteSet(SlotsIn(R)) /\ Cardinality(SlotsIn(R)) \in Nat
  BY FewerSlots
<1>3. SlotsIn(DayBefore(S, n.at)) \subseteq SlotsIn(S) /\ DayBefore(S, n.at) \subseteq S
  BY DEF SlotsIn, DayBefore
<1>4. ASSUME \A x \in S : x.at <= n.at PROVE Cardinality(SlotsIn(DayBefore(T, n.at))) <= 3
  <2> DEFINE old == SlotsIn(DayBefore(S, n.at))
  <2>1. SlotsIn(DayBefore(T, n.at)) = old \cup {key}
    BY DEF SlotsIn, DayBefore
  <2>2. IsFiniteSet(old) /\ Cardinality(old) \in Nat
    BY <1>2, <1>3
  <2>3. CASE key \notin old
    <3>1. Cardinality(old) < 3
      BY <2>3
    <3> HIDE DEF old, key
    <3>2. Cardinality(old \cup {key}) = Cardinality(old) + 1
      BY <2>2, <2>3, FS_AddElement
    <3>3. Cardinality(old \cup {key}) <= 3
      BY <2>2, <3>1, <3>2
    <3> HIDE DEF T
    <3>4. QED
      BY <2>1, <3>3
  <2>4. CASE key \in old
    <3>1. S # {}
      BY <2>4 DEF SlotsIn, DayBefore
    <3>2. PICK m \in S : LatestOf(S, m)
      BY <3>1, SomeLatest
    <3>3. Cardinality(SlotsIn(DayBefore(S, m.at))) <= 3
      BY <3>2 DEF Few
    <3>4. \A x \in DayBefore(S, n.at) : x \in DayBefore(S, m.at)
      BY <1>4 DEF DayBefore
    <3>5. IsFiniteSet(SlotsIn(DayBefore(S, m.at)))
      BY <1>2 DEF DayBefore
    <3>6. Cardinality(old) <= Cardinality(SlotsIn(DayBefore(S, m.at))) /\ Cardinality(SlotsIn(DayBefore(S, m.at))) \in Nat
      BY <3>4, <3>5, FewerSlots
    <3>7. SlotsIn(DayBefore(T, n.at)) = old
      BY <2>1, <2>4
    <3> HIDE DEF old
    <3>8. QED
      BY <2>2, <3>3, <3>6, <3>7
  <2>5. QED
    BY <2>3, <2>4
<1>5. ASSUME NEW m \in S, LatestOf(S, m), m.at > n.at PROVE Cardinality(SlotsIn(DayBefore(T, m.at))) <= 3
  <2>1. <<m.day, m.slot>> = key
    BY <1>1, <1>5
  <2>2. m \in DayBefore(S, m.at)
    BY DEF DayBefore
  <2>3. \A x \in DayBefore(T, m.at) : \E y \in DayBefore(S, m.at) : x.day = y.day /\ x.slot = y.slot
    BY <2>1, <2>2 DEF DayBefore
  <2>4. IsFiniteSet(SlotsIn(DayBefore(S, m.at))) /\ Cardinality(SlotsIn(DayBefore(S, m.at))) <= 3
    BY <1>2, <1>5 DEF DayBefore, Few
  <2>5. QED
    BY <2>3, <2>4, FewerSlots
<1>6. ASSUME NEW m \in T, LatestOf(T, m)
      PROVE Cardinality(SlotsIn(DayBefore(T, m.at))) <= 3 /\ m.at \in Int /\ m.at >= n.at /\ m.at <= now
  <2>0. m.at \in Int /\ m.at >= n.at /\ m.at <= now
    BY <1>6 DEF LatestOf
  <2>1. CASE m.at = n.at
    BY <2>0, <2>1, <1>4, <1>6 DEF LatestOf
  <2>2. CASE m.at # n.at
    BY <2>0, <2>2, <1>5, <1>6 DEF LatestOf
  <2>3. QED
    BY <2>0, <2>1, <2>2
<1>7. PICK m \in T : LatestOf(T, m)
  <2>1. T # {} /\ \A x \in T : x.at \in Int /\ x.at <= now
    OBVIOUS
  <2> HIDE DEF T
  <2>2. QED
    BY <2>1, SomeLatest
<1>8. Few(T)
  BY <1>6 DEF Few
<1>9. IsFiniteSet(SlotsIn(T))
  <2>1. SlotsIn(T) = SlotsIn(S) \cup {key}
    BY DEF SlotsIn
  <2> HIDE DEF T, key
  <2>2. QED
    BY <2>1, FS_AddElement
<1>10. ASSUME NEW r \in T PROVE Cardinality(SlotsIn(ShortDay(T, r.at))) <= 3
  <2>0. r.at \in Int
    OBVIOUS
  <2>1. CASE r.at < n.at
    <3>1. r \in S
      BY <2>1
    <3>2. ShortDay(T, r.at) = ShortDay(S, r.at)
      BY <2>0, <2>1 DEF ShortDay
    <3>3. QED
      BY <3>1, <3>2 DEF Spread
  <2>2. CASE r.at >= n.at
    <3>1. m.at <= r.at + RunSpan /\ m.at \in Int
      BY <1>0, <1>6, <1>7, <2>0, <2>2
    <3>2. ShortDay(T, r.at) \subseteq DayBefore(T, m.at)
      <4> SUFFICES ASSUME NEW x \in T, x.at > r.at - 24 + RunSpan PROVE x.at > m.at - 24
        BY DEF ShortDay, DayBefore
      <4>1. x.at \in Int
        OBVIOUS
      <4>2. QED
        BY <1>0, <2>0, <3>1, <4>1
    <3>3. IsFiniteSet(SlotsIn(DayBefore(T, m.at)))
      <4>1. \A x \in DayBefore(T, m.at) : \E y \in T : x.day = y.day /\ x.slot = y.slot
        BY DEF DayBefore
      <4> HIDE DEF T
      <4>2. QED
        BY <1>9, <4>1, FewerSlots
    <3>4. Cardinality(SlotsIn(DayBefore(T, m.at))) <= 3
      BY <1>6, <1>7
    <3> HIDE DEF T
    <3>5. \A x \in ShortDay(T, r.at) : \E y \in DayBefore(T, m.at) : x.day = y.day /\ x.slot = y.slot
      BY <3>2
    <3>6. QED
      BY <3>3, <3>4, <3>5, FewerSlots
  <2>3. QED
    BY <2>0, <2>1, <2>2
<1>11. ASSUME NEW r \in T, NEW q \in T, <<r.day, r.slot>> # <<q.day, q.slot>>
       PROVE r.at - q.at >= 3 \/ q.at - r.at >= 3
  <2>1. CASE r \in S /\ q \in S
    BY <1>11, <2>1 DEF Spread
  <2>2. CASE r = n /\ q \in S
    BY <1>1, <1>11, <2>2
  <2>3. CASE q = n /\ r \in S
    BY <1>1, <1>11, <2>3
  <2>4. QED
    BY <1>11, <2>1, <2>2, <2>3
<1>12. QED
  BY <1>8, <1>10, <1>11 DEF Spread

\* The rows are those that were there, and what is missing is the account's or the oldest.
OldestGo ==
  \A q \in delivery : q.user \in reader' =>
    (\E r \in delivery' : SameRow(r, q)) \/ \A r \in delivery' : q.at <= r.at

LEMMA SpacedFewer ==
  ASSUME PushTypes, SpacedInv, reader' \subseteq reader, RowsFrom, OldestGo
  PROVE SpacedInv'
<1>1. IsFiniteSet(SlotsIn(delivery'))
  <2>1. \A x \in delivery' : \E y \in delivery : x.day = y.day /\ x.slot = y.slot
    BY DEF RowsFrom, SameRow
  <2>2. PICK old, new : old = delivery /\ new = delivery'
    OBVIOUS
  <2>3. QED
    BY <2>1, <2>2, FewerSlots DEF SpacedInv
<1>2. ASSUME NEW u \in reader' PROVE Few(SharedWith(u)') /\ Spread(SharedWith(u)')
  <2>1. PICK S, T : S = SharedWith(u) /\ T = SharedWith(u)'
    OBVIOUS
  <2>2. Few(S) /\ Spread(S)
    BY <2>1 DEF SpacedInv
  <2>3. \A x \in T : \E y \in S : SameRow(x, y)
    BY <2>1 DEF SharedWith, RowsFrom, SameRow
  <2>4. \A y \in S : (\E x \in T : SameRow(x, y)) \/ \A x \in T : y.at <= x.at
    BY <2>1 DEF SharedWith, OldestGo, SameRow
  <2>5. IsFiniteSet(SlotsIn(S))
    <3>1. \A x \in S : \E y \in delivery : x.day = y.day /\ x.slot = y.slot
      BY <2>1 DEF SharedWith
    <3>2. QED
      BY <3>1, FewerSlots DEF SpacedInv
  <2>6. \A x \in S : x.at \in Int
    BY <2>1, Dates DEF SharedWith
  <2>7. Few(T) /\ Spread(T)
    BY <2>2, <2>3, <2>4, <2>5, <2>6, FewerRows
  <2>8. QED
    BY <2>1, <2>7
<1>3. QED
  BY <1>1, <1>2 DEF SpacedInv

LEMMA SpacedReserve ==
  ASSUME PushTypes, Timely, SpacedInv, NEW p \in StorySender, NEW x \in Message, Reserve(p, x), Reserves(p, x)
  PROVE SpacedInv'
<1>1. /\ sender[p] # Asleep /\ sender[p].pc = "reserve"
  BY ReserveTypes
<1>2. reader' = reader
  BY DEF Reserve
<1>3. PICK n \in PushRow : n = ReservedRow(p, x)
  BY DEF Reserves
<1>4. delivery' = delivery \cup {n} /\ RowAllowed(n) /\ n.at = sender[p].now
  BY <1>3 DEF Reserves, ReservedRow
<1>5. /\ n.at \in Int /\ hour \in Int /\ n.at <= hour /\ hour <= n.at + RunSpan
  BY <1>1, <1>4, Awake, Dates DEF Timely
<1>6. IsFiniteSet(SlotsIn(delivery'))
  <2>1. SlotsIn(delivery') = SlotsIn(delivery) \cup {<<n.day, n.slot>>}
    BY <1>4 DEF SlotsIn
  <2>2. PICK old : old = SlotsIn(delivery)
    OBVIOUS
  <2>3. IsFiniteSet(old \cup {<<n.day, n.slot>>})
    BY <2>2, FS_AddElement DEF SpacedInv
  <2>4. QED
    BY <2>1, <2>2, <2>3
<1>7. ASSUME NEW u \in reader PROVE Few(SharedWith(u)') /\ Spread(SharedWith(u)')
  <2>1. CASE u # n.user \/ ~(n.slot >= 0)
    <3>1. SharedWith(u)' = SharedWith(u)
      BY <2>1, <1>4 DEF SharedWith
    <3>2. QED
      BY <3>1 DEF SpacedInv
  <2>2. CASE u = n.user /\ n.slot >= 0
    <3>1. PICK S : S = SharedWith(u)
      OBVIOUS
    <3>2. SharedWith(u)' = S \cup {n}
      BY <2>2, <3>1, <1>4 DEF SharedWith
    <3>3. Few(S) /\ Spread(S)
      BY <3>1 DEF SpacedInv
    <3>4. \A y \in S : y.at \in Int /\ y.at <= hour
      BY <3>1, Dates DEF SharedWith, Timely
    <3>5. IsFiniteSet(SlotsIn(S))
      <4>1. \A y \in S : \E z \in delivery : y.day = z.day /\ y.slot = z.slot
        BY <3>1 DEF SharedWith
      <4>2. QED
        BY <4>1, FewerSlots DEF SpacedInv
    <3> DEFINE history == {r \in delivery : r.user = n.user /\ r.at > n.at - Retention}
    <3>6. Recent(history, n.at) = DayBefore(S, n.at)
      <4>1. \A r \in delivery : r.at > n.at - 24 => r.at > n.at - Retention
        BY <1>5, Dates, PushAssumption
      <4>2. QED
        BY <2>2, <3>1, <4>1 DEF Recent, DayBefore, SharedWith
    <3>7. MayShare(history, n.day, n.slot, n.story, n.at)
      BY <1>4, <2>2 DEF RowAllowed
    <3> HIDE DEF history
    <3>8. /\ \/ Cardinality(SlotsIn(DayBefore(S, n.at))) < 3
             \/ <<n.day, n.slot>> \in SlotsIn(DayBefore(S, n.at))
          /\ \A y \in DayBefore(S, n.at) : <<y.day, y.slot>> # <<n.day, n.slot>> => n.at - y.at >= 3
      BY <3>6, <3>7 DEF MayShare, SlotsIn
    <3>9. PICK now \in Int : now = hour
      BY <1>5
    <3>10. Few(S \cup {n}) /\ Spread(S \cup {n})
      BY <1>5, <3>3, <3>4, <3>5, <3>8, <3>9, RowMore
    <3>11. QED
      BY <3>2, <3>10
  <2>3. QED
    BY <2>1, <2>2
<1>8. QED
  BY <1>2, <1>6, <1>7 DEF SpacedInv

LEMMA SpacedKept ==
  ASSUME PushTypes, Timely, SpacedInv, PushNext
  PROVE SpacedInv'
<1>1. ASSUME UNCHANGED <<reader, delivery>> PROVE SpacedInv'
  BY <1>1 DEF SpacedInv, SharedWith
<1>2. ASSUME reader' \subseteq reader, RowsFrom, \A q \in delivery : q.user \in reader' => \E r \in delivery' : SameRow(r, q)
      PROVE SpacedInv'
  BY <1>2, SpacedFewer DEF OldestGo
<1>3. ASSUME NEW u \in Reader, DeleteReader(u) PROVE SpacedInv'
  <2>1. reader' = reader \ {u} /\ delivery' = {r \in delivery : r.user # u}
    BY <1>3 DEF DeleteReader
  <2>2. \A q \in delivery : SameRow(q, q)
    BY DEF SameRow
  <2>3. QED
    BY <2>1, <2>2, <1>2 DEF RowsFrom
<1>4. ASSUME NEW p \in StorySender, EndRun(p) PROVE SpacedInv'
  <2>1. reader' = reader /\ delivery' = {r \in delivery : r.at >= sender[p].now - Retention} /\ sender[p] # Asleep
    BY <1>4 DEF EndRun, Asleep
  <2>2. \A q \in delivery : SameRow(q, q) /\ q.at \in Int
    BY Dates DEF SameRow
  <2>3. sender[p].now - Retention \in Int
    BY <2>1, Awake, PushAssumption
  <2>4. OldestGo
    BY <2>1, <2>2, <2>3 DEF OldestGo
  <2>5. QED
    BY <2>1, <2>2, <2>4, SpacedFewer DEF RowsFrom
<1>5. ASSUME NEW p \in StorySender, Recheck(p) PROVE SpacedInv'
  <2>1. RowsFrom /\ RowsKept
    BY <1>5, RecheckTypes
  <2>2. reader' = reader
    BY <1>5 DEF Recheck
  <2>3. QED
    BY <2>1, <2>2, <1>2 DEF RowsKept
<1>6. ASSUME NEW p \in StorySender, RecordOutcome(p) PROVE SpacedInv'
  <2>1. RowsFrom /\ RowsKept
    BY <1>6, RecordOutcomeTypes
  <2>2. reader' = reader
    BY <1>6 DEF RecordOutcome
  <2>3. QED
    BY <2>1, <2>2, <1>2 DEF RowsKept
<1>7. ASSUME NEW p \in StorySender, NEW x \in Message, Reserve(p, x) PROVE SpacedInv'
  <2>1. reader' = reader
    BY <1>7 DEF Reserve
  <2>2. delivery' = delivery \/ Reserves(p, x)
    BY <1>7, ReserveTypes
  <2>3. QED
    BY <1>1, <1>7, <2>1, <2>2, SpacedReserve
<1>8. QED
  <2>1. \A s \in Story, extra \in BOOLEAN : [story |-> s, flight |-> extra] \in Message
    BY DEF Message
  <2>2. ASSUME NEW d \in Handset, NEW u \in Reader, NEW k \in PushToken, NEW z \in Zone, NEW b \in BOOLEAN,
             RefreshToken(d, u, k, z, b)
        PROVE SpacedInv'
    BY <1>1, <2>2 DEF RefreshToken
  <2>3. ASSUME NEW u \in Reader, ChangeAccess(u) PROVE SpacedInv'
    BY <1>1, <2>3 DEF ChangeAccess
  <2>4. ASSUME Later PROVE SpacedInv'
    BY <1>1, <2>4 DEF Later
  <2>5. ASSUME NEW p \in StorySender, StartSender(p) \/ SendStory(p) \/ KillSender(p) PROVE SpacedInv'
    BY <1>1, <2>5 DEF StartSender, SendStory, KillSender
  <2>6. ASSUME NEW p \in StorySender, NEW d \in Handset,
               PassOver(p, d) \/ PickOutside(p, d) \/ PickCached(p, d) \/ PickFrozen(p, d) \/ Freeze(p, d)
        PROVE SpacedInv'
    BY <1>1, <2>6 DEF PassOver, PickOutside, PickCached, PickFrozen, Freeze
  <2>7. QED
    BY <1>3, <1>4, <1>5, <1>6, <1>7, <2>1, <2>2, <2>3, <2>4, <2>5, <2>6 DEF PushNext

LEMMA InitSpaced == PushInit => SpacedInv
<1> SUFFICES ASSUME PushInit PROVE SpacedInv
  OBVIOUS
<1>1. SlotsIn(delivery) = {} /\ \A u : SharedWith(u) = {}
  BY DEF PushInit, SlotsIn, SharedWith
<1>2. IsFiniteSet(SlotsIn(delivery))
  BY <1>1, FS_EmptySet
<1>3. \A u : Few(SharedWith(u)) /\ Spread(SharedWith(u))
  BY <1>1 DEF Few, Spread
<1>4. QED
  BY <1>2, <1>3 DEF SpacedInv

LEMMA SpacedAlways == PushSpec => []SpacedInv
<1>1. PushTypes /\ Timely /\ SpacedInv /\ [PushNext]_pushVars => SpacedInv'
  <2>1. ASSUME SpacedInv, UNCHANGED pushVars PROVE SpacedInv'
    BY <2>1 DEF SpacedInv, SharedWith, pushVars
  <2>2. QED
    BY <2>1, SpacedKept
<1> QED
  BY <1>1, InitSpaced, PushAlways, PTL DEF PushSpec

\* An account's campaigns keep their distance, though workers overlap and devices change
\* their zone: reserve.
THEOREM SpacedCorrect == PushSpec => []CampaignsSpaced
BY SpacedAlways, SpacedGives, PTL
=============================================================================
