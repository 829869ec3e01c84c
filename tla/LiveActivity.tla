---------------------------- MODULE LiveActivity ----------------------------
(***************************************************************************)
(* Delivery of ActivityKit (Live Activity) updates.                        *)
(*                                                                         *)
(* The table live_activity_registration is shared by the API workers and   *)
(* the fetcher.  The app registers, rotates and unregisters update tokens  *)
(* (routers/users.py); every webhook snapshot, every registration and the  *)
(* fetcher's one-minute reconcile loop run                                 *)
(* LiveActivityService.send_updates_for_flight, so several senders may be  *)
(* at work on one activity.  A sender reads the flight and the rows,       *)
(* reserves a timestamp per row in a transaction of its own, talks to APNs *)
(* and at last writes the outcome, on condition that nothing changed.      *)
(*                                                                         *)
(* A transaction of SQLite is one step; everything between two             *)
(* transactions of one process interleaves with the other processes.       *)
(***************************************************************************)
EXTENDS Naturals, Common

CONSTANTS
  Activity,   \* ActivityKit activity ids, the primary key of the table
  Device,     \* devices, each owned by one user
  Flight,     \* flight ids
  Token,      \* ActivityKit push tokens
  Prefs,      \* pairs (apns_environment, uses_12_hour_time)
  Data,       \* what a flight row says: status, gate, times
  Terminal,   \* the Data whose status is in TERMINAL_STATUSES
  Worker,     \* background tasks of the API workers
  Fetcher,    \* the reconcile loop of the fetcher service
  Handler,    \* concurrent PUT /me/live-activities requests
  MaxAttempts,\* attempts of send_one (3 in the code)
  MaxNow,     \* clock readings are 1..MaxNow, in any order
  Budget      \* how often each kind of outside event may happen

Sender == Worker \cup {Fetcher}

\* The outside events Budget bounds: webhook snapshots, app requests, runs of
\* the API workers' background tasks, and faults of APNs or of a process.
Event == {"webhook", "request", "run", "fault"}

ASSUME LiveActivityAssumption ==
  /\ Terminal \subseteq Data
  /\ Fetcher \notin Worker
  /\ MaxAttempts \in Nat \ {0}
  /\ MaxNow \in Nat \ {0}
  /\ Budget \in [Event -> Nat]

VARIABLES
  flight,     \* the committed state of every flight
  linked,     \* UserFlightLink, as pairs <<device, flight>> of the device's owner
  reg,        \* live_activity_registration: the row of an activity, or None
  startState, \* state of live_activity_push_to_start_delivery per device and flight
  pc,         \* where each sender is
  seen,       \* the flight (id, data) a sender has read
  todo,       \* per sender: the copies of rows it has still to look at
  sent,       \* per sender: the delivery it made for an activity
  round,      \* the fetcher: flights left in this pass of the loop
  hdl,        \* the registration requests in progress
  valid,      \* (APNs) tokens that are still valid
  newest,     \* (APNs) the accepted message with the greatest timestamp
  left        \* what is left of Budget

appVars    == <<linked, reg, startState, hdl>>
senderVars == <<pc, seen, todo, sent, round>>
vars == <<flight, appVars, senderVars, valid, newest, left>>

Content == [flight_id : Flight, data : Data, prefs : Prefs]

Row == [device_id : Device, push_token : Token, flight_id : Flight,
        prefs : Prefs, active : BOOLEAN, last_apns_timestamp : Nat,
        last_content_state_json : Content \cup {None}]

\* A missing row is not a row.
ASSUME NoneAssumption == None \notin Row

Result == {"none", "success", "invalid", "failed"}

Delivery == [push_token : Token, timestamp : Nat \ {0}, content : Content,
             attempts : Nat, result : Result]

Request == [activity_id : Activity, device_id : Device, flight_id : Flight,
            push_token : Token, prefs : Prefs]

\* make_content_state: the payload of a flight for a row's preferences.
MakeContentState(f, data, prefs) == [flight_id |-> f, data |-> data, prefs |-> prefs]

\* make_live_activity_payload: the event is "end" iff the status is terminal.
IsEnd(content) == content.data \in Terminal

IsActive(a) == reg[a] # None /\ reg[a].active

Spend(e) == left[e] > 0 /\ left' = [left EXCEPT ![e] = @ - 1]

Init ==
  /\ flight \in [Flight -> Data]
  /\ linked \in SUBSET (Device \X Flight)
  /\ reg = [a \in Activity |-> None]
  /\ startState \in [Device \X Flight -> {"absent", "delivered"}]
  /\ pc = [s \in Sender |-> "idle"]
  /\ seen = [s \in Sender |-> None]
  /\ todo = [s \in Sender |-> [a \in Activity |-> None]]
  /\ sent = [s \in Sender |-> [a \in Activity |-> None]]
  /\ round = {}
  /\ hdl = [h \in Handler |-> [pc |-> "idle"]]
  /\ valid = Token
  /\ newest = [a \in Activity |-> [timestamp |-> 0, content |-> None]]
  /\ left = Budget

-----------------------------------------------------------------------------
(* The app and the webhook. *)

\* A webhook snapshot (or a refresh) commits a new state of a flight.
WebhookCommit(f) ==
  /\ Spend("webhook")
  /\ \E d \in Data : flight' = [flight EXCEPT ![f] = d]
  /\ UNCHANGED <<appVars, senderVars, valid, newest>>

\* register_live_activity, up to the check that the user tracks the flight.
RegisterCheck(h) ==
  /\ hdl[h].pc = "idle"
  /\ Spend("request")
  /\ \E r \in Request :
       /\ <<r.device_id, r.flight_id>> \in linked
       /\ hdl' = [hdl EXCEPT ![h] = [pc |-> "checked", req |-> r]]
  /\ UNCHANGED <<flight, linked, reg, startState, senderVars, valid, newest>>

\* session.get of the registration; 409 when another device owns it.
RegisterRead(h) ==
  /\ hdl[h].pc = "checked"
  /\ LET r == hdl[h].req
         row == reg[r.activity_id]
     IN hdl' = [hdl EXCEPT ![h] =
          IF row # None /\ row.device_id # r.device_id
          THEN [pc |-> "idle"]
          ELSE [pc |-> "read", req |-> r, copy |-> row]]
  /\ UNCHANGED <<flight, linked, reg, startState, senderVars, valid, newest, left>>

\* Mutant: the NULL timestamp of a new row is not coalesced to 0.
NewRowUncoalesced(r) ==
  [device_id |-> r.device_id, push_token |-> r.push_token,
   flight_id |-> r.flight_id, prefs |-> r.prefs, active |-> TRUE,
   last_apns_timestamp |-> None, last_content_state_json |-> None]

\* The row a registration inserts.
NewRow(r) ==
  [device_id |-> r.device_id, push_token |-> r.push_token,
   flight_id |-> r.flight_id, prefs |-> r.prefs, active |-> TRUE,
   last_apns_timestamp |-> 0, last_content_state_json |-> None]

\* The row after a registration updates it.  The ORM writes the columns whose
\* value differs from the copy it read and leaves the others as they are now.
Rotated(row, copy, r) ==
  LET Write(old, new, cur) == IF old = new THEN cur ELSE new
      changed == \/ copy.push_token # r.push_token
                 \/ copy.flight_id # r.flight_id
                 \/ copy.prefs # r.prefs
  IN [row EXCEPT
       !.push_token = Write(copy.push_token, r.push_token, @),
       !.flight_id = Write(copy.flight_id, r.flight_id, @),
       !.prefs = Write(copy.prefs, r.prefs, @),
       !.active = Write(copy.active, TRUE, @),
       !.last_content_state_json =
          IF changed THEN Write(copy.last_content_state_json, None, @) ELSE @]

\* Every other row of the same token is switched off by one UPDATE.
WithoutToken(row, token) ==
  IF row # None /\ row.push_token = token THEN [row EXCEPT !.active = FALSE] ELSE row

\* The transaction of register_live_activity: the other rows of the token, the
\* row itself, the push-to-start delivery it confirms.
RegisterCommit(h) ==
  /\ hdl[h].pc = "read"
  /\ LET r == hdl[h].req
         copy == hdl[h].copy
         a == r.activity_id
         key == <<r.device_id, r.flight_id>>
     IN /\ copy = None <=> reg[a] = None   \* else the INSERT or the UPDATE fails
        /\ reg' = [b \in Activity |->
             IF b # a THEN WithoutToken(reg[b], r.push_token)
             ELSE IF copy = None THEN NewRow(r)
             ELSE Rotated(reg[a], copy, r)]
        /\ startState' = [startState EXCEPT ![key] =
             IF @ = "absent" THEN @ ELSE "confirmed"]
  /\ hdl' = [hdl EXCEPT ![h] = [pc |-> "idle"]]
  /\ UNCHANGED <<flight, linked, senderVars, valid, newest, left>>

\* The transaction fails and is rolled back: a row inserted or deleted since it
\* was read, or any other error of the database; the app gets a 500.
RegisterFail(h) ==
  /\ hdl[h].pc = "read"
  /\ \/ /\ ~(hdl[h].copy = None <=> reg[hdl[h].req.activity_id] = None)
        /\ UNCHANGED left
     \/ Spend("fault")
  /\ hdl' = [hdl EXCEPT ![h] = [pc |-> "idle"]]
  /\ UNCHANGED <<flight, linked, reg, startState, senderVars, valid, newest>>

\* unregister_live_activity.
Unregister(a) ==
  /\ Spend("request")
  /\ reg[a] # None
  /\ reg' = [reg EXCEPT ![a].active = FALSE]
  /\ UNCHANGED <<flight, linked, startState, hdl, senderVars, valid, newest>>

\* delete_flight_for_a_user: the link goes and the rows of the user's devices
\* for this flight are switched off.
RemoveFlight(d, f) ==
  /\ Spend("request")
  /\ <<d, f>> \in linked
  /\ linked' = linked \ {<<d, f>>}
  /\ reg' = [a \in Activity |->
       IF reg[a] # None /\ reg[a].flight_id = f /\ reg[a].device_id = d
       THEN [reg[a] EXCEPT !.active = FALSE] ELSE reg[a]]
  /\ UNCHANGED <<flight, startState, hdl, senderVars, valid, newest>>

\* A flight is saved (again) by the device's owner.
AssignFlight(d, f) ==
  /\ Spend("request")
  /\ <<d, f>> \notin linked
  /\ linked' = linked \cup {<<d, f>>}
  /\ UNCHANGED <<flight, reg, startState, hdl, senderVars, valid, newest>>

-----------------------------------------------------------------------------
(* send_updates_for_flight. *)

\* The rows it selects: active and of this flight.
Selected(f) == [a \in Activity |->
                  IF IsActive(a) /\ reg[a].flight_id = f THEN reg[a] ELSE None]

Nothing == [a \in Activity |-> None]

\* The flight and its active rows are read; without rows the run is over.
SendRead(s, f) ==
  /\ pc[s] = "idle"
  /\ IF Selected(f) = Nothing
     THEN UNCHANGED <<pc, seen, todo>>
     ELSE /\ pc' = [pc EXCEPT ![s] = "reserving"]
          /\ seen' = [seen EXCEPT ![s] = [flight_id |-> f, data |-> flight[f]]]
          /\ todo' = [todo EXCEPT ![s] = Selected(f)]
  /\ UNCHANGED <<flight, appVars, sent, valid, newest>>

\* A background task of an API worker runs for any flight at any time.
WorkerStart(w, f) == Spend("run") /\ SendRead(w, f) /\ UNCHANGED round

\* reconcile_live_activity_updates: the flights of all active rows, ...
ReconcileScan ==
  /\ pc[Fetcher] = "idle" /\ round = {}
  /\ round' = {reg[a].flight_id : a \in {b \in Activity : IsActive(b)}}
  /\ UNCHANGED <<flight, appVars, pc, seen, todo, sent, valid, newest, left>>

\* ... one after the other.
ReconcileNext(f) ==
  /\ f \in round
  /\ SendRead(Fetcher, f)
  /\ round' = round \ {f}
  /\ UNCHANGED left

\* The UPDATE of _reserve_apns_timestamp finds the row as it was read.
Matches(row, copy) ==
  /\ row # None
  /\ row.active
  /\ row.push_token = copy.push_token
  /\ row.flight_id = copy.flight_id
  /\ row.prefs = copy.prefs

\* The timestamp is the clock, or one past the latest when the clock is not.
NextTimestamp(previous, now) == IF previous >= now THEN previous + 1 ELSE now

\* Mutant: the reservation leaves the deduplication snapshot as it is.
ReservedKeepingSnapshot(row, now) ==
  [row EXCEPT !.last_apns_timestamp = NextTimestamp(@, now)]

Reserved(row, now) ==
  [row EXCEPT !.last_apns_timestamp = NextTimestamp(@, now),
              !.last_content_state_json = None]

\* Mutant: an equal snapshot suppresses an end, too.
SuppressedEnd(copy, content) == copy.last_content_state_json = content

\* A successful earlier send of the same content suppresses an update, never
\* an end.
Suppressed(copy, content) ==
  ~IsEnd(content) /\ copy.last_content_state_json = content

\* One turn of the loop over the rows that were read: skip the row, or reserve
\* a timestamp for it and queue its payload.
SendReserve(s, a) ==
  /\ pc[s] = "reserving"
  /\ todo[s][a] # None
  /\ LET copy == todo[s][a]
         content == MakeContentState(seen[s].flight_id, seen[s].data, copy.prefs)
     IN IF Suppressed(copy, content) \/ ~Matches(reg[a], copy)
        THEN UNCHANGED <<reg, sent>>
        ELSE \E now \in 1..MaxNow :
               /\ reg' = [reg EXCEPT ![a] = Reserved(@, now)]
               /\ sent' = [sent EXCEPT ![s][a] =
                    [push_token |-> copy.push_token,
                     timestamp |-> NextTimestamp(reg[a].last_apns_timestamp, now),
                     content |-> content, attempts |-> 0, result |-> "none"]]
  /\ todo' = [todo EXCEPT ![s][a] = None]
  /\ UNCHANGED <<flight, linked, startState, hdl, pc, seen, round, valid, newest, left>>

\* The loop is over: the payloads are handed to APNs, or there are none.
SendGather(s) ==
  /\ pc[s] = "reserving"
  /\ todo[s] = Nothing
  /\ pc' = [pc EXCEPT ![s] = IF sent[s] = Nothing THEN "idle" ELSE "sending"]
  /\ seen' = [seen EXCEPT ![s] = None]
  /\ UNCHANGED <<flight, appVars, todo, sent, round, valid, newest, left>>

\* APNs takes a message: of the messages of an activity the device shows the
\* one with the greatest timestamp.
Accept(a, d) ==
  newest' = [newest EXCEPT ![a] =
    IF d.timestamp > @.timestamp
    THEN [timestamp |-> d.timestamp, content |-> d.content] ELSE @]

\* One attempt of send_one.  A transient status or an exception is retried
\* until the attempts are used up; an exception may hide that APNs took the
\* message.
SendAttempt(s, a) ==
  /\ pc[s] = "sending"
  /\ sent[s][a] # None
  /\ sent[s][a].result = "none"
  /\ LET d == sent[s][a]
         Answer(result) == sent' = [sent EXCEPT ![s][a].attempts = @ + 1,
                                                ![s][a].result = result]
         Retry == Answer(IF d.attempts + 1 < MaxAttempts THEN "none" ELSE "failed")
     IN \/ \* 200
           d.push_token \in valid /\ Answer("success") /\ Accept(a, d)
           /\ UNCHANGED left
        \/ \* the answer is lost
           d.push_token \in valid /\ Spend("fault") /\ Retry /\ Accept(a, d)
        \/ \* 429, 500, 503, or no connection
           Spend("fault") /\ Retry /\ UNCHANGED newest
        \/ \* any other status
           Spend("fault") /\ Answer("failed") /\ UNCHANGED newest
        \/ \* a reason in INVALID_TOKEN_REASONS
           d.push_token \notin valid /\ Answer("invalid") /\ UNCHANGED <<newest, left>>
  /\ UNCHANGED <<flight, appVars, pc, seen, todo, round, valid>>

\* Mutant: the completion does not compare the token.
CurrentForAnyToken(row, d) ==
  /\ row # None
  /\ row.flight_id = d.content.flight_id
  /\ row.last_apns_timestamp = d.timestamp
  /\ row.prefs = d.content.prefs

\* The UPDATE of the completion finds the row this delivery was made for, with
\* no later reservation.
Current(row, d) ==
  /\ row # None
  /\ row.push_token = d.push_token
  /\ row.flight_id = d.content.flight_id
  /\ row.last_apns_timestamp = d.timestamp
  /\ row.prefs = d.content.prefs

Completed(row, d) ==
  [row EXCEPT
     !.last_content_state_json = IF d.result = "success" THEN d.content ELSE @,
     !.active = @ /\ ~(\/ d.result = "success" /\ IsEnd(d.content)
                       \/ d.result = "invalid")]

\* All answers are in; one transaction writes the outcomes.
SendComplete(s) ==
  /\ pc[s] = "sending"
  /\ \A a \in Activity : sent[s][a] # None => sent[s][a].result # "none"
  /\ reg' = [a \in Activity |->
       IF sent[s][a] # None /\ Current(reg[a], sent[s][a])
       THEN Completed(reg[a], sent[s][a]) ELSE reg[a]]
  /\ pc' = [pc EXCEPT ![s] = "idle"]
  /\ sent' = [sent EXCEPT ![s] = Nothing]
  /\ UNCHANGED <<flight, linked, startState, hdl, seen, todo, round, valid, newest, left>>

-----------------------------------------------------------------------------
(* Faults. *)

\* The process of a sender dies; what it reserved stays reserved.
Crash(s) ==
  /\ pc[s] # "idle"
  /\ Spend("fault")
  /\ pc' = [pc EXCEPT ![s] = "idle"]
  /\ seen' = [seen EXCEPT ![s] = None]
  /\ todo' = [todo EXCEPT ![s] = Nothing]
  /\ sent' = [sent EXCEPT ![s] = Nothing]
  /\ round' = IF s = Fetcher THEN {} ELSE round
  /\ UNCHANGED <<flight, appVars, valid, newest>>

\* A token expires, or the app is removed: APNs rejects it from now on.
InvalidateToken(t) ==
  /\ t \in valid
  /\ Spend("fault")
  /\ valid' = valid \ {t}
  /\ UNCHANGED <<flight, appVars, senderVars, newest>>

AppStep ==
  \/ \E f \in Flight : WebhookCommit(f)
  \/ \E h \in Handler : RegisterCheck(h) \/ RegisterRead(h) \/ RegisterCommit(h)
                        \/ RegisterFail(h)
  \/ \E a \in Activity : Unregister(a)
  \/ \E d \in Device, f \in Flight : RemoveFlight(d, f) \/ AssignFlight(d, f)

SenderStep(s) ==
  \/ \E a \in Activity : SendReserve(s, a) \/ SendAttempt(s, a)
  \/ SendGather(s)
  \/ SendComplete(s)

FetcherStep == ReconcileScan \/ (\E f \in Flight : ReconcileNext(f)) \/ SenderStep(Fetcher)

Next ==
  \/ AppStep
  \/ \E w \in Worker : (\E f \in Flight : WorkerStart(w, f)) \/ SenderStep(w)
  \/ FetcherStep
  \/ \E s \in Sender : Crash(s)
  \/ \E t \in Token : InvalidateToken(t)

Spec == Init /\ [][Next]_vars

\* Only the fetcher's endless loop is fair: asyncio.sleep(60) returns, every
\* await of a send ends, gunicorn replaces a dead worker.
FairSpec == Spec /\ WF_vars(FetcherStep)

-----------------------------------------------------------------------------
(* Properties. *)

HandlerState ==
  [pc : {"idle"}] \cup [pc : {"checked"}, req : Request]
  \cup [pc : {"read"}, req : Request, copy : Row \cup {None}]

\* Every variable holds a value of its table, task or request.
TypeOK ==
  /\ flight \in [Flight -> Data]
  /\ linked \subseteq Device \X Flight
  /\ reg \in [Activity -> Row \cup {None}]
  /\ startState \in [Device \X Flight -> {"absent", "delivered", "confirmed"}]
  /\ pc \in [Sender -> {"idle", "reserving", "sending"}]
  /\ seen \in [Sender -> [flight_id : Flight, data : Data] \cup {None}]
  /\ \A s \in Sender : pc[s] = "reserving" => seen[s] \in [flight_id : Flight, data : Data]
  /\ todo \in [Sender -> [Activity -> Row \cup {None}]]
  /\ sent \in [Sender -> [Activity -> Delivery \cup {None}]]
  /\ round \subseteq Flight
  /\ hdl \in [Handler -> HandlerState]
  /\ valid \subseteq Token
  /\ newest \in [Activity -> [timestamp : Nat, content : Content \cup {None}]]
  /\ left \in [Event -> Nat]

\* models/live_activity.py: last_content_state_json is "known current
\* acknowledged content, or None while an overlapping/in-flight/failed send
\* makes device state uncertain".  When the snapshot is set it is the content
\* of the newest message APNs has taken for the activity, whatever the senders
\* did at the same time, so that suppressing an equal update is right.
SnapshotTruthful ==
  \A a \in Activity :
    (reg[a] # None /\ reg[a].last_content_state_json # None)
      => newest[a].content = reg[a].last_content_state_json

\* A completion never switches off a registration whose token is still valid,
\* unless the newest message APNs took for the activity is a terminal state of
\* the registration's flight: "an older response must not ... deactivate a
\* rotated token".
OnlyEndsDeliveredOrDead ==
  [][\A s \in Sender : SendComplete(s) =>
       \A a \in Activity :
         (IsActive(a) /\ reg[a].push_token \in valid /\ ~IsActive(a)')
           => /\ newest[a].content \in Content
              /\ IsEnd(newest[a].content)
              /\ newest[a].content.flight_id = reg[a].flight_id]_vars

\* What the registration of an activity ought to show.
Shown(a) == newest[a].content = MakeContentState(reg[a].flight_id,
                                  flight[reg[a].flight_id], reg[a].prefs)

\* The reconcile loop: once webhooks, requests and faults stop, every active
\* registration has the committed state of its flight on the device, and no
\* registration of a terminal flight is active.
Reconciles ==
  \A a \in Activity : <>[](IsActive(a) => Shown(a) /\ flight[reg[a].flight_id] \notin Terminal)

\* live_activity.py: an older response must not "deactivate a rotated token".  A
\* registration with a valid token that is answered with "Live Activity
\* registered" leaves the activity registered for updates.
RotatedIsActive ==
  [][\A h \in Handler, a \in Activity :
       (/\ RegisterCommit(h)
        /\ hdl[h].req.activity_id = a
        /\ hdl[h].req.push_token \in valid) => IsActive(a)']_vars

\* routers/webhook.py: the send is scheduled after the commit "so the payload
\* always reflects the persisted status": a device that shows the committed
\* state is not sent back to an earlier one.
NewestNeverRewinds ==
  [][\A a \in Activity :
       (IsActive(a) /\ Shown(a) /\ UNCHANGED <<flight, reg[a]>>) => Shown(a)']_vars
=============================================================================
