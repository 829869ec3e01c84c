----------------------------- MODULE PushToStart -----------------------------
(***************************************************************************)
(* Starting Live Activities from the server.                               *)
(*                                                                         *)
(* Once a minute the fetcher process looks, for every device with a        *)
(* push-to-start token, which tracked flights are due, and sends a start   *)
(* for those its ledger does not know.  It commits once at the end; the    *)
(* app rotates the token and registers activities meanwhile, unless        *)
(* SQLite's write lock is held by what the pass has flushed.               *)
(***************************************************************************)
EXTENDS Integers, Common

CONSTANTS
  Phone,        \* device ids
  StartToken,   \* push-to-start tokens, numbered as ActivityKit issues them: a finite set of Nat
  DueFlight,    \* flights that are due, numbered by departure: a finite set of Nat
  MaxStarts,    \* MAX_PUSH_TO_START_ACTIVITIES_PER_DEVICE
  StartBudget   \* bound of passes, requests of the app and new flights

\* The rows of the registrations and of the ledger.
StartRow == [token : StartToken, active : BOOLEAN]
DeliveryRow == [token : StartToken, state : {"pending", "delivered", "confirmed", "failed_permanent", "failed_transient"}]

ASSUME StartAssumption ==
  /\ DueFlight \subseteq Nat /\ StartToken \subseteq Nat
  /\ None \notin StartRow \cup DeliveryRow

VARIABLES
  startReg,     \* LiveActivityPushToStartRegistration, None without a row
  startLedger,  \* LiveActivityPushToStartDelivery, by phone and flight
  owned,        \* the devices that exist
  tracked,      \* [Phone -> flights of the device's user]
  running,      \* {<<phone, flight>>}: active LiveActivityRegistrations
  startPass,         \* start_due_activities in progress
  startApp,          \* a registration request, between its read and its commit
  startSettled,      \* history: starts taken or refused for good, with their token
  refusedTok,   \* history: tokens APNs has called invalid
  startLeft     \* what is left of StartBudget

startVars == <<startReg, startLedger, owned, tracked, running, startPass, startApp, startSettled, refusedTok, startLeft>>

StartSpend(e) == startLeft[e] > 0 /\ startLeft' = [startLeft EXCEPT ![e] = @ - 1]

NoPass == [pc |-> "sleep"]
NoRequest == [pc |-> "none"]

StartInit ==
  /\ startReg = [d \in Phone |-> None]
  /\ startLedger = [x \in Phone \X DueFlight |-> None]
  /\ owned = Phone
  /\ tracked = [d \in Phone |-> {}]
  /\ running = {}
  /\ startPass = NoPass
  /\ startApp = NoRequest
  /\ startSettled = {}
  /\ refusedTok = {}
  /\ startLeft = StartBudget

\* What the pass has written is flushed by its next query, so that it holds the lock
\* while it waits for APNs.
Locked == startPass.pc = "send" /\ startPass.dirty

-----------------------------------------------------------------------------
(* The app. *)

\* register_live_activity_push_to_start, up to its write.
RegisterStartRead(d, k) ==
  /\ startApp = NoRequest
  /\ StartSpend("app")
  /\ d \in owned
  /\ startReg[d] # None => k >= startReg[d].token
  /\ startApp' = [pc |-> "write", phone |-> d, token |-> k, copy |-> startReg[d]]
  /\ UNCHANGED <<startReg, startLedger, owned, tracked, running, startPass, startSettled, refusedTok>>

\* active is written if the copy was inactive; a row inserted meanwhile fails it.
RegisterStartCommit ==
  LET d == startApp.phone
  IN /\ startApp.pc = "write" /\ ~Locked
     /\ IF startApp.copy = None
        THEN startReg' = IF startReg[d] = None THEN [startReg EXCEPT ![d] = [token |-> startApp.token, active |-> TRUE]]
                         ELSE startReg
        ELSE startReg' = [startReg EXCEPT ![d] =
               [token |-> IF startApp.token # startApp.copy.token THEN startApp.token ELSE @.token,
                active |-> @.active \/ ~startApp.copy.active]]
     /\ startApp' = NoRequest
     /\ UNCHANGED <<startLedger, owned, tracked, running, startPass, startSettled, refusedTok, startLeft>>

\* register_live_activity: the phone shows the activity; the ledger is told.
Confirm(d, f) ==
  /\ ~Locked
  /\ d \in owned /\ f \in tracked[d] /\ <<d, f>> \notin running
  /\ startLeft["app"] > 0 \/ \E s \in startSettled : s.phone = d /\ s.flight = f
  /\ running' = running \cup {<<d, f>>}
  /\ startLedger' = [startLedger EXCEPT ![<<d, f>>] =
       IF @ # None THEN [@ EXCEPT !.state = "confirmed"] ELSE @]
  /\ UNCHANGED <<startReg, owned, tracked, startPass, startApp, startSettled, refusedTok, startLeft>>

\* unregister_live_activity, or an end that was delivered.
EndActivity(d, f) ==
  /\ ~Locked
  /\ <<d, f>> \in running
  /\ StartSpend("app")
  /\ running' = running \ {<<d, f>>}
  /\ UNCHANGED <<startReg, startLedger, owned, tracked, startPass, startApp, startSettled, refusedTok>>

TrackFlight(d, f) ==
  /\ ~Locked
  /\ d \in owned /\ f \notin tracked[d]
  /\ StartSpend("flight")
  /\ tracked' = [tracked EXCEPT ![d] = @ \cup {f}]
  /\ UNCHANGED <<startReg, startLedger, owned, running, startPass, startApp, startSettled, refusedTok>>

\* delete_user leaves the registration and the ledger.
DeletePhone(d) ==
  /\ ~Locked
  /\ d \in owned
  /\ StartSpend("app")
  /\ owned' = owned \ {d}
  /\ tracked' = [tracked EXCEPT ![d] = {}]
  /\ running' = {r \in running : r[1] # d}
  /\ UNCHANGED <<startReg, startLedger, startPass, startApp, startSettled, refusedTok>>

-----------------------------------------------------------------------------
(* The pass. *)

\* The registrations that are active now; the ORM keeps them as they are read here.
PassStart ==
  /\ startPass = NoPass
  /\ StartSpend("pass")
  /\ LET copies == {[phone |-> d, token |-> startReg[d].token] :
                      d \in {x \in Phone : startReg[x] # None /\ startReg[x].active}}
     IN /\ copies # {}
        /\ startPass' = [pc |-> "next", todo |-> copies, reg |-> None, flights |-> {}, count |-> 0,
                    dirty |-> FALSE, ledger |-> [x \in Phone \X DueFlight |-> None], off |-> {}, sent |-> {}]
  /\ UNCHANGED <<startReg, startLedger, owned, tracked, running, startApp, startSettled, refusedTok>>

\* Another registration, in no order: its device, and the due flights.
PassDevice ==
  /\ startPass.pc = "next"
  /\ \E reg \in startPass.todo :
       LET due == IF reg.phone \in owned THEN tracked[reg.phone] ELSE {}
           rest == [startPass EXCEPT !.todo = @ \ {reg}]
       IN startPass' = IF due # {} THEN [rest EXCEPT !.reg = reg, !.flights = due, !.count = 0, !.pc = "flight"]
                       ELSE IF reg.phone \in owned THEN rest
                       ELSE [rest EXCEPT !.off = @ \cup {reg.phone}, !.dirty = TRUE]
  /\ UNCHANGED <<startReg, startLedger, owned, tracked, running, startApp, startSettled, refusedTok, startLeft>>

\* _push_to_start_candidates: by departure.
NextDue(p) == CHOOSE f \in p.flights : \A g \in p.flights : f <= g

\* On to the next flight, or the next device.
Onward(p, f) == [p EXCEPT !.flights = @ \ {f}, !.pc = IF p.flights = {f} THEN "next" ELSE "flight"]

\* A delivery that belongs to another token starts anew.
Renewed(row, token) ==
  IF row = None \/ row.token # token THEN [token |-> token, state |-> "pending"] ELSE row

Note(p, d, f, row) == [p EXCEPT !.ledger[<<d, f>>] = row, !.dirty = TRUE]

\* One flight: running, started already, refused, too many, or to be started.
PassFlight ==
  LET reg == startPass.reg
      f == NextDue(startPass)
      key == <<reg.phone, f>>
      old == startLedger[key]
      row == Renewed(old, reg.token)
      counted == [startPass EXCEPT !.count = @ + 1]
      \* A reset row is flushed as it is, unless it is new.
      kept == IF old # None /\ row # old THEN Note(startPass, reg.phone, f, row) ELSE startPass
  IN /\ startPass.pc = "flight"
     /\ startPass' = IF key \in running
                THEN Onward(IF old = None \/ old.state = "confirmed" THEN counted
                            ELSE Note(counted, reg.phone, f, [old EXCEPT !.state = "confirmed"]), f)
                ELSE IF row.state \in {"delivered", "confirmed"} THEN Onward(counted, f)
                ELSE IF row.state = "failed_permanent" \/ startPass.count >= MaxStarts THEN Onward(kept, f)
                ELSE [startPass EXCEPT !.pc = "send"]
     /\ UNCHANGED <<startReg, startLedger, owned, tracked, running, startApp, startSettled, refusedTok, startLeft>>

\* Mutant: an answer that names the token is only a failure of the moment.
StateAfterLenient(result) == IF result = "taken" THEN "delivered" ELSE "failed_transient"

StateAfter(result) ==
  CASE result = "taken" -> "delivered"
    [] result \in {"refused", "invalid"} -> "failed_permanent"
    [] OTHER -> "failed_transient"

\* Up to three attempts.  An invalid token ends the device; an exception may hide that
\* APNs has taken the start.
PassSend ==
  LET reg == startPass.reg
      f == NextDue(startPass)
      start == [phone |-> reg.phone, flight |-> f, token |-> reg.token]
  IN /\ startPass.pc = "send"
     /\ \E result \in {"taken", "refused", "invalid", "failed"} :
          /\ reg.token \in refusedTok => result \in {"invalid", "failed"}
          /\ LET settles == IF result = "failed" THEN {} ELSE {start}
                 noted == [Note(startPass, reg.phone, f, [token |-> reg.token, state |-> StateAfter(result)])
                             EXCEPT !.sent = @ \cup settles]
             IN /\ startPass' = CASE result = "taken" -> Onward([noted EXCEPT !.count = @ + 1], f)
                              [] result = "invalid" -> [noted EXCEPT !.off = @ \cup {reg.phone}, !.flights = {}, !.pc = "next"]
                              [] OTHER -> Onward(noted, f)
                /\ startSettled' = startSettled \cup settles
          /\ refusedTok' = IF result = "invalid" THEN refusedTok \cup {reg.token} ELSE refusedTok
     /\ UNCHANGED <<startReg, startLedger, owned, tracked, running, startApp, startLeft>>

\* The commit: whoever registered or confirmed before the first flush is overwritten
\* where the pass has changed a column; a row confirmed meanwhile was inserted by nobody
\* else.
PassCommit ==
  /\ startPass.pc = "next" /\ startPass.todo = {}
  /\ startLedger' = [x \in Phone \X DueFlight |-> IF startPass.ledger[x] = None THEN startLedger[x] ELSE startPass.ledger[x]]
  /\ startReg' = [d \in Phone |-> IF d \in startPass.off THEN [startReg[d] EXCEPT !.active = FALSE] ELSE startReg[d]]
  /\ startPass' = NoPass
  /\ UNCHANGED <<owned, tracked, running, startApp, startSettled, refusedTok, startLeft>>

\* The process dies, or a query of the pass fails: nothing is kept.
PassDie ==
  /\ startPass # NoPass
  /\ startSettled' = startSettled \ startPass.sent
  /\ startPass' = NoPass
  /\ UNCHANGED <<startReg, startLedger, owned, tracked, running, startApp, refusedTok, startLeft>>

StartNext ==
  \/ \E d \in Phone, k \in StartToken : RegisterStartRead(d, k)
  \/ RegisterStartCommit
  \/ \E d \in Phone, f \in DueFlight : Confirm(d, f) \/ EndActivity(d, f) \/ TrackFlight(d, f)
  \/ \E d \in Phone : DeletePhone(d)
  \/ PassStart \/ PassDevice \/ PassFlight \/ PassSend \/ PassCommit \/ PassDie

StartSpec == StartInit /\ [][StartNext]_startVars

-----------------------------------------------------------------------------
(* Properties. *)

\* A start that APNs has taken, or refused for good, is not sent again with its token,
\* however the app rotates, registers and ends activities; only a pass that died has
\* forgotten it: start_due_activities.
StartedOnce ==
  startPass.pc = "send" =>
    [phone |-> startPass.reg.phone, flight |-> NextDue(startPass), token |-> startPass.reg.token] \notin startSettled

\* register_live_activity_push_to_start answers "Live Activity push-to-start token
\* registered": a token that APNs never refused stays registered.
StartTokenKept ==
  \A d \in owned : startReg[d] # None /\ startReg[d].token \notin refusedTok => startReg[d].active
=============================================================================
