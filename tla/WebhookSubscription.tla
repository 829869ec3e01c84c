------------------------ MODULE WebhookSubscription ------------------------
(***************************************************************************)
(* The life of AeroDataBox webhook subscriptions.                          *)
(*                                                                         *)
(* A flight row names the subscription that feeds it (subscription_id, set *)
(* together with has_subscribed); flights of one number share one.  The    *)
(* API workers (on assign and on Live Activity registration) and a loop of *)
(* the fetcher create subscriptions through the fetcher service, which     *)
(* alone talks to AeroDataBox and remembers the last subscription it made. *)
(* The webhook handler and another loop delete them.  Clients give up on   *)
(* the fetcher after httpx's default timeout while the fetcher goes on.    *)
(***************************************************************************)
EXTENDS Naturals

CONSTANTS
  Flight,    \* flight ids
  Number,    \* flight numbers
  NumberOf,  \* the number of each flight
  Sub,       \* subscription ids AeroDataBox may issue, each once
  ApiTask,   \* background tasks of the API workers that create subscriptions
  Loop,      \* the creating loop of the fetcher, check_and_create_webhook_for_flight
  Budget,    \* how often each kind of outside event may happen
  None       \* SQL NULL or Python None

Task == ApiTask \cup {Loop}

\* What Budget bounds: inputs (background tasks started by the app, updates sent
\* by AeroDataBox, the passing of time) and faults of the network or a process.
Event == {"input", "fault"}

ASSUME WebhookAssumption ==
  /\ NumberOf \in [Flight -> Number]
  /\ Loop \notin ApiTask
  /\ None \notin Sub \cup Number \cup Flight
  /\ Budget \in [Event -> Nat]

VARIABLES
  status,    \* whether the status of a flight is in ELIGIBLE_STATUS
  window,    \* "early": leaves in more than 72 h; "past": arrived over 24 h ago
  sub,       \* Flight.subscription_id
  alive,     \* (AeroDataBox) subscriptions that exist
  issued,    \* (AeroDataBox) the number each subscription was made for
  cache,     \* the fetcher's latest_webhook_flight_number and latest_webhook_id
  creator,   \* create_webhook_for_flight, per task
  req,       \* the task's POST /create-webhook inside the fetcher
  deleter,   \* delete_webhook, per subscription
  hanging,   \* remove_hanging_webhooks: subscriptions left, and the one awaited
  pass,      \* the creating loop: the rows left in this pass, and its last row
  missed,    \* history: subscriptions whose deletion missed a row or a copy
  left       \* what is left of Budget

flightVars == <<status, window>>
remoteVars == <<alive, issued>>
loopVars   == <<hanging, pass>>
vars == <<flightVars, sub, remoteVars, cache, creator, req, deleter, loopVars, missed, left>>

Idle == [pc |-> "idle"]

Creator == [pc : {"idle"}]
           \cup [pc : {"post", "wait"}, flight : Flight]
           \cup [pc : {"commit"}, flight : Flight, id : Sub]

Req == [pc : {"idle", "failed"}] \cup [pc : {"remote"}, number : Number]
       \cup [pc : {"created"}, number : Number, id : Sub]
       \cup [pc : {"answer"}, id : Sub]

NoCache == [number |-> None, id |-> None]

Cache == {NoCache} \cup [number : Number, id : Sub]

NoHanging == [todo |-> {}, awaited |-> None]

NoPass == [todo |-> {}, last |-> None]

Spend(e) == left[e] > 0 /\ left' = [left EXCEPT ![e] = @ - 1]

Eligible(f) == status[f] = "eligible"

Init ==
  /\ status = [f \in Flight |-> "eligible"]
  /\ window \in [Flight -> {"early", "due"}]
  /\ sub = [f \in Flight |-> None]
  /\ alive = {}
  /\ issued = [s \in Sub |-> None]
  /\ cache = NoCache
  /\ creator = [t \in Task |-> Idle]
  /\ req = [t \in Task |-> Idle]
  /\ deleter = [s \in Sub |-> "idle"]
  /\ hanging = NoHanging
  /\ pass = NoPass
  /\ missed = {}
  /\ left = Budget

-----------------------------------------------------------------------------
(* create_webhook_for_flight. *)

\* Mutant: any subscribed flight lends its subscription.
SimilarOfAnyNumber(f) == {g \in Flight \ {f} : sub[g] # None}

\* Another flight of the number that is subscribed already.
Similar(f) ==
  {g \in Flight \ {f} : NumberOf[g] = NumberOf[f] /\ sub[g] # None}

\* The reads up to the first write or await: a row of another number and a
\* subscribed row return at once, a similar flight lends its subscription.
CreateRead(t, number, f) ==
  /\ creator[t] = Idle
  /\ req[t] = Idle
  /\ IF NumberOf[f] # number \/ sub[f] # None
     THEN UNCHANGED creator
     ELSE IF Similar(f) = {}
     THEN creator' = [creator EXCEPT ![t] = [pc |-> "post", flight |-> f]]
     ELSE \E g \in Similar(f) :
            creator' = [creator EXCEPT ![t] =
                          [pc |-> "commit", flight |-> f, id |-> sub[g]]]

\* An API worker runs it for a flight a user has just saved.
AppCreate(t, f) ==
  /\ Spend("input")
  /\ CreateRead(t, NumberOf[f], f)
  /\ UNCHANGED <<flightVars, sub, remoteVars, cache, req, deleter, loopVars, missed>>

\* The flight's row is written and committed.
CreateCommit(t) ==
  /\ creator[t].pc = "commit"
  /\ sub' = [sub EXCEPT ![creator[t].flight] = creator[t].id]
  /\ creator' = [creator EXCEPT ![t] = Idle]
  /\ UNCHANGED <<flightVars, remoteVars, cache, req, deleter, loopVars, missed, left>>

-----------------------------------------------------------------------------
(* AerodataboxFetcherService.create_webhook. *)

\* The request has passed the rate limiter: the latest number is answered from
\* memory, any other is posted to AeroDataBox.
FetcherCreate(t) ==
  /\ creator[t].pc = "post"
  /\ LET number == NumberOf[creator[t].flight]
     IN req' = [req EXCEPT ![t] =
          IF cache.number = number THEN [pc |-> "answer", id |-> cache.id]
          ELSE [pc |-> "remote", number |-> number]]
  /\ creator' = [creator EXCEPT ![t].pc = "wait"]
  /\ UNCHANGED <<flightVars, sub, remoteVars, cache, deleter, loopVars, missed, left>>

\* AeroDataBox makes the subscription, or the call fails.
RemoteCreate(t) ==
  /\ req[t].pc = "remote"
  /\ \/ \E s \in Sub :
          /\ issued[s] = None
          /\ issued' = [issued EXCEPT ![s] = req[t].number]
          /\ alive' = alive \cup {s}
          /\ req' = [req EXCEPT ![t] =
                       [pc |-> "created", number |-> req[t].number, id |-> s]]
          /\ UNCHANGED left
     \/ /\ Spend("fault")
        /\ req' = [req EXCEPT ![t] = [pc |-> "failed"]]
        /\ UNCHANGED remoteVars
  /\ UNCHANGED <<flightVars, sub, cache, creator, deleter, loopVars, missed>>

Remember(number, id) == [number |-> number, id |-> id]

\* The response arrives: number and id are remembered together.
FetcherCreated(t) ==
  /\ req[t].pc = "created"
  /\ cache' = Remember(req[t].number, req[t].id)
  /\ req' = [req EXCEPT ![t] = [pc |-> "answer", id |-> @.id]]
  /\ UNCHANGED <<flightVars, sub, remoteVars, creator, deleter, loopVars, missed, left>>

\* The fetcher answers its client, if that still waits; an answer that is not
\* a subscription ends the task.
FetcherAnswer(t) ==
  /\ req[t].pc \in {"answer", "failed"}
  /\ creator' = [creator EXCEPT ![t] =
       IF @.pc # "wait" THEN @
       ELSE IF req[t].pc = "answer"
       THEN [pc |-> "commit", flight |-> @.flight, id |-> req[t].id] ELSE Idle]
  /\ req' = [req EXCEPT ![t] = Idle]
  /\ UNCHANGED <<flightVars, sub, remoteVars, cache, deleter, loopVars, missed, left>>

\* The client gives up and rolls back; the fetcher's request goes on.
CreateTimeout(t) ==
  /\ creator[t].pc = "wait"
  /\ Spend("fault")
  /\ creator' = [creator EXCEPT ![t] = Idle]
  /\ UNCHANGED <<flightVars, sub, remoteVars, cache, req, deleter, loopVars, missed>>

-----------------------------------------------------------------------------
(* delete_webhook, in the service and in the fetcher. *)

\* A task asks for the deletion; a second one for the same subscription gets
\* an error from AeroDataBox and has no effect.
AskDelete(s) == deleter' = [deleter EXCEPT ![s] = IF @ = "idle" THEN "asked" ELSE @]

\* AeroDataBox deletes it; any other answer ends the task.
DeleteRemote(s) ==
  /\ deleter[s] = "asked"
  /\ \/ /\ s \in alive
        /\ alive' = alive \ {s}
        /\ deleter' = [deleter EXCEPT ![s] = "gone"]
        /\ UNCHANGED left
     \/ /\ \/ s \notin alive /\ UNCHANGED left
           \/ Spend("fault")
        /\ deleter' = [deleter EXCEPT ![s] = "idle"]
        /\ UNCHANGED alive
  /\ UNCHANGED <<flightVars, sub, issued, cache, creator, req, loopVars, missed>>

\* Mutant: the fetcher goes on answering with the deleted subscription.
KeepCache(s) == cache

ForgetDeleted(s) ==
  IF cache.id = s THEN NoCache ELSE cache

\* The answer with the new subscription is still on its way to the fetcher.
Returning(s) == \E t \in Task : req[t].pc = "created" /\ req[t].id = s

\* The fetcher forgets the subscription if it is the latest one.
DeleteForget(s) ==
  /\ deleter[s] = "gone"
  /\ cache' = ForgetDeleted(s)
  /\ deleter' = [deleter EXCEPT ![s] = "clear"]
  /\ missed' = IF Returning(s) THEN missed \cup {s} ELSE missed
  /\ UNCHANGED <<flightVars, sub, remoteVars, creator, req, loopVars, left>>

\* A task that holds the id of a subscription and has not committed it.
Held(s) ==
  \E t \in Task : \/ creator[t].pc = "commit" /\ creator[t].id = s
                  \/ req[t].pc \in {"created", "answer"} /\ req[t].id = s

\* Every row of the subscription is cleared by one UPDATE.
DeleteClear(s) ==
  /\ deleter[s] = "clear"
  /\ sub' = [f \in Flight |-> IF sub[f] = s THEN None ELSE sub[f]]
  /\ deleter' = [deleter EXCEPT ![s] = "idle"]
  /\ missed' = IF Held(s) THEN missed \cup {s} ELSE missed
  /\ UNCHANGED <<flightVars, remoteVars, cache, creator, req, loopVars, left>>

\* The task gave up waiting, or its process died: no row is cleared.
DeleteLost(s) ==
  /\ deleter[s] = "clear"
  /\ Spend("fault")
  /\ deleter' = [deleter EXCEPT ![s] = "idle"]
  /\ missed' = missed \cup {s}
  /\ UNCHANGED <<flightVars, sub, remoteVars, cache, creator, req, loopVars>>

-----------------------------------------------------------------------------
(* The webhook handler and the loops of the fetcher. *)

\* receive_aerodatabox_update: the flight the payload is about, if a row of the
\* subscription is, gets a status.  When no row of the subscription and its
\* number is eligible, even for want of rows, its deletion is scheduled.
ReceiveUpdate(s) ==
  /\ issued[s] # None
  /\ Spend("input")
  /\ \/ UNCHANGED status
     \/ \E f \in Flight, new \in {"eligible", "ended"} :
          /\ sub[f] = s
          /\ NumberOf[f] = issued[s]
          /\ status' = [status EXCEPT ![f] = new]
  /\ IF \E g \in Flight : /\ sub[g] = s
                         /\ NumberOf[g] = issued[s]
                         /\ status'[g] = "eligible"
     THEN UNCHANGED deleter
     ELSE AskDelete(s)
  /\ UNCHANGED <<window, sub, remoteVars, cache, creator, req, loopVars, missed>>

\* Time passes for a flight.
TimePasses(f) ==
  /\ window[f] # "past"
  /\ Spend("input")
  /\ window' = [window EXCEPT ![f] = IF @ = "early" THEN "due" ELSE "past"]
  /\ UNCHANGED <<status, sub, remoteVars, cache, creator, req, deleter, loopVars, missed>>

\* The eligible flights of a subscription, as remove_hanging_webhooks selects them.
Group(s) == {f \in Flight : sub[f] = s /\ Eligible(f)}

\* remove_hanging_webhooks: the subscriptions all of whose eligible flights
\* arrived more than 24 hours ago ...
HangingScan ==
  /\ hanging = NoHanging
  /\ hanging' = [todo |-> {s \in Sub : /\ Group(s) # {}
                                     /\ \A f \in Group(s) : window[f] = "past"},
                 awaited |-> None]
  /\ UNCHANGED <<flightVars, sub, remoteVars, cache, creator, req, deleter, pass, missed, left>>

\* ... are deleted, each after the one before it has been answered.
HangingDelete(s) ==
  /\ s \in hanging.todo
  /\ hanging.awaited = None
  /\ AskDelete(s)
  /\ hanging' = [todo |-> hanging.todo \ {s}, awaited |-> s]
  /\ UNCHANGED <<flightVars, sub, remoteVars, cache, creator, req, pass, missed, left>>

HangingAnswered ==
  /\ hanging.awaited # None
  /\ deleter[hanging.awaited] = "idle"
  /\ hanging' = [hanging EXCEPT !.awaited = None]
  /\ UNCHANGED <<flightVars, sub, remoteVars, cache, creator, req, deleter, pass, missed, left>>

\* check_and_create_webhook_for_flight: the rows without a subscription.  Its
\* first loop leaves the variable `flight` at the last row of the result.
PassStart ==
  /\ pass = NoPass
  /\ LET rows == {f \in Flight : Eligible(f) /\ sub[f] = None}
     IN \E last \in rows :
          pass' = [todo |-> rows, last |-> last]
  /\ UNCHANGED <<flightVars, sub, remoteVars, cache, creator, req, deleter, hanging, missed, left>>

\* The id create_webhook_for_flight gets for row f: `flight.id`, not `f.id`.
PassedId(f) == pass.last

PassSkip(f) ==
  /\ f \in pass.todo
  /\ window[f] # "due"
  /\ pass' = [pass EXCEPT !.todo = @ \ {f}]
  /\ UNCHANGED <<flightVars, sub, remoteVars, cache, creator, req, deleter, hanging, missed, left>>

\* For each row that is due it awaits create_webhook_for_flight, with the
\* number of that row.
PassNext(f) ==
  /\ f \in pass.todo
  /\ window[f] = "due"
  /\ CreateRead(Loop, NumberOf[f], PassedId(f))
  /\ pass' = [pass EXCEPT !.todo = @ \ {f}]
  /\ UNCHANGED <<flightVars, sub, remoteVars, cache, req, deleter, hanging, missed, left>>

\* The pass is over: asyncio.sleep(600).
PassEnd ==
  /\ pass # NoPass
  /\ pass.todo = {}
  /\ creator[Loop] = Idle
  /\ pass' = NoPass
  /\ UNCHANGED <<flightVars, sub, remoteVars, cache, creator, req, deleter, hanging, missed, left>>

-----------------------------------------------------------------------------
(* Crashes. *)

\* An API worker dies with its background task.
ApiCrash(t) ==
  /\ creator[t] # Idle
  /\ Spend("fault")
  /\ creator' = [creator EXCEPT ![t] = Idle]
  /\ UNCHANGED <<flightVars, sub, remoteVars, cache, req, deleter, loopVars, missed>>

\* The fetcher dies: its memory, its requests and its loops.  The clients that
\* wait get an error.
FetcherCrash ==
  /\ Spend("fault")
  /\ cache' = NoCache
  /\ req' = [t \in Task |-> Idle]
  /\ creator' = [t \in Task |->
       IF t = Loop \/ creator[t].pc = "wait" THEN Idle ELSE creator[t]]
  /\ deleter' = [s \in Sub |-> IF deleter[s] = "clear" THEN "clear" ELSE "idle"]
  /\ missed' = missed \cup {s \in Sub : deleter[s] = "gone"}
  /\ hanging' = NoHanging
  /\ pass' = NoPass
  /\ UNCHANGED <<flightVars, sub, remoteVars>>

Next ==
  \/ \E t \in ApiTask : (\E f \in Flight : AppCreate(t, f)) \/ ApiCrash(t)
  \/ \E t \in Task : \/ CreateCommit(t) \/ FetcherCreate(t) \/ RemoteCreate(t)
                     \/ FetcherCreated(t) \/ FetcherAnswer(t) \/ CreateTimeout(t)
  \/ \E s \in Sub : \/ DeleteRemote(s) \/ DeleteForget(s) \/ DeleteClear(s)
                    \/ DeleteLost(s) \/ ReceiveUpdate(s) \/ HangingDelete(s)
  \/ \E f \in Flight : TimePasses(f) \/ PassSkip(f) \/ PassNext(f)
  \/ HangingScan \/ HangingAnswered \/ PassStart \/ PassEnd
  \/ FetcherCrash

Spec == Init /\ [][Next]_vars

\* The creating loop never ends, and neither do the calls it awaits.
LoopStep ==
  \/ PassStart \/ PassEnd
  \/ \E f \in Flight : PassSkip(f) \/ PassNext(f)
  \/ CreateCommit(Loop) \/ FetcherCreate(Loop) \/ RemoteCreate(Loop)
  \/ FetcherCreated(Loop) \/ FetcherAnswer(Loop)

FairSpec == Spec /\ WF_vars(LoopStep)

-----------------------------------------------------------------------------
(* Properties. *)

\* Every variable holds a value of its column, task or request.
TypeOK ==
  /\ status \in [Flight -> {"eligible", "ended"}]
  /\ window \in [Flight -> {"early", "due", "past"}]
  /\ sub \in [Flight -> Sub \cup {None}]
  /\ alive \subseteq Sub
  /\ issued \in [Sub -> Number \cup {None}]
  /\ cache \in Cache
  /\ creator \in [Task -> Creator]
  /\ req \in [Task -> Req]
  /\ deleter \in [Sub -> {"idle", "asked", "gone", "clear"}]
  /\ hanging \in [todo : SUBSET Sub, awaited : Sub \cup {None}]
  /\ pass \in {NoPass} \cup [todo : SUBSET Flight, last : Flight]
  /\ missed \subseteq Sub
  /\ left \in [Event -> Nat]

\* The webhook handler looks a flight up by subscription and number: a flight
\* never carries a subscription made for another number, although the fetcher
\* answers from memory and tasks of several numbers overlap in it.
SubscribedToOwnNumber ==
  \A f \in Flight : sub[f] # None => issued[sub[f]] = NumberOf[f]

\* A flight claims a subscription AeroDataBox no longer has only while it is
\* being deleted, after the answer to its deletion was lost, or when its deletion
\* overlapped a task that carried its id; neither the fetcher's memory nor the
\* lending of ids between flights adds another way.
DeadOnlyIfMissed ==
  \A f \in Flight :
    (sub[f] # None /\ sub[f] \notin alive)
      => deleter[sub[f]] \in {"gone", "clear"} \/ sub[f] \in missed

\* background_tasks.py: "create_webhook_for_flight should expect list of flight
\* ids", those of the loop's flights.  When no call fails, every flight in the
\* window of the loop ends up with a subscription.
DueGetsSubscribed ==
  \A f \in Flight : <>[](Eligible(f) /\ window[f] = "due" => sub[f] # None)
=============================================================================
