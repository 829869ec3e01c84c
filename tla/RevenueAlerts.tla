---------------------------- MODULE RevenueAlerts ----------------------------
(***************************************************************************)
(* The script that tells a Telegram chat of trials and payments.           *)
(*                                                                         *)
(* A timer starts it; a file lock keeps it alone; it may die at any step.  *)
(* It reads the revenue facts of the app's database once, and keeps what   *)
(* it announced in a database of its own.  Telegram has no idempotency     *)
(* key: a message whose answer is lost is never sent again.                *)
(***************************************************************************)
EXTENDS Integers, FiniteSets, Common

CONSTANTS
  Sale,           \* production transactions
  Enabled,        \* the alert "system:enabled"
  BoughtAt,       \* [Sale -> Nat]
  AlertsPerRun,   \* LIMIT 20
  RetryAfter,     \* of an explicit refusal, bounded to 1..60 minutes
  LastMinute,     \* bound of minute
  MaxChanges,     \* bound of changes of the app's facts
  MaxRefusals     \* bound of refusals and deaths

Statuses == {"pending", "sending", "sent", "unknown", "suppressed"}
AlertRow == [row : Int, status : Statuses, next : Nat]

ASSUME SaleAssumption ==
  /\ Enabled \notin Sale
  /\ None \notin AlertRow /\ None \notin Nat
  /\ BoughtAt \in [Sale -> Nat]
  /\ RetryAfter \in Nat

VARIABLES
  minute,         \* the clock
  fact,           \* appstorerevenueevent: [Sale -> None, or what kind() says of the row]
  startedAt,      \* meta.started_ms
  known,          \* seen
  alert,          \* alerts, by id: None or [row, status, next]
  notifier,       \* the process: None, or what it holds in memory
  chat,           \* history: [id -> messages that reached the chat]
  historical,     \* history: the transactions there were at the initialisation
  changes, faults \* what was used of the bounds

revenueVars == <<minute, fact, startedAt, known, alert, notifier, chat, historical, changes, faults>>

AlertId == Sale \cup {Enabled}
Kinds == {"payment", "trial", "nothing"}     \* a revoked or an incomplete row is "nothing"
Alertable(k) == k \in {"payment", "trial"}

NewAlert(n) == [row |-> n, status |-> "pending", next |-> 0]
Places == {alert[i].row : i \in {j \in AlertId : alert[j] # None}}

-----------------------------------------------------------------------------
(* The process. *)

\* --initialize: what there is will never be announced.
Initialise ==
  /\ notifier = None /\ startedAt = None
  /\ startedAt' = minute
  /\ known' = {t \in Sale : fact[t] # None}
  /\ historical' = known'
  /\ alert' = [alert EXCEPT ![Enabled] = NewAlert(0)]
  /\ UNCHANGED <<minute, fact, notifier, chat, changes, faults>>

\* read_revenue, and the clock.
RunStarts ==
  /\ notifier = None /\ startedAt # None
  /\ notifier' = [step |-> "enqueue", rows |-> fact, now |-> minute, todo |-> {}, answer |-> None]
  /\ UNCHANGED <<minute, fact, startedAt, known, alert, chat, historical, changes, faults>>

SinceStart(t) == BoughtAt[t] >= startedAt

\* Mutant: an incomplete transaction is taken note of as well.
NotedIncomplete(t) == TRUE

\* A recent transaction that is incomplete may be completed later.
Noted(t) == SinceStart(t) => Alertable(notifier.rows[t])

Enqueue ==
  LET noted == {t \in Sale : notifier.rows[t] # None /\ Noted(t)}
      new == {t \in noted \ known : SinceStart(t) /\ Alertable(notifier.rows[t])}
  IN /\ notifier # None /\ notifier.step = "enqueue"
     /\ known' = known \cup noted
     /\ \E place \in [new -> Cardinality(Places)..(Cardinality(Places) + Cardinality(new) - 1)] :
          /\ \A t, u \in new : place[t] = place[u] => t = u
          /\ alert' = [i \in AlertId |-> IF i \in new THEN NewAlert(place[i]) ELSE alert[i]]
     /\ notifier' = [notifier EXCEPT !.step = "recover"]
     /\ UNCHANGED <<minute, fact, startedAt, chat, historical, changes, faults>>

\* Mutant: an alert whose sender died is sent again.
RetriedAfterDeath(status) == IF status = "sending" THEN "pending" ELSE status

\* The process that died may have sent it.
AfterDeath(status) == IF status = "sending" THEN "unknown" ELSE status

\* dispatch: first the alerts of a process that died, then the oldest that are due.
Recover ==
  LET due == {i \in AlertId : alert'[i] # None /\ alert'[i].status = "pending" /\ alert'[i].next <= notifier.now}
      oldest == {i \in due : Cardinality({j \in due : alert'[j].row < alert'[i].row}) < AlertsPerRun}
  IN /\ notifier # None /\ notifier.step = "recover"
     /\ alert' = [i \in AlertId |-> IF alert[i] = None THEN None
                                      ELSE [alert[i] EXCEPT !.status = AfterDeath(@)]]
     /\ notifier' = [notifier EXCEPT !.step = "dispatch", !.todo = oldest]
     /\ UNCHANGED <<minute, fact, startedAt, known, chat, historical, changes, faults>>

\* The next alert of the run.
Oldest(i) ==
  /\ notifier # None /\ notifier.step = "dispatch" /\ i \in notifier.todo
  /\ \A j \in notifier.todo : alert[i].row <= alert[j].row

Announceable(i) == i \in Sale => Alertable(notifier.rows[i])
Become(i, status) == alert' = [alert EXCEPT ![i].status = status]

Suppress(i) ==
  /\ Oldest(i) /\ ~Announceable(i)
  /\ Become(i, "suppressed")
  /\ notifier' = [notifier EXCEPT !.todo = @ \ {i}]
  /\ UNCHANGED <<minute, fact, startedAt, known, chat, historical, changes, faults>>

\* The intent is committed before the request.
Intend(i) ==
  /\ Oldest(i) /\ Announceable(i)
  /\ Become(i, "sending")
  /\ notifier' = [notifier EXCEPT !.step = "send"]
  /\ UNCHANGED <<minute, fact, startedAt, known, chat, historical, changes, faults>>

\* telegram_send: the message arrives or does not, and the answer may be lost.
SendMessage(i) ==
  /\ notifier # None /\ notifier.step = "send"
  /\ i \in notifier.todo /\ alert[i].status = "sending"
  /\ \E answer \in {"sent", "pending", "unknown"} :
       /\ notifier' = [notifier EXCEPT !.step = "record", !.answer = answer]
       /\ answer = "pending" => faults < MaxRefusals
       /\ faults' = IF answer = "pending" THEN faults + 1 ELSE faults
       /\ \/ answer # "pending" /\ chat' = [chat EXCEPT ![i] = @ + 1]
          \/ answer # "sent" /\ UNCHANGED chat
  /\ UNCHANGED <<minute, fact, startedAt, known, alert, historical, changes>>

RecordAnswer(i) ==
  /\ notifier # None /\ notifier.step = "record"
  /\ i \in notifier.todo /\ alert[i].status = "sending"
  /\ alert' = [alert EXCEPT ![i].status = notifier.answer,
                            ![i].next = IF notifier.answer = "pending" THEN notifier.now + RetryAfter ELSE @]
  /\ notifier' = [notifier EXCEPT !.step = "dispatch", !.todo = @ \ {i}, !.answer = None]
  /\ UNCHANGED <<minute, fact, startedAt, known, chat, historical, changes, faults>>

RunEnds ==
  /\ notifier # None /\ notifier.step = "dispatch" /\ notifier.todo = {}
  /\ notifier' = None
  /\ UNCHANGED <<minute, fact, startedAt, known, alert, chat, historical, changes, faults>>

\* It is killed, or its database is locked.
RunDies ==
  /\ notifier # None /\ faults < MaxRefusals
  /\ notifier' = None
  /\ faults' = faults + 1
  /\ UNCHANGED <<minute, fact, startedAt, known, alert, chat, historical, changes>>

-----------------------------------------------------------------------------
\* The app learns of a transaction, or something fresher of one.
Learn(t, k) ==
  /\ changes < MaxChanges
  /\ fact[t] # k
  /\ fact' = [fact EXCEPT ![t] = k]
  /\ changes' = changes + 1
  /\ UNCHANGED <<minute, startedAt, known, alert, notifier, chat, historical, faults>>

MinutePasses ==
  /\ minute < LastMinute
  /\ minute' = minute + 1
  /\ UNCHANGED <<fact, startedAt, known, alert, notifier, chat, historical, changes, faults>>

RevenueInit ==
  /\ minute = 0
  /\ fact = [t \in Sale |-> None]
  /\ startedAt = None
  /\ known = {} /\ historical = {}
  /\ alert = [i \in AlertId |-> None]
  /\ notifier = None
  /\ chat = [i \in AlertId |-> 0]
  /\ changes = 0 /\ faults = 0

RevenueNext ==
  \/ Initialise \/ RunStarts \/ Enqueue \/ Recover \/ RunEnds \/ RunDies \/ MinutePasses
  \/ \E i \in AlertId : Suppress(i) \/ Intend(i) \/ SendMessage(i) \/ RecordAnswer(i)
  \/ \E t \in Sale, k \in Kinds : Learn(t, k)

RevenueSpec == RevenueInit /\ [][RevenueNext]_revenueVars

-----------------------------------------------------------------------------
\* Refused messages are sent again and lost answers are not, so that no message reaches
\* the chat twice, whenever the script dies; what there was at the initialisation, or
\* was bought before it, is never announced, however late it is learnt.
NeverAnnouncedTwice ==
  /\ \A i \in AlertId : chat[i] <= 1
  /\ \A t \in Sale : chat[t] > 0 => t \notin historical /\ BoughtAt[t] >= startedAt

\* A transaction taken note of after the initialisation is not forgotten: it is of
\* before, or has its alert, although it was seen incomplete first.
NoneForgotten ==
  \A t \in known \ historical : BoughtAt[t] < startedAt \/ alert[t] # None
=============================================================================
