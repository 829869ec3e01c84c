# A TLA+ model of the Sofly flight-tracker backend

The repository is the backend of an iOS flight tracker: a FastAPI service
(`src/core/main.py`, several gunicorn workers), a second process that polls
AeroDataBox and runs the periodic loops (`src/core/fetcher_service.py`,
`src/core/background_tasks.py`), an AWS Lambda that takes incoming mail
(`src/lambda/`), timer scripts (`src/scripts/`), and one SQLite database that
all of them share. Its hard parts are protocols: rows read before an `await`
and written after it, several processes working on one row, calls to APNs,
AeroDataBox, Apple and Gemini whose answers are lost, and commands of the app
that arrive late or twice. This directory models those protocols, checks them
with TLC and proves the most important results with TLAPS.

## What is here

| Component | Module | Model-checking modules | Proofs |
|---|---|---|---|
| Live Activity delivery | `LiveActivity` | `MCLiveActivity`, three configurations | `PushProofs` |
| Starting Live Activities from the server | `PushToStart` | `MCServices` | `PushProofs` |
| AeroDataBox webhook subscriptions | `WebhookSubscription` | `MCWebhookSubscription`, two configurations | `WebhookSubscriptionProofs` |
| Flight alerts | `FlightAlerts` | `MCServices` | `FlightProofs` |
| Flight search | `FlightSearch` | `MCServices` | `FlightProofs` |
| From a pick to a stored flight | `FlightStore` | `MCMoreServices` | `FlightProofs` |
| Samples of failed searches | `SearchFailures` | `MCServices` | `FlightProofs` |
| Public share links | `FlightShare` | `MCMoreServices`; `MCFlightShare` with `MCFlightShare_removal.cfg` | `FlightProofs` |
| Delay preview | `DelayPreview` | `MCDelayPreview`, two configurations | `DelayPreviewProofs` |
| Permissions for Gemini (AI consent) | `AIConsent` | `MCAIConsent` | `ConsentProofs` |
| Forwarded e-mail | `EmailIntake`, which extends `AIConsent` | `MCEmailIntake` | `ConsentProofs` |
| What the consent to e-mail promises | `EmailAuthority`, the abstract specification `EmailIntake` implements | through `MCEmailIntake` | through `ConsentProofs` |
| App Store subscriptions and access | `Subscriptions` | `MCServices` | `PurchaseProofs` |
| Story notifications | `StoryPush` | `MCServices` | `PushProofs` |
| Cockpit stories | `Cockpit` | `MCMoreServices` | `CockpitProofs` |
| Journey experiments | `ActivationJourney` | `MCServices` | `JourneyProofs` |
| Diagnostic events | `Diagnostics`, which extends `ActivationJourney` | `MCServices` | `JourneyProofs` |
| Older experiments and goals | `Experiments`, which extends `Diagnostics` | `MCServices` | `JourneyProofs` |
| Recovery of purchases | `Recoveries` | `MCMoreServices` | `PurchaseProofs` |
| Telegram revenue alerts | `RevenueAlerts` | `MCMoreServices` | `PurchaseProofs` |

`PROJECT.json` maps every definition to the lines it models and lists the runs,
the mutants, the findings, the hazards and the theorems.

Conventions shared by the modules:

- A transaction of SQLite is one action. Python's `sqlite3` starts a write
  transaction at the first data-changing statement, so a `SELECT` before it
  reads the latest commit and is not protected: a read followed by an `await`,
  or by the first write of the handler, is an action of its own, and the copy
  it made is kept in the state of the request (`hdl`, `request`, `login`,
  `todo`).
- The ORM writes the columns whose value differs from the copy it read and no
  others. Where that matters (`Rotated`, `Rekeyed`), the model does the same.
- The outside world (the app's requests, webhooks, page views, ticks of the
  clock, faults of the network or a process) is bounded by one constant
  `Budget`, a number for each kind of event, spent by `Spend`. Nothing else
  bounds a behaviour, except `MaxNow` and `MaxAttempts` in `LiveActivity`,
  `MaxDeliveries`, `MaxAge` and `MaxAttempts` in `EmailIntake`, `Horizon`,
  `Span` and `Busy` in `DelayPreview`, and the clocks and numbers of requests named in the
  smaller modules, which are explained below. The theorems hold for every value of all of them.
- Modules that are checked in one sum (below) share `None` of `Common` and no variable; names
  of their definitions are therefore different.
- A definition whose comment starts with *Mutant* is a plausible mistake in the
  definition below it; putting it in place makes the property named in
  `PROJECT.json` fail.

## Inventory

For each component: the state it keeps, its operations, with whom it interacts,
what is hard about it and what makes it correct.

**Live Activity delivery** (`services/apn/live_activity.py`, `routers/users.py`
270-505, `background_tasks.py` 371-394). State: `live_activity_registration`,
one row per ActivityKit activity with its push token, its flight, the latest
APNs timestamp, a snapshot of the content last acknowledged, and `active`.
Operations: register and rotate, unregister, removal of a flight, sending
(webhook tasks, registration tasks, the one-minute reconcile loop). It talks to
APNs, which may fail, lose its answer or reject a token. Hard: two senders of
one activity, a rotation between a send and its completion, a crash after the
reservation of a timestamp. Correct when the snapshot never claims something
the device does not show, a completion only ends what is over, and the
reconcile loop in the end brings every device up to date. The module also keeps
`live_activity_push_to_start_delivery` as far as a registration changes it.

**Webhook subscriptions** (`background_tasks.py` 152-368, `fetcher_service.py`,
`routers/webhook.py`). State: `Flight.subscription_id` and `has_subscribed`, and in
the memory of the fetcher the number and id of the latest subscription made.
Operations: creation by a task of the API or by a loop, lending between flights
of one number, deletion by the webhook handler or another loop, the webhook
itself. It interacts with AeroDataBox through the fetcher's HTTP interface, whose
clients give up after five seconds while the fetcher goes on. Correct when a
flight carries a live subscription of its own number.

**Flight alerts** (`services/apn/utils.py`, `services/apn/service.py`,
`routers/webhook.py`). State: the times last announced per flight. Operations: each
snapshot chooses at most one alert, by priority, and time alerts compare with
the announced times. Hard: two snapshots handled by two workers, a snapshot
whose alert fails. Correct when what is noted as told is what users were told, and a
change of ten minutes or more is not swallowed by small steps.

**Share links** (`services/flight_share.py`, `routers/flight_share.py`). State: one
row per share with a hash of its token, the time of revocation and a count of
views. Operations: create or reuse, read, revoke, resolve, count; the removal of a
flight and of the account revoke. Hard: the check that the user tracks the flight
and the insertion are different transactions; a change of `JWT_SECRET` changes
every token. Correct when a link that was given works, a revoked one never
does again, and no view is lost.

**Delay preview** (`services/flight/delay_preview.py`). State: a claim per account
and installation with a revision, a lease, a count of builds and the final
result; a cache of provider payloads and results; budgets of builds per day and
minute. Operation: one request that binds, builds and settles in up to five
transactions around its calls of the provider. Hard: leases that expire while
the build goes on, retries, some of several calls failing. Correct when an account
gets one flight's result, the provider is asked at most twice for it, a failure is
never shown as calm, and a final result stays.

**AI consent** (`services/ai_consent.py`, `routers/ai_consent.py`, sign-in in
`routers/users.py` 91-153). State: permissions with a revision, receipts of
commands, the address Apple has proven. Operations: read, command, verify an
address, sign in, delete the account. Hard: commands that arrive late or twice,
sign-in and verification that wait for Apple. Correct when a command is applied only
to what the user had seen when giving it.

**Forwarded e-mail** (`services/email_ingress.py`, `background_tasks.py` 34-149,
`routers/incoming_email.py`, `email_ingress_contract.py`, `src/lambda/`,
`services/gemini/service.py` 177-324). State: one receipt per message, never
deleted. Operations: delivery by the Lambda, claim, a check of the permission before
every send to Gemini and around the search for the flight, linking, finishing.
Hard: duplicates, permissions withdrawn half-way, crashes. Correct when a message is
processed once, under the permission it was claimed for.

**Story push campaigns** (`services/story_push.py`, `story_push_entitlement.py`,
`scripts/send_story_notifications.py`). State: a frozen campaign per day and window, a
delivery row per device. A timer starts a worker every ten minutes and ends it after
five; the worker for a tester's device has a timer of its own and overlaps it, as does a run by
hand. Hard: at-most-once delivery over crashes and lost answers, limits in a moving
window, devices that move to another time zone or account. Correct when no device gets a
story twice, the campaigns of an account keep their distance, and a window has one story.

**Push-to-start** (`services/apn/live_activity.py` 285-528, `routers/users.py`
252-332). State: a token per device, a delivery per device and flight. Hard: one
commit at the end of a pass whose flushed rows hold the write lock while it waits for
APNs. Correct when an activity is started once, up to what a crash forgets.

**Subscription lifecycle and revenue** (`routers/subscriptions.py`,
`services/subscription_lifecycle.py`, `revenue_measurement.py`, `services/app_store/`,
`routers/webhook.py` 176-340). State: the freshest snapshot of each transaction, every
notification, a revenue event per transaction, and a lease of access per user, derived
from the others. Hard: old snapshots reported again, notifications late, twice or before
the first report, handlers that overlap. Correct when the newest fact wins in both
tables and nobody keeps access that the facts do not give.

**Activation journeys, diagnostics, older experiments** (`services/activation_journey.py`,
`routers/activation_journey.py`, `routers/experiment_diagnostics.py`,
`services/goal_confirmation.py`, `routers/subscriptions.py` 30-600). State: the identity of an
installation in an experiment with the context that was frozen, and the ledgers that
carry it; events by id; answers by revision. Hard: the phone's fallback against the server's
proposal, batches sent again, answers out of order. Correct when all ledgers agree on the
frozen context, what was acknowledged is stored, and the newest answer wins.

**Activation recovery** (`routers/subscriptions.py` 601-720, `services/activation_recovery.py`).
State: a row per purchase whose flight is still being saved. Hard: reports that overlap
each other and the loop that alerts. Correct when what is resolved stays resolved.

**Search failure log** (`services/search_failure.py`, `scripts/cleanup_search_failures.py`,
`routers/flights.py`). State: encrypted samples with an expiry. Hard: an operator's report
that takes long, and a sweep in bounded batches. Correct when nothing past its retention
is answered, and a sweep that reports success has deleted all that had expired.

**Cockpit stories** (`services/cockpit_*.py`). State: a cursor per search, the messages seen, a
queue, budgets. Hard: pages cut off by failures, listings that come late, the death of the
worker between a claim and its answer. Correct when every message is read and yet paid for
once.

**Flight search** (`services/flight/service.py`, `api_client.py`, `mapper.py`,
`routers/flights.py`). Hard: days and half days of which some fail, flights listed twice, an
empty answer that must say why. **From a pick to a stored flight** (the same files): lookups
that finish in any order, requests that hold uncommitted rows and with them SQLite's only
write transaction while they await the provider. Correct when the answer is what was picked.

**Telegram revenue alerts** (`scripts/telegram_revenue_alerts.py`). State: the transactions
taken note of and the alerts, in a database of its own. Hard: no idempotency key, so that
an alert is claimed before it is sent. Correct when nothing is told twice and nothing is
forgotten.

**Apple Ads** (`services/apple_ads.py`), **delay risk** (`services/flight/delay_risk.py`),
**Gemini prompts** (`services/gemini/`), **reports**, **static pages, flags and migrations**:
mapping, text, arithmetic over floats or read-only reports, with little or no state of
their own.

## Interactions

The components meet in the tables they share. `delete_flight_for_a_user` ends Live
Activities (`LiveActivity!RemoveFlight`) and revokes shares
(`FlightShare!RemoveFlight`). `delete_user` revokes shares
(`FlightShare!DeleteUser`) and takes the permissions (`AIConsent!DeleteUser`). A
webhook ends subscriptions (`WebhookSubscription!ReceiveUpdate`) and starts a sender
of Live Activities (`LiveActivity!WebhookCommit`, then `WorkerStart`). The requests
of `AIConsent` change what the jobs of `EmailIntake` check; these two are composed
in one state machine, since their interleavings are the point. The others are kept
apart: what one reads of another is a fact that may change at any time, which its own
actions model (a flight tracked or not, a status, a time).

The remaining pairs that share a table: `PushToStart` has the deletion of an account and the
registration of an activity (`Confirm`) as actions of its own, `StoryPush` a subscription
that ends (`ChangeAccess`; what makes it end is `Subscriptions`), `FlightStore` a link that
another request inserts. `Diagnostics` and `Experiments` extend `ActivationJourney`: the three
write the same tables, and the protocol of an installation is decided between them.

## The modules

### LiveActivity

`reg` is the table; `newest` is what APNs and the device hold: of the accepted
messages of an activity, the one with the greatest timestamp is shown. A
registration is `RegisterCheck`, `RegisterRead`, `RegisterCommit` (or
`RegisterFail`): the row is read before the transaction starts to write. A sender
(`WorkerStart`, `ReconcileNext`) reads the flight and its active rows
(`SendRead`), reserves a timestamp for each row in a transaction of its own
(`SendReserve`: a conditional `UPDATE` that also clears the snapshot), hands the
payloads to APNs (`SendGather`, `SendAttempt` with its retries), and writes all
outcomes in one transaction (`SendComplete`), each on condition that the row has
the same token, flight, preferences and timestamp. `Crash` kills any sender between
any two of these. Data is abstract: `Data` is what a flight says, `Terminal` the
part of it that ends an activity.

Properties:

- `SnapshotTruthful`: a snapshot that is set is the content of the newest message
  APNs took. It is what makes the suppression of equal updates right.
- `OnlyEndsDeliveredOrDead`: a completion switches a registration with a valid token
  off only after the end of its flight became the newest message.
- `Reconciles` (liveness): when events stop, every active registration shows the
  committed state of its flight, and none is of a terminal flight.
- `RotatedIsActive` and `NewestNeverRewinds` are expected to fail; see Findings.

### WebhookSubscription

`sub` is `Flight.subscription_id`; `alive` and `issued` are AeroDataBox's;
`cache` is the fetcher's memory. `creator[t]` is a task in
`create_webhook_for_flight`, `req[t]` its request inside the fetcher, which goes on
when the task has given up (`CreateTimeout`). `deleter[s]` is the deletion of a
subscription: at AeroDataBox, in the fetcher's memory, in the rows. `pass` and
`hanging` are the two loops. Histories: `missed` holds the subscriptions whose
deletion was lost, or ran while a task carried their id.

Properties: `SubscribedToOwnNumber` (the handler looks flights up by subscription and
number); `DeadOnlyIfMissed` (the precise circumstances in which a row claims a
subscription that is gone); `DueGetsSubscribed`, expected to fail.

### FlightShare

`row` is the table, `hashed` the secret the row's hash was computed with (a token is
computed from id and secret, so the pair stands for it), `request` an owner's
request between its transactions, `viewer` a page view between the page and its
count. Histories: the links `handed` out, the shares of those given since the
secret last changed (`current`), the views recorded (`viewed`); a view whose count
cannot be written is shown all the same (`LoseView`) and is not among them. `ended` moves both
ways because `share_expires_at` is recomputed on every read and a delay may move
it. `User.id` is a uuid and never issued again.

Properties: `HandedOutResolves`, `ViewsExact`, `RevokedStaysDead`, and
`RemovedStaysPrivate`, expected to fail.

### DelayPreview

`claim`, `inputs` and `results`, `day` and `minute` are the three tables (the cache
holds both payloads and results; their keys are told apart). `request[r]` is a
`POST /flights/delay-preview` between two of its transactions. `_bind` is
`BindRefused`, `BindStored`, `BindGo` for what it reads, then `BindInsert` or
`BindLease` for what it writes; `_build` is `BuildCached` or `BuildMissing`, `Reserve`,
then `Refuse` or `Attempt`, `AskProvider`, `Fetch`, and `SettleFailed` or `Finish`.
Every commit expires the ORM's copy of the claim, and the next use of it reads the
row again: `Reload`, `Refresh` and `RefreshFails` are these reads, of a row other
requests may have changed or deleted. A payload is one of three: without data,
with data that add nothing to the score, or that raise it. `Live` is what the times and
the status of the flight add, which are part of a result's key. Histories: `builds`
counts the calls of the provider for an account, `served` holds the flights it was
given results of, `overtaken` the accounts whose lease was taken while the request
that held it went on.

The clock bounds a request only by `Span`: a request may wait for SQLite's write lock
(5 s) in each of its transactions and for the provider (8 s) between them, longer than its
lease of 15 s, which counts from its start. `Busy` holds the minutes
whose budget other accounts may have spent. `MaxTries` is 2 in the runs, 3 in the code:
a first and a last round. `Die` is the death of a worker or a lock that was not free in time.

Properties:

- `OneFlight`: all results a registered account was ever given are of the flight its
  claim names, whichever of its installations and requests overlap.
- `TwoBuilds`: each call of the provider is counted on the claim, and there are at most
  `MaxBuilds` unless a lease was overtaken.
- `NeverFalselyCalm`: no result that lacks an input is stored on a claim unless it reads
  raised, which the missing input could not undo; and none at all is shared. (The code
  itself notes the exception of a four-point credit for flights that run early; the three
  kinds of payload leave it out.)
- `FinalUnlessOvertaken`: a final claim keeps its state and result, as long as no lease
  of it was overtaken. `FinalKept`, without that condition, is expected to fail.

### AIConsent

`consent`, `identity`, `apple` and `applied` are the tables; a missing row of
`UserAIConsent` reads like `FirstRow`. `command` holds every command the app has
sent; it is never emptied, so a command arrives late, twice or never. `login[l]` is a
request waiting for Apple: a verification (`VerifyStart`, `VerifyCommit`) remembers
the account's Apple id and revision; a sign-in (`SignInStart`, `SignInLookup`, then
`SignInRecord` for an Apple account that is known, `SignInAdopt` for a new one)
remembers nothing. A command carries, as a history, what its sender had `seen`; so
does a verification.

Properties:

- `AcceptedAsSeen`: a command is accepted only in the state of proof and permissions
  the app had read. The revision is the only thing the code compares; the property
  says that it is enough, because every change of the proof moves it too.
- `OlderVerificationHarmless`: a verification that changes the proof finds what it
  had read before it waited for Apple.
- `ReplayAcknowledged`: a command that was accepted is never answered with a conflict,
  neither before nor after.

### EmailAuthority and EmailIntake

`EmailAuthority` is the promise of `docs/ai-consent-v1.md`: a message is bound to one
account and one permission of it (`Claim`), given before the message was
received and while only that account has proven the sender's address; every send
happens under that very permission while it lasts (`Send`); a message is saved at most
once. It knows no requests, workers, retries or crashes.

`EmailIntake` extends `AIConsent` with SES (`Receive`), the Lambda (`Deliver`, up to
`MaxDeliveries` times since its retry may follow a lost answer), the jobs in the
workers (`Claim`, `CheckClaimed`, `Attempt`, `Reply`, `CheckGot`, `CheckHandled`,
`Link`, `Fail`, `Finish`) and their death (`Crash`). The refinement mapping reads the
abstract state off the tables: the address proven by an account (`provenAddress`), its
permission in force (`permission`: nothing unless `Enabled`), the binding of a
receipt. `KeepsAuthority` is `Authority!Spec`: the detailed system implements the
abstract one. Assumptions: SES and the service read one clock; a message id has one
proof, so the rejection of a changed proof is not modelled; the check in the sending
thread and the request that follows it in the next statement are one step, as no
backend can recall a request that has left.

### PushToStart

`startReg` and `startLedger` are the tables; `startPass` is a pass of `start_due_activities`, with
the devices it has still to come to (`todo`) and the due flights of the one it is at, the rows it
has changed and not committed, and what it has `sent`. A registration is `RegisterStartRead` and
`RegisterStartCommit`, a pass `PassStart`, then `PassDevice`, `PassFlight` and `PassSend` for each
device and due flight, then `PassCommit`. What a pass has changed is flushed by its next query,
so that it holds the write lock while it waits for APNs (`Locked`), and a failure of
anything forgets all of it (`PassDie`, which takes what it has sent out of `startSettled`). `StartedOnce`: no start that APNs has taken, or
refused for good, is sent again with its token, unless its pass died. `StartTokenKept` fails,
see Findings.

### FlightAlerts

`flightRow` is the flight with its departure and arrival, `notice` the times last told,
`alerter[w]` a webhook request: `HandleRead`, `HandleCommit`, `SendAlert`. `Alerts` is what a
snapshot gives rise to (status, time, and the details of both ends, each with its priority),
`Chosen` the one that is sent, `Notified` what is noted as told. Times are minutes.
`DriftAnnounced`: after a commit that saw no other in between, no end is ten minutes or more
from what users were told, unless an alert of equal or higher priority was sent instead.
`NoticeTruthful`: the notices are what users were told, as long as requests do not overlap
and alerts arrive (a commit before the send loses the alert of a crash).

### FlightSearch

One request from its text to its answer: `Submit`, `AskModel` or `AskPositions` where the rules
do not recognise it, then a day at a time `AskFlights` or `AskAirport` (two half days, of
which one may fail) with `DayAnswered`, or a failure. `Exclusion` is why a flight cannot
be tracked; `Ranked` merges the listings of one physical flight (`BestListings`) and orders them
(`SortKey`). A search by number ranks for that number, so `ActiveWins` speaks of the others.
`ActiveWins`: of the listings of one physical flight, one that can be tracked is never
hidden by one that cannot. `EmptyAccounted`: an empty answer accounts for every day that was
asked. `NeverFalselyEmpty` fails, see Findings.

### FlightStore

`stored`, `flightLink` and `hasSearched` are committed; `handling[w]` is a request with the rows
it has flushed (`fresh`); `writer` is the one that holds the write transaction meanwhile. A
pick on the map starts lookups that end in any order (`LookupEnds`), is decided in turn
(`Settle`, `TurnOf`: the picked aircraft first), and inserts the listing of the one that won
(`Insert`, or `InsertFails` when the lock is not had or a row is refused). A pick of the
search reads rows or the provider (`ReadExact`), chooses (`ChooseExact`), links (`TrackExact`), or
falls back to the airport's board (`FromBoard`). `AnsweredAsPicked`: whoever else inserts,
locks or fails, the answer is the flight of the candidate whose turn it was, stored once it is
answered, with no row left over of a candidate that lost. The two selectors, one over what
the provider lists and one over the rows made of it, weigh differently (`ListedPoints`,
`StoredPoints`), so they can part: the property says how far, and an instance has them part.

### SearchFailures

`sample` is the table; `sweep` the clean-up process (`SweepStart`, `SweepBatch`, `SweepStop`,
`SweepAssess`, `SweepSave`, `SweepFail`), `report` an operator's report (`ReportSelect`,
`ReportItem`, `ReportAnswer`). Samples of an older version had their expiry extended by
retries. `ReportedLive`: nothing past its retention is answered, not even as a count.
`SuccessMeansSwept`: a sweep recorded as a success left nothing that had expired.

### Subscriptions

`signed` and `notices` are what Apple has signed and sent, each of which arrives any number of
times. A report of the app is `ReportRead`, `ReportCommit` (between them, certificates are checked on
line); a notification `NotifyRead`, `NotifyCommit`. `Granted` is the entitlement the facts give,
`Refreshed` the lease written for the users whose copies differ. Properties:

- `FactsFreshest`: whatever the order of arrival, a transaction is as it was signed last.
- `RevenueAgrees`: its revenue event agrees with it.
- `LeaseFollowsFacts`: a lease that runs is granted by the facts, but for those whom a change of
  facts has passed by. The history `unsettled` has them: users of a subscription whose facts
  changed by a report of another user, or by a notification that has no transaction or did
  not find them; users whose lease another worker wrote after they were read; and users of a
  grace period that a notification takes back without refreshing anybody (`Withdraws`). The end of a grace period is any date (`GraceDate`).
  The run reaches the last case: without it in `unsettled` TLC finds a grace period of two
  hours, the snapshot of a later change of auto-renewal reported by the app, and then the
  notification itself, which has no grace, updates no row and refreshes nobody.
- `AccessImpliesGrant`: `has_subscription_access`, the test of the story worker, lets nobody pass
  whom the facts do not grant the lease, periods bought ahead excepted.

`RefundClears` fails, see Findings.

### StoryPush

`phone` is what the app has registered, `campaign` and `delivery` are tables, `sender[p]` is a worker
with its copies of the devices and the time it started at. A run is `StartSender`, then for
each device one of `PassOver` (not eligible), `PickOutside` (no window in its zone), `PickCached`,
`PickFrozen` (the two ways to a story already chosen) and `Freeze` (`campaign_for` chooses), then
`Reserve`, `Recheck`, `SendStory`, `RecordOutcome`, and `EndRun`. `RunSpan` is what a run takes
at most (`TimeoutStartSec` of `ops/systemd/sofly-story-push.service`): a worker takes the time it
started at for the present, so without it a reservation could be purged, or fall out of the last
24 hours, under a worker that still counts on it.
`handed` is the history of what APNs was given. `ToldOnce`: a transmission is given to APNs once
for a device and account within the retention, less what a run takes. `CampaignsSpaced`: three
hours between campaigns, three in a day less what a run takes. `OneStoryPerWindow`: the story of a window is the frozen one, and no two
campaigns carry one transmission. `DeletedForgotten` fails, see Findings.

### Cockpit

`cursor` is where each search stands, `refresh` the worker with its page or claim, `queue`,
`review`, `attempt`, `debit` and `airStory` the tables behind a review. A run searches
(`PickSearch`, then `TakePage` or `LosePage` for each page; `LeaveTracked`, `EndSearch`).
`TakePage` begins the transaction of a page, `QueueRow` takes one of its rows, in any order, and
`CommitPage` commits what they queued together with the cursor; a full queue rolls all of it back
and ends the run. Then the run has messages reviewed
(`Select`, `Ask`, `RecordVerdict` or `RecordHttpFailure`), until `EndRefresh`, which also stands for
its death. What a text says is a constant (`Nature`, `Content`, `Happening`). `ReadAndPaidOnce` has
two parts: `NoneSkipped`, what lies behind a cursor was read or is out of reach by now; and
`NoneAskedTwice`, the AI is asked about a message again only after an error that was explicitly
transient, and `MostTries` times at most.

### ActivationJourney, Diagnostics, Experiments

`identity` is the reservation of an installation with its frozen context, `proposal` the
server's assignment, `entry` the enrollment, `capture`, `firstPick`, `attribution`, `journeyGoal`
the ledgers. A request checks before its first write (`Begin...`) and writes in one transaction
(`Assign`, `Enroll`, `StoreEvents`, `Expose`, `EnterCohort`, `Convert`), or is refused.
`Diagnostics` adds batches of events: `StoreEvents`, or `EventsCollide` when another attempt has
stored one of them first. `Experiments` adds the older cohorts and the goals question.
Properties: `ContextAgrees` (all ledgers of an installation carry its frozen context),
`EventsKept` (an acknowledged event is stored as it was sent, its journey has its entry, and
no checkout attempt has two ends), `GoalsNewest` (the answer kept is the newest one
acknowledged). `OneJourney` fails, see Findings.

### Recoveries

`recovery` is the table, `waiting[w]` a report between read and commit (`BeginReport`,
`CommitReport`), `monitor` the loop that alerts (`MonitorReads`, `MonitorCommits`). The ORM writes
the columns that differ (`SavedColumns`). `ResolvedStays`: no overlap of reports and the
loop turns a resolved row back, or forgets that it was alerted.

### RevenueAlerts

`known`, `alert` and `startedAt` are the script's database, `fact` what it reads of the app's,
`notifier` the process between its steps: `RunStarts`, `Enqueue`, `Recover`, then for each alert
`Suppress` or `Intend`, `SendMessage`, `RecordAnswer`. `chat` counts what arrived. A refusal
means that nothing was delivered, and is tried again; a lost answer is not.
`NeverAnnouncedTwice`: no message arrives twice, and nothing of before the initialisation
arrives at all. `NoneForgotten`: what was taken note of since has its alert, also if it was
incomplete when first seen.

## Runs

| Run | Question | Instance | Result |
|---|---|---|---|
| `live_activity` | snapshot, deactivation, reconciliation | 1 activity, 2 tokens, a live and a terminal state, 1 worker and the fetcher, 1 webhook, 2 requests, 1 background run, 1 fault | holds |
| `live_activity_race` | does a rotation leave the activity registered? | as above, one live state, no webhook | violated |
| `live_activity_overlap` | is a device never sent back? | as above, 1 request, no fault, 2 clock readings | violated |
| `webhook_subscription` | own number, dead subscriptions | 3 flights of 2 numbers, 2 subscriptions, 1 task and the loop, 2 inputs, 1 fault | holds |
| `webhook_pass` | does the loop subscribe due flights? | the same flights, no inputs, no faults, the loop fair | violated |
| `services` | the promises of `Subscriptions`, `StoryPush`, `FlightAlerts`, `PushToStart`, `FlightSearch`, `SearchFailures` and the three journey modules | one component per behaviour, see below | holds |
| `more_services` | the promises of `FlightShare`, `Cockpit`, `RevenueAlerts`, `Recoveries` and `FlightStore` | one component per behaviour, see below | holds |
| `flight_share_removal` | does a removal keep old links private? | 3 requests, no views, no restart | violated |
| `delay_preview` | one flight, two builds, nothing falsely calm, final results | 1 account with 2 installations, 2 flights, 2 inputs, 2 requests at once, 3 in all, 1 death or deletion, 3 ticks, a lease of 1, a cooldown of 2, a request of at most 2 | holds |
| `delay_preview_stall` | does a final result stay? | the same, a cooldown of 4 leases as in the code, a request of at most 1 tick, 5 ticks | violated |
| `ai_consent` | commands and verifications | 2 users, 1 Apple account, 2 addresses, 2 request ids, 2 waiting requests, 2 commands sent, 3 sign-ins or verifications, 1 tick | holds |
| `email_intake` | refinement of `EmailAuthority` | 2 users, 1 Apple account, 1 address, 1 message delivered twice to 2 jobs, 2 attempts, 2 commands, 2 sign-ins or verifications, 2 ticks | holds |

`services` and `more_services` check several components in one run. These share no variable
and do not interact, so their product would only multiply states: the variable `component`
picks one that runs, and the others stay as they began. Each property speaks of one of them. The
instances:

- `Subscriptions`: 2 users, 2 workers, a period and its renewal (one bought with a token of the
  first user, one without), 2 things Apple signs or sends, of 6 forms (one of them informational:
  a change of auto-renewal), grace periods that end at 1 or at 2, 3 requests, a clock of 2
  readings. A Lifetime purchase is in the module, not in the instance.
- `StoryPush`: 1 account with a phone that may move to another zone or be joined by a
  second one, 3 stories of which two read alike, 2 overlapping workers, 1 request of the app,
  the hours 10, 12 and 34: two windows of a day and one of the next, a retention of 24 and runs
  of up to 2.
- `FlightAlerts`: 2 workers, 3 snapshots out of 6 that move times by 6 and 12 minutes, retract
  them, change status, gate and aircraft.
- `PushToStart`: 1 phone, 2 tokens, 2 flights, 3 passes, 3 requests of the app.
- `FlightSearch`: every kind of search, up to 2 of 5 listings a day: one flight under two numbers,
  landed, cancelled, of another route, without times.
- `SearchFailures`: 2 samples of which one is of the older version, batches of 1, 2 batches, 3 days.
- Journeys: 1 installation, 2 accounts, 2 workers; each behaviour has one profile of requests
  (`JourneyBudgets`), chosen so that every pair of request kinds that can disturb each other
  occurs; batches of at most 2 events, of which at most one concerns a protocol.
- `FlightShare`: 2 users, 1 flight, 2 shares, 2 secrets, 2 requests and 2 viewers at once, 4
  requests, 2 views, 2 restarts.
- `Cockpit`: 3 messages, 2 searches, of which one for a saved flight every run, pages of 1, 2 pages a
  run, 4 ticks of the timer, windows that overlap by 1 and start afresh after 2; profiles
  (`AirBudgets`) of faults and late listings, of reviews, of both with room in the queue.
- `RevenueAlerts`: 2 sales, one of before the initialisation or not, 2 changes of facts, 2
  refusals or deaths, 1 alert per run.
- `Recoveries`: 2 purchases, of which one of the sandbox, 2 workers, 4 reports, 3 instants.
- `FlightStore`: 4 picks (an aircraft with an alternative, one alone, two flights of the search), 2
  handlers, 3 requests.

`Beyond`, `BeyondReports` and `BeyondPicks` let a component stutter when its bounds are used up,
so that `more_services` checks every component for deadlock; in `services` the components may
stop, so it does not.

Why these bounds suffice. Each instance has two of whatever races: two senders, two
tokens, two flights of one number beside one of another, two requests for one share,
two requests waiting for Apple, two requests of one account, two jobs of one message, and enough requests and
faults that every action fires. One activity is enough for `LiveActivity`: apart from
the row of a stolen token, which `RegisterCommit` switches off, the rows do not
interact, and the theorems cover any number. `MaxAttempts = 2` has a first and a last
attempt. In `email_intake` a tick is the unit in which "strictly before" and
`MaxAge` are told apart: with two ticks and `MaxAge = 0` a permission may be older
than the message, as old or younger, and a receipt may be stale.
Its constraint `EmailMatters` leaves out behaviours in which a command was
refused (a history of `AIConsent`) or search was denied (which e-mail does not
read). `AIConsent`, `EmailIntake` and `services` may stop when their budgets are spent, so
these do not check for deadlock; the other runs do. The type invariants are
proved (that of `FlightSearch` is `SearchTypes`, which only the proof needs) and checked in a run where the
proof has not made that idle.

Symmetry is used only in runs without liveness properties, over constants the
specification treats alike.

## Fairness

Only two processes are assumed fair. `FairSpec` of `LiveActivity` has weak
fairness of `FetcherStep`: the reconcile loop is an endless `while True` that catches
the exceptions of a pass and sleeps for a minute, every `await` in it has a timeout,
and gunicorn replaces a worker that dies. The background tasks of the API have no
fairness: they may stop anywhere, and `Reconciles` must not depend on them.
`FairSpec` of `WebhookSubscription` has weak fairness of `LoopStep`, the creating loop
and the calls it awaits. No fairness is assumed of users, AeroDataBox or APNs beyond
that a call the loop awaits returns.

## Proofs

All theorems are about every value of the constants, under the named assumptions of
the modules (that `None` is not a row, a grant and so on, that bounds are natural
numbers). Each proof has an invariant that is inductive, a lemma per action or per part
of it, and one temporal step.

- `PushProofs`, `LiveActivity`. `SnapshotTruthful` is not inductive: that a completion may record
  its content rests on the timestamps. `OrderInv`: reservations give an activity
  strictly growing timestamps, so no two deliveries share one and none is newer than
  the row. `AcceptInv`: what APNs holds under a delivery's timestamp is its content.
  `SnapshotInv`: the snapshot was recorded under the row's latest timestamp. From these:
  `TypeCorrect`, `SnapshotCorrect` and `DeactivationCorrect`.
- `PushProofs`, `PushToStart`. That a settled start is not sent again needs that the pass finds
  it (`SettledInv`): in the ledger it can read, if an earlier pass settled it, or in the rows it
  is to commit. The ledger keeps one token for each device and flight, so this needs that tokens
  only grow, in the registration, its copies and the ledger (`TokensInv`), and that a pass comes
  to a device and a flight once (`OnceInv`). From these: `StartTypeCorrect`, `StartedCorrect`.
- `PushProofs`, `StoryPush`. Types first, with `PushAssumption`. `Timely`: a worker is not older than
  `RunSpan`, nor younger than what it wrote, so nothing it counts on has been purged. `ToldInv`:
  whoever is about to send has a row in the table, which no other worker passes for the same
  device and transmission unless the account is gone, and then nothing is reserved anew that the
  recheck would let through. `FrozenInv`: a story in a worker's hand is bound to its window by the
  campaign, or else, once that is purged, by the window being past in every zone (`Bound`).
  `SpacedInv`: that four campaigns are kept from a day is not to be read off the rows, since a
  worker that started earlier may still add a row to the last of them; what is kept is that
  the 24 hours up to the latest row of a campaign hold at most three (`Few`, with `Cardinality`). From these:
  `ToldCorrect`, `OneStoryCorrect`, `SpacedCorrect`.
- `WebhookSubscriptionProofs`. `CacheInv`, `ReqInv`, `WaitInv` and `CommitInv` follow the
  number a subscription was made for from AeroDataBox through the fetcher's memory
  and the answer to the row. From these: `TypeCorrect` and `OwnNumberCorrect`. `DeadInv`: what
  the fetcher knows or is about to (`KnownInv`) exists, or is deleted and not yet forgotten,
  or was missed; what a row names, or a task carries towards one (`RowsInv`, `CarriedInv`),
  may also be deleted and not yet cleared. From it: `DeadOnlyIfMissedCorrect`.
- `FlightProofs`, `FlightShare`. A request that found a row knows its hash is current if its copy
  says so (`FoundInv`), or has made it so (`AnswerInv`); `RowKept` says what a step may
  change in a row at all. From these: `TypeCorrect`, `HandedOutCorrect`,
  `ViewsCorrect`, `RevocationLasts`.
- `FlightProofs`, `FlightAlerts`. `TellingInv`: what a handler under way will tell is what the
  notice says, so that `NoticeTruthful` outlasts its send. `NearInv`: a change of ten
  minutes or more always makes an alert, so what is not near was outranked by what
  was sent. From these: `AlertTypeCorrect`, `NoticeCorrect`, `DriftCorrect`.
- `FlightProofs`, `SearchFailures`. `ReadInv`: each sample a report selected is decrypted and
  not past its retention as far as it is answered, or left out, or still to be
  looked at. From it: `SampleTypeCorrect`, `ReportedLiveCorrect`, and `SuccessCorrect` for
  the sweep.
- `FlightProofs`, `FlightSearch`. The listings of a day are a function from their places in the
  answer, so what merging and sorting return is stated of a finite set. `BestIs`: each
  physical flight has a first best listing (well-founded induction on the naturals). `ScoreIs`: a status that
  can be tracked outweighs every estimate of one that cannot. `RankedIs`: all of the best are
  returned, since `SortKey` orders them strictly (it ends in a place) and counting those ahead gives
  every one a place of its own. `Accounts`: what is counted and remembered over the days asked is what they
  brought. From these: `ActiveCorrect` and `EmptyCorrect`, under `SearchAssumption` (listings have
  the fields of the read models, `None` is neither a number nor a reason).
- `FlightProofs`, `FlightStore`. `MapInv`: what a request on the map has settled was not found, or
  lost; the others wait for the first. `HandInv`: the row in hand is stored or its own. `MatchIs`:
  the flight that is meant is one of its listing (a least and a best element exist, by
  well-founded induction on the naturals); `StoredIs`: so its own row is among
  those inserted, and by the points nothing but the picked aircraft beats it. From these:
  `AnsweredCorrect`, under `FlightStoreAssumption` (listings are sequences; an `icao24`, once
  normalised, is not empty, as `_normalized_global_resolve_candidate` makes sure).
- `DelayPreviewProofs`. `BaseInv`: a request and a claim belong to the account of their
  installation, so the row found by the installation is the account's own. `RequestInv`:
  while a request works for an account, the claim is there and names its flight; what it
  read at a revision holds as long as the revision does. `SoleInv`: unless a lease was
  overtaken, one request goes on with a lease, and the claim is pending. `CountInv`: calls
  made and about to be made are counted on the claim. From these: `TypeCorrect`,
  `OneFlightCorrect`, `CalmCorrect`, `TwoBuildsCorrect`, `FinalCorrect`.
- `ConsentProofs`, `AIConsent`. `SeenInv`: what was read of an account at a revision is what holds
  as long as the revision does (`ReadAt`), because every step that changes it moves the
  revision (`Advances`). `ConflictInv`: a conflict lasts, since the revision has passed
  or the request id is taken. From these: `ConsentTypeCorrect`, `AcceptedCorrect`,
  `ReplayCorrect`, `OlderVerificationCorrect`.
- `ConsentProofs`, `EmailIntake`. `ConsistentInv`: a proof is for the Apple account its user is
  signed in with, so recording one is `Prove` or a stutter of `EmailAuthority`.
  `JobInv`: a job that has claimed is the only one of its message, its receipt says so,
  and the sends counted are its own; so its send is a `Send` and its link a `Save`.
  From these: `TypeCorrect`, and `KeepsAuthorityCorrect`, the refinement theorem.
- `PurchaseProofs`, `Subscriptions`. `FactsInv`: a row is the newest snapshot that was received,
  what is not there was not received, and revenue agrees with both. A worker holds what it
  read before it writes a lease, so `LeaseFollowsFacts` needs `LeasesBacked`: which
  transaction carries a lease, and until when, except for the users in `unsettled`; a
  transaction stays the latest of its subscription until a later one comes. A notification
  that refreshes nobody keeps this: one that decided and no longer does has been followed by
  it (`Followed`), and gives no more time than it unless the notification `Withdraws`. From these:
  `StoreTypeCorrect`, `FactsCorrect`, `RevenueCorrect`, `LeaseCorrect`, `AccessCorrect`.
- `PurchaseProofs`, `RevenueAlerts`. `Delivered`: what reached the chat did so once and is being
  sent, sent or unknown, so nothing picks it up again. That needs `InHand`, what the process has
  still to handle: at most one alert of its list is being sent, the others wait, and none of
  them has reached the chat before its answer is recorded. `OnlyLater`: only what was noted and
  bought since the initialisation has an alert, so one that is new has none yet. From these:
  `NeverTwiceCorrect` and `NoneForgottenCorrect`.
- `PurchaseProofs`, `Recoveries`. `ResolvedStays` is an action property, and a commit writes what an
  earlier read led to. `Respects`: a request changes neither the account nor the alert of the copy
  it read, and lets nothing wait that it read as resolved; with the ORM's write of changed columns
  only (`SavedFact`), that carries over to the row as it is by then. `Stands`: the row that
  was read is still there, with its account. From these: `ResolvedStaysCorrect`.
- `JourneyProofs`. One invariant for the three modules, which write the same tables. `ContextInv`:
  each ledger carries the context its identity froze, and what a request checked before its
  first write (`Good`) still holds at its commit. `EventsInv`: acknowledged events are stored as
  they were sent, with their entries, and a checkout attempt has one end. `GoalsInv`: the stored
  answer has the greatest revision acknowledged. From these: `CohortTypeCorrect`,
  `ContextCorrect`, `EventsCorrect`, `GoalsCorrect`.
- `CockpitProofs`. `Behind`: what a cursor, or the window under way, has behind it was read or is
  out of reach. Time and late listings leave that true (`BehindStays`), since no message
  is listed with an earlier time than the overlap reaches back. `PageFromTop`, `PageFull`: a page is the
  messages with the greatest ids, all of them unless it is full, so the least id of a
  full page is where to go on, and after a page that is not full the window is done (`NextBehind`).
  `Asked`: a message the AI was asked about has its row of attempts, with no fewer tries
  than questions, until it is too old to be queued; `Fits`: one that waits was only ever answered
  "too busy"; `Claimed`: so was the one in hand, and its tries are one ahead.
  From these: `ReadAndPaidCorrect`, under `AirAssumption`: the ids of messages differ, the
  overlap is no longer than `CatchUp` and what is news no older than the retention, as the constants
  of the code have it, and there are one to three tries (`MAX_ATTEMPTS`, for which
  `retry_delay` has pauses).

Model-checked only:

- `Reconciles`, since liveness and ENABLED are out of the prover's reach.
- The properties that fail, which TLC's behaviours show.

## Findings

- `RotatedIsActive` fails. `register_live_activity` reads the row before its
  transaction writes. A completion that deactivates the dead old token in between is not
  undone, because `active = True` does not differ from what was read and is not
  written. The app is told the activity is registered; it gets no updates.
- `NewestNeverRewinds` fails. A sender reads the flight once and reserves timestamps
  later; one that read an earlier state can reserve a later timestamp than one that read
  the current state. The device shows the old state until the next reconcile pass.
- `DueGetsSubscribed` fails. The creating loop passes `flight.id`, left over from an
  earlier loop, in place of `f.id`.
- `RemovedStaysPrivate` fails. A share inserted after the removal of its flight revoked
  the others becomes public when the flight is tracked again.
- `FinalKept` fails. `_transition` and `_finish` compare the claim's revision with
  `lease.revision`, read from an ORM copy that the commits of `_reserve_build` and of the
  cache have expired: it is read again just before the comparison, which then matches
  whatever happened in between. A request refused for capacity leaves that reason on
  the claim, so the next one leases without a cooldown; if it outlasts its 15 s, a third
  may lease and finish, and the second one's failure then overwrites the final result.
- `RefundClears` (`Subscriptions`) fails. A refund computes the entitlement anew, but the ORM
  writes `premium_valid_until` only if it differs from the copy read at the start of the
  handler: a lease that a report grants in between is not undone.
- `DeletedForgotten` (`StoryPush`) fails. A worker that rechecked a device reserves a send for
  its account after the account's deletion; the reservation stays until it is 90 days old.
- `StartTokenKept` (`PushToStart`) fails. A pass whose start is refused with an invalid token
  switches the registration off without comparing tokens; one the app has rotated meanwhile,
  which APNs never saw, is stored inactive.
- `NeverFalselyEmpty` (`FlightSearch`) fails. When half of an airport's day is not answered and
  the other half lists flights none of which was asked for, the search answers that
  the provider has no match.
- `OneJourney` (`ActivationJourney`) fails. Two overlapping requests of an installation, for both
  journey experiments, each find nothing and each reserve: the read comes before the
  transaction has the write lock.
- `docs/story-notifications.md` 20 allows "maximum three shared campaigns in any rolling 24
  hours". When the tester's worker and the other one overlap, the one that started earlier may
  add a row, stamped with its start, to a campaign the later one has begun, since `story_push.py`
  132 counts a campaign that is there already as no new one; the day up to that stamp may then
  hold a fourth. `CampaignsSpaced` is about a day less the span of a run.
- `update_flight_deparr_from_webhook_data` skips what the provider retracts, where
  `apn/utils.py` 257 says that the change is persisted; and `story_push.py` 19 has 24 hours and
  an interest of 30 where `docs/story-notifications.md` has 72 hours and 65. `FlightAlerts` and
  `StoryPush` model the code; `PROJECT.json` quotes both sides.

The first five each have a run of their own, whose name is in the table of runs. For the
next five, put the definition in place of the INVARIANTS and PROPERTIES of `MCServices.cfg`
and TLC prints the behaviour.

Observed and not stated as properties, since nothing in the repository promises
otherwise (or only a comment about something else does):

- Subscriptions to AeroDataBox: a deletion lost after AeroDataBox has carried it out is never
  repaired; two tasks may create two subscriptions of one number; the fetcher's balance is
  never raised by a refill; neither subscription loop survives a time it cannot parse.
- Accounts: a share, and a claim of the delay preview, may be inserted with the id of an
  account deleted meanwhile, and the claim then keeps the installation for good although
  `users.py` 553 says that it ends with the account; two guests who sign in with one Apple
  account at once become two accounts with it, after which mail of its address is refused; a
  sign-in does not compare revisions, so an older one completing late replaces a newer proof,
  and the permission ends with it.
- Flights: two `get_flights` of one flight at once create two rows, and a webhook's `.first()`
  then updates one of them. `get_exact_flight_temp` commits and answers a flight that is
  linked to nobody, and makes a new row at each call. A schedule change makes a snapshot
  match no row. `_select_matching_db_flight` does not compare the departure airport, and
  `_select_matching_global_live_flight` gives its 50 points when neither side has an
  `icao24`. If the flight it selects has no aircraft while another of the listing has the
  one that was picked, `_select_matching_db_flight` answers that other flight, but the
  selected one as soon as a row of its number is stored. An outage of the airport search is answered 503 without a sample. A write
  transaction held across an `await` keeps other handlers waiting for SQLite.
- Delivery: an exception in `send_multiple_batches` keeps the remaining background tasks
  from running; alerts are committed before they are sent, so a crash in between loses them;
  a device can pass MAX_PUSH_TO_START when an earlier flight is tracked later
  (`live_activity.py` 432).
- Subscriptions: a purchase without a token whose refund arrives before its first report keeps
  its revenue; a refunded renewal that is bought ahead cuts the current period in
  `refresh_current_entitlement` and not in `has_subscription_access`; a notification with
  renewal information and no grace, whose snapshot the app has reported before, ends a grace
  period in `refresh_current_entitlement` but refreshes nobody (`webhook.py` 313), so
  the lease runs on until its own end, at most MAX_PREMIUM_HOURS later.
- Journeys: a pending report that arrives after the recovery is resolved may leave its
  `failure_reason` on the resolved row; a batch that collides with its own retry is answered
  409; the second version of enrolment does not compare its variant with an exposure that is
  there; `activation_recovery.py` 19 emits an alert "once", and logs it before the commit that
  remembers it, so that a crash in between logs it twice.
- Cockpit: `docs/cockpit-feed.md` says that "notification eligibility is false", and
  `cockpit_ingestion.py` 608 sets it when the interest is 65 or more.

## Not modelled

`PROJECT.json` gives a reason for each component. Whole components left out: Apple Ads
attribution, the API monitor and the reports (each reads and formats, or calls a service and
stores the answer), static pages, flags and migrations. Within the modelled ones:

- `LiveActivity`, `PushToStart`: the deletion of an account.
- `WebhookSubscription`: the credit balance of AeroDataBox.
- `FlightShare`: the live state shown on a share's page, a read-only projection.
- `EmailIntake`: header and digest validation, which is a precondition of a receipt here.
- `AIConsent`: the version of the policy, which has one value; search consent, which is stored
  and no longer read by the search.
- `DelayPreview`: the validation and eligibility of a request (preconditions of `Start`), the
  kill switch, caps of zero and the change of day; the arithmetic of the delay risk.
- `FlightStore`: rows of airlines and airports; candidates come normalised and without
  duplicates; the updates a webhook makes to a row (they are in `FlightAlerts`, where only
  what an alert depends on is kept). A failing insert stands for a busy database too.
- `Subscriptions`: one environment; two notices of one subscription have different
  dates; snapshots without a signed date; those filters of `has_subscription_access` that
  only shrink access; the lifetime product is in the module and not in an instance.
- `StoryPush`: the scope for QA devices. Two runs reach at most two slots, so the instance
  checks the hours between campaigns; that there are three in a day is `SpacedCorrect`.
- `PushToStart`: `PassCommit` writes whole rows of the ledger and not the changed columns, and
  the tokens a device has had only grow.
- `Diagnostics`: `EventsCollide` stands also for the other integrity errors of a batch.
- `Cockpit`: a message is at most the overlap late, and the worker is alone, which its file
  lock gives; archived stories and the readers' endpoints.
- `ActivationJourney`, `Diagnostics`, `Experiments`: a local debug preview counts as a fallback; refusals for a
  window or a malformed body (422); a matched paywall may be off, without the reason;
  the older assignment endpoint; summaries and reports.

## Plan

Done: `LiveActivity` (the largest protocol), `WebhookSubscription`, `FlightShare`, `AIConsent`
and its composition `EmailIntake` with the abstract `EmailAuthority`, `DelayPreview`, and the
proofs of each; then `PushToStart`, `FlightAlerts`, `FlightSearch`, `FlightStore`,
`SearchFailures`, `Subscriptions`, `StoryPush`, `Cockpit`, `ActivationJourney`, `Diagnostics`,
`Experiments`, `Recoveries` and `RevenueAlerts`, and the proofs of all of them.

Left:

1. An abstract specification of push-to-start, an activity is started at most once per device
   and flight unless a run crashed, with its refinement; its composition with `LiveActivity`
   through `startState`, and `delete_user` in both.
2. The balance of AeroDataBox, and Apple Ads attribution.
