------------------------------ MODULE StoryPush ------------------------------
(***************************************************************************)
(* Aircraft-story notifications.                                           *)
(*                                                                         *)
(* A timer starts a worker every ten minutes; the one for a tester's       *)
(* device, and those started by hand, overlap it.  A worker freezes one    *)
(* story per local day and delivery window, reserves every send in the     *)
(* database before APNs is asked, rechecks the device and sends.  What it  *)
(* knows of devices is a copy, and its time is the time it started at.     *)
(***************************************************************************)
EXTENDS Integers, FiniteSets, Common

CONSTANTS
  Reader,         \* accounts
  Handset,        \* devices
  PushToken,      \* APNs tokens
  Zone,           \* time zones
  Offset,         \* [Zone -> Nat], hours east
  Story,          \* published stories
  Fingerprint,    \* [Story -> fingerprint of the transmission]
  PhoneAtStart,   \* [Handset -> the row of phone or None], as far as the app has registered them
  Received,       \* [Story -> hour]
  Tier,           \* [Story -> Nat], the importance
  Kind,           \* [Story -> kind of event]
  Follows,        \* {<<reader, story>>}: the story is about a saved flight
  StorySender,    \* worker processes
  Hour,           \* the hours at which anything happens
  Retention,      \* hours a reservation and a campaign are kept (90 days)
  RunSpan,        \* hours a run takes at most: systemd ends it after five minutes
  MaxSends,       \* max_sends of a run
  PushBudget      \* bound of runs of workers and of requests of the app

\* What a run may still do is never about a row, or a window of any zone, that has been purged.
ASSUME PushAssumption ==
  /\ Hour \subseteq Int /\ RunSpan \in Nat /\ Retention \in Nat /\ Retention >= 24 /\ Retention > RunSpan
  /\ Offset \in [Zone -> Int] /\ \A y, z \in Zone : Offset[y] - Offset[z] + 1 + RunSpan < Retention
  /\ PhoneAtStart \in [Handset -> {None} \cup
       [user : Reader, token : PushToken, active : BOOLEAN, enabled : BOOLEAN, zone : Zone]]

VARIABLES
  hour,           \* the time
  phone,          \* StoryPushDevice joined with Device, None without a row
  reader,         \* the accounts that exist
  paying,         \* those whom has_subscription_access lets through
  campaign,       \* StoryPushCampaign
  delivery,       \* StoryPushDelivery
  sender,         \* the workers
  handed,         \* history: what APNs was given
  pushLeft        \* what is left of PushBudget

pushVars == <<hour, phone, reader, paying, campaign, delivery, sender, handed, pushLeft>>

PushSpend(e) == pushLeft[e] > 0 /\ pushLeft' = [pushLeft EXCEPT ![e] = @ - 1]

Asleep == [pc |-> "off"]

PushInit ==
  /\ hour \in Hour /\ \A t \in Hour : hour <= t
  /\ phone = PhoneAtStart
  /\ reader = Reader
  /\ paying = Reader
  /\ campaign = {}
  /\ delivery = {}
  /\ sender = [p \in StorySender |-> Asleep]
  /\ handed = {}
  /\ pushLeft = PushBudget

-----------------------------------------------------------------------------
(* The app and the account. *)

\* refresh_apn_token: the token is taken from every other device, the device goes to
\* the account that asks.
RefreshToken(d, u, k, zone, enabled) ==
  /\ PushSpend("app")
  /\ u \in reader
  /\ phone' = [x \in Handset |->
       IF x = d THEN [user |-> u, token |-> k, active |-> TRUE, enabled |-> enabled, zone |-> zone]
       ELSE IF phone[x] # None /\ phone[x].token = k THEN [phone[x] EXCEPT !.active = FALSE]
       ELSE phone[x]]
  /\ UNCHANGED <<hour, reader, paying, campaign, delivery, sender, handed>>

\* A subscription ends or is renewed.
ChangeAccess(u) ==
  /\ PushSpend("app")
  /\ u \in reader
  /\ paying' = IF u \in paying THEN paying \ {u} ELSE paying \cup {u}
  /\ UNCHANGED <<hour, phone, reader, campaign, delivery, sender, handed>>

\* delete_user
DeleteReader(u) ==
  /\ PushSpend("app")
  /\ u \in reader
  /\ reader' = reader \ {u}
  /\ paying' = paying \ {u}
  /\ phone' = [d \in Handset |-> IF phone[d] # None /\ phone[d].user = u THEN None ELSE phone[d]]
  /\ delivery' = {r \in delivery : r.user # u}
  /\ UNCHANGED <<hour, campaign, sender, handed>>

\* Time passes, for as long as a run may take.
Later ==
  /\ \E t \in Hour :
       /\ t > hour /\ \A x \in Hour : x > hour => t <= x
       /\ \A p \in StorySender : sender[p] # Asleep => t - sender[p].now <= RunSpan
       /\ hour' = t
  /\ UNCHANGED <<phone, reader, paying, campaign, delivery, sender, handed, pushLeft>>

-----------------------------------------------------------------------------
(* The worker. *)

\* slot_for: the local day, and one of three windows of two hours, or none.
LocalDay(zone, t) == (t + Offset[zone]) \div 24
Window(zone, t) ==
  LET local == (t + Offset[zone]) % 24
  IN {i \in 0..2 : local - (<<10, 15, 19>>)[i + 1] \in 0..1}

Slot(zone, t) == CHOOSE i \in Window(zone, t) : TRUE

\* eligible, but for has_subscription_access
Capable(row) == row # None /\ row.active /\ row.enabled

\* The feed is read when the worker starts; a stale one counts as empty.
StartSender(p) ==
  /\ sender[p] = Asleep
  /\ PushSpend("run")
  /\ \E stories \in {{}, {s \in Story : Received[s] <= hour}} :
       sender' = [sender EXCEPT ![p] =
         [pc |-> "pick", now |-> hour, stories |-> stories, cache |-> {}, todo |-> {d \in Handset : phone[d] # None},
          row |-> phone, device |-> None, sends |-> {}, send |-> None, reserved |-> 0]]
  /\ UNCHANGED <<hour, phone, reader, paying, campaign, delivery, handed>>

\* Mutant: a worker does not look for a campaign another one has frozen.
NeverFrozen(day, slot) == {}

Frozen(day, slot) == {c \in campaign : c.day = day /\ c.slot = slot}

\* campaign_for: the frozen story, or the most important recent one that no campaign
\* of the last 90 days had, a kind that is new today first.
Choice(stories, day, now) ==
  LET used == {c.print : c \in {x \in campaign : x.at > now - Retention}}
      kinds == {Kind[c.story] : c \in {x \in campaign : x.day = day /\ x.story \in stories}}
      available == {s \in stories : now - Received[s] <= 24 /\ Fingerprint[s] \notin used}
      top == {s \in available : \A x \in available : Tier[x] <= Tier[s]}
      fresh == {s \in top : Kind[s] \notin kinds}
  IN IF fresh = {} THEN top ELSE fresh

\* What a device is to get: the story of its window, and those about saved flights.
Sends(shared, extras) ==
  {[story |-> s, flight |-> FALSE] : s \in shared} \cup {[story |-> s, flight |-> TRUE] : s \in extras}

\* The devices are taken in some order (updated_at).
AtDevice(p, d) ==
  sender[p].pc = "pick" /\ d \in sender[p].todo /\ sender[p].reserved < MaxSends

Eligible(row) == Capable(row) /\ row.user \in paying

DayFor(w, d) == LocalDay(w.row[d].zone, w.now)
SlotFor(w, d) == Slot(w.row[d].zone, w.now)
InWindow(w, d) == w.stories # {} /\ Window(w.row[d].zone, w.now) # {}
Cached(w, d) == {e \in w.cache : e.day = DayFor(w, d) /\ e.slot = SlotFor(w, d)}

\* From the story of the window, or none, to the sends of the device.
Proceed(p, d, shared, cache) ==
  LET w == sender[p]
      extras == {s \in w.stories : w.now - Received[s] <= 2 /\ <<w.row[d].user, s>> \in Follows}
      sends == Sends(shared, extras)
  IN sender' = [sender EXCEPT ![p] = [w EXCEPT !.todo = @ \ {d}, !.device = d, !.cache = cache, !.sends = sends,
                                               !.pc = IF sends = {} THEN "pick" ELSE "reserve"]]

Remember(p, d, shared) ==
  LET w == sender[p]
  IN Proceed(p, d, shared, w.cache \cup {[day |-> DayFor(w, d), slot |-> SlotFor(w, d), shared |-> shared]})

\* One device of the run, which is not eligible, or outside the windows of its zone.
PassOver(p, d) ==
  /\ AtDevice(p, d) /\ ~Eligible(sender[p].row[d])
  /\ sender' = [sender EXCEPT ![p] = [sender[p] EXCEPT !.todo = @ \ {d}]]
  /\ UNCHANGED <<hour, phone, reader, paying, campaign, delivery, handed, pushLeft>>

PickOutside(p, d) ==
  /\ AtDevice(p, d) /\ Eligible(sender[p].row[d]) /\ ~InWindow(sender[p], d)
  /\ Proceed(p, d, {}, sender[p].cache)
  /\ UNCHANGED <<hour, phone, reader, paying, campaign, delivery, handed, pushLeft>>

\* Its window is one the run has come across before.
PickCached(p, d) ==
  /\ AtDevice(p, d) /\ Eligible(sender[p].row[d]) /\ InWindow(sender[p], d)
  /\ \E e \in Cached(sender[p], d) : Proceed(p, d, e.shared, sender[p].cache)
  /\ UNCHANGED <<hour, phone, reader, paying, campaign, delivery, handed, pushLeft>>

\* The first device of its window in this run: the story of it is frozen, or is now.
PickFrozen(p, d) ==
  /\ AtDevice(p, d) /\ Eligible(sender[p].row[d]) /\ InWindow(sender[p], d) /\ Cached(sender[p], d) = {}
  /\ \E c \in Frozen(DayFor(sender[p], d), SlotFor(sender[p], d)) :
       Remember(p, d, {c.story} \cap sender[p].stories)
  /\ UNCHANGED <<hour, phone, reader, paying, campaign, delivery, handed, pushLeft>>

Freeze(p, d) ==
  LET w == sender[p]
      choice == Choice(w.stories, DayFor(w, d), w.now)
  IN /\ AtDevice(p, d) /\ Eligible(w.row[d]) /\ InWindow(w, d) /\ Cached(w, d) = {}
     /\ Frozen(DayFor(w, d), SlotFor(w, d)) = {}
     /\ \/ /\ choice = {} /\ Remember(p, d, {})
           /\ UNCHANGED campaign
        \/ \E s \in choice :
             /\ Remember(p, d, {s})
             /\ campaign' = campaign \cup {[day |-> DayFor(w, d), slot |-> SlotFor(w, d), story |-> s,
                                            print |-> Fingerprint[s], at |-> w.now]}
     /\ UNCHANGED <<hour, phone, reader, paying, delivery, handed, pushLeft>>

\* Mutant: an attempt whose outcome is unknown may be repeated.
ToldIfAccepted(history, d, print) ==
  \E r \in history : r.device = d /\ r.print = print /\ r.status = "accepted"

Told(history, d, print) == \E r \in history : r.device = d /\ r.print = print

\* Mutant: a reservation of a worker that started later does not count.
RecentPast(history, now) == {r \in history : r.at > now - 24 /\ r.at <= now /\ r.slot >= 0}

Recent(history, now) == {r \in history : r.at > now - 24 /\ r.slot >= 0}

\* The rules of a shared campaign: three of them in 24 hours, three hours apart, one
\* story in a window.
MayShare(history, day, slot, s, now) ==
  LET recent == Recent(history, now)
      slots == {<<r.day, r.slot>> : r \in recent}
      other == {r \in recent : <<r.day, r.slot>> # <<day, slot>>}
  IN /\ Cardinality(slots) < 3 \/ <<day, slot>> \in slots
     /\ \A r \in other : now - r.at >= 3
     /\ \A r \in recent \ other : r.story = s

\* The next send of the device, or the next device.
NextSend(w) ==
  LET stop == w.sends = {} \/ w.reserved = MaxSends
  IN [w EXCEPT !.send = None, !.sends = IF stop THEN {} ELSE @, !.pc = IF stop THEN "pick" ELSE "reserve"]

\* reserve, one transaction; the story of the window comes first.
Reserve(p, x) ==
  LET w == [sender[p] EXCEPT !.sends = @ \ {x}]
      d == w.device
      user == w.row[d].user
      print == Fingerprint[x.story]
      slot == IF x.flight THEN -1 ELSE SlotFor(w, d)
      history == {r \in delivery : r.user = user /\ r.at > w.now - Retention}
  IN /\ w.pc = "reserve" /\ x \in sender[p].sends /\ (x.flight => \A y \in w.sends : y.flight)
     /\ IF \/ Told(history, d, print)
           \/ x.flight /\ \E r \in history : r.print = print /\ r.slot >= 0
           \/ ~x.flight /\ ~MayShare(history, DayFor(w, d), slot, x.story, w.now)
        THEN sender' = [sender EXCEPT ![p] = NextSend(w)] /\ UNCHANGED delivery
        ELSE /\ delivery' = delivery \cup
                  {[user |-> user, device |-> d, story |-> x.story, print |-> print,
                    at |-> w.now, day |-> DayFor(w, d), slot |-> slot, status |-> "reserved", by |-> p]}
             /\ sender' = [sender EXCEPT ![p] = [w EXCEPT !.pc = "recheck", !.send = x, !.reserved = @ + 1]]
     /\ UNCHANGED <<hour, phone, reader, paying, campaign, handed, pushLeft>>

\* UPDATE of the reservation, if it is still there.
Recorded(w, p, outcome) ==
  LET mine(r) == r.by = p /\ r.status = "reserved" /\ r.at = w.now /\ r.device = w.device /\ r.story = w.send.story
  IN {IF mine(r) THEN [r EXCEPT !.status = outcome] ELSE r : r \in delivery}

\* The device is read again and compared with the copy.
Recheck(p) ==
  LET w == sender[p]
      old == w.row[w.device]
      row == phone[w.device]
      current == Eligible(row) /\ row.user = old.user /\ row.token = old.token
  IN /\ w.pc = "recheck"
     /\ IF current
        THEN sender' = [sender EXCEPT ![p] = [w EXCEPT !.pc = "send"]] /\ UNCHANGED delivery
        ELSE /\ sender' = [sender EXCEPT ![p] = NextSend(w)]
             /\ delivery' = Recorded(w, p, "suppressed")
     /\ UNCHANGED <<hour, phone, reader, paying, campaign, handed, pushLeft>>

\* APNs takes the message or not, and its answer arrives or not; "unknown", the status
\* after an exception, is treated like "failed".
SendStory(p) ==
  LET w == sender[p]
  IN /\ w.pc = "send"
     /\ \E outcome \in {"accepted", "failed"}, taken \in BOOLEAN :
          /\ outcome = "accepted" => taken
          /\ handed' = IF taken
                       THEN handed \cup {[user |-> w.row[w.device].user, device |-> w.device,
                                          print |-> Fingerprint[w.send.story], at |-> w.now, nth |-> Cardinality(handed)]}
                       ELSE handed
          /\ sender' = [sender EXCEPT ![p] = [w EXCEPT !.pc = outcome]]
     /\ UNCHANGED <<hour, phone, reader, paying, campaign, delivery, pushLeft>>

RecordOutcome(p) ==
  LET w == sender[p]
  IN /\ w.pc \in {"accepted", "failed"}
     /\ delivery' = Recorded(w, p, w.pc)
     /\ sender' = [sender EXCEPT ![p] = NextSend(w)]
     /\ UNCHANGED <<hour, phone, reader, paying, campaign, handed, pushLeft>>

\* The end of a run: what is older than the retention is purged.
EndRun(p) ==
  LET w == sender[p]
  IN /\ w.pc = "pick" /\ (w.todo = {} \/ w.reserved = MaxSends)
     /\ delivery' = {r \in delivery : r.at >= w.now - Retention}
     /\ campaign' = {c \in campaign : c.at >= w.now - Retention}
     /\ sender' = [sender EXCEPT ![p] = Asleep]
     /\ UNCHANGED <<hour, phone, reader, paying, handed, pushLeft>>

\* The process dies; its reservations stay.
KillSender(p) ==
  /\ sender[p] # Asleep
  /\ sender' = [sender EXCEPT ![p] = Asleep]
  /\ UNCHANGED <<hour, phone, reader, paying, campaign, delivery, handed, pushLeft>>

PushNext ==
  \/ \E d \in Handset, u \in Reader, k \in PushToken, z \in Zone, b \in BOOLEAN : RefreshToken(d, u, k, z, b)
  \/ \E u \in Reader : ChangeAccess(u) \/ DeleteReader(u)
  \/ Later
  \/ \E p \in StorySender :
       \/ StartSender(p) \/ Recheck(p) \/ SendStory(p) \/ RecordOutcome(p) \/ EndRun(p) \/ KillSender(p)
       \/ \E d \in Handset : PassOver(p, d) \/ PickOutside(p, d) \/ PickCached(p, d) \/ PickFrozen(p, d) \/ Freeze(p, d)
       \/ \E s \in Story, flight \in BOOLEAN : Reserve(p, [story |-> s, flight |-> flight])

PushSpec == PushInit /\ [][PushNext]_pushVars

-----------------------------------------------------------------------------
(* Properties. *)

\* APNs is given a transmission for a subscriber's device once in 90 days, less what a run
\* takes, whatever the workers, their deaths and lost answers: dispatch and reserve.
ToldOnce ==
  \A h, k \in handed :
    h.user = k.user /\ h.device = k.device /\ h.print = k.print /\ h.at <= k.at /\ h # k
      => k.at - h.at >= Retention - RunSpan

\* The shared campaigns of a subscriber are three hours apart, and no day, less what a run
\* takes, has four of them, though workers overlap and devices change their time zone.
CampaignsSpaced ==
  \A u \in reader :
    LET shared == {r \in delivery : r.user = u /\ r.slot >= 0}
    IN /\ \A r, q \in shared :
            <<r.day, r.slot>> # <<q.day, q.slot>> => r.at - q.at >= 3 \/ q.at - r.at >= 3
       /\ \A r \in shared :
            Cardinality({<<q.day, q.slot>> : q \in {x \in shared : x.at <= r.at /\ x.at > r.at - 24 + RunSpan}}) <= 3

\* Whoever gets the campaign of a day and window gets the story frozen for it, and no
\* two campaigns of 90 days carry one transmission: campaign_for, by any workers.
OneStoryPerWindow ==
  /\ \A r \in delivery, c \in campaign :
       r.slot >= 0 /\ c.day = r.day /\ c.slot = r.slot => c.story = r.story
  /\ \A c, e \in campaign : c # e /\ c.print = e.print => c.at - e.at >= Retention \/ e.at - c.at >= Retention

\* story-notifications.md: "Retained delivery identifiers are purged after 90 days on
\* active worker runs and removed during account deletion."
DeletedForgotten == \A r \in delivery : r.user \in reader
=============================================================================
