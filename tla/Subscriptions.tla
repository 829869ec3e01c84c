---------------------------- MODULE Subscriptions ----------------------------
(***************************************************************************)
(* App Store subscriptions and the access they give.                       *)
(*                                                                         *)
(* Apple signs snapshots of a transaction (JWS) and sends notifications.   *)
(* The app reports a snapshot it holds, old or new, as often as it likes;  *)
(* Apple delivers a notification late, twice or never.  The tables keep    *)
(* the freshest snapshot of a transaction, every notification, and a       *)
(* short lease of access (premium_valid_until) per user, which is          *)
(* recomputed from the tables.  Handlers run in several workers; what they *)
(* read before their first write is a copy.                                *)
(***************************************************************************)
EXTENDS Naturals, FiniteSetsExt, Common

CONSTANTS
  Subscriber,       \* account ids, never issued twice
  Transaction,      \* transaction ids
  Original,         \* [Transaction -> originalTransactionId]
  PurchaseDate,     \* [Transaction -> Nat], different within a subscription
  ExpiresDate,      \* [Transaction -> Nat], None for a Lifetime purchase
  Token,            \* [Transaction -> appAccountToken], None without one
  NoticeForm,       \* forms of notification that Apple may send
  GraceDate,        \* dates a notification may give for the end of a grace period
  StoreWorker,      \* requests in progress
  Lease,            \* MAX_PREMIUM_HOURS
  LifetimeLease,    \* LIFETIME_PREMIUM_LEASE_DAYS
  MaxClock,         \* bound of the clock
  StoreBudget       \* bound of snapshots signed, requests and deletions

VARIABLES
  clock,            \* the time, for Apple and the service
  refunded,         \* Apple: the transactions refunded
  signed,           \* Apple: the snapshots signed
  notices,          \* Apple: the notifications, each sent any number of times
  account,          \* the accounts that exist
  subscription,     \* Subscription, by original transaction id
  subscriber,       \* UserSubscriptionLink
  transaction,      \* Transaction
  revenue,          \* AppStoreRevenueEvent
  lifecycle,        \* AppStoreSubscriptionLifecycleEvent, the notifications kept
  premium,          \* User.premium_valid_until
  worker,           \* what a request has read before its first write
  received,         \* history: the snapshots committed of a transaction
  unsettled,        \* history: users whose lease a change of facts has passed by
  storeLeft         \* what is left of StoreBudget

\* lifecycle_event_kind, and what of it the readers of the table name.
StoreEnded == {"expiration", "grace_period_expired", "refund", "revocation", "billing_failure"}
Authoritative == StoreEnded \cup {"renewal", "grace_period_started", "refund_reversed"}

\* A row of Transaction, and of AppStoreRevenueEvent.
SnapshotRow == [signed_date : Nat, revoked : BOOLEAN, user : Subscriber \cup {None}]

ASSUME StoreAssumption ==
  /\ PurchaseDate \in [Transaction -> Nat]
  /\ ExpiresDate \in [Transaction -> Nat \cup {None}]
  /\ Token \in [Transaction -> Subscriber \cup {None}]
  /\ Lease \in Nat /\ LifetimeLease \in Nat
  /\ NoticeForm \subseteq [kind : STRING, snapshot : BOOLEAN, renewal : BOOLEAN, grace : BOOLEAN]
  /\ GraceDate \subseteq Nat
  /\ None \notin SnapshotRow \cup Subscriber \cup Nat

apple  == <<clock, refunded, signed, notices>>
tables == <<account, subscription, subscriber, transaction, revenue, lifecycle, premium>>
storeVars == <<apple, tables, worker, received, unsettled, storeLeft>>

StoreSpend(e) == storeLeft[e] > 0 /\ storeLeft' = [storeLeft EXCEPT ![e] = @ - 1]

Inactive == [pc |-> "idle"]

StoreInit ==
  /\ clock = 0
  /\ refunded = {}
  /\ signed = {[txn |-> t, at |-> 0, revoked |-> FALSE] : t \in {x \in Transaction : PurchaseDate[x] = 0}}
  /\ notices = {}
  /\ account = Subscriber
  /\ subscription = {}
  /\ subscriber = {}
  /\ transaction = [t \in Transaction |-> None]
  /\ revenue = [t \in Transaction |-> None]
  /\ lifecycle = {}
  /\ premium = [u \in Subscriber |-> None]
  /\ worker = [w \in StoreWorker |-> Inactive]
  /\ received = [t \in Transaction |-> {}]
  /\ unsettled = {}
  /\ storeLeft = StoreBudget

-----------------------------------------------------------------------------
(* Apple. *)

Jws(t, revoked) == [txn |-> t, at |-> clock, revoked |-> revoked]

\* A snapshot of a transaction; a renewal may be bought ahead of its period.
Sign(t) ==
  /\ StoreSpend("apple")
  /\ clock + 1 >= PurchaseDate[t]
  /\ signed' = signed \cup {Jws(t, t \in refunded)}
  /\ UNCHANGED <<clock, refunded, notices, tables, worker, received, unsettled>>

\* A notification about a transaction that was signed before, with its current
\* snapshot and renewal information as its form says, and the end of a grace period,
\* whenever that is; no two of a subscription have the same date.
Notify(form, t) ==
  LET revoked == form.kind \in {"refund", "revocation"}
                 \/ (t \in refunded /\ form.kind # "refund_reversed")
      jws == Jws(t, revoked)
  IN /\ StoreSpend("apple")
     /\ \E j \in signed : j.txn = t
     /\ ~\E n \in notices : n.original = Original[t] /\ n.at = clock
     /\ form.kind = "refund_reversed" => t \in refunded
     /\ refunded' = IF revoked THEN refunded \cup {t} ELSE refunded \ {t}
     /\ signed' = signed \cup (IF form.snapshot THEN {jws} ELSE {})
     /\ \E grace \in IF form.grace THEN GraceDate ELSE {None} :
          notices' = notices \cup
            {[kind |-> form.kind, txn |-> t, original |-> Original[t], at |-> clock,
              renewal |-> form.renewal, grace |-> grace,
              jws |-> IF form.snapshot THEN jws ELSE None]}
     /\ UNCHANGED <<clock, tables, worker, received, unsettled>>

Tick ==
  /\ clock < MaxClock
  /\ clock' = clock + 1
  /\ UNCHANGED <<refunded, signed, notices, tables, worker, received, unsettled, storeLeft>>

-----------------------------------------------------------------------------
(* The verified facts. *)

\* Mutant: a report that is as old as the row replaces it.
FresherOrEqual(jws, row) == jws.at >= row.signed_date

\* _freshness_condition: a later signature, or the same one with a refund.
Fresher(jws, row) ==
  \/ jws.at > row.signed_date
  \/ jws.at = row.signed_date /\ ~row.revoked /\ jws.revoked

Snapshot(jws, user) == [signed_date |-> jws.at, revoked |-> jws.revoked, user |-> user]

\* upsert_verified_transaction, upsert_verified_revenue_event
Upserted(table, jws, user) ==
  IF table[jws.txn] = None \/ Fresher(jws, table[jws.txn])
  THEN [table EXCEPT ![jws.txn] = Snapshot(jws, user)]
  ELSE table

Linked(u, links) == {p[2] : p \in {q \in links : q[1] = u}}
Members(s, links, accounts) == {u \in accounts : <<u, s>> \in links}

\* The transactions of a subscription in the table, and the latest of them.
FactRows(s, table) == {t \in Transaction : table[t] # None /\ Original[t] = s}
Latest(ts) == {t \in ts : \A x \in ts : PurchaseDate[x] <= PurchaseDate[t]}

\* The lifecycle rows that say how a transaction stands, newest first: at most one.
Deciding(t, events) ==
  LET about == {e \in events :
        /\ e.original = Original[t]
        /\ e.renewal \/ e.kind \in Authoritative
        /\ IF e.jws = None THEN e.at >= PurchaseDate[t] ELSE e.txn = t}
  IN {e \in about : \A x \in about : x.at <= e.at}

Deadline(t, e) ==
  IF e.grace = None THEN ExpiresDate[t]
  ELSE IF ExpiresDate[t] = None THEN e.grace ELSE Max({ExpiresDate[t], e.grace})

\* How long a transaction grants access: calculate_premium_valid_until and
\* lifetime_premium_valid_until.
Until(t, deadline) ==
  IF ExpiresDate[t] = None THEN {clock + LifetimeLease}
  ELSE IF deadline > clock THEN {Min({deadline, clock + Lease})} ELSE {}

\* refresh_current_entitlement: what the latest transaction of each linked
\* subscription grants.
Granted(u, table, links, events) ==
  UNION {LET e == Deciding(t, events)
         IN IF table[t].revoked \/ \E x \in e : x.kind \in StoreEnded THEN {}
            ELSE IF e = {} THEN Until(t, ExpiresDate[t])
            ELSE UNION {Until(t, Deadline(t, x)) : x \in e}
         : t \in UNION {Latest(FactRows(s, table)) : s \in Linked(u, links)}}

Entitlement(u, table, links, events) ==
  LET g == Granted(u, table, links, events) IN IF g = {} THEN None ELSE Max(g)
-----------------------------------------------------------------------------
(* The handlers. *)

\* A refreshed user is written if the value differs from the copy the request read
\* of the user; without a copy the user is read now.
Refreshed(users, copies, table, links, events) ==
  [u \in Subscriber |->
     IF u \notin users THEN premium[u]
     ELSE LET v == Entitlement(u, table, links, events)
          IN IF u \in DOMAIN copies /\ copies[u] = v THEN premium[u] ELSE v]

\* Those of users whose copy is no longer the row.
Overtaken(users, copies) == {u \in users \cap DOMAIN copies : copies[u] # premium[u]}

\* create_or_update_transaction of the app: the user is read with the request,
\* then Apple's certificates are checked on line.
ReportRead(w, u, j) ==
  /\ worker[w] = Inactive
  /\ StoreSpend("request")
  /\ u \in account
  /\ j \in signed
  /\ worker' = [worker EXCEPT ![w] =
       [pc |-> "report", user |-> u, jws |-> j, copies |-> [x \in {u} |-> premium[u]]]]
  /\ UNCHANGED <<apple, tables, received, unsettled>>

\* One transaction: the subscription, the snapshot, the link, the lease of this
\* user, the revenue.  It fails if a lease is to be written for an account that is gone.
ReportCommit(w) ==
  LET u == worker[w].user
      j == worker[w].jws
      s == Original[j.txn]
      table == Upserted(transaction, j, IF Token[j.txn] # None THEN Token[j.txn] ELSE u)
      links == subscriber \cup {<<u, s>>}
      leases == Refreshed({u}, worker[w].copies, table, links, lifecycle)
      others == IF table = transaction THEN {} ELSE Members(s, links, account) \ {u}
  IN /\ worker[w].pc = "report"
     /\ u \in account \/ leases[u] = premium[u]
     /\ subscription' = subscription \cup {s}
     /\ transaction' = table
     /\ subscriber' = links
     /\ premium' = leases
     /\ revenue' = Upserted(revenue, j, u)
     /\ worker' = [worker EXCEPT ![w] = Inactive]
     /\ received' = [received EXCEPT ![j.txn] = @ \cup {j}]
     /\ unsettled' = (unsettled \ {u}) \cup Overtaken({u}, worker[w].copies) \cup others
     /\ UNCHANGED <<apple, account, lifecycle, storeLeft>>

\* create_or_update_transaction of the webhook.  When the subscription is there, its
\* user is read before the first write: the one of the token if there is one, else
\* all users of the subscription.
NotifyRead(w, n) ==
  LET owner == {Token[n.txn]} \cap account
      users == IF owner # {} THEN owner ELSE Members(n.original, subscriber, account)
      found == n.original \in subscription
  IN /\ worker[w] = Inactive
     /\ StoreSpend("request")
     /\ n \in notices
     /\ worker' = [worker EXCEPT ![w] =
          [pc |-> "notify", notice |-> n, found |-> found, owner |-> owner,
           members |-> IF found /\ owner = {} THEN users ELSE None,
           copies |-> IF found THEN [u \in users |-> premium[u]] ELSE <<>>]]
     /\ UNCHANGED <<apple, tables, received, unsettled>>

\* Mutant: a notification that changes no row refreshes nothing.
RefreshesIfUpdated(n, updated) == n.jws # None /\ updated

\* should_update_premium: the row was updated, or the kind ends or extends access.
RefreshesPremium(n, updated) ==
  n.jws # None /\ (updated \/ n.kind \in StoreEnded \cup {"grace_period_started"})

\* A notification, once kept, decides about a transaction whose grace period is running
\* by the one that decided before, and gives it less time.
Withdraws(n) ==
  \E t \in Latest(FactRows(n.original, transaction)) :
    /\ ExpiresDate[t] # None
    /\ n \in Deciding(t, lifecycle \cup {n})
    /\ \E e \in Deciding(t, lifecycle) : Deadline(t, e) > clock /\ Deadline(t, n) < Deadline(t, e)

\* Mutant: revenue is kept once.
MeasuresOnce(n, updated) == n.jws # None /\ revenue[n.jws.txn] = None

Measures(n, updated) == n.jws # None /\ (updated \/ revenue[n.jws.txn] = None)

\* measurement_user_id: the owner, else a user of the subscription, else the token.
Measured(owner, users, token) ==
  IF owner # {} THEN owner ELSE IF users # {} THEN users ELSE {token} \ {None}

NotifyCommit(w) ==
  LET n == worker[w].notice
      j == n.jws
      s == n.original
      token == Token[n.txn]
      owner == IF worker[w].found THEN worker[w].owner ELSE {token} \cap account
      links == subscriber \cup {<<u, s>> : u \in owner}
      users == IF worker[w].members = None THEN Members(s, links, account)
               ELSE worker[w].members
      events == lifecycle \cup {n}
      table == IF j = None THEN transaction
               ELSE Upserted(transaction, j, token)
      updated == table # transaction
      leases == IF RefreshesPremium(n, updated)
                THEN Refreshed(users, worker[w].copies, table, links, events) ELSE premium
      touched == Members(s, links, account)
  IN /\ worker[w].pc = "notify"
     /\ worker[w].found \/ s \notin subscription
     /\ \A u \in users : u \in account \/ leases[u] = premium[u]
     /\ subscription' = subscription \cup {s}
     /\ subscriber' = links
     /\ lifecycle' = events
     /\ transaction' = table
     /\ premium' = leases
     /\ IF ~Measures(n, updated) \/ Measured(owner, users, token) = {}
        THEN UNCHANGED revenue
        ELSE \E u \in Measured(owner, users, token) : revenue' = Upserted(revenue, j, u)
     /\ worker' = [worker EXCEPT ![w] = Inactive]
     /\ received' = IF j = None THEN received ELSE [received EXCEPT ![j.txn] = @ \cup {j}]
     /\ unsettled' = IF j = None THEN unsettled \cup touched
                     ELSE IF ~RefreshesPremium(n, updated)
                     THEN unsettled \cup (IF Withdraws(n) THEN touched ELSE {})
                     ELSE (unsettled \ users) \cup (touched \ users)
                          \cup Overtaken(users, worker[w].copies)
     /\ UNCHANGED <<apple, account, storeLeft>>

\* The insert or the update fails, or the worker dies: nothing is kept.
StoreFail(w) ==
  /\ worker[w] # Inactive
  /\ worker' = [worker EXCEPT ![w] = Inactive]
  /\ UNCHANGED <<apple, tables, received, unsettled, storeLeft>>

\* backfill_verified_revenue_events
Backfill ==
  /\ revenue' = [t \in Transaction |->
       LET owner == {transaction[t].user} \cap account
           users == IF owner # {} THEN owner ELSE Members(Original[t], subscriber, account)
       IN IF revenue[t] # None \/ transaction[t] = None \/ users = {} THEN revenue[t]
          ELSE [transaction[t] EXCEPT !.user = CHOOSE u \in users : TRUE]]
  /\ revenue' # revenue
  /\ UNCHANGED <<apple, account, subscription, subscriber, transaction, lifecycle, premium,
                 worker, received, unsettled, storeLeft>>

\* delete_user
DeleteAccount(u) ==
  /\ StoreSpend("request")
  /\ u \in account
  /\ account' = account \ {u}
  /\ subscriber' = {p \in subscriber : p[1] # u}
  /\ unsettled' = unsettled \ {u}
  /\ UNCHANGED <<apple, subscription, transaction, revenue, lifecycle, premium, worker, received>>
StoreNext ==
  \/ \E t \in Transaction : Sign(t)
  \/ \E f \in NoticeForm, t \in Transaction : Notify(f, t)
  \/ Tick
  \/ \E w \in StoreWorker, u \in Subscriber, j \in signed : ReportRead(w, u, j)
  \/ \E w \in StoreWorker, n \in notices : NotifyRead(w, n)
  \/ \E w \in StoreWorker : ReportCommit(w) \/ NotifyCommit(w) \/ StoreFail(w)
  \/ Backfill
  \/ \E u \in Subscriber : DeleteAccount(u)

StoreSpec == StoreInit /\ [][StoreNext]_storeVars

-----------------------------------------------------------------------------
(* has_subscription_access, the second reader of the facts. *)

\* Only periods that have begun count.
Begun(s) == {t \in FactRows(s, transaction) : PurchaseDate[t] <= clock}

\* Mutant: only money returned ends access.
ActiveUnlessRefunded(e) == e.kind \notin {"refund", "revocation"}

\* subscription_status of a notification
Active(e) == e.kind \notin StoreEnded

HasAccess(u) ==
  \E t \in UNION {Latest(Begun(s)) : s \in Linked(u, subscriber)} :
    /\ ~transaction[t].revoked
    /\ ExpiresDate[t] # None
    /\ \A e \in Deciding(t, lifecycle) : Active(e)
    /\ \/ ExpiresDate[t] > clock
       \/ \E e \in Deciding(t, lifecycle) : e.grace # None /\ e.grace > clock

-----------------------------------------------------------------------------
(* Properties. *)

\* Among the snapshots received of a transaction, whatever their order, the row holds
\* the one signed last, refunded if one of that date is.
FactsFreshest ==
  \A t \in Transaction :
    transaction[t] # None =>
      /\ \A j \in received[t] : ~Fresher(j, transaction[t])
      /\ \E j \in received[t] : j.at = transaction[t].signed_date
                              /\ j.revoked = transaction[t].revoked

\* A purchase made by a known account is reported as refunded when the transaction
\* is, and not before.
RevenueAgrees ==
  \A t \in Transaction :
    Token[t] # None /\ transaction[t] # None =>
      /\ revenue[t] # None
      /\ revenue[t].signed_date = transaction[t].signed_date
      /\ revenue[t].revoked = transaction[t].revoked

\* Only users whom a change of facts has passed by have a lease the facts do not give.
LeaseFollowsFacts ==
  \A u \in account \ unsettled :
    premium[u] # None /\ premium[u] > clock
      => Granted(u, transaction, subscriber, lifecycle) # {}

\* Whoever may get a story is granted the lease, unless a period was bought ahead.
AccessImpliesGrant ==
  \A u \in account :
    /\ HasAccess(u)
    /\ \A t \in Transaction : transaction[t] # None => PurchaseDate[t] <= clock
    => Granted(u, transaction, subscriber, lifecycle) # {}

\* utils.py, lifetime_premium_valid_until: "REFUND/REVOKE notifications refresh the
\* entitlement from the revoked transaction and clear it immediately."
RefundClears ==
  [][\A w \in StoreWorker :
       /\ worker[w] # Inactive /\ worker[w].pc = "notify" /\ worker[w].notice.kind = "refund"
       /\ lifecycle' = lifecycle \cup {worker[w].notice} /\ worker'[w] = Inactive
       /\ transaction'[worker[w].notice.txn].revoked
       => \A u \in account :
            Granted(u, transaction', subscriber', lifecycle') = {} => premium'[u] = None]_storeVars
=============================================================================
