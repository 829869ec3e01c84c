----------------------------- MODULE PurchaseProofs -----------------------------
(***************************************************************************)
(* Subscriptions, activation recoveries and revenue alerts, for every      *)
(* value of their constants.                                               *)
(*                                                                         *)
(* Subscriptions. That a row is the newest snapshot is inductive with what *)
(* is not there yet (FactsInv). That a lease follows the facts is not: a   *)
(* worker has what it read before it writes the lease. LeasesBacked says   *)
(* of every lease which transaction carries it and until when; it needs    *)
(* that a transaction stays the latest of its subscription until a later   *)
(* one comes, and that what decides about it is never forgotten.           *)
(*                                                                         *)
(* Recoveries. A report may only change what the request respects, and     *)
(* what it read stays (WaitingInv).                                        *)
(*                                                                         *)
(* RevenueAlerts. That nothing reaches the chat twice needs what the       *)
(* process has in hand: an alert it may still send has never reached the   *)
(* chat, and of those still to be handled at most one is being sent. That  *)
(* what is old is never announced needs that only what was noted later has *)
(* an alert.                                                               *)
(***************************************************************************)
EXTENDS Subscriptions, Recoveries, RevenueAlerts, WellFoundedInduction, TLAPS

-----------------------------------------------------------------------------
(* Subscriptions. *)

Originals == {Original[t] : t \in Transaction}
SignedJws == [txn : Transaction, at : Nat, revoked : BOOLEAN]
Notice == [kind : STRING, txn : Transaction, original : Originals, at : Nat, renewal : BOOLEAN,
           grace : Nat \cup {None}, jws : SignedJws \cup {None}]

\* A notification is about the subscription of its transaction.
Consistent(n) ==
  /\ n.original = Original[n.txn]
  /\ n.jws # None => n.jws.txn = n.txn

Serving(x) ==
  \/ x = Inactive
  \/ x.pc = "report" /\ x.user \in Subscriber /\ x.jws \in SignedJws
  \/ x.pc = "notify" /\ x.notice \in notices /\ x.owner \subseteq Subscriber
                        /\ (x.members = None \/ x.members \subseteq Subscriber)

StoreTypes ==
  /\ clock \in Nat
  /\ signed \subseteq SignedJws
  /\ notices \subseteq Notice
  /\ \A n \in notices : Consistent(n) /\ n.at <= clock
  /\ account \subseteq Subscriber
  /\ subscriber \subseteq Subscriber \X Originals
  /\ transaction \in [Transaction -> SnapshotRow \cup {None}]
  /\ revenue \in [Transaction -> SnapshotRow \cup {None}]
  /\ lifecycle \subseteq notices
  /\ premium \in [Subscriber -> Nat \cup {None}]
  /\ received \in [Transaction -> SUBSET SignedJws]
  /\ worker \in [StoreWorker -> {worker[w] : w \in StoreWorker}]
  /\ \A w \in StoreWorker : Serving(worker[w])

\* Nothing is received of a transaction before it has its row.
NothingBefore == \A t \in Transaction : transaction[t] = None => received[t] = {}

\* A purchase of a known account has no revenue before it has its row.
NoRevenueBefore == \A t \in Transaction : Token[t] # None /\ transaction[t] = None => revenue[t] = None

-----------------------------------------------------------------------------
(* Greatest elements, and what a lease rests on. *)

\* A set of numbers with a bound has a greatest element.
LEMMA MaxOfBounded ==
  ASSUME NEW S \in SUBSET Nat, S # {}, NEW b \in Nat, \A x \in S : x <= b
  PROVE  Max(S) \in S /\ \A y \in S : Max(S) >= y
<1> DEFINE T == {b - x : x \in S}
<1>1. T \subseteq Nat /\ T # {}
  <2>1. T \subseteq Nat
    OBVIOUS
  <2>2. PICK x \in S : TRUE
    OBVIOUS
  <2>3. b - x \in T
    OBVIOUS
  <2> QED BY <2>1, <2>3
<1>2. PICK m \in T : \A y \in T : ~(<<y, m>> \in OpToRel(<, Nat))
  <2> HIDE DEF T
  <2> QED BY <1>1, WFMin, NatLessThanWellFounded
<1>3. \A y \in T : ~(y < m)
  <2> HIDE DEF T
  <2> QED BY <1>1, <1>2 DEF OpToRel
<1>4. PICK x \in S : m = b - x
  BY <1>2
<1>5. \A y \in S : x >= y
  BY <1>3, <1>4
<1> QED
  BY <1>5 DEF Max

\* The subscriptions a user is linked with.
LEMMA LinkedIff ==
  ASSUME NEW links \in SUBSET (Subscriber \X Originals), NEW u, NEW s
  PROVE  s \in Linked(u, links) <=> <<u, s>> \in links
BY DEF Linked

\* What lets a transaction carry a lease until p.
Carries(t, p, table, events) ==
  /\ ~table[t].revoked
  /\ \A e \in Deciding(t, events) : e.kind \notin StoreEnded
  /\ \/ ExpiresDate[t] = None
     \/ ExpiresDate[t] >= p
     \/ \E e \in Deciding(t, events) : e.grace # None /\ e.grace >= p

Backed(u, p, table, links, events) ==
  \E s \in Linked(u, links) : \E t \in Latest(FactRows(s, table)) : Carries(t, p, table, events)

\* The lease of a user is backed unless a change of facts has passed the user by.
LeasesBacked ==
  \A u \in account \ unsettled :
    premium[u] # None /\ premium[u] > clock => Backed(u, premium[u], transaction, subscriber, lifecycle)

\* A deadline is one of the dates it is the later of.
LEMMA DeadlineIs ==
  ASSUME NEW t \in Transaction, NEW e \in Notice
  PROVE  /\ Deadline(t, e) \in Nat \cup {None}
         /\ ExpiresDate[t] # None =>
              /\ Deadline(t, e) \in Nat
              /\ Deadline(t, e) >= ExpiresDate[t]
              /\ e.grace # None => Deadline(t, e) >= e.grace
              /\ Deadline(t, e) = ExpiresDate[t] \/ (e.grace # None /\ Deadline(t, e) = e.grace)
<1>1. e.grace \in Nat \cup {None} /\ ExpiresDate[t] \in Nat \cup {None}
  BY StoreAssumption DEF Notice
<1>2. CASE e.grace # None /\ ExpiresDate[t] # None
  <2> DEFINE S == {ExpiresDate[t], e.grace}
  <2> DEFINE b == ExpiresDate[t] + e.grace
  <2>1. S \in SUBSET Nat /\ S # {} /\ b \in Nat /\ \A x \in S : x <= b
    BY <1>1, <1>2
  <2>2. Max(S) \in S /\ \A y \in S : Max(S) >= y
    <3> HIDE DEF S, b
    <3> QED BY <2>1, MaxOfBounded
  <2>3. Deadline(t, e) = Max(S)
    BY <1>2 DEF Deadline
  <2> QED BY <1>1, <1>2, <2>2, <2>3
<1>3. CASE ~(e.grace # None /\ ExpiresDate[t] # None)
  BY <1>1, <1>3 DEF Deadline
<1> QED BY <1>2, <1>3

\* How long a deadline lets a transaction grant access.
LEMMA UntilIs ==
  ASSUME clock \in Nat, NEW t \in Transaction, NEW d \in Nat \cup {None}, ExpiresDate[t] # None => d \in Nat
  PROVE  /\ ExpiresDate[t] = None \/ (d # None /\ d > clock) => Until(t, d) # {}
         /\ \A g \in Until(t, d) : g \in Nat /\ g <= clock + Lease + LifetimeLease
                                   /\ (ExpiresDate[t] # None => g <= d /\ d > clock)
<1>1. CASE ExpiresDate[t] = None
  BY <1>1, StoreAssumption DEF Until
<1>2. CASE ExpiresDate[t] # None
  <2> DEFINE m == Min({d, clock + Lease})
  <2>1. m \in {d, clock + Lease} /\ m <= d /\ m <= clock + Lease
    BY <1>2, StoreAssumption DEF Min
  <2>2. Until(t, d) = IF d > clock THEN {m} ELSE {}
    BY <1>2 DEF Until
  <2> HIDE DEF m
  <2> QED BY <1>2, <2>1, <2>2, StoreAssumption
<1> QED BY <1>1, <1>2

Grants(t, table, events) ==
  LET e == Deciding(t, events)
  IN IF table[t].revoked \/ \E x \in e : x.kind \in StoreEnded THEN {}
     ELSE IF e = {} THEN Until(t, ExpiresDate[t])
     ELSE UNION {Until(t, Deadline(t, x)) : x \in e}

LEMMA GrantedIs ==
  ASSUME NEW u, NEW table, NEW links, NEW events, NEW g
  PROVE  g \in Granted(u, table, links, events)
         <=> \E s \in Linked(u, links) : \E t \in Latest(FactRows(s, table)) : g \in Grants(t, table, events)
BY DEF Granted, Grants

LEMMA DecidingAre ==
  ASSUME NEW t, NEW events, NEW e \in Deciding(t, events)
  PROVE  e \in events /\ e.original = Original[t]
BY DEF Deciding

LEMMA FactRowsAre ==
  ASSUME NEW s, NEW table, NEW t \in Latest(FactRows(s, table))
  PROVE  t \in Transaction /\ table[t] # None /\ Original[t] = s
BY DEF Latest, FactRows

\* What a transaction grants it carries.
LEMMA GrantsCarried ==
  ASSUME clock \in Nat, NEW t \in Transaction, NEW table, NEW events \in SUBSET Notice,
         NEW g \in Grants(t, table, events)
  PROVE  g \in Nat /\ g <= clock + Lease + LifetimeLease /\ Carries(t, g, table, events)
<1> DEFINE D == Deciding(t, events)
<1>1. D \subseteq Notice
  BY DecidingAre
<1>2. ~(table[t].revoked \/ \E x \in D : x.kind \in StoreEnded)
  BY DEF Grants
<1>3. ExpiresDate[t] \in Nat \cup {None}
  BY StoreAssumption
<1>4. CASE D = {}
  <2>1. g \in Until(t, ExpiresDate[t])
    BY <1>2, <1>4 DEF Grants
  <2>2. g \in Nat /\ g <= clock + Lease + LifetimeLease
        /\ (ExpiresDate[t] # None => g <= ExpiresDate[t])
    BY <1>3, <2>1, UntilIs
  <2> QED BY <1>2, <1>3, <2>2 DEF Carries
<1>5. CASE D # {}
  <2>1. PICK x \in D : g \in Until(t, Deadline(t, x))
    BY <1>2, <1>5 DEF Grants
  <2>2. x \in Notice
    BY <1>1
  <2> DEFINE d == Deadline(t, x)
  <2>3. /\ d \in Nat \cup {None}
        /\ ExpiresDate[t] # None => d \in Nat /\ (d = ExpiresDate[t] \/ (x.grace # None /\ d = x.grace))
    BY <2>2, DeadlineIs
  <2>4. g \in Until(t, d)
    BY <2>1
  <2> HIDE DEF d
  <2>5. g \in Nat /\ g <= clock + Lease + LifetimeLease /\ (ExpiresDate[t] # None => g <= d)
    BY <2>3, <2>4, UntilIs
  <2> QED BY <1>2, <1>3, <2>3, <2>5 DEF Carries
<1> QED BY <1>4, <1>5

\* What carries a lease that has not run out grants one.
LEMMA CarriedGrants ==
  ASSUME clock \in Nat, NEW t \in Transaction, NEW table, NEW events \in SUBSET Notice,
         NEW p \in Nat, p > clock, Carries(t, p, table, events)
  PROVE  Grants(t, table, events) # {}
<1> DEFINE D == Deciding(t, events)
<1>1. D \subseteq Notice
  BY DecidingAre
<1>2. ~(table[t].revoked \/ \E x \in D : x.kind \in StoreEnded)
  BY DEF Carries
<1>3. ExpiresDate[t] \in Nat \cup {None}
  BY StoreAssumption
<1>4. CASE D = {}
  <2>1. ExpiresDate[t] = None \/ ExpiresDate[t] > clock
    BY <1>3, <1>4 DEF Carries
  <2>2. Until(t, ExpiresDate[t]) # {}
    BY <1>3, <2>1, UntilIs
  <2> QED BY <1>2, <1>4, <2>2 DEF Grants
<1>5. CASE D # {}
  <2>1. \E x \in D : ExpiresDate[t] = None \/ ExpiresDate[t] >= p \/ (x.grace # None /\ x.grace >= p)
    BY <1>5 DEF Carries
  <2>2. PICK x \in D : ExpiresDate[t] = None \/ ExpiresDate[t] >= p \/ (x.grace # None /\ x.grace >= p)
    BY <2>1
  <2>3. x \in Notice /\ x.grace \in Nat \cup {None}
    BY <1>1 DEF Notice
  <2> DEFINE d == Deadline(t, x)
  <2>4. /\ d \in Nat \cup {None}
        /\ ExpiresDate[t] # None =>
             d \in Nat /\ d >= ExpiresDate[t] /\ (x.grace # None => d >= x.grace)
    BY <2>3, DeadlineIs
  <2>5. ExpiresDate[t] = None \/ (d # None /\ d > clock)
    <3> HIDE DEF d
    <3>1. CASE ExpiresDate[t] # None /\ d # None
      BY <1>3, <2>2, <2>3, <2>4, <3>1
    <3>2. CASE d = None /\ ExpiresDate[t] # None
      BY <2>4, <3>2, StoreAssumption
    <3> QED BY <3>1, <3>2
  <2>6. Until(t, Deadline(t, x)) # {}
    <3>1. Until(t, d) # {}
      <4> HIDE DEF d
      <4> QED BY <2>4, <2>5, UntilIs
    <3> QED BY <3>1
  <2> QED BY <1>2, <1>5, <2>6 DEF Grants
<1> QED BY <1>4, <1>5

\* What a user is entitled to is backed.
LEMMA EntitlementBacked ==
  ASSUME clock \in Nat, NEW u, NEW table, NEW links, NEW events \in SUBSET Notice
  PROVE  LET v == Entitlement(u, table, links, events)
         IN v \in Nat \cup {None} /\ (v # None => Backed(u, v, table, links, events))
<1> DEFINE G == Granted(u, table, links, events)
<1>1. \A g \in G : g \in Nat /\ g <= clock + Lease + LifetimeLease /\ Backed(u, g, table, links, events)
  <2> SUFFICES ASSUME NEW g \in G
               PROVE  g \in Nat /\ g <= clock + Lease + LifetimeLease /\ Backed(u, g, table, links, events)
    OBVIOUS
  <2>1. PICK s \in Linked(u, links) : \E t \in Latest(FactRows(s, table)) : g \in Grants(t, table, events)
    BY GrantedIs
  <2>2. PICK t \in Latest(FactRows(s, table)) : g \in Grants(t, table, events)
    BY <2>1
  <2>3. t \in Transaction
    BY FactRowsAre
  <2> QED BY <2>2, <2>3, GrantsCarried DEF Backed
<1>2. CASE G = {}
  BY <1>2 DEF Entitlement
<1>3. CASE G # {}
  <2> DEFINE b == clock + Lease + LifetimeLease
  <2>1. b \in Nat /\ G \in SUBSET Nat /\ \A g \in G : g <= b
    BY <1>1, StoreAssumption
  <2>2. Max(G) \in G
    <3> HIDE DEF G, b
    <3> QED BY <1>3, <2>1, MaxOfBounded
  <2>3. Entitlement(u, table, links, events) = Max(G)
    BY <1>3 DEF Entitlement
  <2> HIDE DEF G
  <2> QED BY <1>1, <2>2, <2>3
<1> QED BY <1>2, <1>3

\* A refresh writes what backs the lease, except over a copy that was overtaken.
LEMMA RefreshedIs ==
  ASSUME StoreTypes, NEW users, NEW copies, NEW table, NEW links, NEW events \in SUBSET Notice
  PROVE  LET leases == Refreshed(users, copies, table, links, events)
         IN /\ leases \in [Subscriber -> Nat \cup {None}]
            /\ \A u \in Subscriber \ users : leases[u] = premium[u]
            /\ \A u \in (Subscriber \cap users) \ Overtaken(users, copies) :
                 leases[u] # None => Backed(u, leases[u], table, links, events)
<1> DEFINE leases == Refreshed(users, copies, table, links, events)
           V(u) == Entitlement(u, table, links, events)
<1>1. clock \in Nat /\ premium \in [Subscriber -> Nat \cup {None}]
  BY DEF StoreTypes
<1>2. \A u \in Subscriber : V(u) \in Nat \cup {None} /\ (V(u) # None => Backed(u, V(u), table, links, events))
  BY <1>1, EntitlementBacked
<1>3. leases = [u \in Subscriber |-> IF u \notin users THEN premium[u]
                                     ELSE IF u \in DOMAIN copies /\ copies[u] = V(u) THEN premium[u] ELSE V(u)]
  BY DEF Refreshed
<1> HIDE DEF V, leases
<1>4. \A u \in (Subscriber \cap users) \ Overtaken(users, copies) : leases[u] = V(u)
  BY <1>3 DEF Overtaken
<1> QED BY <1>1, <1>2, <1>3, <1>4 DEF leases

-----------------------------------------------------------------------------
(* The rows of a transaction. *)

LEMMA UpsertedIs ==
  ASSUME NEW table \in [Transaction -> SnapshotRow \cup {None}], NEW j \in SignedJws,
         NEW user \in Subscriber \cup {None}
  PROVE  LET new == Upserted(table, j, user)
         IN /\ new \in [Transaction -> SnapshotRow \cup {None}]
            /\ \A t \in Transaction : t # j.txn => new[t] = table[t]
            /\ new[j.txn] \in SnapshotRow /\ new[j.txn] # None
            /\ IF table[j.txn] = None \/ Fresher(j, table[j.txn])
               THEN new[j.txn].signed_date = j.at /\ new[j.txn].revoked = j.revoked
               ELSE new = table
<1>1. j.txn \in Transaction /\ j.at \in Nat /\ j.revoked \in BOOLEAN
  BY DEF SignedJws
<1>2. Snapshot(j, user) \in SnapshotRow /\ Snapshot(j, user).signed_date = j.at /\ Snapshot(j, user).revoked = j.revoked
  BY <1>1 DEF Snapshot, SnapshotRow
<1> QED BY <1>1, <1>2, StoreAssumption DEF Upserted

\* Keeping the fresher of row and report keeps the freshest of all.
LEMMA UpsertKeepsFacts ==
  ASSUME StoreTypes, FactsFreshest, NothingBefore,
         NEW j \in SignedJws, NEW user \in Subscriber \cup {None},
         transaction' = Upserted(transaction, j, user),
         received' = [received EXCEPT ![j.txn] = @ \cup {j}]
  PROVE  FactsFreshest' /\ NothingBefore'
<1> USE DEF StoreTypes
<1>1. j.txn \in Transaction /\ j.at \in Nat /\ j.revoked \in BOOLEAN
  BY DEF SignedJws
<1>2. /\ \A t \in Transaction : t # j.txn => transaction'[t] = transaction[t]
      /\ transaction'[j.txn] \in SnapshotRow /\ transaction'[j.txn] # None
      /\ IF transaction[j.txn] = None \/ Fresher(j, transaction[j.txn])
         THEN transaction'[j.txn].signed_date = j.at /\ transaction'[j.txn].revoked = j.revoked
         ELSE transaction' = transaction
  BY UpsertedIs
<1>3. /\ \A t \in Transaction : t # j.txn => received'[t] = received[t]
      /\ received'[j.txn] = received[j.txn] \cup {j}
  BY <1>1
<1>4. NothingBefore'
  BY <1>2, <1>3 DEF NothingBefore
<1>5. ASSUME NEW t \in Transaction, transaction'[t] # None
      PROVE  /\ \A k \in received'[t] : ~Fresher(k, transaction'[t])
             /\ \E k \in received'[t] : k.at = transaction'[t].signed_date /\ k.revoked = transaction'[t].revoked
  <2>1. CASE t # j.txn
    BY <1>2, <1>3, <1>5, <2>1 DEF FactsFreshest
  <2>2. CASE t = j.txn /\ transaction[t] = None
    <3>1. received'[t] = {j}
      BY <1>3, <2>2 DEF NothingBefore
    <3> QED BY <1>1, <1>2, <2>2, <3>1 DEF Fresher
  <2>3. CASE t = j.txn /\ transaction[t] # None
    <3>1. /\ \A k \in received[t] : ~Fresher(k, transaction[t])
          /\ \E k \in received[t] : k.at = transaction[t].signed_date /\ k.revoked = transaction[t].revoked
      BY <2>3 DEF FactsFreshest
    <3>2. \A k \in received[t] : k.at \in Nat /\ k.revoked \in BOOLEAN
      BY DEF SignedJws
    <3>3. transaction[t].signed_date \in Nat /\ transaction[t].revoked \in BOOLEAN
      BY <2>3 DEF SnapshotRow
    <3>4. CASE Fresher(j, transaction[t])
      BY <1>1, <1>2, <1>3, <2>3, <3>1, <3>2, <3>3, <3>4 DEF Fresher
    <3>5. CASE ~Fresher(j, transaction[t])
      BY <1>2, <1>3, <2>3, <3>1, <3>5
    <3> QED BY <3>4, <3>5
  <2> QED BY <2>1, <2>2, <2>3
<1> QED BY <1>4, <1>5 DEF FactsFreshest

\* The two tables stay alike when both take the snapshot, or neither changes.
LEMMA UpsertKeepsRevenue ==
  ASSUME StoreTypes, RevenueAgrees, NoRevenueBefore,
         NEW j \in SignedJws, NEW user \in Subscriber \cup {None}, NEW owner \in Subscriber \cup {None},
         transaction' = Upserted(transaction, j, user),
         \/ revenue' = Upserted(revenue, j, owner)
         \/ /\ revenue' = revenue
            /\ Token[j.txn] = None \/ (transaction' = transaction /\ revenue[j.txn] # None)
  PROVE  RevenueAgrees' /\ NoRevenueBefore'
<1> USE DEF StoreTypes
<1>1. j.txn \in Transaction /\ j.at \in Nat /\ j.revoked \in BOOLEAN
  BY DEF SignedJws
<1>2. /\ \A t \in Transaction : t # j.txn => transaction'[t] = transaction[t]
      /\ transaction'[j.txn] # None
      /\ IF transaction[j.txn] = None \/ Fresher(j, transaction[j.txn])
         THEN transaction'[j.txn].signed_date = j.at /\ transaction'[j.txn].revoked = j.revoked
         ELSE transaction' = transaction
  BY UpsertedIs
<1>3. CASE revenue' = Upserted(revenue, j, owner)
  <2>1. /\ \A t \in Transaction : t # j.txn => revenue'[t] = revenue[t]
        /\ revenue'[j.txn] # None
        /\ IF revenue[j.txn] = None \/ Fresher(j, revenue[j.txn])
           THEN revenue'[j.txn].signed_date = j.at /\ revenue'[j.txn].revoked = j.revoked
           ELSE revenue' = revenue
    BY <1>3, UpsertedIs
  <2>2. \A t \in Transaction : t # j.txn => transaction'[t] = transaction[t] /\ revenue'[t] = revenue[t]
    BY <1>2, <2>1
  <2>3. Token[j.txn] # None =>
          /\ revenue'[j.txn] # None
          /\ revenue'[j.txn].signed_date = transaction'[j.txn].signed_date
          /\ revenue'[j.txn].revoked = transaction'[j.txn].revoked
    BY <1>1, <1>2, <2>1 DEF RevenueAgrees, NoRevenueBefore, Fresher
  <2> QED BY <1>2, <2>2, <2>3 DEF RevenueAgrees, NoRevenueBefore
<1>4. CASE revenue' = revenue /\ Token[j.txn] = None
  BY <1>2, <1>4 DEF RevenueAgrees, NoRevenueBefore
<1>5. CASE revenue' = revenue /\ transaction' = transaction
  BY <1>5 DEF RevenueAgrees, NoRevenueBefore
<1> QED BY <1>3, <1>4, <1>5

-----------------------------------------------------------------------------
(* Types. *)

LEMMA SignKeeps ==
  ASSUME StoreTypes, NEW t \in Transaction, Sign(t)
  PROVE  StoreTypes'
<1>1. Jws(t, t \in refunded) \in SignedJws
  BY DEF Jws, SignedJws, StoreTypes
<1> QED BY <1>1 DEF StoreTypes, Sign, tables, Serving

LEMMA NotifyKeeps ==
  ASSUME StoreTypes, NEW f \in NoticeForm, NEW t \in Transaction, Notify(f, t)
  PROVE  StoreTypes'
<1>0. PICK grace \in IF f.grace THEN GraceDate ELSE {None} :
        LET snap == IF f.snapshot
                    THEN Jws(t, f.kind \in {"refund", "revocation"} \/ (t \in refunded /\ f.kind # "refund_reversed"))
                    ELSE None
        IN notices' = notices \cup
             {[kind |-> f.kind, txn |-> t, original |-> Original[t], at |-> clock,
               renewal |-> f.renewal, grace |-> grace, jws |-> snap]}
  BY DEF Notify
<1> DEFINE revoked == f.kind \in {"refund", "revocation"} \/ (t \in refunded /\ f.kind # "refund_reversed")
           jws == Jws(t, revoked)
           snap == IF f.snapshot THEN jws ELSE None
           n == [kind |-> f.kind, txn |-> t, original |-> Original[t], at |-> clock,
                 renewal |-> f.renewal, grace |-> grace, jws |-> snap]
<1>1. f.kind \in STRING /\ f.snapshot \in BOOLEAN /\ f.renewal \in BOOLEAN /\ f.grace \in BOOLEAN
  BY StoreAssumption
<1>2. jws \in SignedJws /\ jws.txn = t
  BY DEF Jws, SignedJws, StoreTypes
<1>3. Original[t] \in Originals
  BY DEF Originals
<1>4. clock \in Nat
  BY DEF StoreTypes
<1> HIDE DEF jws
<1>5. n \in Notice /\ Consistent(n)
  <2>1. grace \in Nat \cup {None}
    BY StoreAssumption
  <2>2. snap \in SignedJws \cup {None} /\ (snap # None => snap.txn = t)
    <3>1. CASE f.snapshot
      BY <1>2, <3>1
    <3>2. CASE ~f.snapshot
      BY <3>2
    <3> QED BY <3>1, <3>2
  <2> HIDE DEF snap
  <2> QED BY <1>1, <1>3, <1>4, <2>1, <2>2 DEF Notice, Consistent
<1>6. notices' = notices \cup {n} /\ (signed' = signed \/ signed' = signed \cup {jws})
  BY <1>0 DEF Notify, jws
<1> HIDE DEF n
<1>7. UNCHANGED <<clock, tables, worker, received>>
  BY DEF Notify
<1>8. \A w \in StoreWorker : Serving(worker[w])'
  BY <1>6, <1>7 DEF StoreTypes, Serving
<1>9. signed' \subseteq SignedJws /\ notices' \subseteq Notice /\ \A m \in notices' : Consistent(m) /\ m.at <= clock
  <2>1. n.at = clock
    BY DEF n
  <2> QED BY <1>2, <1>4, <1>5, <1>6, <2>1 DEF StoreTypes
<1>10. lifecycle' \subseteq notices'
  BY <1>6, <1>7 DEF StoreTypes, tables
<1> QED BY <1>7, <1>8, <1>9, <1>10 DEF StoreTypes, tables

LEMMA ReadKeeps ==
  ASSUME StoreTypes, NEW w \in StoreWorker,
         \/ \E u \in Subscriber, j \in signed : ReportRead(w, u, j)
         \/ \E n \in notices : NotifyRead(w, n)
         \/ StoreFail(w)
  PROVE  StoreTypes'
<1>1. UNCHANGED <<apple, tables, received>> /\ \E x : Serving(x) /\ worker' = [worker EXCEPT ![w] = x]
  <2>1. ASSUME NEW u \in Subscriber, NEW j \in signed, ReportRead(w, u, j)
        PROVE  UNCHANGED <<apple, tables, received>> /\ \E x : Serving(x) /\ worker' = [worker EXCEPT ![w] = x]
    <3> DEFINE x == [pc |-> "report", user |-> u, jws |-> j, copies |-> [y \in {u} |-> premium[u]]]
    <3>1. Serving(x)
      BY DEF Serving, StoreTypes
    <3>2. UNCHANGED <<apple, tables, received>> /\ worker' = [worker EXCEPT ![w] = x]
      BY <2>1 DEF ReportRead
    <3> QED BY <3>1, <3>2
  <2>2. ASSUME NEW n \in notices, NotifyRead(w, n)
        PROVE  UNCHANGED <<apple, tables, received>> /\ \E x : Serving(x) /\ worker' = [worker EXCEPT ![w] = x]
    <3> DEFINE owner == {Token[n.txn]} \cap account
               users == IF owner # {} THEN owner ELSE Members(n.original, subscriber, account)
               found == n.original \in subscription
               x == [pc |-> "notify", notice |-> n, found |-> found, owner |-> owner,
                     members |-> IF found /\ owner = {} THEN users ELSE None,
                     copies |-> IF found THEN [y \in users |-> premium[y]] ELSE <<>>]
    <3>1. Serving(x)
      <4>1. users \subseteq Subscriber /\ owner \subseteq Subscriber
        BY DEF StoreTypes, Members
      <4> HIDE DEF users, owner, found
      <4> QED BY <4>1 DEF Serving
    <3>2. UNCHANGED <<apple, tables, received>> /\ worker' = [worker EXCEPT ![w] = x]
      BY <2>2 DEF NotifyRead
    <3> QED BY <3>1, <3>2
  <2>3. ASSUME StoreFail(w)
        PROVE  UNCHANGED <<apple, tables, received>> /\ \E x : Serving(x) /\ worker' = [worker EXCEPT ![w] = x]
    BY <2>3 DEF StoreFail, Serving
  <2> QED BY <2>1, <2>2, <2>3
<1>2. PICK x : Serving(x) /\ worker' = [worker EXCEPT ![w] = x]
  BY <1>1
<1>3. \A v \in StoreWorker : worker'[v] = IF v = w THEN x ELSE worker[v]
  BY <1>2 DEF StoreTypes
<1>4. \A v \in StoreWorker : Serving(worker[v])'
  BY <1>1, <1>2, <1>3 DEF StoreTypes, Serving, apple
<1>5. worker' \in [StoreWorker -> {worker'[v] : v \in StoreWorker}]
  BY <1>2 DEF StoreTypes
<1> QED BY <1>1, <1>4, <1>5 DEF StoreTypes, apple, tables

\* A request that ends leaves the others.
LEMMA EndKeepsWorkers ==
  ASSUME StoreTypes, NEW w \in StoreWorker, worker' = [worker EXCEPT ![w] = Inactive], notices' = notices
  PROVE  /\ worker' \in [StoreWorker -> {worker'[v] : v \in StoreWorker}]
         /\ \A v \in StoreWorker : Serving(worker[v])'
<1>1. \A v \in StoreWorker : worker'[v] = IF v = w THEN Inactive ELSE worker[v]
  BY DEF StoreTypes
<1>2. worker' \in [StoreWorker -> {worker'[v] : v \in StoreWorker}]
  BY DEF StoreTypes
<1> QED BY <1>1, <1>2 DEF StoreTypes, Serving

\* What a report writes.
LEMMA ReportWrites ==
  ASSUME StoreTypes, NEW w \in StoreWorker, ReportCommit(w)
  PROVE  LET u == worker[w].user
             j == worker[w].jws
         IN /\ u \in Subscriber /\ j \in SignedJws /\ j.txn \in Transaction
            /\ \E user \in Subscriber : transaction' = Upserted(transaction, j, user)
            /\ revenue' = Upserted(revenue, j, u)
            /\ received' = [received EXCEPT ![j.txn] = @ \cup {j}]
            /\ subscriber' = subscriber \cup {<<u, Original[j.txn]>>}
<1>1. worker[w].pc = "report" /\ Serving(worker[w])
  BY DEF ReportCommit, StoreTypes
<1>2. worker[w].user \in Subscriber /\ worker[w].jws \in SignedJws
  BY <1>1 DEF Serving, Inactive
<1>3. worker[w].jws.txn \in Transaction
  BY <1>2 DEF SignedJws
<1>4. Token[worker[w].jws.txn] \in Subscriber \cup {None}
  BY <1>3, StoreAssumption
<1> DEFINE user == IF Token[worker[w].jws.txn] # None THEN Token[worker[w].jws.txn] ELSE worker[w].user
<1>5. user \in Subscriber /\ transaction' = Upserted(transaction, worker[w].jws, user)
  BY <1>2, <1>4 DEF ReportCommit
<1>6. /\ revenue' = Upserted(revenue, worker[w].jws, worker[w].user)
      /\ received' = [received EXCEPT ![worker[w].jws.txn] = @ \cup {worker[w].jws}]
      /\ subscriber' = subscriber \cup {<<worker[w].user, Original[worker[w].jws.txn]>>}
  BY DEF ReportCommit
<1> HIDE DEF user
<1> QED BY <1>2, <1>3, <1>5, <1>6

LEMMA ReportCommitKeeps ==
  ASSUME StoreTypes, NEW w \in StoreWorker, ReportCommit(w)
  PROVE  StoreTypes'
<1> DEFINE u == worker[w].user
           j == worker[w].jws
<1>1. /\ u \in Subscriber /\ j \in SignedJws /\ j.txn \in Transaction
      /\ \E user \in Subscriber : transaction' = Upserted(transaction, j, user)
      /\ revenue' = Upserted(revenue, j, u)
      /\ received' = [received EXCEPT ![j.txn] = @ \cup {j}]
      /\ subscriber' = subscriber \cup {<<u, Original[j.txn]>>}
  BY ReportWrites
<1>2. /\ transaction' \in [Transaction -> SnapshotRow \cup {None}]
      /\ revenue' \in [Transaction -> SnapshotRow \cup {None}]
  BY <1>1, UpsertedIs DEF StoreTypes
<1>3. \E copies, table, links : premium' = Refreshed({u}, copies, table, links, lifecycle)
  BY DEF ReportCommit
<1>4. lifecycle \subseteq Notice
  BY DEF StoreTypes
<1>5. premium' \in [Subscriber -> Nat \cup {None}]
  BY <1>3, <1>4, RefreshedIs
<1>6. UNCHANGED <<apple, account, lifecycle>> /\ worker' = [worker EXCEPT ![w] = Inactive]
  BY DEF ReportCommit
<1>7. Original[j.txn] \in Originals
  BY <1>1 DEF Originals
<1> HIDE DEF u, j
<1>8. subscriber' \subseteq Subscriber \X Originals
  BY <1>1, <1>7 DEF StoreTypes
<1>9. received' \in [Transaction -> SUBSET SignedJws]
  BY <1>1 DEF StoreTypes
<1> QED BY <1>2, <1>5, <1>6, <1>8, <1>9, EndKeepsWorkers DEF StoreTypes, apple

\* What a notification writes.
LEMMA NotifyWrites ==
  ASSUME StoreTypes, NEW w \in StoreWorker, NotifyCommit(w)
  PROVE  LET n == worker[w].notice
             j == n.jws
             s == n.original
         IN /\ n \in notices /\ n \in Notice /\ Consistent(n)
            /\ j # None => j \in SignedJws /\ j.txn = n.txn
            /\ IF j = None THEN transaction' = transaction
               ELSE transaction' = Upserted(transaction, j, Token[n.txn])
            /\ j = None => revenue' = revenue
            /\ j # None => \/ \E u \in Subscriber : revenue' = Upserted(revenue, j, u)
                           \/ /\ revenue' = revenue
                              /\ \/ Token[n.txn] = None
                                 \/ transaction' = transaction /\ revenue[j.txn] # None
            /\ received' = IF j = None THEN received ELSE [received EXCEPT ![j.txn] = @ \cup {j}]
            /\ \E owner \in SUBSET Subscriber : subscriber' = subscriber \cup {<<u, s>> : u \in owner}
            /\ lifecycle' = lifecycle \cup {n}
<1> DEFINE n == worker[w].notice
           j == n.jws
           s == n.original
           token == Token[n.txn]
           owner == IF worker[w].found THEN worker[w].owner ELSE {token} \cap account
           links == subscriber \cup {<<u, s>> : u \in owner}
           users == IF worker[w].members = None THEN Members(s, links, account) ELSE worker[w].members
           table == IF j = None THEN transaction ELSE Upserted(transaction, j, token)
<1>1. worker[w].pc = "notify" /\ Serving(worker[w])
  BY DEF NotifyCommit, StoreTypes
<1>2. n \in notices /\ worker[w].owner \subseteq Subscriber
  BY <1>1 DEF Serving, Inactive
<1>3. n \in Notice /\ Consistent(n)
  BY <1>2 DEF StoreTypes
<1>4. j # None => j \in SignedJws /\ j.txn = n.txn
  BY <1>3 DEF Notice, Consistent
<1>5. owner \in SUBSET Subscriber
  BY <1>2 DEF StoreTypes
<1>6. /\ subscriber' = links /\ lifecycle' = lifecycle \cup {n} /\ transaction' = table
      /\ received' = IF j = None THEN received ELSE [received EXCEPT ![j.txn] = @ \cup {j}]
      /\ IF ~Measures(n, table # transaction) \/ Measured(owner, users, token) = {}
         THEN UNCHANGED revenue
         ELSE \E u \in Measured(owner, users, token) : revenue' = Upserted(revenue, j, u)
  BY DEF NotifyCommit
<1>7. users \subseteq Subscriber
  BY <1>1 DEF StoreTypes, Members, Serving, Inactive
<1>8. token \in Subscriber \cup {None}
  BY <1>3, StoreAssumption DEF Notice
<1> HIDE DEF owner, users, token, table
<1>9. j = None => revenue' = revenue
  BY <1>6 DEF Measures
<1>10. j # None => \/ \E u \in Subscriber : revenue' = Upserted(revenue, j, u)
                   \/ /\ revenue' = revenue
                      /\ token = None \/ (table = transaction /\ revenue[j.txn] # None)
  <2> HAVE j # None
  <2>1. CASE ~Measures(n, table # transaction)
    BY <1>6, <2>1 DEF Measures
  <2>2. CASE Measured(owner, users, token) = {}
    BY <1>6, <2>2 DEF Measured
  <2>3. CASE Measured(owner, users, token) # {} /\ Measures(n, table # transaction)
    BY <1>5, <1>6, <1>7, <1>8, <2>3 DEF Measured
  <2> QED BY <2>1, <2>2, <2>3
<1> QED
  <2> USE DEF token, table
  <2> HIDE DEF n, j, s
  <2> QED BY <1>2, <1>3, <1>4, <1>5, <1>6, <1>9, <1>10 DEF n, j, s

LEMMA NotifyCommitKeeps ==
  ASSUME StoreTypes, NEW w \in StoreWorker, NotifyCommit(w)
  PROVE  StoreTypes'
<1> DEFINE n == worker[w].notice
           j == n.jws
           s == n.original
<1>1. /\ n \in notices /\ n \in Notice /\ Consistent(n)
      /\ j # None => j \in SignedJws /\ j.txn = n.txn
      /\ IF j = None THEN transaction' = transaction
         ELSE transaction' = Upserted(transaction, j, Token[n.txn])
      /\ revenue' = revenue \/ (j # None /\ \E u \in Subscriber : revenue' = Upserted(revenue, j, u))
      /\ received' = IF j = None THEN received ELSE [received EXCEPT ![j.txn] = @ \cup {j}]
      /\ \E owner \in SUBSET Subscriber : subscriber' = subscriber \cup {<<u, s>> : u \in owner}
      /\ lifecycle' = lifecycle \cup {n}
  BY NotifyWrites
<1>2. premium' = premium
      \/ \E users, copies, table, links : premium' = Refreshed(users, copies, table, links, lifecycle \cup {n})
  BY DEF NotifyCommit
<1>3. UNCHANGED <<apple, account>> /\ worker' = [worker EXCEPT ![w] = Inactive]
  BY DEF NotifyCommit
<1> HIDE DEF n
<1>4. n.txn \in Transaction /\ s \in Originals /\ Token[n.txn] \in Subscriber \cup {None}
  BY <1>1, StoreAssumption DEF Notice
<1> HIDE DEF j, s
<1>5. transaction' \in [Transaction -> SnapshotRow \cup {None}]
  <2>1. CASE j = None
    BY <1>1, <2>1 DEF StoreTypes
  <2>2. CASE j # None
    BY <1>1, <1>4, <2>2, UpsertedIs DEF StoreTypes
  <2> QED BY <2>1, <2>2
<1>6. revenue' \in [Transaction -> SnapshotRow \cup {None}]
  BY <1>1, UpsertedIs DEF StoreTypes
<1>7. lifecycle \cup {n} \subseteq Notice
  BY <1>1 DEF StoreTypes
<1>8. premium' \in [Subscriber -> Nat \cup {None}]
  <2>1. CASE premium' = premium
    BY <2>1 DEF StoreTypes
  <2>2. ASSUME NEW users, NEW copies, NEW table, NEW links,
               premium' = Refreshed(users, copies, table, links, lifecycle \cup {n})
        PROVE  premium' \in [Subscriber -> Nat \cup {None}]
    BY <1>7, <2>2, RefreshedIs
  <2> QED BY <1>2, <2>1, <2>2
<1>9. subscriber' \subseteq Subscriber \X Originals
  BY <1>1, <1>4 DEF StoreTypes
<1>10. received' \in [Transaction -> SUBSET SignedJws]
  BY <1>1, <1>4 DEF StoreTypes
<1> QED BY <1>1, <1>3, <1>5, <1>6, <1>8, <1>9, <1>10, EndKeepsWorkers DEF StoreTypes, apple

\* A row filled in afterwards is the row of the transaction, of some user.
LEMMA BackfillWrites ==
  ASSUME StoreTypes, Backfill
  PROVE  /\ revenue' \in [Transaction -> SnapshotRow \cup {None}]
         /\ \A t \in Transaction :
              \/ revenue'[t] = revenue[t]
              \/ /\ transaction[t] # None /\ revenue'[t] # None
                 /\ revenue'[t].signed_date = transaction[t].signed_date
                 /\ revenue'[t].revoked = transaction[t].revoked
<1> DEFINE Users(t) == LET owner == {transaction[t].user} \cap account
                       IN IF owner # {} THEN owner ELSE Members(Original[t], subscriber, account)
           New(t) == [transaction[t] EXCEPT !.user = CHOOSE u \in Users(t) : TRUE]
<1>1. revenue' = [t \in Transaction |-> IF revenue[t] # None \/ transaction[t] = None \/ Users(t) = {}
                                        THEN revenue[t] ELSE New(t)]
  BY DEF Backfill
<1>2. \A t \in Transaction : Users(t) \subseteq Subscriber
  BY DEF StoreTypes, Members
<1>3. ASSUME NEW t \in Transaction, transaction[t] # None, Users(t) # {}
      PROVE  /\ New(t) \in SnapshotRow /\ New(t) # None
             /\ New(t).signed_date = transaction[t].signed_date /\ New(t).revoked = transaction[t].revoked
  <2> DEFINE u == CHOOSE x \in Users(t) : TRUE
  <2>1. u \in Subscriber
    BY <1>2, <1>3
  <2>2. transaction[t] \in SnapshotRow
    BY <1>3 DEF StoreTypes
  <2> HIDE DEF u
  <2>3. LET r == [transaction[t] EXCEPT !.user = u]
        IN r \in SnapshotRow /\ r.signed_date = transaction[t].signed_date /\ r.revoked = transaction[t].revoked
    BY <2>1, <2>2 DEF SnapshotRow
  <2> QED BY <2>3, StoreAssumption DEF u
<1> HIDE DEF Users, New
<1> QED BY <1>1, <1>3 DEF StoreTypes

LEMMA StoreTypesKept ==
  ASSUME StoreTypes, [StoreNext]_storeVars
  PROVE  StoreTypes'
<1>1. CASE UNCHANGED storeVars
  BY <1>1 DEF StoreTypes, Serving, storeVars, apple, tables
<1>2. CASE \E t \in Transaction : Sign(t)
  BY <1>2, SignKeeps
<1>3. CASE \E f \in NoticeForm, t \in Transaction : Notify(f, t)
  BY <1>3, NotifyKeeps
<1>4. CASE Tick
  <2>1. clock \in Nat /\ clock' = clock + 1 /\ UNCHANGED <<refunded, signed, notices, tables, worker, received>>
    BY <1>4 DEF Tick, StoreTypes
  <2>2. \A n \in notices : n.at <= clock'
    BY <2>1 DEF StoreTypes, Notice
  <2> QED BY <2>1, <2>2 DEF StoreTypes, Serving, tables
<1>5. CASE \/ \E w \in StoreWorker, u \in Subscriber, j \in signed : ReportRead(w, u, j)
           \/ \E w \in StoreWorker, n \in notices : NotifyRead(w, n)
           \/ \E w \in StoreWorker : StoreFail(w)
  BY <1>5, ReadKeeps
<1>6. CASE \E w \in StoreWorker : ReportCommit(w)
  BY <1>6, ReportCommitKeeps
<1>7. CASE \E w \in StoreWorker : NotifyCommit(w)
  BY <1>7, NotifyCommitKeeps
<1>8. CASE Backfill
  <2>1. UNCHANGED <<apple, account, subscription, subscriber, transaction, lifecycle, premium, worker, received>>
    BY <1>8 DEF Backfill
  <2> QED BY <1>8, <2>1, BackfillWrites DEF StoreTypes, Serving, apple
<1>9. CASE \E u \in Subscriber : DeleteAccount(u)
  BY <1>9 DEF StoreTypes, Serving, DeleteAccount, apple
<1> QED BY <1>1, <1>2, <1>3, <1>4, <1>5, <1>6, <1>7, <1>8, <1>9 DEF StoreNext

-----------------------------------------------------------------------------
(* The facts. *)

FactsInv == FactsFreshest /\ NothingBefore /\ RevenueAgrees /\ NoRevenueBefore

LEMMA FactsKept ==
  ASSUME StoreTypes, FactsInv, [StoreNext]_storeVars
  PROVE  FactsInv'
<1> USE DEF FactsInv
<1>1. ASSUME UNCHANGED <<transaction, revenue, received>>
      PROVE  FactsInv'
  BY <1>1 DEF FactsFreshest, NothingBefore, RevenueAgrees, NoRevenueBefore
<1>2. ASSUME NEW w \in StoreWorker, ReportCommit(w)
      PROVE  FactsInv'
  BY <1>2, ReportWrites, UpsertKeepsFacts, UpsertKeepsRevenue
<1>3. ASSUME NEW w \in StoreWorker, NotifyCommit(w)
      PROVE  FactsInv'
  <2> DEFINE n == worker[w].notice
             j == n.jws
  <2>1. /\ n \in Notice
        /\ j # None => j \in SignedJws /\ j.txn = n.txn
        /\ IF j = None THEN transaction' = transaction
           ELSE transaction' = Upserted(transaction, j, Token[n.txn])
        /\ j = None => revenue' = revenue
        /\ j # None => \/ \E u \in Subscriber : revenue' = Upserted(revenue, j, u)
                       \/ /\ revenue' = revenue
                          /\ \/ Token[n.txn] = None
                             \/ transaction' = transaction /\ revenue[j.txn] # None
        /\ received' = IF j = None THEN received ELSE [received EXCEPT ![j.txn] = @ \cup {j}]
    BY <1>3, NotifyWrites
  <2> HIDE DEF n
  <2>2. Token[n.txn] \in Subscriber \cup {None}
    BY <2>1, StoreAssumption DEF Notice
  <2> HIDE DEF j
  <2>3. CASE j = None
    BY <1>1, <2>1, <2>3
  <2>4. CASE j # None
    <3>1. FactsFreshest' /\ NothingBefore'
      BY <2>1, <2>2, <2>4, UpsertKeepsFacts
    <3>2. RevenueAgrees' /\ NoRevenueBefore'
      BY <2>1, <2>2, <2>4, UpsertKeepsRevenue
    <3> QED BY <3>1, <3>2
  <2> QED BY <2>3, <2>4
<1>4. ASSUME Backfill
      PROVE  FactsInv'
  <2>1. transaction' = transaction /\ received' = received
    BY <1>4 DEF Backfill
  <2>2. FactsFreshest' /\ NothingBefore'
    BY <2>1 DEF FactsFreshest, NothingBefore
  <2>3. RevenueAgrees' /\ NoRevenueBefore'
    BY <1>4, <2>1, BackfillWrites DEF RevenueAgrees, NoRevenueBefore
  <2> QED BY <2>2, <2>3
<1>5. CASE UNCHANGED storeVars
  BY <1>1, <1>5 DEF storeVars, tables
<1>6. CASE \/ \E t \in Transaction : Sign(t)
           \/ \E f \in NoticeForm, t \in Transaction : Notify(f, t)
           \/ Tick
           \/ \E w \in StoreWorker, u \in Subscriber, j \in signed : ReportRead(w, u, j)
           \/ \E w \in StoreWorker, n \in notices : NotifyRead(w, n)
           \/ \E w \in StoreWorker : StoreFail(w)
           \/ \E u \in Subscriber : DeleteAccount(u)
  <2>1. UNCHANGED <<transaction, revenue, received>>
    BY <1>6 DEF Sign, Notify, Tick, ReportRead, NotifyRead, StoreFail, DeleteAccount, tables
  <2> QED BY <1>1, <2>1
<1> QED BY <1>2, <1>3, <1>4, <1>5, <1>6 DEF StoreNext

-----------------------------------------------------------------------------
(* The leases. *)

\* What happens to one subscription leaves the others.
LEMMA OtherSubscription ==
  ASSUME NEW table, NEW table2, NEW j \in Transaction, \A t \in Transaction : t # j => table2[t] = table[t],
         NEW s, s # Original[j]
  PROVE  FactRows(s, table2) = FactRows(s, table)
BY DEF FactRows

LEMMA OtherNotice ==
  ASSUME NEW t, NEW events, NEW n, n.original # Original[t]
  PROVE  Deciding(t, events \cup {n}) = Deciding(t, events)
<1> DEFINE About(es) == {e \in es : /\ e.original = Original[t]
                                    /\ e.renewal \/ e.kind \in Authoritative
                                    /\ IF e.jws = None THEN e.at >= PurchaseDate[t] ELSE e.txn = t}
<1>1. About(events \cup {n}) = About(events)
  OBVIOUS
<1>2. \A es : Deciding(t, es) = {e \in About(es) : \A x \in About(es) : x.at <= e.at}
  BY DEF Deciding
<1> HIDE DEF About
<1> QED BY <1>1, <1>2

\* A user who is linked with none of what changes keeps what backs the lease.
LEMMA BackedElsewhere ==
  ASSUME NEW u, NEW p, NEW table, NEW table2, NEW links, NEW links2, NEW events, NEW events2, NEW s,
         \/ table2 = table
         \/ \E j \in Transaction : Original[j] = s /\ \A t \in Transaction : t # j => table2[t] = table[t],
         events2 = events \/ \E n : n.original = s /\ events2 = events \cup {n},
         Linked(u, links) \subseteq Linked(u, links2), s \notin Linked(u, links),
         Backed(u, p, table, links, events)
  PROVE  Backed(u, p, table2, links2, events2)
<1>1. PICK r \in Linked(u, links) : \E t \in Latest(FactRows(r, table)) : Carries(t, p, table, events)
  BY DEF Backed
<1>2. PICK t \in Latest(FactRows(r, table)) : Carries(t, p, table, events)
  BY <1>1
<1>3. t \in Transaction /\ Original[t] = r /\ r # s
  BY FactRowsAre
<1>4. FactRows(r, table2) = FactRows(r, table) /\ table2[t] = table[t]
  BY <1>3, OtherSubscription
<1>5. Deciding(t, events2) = Deciding(t, events)
  BY <1>3, OtherNotice
<1>6. Carries(t, p, table2, events2)
  BY <1>2, <1>4, <1>5 DEF Carries
<1> QED BY <1>2, <1>4, <1>6 DEF Backed

\* The notifications that may decide about a transaction; the newest of them does.
About(t, events) ==
  {e \in events : /\ e.original = Original[t]
                  /\ e.renewal \/ e.kind \in Authoritative
                  /\ IF e.jws = None THEN e.at >= PurchaseDate[t] ELSE e.txn = t}

LEMMA DecidingIs ==
  ASSUME NEW t, NEW events
  PROVE  Deciding(t, events) = {e \in About(t, events) : \A x \in About(t, events) : x.at <= e.at}
BY DEF Deciding, About

\* One that decided and no longer does has been followed by the new one, which decides.
LEMMA Followed ==
  ASSUME NEW t, NEW events \in SUBSET Notice, NEW n \in Notice,
         NEW e \in Deciding(t, events), e \notin Deciding(t, events \cup {n})
  PROVE  n \in Deciding(t, events \cup {n})
<1>1. About(t, events) \subseteq events
  BY DEF About
<1>2. e \in About(t, events) /\ \A x \in About(t, events) : x.at <= e.at
  BY DecidingIs
<1>3. About(t, events \cup {n}) = About(t, events) \/ About(t, events \cup {n}) = About(t, events) \cup {n}
  BY DEF About
<1>4. About(t, events \cup {n}) = About(t, events) \cup {n}
  BY <1>2, <1>3, DecidingIs
<1>5. PICK x \in About(t, events) \cup {n} : ~(x.at <= e.at)
  BY <1>2, <1>4, DecidingIs
<1>6. x = n
  BY <1>2, <1>5
<1>7. e.at \in Nat /\ n.at \in Nat /\ \A y \in About(t, events) : y.at \in Nat
  BY <1>1, <1>2 DEF Notice
<1>8. \A y \in About(t, events) \cup {n} : y.at <= n.at
  BY <1>2, <1>5, <1>6, <1>7
<1> QED BY <1>4, <1>8, DecidingIs

\* A notification that ends nothing, and withdraws no grace, takes away no lease that has
\* not run out.
LEMMA BackedAfterNotice ==
  ASSUME NEW u, NEW p \in Nat, NEW n \in Notice, NEW links2,
         lifecycle \in SUBSET Notice, n.kind \notin StoreEnded, ~Withdraws(n),
         clock \in Nat, p > clock,
         Linked(u, subscriber) \subseteq Linked(u, links2),
         Backed(u, p, transaction, subscriber, lifecycle)
  PROVE  Backed(u, p, transaction, links2, lifecycle \cup {n})
<1> DEFINE later == lifecycle \cup {n}
<1>1. PICK r \in Linked(u, subscriber) :
        \E t \in Latest(FactRows(r, transaction)) : Carries(t, p, transaction, lifecycle)
  BY DEF Backed
<1>2. PICK t \in Latest(FactRows(r, transaction)) : Carries(t, p, transaction, lifecycle)
  BY <1>1
<1>3. t \in Transaction /\ Original[t] = r
  BY FactRowsAre
<1>4. Deciding(t, later) \subseteq Deciding(t, lifecycle) \cup {n}
  BY DecidingIs DEF About
<1>5. ASSUME NEW e \in Deciding(t, lifecycle), e.grace # None, e.grace >= p, e \notin Deciding(t, later),
             ExpiresDate[t] # None, ~(ExpiresDate[t] >= p)
      PROVE  n \in Deciding(t, later) /\ n.grace # None /\ n.grace >= p
  <2>1. n \in Deciding(t, later)
    BY <1>5, Followed
  <2>2. n.original = r
    BY <1>3, <2>1, DecidingIs DEF About
  <2>3. e \in Notice /\ e.grace \in Nat /\ n.grace \in Nat \cup {None}
    BY <1>5, DecidingIs DEF About, Notice
  <2>4. ExpiresDate[t] \in Nat
    BY <1>3, <1>5, StoreAssumption
  <2>5. Deadline(t, e) \in Nat /\ Deadline(t, e) >= e.grace
    BY <1>3, <1>5, <2>3, <2>4, DeadlineIs
  <2>6. /\ Deadline(t, n) \in Nat
        /\ Deadline(t, n) = ExpiresDate[t] \/ (n.grace # None /\ Deadline(t, n) = n.grace)
    BY <1>3, <1>5, DeadlineIs
  <2>7. ~(Deadline(t, e) > clock /\ Deadline(t, n) < Deadline(t, e))
    BY <1>2, <1>5, <2>1, <2>2 DEF Withdraws
  <2>8. Deadline(t, n) >= p
    <3> DEFINE d == Deadline(t, e)
               c == Deadline(t, n)
    <3>1. d \in Nat /\ c \in Nat /\ ~(d > clock /\ c < d) /\ d >= e.grace
      BY <2>5, <2>6, <2>7
    <3> HIDE DEF d, c
    <3>2. c >= p
      BY <1>5, <2>3, <3>1
    <3> QED BY <3>2 DEF c
  <2> QED BY <1>5, <2>1, <2>3, <2>4, <2>6, <2>8
<1>6. Carries(t, p, transaction, later)
  BY <1>2, <1>4, <1>5 DEF Carries
<1> QED BY <1>1, <1>2, <1>6 DEF Backed

\* Who is among the users of a subscription.
LEMMA MembersAre ==
  ASSUME NEW s, NEW links \in SUBSET (Subscriber \X Originals), NEW accounts, NEW u \in accounts
  PROVE  u \in Members(s, links, accounts) <=> s \in Linked(u, links)
BY LinkedIff DEF Members

LEMMA ReportKeepsLeases ==
  ASSUME StoreTypes, StoreTypes', LeasesBacked, NEW w \in StoreWorker, ReportCommit(w)
  PROVE  LeasesBacked'
<1> DEFINE u == worker[w].user
           j == worker[w].jws
           s == Original[j.txn]
           copies == worker[w].copies
           others == IF transaction' = transaction THEN {} ELSE Members(s, subscriber', account) \ {u}
<1>1. u \in Subscriber /\ j \in SignedJws /\ j.txn \in Transaction
      /\ \E user \in Subscriber : transaction' = Upserted(transaction, j, user)
  BY ReportWrites
<1>2. /\ subscriber' = subscriber \cup {<<u, s>>}
      /\ premium' = Refreshed({u}, copies, transaction', subscriber', lifecycle)
      /\ unsettled' = (unsettled \ {u}) \cup Overtaken({u}, copies) \cup others
      /\ UNCHANGED <<apple, account, lifecycle>>
  BY DEF ReportCommit
<1>3. \A t \in Transaction : t # j.txn => transaction'[t] = transaction[t]
  BY <1>1, UpsertedIs DEF StoreTypes
<1>4. lifecycle \in SUBSET Notice
  BY DEF StoreTypes
<1> HIDE DEF u, j, s, copies
<1>5. /\ \A x \in Subscriber \ {u} : premium'[x] = premium[x]
      /\ u \notin Overtaken({u}, copies) /\ premium'[u] # None =>
           Backed(u, premium'[u], transaction', subscriber', lifecycle)
  BY <1>1, <1>2, <1>4, RefreshedIs
<1> SUFFICES ASSUME NEW v \in account', v \notin unsettled', premium'[v] # None, premium'[v] > clock'
             PROVE  Backed(v, premium'[v], transaction', subscriber', lifecycle')
  BY DEF LeasesBacked
<1>6. v \in Subscriber /\ v \in account /\ clock' = clock /\ lifecycle' = lifecycle
  BY <1>2 DEF StoreTypes, apple
<1>7. CASE v = u
  BY <1>2, <1>5, <1>6, <1>7
<1>8. CASE v # u
  <2>1. premium'[v] = premium[v] /\ v \notin unsettled
    BY <1>2, <1>5, <1>6, <1>8
  <2>2. Backed(v, premium[v], transaction, subscriber, lifecycle)
    BY <1>6, <2>1 DEF LeasesBacked
  <2>3. \A r : r \in Linked(v, subscriber') <=> r \in Linked(v, subscriber)
    BY <1>2, <1>8 DEF Linked
  <2>4. CASE transaction' = transaction
    BY <1>6, <2>1, <2>2, <2>3, <2>4 DEF Backed
  <2>5. CASE transaction' # transaction
    <3>1. v \notin Members(s, subscriber', account)
      BY <1>2, <1>8, <2>5
    <3>2. s \notin Linked(v, subscriber)
      BY <1>6, <2>3, <3>1, MembersAre DEF StoreTypes
    <3>3. Linked(v, subscriber) \subseteq Linked(v, subscriber')
      BY <2>3
    <3>4. \E k \in Transaction : Original[k] = s /\ \A t \in Transaction : t # k => transaction'[t] = transaction[t]
      BY <1>1, <1>3 DEF s
    <3> QED BY <1>6, <2>1, <2>2, <3>2, <3>3, <3>4, BackedElsewhere
  <2> QED BY <2>4, <2>5
<1> QED BY <1>7, <1>8

LEMMA NotifyKeepsLeases ==
  ASSUME StoreTypes, StoreTypes', LeasesBacked, NEW w \in StoreWorker, NotifyCommit(w)
  PROVE  LeasesBacked'
<1> DEFINE n == worker[w].notice
           j == n.jws
           s == n.original
           token == Token[n.txn]
           owner == IF worker[w].found THEN worker[w].owner ELSE {token} \cap account
           links == subscriber \cup {<<x, s>> : x \in owner}
           users == IF worker[w].members = None THEN Members(s, links, account) ELSE worker[w].members
           copies == worker[w].copies
           updated == transaction' # transaction
           touched == Members(s, links, account)
<1>1. /\ n \in notices /\ n \in Notice /\ Consistent(n)
      /\ j # None => j \in SignedJws /\ j.txn = n.txn
      /\ IF j = None THEN transaction' = transaction
         ELSE transaction' = Upserted(transaction, j, token)
      /\ lifecycle' = lifecycle \cup {n}
  BY NotifyWrites
<1>2. /\ subscriber' = links
      /\ premium' = IF RefreshesPremium(n, updated)
                    THEN Refreshed(users, copies, transaction', links, lifecycle') ELSE premium
      /\ unsettled' = IF j = None THEN unsettled \cup touched
                      ELSE IF ~RefreshesPremium(n, updated)
                      THEN unsettled \cup (IF Withdraws(n) THEN touched ELSE {})
                      ELSE (unsettled \ users) \cup (touched \ users) \cup Overtaken(users, copies)
      /\ UNCHANGED <<apple, account>>
  BY DEF NotifyCommit
<1>3. n.txn \in Transaction /\ s = Original[n.txn] /\ token \in Subscriber \cup {None} /\ n.at \in Nat
  BY <1>1, StoreAssumption DEF Notice, Consistent
<1>4. lifecycle' \in SUBSET Notice /\ lifecycle \in SUBSET Notice
  BY DEF StoreTypes
<1> HIDE DEF n, owner, users, copies
<1>5. transaction' = transaction
      \/ \E k \in Transaction : Original[k] = s /\ \A t \in Transaction : t # k => transaction'[t] = transaction[t]
  <2> HIDE DEF j, s, token
  <2>1. CASE j = None
    BY <1>1, <2>1
  <2>2. CASE j # None
    <3>1. \A t \in Transaction : t # j.txn => transaction'[t] = transaction[t]
      BY <1>1, <1>3, <2>2, UpsertedIs DEF StoreTypes
    <3> QED BY <1>1, <1>3, <2>2, <3>1
  <2> QED BY <2>1, <2>2
<1>6. \A v : Linked(v, subscriber) \subseteq Linked(v, links)
  BY DEF Linked
<1>7. links \in SUBSET (Subscriber \X Originals)
  BY <1>2 DEF StoreTypes
<1> HIDE DEF j, s, token, links, updated, touched
<1> SUFFICES ASSUME NEW v \in account', v \notin unsettled', premium'[v] # None, premium'[v] > clock'
             PROVE  Backed(v, premium'[v], transaction', links, lifecycle')
  BY <1>2 DEF LeasesBacked
<1>8. v \in Subscriber /\ v \in account /\ clock' = clock
  BY <1>2 DEF StoreTypes, apple
<1>9. ASSUME v \notin touched, premium'[v] = premium[v], v \notin unsettled
      PROVE  Backed(v, premium'[v], transaction', links, lifecycle')
  <2>1. s \notin Linked(v, links)
    BY <1>7, <1>8, <1>9, MembersAre DEF touched
  <2>2. Backed(v, premium[v], transaction, subscriber, lifecycle)
    BY <1>8, <1>9 DEF LeasesBacked
  <2>3. s \notin Linked(v, subscriber)
    BY <1>6, <2>1
  <2>4. lifecycle' = lifecycle \cup {n} /\ n.original = s
    BY <1>1 DEF s
  <2> QED BY <1>5, <1>6, <1>9, <2>2, <2>3, <2>4, BackedElsewhere
<1>10. CASE j = None
  <2>1. ~RefreshesPremium(n, updated)
    BY <1>10 DEF RefreshesPremium, j
  <2> QED BY <1>2, <1>9, <1>10, <2>1
<1>11. CASE j # None /\ ~RefreshesPremium(n, updated)
  <2>1. transaction' = transaction /\ n.kind \notin StoreEnded
    BY <1>11 DEF RefreshesPremium, j, updated
  <2>2. premium'[v] = premium[v] /\ v \notin unsettled /\ (Withdraws(n) => v \notin touched)
    BY <1>2, <1>11
  <2>3. CASE Withdraws(n)
    BY <1>9, <2>2, <2>3
  <2>4. CASE ~Withdraws(n)
    <3>1. Backed(v, premium[v], transaction, subscriber, lifecycle)
      BY <1>8, <2>2 DEF LeasesBacked
    <3>2. premium[v] \in Nat /\ premium[v] > clock /\ clock \in Nat
      BY <1>8, <2>2 DEF StoreTypes
    <3>3. Linked(v, subscriber) \subseteq Linked(v, links)
      BY <1>6
    <3>4. Backed(v, premium[v], transaction, links, lifecycle \cup {n})
      BY <1>1, <1>4, <2>1, <2>4, <3>1, <3>2, <3>3, BackedAfterNotice
    <3> QED BY <1>1, <2>1, <2>2, <3>4
  <2> QED BY <2>3, <2>4
<1>12. CASE j # None /\ RefreshesPremium(n, updated)
  <2>1. /\ \A x \in Subscriber \ users : premium'[x] = premium[x]
        /\ \A x \in (Subscriber \cap users) \ Overtaken(users, copies) :
             premium'[x] # None => Backed(x, premium'[x], transaction', links, lifecycle')
    BY <1>2, <1>4, <1>12, RefreshedIs
  <2>2. CASE v \in users
    BY <1>2, <1>8, <1>12, <2>1, <2>2
  <2>3. CASE v \notin users
    BY <1>2, <1>8, <1>9, <1>12, <2>1, <2>3
  <2> QED BY <2>2, <2>3
<1> QED BY <1>10, <1>11, <1>12

LEMMA LeasesKept ==
  ASSUME StoreTypes, StoreTypes', LeasesBacked, [StoreNext]_storeVars
  PROVE  LeasesBacked'
<1>1. ASSUME UNCHANGED <<tables, unsettled>>, clock' >= clock
      PROVE  LeasesBacked'
  <2> SUFFICES ASSUME NEW u \in account \ unsettled, premium[u] # None, premium[u] > clock'
               PROVE  Backed(u, premium[u], transaction, subscriber, lifecycle)
    BY <1>1 DEF LeasesBacked, tables
  <2>1. premium[u] \in Nat /\ clock \in Nat /\ clock' \in Nat
    BY DEF StoreTypes
  <2> QED BY <1>1, <2>1 DEF LeasesBacked
<1>2. clock \in Nat
  BY DEF StoreTypes
<1>3. CASE UNCHANGED storeVars
  BY <1>1, <1>2, <1>3 DEF storeVars, apple
<1>4. CASE \/ \E t \in Transaction : Sign(t)
           \/ \E f \in NoticeForm, t \in Transaction : Notify(f, t)
           \/ Tick
           \/ \E w \in StoreWorker, u \in Subscriber, j \in signed : ReportRead(w, u, j)
           \/ \E w \in StoreWorker, n \in notices : NotifyRead(w, n)
           \/ \E w \in StoreWorker : StoreFail(w)
  <2>1. UNCHANGED <<tables, unsettled>> /\ clock' >= clock
    <3>1. CASE Tick
      BY <1>2, <3>1 DEF Tick
    <3>2. CASE ~Tick
      <4>1. UNCHANGED <<tables, unsettled, clock>>
        BY <1>4, <3>2 DEF Sign, Notify, ReportRead, NotifyRead, StoreFail, apple
      <4> QED BY <1>2, <4>1
    <3> QED BY <3>1, <3>2
  <2> QED BY <1>1, <2>1
<1>5. CASE \E w \in StoreWorker : ReportCommit(w)
  BY <1>5, ReportKeepsLeases
<1>6. CASE \E w \in StoreWorker : NotifyCommit(w)
  BY <1>6, NotifyKeepsLeases
<1>7. CASE Backfill
  BY <1>7 DEF Backfill, LeasesBacked, apple
<1>8. ASSUME NEW u \in Subscriber, DeleteAccount(u)
      PROVE  LeasesBacked'
  <2>1. account' = account \ {u} /\ subscriber' = {p \in subscriber : p[1] # u} /\ unsettled' = unsettled \ {u}
        /\ UNCHANGED <<apple, transaction, lifecycle, premium>>
    BY <1>8 DEF DeleteAccount
  <2>2. \A v \in account' : Linked(v, subscriber') = Linked(v, subscriber)
    BY <2>1 DEF Linked
  <2> QED BY <2>1, <2>2 DEF LeasesBacked, Backed, apple
<1> QED BY <1>3, <1>4, <1>5, <1>6, <1>7, <1>8 DEF StoreNext

-----------------------------------------------------------------------------
(* The theorems. *)

LEMMA StoreInitially == StoreInit => StoreTypes /\ FactsInv /\ LeasesBacked
<1> SUFFICES ASSUME StoreInit
             PROVE  StoreTypes /\ FactsInv /\ LeasesBacked
  OBVIOUS
<1>1. signed \subseteq SignedJws
  <2>1. \A t \in Transaction : [txn |-> t, at |-> 0, revoked |-> FALSE] \in SignedJws
    BY DEF SignedJws
  <2> QED BY <2>1 DEF StoreInit
<1>2. StoreTypes
  BY <1>1 DEF StoreInit, StoreTypes, Serving
<1>3. FactsInv /\ LeasesBacked
  BY DEF StoreInit, FactsInv, FactsFreshest, NothingBefore, RevenueAgrees, NoRevenueBefore, LeasesBacked
<1> QED BY <1>2, <1>3

\* The tables of the store, the notifications and what the workers hold keep their types
\* (storekit.py, lifecycle.py, revenue.py).
THEOREM StoreTypeCorrect == StoreSpec => []StoreTypes
<1>1. StoreInit => StoreTypes
  BY StoreInitially
<1>2. StoreTypes /\ [StoreNext]_storeVars => StoreTypes'
  BY StoreTypesKept
<1> QED BY <1>1, <1>2, PTL DEF StoreSpec

\* The row is the newest snapshot received, and revenue agrees with it.
LEMMA FactsAlways == StoreSpec => []FactsInv
<1>1. StoreInit => FactsInv
  BY StoreInitially
<1>2. StoreTypes /\ FactsInv /\ [StoreNext]_storeVars => FactsInv'
  BY FactsKept
<1> QED BY <1>1, <1>2, StoreTypeCorrect, PTL DEF StoreSpec

\* Among the snapshots received of a transaction, in whatever order reports and
\* notifications come, its row holds the one signed last, refunded if one of that date is.
THEOREM FactsCorrect == StoreSpec => []FactsFreshest
BY FactsAlways, PTL DEF FactsInv

\* A purchase made by a known account is reported with the date and the refund of its
\* transaction, and no other.
THEOREM RevenueCorrect == StoreSpec => []RevenueAgrees
BY FactsAlways, PTL DEF FactsInv

\* A lease that is backed is granted.
LEMMA BackedGranted == StoreTypes /\ LeasesBacked => LeaseFollowsFacts
<1> SUFFICES ASSUME StoreTypes, LeasesBacked,
                    NEW u \in account \ unsettled, premium[u] # None, premium[u] > clock
             PROVE  Granted(u, transaction, subscriber, lifecycle) # {}
  BY DEF LeaseFollowsFacts
<1>1. premium[u] \in Nat /\ clock \in Nat /\ lifecycle \in SUBSET Notice
  BY DEF StoreTypes
<1>2. Backed(u, premium[u], transaction, subscriber, lifecycle)
  BY DEF LeasesBacked
<1>3. PICK s \in Linked(u, subscriber) :
        \E t \in Latest(FactRows(s, transaction)) : Carries(t, premium[u], transaction, lifecycle)
  BY <1>2 DEF Backed
<1>4. PICK t \in Latest(FactRows(s, transaction)) : Carries(t, premium[u], transaction, lifecycle)
  BY <1>3
<1>5. t \in Transaction
  BY FactRowsAre
<1>6. Grants(t, transaction, lifecycle) # {}
  BY <1>1, <1>4, <1>5, CarriedGrants
<1> QED BY <1>6, GrantedIs

\* A lease that runs is one the facts grant its account, but for accounts a change of
\* facts has passed by, however reports and notifications interleave.
THEOREM LeaseCorrect == StoreSpec => []LeaseFollowsFacts
<1>1. StoreInit => LeasesBacked
  BY StoreInitially
<1>2. StoreTypes /\ StoreTypes' /\ LeasesBacked /\ [StoreNext]_storeVars => LeasesBacked'
  BY LeasesKept
<1> QED BY <1>1, <1>2, BackedGranted, StoreTypeCorrect, PTL DEF StoreSpec

\* Access is a transaction that carries a lease until the next moment.
LEMMA AccessGranted == StoreTypes => AccessImpliesGrant
<1> SUFFICES ASSUME StoreTypes, NEW u \in account, HasAccess(u),
                    \A t \in Transaction : transaction[t] # None => PurchaseDate[t] <= clock
             PROVE  Granted(u, transaction, subscriber, lifecycle) # {}
  BY DEF AccessImpliesGrant
<1>1. \A s : Begun(s) = FactRows(s, transaction)
  BY DEF Begun, FactRows
<1>2. PICK s \in Linked(u, subscriber) : \E t \in Latest(FactRows(s, transaction)) :
        /\ ~transaction[t].revoked
        /\ ExpiresDate[t] # None
        /\ \A e \in Deciding(t, lifecycle) : Active(e)
        /\ \/ ExpiresDate[t] > clock
           \/ \E e \in Deciding(t, lifecycle) : e.grace # None /\ e.grace > clock
  BY <1>1 DEF HasAccess
<1>3. PICK t \in Latest(FactRows(s, transaction)) :
        /\ ~transaction[t].revoked
        /\ ExpiresDate[t] # None
        /\ \A e \in Deciding(t, lifecycle) : Active(e)
        /\ \/ ExpiresDate[t] > clock
           \/ \E e \in Deciding(t, lifecycle) : e.grace # None /\ e.grace > clock
  BY <1>2
<1>4. t \in Transaction /\ ExpiresDate[t] \in Nat /\ clock \in Nat /\ lifecycle \in SUBSET Notice
  BY <1>3, FactRowsAre, StoreAssumption DEF StoreTypes
<1>5. \A e \in Deciding(t, lifecycle) : e.grace # None => e.grace \in Nat
  BY <1>4, DecidingAre DEF Notice
<1>6. Carries(t, clock + 1, transaction, lifecycle)
  BY <1>3, <1>4, <1>5 DEF Carries, Active
<1>7. Grants(t, transaction, lifecycle) # {}
  <2>1. clock + 1 \in Nat /\ clock + 1 > clock
    BY <1>4
  <2> QED BY <1>4, <1>6, <2>1, CarriedGrants
<1> QED BY <1>7, GrantedIs

\* Whoever has_subscription_access lets in is granted a lease by the facts, unless a
\* period was bought ahead.
THEOREM AccessCorrect == StoreSpec => []AccessImpliesGrant
BY AccessGranted, StoreTypeCorrect, PTL

-----------------------------------------------------------------------------
(* Recoveries. *)

Report == [purchase : Purchase, copy : RecoveryRow \cup {None}, new : RecoveryRow]

RecoveryTypes ==
  /\ instant \in Nat /\ reports \in Nat
  /\ recovery \in [Purchase -> RecoveryRow \cup {None}]
  /\ waiting \in [Reporting -> Report \cup {None}]
  /\ monitor = None \/ (monitor.due \subseteq Purchase /\ monitor.now \in Nat)

\* What a request changes of its copy: neither the account nor the alert, and it does not
\* let what it found resolved wait.
Respects(r) ==
  r.copy # None =>
    /\ r.new.user = r.copy.user /\ r.new.due = r.copy.due /\ r.new.alerted = r.copy.alerted
    /\ r.new.state = "recovery_pending" => r.copy.state = "recovery_pending"

\* A row that was read stays, with its account and its alert.
Stands(r) ==
  r.copy # None =>
    /\ recovery[r.purchase] # None
    /\ recovery[r.purchase].user = r.copy.user /\ recovery[r.purchase].due = r.copy.due

WaitingInv == \A w \in Reporting : waiting[w] # None => Respects(waiting[w]) /\ Stands(waiting[w])
MonitorInv == monitor # None => \A t \in monitor.due : recovery[t] # None

RecoveryInv == RecoveryTypes /\ WaitingInv /\ MonitorInv

\* The step of one purchase in ResolvedStays.
Steady(t) ==
  recovery[t] # None =>
    /\ recovery'[t].state = "recovery_pending" => recovery[t].state = "recovery_pending"
    /\ recovery'[t].user = recovery[t].user /\ recovery'[t].due = recovery[t].due
    /\ recovery[t].alerted # None => recovery'[t].alerted # None

\* A purchase keeps its row, its account and its alert.
Rests(t) ==
  recovery[t] # None =>
    /\ recovery'[t] # None
    /\ recovery'[t].user = recovery[t].user /\ recovery'[t].due = recovery[t].due

-----------------------------------------------------------------------------

LEMMA RowFact ==
  ASSUME NEW r \in RecoveryRow
  PROVE  /\ r # None
         /\ r.user \in Buyer /\ r.state \in {"recovery_pending", "resolved"}
         /\ r.reason \in Failure \cup {None} /\ r.first \in Nat /\ r.due \in Nat /\ r.last \in Nat
         /\ r.resolved \in Nat \cup {None} /\ r.alerted \in Nat \cup {None}
  BY RecoveryAssumption DEF RecoveryRow

\* SQLAlchemy's UPDATE, column by column.
LEMMA SavedFact ==
  ASSUME NEW current \in RecoveryRow, NEW copy \in RecoveryRow, NEW new \in RecoveryRow
  PROVE  /\ SavedColumns(current, copy, new) \in RecoveryRow
         /\ new.user = copy.user => SavedColumns(current, copy, new).user = current.user
         /\ new.due = copy.due => SavedColumns(current, copy, new).due = current.due
         /\ new.alerted = copy.alerted => SavedColumns(current, copy, new).alerted = current.alerted
         /\ SavedColumns(current, copy, new).state \in {new.state, current.state}
         /\ new.state = copy.state => SavedColumns(current, copy, new).state = current.state
  BY DEF SavedColumns, RecoveryRow

\* A row whose alert the loop notes.
LEMMA NotedFact ==
  ASSUME NEW r \in RecoveryRow, NEW n \in Nat
  PROVE  LET s == [r EXCEPT !.alerted = n]
         IN s \in RecoveryRow /\ s.user = r.user /\ s.due = r.due /\ s.state = r.state /\ s.alerted = n
  BY DEF RecoveryRow

\* What a request writes: a row, and of a row that was there no more than Respects allows.
LEMMA AfterFact ==
  ASSUME RecoveryTypes, NEW t \in Purchase, NEW u \in Buyer,
         NEW state \in {"recovery_pending", "resolved"}, NEW reason \in Failure \cup {None},
         Writes(t, u, state)
  PROVE  /\ After(t, u, state, reason) \in RecoveryRow
         /\ recovery[t] # None =>
              /\ After(t, u, state, reason).user = recovery[t].user
              /\ After(t, u, state, reason).due = recovery[t].due
              /\ After(t, u, state, reason).alerted = recovery[t].alerted
              /\ After(t, u, state, reason).state = "recovery_pending" => recovery[t].state = "recovery_pending"
<1>1. NewRecovery(u) \in RecoveryRow
  BY RecoveryAssumption DEF NewRecovery, RecoveryRow, RecoveryTypes
<1> DEFINE row == IF recovery[t] = None THEN NewRecovery(u) ELSE recovery[t]
<1>2. row \in RecoveryRow
  BY <1>1 DEF RecoveryTypes
<1>3. CASE state = "resolved"
  <2>1. After(t, u, state, reason) =
          [row EXCEPT !.state = "resolved", !.reason = None, !.last = instant,
                      !.resolved = IF @ = None THEN instant ELSE @]
    BY <1>3 DEF After
  <2>2. instant \in Nat
    BY DEF RecoveryTypes
  <2> HIDE DEF row
  <2>3. /\ After(t, u, state, reason) \in RecoveryRow
        /\ After(t, u, state, reason).user = row.user /\ After(t, u, state, reason).due = row.due
        /\ After(t, u, state, reason).alerted = row.alerted
        /\ After(t, u, state, reason).state = "resolved"
    BY ZenonT(30), <1>2, <2>1, <2>2 DEF RecoveryRow
  <2> QED
    BY <2>3 DEF row
<1>4. CASE state = "recovery_pending"
  <2>1. After(t, u, state, reason) = [row EXCEPT !.state = state, !.reason = reason, !.last = instant]
    BY <1>4 DEF After
  <2>2. instant \in Nat
    BY DEF RecoveryTypes
  <2>3. recovery[t] # None => recovery[t].state = "recovery_pending"
    BY <1>4, RowFact DEF Writes, RecoveryTypes
  <2> HIDE DEF row
  <2>4. /\ After(t, u, state, reason) \in RecoveryRow
        /\ After(t, u, state, reason).user = row.user /\ After(t, u, state, reason).due = row.due
        /\ After(t, u, state, reason).alerted = row.alerted
    BY <1>2, <2>1, <2>2 DEF RecoveryRow
  <2> QED
    BY <2>3, <2>4 DEF row
<1> QED
  BY <1>3, <1>4

-----------------------------------------------------------------------------
(* The requests. *)

LEMMA BeginKeeps ==
  ASSUME RecoveryInv, NEW w \in Reporting, NEW t \in Purchase, NEW u \in Buyer,
         NEW state \in {"recovery_pending", "resolved"}, NEW reason \in Failure \cup {None},
         BeginReport(w, t, u, state, reason)
  PROVE  RecoveryInv'
<1>1. recovery' = recovery /\ monitor' = monitor /\ instant' = instant /\ reports' = reports + 1
  BY DEF BeginReport
<1>2. CASE ~Writes(t, u, state)
  BY <1>1, <1>2 DEF BeginReport, RecoveryInv, RecoveryTypes, WaitingInv, MonitorInv, Stands, Respects
<1>3. CASE Writes(t, u, state)
  <2> DEFINE r == [purchase |-> t, copy |-> recovery[t], new |-> After(t, u, state, reason)]
  <2>1. waiting' = [waiting EXCEPT ![w] = r]
    BY <1>3 DEF BeginReport
  <2>2. r \in Report /\ Respects(r) /\ Stands(r)
    BY <1>3, AfterFact DEF RecoveryInv, RecoveryTypes, Report, Respects, Stands
  <2>3. r.purchase = t /\ r.copy = recovery[t]
    OBVIOUS
  <2> HIDE DEF r
  <2>4. RecoveryTypes'
    BY <1>1, <2>1, <2>2 DEF RecoveryInv, RecoveryTypes
  <2>5. WaitingInv'
    BY <1>1, <2>1, <2>2 DEF RecoveryInv, RecoveryTypes, WaitingInv, Respects, Stands
  <2> QED
    BY <1>1, <2>4, <2>5 DEF RecoveryInv, MonitorInv
<1> QED
  BY <1>2, <1>3

\* What a commit does to the one row it writes.
LEMMA CommitWrites ==
  ASSUME RecoveryInv, NEW w \in Reporting, CommitReport(w)
  PROVE  /\ recovery' \in [Purchase -> RecoveryRow \cup {None}]
         /\ \A t \in Purchase : Rests(t) /\ Steady(t)
<1> DEFINE r == waiting[w]
<1>1. r \in Report /\ r # None /\ Respects(r) /\ Stands(r)
  BY DEF CommitReport, RecoveryInv, RecoveryTypes, WaitingInv
<1>2. r.purchase \in Purchase /\ r.copy \in RecoveryRow \cup {None} /\ r.new \in RecoveryRow
  BY <1>1 DEF Report
<1>3. recovery \in [Purchase -> RecoveryRow \cup {None}]
  BY DEF RecoveryInv, RecoveryTypes
<1>4. CASE r.copy # None
  <2> DEFINE saved == SavedColumns(recovery[r.purchase], r.copy, r.new)
  <2>1. recovery' = [recovery EXCEPT ![r.purchase] = saved]
    BY <1>4 DEF CommitReport
  <2>2. recovery[r.purchase] \in RecoveryRow
    BY <1>1, <1>2, <1>3, <1>4 DEF Stands
  <2>3. /\ saved \in RecoveryRow
        /\ saved.user = recovery[r.purchase].user /\ saved.due = recovery[r.purchase].due
        /\ saved.alerted = recovery[r.purchase].alerted
    BY <1>1, <1>2, <1>4, <2>2, SavedFact DEF Respects
  <2>4. saved.state = "recovery_pending" => recovery[r.purchase].state = "recovery_pending"
    <3>1. CASE r.new.state = "recovery_pending"
      BY <1>1, <1>2, <1>4, <2>2, <3>1, SavedFact DEF Respects
    <3>2. CASE r.new.state # "recovery_pending"
      BY <1>2, <1>4, <2>2, <3>2, SavedFact
    <3> QED
      BY <3>1, <3>2
  <2>5. saved # None
    BY <2>3, RowFact
  <2> HIDE DEF saved, r
  <2> QED
    BY <1>2, <1>3, <2>1, <2>3, <2>4, <2>5 DEF Rests, Steady
<1>5. CASE r.copy = None
  <2>1. recovery' = IF recovery[r.purchase] = None THEN [recovery EXCEPT ![r.purchase] = r.new] ELSE recovery
    BY <1>5 DEF CommitReport
  <2> HIDE DEF r
  <2> QED
    BY <1>2, <1>3, <2>1 DEF Rests, Steady
<1> QED
  BY <1>4, <1>5

\* Steps that leave every purchase its row, its account and its alert's time disturb no request.
LEMMA RestsKeeps ==
  ASSUME RecoveryInv, \A t \in Purchase : Rests(t),
         \A v \in Reporting : waiting'[v] \in {None, waiting[v]}
  PROVE  WaitingInv'
<1> SUFFICES ASSUME NEW v \in Reporting, waiting'[v] # None
             PROVE  (Respects(waiting[v]) /\ Stands(waiting[v]))'
  BY DEF WaitingInv
<1>1. waiting'[v] = waiting[v] /\ waiting[v] # None /\ waiting[v] \in Report
  BY DEF RecoveryInv, RecoveryTypes
<1>2. waiting[v].purchase \in Purchase
  BY <1>1 DEF Report
<1>3. Respects(waiting[v]) /\ Stands(waiting[v])
  BY <1>1 DEF RecoveryInv, WaitingInv
<1> QED
  BY <1>1, <1>2, <1>3 DEF Respects, Stands, Rests

LEMMA CommitKeeps ==
  ASSUME RecoveryInv, NEW w \in Reporting, CommitReport(w)
  PROVE  RecoveryInv'
<1>1. /\ waiting' \in [Reporting -> Report \cup {None}]
      /\ \A v \in Reporting : waiting'[v] \in {None, waiting[v]}
  BY DEF CommitReport, RecoveryInv, RecoveryTypes
<1>2. instant' = instant /\ reports' = reports /\ monitor' = monitor
  BY DEF CommitReport
<1>3. \A t \in Purchase : Rests(t)
  BY CommitWrites
<1>4. recovery' \in [Purchase -> RecoveryRow \cup {None}]
  BY CommitWrites
<1>5. WaitingInv'
  BY <1>1, <1>3, RestsKeeps
<1>6. RecoveryTypes'
  BY <1>1, <1>2, <1>4 DEF RecoveryInv, RecoveryTypes
<1>7. MonitorInv'
  BY <1>2, <1>3 DEF RecoveryInv, RecoveryTypes, MonitorInv, Rests
<1> QED
  BY <1>5, <1>6, <1>7 DEF RecoveryInv

LEMMA LoseKeeps ==
  ASSUME RecoveryInv, NEW w \in Reporting, LoseReport(w)
  PROVE  RecoveryInv'
<1>1. /\ waiting' \in [Reporting -> Report \cup {None}]
      /\ \A v \in Reporting : waiting'[v] \in {None, waiting[v]}
  BY DEF LoseReport, RecoveryInv, RecoveryTypes
<1>2. UNCHANGED <<instant, recovery, monitor, reports>>
  BY DEF LoseReport
<1>3. WaitingInv'
  BY <1>1, <1>2, RestsKeeps DEF Rests
<1> QED
  BY <1>1, <1>2, <1>3 DEF RecoveryInv, RecoveryTypes, MonitorInv

-----------------------------------------------------------------------------
(* The loop that alerts. *)

LEMMA MonitorWrites ==
  ASSUME RecoveryInv, MonitorCommits
  PROVE  /\ recovery' \in [Purchase -> RecoveryRow \cup {None}]
         /\ \A t \in Purchase : Rests(t) /\ Steady(t)
<1>1. monitor # None /\ monitor.due \subseteq Purchase /\ monitor.now \in Nat
  BY DEF MonitorCommits, RecoveryInv, RecoveryTypes
<1>2. recovery \in [Purchase -> RecoveryRow \cup {None}]
  BY DEF RecoveryInv, RecoveryTypes
<1>3. ASSUME NEW t \in Purchase, t \in monitor.due
      PROVE  /\ recovery'[t] = [recovery[t] EXCEPT !.alerted = monitor.now]
             /\ recovery[t] \in RecoveryRow
  BY <1>1, <1>2, <1>3 DEF MonitorCommits, RecoveryInv, MonitorInv
<1>4. ASSUME NEW t \in Purchase, t \in monitor.due
      PROVE  /\ recovery'[t] \in RecoveryRow
             /\ recovery'[t].user = recovery[t].user /\ recovery'[t].due = recovery[t].due
             /\ recovery'[t].state = recovery[t].state /\ recovery'[t].alerted = monitor.now
  <2>1. recovery[t] \in RecoveryRow /\ monitor.now \in Nat
    BY <1>1, <1>3, <1>4
  <2>2. recovery'[t] = [recovery[t] EXCEPT !.alerted = monitor.now]
    BY <1>3, <1>4
  <2> QED
    BY <2>1, <2>2, NotedFact
<1>5. ASSUME NEW t \in Purchase, t \notin monitor.due
      PROVE  recovery'[t] = recovery[t]
  BY <1>5 DEF MonitorCommits
<1>6. ASSUME NEW t \in Purchase
      PROVE  Rests(t) /\ Steady(t) /\ recovery'[t] \in RecoveryRow \cup {None}
  <2>1. CASE t \in monitor.due
    BY <1>1, <1>4, <2>1, RowFact, RecoveryAssumption DEF Rests, Steady
  <2>2. CASE t \notin monitor.due
    BY <1>2, <1>5, <2>2 DEF Rests, Steady
  <2> QED
    BY <2>1, <2>2
<1>7. recovery' = [t \in Purchase |-> recovery'[t]]
  BY DEF MonitorCommits
<1> QED
  BY <1>6, <1>7

LEMMA MonitorKeeps ==
  ASSUME RecoveryInv, MonitorReads \/ MonitorCommits \/ MonitorDies
  PROVE  RecoveryInv'
<1>1. CASE MonitorReads
  BY <1>1 DEF MonitorReads, Overdue, RecoveryInv, RecoveryTypes, WaitingInv, MonitorInv, Respects, Stands
<1>2. CASE MonitorDies
  BY <1>2 DEF MonitorDies, RecoveryInv, RecoveryTypes, WaitingInv, MonitorInv, Respects, Stands
<1>3. CASE MonitorCommits
  <2>1. waiting' = waiting /\ instant' = instant /\ reports' = reports /\ monitor' = None
    BY <1>3 DEF MonitorCommits
  <2>3. recovery' \in [Purchase -> RecoveryRow \cup {None}] /\ \A t \in Purchase : Rests(t)
    BY <1>3, MonitorWrites
  <2>4. WaitingInv'
    BY <2>1, <2>3, RestsKeeps
  <2> QED
    BY <2>1, <2>3, <2>4 DEF RecoveryInv, RecoveryTypes, MonitorInv
<1> QED
  BY <1>1, <1>2, <1>3

-----------------------------------------------------------------------------
(* Every step. *)

LEMMA RecoveryInitially == RecoveryInit => RecoveryInv
  BY RecoveryAssumption DEF RecoveryInit, RecoveryInv, RecoveryTypes, WaitingInv, MonitorInv

LEMMA RecoveryInductive ==
  ASSUME RecoveryInv, [RecoveryNext]_recoveryVars
  PROVE  RecoveryInv'
<1>1. CASE UNCHANGED recoveryVars
  BY <1>1 DEF recoveryVars, RecoveryInv, RecoveryTypes, WaitingInv, MonitorInv, Respects, Stands
<1>2. ASSUME NEW w \in Reporting, NEW t \in Purchase, NEW u \in Buyer, BeginReport(w, t, u, "resolved", None)
      PROVE  RecoveryInv'
  BY <1>2, BeginKeeps
<1>3. ASSUME NEW w \in Reporting, NEW t \in Purchase, NEW u \in Buyer, NEW reason \in Failure,
             BeginReport(w, t, u, "recovery_pending", reason)
      PROVE  RecoveryInv'
  BY <1>3, BeginKeeps
<1>4. ASSUME NEW w \in Reporting, CommitReport(w) \/ LoseReport(w)
      PROVE  RecoveryInv'
  BY <1>4, CommitKeeps, LoseKeeps
<1>5. CASE MonitorReads \/ MonitorCommits \/ MonitorDies
  BY <1>5, MonitorKeeps
<1>6. CASE InstantPasses
  BY <1>6 DEF InstantPasses, RecoveryInv, RecoveryTypes, WaitingInv, MonitorInv, Respects, Stands
<1> QED
  BY <1>1, <1>2, <1>3, <1>4, <1>5, <1>6 DEF RecoveryNext

LEMMA RecoverySteady ==
  ASSUME RecoveryInv, [RecoveryNext]_recoveryVars
  PROVE  \A t \in Purchase : Steady(t)
<1>1. CASE recovery' = recovery
  BY <1>1 DEF Steady
<1>2. ASSUME NEW w \in Reporting, CommitReport(w)
      PROVE  \A t \in Purchase : Steady(t)
  BY <1>2, CommitWrites
<1>3. CASE MonitorCommits
  BY <1>3, MonitorWrites
<1>4. recovery' = recovery \/ (\E w \in Reporting : CommitReport(w)) \/ MonitorCommits
  BY DEF RecoveryNext, recoveryVars, BeginReport, LoseReport, MonitorReads, MonitorDies, InstantPasses
<1> QED
  BY <1>1, <1>2, <1>3, <1>4

\* For any number of purchases, workers and reports: rows are what
\* report_activation_recovery inserts, and a request that read a row before another
\* committed changes of it only what RecoveryInv allows.
THEOREM RecoveryInvariant == RecoverySpec => []RecoveryInv
<1>1. RecoveryInv /\ [RecoveryNext]_recoveryVars => RecoveryInv'
  BY RecoveryInductive
<1> QED
  BY RecoveryInitially, <1>1, PTL DEF RecoverySpec

\* For any number of purchases, workers and reports: what report_activation_recovery
\* resolved never waits again, keeps its account and the time of its alert, and an alert that
\* emit_due_activation_recovery_alerts noted stays noted.
THEOREM ResolvedStaysCorrect == RecoverySpec => ResolvedStays
<1>1. RecoveryInv /\ [RecoveryNext]_recoveryVars =>
        [\A t \in Purchase : recovery[t] # None =>
           /\ recovery'[t].state = "recovery_pending" => recovery[t].state = "recovery_pending"
           /\ recovery'[t].user = recovery[t].user /\ recovery'[t].due = recovery[t].due
           /\ recovery[t].alerted # None => recovery'[t].alerted # None]_recoveryVars
  BY RecoverySteady DEF Steady
<1> QED
  BY RecoveryInvariant, <1>1, PTL DEF RecoverySpec, ResolvedStays

-----------------------------------------------------------------------------
(* RevenueAlerts. *)

Answers == {"sent", "pending", "unknown"}
Steps == {"enqueue", "recover", "dispatch", "send", "record"}
Process == [step : Steps, rows : [Sale -> Kinds \cup {None}], now : Nat, todo : SUBSET AlertId,
            answer : Answers \cup {None}]

\* Rows, the clock and the process keep their types.
RevenueTypeOK ==
  /\ minute \in Nat
  /\ fact \in [Sale -> Kinds \cup {None}]
  /\ startedAt \in Nat \cup {None}
  /\ known \subseteq Sale /\ historical \subseteq known
  /\ alert \in [AlertId -> AlertRow \cup {None}]
  /\ notifier \in Process \cup {None}
  /\ chat \in [AlertId -> Nat]

\* Nothing is there before the initialisation.
Untouched ==
  startedAt = None => notifier = None /\ known = {} /\ \A i \in AlertId : alert[i] = None

\* Only what was noted later, and was bought later, has an alert.
OnlyLater == \A t \in Sale : alert[t] # None => t \in known \ historical /\ SinceStart(t)

\* What reached the chat did so once, and is not to be sent again.
Delivered ==
  \A i \in AlertId : chat[i] # 0 =>
    chat[i] = 1 /\ alert[i] # None /\ alert[i].status \in {"sending", "sent", "unknown"}

\* What the process has still to handle.
InHand ==
  notifier # None =>
    /\ \A i \in notifier.todo : alert[i] # None
    /\ notifier.step \in {"enqueue", "recover"} => notifier.todo = {}
    /\ notifier.step = "dispatch" => \A i \in notifier.todo : alert[i].status = "pending"
    /\ notifier.step \in {"send", "record"} =>
         /\ \A i \in notifier.todo : alert[i].status \in {"pending", "sending"}
         /\ \A i \in notifier.todo, j \in notifier.todo :
              alert[i].status = "sending" /\ alert[j].status = "sending" => i = j
    /\ notifier.step = "send" => \A i \in notifier.todo : chat[i] = 0
    /\ notifier.step = "record" =>
         /\ notifier.answer \in Answers
         /\ notifier.answer = "pending" => \A i \in notifier.todo : chat[i] = 0

RevenueInv == RevenueTypeOK /\ Untouched /\ OnlyLater /\ Delivered /\ InHand /\ NoneForgotten

\* None is no process and no row.
LEMMA NotNone ==
  ASSUME NEW n, n # None
  PROVE  /\ n \in Process \cup {None} => n \in Process
         /\ n \in AlertRow \cup {None} => n \in AlertRow
         /\ n \in Nat \cup {None} => n \in Nat
OBVIOUS

LEMMA RevenueInvInit == RevenueInit => RevenueInv
BY SaleAssumption DEF RevenueInit, RevenueInv, RevenueTypeOK, Untouched, OnlyLater, Delivered, InHand,
  NoneForgotten, AlertId, Kinds

\* A change of an alert's status, row by row.
LEMMA StatusChange ==
  ASSUME RevenueTypeOK, NEW i \in AlertId, alert[i] # None, NEW status \in Statuses, Become(i, status)
  PROVE  /\ alert' \in [AlertId -> AlertRow \cup {None}]
         /\ \A j \in AlertId : alert'[j] = None <=> alert[j] = None
         /\ alert'[i].status = status
         /\ \A j \in AlertId \ {i} : alert'[j] = alert[j]
<1>1. alert[i] \in AlertRow
  BY DEF RevenueTypeOK
<1>2. [alert[i] EXCEPT !.status = status] \in AlertRow /\ [alert[i] EXCEPT !.status = status].status = status
  BY <1>1 DEF AlertRow
<1>3. alert' = [alert EXCEPT ![i] = [alert[i] EXCEPT !.status = status]]
  BY DEF Become
<1> QED BY <1>2, <1>3, SaleAssumption DEF RevenueTypeOK

\* A step of the process that makes no alert keeps what was said of the old ones.
LEMMA NoNewAlert ==
  ASSUME RevenueInv, notifier # None, UNCHANGED <<startedAt, known, historical>>,
         \A i \in AlertId : alert'[i] = None <=> alert[i] = None
  PROVE  Untouched' /\ OnlyLater' /\ NoneForgotten'
BY DEF RevenueInv, Untouched, OnlyLater, NoneForgotten, AlertId, SinceStart, RevenueTypeOK

\* Every step of the script, of the app and of the clock keeps the invariant.
LEMMA RevenueInvStep == RevenueInv /\ [RevenueNext]_revenueVars => RevenueInv'
<1> SUFFICES ASSUME RevenueInv, [RevenueNext]_revenueVars PROVE RevenueInv'
  OBVIOUS
<1> USE SaleAssumption DEF RevenueInv
<1>1. CASE Initialise
  <2>1. /\ notifier = None /\ known = {} /\ \A i \in AlertId : alert[i] = None /\ chat[i] = 0
        /\ startedAt' = minute /\ historical' = known' /\ notifier' = None
        /\ UNCHANGED <<minute, fact, chat>>
    BY <1>1 DEF Initialise, Untouched, Delivered, RevenueTypeOK
  <2>2. NewAlert(0) \in AlertRow
    BY DEF NewAlert, AlertRow, Statuses
  <2>3. RevenueTypeOK' /\ Untouched'
    BY <1>1, <2>1, <2>2, minute # None DEF Initialise, RevenueTypeOK, Untouched, AlertId
  <2>4. OnlyLater' /\ Delivered' /\ InHand' /\ NoneForgotten'
    BY <1>1, <2>1 DEF Initialise, OnlyLater, Delivered, InHand, NoneForgotten, AlertId, RevenueTypeOK
  <2> QED BY <2>3, <2>4
<1>2. CASE RunStarts
  <2>1. RevenueTypeOK' /\ InHand'
    BY <1>2 DEF RunStarts, RevenueTypeOK, InHand, Process, Steps
  <2>2. Untouched' /\ OnlyLater' /\ Delivered' /\ NoneForgotten'
    BY <1>2 DEF RunStarts, Untouched, OnlyLater, Delivered, NoneForgotten, SinceStart
  <2> QED BY <2>1, <2>2
<1>3. CASE Enqueue
  <2> DEFINE noted == {t \in Sale : notifier.rows[t] # None /\ Noted(t)}
             new == {t \in noted \ known : SinceStart(t) /\ Alertable(notifier.rows[t])}
  <2>1. /\ notifier \in Process /\ startedAt \in Nat /\ known' = known \cup noted
        /\ notifier' = [notifier EXCEPT !.step = "recover"] /\ notifier.todo = {}
        /\ UNCHANGED <<minute, fact, startedAt, chat, historical>>
    BY <1>3 DEF Enqueue, RevenueTypeOK, Untouched, InHand
  <2>2. PICK place \in [new -> Cardinality(Places)..(Cardinality(Places) + Cardinality(new) - 1)] :
          alert' = [i \in AlertId |-> IF i \in new THEN NewAlert(place[i]) ELSE alert[i]]
    BY <1>3 DEF Enqueue
  <2> HIDE DEF noted
  <2>3. \A i \in new : NewAlert(place[i]) \in AlertRow
    <3> HIDE DEF new
    <3>1. \A i \in new : place[i] \in Int
      OBVIOUS
    <3> QED BY <3>1 DEF NewAlert, AlertRow, Statuses
  <2>4. \A t \in new : t \in AlertId /\ t \notin known /\ t \in noted /\ SinceStart(t) /\ alert[t] = None /\ chat[t] = 0
    BY DEF noted, OnlyLater, Delivered, AlertId
  <2>5. \A t \in noted \ known : SinceStart(t) => t \in new
    BY DEF noted, Noted
  <2>6. noted \subseteq Sale
    BY DEF noted
  <2> HIDE DEF new
  <2>7. \A i \in AlertId : alert'[i] = (IF i \in new THEN NewAlert(place[i]) ELSE alert[i])
    BY <2>2
  <2>8. \A t \in new : alert'[t] # None
    BY <2>3, <2>4, <2>7
  <2>9. alert' \in [AlertId -> AlertRow \cup {None}]
    BY <2>2, <2>3 DEF RevenueTypeOK
  <2>10. notifier' \in Process /\ notifier'.step = "recover" /\ notifier'.todo = {}
    BY <2>1 DEF Process, Steps
  <2>11. RevenueTypeOK'
    BY <2>1, <2>6, <2>9, <2>10 DEF RevenueTypeOK
  <2>12. Untouched' /\ InHand'
    BY <2>1, <2>10 DEF Untouched, InHand
  <2>13. OnlyLater'
    <3> SUFFICES ASSUME NEW t \in Sale, alert'[t] # None PROVE t \in known' \ historical' /\ SinceStart(t)'
      BY DEF OnlyLater
    <3>1. CASE t \in new
      BY <3>1, <2>1, <2>4 DEF RevenueTypeOK, SinceStart
    <3>2. CASE t \notin new
      BY <3>2, <2>1, <2>7 DEF OnlyLater, SinceStart, AlertId
    <3> QED BY <3>1, <3>2
  <2>14. Delivered'
    <3> SUFFICES ASSUME NEW i \in AlertId, chat[i] # 0
                 PROVE  chat[i] = 1 /\ alert'[i] # None /\ alert'[i].status \in {"sending", "sent", "unknown"}
      BY <2>1 DEF Delivered
    <3> QED BY <2>4, <2>7 DEF Delivered
  <2>15. NoneForgotten'
    <3> SUFFICES ASSUME NEW t \in known' \ historical PROVE BoughtAt[t] < startedAt \/ alert'[t] # None
      BY <2>1 DEF NoneForgotten
    <3>1. CASE t \in known
      BY <3>1, <2>4, <2>7 DEF NoneForgotten, AlertId, RevenueTypeOK
    <3>2. CASE t \in noted \ known /\ SinceStart(t)
      BY <3>2, <2>5, <2>8
    <3>3. CASE t \in noted \ known /\ ~SinceStart(t)
      BY <3>3, <2>1, <2>6 DEF SinceStart
    <3> QED BY <3>1, <3>2, <3>3, <2>1
  <2> QED BY <2>11, <2>12, <2>13, <2>14, <2>15
<1>4. CASE Recover
  <2> DEFINE due == {i \in AlertId : alert'[i] # None /\ alert'[i].status = "pending" /\ alert'[i].next <= notifier.now}
             oldest == {i \in due : Cardinality({j \in due : alert'[j].row < alert'[i].row}) < AlertsPerRun}
             Died(i) == [alert[i] EXCEPT !.status = AfterDeath(@)]
  <2>1. /\ notifier \in Process /\ notifier # None
        /\ alert' = [i \in AlertId |-> IF alert[i] = None THEN None ELSE Died(i)]
        /\ notifier' = [notifier EXCEPT !.step = "dispatch", !.todo = oldest]
        /\ UNCHANGED <<minute, fact, startedAt, known, chat, historical>>
    BY <1>4 DEF Recover, RevenueTypeOK
  <2>2. \A i \in AlertId : alert[i] # None => Died(i) \in AlertRow /\ Died(i).status = AfterDeath(alert[i].status)
    BY DEF RevenueTypeOK, AlertRow, AfterDeath, Statuses
  <2> HIDE DEF Died
  <2>3. \A i \in AlertId : alert'[i] = IF alert[i] = None THEN None ELSE Died(i)
    BY <2>1
  <2>4. \A i \in AlertId : alert'[i] = None <=> alert[i] = None
    BY <2>2, <2>3
  <2>5. \A i \in oldest : i \in AlertId /\ alert'[i] # None /\ alert'[i].status = "pending"
    OBVIOUS
  <2> HIDE DEF due, oldest
  <2>6. notifier' \in Process /\ notifier'.step = "dispatch" /\ notifier'.todo = oldest
    BY <2>1, <2>5 DEF Process, Steps
  <2>7. alert' \in [AlertId -> AlertRow \cup {None}]
    BY <2>1, <2>2
  <2>8. RevenueTypeOK'
    BY <2>1, <2>6, <2>7 DEF RevenueTypeOK
  <2>9. Untouched' /\ OnlyLater' /\ NoneForgotten'
    BY <2>1, <2>4, NoNewAlert
  <2>10. Delivered'
    BY <2>1, <2>2, <2>3, <2>4 DEF Delivered, AfterDeath
  <2>11. InHand'
    BY <2>5, <2>6 DEF InHand
  <2> QED BY <2>8, <2>9, <2>10, <2>11
<1>5. ASSUME NEW i \in AlertId, Suppress(i) PROVE RevenueInv'
  <2>1. /\ notifier \in Process /\ notifier # None /\ notifier.step = "dispatch" /\ i \in notifier.todo
        /\ alert[i] # None /\ alert[i].status = "pending" /\ Become(i, "suppressed")
        /\ notifier' = [notifier EXCEPT !.todo = @ \ {i}]
        /\ UNCHANGED <<minute, fact, startedAt, known, chat, historical>>
    BY <1>5 DEF Suppress, Oldest, RevenueTypeOK, InHand
  <2>2. "suppressed" \in Statuses
    BY DEF Statuses
  <2>3. /\ alert' \in [AlertId -> AlertRow \cup {None}]
        /\ \A j \in AlertId : alert'[j] = None <=> alert[j] = None
        /\ \A j \in AlertId \ {i} : alert'[j] = alert[j]
    BY <2>1, <2>2, StatusChange
  <2>4. /\ notifier' \in Process /\ notifier'.step = "dispatch" /\ notifier'.todo = notifier.todo \ {i}
        /\ notifier.todo \subseteq AlertId
    BY <2>1 DEF Process
  <2>5. RevenueTypeOK'
    BY <2>1, <2>3, <2>4 DEF RevenueTypeOK
  <2>6. Untouched' /\ OnlyLater' /\ NoneForgotten'
    BY <2>1, <2>3, NoNewAlert
  <2>7. Delivered'
    BY <2>1, <2>3 DEF Delivered
  <2>8. InHand'
    BY <2>1, <2>3, <2>4 DEF InHand
  <2> QED BY <2>5, <2>6, <2>7, <2>8
<1>6. ASSUME NEW i \in AlertId, Intend(i) PROVE RevenueInv'
  <2>1. /\ notifier \in Process /\ notifier # None /\ notifier.step = "dispatch" /\ i \in notifier.todo
        /\ \A j \in notifier.todo : alert[j] # None /\ alert[j].status = "pending"
        /\ Become(i, "sending")
        /\ notifier' = [notifier EXCEPT !.step = "send"]
        /\ UNCHANGED <<minute, fact, startedAt, known, chat, historical>>
    BY <1>6 DEF Intend, Oldest, RevenueTypeOK, InHand
  <2>2. "sending" \in Statuses
    BY DEF Statuses
  <2>3. /\ alert' \in [AlertId -> AlertRow \cup {None}]
        /\ \A j \in AlertId : alert'[j] = None <=> alert[j] = None
        /\ alert'[i].status = "sending"
        /\ \A j \in AlertId \ {i} : alert'[j] = alert[j]
    BY <2>1, <2>2, StatusChange
  <2>4. /\ notifier' \in Process /\ notifier'.step = "send" /\ notifier'.todo = notifier.todo
        /\ notifier.todo \subseteq AlertId
    BY <2>1 DEF Process, Steps
  <2>5. RevenueTypeOK'
    BY <2>1, <2>3, <2>4 DEF RevenueTypeOK
  <2>6. Untouched' /\ OnlyLater' /\ NoneForgotten'
    BY <2>1, <2>3, NoNewAlert
  <2>7. \A j \in notifier.todo : chat[j] = 0
    BY <2>1, <2>4 DEF Delivered
  <2>8. Delivered'
    BY <2>1, <2>3 DEF Delivered
  <2>9. InHand'
    BY <2>1, <2>3, <2>4, <2>7 DEF InHand
  <2> QED BY <2>5, <2>6, <2>8, <2>9
<1>7. ASSUME NEW i \in AlertId, SendMessage(i) PROVE RevenueInv'
  <2>1. /\ notifier \in Process /\ notifier # None /\ notifier.step = "send" /\ i \in notifier.todo
        /\ alert[i] # None /\ alert[i].status = "sending"
        /\ \A j \in notifier.todo : /\ alert[j] # None /\ alert[j].status \in {"pending", "sending"}
                                    /\ chat[j] = 0
        /\ \A j \in notifier.todo, k \in notifier.todo :
             alert[j].status = "sending" /\ alert[k].status = "sending" => j = k
        /\ UNCHANGED <<minute, fact, startedAt, known, alert, historical>>
    BY <1>7 DEF SendMessage, RevenueTypeOK, InHand
  <2>2. PICK answer \in Answers :
          /\ notifier' = [notifier EXCEPT !.step = "record", !.answer = answer]
          /\ \/ answer # "pending" /\ chat' = [chat EXCEPT ![i] = @ + 1]
             \/ answer # "sent" /\ UNCHANGED chat
    BY <1>7 DEF SendMessage, Answers
  <2>3. /\ notifier' \in Process /\ notifier'.step = "record" /\ notifier'.todo = notifier.todo
        /\ notifier'.answer = answer /\ notifier.todo \subseteq AlertId
    BY <2>1, <2>2 DEF Process, Steps
  <2>4. chat' \in [AlertId -> Nat] /\ chat'[i] \in {0, 1} /\ \A j \in AlertId \ {i} : chat'[j] = chat[j]
    BY <2>1, <2>2 DEF RevenueTypeOK
  <2>5. answer = "pending" => chat' = chat
    BY <2>2
  <2>6. RevenueTypeOK'
    BY <2>1, <2>3, <2>4 DEF RevenueTypeOK
  <2>7. Untouched' /\ OnlyLater' /\ NoneForgotten'
    BY <2>1, NoNewAlert
  <2>8. Delivered'
    BY <2>1, <2>4 DEF Delivered
  <2>9. InHand'
    BY <2>1, <2>3, <2>5 DEF InHand
  <2> QED BY <2>6, <2>7, <2>8, <2>9
<1>8. ASSUME NEW i \in AlertId, RecordAnswer(i) PROVE RevenueInv'
  <2> DEFINE next == IF notifier.answer = "pending" THEN notifier.now + RetryAfter ELSE alert[i].next
             recorded == [alert[i] EXCEPT !.status = notifier.answer, !.next = next]
  <2>1. /\ notifier \in Process /\ notifier # None /\ notifier.step = "record" /\ i \in notifier.todo
        /\ alert[i] \in AlertRow /\ alert[i].status = "sending" /\ notifier.answer \in Answers
        /\ \A j \in notifier.todo : /\ alert[j] # None /\ alert[j].status \in {"pending", "sending"}
                                    /\ notifier.answer = "pending" => chat[j] = 0
        /\ \A j \in notifier.todo, k \in notifier.todo :
             alert[j].status = "sending" /\ alert[k].status = "sending" => j = k
        /\ UNCHANGED <<minute, fact, startedAt, known, chat, historical>>
    BY <1>8 DEF RecordAnswer, RevenueTypeOK, InHand
  <2>2. /\ alert' = [alert EXCEPT ![i] = recorded]
        /\ notifier' = [notifier EXCEPT !.step = "dispatch", !.todo = @ \ {i}, !.answer = None]
    BY <1>8, <2>1 DEF RecordAnswer, RevenueTypeOK
  <2>3. recorded \in AlertRow /\ recorded.status = notifier.answer
    <3>1. next \in Nat
      BY <2>1 DEF AlertRow, Process
    <3>2. notifier.answer \in Statuses
      BY <2>1 DEF Answers, Statuses
    <3> HIDE DEF next
    <3> QED BY <3>1, <3>2, <2>1 DEF AlertRow
  <2> HIDE DEF recorded
  <2>4. /\ notifier' \in Process /\ notifier'.step = "dispatch" /\ notifier'.todo = notifier.todo \ {i}
        /\ notifier.todo \subseteq AlertId
    BY <2>1, <2>2 DEF Process, Steps
  <2>5. /\ alert' \in [AlertId -> AlertRow \cup {None}] /\ alert'[i] = recorded
        /\ \A j \in AlertId \ {i} : alert'[j] = alert[j]
    BY <2>2, <2>3 DEF RevenueTypeOK
  <2>6. RevenueTypeOK'
    BY <2>1, <2>4, <2>5 DEF RevenueTypeOK
  <2>7. Untouched' /\ OnlyLater' /\ NoneForgotten'
    <3>1. \A j \in AlertId : alert'[j] = None <=> alert[j] = None
      BY <2>1, <2>3, <2>5
    <3> QED BY <3>1, <2>1, NoNewAlert
  <2>8. Delivered'
    BY <2>1, <2>3, <2>5 DEF Delivered, Answers
  <2>9. InHand'
    BY <2>1, <2>4, <2>5 DEF InHand
  <2> QED BY <2>6, <2>7, <2>8, <2>9
<1>9. CASE RunEnds \/ RunDies
  <2>1. /\ notifier' = None
        /\ UNCHANGED <<minute, fact, startedAt, known, alert, chat, historical>>
    BY <1>9 DEF RunEnds, RunDies
  <2> QED BY <2>1 DEF RevenueTypeOK, Untouched, OnlyLater, Delivered, InHand, NoneForgotten, SinceStart
<1>10. ASSUME NEW t \in Sale, NEW k \in Kinds, Learn(t, k) PROVE RevenueInv'
  <2>1. fact' \in [Sale -> Kinds \cup {None}] /\ UNCHANGED <<minute, startedAt, known, alert, notifier, chat, historical>>
    BY <1>10 DEF Learn, RevenueTypeOK
  <2> QED BY <2>1 DEF RevenueTypeOK, Untouched, OnlyLater, Delivered, InHand, NoneForgotten, SinceStart
<1>11. CASE MinutePasses \/ UNCHANGED revenueVars
  <2>1. minute' \in Nat /\ UNCHANGED <<fact, startedAt, known, alert, notifier, chat, historical>>
    BY <1>11 DEF MinutePasses, revenueVars, RevenueTypeOK
  <2> QED BY <2>1 DEF RevenueTypeOK, Untouched, OnlyLater, Delivered, InHand, NoneForgotten, SinceStart
<1> QED
  BY <1>1, <1>2, <1>3, <1>4, <1>5, <1>6, <1>7, <1>8, <1>9, <1>10, <1>11 DEF RevenueNext

LEMMA RevenueInvariant == RevenueSpec => []RevenueInv
BY RevenueInvInit, RevenueInvStep, PTL DEF RevenueSpec

\* Whatever the sales and the bounds of a run, and whenever the script dies: no message
\* reaches the chat twice, and nothing of before the initialisation is announced.
THEOREM NeverTwiceCorrect == RevenueSpec => []NeverAnnouncedTwice
<1>1. RevenueInv => NeverAnnouncedTwice
  <2> SUFFICES ASSUME RevenueInv PROVE NeverAnnouncedTwice
    OBVIOUS
  <2>1. \A i \in AlertId : chat[i] <= 1
    BY DEF RevenueInv, RevenueTypeOK, Delivered
  <2>2. \A t \in Sale : chat[t] > 0 => t \notin historical /\ BoughtAt[t] >= startedAt
    BY DEF RevenueInv, RevenueTypeOK, Delivered, OnlyLater, SinceStart, AlertId
  <2> QED BY <2>1, <2>2 DEF NeverAnnouncedTwice
<1> QED BY <1>1, RevenueInvariant, PTL

\* A transaction the script has taken note of since the initialisation has its alert,
\* unless it was bought before, whatever was learnt of it and in whatever order.
THEOREM NoneForgottenCorrect == RevenueSpec => []NoneForgotten
<1>1. RevenueInv => NoneForgotten
  BY DEF RevenueInv
<1> QED BY <1>1, RevenueInvariant, PTL
=============================================================================
