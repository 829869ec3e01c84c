--------------------- MODULE WebhookSubscriptionProofs ---------------------
(* Proofs about WebhookSubscription, for any flights, numbers and budgets. *)
EXTENDS WebhookSubscription, TLAPS

\* The fetcher remembers a subscription under the number it was made for.
CacheInv == cache.id # None => issued[cache.id] = cache.number

\* What a request carries was made for the number it was posted for.
ReqInv ==
  \A t \in Task : req[t].pc = "created" => issued[req[t].id] = req[t].number

\* A task that waits, waits for a request of the number of its flight.
WaitInv ==
  \A t \in Task : creator[t].pc = "wait" =>
    /\ req[t].pc \in {"remote", "created"} => req[t].number = NumberOf[creator[t].flight]
    /\ req[t].pc = "answer" => issued[req[t].id] = NumberOf[creator[t].flight]

\* A task about to commit holds a subscription of the number of its flight.
CommitInv ==
  \A t \in Task : creator[t].pc = "commit" =>
    issued[creator[t].id] = NumberOf[creator[t].flight]

IInv == TypeOK /\ SubscribedToOwnNumber /\ CacheInv /\ ReqInv /\ WaitInv /\ CommitInv

-----------------------------------------------------------------------------
\* Every value a variable takes is one its column, task or request can hold.
LEMMA InitType == Init => TypeOK
  BY WebhookAssumption
  DEF Init, TypeOK, Cache, NoCache, NoPass, NoHanging, Creator, Req, Idle, Event

\* The reads of create_webhook_for_flight leave the task a subscription or none.
LEMMA CreateReadType ==
  ASSUME TypeOK, NEW t \in Task, NEW number, NEW f \in Flight, CreateRead(t, number, f)
  PROVE  creator' \in [Task -> Creator]
BY WebhookAssumption DEF TypeOK, CreateRead, Similar, Creator, Idle

\* Every step preserves the types.
LEMMA NextType == TypeOK /\ [Next]_vars => TypeOK'
<1> SUFFICES ASSUME TypeOK, [Next]_vars PROVE TypeOK'
  OBVIOUS
<1> USE WebhookAssumption DEF TypeOK, Task, flightVars, remoteVars, loopVars
<1>1. ASSUME NEW t \in ApiTask, NEW f \in Flight, AppCreate(t, f) PROVE TypeOK'
  BY <1>1 DEF AppCreate, CreateRead, Similar, Spend, Creator, Req, Idle, Event, Cache, NoCache
<1>2. ASSUME NEW t \in ApiTask, ApiCrash(t) PROVE TypeOK'
  BY <1>2 DEF ApiCrash, Spend, Creator, Req, Idle, Event, Cache, NoCache
<1>3. ASSUME NEW t \in Task, CreateCommit(t) PROVE TypeOK'
  BY <1>3 DEF CreateCommit, Creator, Req, Idle, Event, Cache, NoCache
<1>4. ASSUME NEW t \in Task, FetcherCreate(t) PROVE TypeOK'
  BY <1>4 DEF FetcherCreate, Creator, Req, Idle, Event, Cache, NoCache
<1>5. ASSUME NEW t \in Task, RemoteCreate(t) PROVE TypeOK'
  BY <1>5 DEF RemoteCreate, Spend, Creator, Req, Idle, Event, Cache, NoCache
<1>6. ASSUME NEW t \in Task, FetcherCreated(t) PROVE TypeOK'
  BY <1>6 DEF FetcherCreated, Remember, Creator, Req, Idle, Event, Cache, NoCache
<1>7. ASSUME NEW t \in Task, FetcherAnswer(t) PROVE TypeOK'
  BY <1>7 DEF FetcherAnswer, Creator, Req, Idle, Event, Cache, NoCache
<1>8. ASSUME NEW t \in Task, CreateTimeout(t) PROVE TypeOK'
  BY <1>8 DEF CreateTimeout, Spend, Creator, Req, Idle, Event, Cache, NoCache
<1>9. ASSUME NEW s \in Sub, DeleteRemote(s) PROVE TypeOK'
  BY <1>9 DEF DeleteRemote, Spend, Creator, Req, Idle, Event, Cache, NoCache
<1>10. ASSUME NEW s \in Sub, DeleteForget(s) PROVE TypeOK'
  BY <1>10 DEF DeleteForget, ForgetDeleted, Creator, Req, Idle, Event, Cache, NoCache
<1>11. ASSUME NEW s \in Sub, DeleteClear(s) PROVE TypeOK'
  BY <1>11 DEF DeleteClear, Creator, Req, Idle, Event, Cache, NoCache
<1>12. ASSUME NEW s \in Sub, DeleteLost(s) PROVE TypeOK'
  BY <1>12 DEF DeleteLost, Spend, Creator, Req, Idle, Event, Cache, NoCache
<1>13. ASSUME NEW s \in Sub, ReceiveUpdate(s) PROVE TypeOK'
  BY <1>13 DEF ReceiveUpdate, AskDelete, Spend, Creator, Req, Idle, Event, Cache, NoCache
<1>14. ASSUME NEW s \in Sub, HangingDelete(s) PROVE TypeOK'
  BY <1>14 DEF HangingDelete, AskDelete, Creator, Req, Idle, Event, Cache, NoCache
<1>15. ASSUME NEW f \in Flight, TimePasses(f) PROVE TypeOK'
  BY <1>15 DEF TimePasses, Spend, Creator, Req, Idle, Event, Cache, NoCache
<1>16. ASSUME NEW f \in Flight, PassSkip(f) PROVE TypeOK'
  BY <1>16 DEF PassSkip, NoPass, Creator, Req, Idle, Event, Cache, NoCache
<1>17. ASSUME NEW f \in Flight, PassNext(f) PROVE TypeOK'
  <2>1. pass # NoPass /\ PassedId(f) \in Flight
    BY <1>17 DEF PassNext, NoPass, PassedId
  <2>2. creator' \in [Task -> Creator]
    BY <1>17, <2>1, CreateReadType DEF PassNext
  <2>3. pass' \in [todo : SUBSET Flight, last : Flight]
    BY <1>17, <2>1 DEF PassNext
  <2> QED
    BY <1>17, <2>2, <2>3 DEF PassNext
<1>18. CASE HangingScan
  BY <1>18 DEF HangingScan, NoHanging, Creator, Req, Idle, Event, Cache, NoCache
<1>19. CASE HangingAnswered
  BY <1>19 DEF HangingAnswered, Creator, Req, Idle, Event, Cache, NoCache
<1>20. CASE PassStart
  BY <1>20 DEF PassStart, NoPass, Creator, Req, Idle, Event, Cache, NoCache
<1>21. CASE PassEnd
  BY <1>21 DEF PassEnd, NoPass, Creator, Req, Idle, Event, Cache, NoCache
<1>22. CASE FetcherCrash
  BY <1>22 DEF FetcherCrash, Spend, NoHanging, NoPass, Creator, Req, Idle, Event, Cache, NoCache
<1>30. CASE UNCHANGED vars
  BY <1>30 DEF vars
<1> QED
  BY <1>1, <1>2, <1>3, <1>4, <1>5, <1>6, <1>7, <1>8,
     <1>9, <1>10, <1>11, <1>12, <1>13, <1>14, <1>15, <1>16,
     <1>17, <1>18, <1>19, <1>20, <1>21, <1>22, <1>30 DEF Next


\* Every variable keeps its type.
THEOREM TypeCorrect == Spec => []TypeOK
BY InitType, NextType, PTL DEF Spec

-----------------------------------------------------------------------------
(* The inductive invariant. *)

LEMMA InitIInv == Init => IInv
<1> SUFFICES ASSUME Init PROVE IInv
  OBVIOUS
<1>1. TypeOK
  BY InitType
<1> QED
  BY <1>1 DEF Init, IInv, SubscribedToOwnNumber, CacheInv, ReqInv, WaitInv, CommitInv,
     NoCache, Idle

\* The number a subscription was made for never changes.
LEMMA IssuedStays ==
  ASSUME TypeOK, [Next]_vars
  PROVE  \A s \in Sub : issued[s] # None => issued'[s] = issued[s]
<1>1. ASSUME NEW t \in Task, RemoteCreate(t)
      PROVE  \A s \in Sub : issued[s] # None => issued'[s] = issued[s]
  BY <1>1 DEF RemoteCreate, TypeOK, remoteVars
<1>2. CASE ~ \E t \in Task : RemoteCreate(t)
  <2>1. issued' = issued
    BY <1>2 DEF Next, vars, remoteVars, AppCreate, ApiCrash, CreateCommit, FetcherCreate,
       FetcherCreated, FetcherAnswer, CreateTimeout, DeleteRemote, DeleteForget, DeleteClear,
       DeleteLost, ReceiveUpdate, HangingDelete, TimePasses, PassSkip, PassNext, HangingScan,
       HangingAnswered, PassStart, PassEnd, FetcherCrash
  <2> QED
    BY <2>1
<1> QED
  BY <1>1, <1>2

LEMMA NextIInv == IInv /\ [Next]_vars => IInv'
<1> SUFFICES ASSUME IInv, [Next]_vars PROVE IInv'
  OBVIOUS
<1> USE WebhookAssumption DEF Task, flightVars, remoteVars, loopVars
<1>a. TypeOK /\ TypeOK'
  BY NextType DEF IInv
<1>b. \A s \in Sub : issued[s] # None => issued'[s] = issued[s]
  BY <1>a, IssuedStays
<1> DEFINE Rest == SubscribedToOwnNumber /\ CacheInv /\ ReqInv /\ WaitInv /\ CommitInv
<1> USE DEF IInv, SubscribedToOwnNumber, CacheInv, ReqInv, WaitInv, CommitInv
<1>1. ASSUME NEW t \in ApiTask, NEW f \in Flight, AppCreate(t, f) PROVE Rest'
  BY <1>1, <1>a, <1>b DEF AppCreate, CreateRead, Similar, TypeOK, Creator, Req, Idle, Cache, NoCache
<1>2. ASSUME NEW t \in ApiTask, ApiCrash(t) PROVE Rest'
  BY <1>2, <1>a, <1>b DEF ApiCrash, TypeOK, Creator, Req, Idle, Cache, NoCache
<1>3. ASSUME NEW t \in Task, CreateCommit(t) PROVE Rest'
  BY <1>3, <1>a, <1>b DEF CreateCommit, TypeOK, Creator, Req, Idle, Cache, NoCache
<1>4. ASSUME NEW t \in Task, FetcherCreate(t) PROVE Rest'
  BY SMTT(30), <1>4, <1>a, <1>b DEF FetcherCreate, TypeOK, Creator, Req, Idle, Cache, NoCache
<1>5. ASSUME NEW t \in Task, RemoteCreate(t) PROVE Rest'
  <2>1. /\ sub' = sub /\ cache' = cache /\ creator' = creator
        /\ \A u \in Task \ {t} : req'[u] = req[u]
        /\ req[t].pc = "remote"
    BY <1>5, <1>a DEF RemoteCreate, TypeOK
  <2>2. /\ req'[t].pc \in {"failed", "created"}
        /\ req'[t].pc = "created" => /\ req'[t].number = req[t].number
                                     /\ issued'[req'[t].id] = req[t].number
    <3>1. CASE req'[t] = [pc |-> "failed"]
      BY <3>1
    <3>2. ASSUME NEW s \in Sub,
                 req'[t] = [pc |-> "created", number |-> req[t].number, id |-> s],
                 issued'[s] = req[t].number
          PROVE  /\ req'[t].pc = "created"
                 /\ req'[t].number = req[t].number
                 /\ issued'[req'[t].id] = req[t].number
      BY <3>2
    <3>3. \/ req'[t] = [pc |-> "failed"]
          \/ \E s \in Sub :
               /\ req'[t] = [pc |-> "created", number |-> req[t].number, id |-> s]
               /\ issued'[s] = req[t].number
      BY <1>5, <1>a DEF RemoteCreate, TypeOK
    <3> QED
      BY <3>1, <3>2, <3>3
  <2>3. SubscribedToOwnNumber' /\ CacheInv' /\ CommitInv'
    BY <2>1, <1>a, <1>b DEF TypeOK, Creator, Cache, NoCache
  <2>4. ASSUME NEW u \in Task, req'[u].pc = "created"
        PROVE  issued'[req'[u].id] = req'[u].number
    <3>1. CASE u = t
      BY <3>1, <2>2, <2>4
    <3>2. CASE u # t
      <4>1. req'[u] = req[u] /\ req[u] \in [pc : {"created"}, number : Number, id : Sub]
        BY <3>2, <2>1, <2>4, <1>a DEF TypeOK, Req
      <4>2. issued[req[u].id] = req[u].number /\ issued[req[u].id] # None
        BY <4>1
      <4> QED
        BY <4>1, <4>2, <1>b
    <3> QED
      BY <3>1, <3>2
  <2>5. ASSUME NEW u \in Task, creator'[u].pc = "wait",
               req'[u].pc \in {"remote", "created"}
        PROVE  req'[u].number = NumberOf[creator'[u].flight]
    BY <2>1, <2>2, <2>5
  <2>6. ASSUME NEW u \in Task, creator'[u].pc = "wait", req'[u].pc = "answer"
        PROVE  issued'[req'[u].id] = NumberOf[creator'[u].flight]
    <3>1. u # t
      BY <2>2, <2>6
    <3>2. req'[u] = req[u] /\ req[u] \in [pc : {"answer"}, id : Sub]
      BY <3>1, <2>1, <2>6, <1>a DEF TypeOK, Req
    <3>3. creator[u] \in [pc : {"wait"}, flight : Flight]
      BY <2>1, <2>6, <1>a DEF TypeOK, Creator, Idle
    <3>4. issued[req[u].id] = NumberOf[creator[u].flight] /\ issued[req[u].id] # None
      BY <2>1, <2>6, <3>2, <3>3
    <3> QED
      BY <2>1, <3>2, <3>4, <1>b
  <2> QED
    BY <2>3, <2>4, <2>5, <2>6
<1>6. ASSUME NEW t \in Task, FetcherCreated(t) PROVE Rest'
  BY <1>6, <1>a, <1>b DEF FetcherCreated, Remember, TypeOK, Creator, Req, Idle, Cache, NoCache
<1>7. ASSUME NEW t \in Task, FetcherAnswer(t) PROVE Rest'
  BY <1>7, <1>a, <1>b DEF FetcherAnswer, TypeOK, Creator, Req, Idle, Cache, NoCache
<1>8. ASSUME NEW t \in Task, CreateTimeout(t) PROVE Rest'
  BY <1>8, <1>a, <1>b DEF CreateTimeout, TypeOK, Creator, Req, Idle, Cache, NoCache
<1>9. ASSUME NEW s \in Sub, DeleteRemote(s) PROVE Rest'
  BY <1>9, <1>a, <1>b DEF DeleteRemote, TypeOK, Creator, Req, Idle, Cache, NoCache
<1>10. ASSUME NEW s \in Sub, DeleteForget(s) PROVE Rest'
  BY <1>10, <1>a, <1>b DEF DeleteForget, ForgetDeleted, TypeOK, Creator, Req, Idle, Cache, NoCache
<1>11. ASSUME NEW s \in Sub, DeleteClear(s) PROVE Rest'
  BY <1>11, <1>a, <1>b DEF DeleteClear, TypeOK, Creator, Req, Idle, Cache, NoCache
<1>12. ASSUME NEW s \in Sub, DeleteLost(s) PROVE Rest'
  BY <1>12, <1>a, <1>b DEF DeleteLost, TypeOK, Creator, Req, Idle, Cache, NoCache
<1>13. ASSUME NEW s \in Sub, ReceiveUpdate(s) PROVE Rest'
  BY <1>13, <1>a, <1>b DEF ReceiveUpdate, AskDelete, TypeOK, Creator, Req, Idle, Cache, NoCache
<1>14. ASSUME NEW s \in Sub, HangingDelete(s) PROVE Rest'
  BY <1>14, <1>a, <1>b DEF HangingDelete, AskDelete, TypeOK, Creator, Req, Idle, Cache, NoCache
<1>15. ASSUME NEW f \in Flight, TimePasses(f) PROVE Rest'
  BY <1>15, <1>a, <1>b DEF TimePasses, TypeOK, Creator, Req, Idle, Cache, NoCache
<1>16. ASSUME NEW f \in Flight, PassSkip(f) PROVE Rest'
  BY <1>16, <1>a, <1>b DEF PassSkip, TypeOK, Creator, Req, Idle, Cache, NoCache
<1>17. ASSUME NEW f \in Flight, PassNext(f) PROVE Rest'
  BY <1>17, <1>a, <1>b DEF PassNext, CreateRead, Similar, PassedId, TypeOK, Creator, Req, Idle, Cache, NoCache
<1>18. ASSUME HangingScan PROVE Rest'
  BY <1>18, <1>a, <1>b DEF HangingScan, NoHanging, TypeOK, Creator, Req, Idle, Cache, NoCache
<1>19. ASSUME HangingAnswered PROVE Rest'
  BY <1>19, <1>a, <1>b DEF HangingAnswered, TypeOK, Creator, Req, Idle, Cache, NoCache
<1>20. ASSUME PassStart PROVE Rest'
  BY <1>20, <1>a, <1>b DEF PassStart, NoPass, TypeOK, Creator, Req, Idle, Cache, NoCache
<1>21. ASSUME PassEnd PROVE Rest'
  BY <1>21, <1>a, <1>b DEF PassEnd, NoPass, TypeOK, Creator, Req, Idle, Cache, NoCache
<1>22. ASSUME FetcherCrash PROVE Rest'
  BY <1>22, <1>a, <1>b DEF FetcherCrash, NoHanging, NoPass, TypeOK, Creator, Req, Idle, Cache, NoCache
<1>30. CASE UNCHANGED vars
  BY <1>30, <1>a DEF vars
<1> QED
  BY <1>a, <1>1, <1>2, <1>3, <1>4, <1>5, <1>6, <1>7, <1>8,
     <1>9, <1>10, <1>11, <1>12, <1>13, <1>14, <1>15, <1>16,
     <1>17, <1>18, <1>19, <1>20, <1>21, <1>22, <1>30 DEF Next

-----------------------------------------------------------------------------
\* A flight never carries a subscription made for another number, however the
\* tasks of several numbers overlap in the fetcher and whatever fails.
THEOREM OwnNumberCorrect == Spec => []SubscribedToOwnNumber
<1>1. Spec => []IInv
  BY InitIInv, NextIInv, PTL DEF Spec
<1>2. IInv => SubscribedToOwnNumber
  BY DEF IInv
<1> QED
  BY <1>1, <1>2, PTL
-----------------------------------------------------------------------------
\* What the fetcher may still know of a subscription that is deleted: the deletion
\* has not made it forget, or has missed it.
Unforgotten(s) == s \in alive \/ deleter[s] = "gone" \/ s \in missed

\* What a row, or a task on its way to one, may still name: the deletion has not
\* cleared the rows, or has missed it.
Uncleared(s) == s \in alive \/ deleter[s] \in {"gone", "clear"} \/ s \in missed

RowsInv == \A f \in Flight : sub[f] # None => Uncleared(sub[f])
CarriedInv ==
  \A t \in Task : /\ creator[t].pc = "commit" => Uncleared(creator[t].id)
                  /\ req[t].pc = "answer" => Uncleared(req[t].id)
KnownInv ==
  /\ cache.id # None => Unforgotten(cache.id)
  /\ \A t \in Task : req[t].pc = "created" => Unforgotten(req[t].id)

DeadInv == RowsInv /\ CarriedInv /\ KnownInv

LEMMA InitDead == Init => DeadInv
  BY WebhookAssumption DEF Init, DeadInv, RowsInv, CarriedInv, KnownInv, NoCache, Idle

\* Steps that change neither who exists nor a deletion keep what may be named.
LEMMA NamedKept ==
  ASSUME alive \subseteq alive', deleter' = deleter, missed' = missed, NEW s \in Sub
  PROVE  (Unforgotten(s) => Unforgotten(s)') /\ (Uncleared(s) => Uncleared(s)')
  BY DEF Unforgotten, Uncleared

\* The ids a task, a request and the fetcher's memory carry are subscriptions.
LEMMA CarriedTypes ==
  ASSUME TypeOK
  PROVE  /\ \A f \in Flight : sub[f] # None => sub[f] \in Sub
         /\ cache.id # None => cache.id \in Sub
         /\ \A t \in Task : /\ creator[t].pc = "commit" => creator[t].id \in Sub /\ creator[t].flight \in Flight
                            /\ req[t].pc \in {"created", "answer"} => req[t].id \in Sub
  BY DEF TypeOK, Cache, NoCache, Creator, Req

\* Asking for a deletion leaves every name standing: only an idle one is asked for.
LEMMA AskKeeps ==
  ASSUME TypeOK, NEW a \in Sub, AskDelete(a), alive' = alive, missed' = missed, NEW s \in Sub
  PROVE  (Unforgotten(s) => Unforgotten(s)') /\ (Uncleared(s) => Uncleared(s)')
  BY DEF TypeOK, AskDelete, Unforgotten, Uncleared

\* A step that leaves rows, tasks, requests and memory alone, and every name standing.
LEMMA StandingKeeps ==
  ASSUME TypeOK, DeadInv, UNCHANGED <<sub, creator, req, cache>>,
         \A s \in Sub : (Unforgotten(s) => Unforgotten(s)') /\ (Uncleared(s) => Uncleared(s)')
  PROVE  DeadInv'
  BY CarriedTypes DEF DeadInv, RowsInv, CarriedInv, KnownInv

\* The task's read lends it the subscription of a row.
LEMMA ReadKeeps ==
  ASSUME TypeOK, DeadInv, NEW t \in Task, NEW number, NEW f \in Flight, CreateRead(t, number, f),
         UNCHANGED <<sub, alive, cache, req, deleter, missed>>
  PROVE  DeadInv'
<1>1. \A s : Unforgotten(s)' = Unforgotten(s) /\ Uncleared(s)' = Uncleared(s)
  BY DEF Unforgotten, Uncleared
<1>2. ASSUME NEW u \in Task, creator'[u].pc = "commit" PROVE Uncleared(creator'[u].id)
  <2>1. CASE creator'[u] = creator[u]
    BY <1>2, <2>1 DEF DeadInv, CarriedInv
  <2>2. CASE creator'[u] # creator[u]
    <3>1. PICK g \in Similar(f) : creator' = [creator EXCEPT ![t] = [pc |-> "commit", flight |-> f, id |-> sub[g]]]
      BY <1>2, <2>2 DEF CreateRead, TypeOK
    <3>2. creator'[u].id = sub[g] /\ g \in Flight /\ sub[g] # None
      BY <2>2, <3>1 DEF Similar, TypeOK
    <3> QED
      BY <3>2 DEF DeadInv, RowsInv
  <2> QED
    BY <2>1, <2>2
<1> QED
  BY <1>1, <1>2 DEF DeadInv, RowsInv, CarriedInv, KnownInv, Unforgotten, Uncleared

\* The fetcher answers from what it remembers, or posts.
LEMMA FetcherCreateKeeps ==
  ASSUME TypeOK, DeadInv, NEW t \in Task, FetcherCreate(t)
  PROVE  DeadInv'
<1>1. \A s : Unforgotten(s) => Uncleared(s)
  BY DEF Unforgotten, Uncleared
<1>2. req'[t].pc = "answer" => cache.id # None /\ req'[t].id = cache.id
  BY WebhookAssumption DEF FetcherCreate, TypeOK, Cache, NoCache, Creator
<1>3. req'[t].pc \in {"answer", "remote"} /\ creator'[t].pc = "wait"
  BY DEF FetcherCreate, TypeOK
<1>4. \A u \in Task \ {t} : req'[u] = req[u] /\ creator'[u] = creator[u]
  BY DEF FetcherCreate, TypeOK
<1>5. UNCHANGED <<sub, alive, cache, deleter, missed>>
  BY DEF FetcherCreate, remoteVars
<1> QED
  BY <1>1, <1>2, <1>3, <1>4, <1>5 DEF DeadInv, RowsInv, CarriedInv, KnownInv, Unforgotten, Uncleared

\* What AeroDataBox makes exists.
LEMMA RemoteCreateKeeps ==
  ASSUME TypeOK, DeadInv, NEW t \in Task, RemoteCreate(t)
  PROVE  DeadInv'
<1>1. alive \subseteq alive' /\ UNCHANGED <<sub, cache, creator, deleter, missed>>
  BY DEF RemoteCreate, remoteVars
<1>2. \A s \in Sub : (Unforgotten(s) => Unforgotten(s)') /\ (Uncleared(s) => Uncleared(s)')
  BY <1>1, NamedKept
<1>3. /\ req'[t].pc # "answer"
      /\ req'[t].pc = "created" => req'[t].id \in alive'
  BY DEF RemoteCreate, TypeOK, remoteVars
<1>4. \A u \in Task \ {t} : req'[u] = req[u]
  BY DEF RemoteCreate, TypeOK
<1>5. req'[t].pc = "created" => Unforgotten(req[t].id)'
  BY <1>3 DEF Unforgotten
<1>6. RowsInv'
  BY <1>1, <1>2, CarriedTypes DEF DeadInv, RowsInv
<1>7. CarriedInv'
  BY <1>1, <1>2, <1>3, <1>4, CarriedTypes DEF DeadInv, CarriedInv
<1>8. KnownInv'
  BY <1>1, <1>2, <1>4, <1>5, CarriedTypes DEF DeadInv, KnownInv
<1> QED
  BY <1>6, <1>7, <1>8 DEF DeadInv

\* The fetcher remembers what came back, and passes it on.
LEMMA FetcherCreatedKeeps ==
  ASSUME TypeOK, DeadInv, NEW t \in Task, FetcherCreated(t)
  PROVE  DeadInv'
<1>1. UNCHANGED <<sub, alive, creator, deleter, missed>>
  BY DEF FetcherCreated, remoteVars
<1>2. cache'.id = req[t].id /\ Unforgotten(req[t].id) /\ Uncleared(req[t].id)
  BY DEF FetcherCreated, Remember, DeadInv, KnownInv, Unforgotten, Uncleared
<1>3. req'[t].pc = "answer" /\ req'[t].id = req[t].id
  BY DEF FetcherCreated, TypeOK
<1>4. \A u \in Task \ {t} : req'[u] = req[u]
  BY DEF FetcherCreated, TypeOK
<1> QED
  BY <1>1, <1>2, <1>3, <1>4 DEF DeadInv, RowsInv, CarriedInv, KnownInv, Unforgotten, Uncleared

\* The task takes the id from its answer.
LEMMA FetcherAnswerKeeps ==
  ASSUME TypeOK, DeadInv, NEW t \in Task, FetcherAnswer(t)
  PROVE  DeadInv'
<1>1. UNCHANGED <<sub, alive, cache, deleter, missed>>
  BY DEF FetcherAnswer, remoteVars
<1>2. creator'[t].pc = "commit" =>
        \/ creator[t].pc = "commit" /\ creator'[t].id = creator[t].id
        \/ req[t].pc = "answer" /\ creator'[t].id = req[t].id
  BY DEF FetcherAnswer, TypeOK, Idle
<1>3. req'[t] = Idle
  BY DEF FetcherAnswer, TypeOK
<1>4. \A u \in Task \ {t} : req'[u] = req[u] /\ creator'[u] = creator[u]
  BY DEF FetcherAnswer, TypeOK
<1> QED
  BY <1>1, <1>2, <1>3, <1>4 DEF DeadInv, RowsInv, CarriedInv, KnownInv, Unforgotten, Uncleared, Idle

\* The row takes the id from its task.
LEMMA CommitKeeps ==
  ASSUME TypeOK, DeadInv, NEW t \in Task, CreateCommit(t)
  PROVE  DeadInv'
<1>1. UNCHANGED <<alive, cache, deleter, missed, req>>
  BY DEF CreateCommit, remoteVars
<1>2. \A u \in Task : creator'[u] = IF u = t THEN Idle ELSE creator[u]
  BY DEF CreateCommit, TypeOK
<1>3. \A f \in Flight : sub'[f] = IF f = creator[t].flight THEN creator[t].id ELSE sub[f]
  BY CarriedTypes DEF CreateCommit, TypeOK
<1>4. Uncleared(creator[t].id)
  BY DEF CreateCommit, DeadInv, CarriedInv
<1> QED
  BY <1>1, <1>2, <1>3, <1>4 DEF DeadInv, RowsInv, CarriedInv, KnownInv, Unforgotten, Uncleared, Idle

\* A task ends before its commit.
LEMMA TaskEndsKeeps ==
  ASSUME TypeOK, DeadInv, NEW t \in Task, creator' = [creator EXCEPT ![t] = Idle],
         UNCHANGED <<sub, alive, cache, req, deleter, missed>>
  PROVE  DeadInv'
<1>1. \A u \in Task : creator'[u] = IF u = t THEN Idle ELSE creator[u]
  BY DEF TypeOK
<1> QED
  BY <1>1 DEF DeadInv, RowsInv, CarriedInv, KnownInv, Unforgotten, Uncleared, Idle

\* What AeroDataBox deletes is being deleted by a task.
LEMMA DeleteRemoteKeeps ==
  ASSUME TypeOK, DeadInv, NEW d \in Sub, DeleteRemote(d)
  PROVE  DeadInv'
<1>1. UNCHANGED <<sub, cache, creator, req, missed>>
  BY DEF DeleteRemote
<1>2. ASSUME NEW s \in Sub
      PROVE  (Unforgotten(s) => Unforgotten(s)') /\ (Uncleared(s) => Uncleared(s)')
  <2>1. CASE s = d
    BY <2>1 DEF DeleteRemote, TypeOK, Unforgotten, Uncleared
  <2>2. CASE s # d
    BY <2>2 DEF DeleteRemote, TypeOK, Unforgotten, Uncleared
  <2> QED
    BY <2>1, <2>2
<1> QED
  BY <1>1, <1>2, StandingKeeps

\* The fetcher forgets it; an answer on its way is noted as missed.
LEMMA DeleteForgetKeeps ==
  ASSUME TypeOK, DeadInv, NEW d \in Sub, DeleteForget(d)
  PROVE  DeadInv'
<1>1. UNCHANGED <<sub, creator, req, alive>> /\ missed \subseteq missed'
  BY DEF DeleteForget, remoteVars
<1>2. \A s \in Sub : Uncleared(s) => Uncleared(s)'
  BY DEF DeleteForget, TypeOK, Uncleared, remoteVars
<1>3. \A s \in Sub \ {d} : Unforgotten(s) => Unforgotten(s)'
  BY DEF DeleteForget, TypeOK, Unforgotten, remoteVars
<1>4. cache'.id # None => cache' = cache /\ cache.id # d
  BY DEF DeleteForget, ForgetDeleted, NoCache
<1>5. \A t \in Task : req[t].pc = "created" /\ req[t].id = d => d \in missed'
  BY DEF DeleteForget, Returning
<1>6. RowsInv' /\ CarriedInv'
  BY <1>1, <1>2, CarriedTypes DEF DeadInv, RowsInv, CarriedInv
<1>7. d \in missed' => Unforgotten(d)'
  BY DEF Unforgotten
<1>8. KnownInv'
  BY <1>1, <1>3, <1>4, <1>5, <1>7, CarriedTypes DEF DeadInv, KnownInv
<1> QED
  BY <1>6, <1>8 DEF DeadInv

\* The rows are cleared; a task that carries the id is noted as missed.
LEMMA DeleteClearKeeps ==
  ASSUME TypeOK, DeadInv, NEW d \in Sub, DeleteClear(d)
  PROVE  DeadInv'
<1>1. UNCHANGED <<creator, req, cache, alive>> /\ missed \subseteq missed'
  BY DEF DeleteClear, remoteVars
<1>2. \A s \in Sub \ {d} : Uncleared(s) => Uncleared(s)'
  BY DEF DeleteClear, TypeOK, Uncleared, remoteVars
<1>3. \A s \in Sub : Unforgotten(s) => Unforgotten(s)'
  BY DEF DeleteClear, TypeOK, Unforgotten, remoteVars
<1>4. \A f \in Flight : sub'[f] # None => sub'[f] = sub[f] /\ sub[f] # d
  BY DEF DeleteClear
<1>5. Held(d) => Uncleared(d)'
  BY DEF DeleteClear, Uncleared
<1>6. RowsInv'
  BY <1>2, <1>4, CarriedTypes DEF DeadInv, RowsInv
<1>7. CarriedInv'
  BY <1>1, <1>2, <1>5, CarriedTypes DEF DeadInv, CarriedInv, Held
<1>8. KnownInv'
  BY <1>1, <1>3, CarriedTypes DEF DeadInv, KnownInv
<1> QED
  BY <1>6, <1>7, <1>8 DEF DeadInv

\* A deletion whose end is lost is noted as missed.
LEMMA DeleteLostKeeps ==
  ASSUME TypeOK, DeadInv, NEW d \in Sub, DeleteLost(d)
  PROVE  DeadInv'
<1>1. UNCHANGED <<sub, cache, creator, req>>
  BY DEF DeleteLost
<1>2. \A s \in Sub : (Unforgotten(s) => Unforgotten(s)') /\ (Uncleared(s) => Uncleared(s)')
  BY DEF DeleteLost, TypeOK, Unforgotten, Uncleared, remoteVars
<1> QED
  BY <1>1, <1>2, StandingKeeps

\* The fetcher's memory and requests are gone with it, and with its deletions.
LEMMA FetcherCrashKeeps ==
  ASSUME TypeOK, DeadInv, FetcherCrash
  PROVE  DeadInv'
<1>1. UNCHANGED <<sub, alive>> /\ cache'.id = None
  BY DEF FetcherCrash, remoteVars, NoCache
<1>2. \A t \in Task : /\ req'[t].pc = "idle"
                      /\ creator'[t].pc = "commit" => creator'[t] = creator[t]
  BY DEF FetcherCrash, Idle
<1>3. \A s \in Sub : Uncleared(s) => Uncleared(s)'
  BY DEF FetcherCrash, TypeOK, Uncleared, remoteVars
<1>4. RowsInv'
  BY <1>1, <1>3, CarriedTypes DEF DeadInv, RowsInv
<1>5. CarriedInv'
  BY <1>2, <1>3, CarriedTypes DEF DeadInv, CarriedInv
<1>6. KnownInv'
  BY <1>1, <1>2 DEF KnownInv
<1> QED
  BY <1>4, <1>5, <1>6 DEF DeadInv

LEMMA NextDead == TypeOK /\ DeadInv /\ [Next]_vars => DeadInv'
<1> SUFFICES ASSUME TypeOK, DeadInv, [Next]_vars PROVE DeadInv'
  OBVIOUS
<1> USE DEF flightVars, remoteVars, loopVars
<1>1. ASSUME NEW t \in ApiTask, NEW f \in Flight, AppCreate(t, f) PROVE DeadInv'
  <2>1. t \in Task /\ CreateRead(t, NumberOf[f], f) /\ UNCHANGED <<sub, alive, cache, req, deleter, missed>>
    BY <1>1 DEF AppCreate, Task
  <2> QED
    BY <2>1, ReadKeeps
<1>2. ASSUME NEW t \in ApiTask, ApiCrash(t) PROVE DeadInv'
  BY <1>2, TaskEndsKeeps DEF ApiCrash, Task
<1>3. ASSUME NEW t \in Task, CreateTimeout(t) PROVE DeadInv'
  BY <1>3, TaskEndsKeeps DEF CreateTimeout
<1>4. ASSUME NEW t \in Task, CreateCommit(t) \/ FetcherCreate(t) \/ RemoteCreate(t) \/ FetcherCreated(t) \/ FetcherAnswer(t)
      PROVE  DeadInv'
  BY <1>4, CommitKeeps, FetcherCreateKeeps, RemoteCreateKeeps, FetcherCreatedKeeps, FetcherAnswerKeeps
<1>5. ASSUME NEW s \in Sub, DeleteRemote(s) \/ DeleteForget(s) \/ DeleteClear(s) \/ DeleteLost(s)
      PROVE  DeadInv'
  BY <1>5, DeleteRemoteKeeps, DeleteForgetKeeps, DeleteClearKeeps, DeleteLostKeeps
<1>6. ASSUME NEW s \in Sub, ReceiveUpdate(s) \/ HangingDelete(s) PROVE DeadInv'
  <2>1. UNCHANGED <<sub, creator, req, cache, alive, missed>> /\ (AskDelete(s) \/ deleter' = deleter)
    BY <1>6 DEF ReceiveUpdate, HangingDelete
  <2>2. \A r \in Sub : (Unforgotten(r) => Unforgotten(r)') /\ (Uncleared(r) => Uncleared(r)')
    BY <2>1, AskKeeps, NamedKept
  <2> QED
    BY <2>1, <2>2, StandingKeeps
<1>7. ASSUME NEW f \in Flight, PassNext(f) PROVE DeadInv'
  <2>1. /\ PassedId(f) \in Flight /\ Loop \in Task /\ CreateRead(Loop, NumberOf[f], PassedId(f))
        /\ UNCHANGED <<sub, alive, cache, req, deleter, missed>>
    BY <1>7 DEF PassNext, PassedId, TypeOK, NoPass, Task
  <2> QED
    BY <2>1, ReadKeeps
<1>8. CASE UNCHANGED <<sub, creator, req, cache, alive, deleter, missed>>
  BY <1>8, NamedKept, StandingKeeps
<1>9. ASSUME NEW f \in Flight, TimePasses(f) \/ PassSkip(f) PROVE DeadInv'
  BY <1>8, <1>9 DEF TimePasses, PassSkip
<1>10. ASSUME HangingScan \/ HangingAnswered \/ PassStart \/ PassEnd PROVE DeadInv'
  BY <1>8, <1>10 DEF HangingScan, HangingAnswered, PassStart, PassEnd
<1>11. ASSUME FetcherCrash PROVE DeadInv'
  BY <1>11, FetcherCrashKeeps
<1>12. CASE UNCHANGED vars
  BY <1>8, <1>12 DEF vars
<1> QED
  BY <1>1, <1>2, <1>3, <1>4, <1>5, <1>6, <1>7, <1>9, <1>10, <1>11, <1>12 DEF Next

\* A flight names a subscription that AeroDataBox no longer has only in the ways that
\* delete_webhook itself leaves open, for any flights, tasks and faults.
THEOREM DeadOnlyIfMissedCorrect == Spec => []DeadOnlyIfMissed
<1>1. Spec => [](TypeOK /\ DeadInv)
  <2>1. Init => TypeOK /\ DeadInv
    BY InitType, InitDead
  <2>2. TypeOK /\ DeadInv /\ [Next]_vars => (TypeOK /\ DeadInv)'
    BY NextType, NextDead
  <2> QED
    BY <2>1, <2>2, PTL DEF Spec
<1>2. TypeOK /\ DeadInv => DeadOnlyIfMissed
  BY DEF DeadInv, RowsInv, Uncleared, DeadOnlyIfMissed
<1> QED
  BY <1>1, <1>2, PTL
=============================================================================
