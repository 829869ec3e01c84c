---------------------------- MODULE CockpitProofs ----------------------------
(***************************************************************************)
(* The worker that turns aircraft messages into stories reads every        *)
(* message within reach, and pays for each once.                           *)
(*                                                                         *)
(* What a cursor has behind it (Behind) stays true while messages are      *)
(* listed late: none is listed earlier than the overlap of two windows.    *)
(* With a page of the messages with the greatest ids (Top) the cursor      *)
(* passes only what was read.  What was asked about is remembered (Asked)  *)
(* until it is too old to be queued; a message that waits was answered     *)
(* only that the AI is too busy (Fits).                                    *)
(***************************************************************************)
EXTENDS Cockpit, FiniteSetTheorems, WellFoundedInduction, TLAPS

-----------------------------------------------------------------------------
(* Pages. *)

\* The messages of a set with greater ids, and those of which a page has room.
Above(H, m) == {n \in H : Id[n] > Id[m]}
Top(H) == {m \in H : Cardinality(Above(H, m)) < PageSize}

LEMMA LeastOfNat ==
  ASSUME NEW S \in SUBSET Nat, S # {}
  PROVE  \E i \in S : \A j \in S : i <= j
<1>1. PICK i \in S : \A j \in S : ~(<<j, i>> \in OpToRel(<, Nat))
  BY WFMin, NatLessThanWellFounded
<1>2. \A j \in S : ~(j < i)
  BY <1>1 DEF OpToRel
<1> QED BY <1>2

LEMMA LeastIs ==
  ASSUME NEW P \in SUBSET Message, P # {}
  PROVE  /\ \E x \in P : Least(P) = Id[x]
         /\ \A m \in P : Least(P) <= Id[m]
<1> DEFINE S == {Id[m] : m \in P}
<1>1. S \in SUBSET Nat /\ S # {}
  BY AirAssumption
<1>2. PICK i \in S : \A j \in S : i <= j
  <2> HIDE DEF S
  <2> QED BY <1>1, LeastOfNat
<1>3. \A m \in P : i <= Id[m]
  BY <1>2
<1> QED BY <1>3 DEF Least

LEMMA Ranks ==
  ASSUME NEW H \in SUBSET Message
  PROVE  /\ \A m \in H : IsFiniteSet(Above(H, m)) /\ Cardinality(Above(H, m)) \in Nat
         /\ \A m, n \in H : Id[n] > Id[m] => Cardinality(Above(H, n)) < Cardinality(Above(H, m))
<1>1. IsFiniteSet(H)
  BY AirAssumption, FS_Subset
<1>2. ASSUME NEW m \in H PROVE IsFiniteSet(Above(H, m)) /\ Cardinality(Above(H, m)) \in Nat
  <2>1. Above(H, m) \in SUBSET H
    BY DEF Above
  <2> QED BY <1>1, <2>1, FS_Subset, FS_CardinalityType
<1>3. ASSUME NEW m \in H, NEW n \in H, Id[n] > Id[m]
      PROVE  Cardinality(Above(H, n)) < Cardinality(Above(H, m))
  <2>1. Above(H, n) \in SUBSET Above(H, m) /\ n \in Above(H, m) /\ n \notin Above(H, n)
    BY <1>3, AirAssumption DEF Above
  <2>2. /\ Cardinality(Above(H, n)) <= Cardinality(Above(H, m))
        /\ Cardinality(Above(H, n)) # Cardinality(Above(H, m))
    BY <1>2, <2>1, FS_Subset
  <2> QED BY <1>2, <2>2
<1> QED BY <1>2, <1>3

\* A page has every message above one that it has.
LEMMA PageFromTop ==
  ASSUME NEW H \in SUBSET Message, NEW x \in Top(H), NEW n \in H, Id[n] >= Id[x]
  PROVE  n \in Top(H)
<1>1. x \in H /\ Cardinality(Above(H, x)) < PageSize /\ Id[x] \in Nat /\ Id[n] \in Nat
  BY AirAssumption DEF Top
<1>2. CASE Id[n] > Id[x]
  <2>1. /\ Cardinality(Above(H, n)) \in Nat /\ Cardinality(Above(H, x)) \in Nat
        /\ Cardinality(Above(H, n)) < Cardinality(Above(H, x))
    BY <1>1, <1>2, Ranks
  <2> QED BY <1>1, <2>1, AirAssumption DEF Top
<1>3. CASE Id[n] = Id[x]
  BY <1>1, <1>3, AirAssumption
<1> QED BY <1>1, <1>2, <1>3

\* A page that is not full has all of them.
LEMMA PageFull ==
  ASSUME NEW H \in SUBSET Message, Top(H) # H
  PROVE  Cardinality(Top(H)) = PageSize
<1> DEFINE rank(m) == Cardinality(Above(H, m))
           Out == H \ Top(H)
           R == {rank(m) : m \in Out}
<1>1. \A m \in H : rank(m) \in Nat
  BY Ranks
<1>2. Top(H) \in SUBSET H /\ \A m \in Out : m \in H /\ rank(m) >= PageSize
  BY <1>1, AirAssumption DEF Top
<1>3. Out # {}
  BY <1>2
<1>4. PICK r \in R : \A q \in R : r <= q
  <2>1. R \in SUBSET Nat /\ R # {}
    BY <1>1, <1>2, <1>3
  <2> HIDE DEF R
  <2> QED BY <2>1, LeastOfNat
<1>5. PICK h \in Out : r = rank(h)
  BY <1>4
<1>6. Above(H, h) \in SUBSET Top(H)
  <2> SUFFICES ASSUME NEW n \in Above(H, h) PROVE n \in Top(H)
    OBVIOUS
  <2>1. n \in H /\ h \in H /\ Id[n] > Id[h]
    BY <1>2, <1>5 DEF Above
  <2>2. rank(n) < rank(h)
    BY <2>1, Ranks
  <2>3. n \notin Out
    BY <1>1, <1>4, <1>5, <2>1, <2>2
  <2> QED BY <2>1, <2>3
<1>7. IsFiniteSet(Top(H)) /\ Cardinality(Top(H)) \in Nat
  BY <1>2, AirAssumption, FS_Subset, FS_CardinalityType
<1>8. Cardinality(Top(H)) >= PageSize
  <2>1. Cardinality(Above(H, h)) <= Cardinality(Top(H))
    BY <1>6, <1>7, FS_Subset
  <2> QED BY <1>1, <1>2, <1>5, <1>7, <2>1, AirAssumption
<1>9. Cardinality(Top(H)) <= PageSize
  <2> SUFFICES ASSUME ~(Cardinality(Top(H)) <= PageSize) PROVE FALSE
    OBVIOUS
  <2>1. Top(H) # {}
    BY <1>7, FS_EmptySet, AirAssumption
  <2>2. PICK x \in Top(H) : \A m \in Top(H) : Id[x] <= Id[m]
    BY <1>2, <2>1, LeastIs
  <2>3. Top(H) \ {x} \in SUBSET Above(H, x)
    BY <1>2, <2>2, AirAssumption DEF Above
  <2>4. IsFiniteSet(Above(H, x)) /\ Cardinality(Above(H, x)) \in Nat /\ Cardinality(Above(H, x)) < PageSize
    BY <1>2, Ranks DEF Top
  <2>5. Cardinality(Top(H) \ {x}) <= Cardinality(Above(H, x))
    BY <2>3, <2>4, FS_Subset
  <2>6. Cardinality(Top(H) \ {x}) = Cardinality(Top(H)) - 1
    BY <1>7, FS_RemoveElement
  <2> QED BY <1>7, <2>4, <2>5, <2>6, AirAssumption
<1> QED BY <1>7, <1>8, <1>9, AirAssumption

-----------------------------------------------------------------------------
(* Types. *)

Reply == {"story", "review", "held", "transient", "refused", "error", "unknown"}
QueueTable == [Message -> CandidateRow \cup {None}]
ToldTable == [{Content[m] : m \in Message} -> Int \cup {None}]
Draft == [queue : QueueTable, told : ToldTable, review : SUBSET Message]

Cursors == [since : Int, until : Int \cup {None}, before : Nat \cup {None}]
Windows == [since : Int, until : Int, before : Nat \cup {None}]

SearchRun == [pc : {"search"}, now : Int, left : SUBSET Search, errors : Int, blocked : BOOLEAN, whole : BOOLEAN]
PageRun ==
  [pc : {"page"}, now : Int, left : SUBSET Search, errors : Int, blocked : BOOLEAN, whole : BOOLEAN,
   search : Search, pages : Int, at : Windows]
RowsRun ==
  [pc : {"rows"}, now : Int, left : SUBSET Search, errors : Int, blocked : BOOLEAN, whole : BOOLEAN,
   search : Search, pages : Int, at : Windows, page : SUBSET Message, rows : SUBSET Message, draft : Draft]
PickRun == [pc : {"select"}, now : Int, urgentTurn : BOOLEAN, todo : SUBSET Message]
AskRun == [pc : {"ask"} \cup Reply, now : Int, todo : SUBSET Message, urgentTurn : BOOLEAN, message : Message]
Runs == SearchRun \cup PageRun \cup RowsRun \cup PickRun \cup AskRun

RunTyped == refresh # Off => refresh \in Runs /\ refresh.now = lastRun

AirTypes ==
  /\ tenth \in Nat /\ lastRun \in Int /\ lastRun <= tenth
  /\ listed \in [Message -> Int \cup {None}]
  /\ cursor \in [Search -> Cursors \cup {None}]
  /\ queue \in QueueTable /\ told \in ToldTable /\ review \subseteq Message
  /\ asks \in [Message -> Seq(Reply)]
  /\ attempt \in [Message -> TryRow \cup {None}]
  /\ RunTyped

\* Where the process stands.
LEMMA RunAt ==
  ASSUME AirTypes
  PROVE  /\ refresh.pc = "search" => refresh \in SearchRun
         /\ refresh.pc = "page" => refresh \in PageRun
         /\ refresh.pc = "rows" => refresh \in RowsRun
         /\ refresh.pc = "select" => refresh \in PickRun
         /\ refresh.pc \in {"ask"} \cup Reply => refresh \in AskRun
         /\ refresh.pc # "off" => refresh.now = lastRun /\ refresh # Off
BY DEF AirTypes, RunTyped, Runs, SearchRun, PageRun, RowsRun, PickRun, AskRun, Reply, Off

LEMMA InitTypes == AirInit => AirTypes
BY AirAssumption DEF AirInit, AirTypes, RunTyped, QueueTable, ToldTable

\* Steps of the process that write no table.
LEMMA OnlyRun ==
  ASSUME AirTypes, UNCHANGED <<tenth, listed, cursor, queue, told, review, attempt, lastRun, asks>>,
         refresh' # Off => refresh' \in Runs /\ refresh'.now = lastRun
  PROVE  AirTypes'
BY DEF AirTypes, RunTyped

LEMMA SearchingTypes ==
  ASSUME NEW w, w \in SearchRun \cup PageRun \cup RowsRun
  PROVE  Searching(w) \in Runs /\ Searching(w).now = w.now
BY DEF Searching, SearchRun, PageRun, RowsRun, Runs

LEMMA FreshTypes ==
  ASSUME NEW c \in Cursors \cup {None}, NEW now \in Int
  PROVE  FreshCursor(c, now) \in Windows
<1>1. CASE c = None \/ c.since < now - CatchUp
  BY <1>1, AirAssumption DEF FreshCursor, Windows
<1>2. CASE ~(c = None \/ c.since < now - CatchUp)
  BY <1>2 DEF FreshCursor, Cursors, Windows
<1> QED BY <1>1, <1>2

LEMMA ListTypes == ASSUME AirTypes, NEW m \in Message, List(m) PROVE AirTypes'
<1>1. \E t \in Int : listed' = [listed EXCEPT ![m] = t]
  BY AirAssumption DEF List, AirTypes
<1> QED BY <1>1 DEF List, AirTypes, RunTyped

LEMMA TenthTypes == ASSUME AirTypes, Tenth PROVE AirTypes'
BY DEF Tenth, AirTypes, RunTyped

LEMMA StartTypes == ASSUME AirTypes, StartRefresh PROVE AirTypes'
<1>1. tenth - Week \in Int
  BY AirAssumption DEF AirTypes
<1>2. queue' \in QueueTable /\ told' \in ToldTable /\ review' \subseteq Message
  BY DEF StartRefresh, AirTypes, QueueTable, ToldTable
<1>3. attempt' \in [Message -> TryRow \cup {None}]
  BY DEF StartRefresh, AirTypes
<1>4. RunTyped'
  <2>1. refresh' \in SearchRun /\ refresh'.now = tenth /\ lastRun' = tenth
    BY DEF StartRefresh, SearchRun, AirTypes
  <2> QED BY <2>1 DEF RunTyped, Runs
<1> QED BY <1>2, <1>3, <1>4 DEF StartRefresh, AirTypes

LEMMA PickTypes == ASSUME AirTypes, NEW s \in Search, PickSearch(s) PROVE AirTypes'
<1>1. refresh \in SearchRun /\ refresh.now = lastRun /\ cursor[s] \in Cursors \cup {None}
  BY RunAt DEF PickSearch, AirTypes
<1>2. PICK c : c = FreshCursor(cursor[s], refresh.now)
  OBVIOUS
<1>3. c \in Windows
  BY <1>1, <1>2, FreshTypes DEF SearchRun
<1>4. PagesPerRun \in Int => refresh' \in PageRun
  BY <1>1, <1>2, <1>3 DEF PickSearch, SearchRun, PageRun
<1>5. refresh'.now = lastRun
  BY <1>1 DEF PickSearch
<1> QED BY <1>4, <1>5, OnlyRun, AirAssumption DEF PickSearch, Runs

LEMMA TakeTypes == ASSUME AirTypes, TakePage PROVE AirTypes'
<1>1. refresh \in PageRun /\ refresh.now = lastRun
  BY RunAt DEF TakePage
<1>2. PICK p : p = Page(refresh.search, refresh.at)
  OBVIOUS
<1>3. p \subseteq Message
  BY <1>2 DEF Page
<1>4. [queue |-> queue, told |-> told, review |-> review] \in Draft
  BY DEF Draft, AirTypes
<1>5. refresh' \in RowsRun /\ refresh'.now = lastRun
  BY <1>1, <1>2, <1>3, <1>4 DEF TakePage, PageRun, RowsRun
<1> QED BY <1>5, OnlyRun DEF TakePage, Runs

LEMMA QueuedTypes ==
  ASSUME NEW d \in Draft, NEW m \in Message, Receipt(m) \in Int
  PROVE  Queued(d, m) \in Draft
<1>1. [received |-> Receipt(m), status |-> "pending"] \in CandidateRow
  BY DEF CandidateRow
<1>2. Content[m] \in {Content[n] : n \in Message}
  OBVIOUS
<1>3. PICK r : r = Receipt(m)
  OBVIOUS
<1> QED BY <1>1, <1>2, <1>3 DEF Queued, Draft, QueueTable, ToldTable

LEMMA QueueRowTypes ==
  ASSUME AirTypes, NEW m \in Message, QueueRow(m), listed[m] # None
  PROVE  AirTypes'
<1>1. refresh \in RowsRun /\ refresh.now = lastRun /\ refresh.draft \in Draft
  BY RunAt DEF QueueRow, RowsRun
<1>2. Receipt(m) \in Int
  BY AirAssumption DEF Receipt, AirTypes
<1>3. refresh' = Off \/ \E d \in Draft : refresh' = [refresh EXCEPT !.rows = @ \ {m}, !.draft = d]
  <2>1. Queued(refresh.draft, m) \in Draft
    BY <1>1, <1>2, QueuedTypes
  <2>2. [refresh.draft EXCEPT !.review = @ \cup {m}] \in Draft
    BY <1>1 DEF Draft
  <2> QED BY <1>1, <2>1, <2>2 DEF QueueRow
<1>4. refresh' # Off => refresh' \in Runs /\ refresh'.now = lastRun
  <2> SUFFICES ASSUME NEW d \in Draft, refresh' = [refresh EXCEPT !.rows = @ \ {m}, !.draft = d]
               PROVE  refresh' \in RowsRun /\ refresh'.now = lastRun
    BY <1>3 DEF Runs
  <2> QED BY <1>1 DEF RowsRun
<1> QED BY <1>4, OnlyRun DEF QueueRow

LEMMA NextTypes ==
  ASSUME NEW at \in Windows, NEW page \in SUBSET Message
  PROVE  /\ NextWindow(at, page) \in Cursors
         /\ NextWindow(at, page).until # None => NextWindow(at, page) \in Windows
<1>1. CASE Cardinality(page) = PageSize
  <2>1. page # {}
    BY <1>1, FS_EmptySet, AirAssumption
  <2>2. Least(page) \in Nat
    BY <2>1, LeastIs, AirAssumption
  <2> QED BY <1>1, <2>2 DEF NextWindow, Windows, Cursors
<1>2. CASE Cardinality(page) # PageSize
  BY <1>2, AirAssumption DEF NextWindow, Windows, Cursors
<1> QED BY <1>1, <1>2

LEMMA CommitTypes == ASSUME AirTypes, CommitPage PROVE AirTypes'
<1>1. refresh \in RowsRun /\ refresh.now = lastRun
  BY RunAt DEF CommitPage
<1>2. refresh.draft \in Draft /\ refresh.at \in Windows /\ refresh.page \in SUBSET Message /\ refresh.search \in Search
  BY <1>1 DEF RowsRun
<1>3. PICK n : n = NextWindow(refresh.at, refresh.page)
  OBVIOUS
<1>4. n \in Cursors /\ (n.until # None => n \in Windows)
  BY <1>2, <1>3, NextTypes
<1>5. refresh' \in Runs /\ refresh'.now = lastRun
  <2>1. CASE n.until = None \/ refresh.pages = 1
    BY <1>1, <1>3, <2>1, SearchingTypes DEF CommitPage
  <2>2. CASE ~(n.until = None \/ refresh.pages = 1)
    <3>1. refresh' \in PageRun /\ refresh'.now = lastRun
      BY <1>1, <1>3, <1>4, <2>2 DEF CommitPage, RowsRun, PageRun
    <3> QED BY <3>1 DEF Runs
  <2> QED BY <2>1, <2>2
<1>6. cursor' \in [Search -> Cursors \cup {None}]
  BY <1>2, <1>3, <1>4 DEF CommitPage, AirTypes
<1>7. queue' \in QueueTable /\ told' \in ToldTable /\ review' \subseteq Message
  BY <1>2 DEF CommitPage, Draft
<1> QED BY <1>5, <1>6, <1>7 DEF CommitPage, AirTypes, RunTyped

LEMMA LeaveTypes == ASSUME AirTypes, LeaveTracked PROVE AirTypes'
<1>1. refresh \in SearchRun /\ refresh.now = lastRun
  BY RunAt DEF LeaveTracked
<1>2. refresh' \in SearchRun /\ refresh'.now = lastRun
  BY <1>1 DEF LeaveTracked, SearchRun
<1> QED BY <1>2, OnlyRun DEF LeaveTracked, Runs

LEMMA LoseTypes == ASSUME AirTypes, LosePage PROVE AirTypes'
<1>1. refresh \in PageRun /\ refresh.now = lastRun
  BY RunAt DEF LosePage
<1>2. PICK w \in PageRun : refresh' = Searching(w) /\ w.now = refresh.now
  <2>1. CASE \E b \in BOOLEAN : refresh' = Searching([refresh EXCEPT !.errors = @ + 1, !.blocked = b, !.whole = FALSE])
    <3>1. PICK b \in BOOLEAN : refresh' = Searching([refresh EXCEPT !.errors = @ + 1, !.blocked = b, !.whole = FALSE])
      BY <2>1
    <3>2. PICK e \in Int : e = refresh.errors + 1
      BY <1>1 DEF PageRun
    <3>3. PICK w : w = [refresh EXCEPT !.errors = e, !.blocked = b, !.whole = FALSE]
      OBVIOUS
    <3>4. w \in PageRun /\ w.now = refresh.now
      BY <1>1, <3>3 DEF PageRun
    <3>5. [refresh EXCEPT !.errors = @ + 1, !.blocked = b, !.whole = FALSE] = w
      BY <1>1, <3>2, <3>3 DEF PageRun
    <3> QED BY <3>1, <3>4, <3>5
  <2>2. CASE refresh' = Searching([refresh EXCEPT !.whole = @ /\ refresh.search \in Tracked])
    <3>1. PICK w : w = [refresh EXCEPT !.whole = @ /\ refresh.search \in Tracked]
      OBVIOUS
    <3>2. w \in PageRun /\ w.now = refresh.now
      BY <1>1, <3>1 DEF PageRun
    <3> QED BY <2>2, <3>1, <3>2
  <2> QED BY <2>1, <2>2 DEF LosePage
<1>3. refresh' \in Runs /\ refresh'.now = lastRun
  BY <1>1, <1>2, SearchingTypes
<1> QED BY <1>3, OnlyRun DEF LosePage

LEMMA EndSearchTypes == ASSUME AirTypes, EndSearch PROVE AirTypes'
<1>1. refresh \in SearchRun /\ refresh.now = lastRun
  BY RunAt DEF EndSearch
<1>2. refresh' \in PickRun /\ refresh'.now = lastRun
  BY <1>1 DEF EndSearch, SearchRun, PickRun
<1>3. queue' \in QueueTable
  <2>1. \A m \in Message : queue[m] # None => queue[m] \in CandidateRow /\ [queue[m] EXCEPT !.status = "expired"] \in CandidateRow
    BY DEF AirTypes, QueueTable, CandidateRow
  <2> QED BY <2>1 DEF EndSearch, AirTypes, QueueTable
<1> QED BY <1>2, <1>3 DEF EndSearch, AirTypes, RunTyped, Runs

RowStatus == {"pending", "attempted", "duplicate", "expired", "published", "failed", "review", "held"}

LEMMA GreaterIs == ASSUME NEW a \in Int, NEW b \in Int PROVE Max({a, b}) \in Int
<1>1. \E x \in {a, b} : \A y \in {a, b} : x >= y
  BY a >= b \/ b >= a
<1> QED BY <1>1 DEF Max

\* The rows with one written anew.
LEMMA RowTypes ==
  ASSUME AirTypes, NEW m \in Message, queue[m] # None, NEW st \in RowStatus
  PROVE  [queue EXCEPT ![m].status = st] \in QueueTable
<1>1. queue[m] \in CandidateRow
  BY DEF AirTypes, QueueTable
<1>2. [queue[m] EXCEPT !.status = st] \in CandidateRow
  BY <1>1 DEF CandidateRow, RowStatus
<1> QED BY <1>2 DEF AirTypes, QueueTable

LEMMA SelectTypes ==
  ASSUME AirTypes, NEW m \in Message, Select(m), queue[m] # None
  PROVE  AirTypes'
<1>1. refresh \in PickRun /\ refresh.now = lastRun
  BY RunAt DEF Select
<1>2. refresh' # Off => refresh' \in Runs /\ refresh'.now = lastRun
  <2>1. refresh' = Off \/ refresh' = [refresh EXCEPT !.todo = @ \ {m}, !.urgentTurn = ~@]
        \/ refresh' = [pc |-> "ask", now |-> refresh.now, todo |-> refresh.todo \ {m},
                       urgentTurn |-> ~refresh.urgentTurn, message |-> m]
    BY <1>1 DEF Select, PickRun
  <2>2. CASE refresh' = [refresh EXCEPT !.todo = @ \ {m}, !.urgentTurn = ~@]
    BY <1>1, <2>2 DEF PickRun, Runs
  <2>3. CASE refresh' = [pc |-> "ask", now |-> refresh.now, todo |-> refresh.todo \ {m},
                       urgentTurn |-> ~refresh.urgentTurn, message |-> m]
    <3>1. refresh' \in AskRun /\ refresh'.now = lastRun
      BY <1>1, <2>3 DEF PickRun, AskRun
    <3> QED BY <3>1 DEF Runs
  <2> QED BY <2>1, <2>2, <2>3
<1>3. queue' \in QueueTable
  BY RowTypes DEF Select, RowStatus, AirTypes
<1>4. attempt' \in [Message -> TryRow \cup {None}]
  <2>1. CASE attempt' = attempt
    BY <2>1 DEF AirTypes
  <2>2. CASE attempt' # attempt
    <3> DEFINE t == [received |-> queue[m].received,
                     tries |-> IF attempt[m] = None THEN 1 ELSE attempt[m].tries + 1, next |-> 0]
    <3>1. Due(m) /\ attempt' = [attempt EXCEPT ![m] = t]
      BY <2>2 DEF Select, Claimable
    <3>2. queue[m].received \in Int
      BY DEF AirTypes, QueueTable, CandidateRow
    <3>3. attempt[m] # None => attempt[m].tries \in 1..MostTries /\ attempt[m].tries < MostTries
      BY <3>1 DEF Due, AirTypes, TryRow
    <3>4. t \in TryRow
      BY <3>2, <3>3, AirAssumption DEF TryRow
    <3> HIDE DEF t
    <3> QED BY <3>1, <3>4 DEF AirTypes
  <2> QED BY <2>1, <2>2
<1> QED BY <1>2, <1>3, <1>4 DEF Select, AirTypes, RunTyped

LEMMA AskTypes == ASSUME AirTypes, Ask PROVE AirTypes'
<1>1. refresh \in AskRun /\ refresh.now = lastRun
  BY RunAt DEF Ask
<1>2. PICK answer \in Reply : /\ asks' = [asks EXCEPT ![refresh.message] = Append(@, answer)]
                               /\ refresh' = [refresh EXCEPT !.pc = answer]
  BY DEF Ask, Reply
<1>3. refresh' \in AskRun /\ refresh'.now = lastRun
  BY <1>1, <1>2 DEF AskRun
<1>4. asks' \in [Message -> Seq(Reply)]
  <2>1. refresh.message \in Message /\ asks[refresh.message] \in Seq(Reply)
    BY <1>1 DEF AskRun, AirTypes
  <2>2. Append(asks[refresh.message], answer) \in Seq(Reply)
    BY <2>1
  <2> QED BY <1>2, <2>1, <2>2 DEF AirTypes
<1> QED BY <1>3, <1>4 DEF Ask, AirTypes, RunTyped, Runs

LEMMA GoOnTypes ==
  ASSUME NEW w, w \in AskRun
  PROVE  GoOn(w) \in Runs /\ GoOn(w).now = w.now
<1>1. GoOn(w) \in PickRun
  BY DEF GoOn, PickRun, AskRun
<1> QED BY <1>1 DEF GoOn, Runs

LEMMA VerdictTypes ==
  ASSUME AirTypes, RecordVerdict, queue[refresh.message] # None
  PROVE  AirTypes'
<1>1. refresh \in AskRun /\ refresh.now = lastRun /\ refresh.message \in Message
  BY RunAt DEF RecordVerdict, AskRun, Reply
<1>2. refresh' \in Runs /\ refresh'.now = lastRun
  BY <1>1, GoOnTypes DEF RecordVerdict
<1>3. \E st \in RowStatus : queue' = [queue EXCEPT ![refresh.message].status = st]
  BY DEF RecordVerdict, RowStatus
<1>4. queue' \in QueueTable
  BY <1>1, <1>3, RowTypes
<1> QED BY <1>1, <1>2, <1>4 DEF RecordVerdict, AirTypes, RunTyped

\* What http_failure writes of a message: a transient error lets it wait.
LEMMA FailureWrites ==
  ASSUME AirTypes, RecordHttpFailure, attempt[refresh.message] # None
  PROVE  \E st \in RowStatus, due \in Int :
           /\ queue' = [queue EXCEPT ![refresh.message].status = st]
           /\ attempt' = [attempt EXCEPT ![refresh.message].next = due]
           /\ st = "pending" => refresh.pc = "transient"
<1> DEFINE pause == <<1, 2, 4>>[attempt[refresh.message].tries]
           due(wait) == tenth + Max({wait, pause})
           retry(wait) == /\ refresh.pc = "transient" /\ attempt[refresh.message].tries < MostTries
                          /\ due(wait) < attempt[refresh.message].received + News
<1>1. refresh \in AskRun /\ refresh.message \in Message
  BY RunAt DEF RecordHttpFailure, AskRun, Reply
<1>2. attempt[refresh.message] \in TryRow
  BY <1>1 DEF AirTypes
<1>3. PICK wait \in {pause, Pause} :
        /\ queue' = [queue EXCEPT ![refresh.message].status = IF retry(wait) THEN "pending" ELSE "failed"]
        /\ attempt' = [attempt EXCEPT ![refresh.message].next = IF retry(wait) THEN due(wait) ELSE 0]
  BY DEF RecordHttpFailure
<1>4. pause \in Int /\ wait \in Int
  BY <1>2, AirAssumption DEF TryRow
<1>5. due(wait) \in Int
  <2> HIDE DEF pause
  <2>1. Max({wait, pause}) \in Int
    BY <1>4, GreaterIs
  <2>2. tenth \in Int
    BY DEF AirTypes
  <2> QED BY <2>1, <2>2
<1>6. PICK st, d : st = (IF retry(wait) THEN "pending" ELSE "failed") /\ d = (IF retry(wait) THEN due(wait) ELSE 0)
  OBVIOUS
<1>7. st \in RowStatus /\ d \in Int
  <2> HIDE DEF due, retry
  <2> QED BY <1>5, <1>6 DEF RowStatus
<1>8. st = "pending" => refresh.pc = "transient"
  <2>1. retry(wait) => refresh.pc = "transient"
    OBVIOUS
  <2> HIDE DEF retry
  <2> QED BY <1>6, <2>1
<1>9. /\ queue' = [queue EXCEPT ![refresh.message].status = st]
      /\ attempt' = [attempt EXCEPT ![refresh.message].next = d]
  <2> HIDE DEF due, retry
  <2> QED BY <1>3, <1>6, Zenon
<1> QED BY <1>7, <1>8, <1>9, Zenon

LEMMA FailureTypes ==
  ASSUME AirTypes, RecordHttpFailure, queue[refresh.message] # None, attempt[refresh.message] # None
  PROVE  AirTypes'
<1>1. refresh \in AskRun /\ refresh.now = lastRun /\ refresh.message \in Message
  BY RunAt DEF RecordHttpFailure, AskRun, Reply
<1>2. refresh' # Off => refresh' \in Runs /\ refresh'.now = lastRun
  BY <1>1, GoOnTypes DEF RecordHttpFailure
<1>3. attempt[refresh.message] \in TryRow
  BY <1>1 DEF AirTypes
<1>4. PICK st \in RowStatus, due \in Int : /\ queue' = [queue EXCEPT ![refresh.message].status = st]
                                           /\ attempt' = [attempt EXCEPT ![refresh.message].next = due]
  BY FailureWrites
<1>5. queue' \in QueueTable
  BY <1>1, <1>4, RowTypes
<1>6. attempt' \in [Message -> TryRow \cup {None}]
  <2>1. PICK t : t = [attempt[refresh.message] EXCEPT !.next = due]
    OBVIOUS
  <2>2. t \in TryRow
    BY <1>3, <2>1 DEF TryRow
  <2>3. attempt' = [attempt EXCEPT ![refresh.message] = t]
    BY <1>4, <2>1 DEF AirTypes
  <2> QED BY <1>1, <2>2, <2>3 DEF AirTypes
<1> QED BY <1>1, <1>2, <1>5, <1>6 DEF RecordHttpFailure, AirTypes, RunTyped

LEMMA EndTypes == ASSUME AirTypes, EndRefresh PROVE AirTypes'
BY OnlyRun DEF EndRefresh

-----------------------------------------------------------------------------
(* What lies behind a cursor. *)

\* What a cursor, or a window under way, has behind it at time t: l is what is listed, sn
\* what was seen.
Behind(s, at, l, sn, t) ==
  /\ at.since <= t - Overlap
  /\ at.until # None => at.until <= t
  /\ at.until = None => at.before = None
  /\ \A m \in Message :
       <<s, m>> \in Hits /\ l[m] # None /\ l[m] < at.since => <<s, m>> \in sn \/ l[m] < t - CatchUp
  /\ at.until # None /\ at.before # None =>
       \A m \in Message :
         /\ <<s, m>> \in Hits /\ l[m] # None /\ Id[m] >= at.before
         /\ at.since <= l[m] /\ l[m] < at.until - Overlap
         => <<s, m>> \in sn

Listings == [Message -> Int \cup {None}]

\* New messages are listed no earlier than Overlap ago.
ListedLate(l, k, t) == \A m \in Message : k[m] = l[m] \/ (l[m] = None /\ k[m] \in Int /\ t - Overlap <= k[m])

LEMMA BehindStays ==
  ASSUME NEW s, NEW at \in Cursors, NEW l \in Listings, NEW k \in Listings, NEW sn, NEW so,
         NEW t \in Int, NEW u \in Int,
         Behind(s, at, l, sn, t), t <= u, sn \subseteq so, ListedLate(l, k, t)
  PROVE  Behind(s, at, k, so, u)
<1>1. at.since \in Int /\ (at.until # None => at.until \in Int) /\ (at.before # None => at.before \in Int)
  BY DEF Cursors
<1>2. {Overlap, CatchUp} \subseteq Int /\ Id \in [Message -> Int] /\ None \notin Int
  BY AirAssumption
<1>3. at.since <= u - Overlap /\ (at.until # None => at.until <= u) /\ (at.until = None => at.before = None)
  BY <1>1, <1>2 DEF Behind
<1>4. ASSUME NEW m \in Message, <<s, m>> \in Hits, k[m] # None, k[m] < at.since
      PROVE  <<s, m>> \in so \/ k[m] < u - CatchUp
  <2>1. k[m] = l[m]
    BY <1>1, <1>2, <1>4 DEF ListedLate, Behind
  <2>2. k[m] \in Int
    BY <1>4 DEF Listings
  <2> QED BY <1>2, <1>4, <2>1, <2>2 DEF Behind
<1>5. ASSUME at.until # None, at.before # None,
             NEW m \in Message, <<s, m>> \in Hits, k[m] # None, Id[m] >= at.before,
             at.since <= k[m], k[m] < at.until - Overlap
      PROVE  <<s, m>> \in so
  <2>1. k[m] = l[m]
    BY <1>1, <1>2, <1>5 DEF ListedLate, Behind
  <2> QED BY <1>5, <2>1 DEF Behind
<1> QED BY <1>3, <1>4, <1>5 DEF Behind

\* An untouched search, or one that starts afresh.
LEMMA FreshBehind ==
  ASSUME NEW s, NEW c \in Cursors \cup {None}, NEW l \in Listings, NEW sn, NEW t \in Int, NEW now \in Int, now <= t,
         c # None => Behind(s, c, l, sn, t)
  PROVE  Behind(s, FreshCursor(c, now), l, sn, t)
<1>1. {Overlap, CatchUp} \subseteq Int /\ Overlap <= CatchUp /\ None \notin Int
  BY AirAssumption
<1>2. CASE c = None \/ c.since < now - CatchUp
  <2>1. FreshCursor(c, now) = [since |-> now - CatchUp, until |-> now, before |-> None]
    BY <1>2 DEF FreshCursor
  <2>2. \A m \in Message : l[m] # None => l[m] \in Int
    BY DEF Listings
  <2> QED BY <1>1, <2>1, <2>2 DEF Behind
<1>3. CASE c # None /\ ~(c.since < now - CatchUp)
  <2>1. FreshCursor(c, now) = [c EXCEPT !.until = IF c.until = None THEN now ELSE c.until]
    BY <1>3 DEF FreshCursor, Cursors
  <2>2. CASE c.until # None
    <3>1. FreshCursor(c, now) = c
      BY <1>3, <2>1, <2>2 DEF Cursors
    <3> QED BY <1>3, <3>1
  <2>3. CASE c.until = None
    <3>1. FreshCursor(c, now) = [since |-> c.since, until |-> now, before |-> c.before] /\ c.before = None
      BY <1>3, <2>1, <2>3 DEF Cursors, Behind
    <3> QED BY <1>1, <1>3, <3>1 DEF Behind
  <2> QED BY <2>2, <2>3
<1> QED BY <1>2, <1>3

\* What a page is a part of.
PageHits(s, at, l) ==
  {m \in Message : /\ <<s, m>> \in Hits /\ l[m] # None
                   /\ l[m] \in at.since..at.until
                   /\ at.before # None => Id[m] < at.before}

CursorsBehind == \A s \in Search : cursor[s] # None => Behind(s, cursor[s], listed, seen, tenth)
WindowBehind == refresh.pc \in {"page", "rows"} => Behind(refresh.search, refresh.at, listed, seen, tenth)
PageTaken ==
  refresh.pc = "rows" => refresh.page = Top(PageHits(refresh.search, refresh.at, listed)) /\ refresh.rows \subseteq refresh.page

SkipInv == CursorsBehind /\ WindowBehind /\ PageTaken

LEMMA PageIsTop == \A s, at : Page(s, at) = Top(PageHits(s, at, listed))
BY DEF Page, Top, Above, PageHits

LEMMA NextBehind ==
  ASSUME NEW s, NEW at \in Windows, NEW l \in Listings, NEW sn, NEW so, NEW t \in Int,
         Behind(s, at, l, sn, t),
         NEW page, page = Top(PageHits(s, at, l)),
         so = sn \cup {<<s, m>> : m \in page}
  PROVE  Behind(s, NextWindow(at, page), l, so, t)
<1> DEFINE H == PageHits(s, at, l)
<1>1. {Overlap, CatchUp} \subseteq Int /\ Id \in [Message -> Int] /\ None \notin Int
  BY AirAssumption
<1>2. at.since \in Int /\ at.until \in Int /\ (at.before # None => at.before \in Int) /\ at.until # None
  BY <1>1 DEF Windows
<1>3. at.since <= t - Overlap /\ at.until <= t
  BY <1>2 DEF Behind
<1>4. H \in SUBSET Message /\ page \subseteq H /\ page = Top(H)
  BY DEF PageHits, Top
<1>5. ASSUME NEW m \in Message, <<s, m>> \in Hits, l[m] # None, at.since <= l[m], l[m] < at.until - Overlap
      PROVE  <<s, m>> \in sn \/ m \in H
  <2>1. l[m] \in Int /\ l[m] \in at.since..at.until
    BY <1>1, <1>2, <1>5, AirAssumption DEF Listings
  <2> QED BY <1>1, <1>2, <1>5, <2>1 DEF Behind, PageHits
<1>6. \A m \in page : <<s, m>> \in so
  OBVIOUS
<1>7. sn \subseteq so
  OBVIOUS
<1>8. CASE Cardinality(page) = PageSize
  <2>1. PICK x \in page : Least(page) = Id[x]
    <3>1. page # {} /\ page \in SUBSET Message
      BY <1>4, <1>8, FS_EmptySet, AirAssumption
    <3> QED BY <3>1, LeastIs
  <2>2. NextWindow(at, page) = [since |-> at.since, until |-> at.until, before |-> Id[x]] /\ Id[x] # None
    BY <1>1, <1>4, <1>8, <2>1 DEF NextWindow, Windows
  <2>3. ASSUME NEW m \in Message, <<s, m>> \in Hits, l[m] # None, Id[m] >= Id[x],
               at.since <= l[m], l[m] < at.until - Overlap
        PROVE  <<s, m>> \in so
    <3>1. m \in H => m \in page
      <4> HIDE DEF H
      <4> QED BY <1>4, <2>1, <2>3, PageFromTop
    <3> QED BY <1>5, <1>6, <1>7, <2>3, <3>1
  <2> HIDE DEF H
  <2> QED BY <1>2, <1>3, <1>7, <2>2, <2>3 DEF Behind
<1>9. CASE Cardinality(page) # PageSize
  <2>1. NextWindow(at, page) = [since |-> at.until - Overlap, until |-> None, before |-> None]
    BY <1>9 DEF NextWindow
  <2>2. page = H
    <3> HIDE DEF H
    <3> QED BY <1>4, <1>9, PageFull
  <2>3. ASSUME NEW m \in Message, <<s, m>> \in Hits, l[m] # None, l[m] < at.until - Overlap
        PROVE  <<s, m>> \in so \/ l[m] < t - CatchUp
    <3>1. CASE l[m] < at.since
      BY <1>7, <2>3, <3>1 DEF Behind
    <3>2. CASE ~(l[m] < at.since)
      <4>1. at.since <= l[m]
        BY <1>2, <2>3, <3>2 DEF Listings
      <4> HIDE DEF H
      <4> QED BY <1>5, <1>6, <1>7, <2>2, <2>3, <4>1
    <3> QED BY <3>1, <3>2
  <2> HIDE DEF H
  <2> QED BY <1>1, <1>2, <1>3, <2>1, <2>3 DEF Behind
<1> QED BY <1>8, <1>9

LEMMA CursorsStay ==
  ASSUME AirTypes, AirTypes', CursorsBehind, cursor' = cursor, tenth <= tenth', seen \subseteq seen',
         ListedLate(listed, listed', tenth)
  PROVE  CursorsBehind'
<1> SUFFICES ASSUME NEW s \in Search, cursor[s] # None
             PROVE  Behind(s, cursor[s], listed', seen', tenth')
  BY DEF CursorsBehind
<1>1. PICK c : c = cursor[s]
  OBVIOUS
<1>2. PICK l, k, sn, so, t, u : <<l, k, sn, so, t, u>> = <<listed, listed', seen, seen', tenth, tenth'>>
  OBVIOUS
<1>3. l \in Listings /\ k \in Listings /\ t \in Int /\ u \in Int /\ c \in Cursors
  BY <1>1, <1>2 DEF AirTypes, Listings
<1>4. Behind(s, c, l, sn, t) /\ t <= u /\ sn \subseteq so /\ ListedLate(l, k, t)
  BY <1>1, <1>2 DEF CursorsBehind
<1>5. Behind(s, c, k, so, u)
  BY <1>3, <1>4, BehindStays
<1> QED BY <1>1, <1>2, <1>5

LEMMA SameListed == ASSUME listed' = listed PROVE ListedLate(listed, listed', tenth)
BY DEF ListedLate

\* Steps that leave the searches and the pages alone.
LEMMA SkipQuiet ==
  ASSUME AirTypes, AirTypes', SkipInv,
         UNCHANGED <<cursor, tenth, seen, listed>>,
         refresh'.pc \notin {"page", "rows"}
  PROVE  SkipInv'
BY CursorsStay, SameListed DEF SkipInv, WindowBehind, PageTaken, AirTypes

LEMMA ListSkip == ASSUME AirTypes, AirTypes', SkipInv, NEW m \in Message, List(m) PROVE SkipInv'
<1>1. ListedLate(listed, listed', tenth)
  <2>1. tenth \in Int /\ Overlap \in Nat
    BY AirAssumption DEF AirTypes
  <2>2. \E late \in 0..Overlap : listed' = [listed EXCEPT ![m] = tenth - late]
    <3>1. CASE listed' = [listed EXCEPT ![m] = tenth]
      <4>1. tenth - 0 = tenth /\ 0 \in 0..Overlap
        BY <2>1
      <4> QED BY <3>1, <4>1, Zenon
    <3> QED BY <3>1, Zenon DEF List
  <2>3. PICK late \in 0..Overlap : listed' = [listed EXCEPT ![m] = tenth - late]
    BY <2>2
  <2>4. listed[m] = None /\ listed'[m] = tenth - late /\ \A n \in Message : n # m => listed'[n] = listed[n]
    BY <2>3 DEF List, AirTypes
  <2> QED BY <2>1, <2>4 DEF ListedLate
<1>2. CursorsBehind'
  BY <1>1, CursorsStay DEF List, SkipInv, AirTypes
<1>3. ASSUME refresh.pc = "page" PROVE Behind(refresh.search, refresh.at, listed', seen, tenth)
  <2>1. PICK s, at, l, k, sn, t : <<s, at, l, k, sn, t>> = <<refresh.search, refresh.at, listed, listed', seen, tenth>>
    OBVIOUS
  <2>2. at \in Cursors /\ l \in Listings /\ k \in Listings /\ t \in Int
    BY <1>3, <2>1, RunAt DEF PageRun, Windows, Cursors, Listings, AirTypes
  <2>3. Behind(s, at, l, sn, t) /\ ListedLate(l, k, t)
    BY <1>1, <1>3, <2>1 DEF SkipInv, WindowBehind
  <2>4. Behind(s, at, k, sn, t)
    BY <2>2, <2>3, BehindStays
  <2> QED BY <2>1, <2>4
<1> QED BY <1>2, <1>3 DEF List, SkipInv, WindowBehind, PageTaken

LEMMA TenthSkip == ASSUME AirTypes, AirTypes', SkipInv, Tenth PROVE SkipInv'
<1>1. CursorsBehind'
  BY SameListed, CursorsStay DEF Tenth, SkipInv, AirTypes
<1> QED BY <1>1 DEF Tenth, SkipInv, WindowBehind, PageTaken

LEMMA PickSkip == ASSUME AirTypes, AirTypes', SkipInv, NEW s \in Search, PickSearch(s) PROVE SkipInv'
<1>1. CursorsBehind'
  BY SameListed, CursorsStay DEF PickSearch, SkipInv, AirTypes
<1>2. PICK c, l, sn, t, now : <<c, l, sn, t, now>> = <<cursor[s], listed, seen, tenth, refresh.now>>
  OBVIOUS
<1>3. c \in Cursors \cup {None} /\ l \in Listings /\ t \in Int /\ now \in Int /\ now <= t
  BY <1>2, RunAt DEF PickSearch, AirTypes, Listings
<1>4. c # None => Behind(s, c, l, sn, t)
  BY <1>2 DEF SkipInv, CursorsBehind
<1>5. Behind(s, FreshCursor(c, now), l, sn, t)
  BY <1>3, <1>4, FreshBehind
<1>6. refresh'.pc = "page" /\ refresh'.search = s /\ refresh'.at = FreshCursor(c, now)
  BY <1>2 DEF PickSearch
<1>7. UNCHANGED <<listed, seen, tenth>>
  BY DEF PickSearch
<1>8. Behind(refresh'.search, refresh'.at, listed', seen', tenth')
  BY <1>2, <1>5, <1>6, <1>7
<1> QED BY <1>1, <1>6, <1>8 DEF SkipInv, WindowBehind, PageTaken

LEMMA TakeSkip == ASSUME AirTypes, AirTypes', SkipInv, TakePage PROVE SkipInv'
<1>1. CursorsBehind'
  BY SameListed, CursorsStay DEF TakePage, SkipInv, AirTypes
<1>2. /\ refresh.pc = "page" /\ refresh'.pc = "rows" /\ refresh'.search = refresh.search /\ refresh'.at = refresh.at
      /\ refresh'.page = Page(refresh.search, refresh.at) /\ refresh'.rows = refresh'.page
      /\ UNCHANGED <<listed, seen, tenth>>
  BY DEF TakePage
<1>3. PICK p : p = refresh'.page
  OBVIOUS
<1>4. p = Top(PageHits(refresh.search, refresh.at, listed))
  BY <1>2, <1>3, PageIsTop
<1>5. Behind(refresh.search, refresh.at, listed, seen, tenth)
  BY <1>2 DEF SkipInv, WindowBehind
<1> QED BY <1>1, <1>2, <1>3, <1>4, <1>5 DEF SkipInv, WindowBehind, PageTaken

LEMMA QueueRowSkip == ASSUME AirTypes, AirTypes', SkipInv, NEW m \in Message, QueueRow(m) PROVE SkipInv'
<1>1. CursorsBehind'
  BY SameListed, CursorsStay DEF QueueRow, SkipInv, AirTypes
<1>2. refresh \in RowsRun /\ UNCHANGED <<listed, seen, tenth>>
  BY RunAt DEF QueueRow
<1>3. refresh' = Off \/ \E d : refresh' = [refresh EXCEPT !.rows = @ \ {m}, !.draft = d]
  BY DEF QueueRow
<1>4. CASE refresh' = Off
  BY <1>1, <1>4 DEF SkipInv, WindowBehind, PageTaken, Off
<1>5. CASE \E d : refresh' = [refresh EXCEPT !.rows = @ \ {m}, !.draft = d]
  <2>1. /\ refresh.pc = "rows" /\ refresh'.search = refresh.search /\ refresh'.at = refresh.at
        /\ refresh'.page = refresh.page /\ refresh'.rows \subseteq refresh.rows
    BY <1>2, <1>5 DEF RowsRun
  <2>2. /\ Behind(refresh.search, refresh.at, listed, seen, tenth)
        /\ refresh.page = Top(PageHits(refresh.search, refresh.at, listed)) /\ refresh.rows \subseteq refresh.page
    BY <2>1 DEF SkipInv, WindowBehind, PageTaken
  <2>3. /\ Behind(refresh'.search, refresh'.at, listed', seen', tenth')
        /\ refresh'.page = Top(PageHits(refresh'.search, refresh'.at, listed')) /\ refresh'.rows \subseteq refresh'.page
    BY <1>2, <2>1, <2>2
  <2> QED BY <1>1, <2>3 DEF SkipInv, WindowBehind, PageTaken
<1> QED BY <1>3, <1>4, <1>5

LEMMA CommitSkip == ASSUME AirTypes, AirTypes', SkipInv, CommitPage PROVE SkipInv'
<1>1. refresh.pc = "rows" /\ refresh \in RowsRun
  BY RunAt DEF CommitPage
<1>2. PICK s, at, l, sn, so, t, page : <<s, at, l, sn, so, t, page>>
        = <<refresh.search, refresh.at, listed, seen, seen', tenth, refresh.page>>
  OBVIOUS
<1>3. /\ s \in Search /\ at \in Windows /\ l \in Listings /\ t \in Int
      /\ page = Top(PageHits(s, at, l)) /\ so = sn \cup {<<s, m>> : m \in page}
      /\ Behind(s, at, l, sn, t)
  BY <1>1, <1>2 DEF RowsRun, Listings, AirTypes, CommitPage, SkipInv, WindowBehind, PageTaken
<1>4. PICK n : n = NextWindow(at, page)
  OBVIOUS
<1>5. Behind(s, n, l, so, t)
  BY <1>3, <1>4, NextBehind
<1>6. cursor' = [cursor EXCEPT ![s] = n] /\ UNCHANGED <<listed, tenth>>
  BY <1>2, <1>4 DEF CommitPage
<1>7. CursorsBehind'
  <2> SUFFICES ASSUME NEW r \in Search, cursor'[r] # None
               PROVE  Behind(r, cursor'[r], listed', seen', tenth')
    BY DEF CursorsBehind
  <2>1. CASE r = s
    BY <1>2, <1>3, <1>5, <1>6, <2>1 DEF AirTypes
  <2>2. CASE r # s
    <3>1. PICK c : c = cursor[r]
      OBVIOUS
    <3>2. cursor'[r] = c /\ c \in Cursors
      BY <1>6, <2>2, <3>1 DEF AirTypes
    <3>3. Behind(r, c, l, sn, t)
      BY <1>2, <1>6, <2>2, <3>1, <3>2, AirAssumption DEF SkipInv, CursorsBehind
    <3>4. sn \subseteq so /\ ListedLate(l, l, t)
      BY <1>3 DEF ListedLate
    <3>5. Behind(r, c, l, so, t)
      BY <1>3, <3>2, <3>3, <3>4, BehindStays
    <3> QED BY <1>2, <1>6, <3>2, <3>5
  <2> QED BY <2>1, <2>2
<1>8. refresh'.pc # "rows"
  BY DEF CommitPage, Searching
<1>9. refresh'.pc = "page" => refresh'.search = s /\ refresh'.at = n
  BY <1>2, <1>4 DEF CommitPage, Searching
<1>10. WindowBehind'
  BY <1>2, <1>5, <1>6, <1>8, <1>9 DEF WindowBehind
<1> QED BY <1>7, <1>8, <1>10 DEF SkipInv, PageTaken

LEMMA LoseSkip == ASSUME AirTypes, AirTypes', SkipInv, LosePage PROVE SkipInv'
<1>1. refresh'.pc = "search"
  BY DEF LosePage, Searching
<1> QED BY <1>1, SkipQuiet DEF LosePage

LEMMA LeaveSkip == ASSUME AirTypes, AirTypes', SkipInv, LeaveTracked PROVE SkipInv'
<1>1. refresh'.pc = "search"
  BY RunAt DEF LeaveTracked, SearchRun
<1> QED BY <1>1, SkipQuiet DEF LeaveTracked

LEMMA RestSkip ==
  ASSUME AirTypes, AirTypes', SkipInv,
         \/ StartRefresh \/ EndSearch \/ (\E m \in Message : Select(m)) \/ Ask
         \/ RecordVerdict \/ RecordHttpFailure \/ EndRefresh
  PROVE  SkipInv'
<1>1. UNCHANGED <<cursor, tenth, seen, listed>>
  BY DEF StartRefresh, EndSearch, Select, Ask, RecordVerdict, RecordHttpFailure, EndRefresh
<1>2. refresh'.pc \notin {"page", "rows"}
  <2>1. CASE StartRefresh \/ EndSearch \/ EndRefresh
    BY <2>1 DEF StartRefresh, EndSearch, EndRefresh, Off
  <2>2. CASE \E m \in Message : Select(m)
    <3>1. refresh \in PickRun
      BY <2>2, RunAt DEF Select
    <3>2. PICK m \in Message : Select(m)
      BY <2>2
    <3>3. \/ refresh' = Off \/ refresh'.pc = "ask"
          \/ refresh' = [refresh EXCEPT !.todo = @ \ {m}, !.urgentTurn = ~@]
      <4>1. CASE Known(m)
        BY <3>2, <4>1, Zenon DEF Select
      <4>2. CASE ~Known(m) /\ ~Claimable(m)
        BY <3>2, <4>2, Zenon DEF Select
      <4>3. CASE ~Known(m) /\ Claimable(m)
        <5>1. refresh' = [pc |-> "ask", now |-> refresh.now, todo |-> [refresh EXCEPT !.todo = @ \ {m}, !.urgentTurn = ~@].todo,
                          urgentTurn |-> [refresh EXCEPT !.todo = @ \ {m}, !.urgentTurn = ~@].urgentTurn, message |-> m]
          BY <3>2, <4>3, Zenon DEF Select
        <5> QED BY <5>1
      <4> QED BY <4>1, <4>2, <4>3
    <3>4. refresh' = [refresh EXCEPT !.todo = @ \ {m}, !.urgentTurn = ~@] => refresh'.pc = "select"
      BY <3>1 DEF PickRun
    <3>5. refresh' = Off => refresh'.pc = "off"
      BY DEF Off
    <3> QED BY <3>3, <3>4, <3>5
  <2>3. CASE Ask
    BY <2>3, RunAt DEF Ask, AskRun
  <2>4. CASE RecordVerdict \/ RecordHttpFailure
    <3>1. refresh' = Off \/ refresh' = GoOn(refresh)
      BY <2>4 DEF RecordVerdict, RecordHttpFailure
    <3> QED BY <3>1 DEF GoOn, Off
  <2> QED BY <2>1, <2>2, <2>3, <2>4
<1> QED BY <1>1, <1>2, SkipQuiet

LEMMA InitSkip == AirInit => SkipInv
BY DEF AirInit, SkipInv, CursorsBehind, WindowBehind, PageTaken, Off

-----------------------------------------------------------------------------
(* What was asked about. *)

\* All the answers so far were that the AI is too busy.
Busy(as) == \A i \in 1..Len(as) : as[i] = "transient"
Waiting(q) == q # None /\ q.status = "pending"

\* The rows of a message fit together: q that of the queue, a that of the attempts, l when
\* it was listed, as the answers of the AI.
Fits(m, q, a, l, as) ==
  /\ q # None => l # None /\ q.received = l - Age[m]
  /\ a # None => q # None /\ a.received = l - Age[m]
  /\ Waiting(q) => Busy(as)

\* What was asked about is remembered until it is too old to be queued again; r is when the
\* timer last ran.
Asked(m, a, l, as, r) ==
  /\ Len(as) <= MostTries
  /\ \A i \in 1..(Len(as) - 1) : as[i] = "transient"
  /\ as # <<>> =>
       /\ l # None
       /\ l - Age[m] < r - Week \/ (a # None /\ Len(as) <= a.tries)

RowsFit ==
  \A m \in Message : /\ Fits(m, queue[m], attempt[m], listed[m], asks[m])
                     /\ Asked(m, attempt[m], listed[m], asks[m], lastRun)
DraftFits ==
  refresh.pc = "rows" =>
    \A m \in Message : /\ Fits(m, refresh.draft.queue[m], attempt[m], listed[m], asks[m])
                       /\ queue[m] # None => refresh.draft.queue[m] = queue[m]

\* A message that is claimed and not yet answered, and how it may be answered.
Claimed(q, a, as, pc) ==
  /\ q # None /\ a # None /\ ~Waiting(q)
  /\ pc = "ask" => Busy(as) /\ Len(as) < a.tries
  /\ pc = "transient" => Busy(as)
InHand ==
  refresh.pc \in {"ask"} \cup Reply =>
    Claimed(queue[refresh.message], attempt[refresh.message], asks[refresh.message], refresh.pc)
TodoQueued == refresh.pc \in {"select", "ask"} \cup Reply => \A m \in refresh.todo : queue[m] # None

AskInv == RowsFit /\ DraftFits /\ InHand /\ TodoQueued

AirInv == AirTypes /\ SkipInv /\ AskInv

LEMMA InitAsk == AirInit => AskInv
BY AirAssumption DEF AirInit, AskInv, RowsFit, DraftFits, InHand, TodoQueued, Fits, Asked, Waiting, Busy, Off, Reply

\* Steps of the process that write no row.
LEMMA AskQuiet ==
  ASSUME AirTypes, AskInv, UNCHANGED <<listed, queue, attempt, lastRun, asks>>,
         refresh'.pc \notin {"rows", "select", "ask"} \cup Reply
  PROVE  AskInv'
BY DEF AskInv, RowsFit, DraftFits, InHand, TodoQueued

LEMMA ListAsk == ASSUME AirTypes, AskInv, NEW m \in Message, List(m) PROVE AskInv'
<1>1. refresh' = refresh /\ refresh.pc \notin {"rows", "select", "ask"} \cup Reply
  BY DEF List, Reply
<1>2. ASSUME NEW n \in Message
      PROVE  /\ Fits(n, queue[n], attempt[n], listed'[n], asks[n])
             /\ Asked(n, attempt[n], listed'[n], asks[n], lastRun)
  <2>1. /\ Fits(n, queue[n], attempt[n], listed[n], asks[n])
        /\ Asked(n, attempt[n], listed[n], asks[n], lastRun)
    BY DEF AskInv, RowsFit
  <2>2. CASE n # m
    BY <2>1, <2>2 DEF List, AirTypes
  <2>3. CASE n = m
    <3>1. listed[n] = None
      BY <2>3 DEF List
    <3>2. queue[n] = None /\ attempt[n] = None /\ asks[n] = <<>>
      BY <2>1, <3>1 DEF Fits, Asked
    <3> QED BY <3>2, AirAssumption DEF Fits, Asked, Waiting, Busy
  <2> QED BY <2>2, <2>3
<1>3. UNCHANGED <<queue, attempt, lastRun, asks>>
  BY DEF List
<1> QED BY <1>1, <1>2, <1>3 DEF AskInv, RowsFit, DraftFits, InHand, TodoQueued

LEMMA TenthAsk == ASSUME AirTypes, AskInv, Tenth PROVE AskInv'
BY DEF Tenth, AskInv, RowsFit, DraftFits, InHand, TodoQueued

\* The rows of the week stay, together.
Remains(x, t) == IF x # None /\ x.received >= t - Week THEN x ELSE None

LEMMA KeptFits ==
  ASSUME NEW m \in Message, NEW q \in CandidateRow \cup {None}, NEW a \in TryRow \cup {None}, NEW l \in Int \cup {None},
         NEW as \in Seq(Reply), NEW r \in Int, NEW t \in Int, r <= t, Fits(m, q, a, l, as), Asked(m, a, l, as, r)
  PROVE  Fits(m, Remains(q, t), Remains(a, t), l, as) /\ Asked(m, Remains(a, t), l, as, t)
<1> DEFINE q2 == Remains(q, t)
           a2 == Remains(a, t)
<1>0. /\ q2 = IF q # None /\ q.received >= t - Week THEN q ELSE None
      /\ a2 = IF a # None /\ a.received >= t - Week THEN a ELSE None
  BY DEF Remains
<1> HIDE DEF q2, a2
<1>1. Week \in Int /\ Age[m] \in Int /\ None \notin Int
  BY AirAssumption
<1>2. q # None => l \in Int /\ q.received = l - Age[m]
  BY DEF Fits
<1>3. a # None => q # None /\ a.received = l - Age[m] /\ a.received \in Int
  BY DEF Fits, TryRow
<1>4. Fits(m, q2, a2, l, as)
  BY <1>0, <1>1, <1>2, <1>3 DEF Fits, Waiting
<1>5. ASSUME as # <<>> PROVE l # None /\ (l - Age[m] < t - Week \/ (a2 # None /\ Len(as) <= a2.tries))
  <2>1. l \in Int /\ (l - Age[m] < r - Week \/ (a # None /\ Len(as) <= a.tries))
    BY <1>5 DEF Asked
  <2>2. CASE l - Age[m] < r - Week
    <3>1. PICK g \in Int, w \in Int : g = Age[m] /\ w = Week
      BY <1>1
    <3>2. l - g < t - w
      BY <2>1, <2>2, <3>1
    <3> QED BY <1>1, <2>1, <3>1, <3>2
  <2>3. CASE a # None /\ Len(as) <= a.tries
    <3>1. PICK g \in Int, w \in Int : g = Age[m] /\ w = Week
      BY <1>1
    <3>2. a2 = a \/ l - g < t - w
      BY <1>0, <1>3, <2>1, <2>3, <3>1
    <3> QED BY <1>1, <2>1, <2>3, <3>1, <3>2
  <2> QED BY <2>1, <2>2, <2>3
<1>6. Asked(m, a2, l, as, t)
  BY <1>5 DEF Asked
<1> QED BY <1>4, <1>6 DEF q2, a2

LEMMA StartAsk == ASSUME AirTypes, AskInv, StartRefresh PROVE AskInv'
<1>1. refresh'.pc = "search"
  BY DEF StartRefresh
<1>2. ASSUME NEW m \in Message
      PROVE  /\ Fits(m, queue'[m], attempt'[m], listed'[m], asks'[m])
             /\ Asked(m, attempt'[m], listed'[m], asks'[m], lastRun')
  <2>1. /\ Fits(m, queue[m], attempt[m], listed[m], asks[m])
        /\ Asked(m, attempt[m], listed[m], asks[m], lastRun)
    BY DEF AskInv, RowsFit
  <2>2. PICK q, a, l, as, r, t : <<q, a, l, as, r, t>> = <<queue[m], attempt[m], listed[m], asks[m], lastRun, tenth>>
    OBVIOUS
  <2>3. /\ q \in CandidateRow \cup {None} /\ a \in TryRow \cup {None} /\ l \in Int \cup {None}
        /\ as \in Seq(Reply) /\ r \in Int /\ t \in Int /\ r <= t
    BY <2>2 DEF AirTypes, QueueTable
  <2>4. /\ queue'[m] = Remains(q, t) /\ attempt'[m] = Remains(a, t)
        /\ listed'[m] = l /\ asks'[m] = as /\ lastRun' = t
    BY <2>2 DEF StartRefresh, Remains
  <2>5. Fits(m, q, a, l, as) /\ Asked(m, a, l, as, r)
    BY <2>1, <2>2
  <2>6. Fits(m, Remains(q, t), Remains(a, t), l, as) /\ Asked(m, Remains(a, t), l, as, t)
    BY <2>3, <2>5, KeptFits
  <2> QED BY <2>4, <2>6
<1> QED BY <1>1, <1>2 DEF AskInv, RowsFit, DraftFits, InHand, TodoQueued, Reply

LEMMA SearchAsk ==
  ASSUME AirTypes, AskInv, (\E s \in Search : PickSearch(s)) \/ LeaveTracked \/ LosePage \/ EndRefresh
  PROVE  AskInv'
<1>1. UNCHANGED <<listed, queue, attempt, lastRun, asks>>
  BY DEF PickSearch, LeaveTracked, LosePage, EndRefresh
<1>2. refresh'.pc \in {"search", "page", "off"}
  <2>1. CASE \E s \in Search : PickSearch(s)
    BY <2>1 DEF PickSearch
  <2>2. CASE LosePage
    BY <2>2 DEF LosePage, Searching
  <2>3. CASE EndRefresh
    BY <2>3 DEF EndRefresh, Off
  <2>4. CASE LeaveTracked
    BY <2>4, RunAt DEF LeaveTracked, SearchRun
  <2> QED BY <2>1, <2>2, <2>3, <2>4
<1> QED BY <1>1, <1>2, AskQuiet DEF Reply

LEMMA TakeAsk == ASSUME AirTypes, AskInv, TakePage PROVE AskInv'
<1>1. refresh'.pc = "rows" /\ refresh'.draft.queue = queue
  BY DEF TakePage
<1>2. UNCHANGED <<listed, queue, attempt, lastRun, asks>>
  BY DEF TakePage
<1> QED BY <1>1, <1>2 DEF AskInv, RowsFit, DraftFits, InHand, TodoQueued, Reply

\* A message that is queued was never asked about.
LEMMA NewFits ==
  ASSUME NEW m \in Message, NEW a, NEW l \in Int, NEW as \in Seq(Reply), NEW r \in Int,
         Fits(m, None, a, l, as), Asked(m, a, l, as, r), ~(l - Age[m] < r - News)
  PROVE  Fits(m, [received |-> l - Age[m], status |-> "pending"], a, l, as)
<1>1. {Week, News} \subseteq Int /\ News <= Week /\ Age[m] \in Int /\ None \notin Int
  BY AirAssumption
<1>2. a = None
  BY DEF Fits
<1>3. as = <<>>
  <2> SUFFICES ASSUME as # <<>> PROVE FALSE
    OBVIOUS
  <2>1. l - Age[m] < r - Week
    BY <1>2 DEF Asked
  <2> QED BY <1>1, <2>1
<1> QED BY <1>1, <1>2, <1>3 DEF Fits, Busy

LEMMA QueueRowAsk ==
  ASSUME AirTypes, AskInv, NEW m \in Message, QueueRow(m), listed[m] # None
  PROVE  AskInv'
<1>1. refresh.pc = "rows" /\ refresh \in RowsRun /\ refresh.now = lastRun /\ refresh.draft \in Draft
  BY RunAt DEF QueueRow, RowsRun
<1>2. UNCHANGED <<listed, queue, attempt, lastRun, asks>>
  BY DEF QueueRow
<1>3. CASE refresh' = Off
  BY <1>2, <1>3, AskQuiet DEF Off, Reply
<1>4. ASSUME NEW d, refresh' = [refresh EXCEPT !.rows = @ \ {m}, !.draft = d], d.queue = refresh.draft.queue
      PROVE  AskInv'
  <2>1. refresh'.pc = "rows" /\ refresh'.draft.queue = refresh.draft.queue
    BY <1>1, <1>4 DEF RowsRun
  <2> QED BY <1>1, <1>2, <2>1 DEF AskInv, RowsFit, DraftFits, InHand, TodoQueued, Reply
<1>5. ASSUME ~Ignored(m, refresh.now), ~Redundant(refresh.draft, m, refresh.search),
             refresh' = [refresh EXCEPT !.rows = @ \ {m}, !.draft = Queued(refresh.draft, m)]
      PROVE  AskInv'
  <2>1. PICK l, a, as, r : <<l, a, as, r>> = <<listed[m], attempt[m], asks[m], lastRun>>
    OBVIOUS
  <2>2. l \in Int /\ as \in Seq(Reply) /\ r \in Int
    BY <2>1 DEF AirTypes
  <2>3. refresh.draft.queue[m] = None /\ queue[m] = None
    BY <1>1, <1>5 DEF Redundant, AskInv, DraftFits
  <2>4. Fits(m, None, a, l, as) /\ Asked(m, a, l, as, r)
    BY <2>1, <2>3 DEF AskInv, RowsFit
  <2>5. ~(l - Age[m] < r - News)
    BY <1>1, <1>5, <2>1 DEF Ignored, Receipt
  <2>6. Fits(m, [received |-> l - Age[m], status |-> "pending"], a, l, as)
    BY <2>2, <2>4, <2>5, NewFits
  <2>7. /\ refresh'.pc = "rows"
        /\ refresh'.draft.queue = [refresh.draft.queue EXCEPT ![m] = [received |-> l - Age[m], status |-> "pending"]]
    BY <1>1, <1>5, <2>1 DEF RowsRun, Draft, Queued, Receipt
  <2>8. ASSUME NEW n \in Message
        PROVE  /\ Fits(n, refresh'.draft.queue[n], attempt[n], listed[n], asks[n])
               /\ queue[n] # None => refresh'.draft.queue[n] = queue[n]
    <3>1. CASE n = m
      BY <1>1, <2>1, <2>3, <2>6, <2>7, <3>1 DEF Draft, QueueTable
    <3>2. CASE n # m
      BY <1>1, <2>7, <3>2 DEF AskInv, DraftFits, Draft, QueueTable
    <3> QED BY <3>1, <3>2
  <2> QED BY <1>2, <2>7, <2>8 DEF AskInv, RowsFit, DraftFits, InHand, TodoQueued, Reply
<1>6. [refresh.draft EXCEPT !.review = @ \cup {m}].queue = refresh.draft.queue
  BY <1>1 DEF Draft
<1> QED BY <1>3, <1>4, <1>5, <1>6 DEF QueueRow

LEMMA CommitAsk == ASSUME AirTypes, AskInv, CommitPage PROVE AskInv'
<1>1. refresh'.pc \in {"search", "page"}
  BY DEF CommitPage, Searching
<1>2. refresh.pc = "rows" /\ queue' = refresh.draft.queue /\ UNCHANGED <<listed, attempt, lastRun, asks>>
  BY DEF CommitPage
<1> QED BY <1>1, <1>2 DEF AskInv, RowsFit, DraftFits, InHand, TodoQueued, Reply

\* A row with another status, of a message that does not wait or was not yet answered.
LEMMA StatusFits ==
  ASSUME NEW m \in Message, NEW q \in CandidateRow, NEW a, NEW l, NEW as, Fits(m, q, a, l, as),
         NEW st \in RowStatus, st = "pending" => Busy(as)
  PROVE  Fits(m, [q EXCEPT !.status = st], a, l, as)
<1>1. PICK x : x = [q EXCEPT !.status = st]
  OBVIOUS
<1>2. x.status = st /\ x.received = q.received /\ x \in CandidateRow
  BY <1>1 DEF CandidateRow, RowStatus
<1>3. q # None /\ x # None
  BY <1>2, AirAssumption
<1>4. Fits(m, x, a, l, as)
  BY <1>2, <1>3 DEF Fits, Waiting
<1> QED BY <1>1, <1>4

\* One row gets another status.
LEMMA StatusRows ==
  ASSUME AirTypes, RowsFit, NEW m \in Message, queue[m] # None, NEW st \in RowStatus, st = "pending" => Busy(asks[m]),
         queue' = [queue EXCEPT ![m].status = st], UNCHANGED <<listed, attempt, lastRun, asks>>
  PROVE  /\ RowsFit'
         /\ \A n \in Message : queue[n] # None => queue'[n] # None
<1>1. queue[m] \in CandidateRow
  BY DEF AirTypes, QueueTable
<1>2. PICK q, a, l, as : <<q, a, l, as>> = <<queue[m], attempt[m], listed[m], asks[m]>>
  OBVIOUS
<1>3. Fits(m, [q EXCEPT !.status = st], a, l, as)
  BY <1>1, <1>2, StatusFits DEF RowsFit
<1>4. queue'[m] = [q EXCEPT !.status = st] /\ \A n \in Message : n # m => queue'[n] = queue[n]
  BY <1>2 DEF AirTypes, QueueTable
<1>5. ASSUME NEW n \in Message PROVE Fits(n, queue'[n], attempt[n], listed[n], asks[n])
  <2>1. CASE n = m
    BY <1>2, <1>3, <1>4, <2>1
  <2>2. CASE n # m
    BY <1>4, <2>2 DEF RowsFit
  <2> QED BY <2>1, <2>2
<1>6. queue'[m] # None
  <2>1. [q EXCEPT !.status = st] \in CandidateRow
    BY <1>1, <1>2 DEF CandidateRow, RowStatus
  <2> QED BY <1>4, <2>1, AirAssumption
<1> QED BY <1>4, <1>5, <1>6 DEF RowsFit

LEMMA EndSearchAsk == ASSUME AirTypes, AskInv, EndSearch PROVE AskInv'
<1>1. refresh'.pc = "select" /\ UNCHANGED <<listed, attempt, lastRun, asks>>
  BY DEF EndSearch
<1>2. ASSUME NEW m \in Message
      PROVE  /\ Fits(m, queue'[m], attempt[m], listed[m], asks[m])
             /\ queue[m] # None => queue'[m] # None
  <2>1. CASE queue'[m] = queue[m]
    BY <2>1 DEF AskInv, RowsFit
  <2>2. CASE queue'[m] # queue[m]
    <3>1. queue[m] # None /\ queue'[m] = [queue[m] EXCEPT !.status = "expired"]
      BY <2>2 DEF EndSearch
    <3>2. PICK q, a, l, as : <<q, a, l, as>> = <<queue[m], attempt[m], listed[m], asks[m]>>
      OBVIOUS
    <3>3. q \in CandidateRow /\ Fits(m, q, a, l, as)
      BY <3>1, <3>2 DEF AirTypes, QueueTable, AskInv, RowsFit
    <3>4. "expired" \in RowStatus /\ "expired" # "pending"
      BY DEF RowStatus
    <3>5. Fits(m, [q EXCEPT !.status = "expired"], a, l, as)
      BY <3>3, <3>4, StatusFits
    <3>6. [q EXCEPT !.status = "expired"] \in CandidateRow
      BY <3>3 DEF CandidateRow
    <3> QED BY <3>1, <3>2, <3>5, <3>6, AirAssumption
  <2> QED BY <2>1, <2>2
<1>3. \A m \in refresh'.todo : m \in Message /\ queue[m] # None
  BY DEF EndSearch, Due
<1>4. RowsFit'
  BY <1>1, <1>2 DEF AskInv, RowsFit
<1>5. TodoQueued'
  BY <1>2, <1>3 DEF TodoQueued
<1> QED BY <1>1, <1>4, <1>5 DEF AskInv, DraftFits, InHand, Reply

LEMMA LenNat == ASSUME NEW S, NEW s \in Seq(S) PROVE Len(s) \in Nat
OBVIOUS

LEMMA ClaimFits ==
  ASSUME NEW m \in Message, NEW q \in CandidateRow, q.status = "pending", NEW a \in TryRow \cup {None}, NEW l,
         NEW as, Len(as) \in Nat, as = <<>> => Len(as) = 0, NEW r \in Int, NEW t \in Int, r <= t, Fits(m, q, a, l, as), Asked(m, a, l, as, r),
         q.received >= t - News, NEW b \in TryRow, b.received = q.received,
         b.tries = IF a = None THEN 1 ELSE a.tries + 1
  PROVE  /\ Fits(m, [q EXCEPT !.status = "attempted"], b, l, as) /\ Asked(m, b, l, as, r)
         /\ Claimed([q EXCEPT !.status = "attempted"], b, as, "ask")
<1>1. {Week, News} \subseteq Int /\ News <= Week /\ Age[m] \in Int /\ MostTries \in Int
  BY AirAssumption
<1>2. q # None /\ b # None
  BY AirAssumption
<1>3. PICK x : x = [q EXCEPT !.status = "attempted"]
  OBVIOUS
<1>4. x \in CandidateRow /\ x.status = "attempted" /\ x.received = q.received
  BY <1>3 DEF CandidateRow
<1>5. x # None
  BY <1>4, AirAssumption
<1>6. l # None /\ q.received = l - Age[m] /\ q.received \in Int /\ Busy(as)
  BY <1>2 DEF Fits, Waiting, CandidateRow
<1>a. Len(as) \in Nat
  OBVIOUS
<1>b. b.tries \in Int /\ (a # None => a.tries \in Int)
  BY DEF TryRow
<1>c. as = <<>> => Len(as) = 0
  OBVIOUS
<1>d. 0 < b.tries /\ b.tries <= MostTries
  BY DEF TryRow
<1>e. b.tries = IF a = None THEN 1 ELSE a.tries + 1
  OBVIOUS
<1>f. PICK k \in Nat, h \in Int : k = Len(as) /\ h = b.tries
  BY <1>a, <1>b, Zenon
<1>7. k < h
  <2>1. CASE as = <<>>
    BY <1>c, <1>d, <1>f, <2>1
  <2>2. CASE as # <<>>
    <3>1. ~(q.received < r - Week)
      BY <1>1, <1>6
    <3>2. a # None /\ Len(as) <= a.tries
      BY <1>6, <2>2, <3>1 DEF Asked
    <3>3. PICK g \in Int : g = a.tries
      BY <1>b, <3>2
    <3>4. h = g + 1 /\ k <= g
      BY <1>e, <1>f, <3>2, <3>3
    <3> QED BY <3>4
  <2> QED BY <2>1, <2>2
<1>8. Fits(m, x, b, l, as)
  BY <1>2, <1>4, <1>5, <1>6 DEF Fits, Waiting
<1>9. Asked(m, b, l, as, r)
  <2>1. Len(as) <= b.tries
    <3>1. k <= h
      BY <1>7
    <3> QED BY <1>f, <3>1
  <2>2. Len(as) <= MostTries
    <3>1. PICK g \in Int : g = MostTries
      BY <1>1
    <3>2. h <= g
      BY <1>d, <1>f, <3>1
    <3>3. k <= g
      BY <1>7, <3>2
    <3> QED BY <1>f, <3>1, <3>3
  <2>3. \A i \in 1..(Len(as) - 1) : as[i] = "transient"
    <3>1. \A i \in 1..(k - 1) : i \in 1..k
      OBVIOUS
    <3> QED BY <1>6, <1>f, <3>1 DEF Busy
  <2> QED BY <1>2, <1>6, <2>1, <2>2, <2>3 DEF Asked
<1>10. Claimed(x, b, as, "ask")
  <2>1. Len(as) < b.tries
    BY <1>7, <1>f
  <2> QED BY <1>2, <1>4, <1>5, <1>6, <2>1 DEF Claimed, Waiting
<1> QED BY <1>3, <1>8, <1>9, <1>10

LEMMA SelectAsk == ASSUME AirTypes, AskInv, NEW m \in Message, Select(m), queue[m] # None PROVE AskInv'
<1>1. refresh \in PickRun /\ refresh.pc = "select" /\ m \in refresh.todo
  BY RunAt DEF Select, NextCandidates
<1>2. UNCHANGED <<listed, lastRun, asks, tenth>>
  BY DEF Select
<1>3. CASE Known(m)
  <2>1. /\ queue' = [queue EXCEPT ![m].status = "duplicate"] /\ attempt' = attempt
        /\ refresh' = [refresh EXCEPT !.todo = @ \ {m}, !.urgentTurn = ~@]
    BY <1>3, Zenon DEF Select
  <2>2. refresh'.pc = "select" /\ refresh'.todo \subseteq refresh.todo /\ refresh.todo \subseteq Message
    BY <1>1, <2>1 DEF PickRun
  <2>3. "duplicate" \in RowStatus /\ "duplicate" # "pending"
    BY DEF RowStatus
  <2>4. RowsFit' /\ \A n \in Message : queue[n] # None => queue'[n] # None
    BY <1>2, <2>1, <2>3, StatusRows DEF AskInv
  <2> QED BY <1>1, <2>2, <2>4 DEF AskInv, DraftFits, InHand, TodoQueued, Reply
<1>4. CASE ~Known(m) /\ ~Claimable(m)
  <2>1. refresh' = Off /\ UNCHANGED <<queue, attempt>>
    BY <1>4 DEF Select
  <2> QED BY <1>2, <2>1, AskQuiet DEF Off, Reply
<1>5. CASE ~Known(m) /\ Claimable(m)
  <2> DEFINE b == [received |-> queue[m].received, tries |-> IF attempt[m] = None THEN 1 ELSE attempt[m].tries + 1, next |-> 0]
  <2>1. /\ queue' = [queue EXCEPT ![m].status = "attempted"] /\ attempt' = [attempt EXCEPT ![m] = b]
        /\ refresh'.pc = "ask" /\ refresh'.todo \subseteq refresh.todo /\ refresh'.message = m
    <3>1. /\ queue' = [queue EXCEPT ![m].status = "attempted"]
          /\ attempt' = [attempt EXCEPT ![m] = [received |-> queue[m].received, tries |-> IF @ = None THEN 1 ELSE @.tries + 1, next |-> 0]]
          /\ refresh' = [pc |-> "ask", now |-> refresh.now, todo |-> [refresh EXCEPT !.todo = @ \ {m}, !.urgentTurn = ~@].todo,
                          urgentTurn |-> [refresh EXCEPT !.todo = @ \ {m}, !.urgentTurn = ~@].urgentTurn, message |-> m]
      BY <1>5, Zenon DEF Select
    <3>2. [refresh EXCEPT !.todo = @ \ {m}, !.urgentTurn = ~@].todo \subseteq refresh.todo
      BY <1>1 DEF PickRun
    <3> QED BY <3>1, <3>2 DEF AirTypes
  <2>2. Due(m) /\ queue[m].status = "pending" /\ queue[m].received >= tenth - News
    BY <1>5 DEF Claimable, Due
  <2>3. queue[m] \in CandidateRow /\ attempt[m] \in TryRow \cup {None} /\ asks[m] \in Seq(Reply)
    BY DEF AirTypes, QueueTable
  <2>4. b \in TryRow
    <3>1. queue[m].received \in Int
      BY <2>3 DEF CandidateRow
    <3>2. attempt[m] # None => attempt[m].tries \in 1..MostTries /\ attempt[m].tries < MostTries
      BY <2>2, <2>3 DEF Due, TryRow
    <3> QED BY <3>1, <3>2, AirAssumption DEF TryRow
  <2>5. PICK c, q, a, l, as, r, t : <<c, q, a, l, as, r, t>> = <<b, queue[m], attempt[m], listed[m], asks[m], lastRun, tenth>>
    OBVIOUS
  <2>6. c.received = q.received /\ c.tries = (IF a = None THEN 1 ELSE a.tries + 1)
    BY <2>5
  <2> HIDE DEF b
  <2>7. /\ q \in CandidateRow /\ q.status = "pending" /\ a \in TryRow \cup {None} /\ c \in TryRow
        /\ r \in Int /\ t \in Int /\ r <= t /\ q.received >= t - News
    BY <2>2, <2>3, <2>4, <2>5 DEF AirTypes
  <2>8. Len(as) \in Nat /\ (as = <<>> => Len(as) = 0)
    BY <2>3, <2>5, LenNat
  <2>9. Fits(m, q, a, l, as) /\ Asked(m, a, l, as, r)
    BY <2>5 DEF AskInv, RowsFit
  <2>10. /\ Fits(m, [q EXCEPT !.status = "attempted"], c, l, as) /\ Asked(m, c, l, as, r)
         /\ Claimed([q EXCEPT !.status = "attempted"], c, as, "ask")
    BY <2>6, <2>7, <2>8, <2>9, ClaimFits
  <2>11. /\ queue'[m] = [q EXCEPT !.status = "attempted"] /\ attempt'[m] = c
         /\ \A n \in Message : n # m => queue'[n] = queue[n] /\ attempt'[n] = attempt[n]
    BY <2>1, <2>5 DEF AirTypes, QueueTable
  <2>12. RowsFit'
    <3> SUFFICES ASSUME NEW n \in Message
                 PROVE  Fits(n, queue'[n], attempt'[n], listed[n], asks[n]) /\ Asked(n, attempt'[n], listed[n], asks[n], lastRun)
      BY <1>2 DEF RowsFit
    <3>1. CASE n = m
      BY <2>5, <2>10, <2>11, <3>1
    <3>2. CASE n # m
      BY <2>11, <3>2 DEF AskInv, RowsFit
    <3> QED BY <3>1, <3>2
  <2>13. InHand'
    BY <1>2, <2>1, <2>5, <2>10, <2>11 DEF InHand
  <2>14. TodoQueued'
    <3> SUFFICES ASSUME NEW n \in refresh'.todo PROVE queue'[n] # None
      BY DEF TodoQueued
    <3>1. n \in Message /\ queue[n] # None
      BY <1>1, <2>1 DEF PickRun, AskInv, TodoQueued
    <3>2. CASE n = m
      BY <2>10, <2>11, <3>2 DEF Claimed
    <3>3. CASE n # m
      BY <2>11, <3>1, <3>3
    <3> QED BY <3>2, <3>3
  <2> QED BY <2>1, <2>12, <2>13, <2>14 DEF AskInv, DraftFits
<1> QED BY <1>3, <1>4, <1>5

LEMMA AppendIs ==
  ASSUME NEW S, NEW s \in Seq(S), NEW e \in S
  PROVE  /\ Len(Append(s, e)) = Len(s) + 1
         /\ \A i \in 1..Len(s) : Append(s, e)[i] = s[i]
         /\ Append(s, e)[Len(s) + 1] = e
OBVIOUS

LEMMA AnswerFits ==
  ASSUME NEW m \in Message, NEW q, NEW a \in TryRow \cup {None}, NEW l, NEW as \in Seq(Reply), NEW r, NEW answer \in Reply,
         Fits(m, q, a, l, as), Asked(m, a, l, as, r), Claimed(q, a, as, "ask")
  PROVE  /\ Fits(m, q, a, l, Append(as, answer)) /\ Asked(m, a, l, Append(as, answer), r)
         /\ Claimed(q, a, Append(as, answer), answer)
<1>1. PICK x : x = Append(as, answer)
  OBVIOUS
<1>2. Len(x) = Len(as) + 1 /\ (\A i \in 1..Len(as) : x[i] = as[i]) /\ x[Len(as) + 1] = answer
  <2>1. /\ Len(Append(as, answer)) = Len(as) + 1
        /\ \A i \in 1..Len(as) : Append(as, answer)[i] = as[i]
        /\ Append(as, answer)[Len(as) + 1] = answer
    BY AppendIs, Zenon
  <2> QED BY <1>1, <2>1, Zenon
<1>3. PICK k \in Nat : k = Len(as)
  BY LenNat
<1>4. q # None /\ a # None /\ ~Waiting(q) /\ Busy(as) /\ k < a.tries
  BY <1>3 DEF Claimed
<1>5. a.tries \in Int /\ a.tries <= MostTries /\ MostTries \in Int
  BY <1>4, AirAssumption DEF TryRow
<1>6. Len(x) = k + 1 /\ k + 1 <= a.tries /\ k + 1 <= MostTries
  <2>1. PICK g \in Int, h \in Int : g = a.tries /\ h = MostTries
    BY <1>5
  <2>2. k < g /\ g <= h
    BY <1>4, <1>5, <2>1
  <2>3. k + 1 <= g /\ k + 1 <= h
    BY <2>2
  <2>4. Len(x) = k + 1
    BY <1>2, <1>3
  <2> QED BY <2>1, <2>3, <2>4
<1>7. \A i \in 1..k : x[i] = "transient"
  BY <1>2, <1>3, <1>4 DEF Busy
<1>8. Fits(m, q, a, l, x)
  BY <1>4 DEF Fits
<1>9. Asked(m, a, l, x, r)
  <2>1. l # None
    BY <1>4 DEF Fits
  <2>2. \A i \in 1..(Len(x) - 1) : x[i] = "transient"
    <3>1. Len(x) - 1 = k
      BY <1>6
    <3> QED BY <1>7, <3>1
  <2>3. Len(x) <= MostTries /\ Len(x) <= a.tries
    BY <1>6
  <2> QED BY <1>4, <2>1, <2>2, <2>3 DEF Asked
<1>10. Claimed(q, a, x, answer)
  <2>1. answer # "ask"
    BY DEF Reply
  <2>2. ASSUME answer = "transient" PROVE Busy(x)
    <3>1. \A i \in 1..(k + 1) : i \in 1..k \/ i = k + 1
      OBVIOUS
    <3> QED BY <1>2, <1>3, <1>6, <1>7, <2>2, <3>1 DEF Busy
  <2> QED BY <1>4, <2>1, <2>2 DEF Claimed
<1> QED BY <1>1, <1>8, <1>9, <1>10

LEMMA AskAsk == ASSUME AirTypes, AskInv, Ask PROVE AskInv'
<1>1. refresh \in AskRun /\ refresh.pc = "ask" /\ refresh.message \in Message
  BY RunAt DEF Ask, AskRun
<1>2. PICK answer \in Reply : /\ asks' = [asks EXCEPT ![refresh.message] = Append(@, answer)]
                               /\ refresh' = [refresh EXCEPT !.pc = answer]
  BY DEF Ask, Reply
<1>3. refresh'.pc = answer /\ refresh'.message = refresh.message /\ refresh'.todo = refresh.todo
  BY <1>1, <1>2 DEF AskRun
<1>4. PICK m, q, a, l, as, r : <<m, q, a, l, as, r>>
        = <<refresh.message, queue[refresh.message], attempt[refresh.message], listed[refresh.message],
            asks[refresh.message], lastRun>>
  OBVIOUS
<1>5. m \in Message /\ a \in TryRow \cup {None} /\ as \in Seq(Reply)
  BY <1>1, <1>4 DEF AirTypes
<1>6. Fits(m, q, a, l, as) /\ Asked(m, a, l, as, r) /\ Claimed(q, a, as, "ask")
  BY <1>1, <1>4 DEF AskInv, RowsFit, InHand
<1>7. /\ Fits(m, q, a, l, Append(as, answer)) /\ Asked(m, a, l, Append(as, answer), r)
      /\ Claimed(q, a, Append(as, answer), answer)
  BY <1>5, <1>6, AnswerFits
<1>8. UNCHANGED <<listed, queue, attempt, lastRun>>
  BY DEF Ask
<1>9. asks'[m] = Append(as, answer) /\ \A n \in Message : n # m => asks'[n] = asks[n]
  BY <1>2, <1>4, <1>5 DEF AirTypes
<1>10. RowsFit'
  <2> SUFFICES ASSUME NEW n \in Message
               PROVE  Fits(n, queue[n], attempt[n], listed[n], asks'[n]) /\ Asked(n, attempt[n], listed[n], asks'[n], lastRun)
    BY <1>8 DEF RowsFit
  <2>1. CASE n = m
    BY <1>4, <1>7, <1>9, <2>1
  <2>2. CASE n # m
    BY <1>9, <2>2 DEF AskInv, RowsFit
  <2> QED BY <2>1, <2>2
<1>11. InHand'
  BY <1>3, <1>4, <1>7, <1>8, <1>9 DEF InHand
<1>12. TodoQueued'
  BY <1>1, <1>3, <1>8 DEF AskInv, TodoQueued
<1> QED BY <1>3, <1>10, <1>11, <1>12 DEF AskInv, DraftFits, Reply

LEMMA VerdictAsk == ASSUME AirTypes, AskInv, RecordVerdict PROVE AskInv'
<1>1. refresh \in AskRun /\ refresh.pc \in Reply /\ refresh.message \in Message /\ refresh.todo \subseteq Message
  BY RunAt DEF RecordVerdict, AskRun, Reply
<1>2. queue[refresh.message] # None
  BY <1>1 DEF AskInv, InHand, Claimed
<1>3. PICK st \in RowStatus : st # "pending" /\ queue' = [queue EXCEPT ![refresh.message].status = st]
  BY DEF RecordVerdict, RowStatus
<1>4. UNCHANGED <<listed, attempt, lastRun, asks>>
  BY DEF RecordVerdict
<1>5. RowsFit' /\ \A n \in Message : queue[n] # None => queue'[n] # None
  BY <1>1, <1>2, <1>3, <1>4, StatusRows DEF AskInv
<1>6. refresh'.pc = "select" /\ refresh'.todo = refresh.todo
  BY DEF RecordVerdict, GoOn
<1>7. TodoQueued'
  BY <1>1, <1>5, <1>6 DEF AskInv, TodoQueued
<1> QED BY <1>5, <1>6, <1>7 DEF AskInv, DraftFits, InHand, Reply

\* The time of the next try does not matter.
LEMMA LaterFits ==
  ASSUME NEW m, NEW q, NEW a \in TryRow, NEW l, NEW as, NEW r, NEW due \in Int, Fits(m, q, a, l, as), Asked(m, a, l, as, r)
  PROVE  Fits(m, q, [a EXCEPT !.next = due], l, as) /\ Asked(m, [a EXCEPT !.next = due], l, as, r)
<1>1. PICK b : b = [a EXCEPT !.next = due]
  OBVIOUS
<1>2. b \in TryRow /\ b.tries = a.tries /\ b.received = a.received
  BY <1>1 DEF TryRow
<1>3. b # None /\ a # None
  BY <1>2, AirAssumption
<1>4. Fits(m, q, b, l, as)
  BY <1>2, <1>3 DEF Fits
<1>5. Asked(m, b, l, as, r)
  BY <1>2, <1>3 DEF Asked
<1> QED BY <1>1, <1>4, <1>5

LEMMA FailureAsk == ASSUME AirTypes, AskInv, RecordHttpFailure PROVE AskInv'
<1>1. refresh \in AskRun /\ refresh.pc \in Reply /\ refresh.message \in Message /\ refresh.todo \subseteq Message
  BY RunAt DEF RecordHttpFailure, AskRun, Reply
<1>2. PICK m, q, a, l, as, r : <<m, q, a, l, as, r>>
        = <<refresh.message, queue[refresh.message], attempt[refresh.message], listed[refresh.message],
            asks[refresh.message], lastRun>>
  OBVIOUS
<1>3. m \in Message /\ Claimed(q, a, as, refresh.pc) /\ Fits(m, q, a, l, as) /\ Asked(m, a, l, as, r)
  BY <1>1, <1>2 DEF AskInv, InHand, RowsFit
<1>4. q # None /\ a # None /\ (refresh.pc = "transient" => Busy(as))
  BY <1>3 DEF Claimed
<1>5. q \in CandidateRow /\ a \in TryRow
  BY <1>1, <1>2, <1>4 DEF AirTypes, QueueTable
<1>6. PICK st \in RowStatus, due \in Int :
        /\ queue' = [queue EXCEPT ![m].status = st] /\ attempt' = [attempt EXCEPT ![m].next = due]
        /\ st = "pending" => refresh.pc = "transient"
  BY <1>2, <1>4, FailureWrites
<1>7. st = "pending" => Busy(as)
  BY <1>4, <1>6
<1>8. Fits(m, [q EXCEPT !.status = st], a, l, as)
  BY <1>3, <1>5, <1>7, StatusFits
<1>9. /\ Fits(m, [q EXCEPT !.status = st], [a EXCEPT !.next = due], l, as)
      /\ Asked(m, [a EXCEPT !.next = due], l, as, r)
  BY <1>3, <1>5, <1>8, LaterFits
<1>10. UNCHANGED <<listed, lastRun, asks>>
  BY DEF RecordHttpFailure
<1>11. /\ queue'[m] = [q EXCEPT !.status = st] /\ attempt'[m] = [a EXCEPT !.next = due]
       /\ \A n \in Message : n # m => queue'[n] = queue[n] /\ attempt'[n] = attempt[n]
  BY <1>2, <1>3, <1>6 DEF AirTypes, QueueTable
<1>12. RowsFit'
  <2> SUFFICES ASSUME NEW n \in Message
               PROVE  Fits(n, queue'[n], attempt'[n], listed[n], asks[n]) /\ Asked(n, attempt'[n], listed[n], asks[n], lastRun)
    BY <1>10 DEF RowsFit
  <2>1. CASE n = m
    BY <1>2, <1>9, <1>11, <2>1
  <2>2. CASE n # m
    BY <1>11, <2>2 DEF AskInv, RowsFit
  <2> QED BY <2>1, <2>2
<1>13. refresh' = Off \/ (refresh'.pc = "select" /\ refresh'.todo = refresh.todo)
  BY DEF RecordHttpFailure, GoOn
<1>14. refresh'.pc \in {"off", "select"}
  BY <1>13 DEF Off
<1>15. TodoQueued'
  <2> SUFFICES ASSUME refresh'.todo = refresh.todo, NEW n \in refresh.todo PROVE queue'[n] # None
    BY <1>13 DEF TodoQueued, Off, Reply
  <2>1. n \in Message /\ queue[n] # None
    BY <1>1 DEF AskInv, TodoQueued
  <2>2. [q EXCEPT !.status = st] \in CandidateRow
    BY <1>5 DEF CandidateRow, RowStatus
  <2> QED BY <1>11, <2>1, <2>2, AirAssumption
<1> QED BY <1>12, <1>14, <1>15 DEF AskInv, DraftFits, InHand, Reply

-----------------------------------------------------------------------------

LEMMA AirInitially == AirInit => AirInv
BY InitTypes, InitSkip, InitAsk DEF AirInv

LEMMA AirKept == AirInv /\ [AirNext]_airVars => AirInv'
<1> SUFFICES ASSUME AirInv, [AirNext]_airVars PROVE AirInv'
  OBVIOUS
<1> USE DEF AirInv
<1>1. ASSUME NEW m \in Message, List(m) PROVE AirInv'
  BY <1>1, ListTypes, ListSkip, ListAsk
<1>2. ASSUME NEW m \in Message, QueueRow(m) PROVE AirInv'
  <2>1. m \in PageHits(refresh.search, refresh.at, listed)
    BY <1>2 DEF QueueRow, SkipInv, PageTaken, Top
  <2>2. listed[m] # None
    BY <2>1 DEF PageHits
  <2> QED BY <1>2, <2>2, QueueRowTypes, QueueRowSkip, QueueRowAsk
<1>3. ASSUME NEW m \in Message, Select(m) PROVE AirInv'
  <2>1. queue[m] # None
    BY <1>3 DEF Select, NextCandidates, AskInv, TodoQueued
  <2> QED BY <1>3, <2>1, SelectTypes, RestSkip, SelectAsk
<1>4. ASSUME Tenth PROVE AirInv'
  BY <1>4, TenthTypes, TenthSkip, TenthAsk
<1>5. ASSUME StartRefresh PROVE AirInv'
  BY <1>5, StartTypes, RestSkip, StartAsk
<1>6. ASSUME NEW s \in Search, PickSearch(s) PROVE AirInv'
  BY <1>6, PickTypes, PickSkip, SearchAsk
<1>7. ASSUME TakePage PROVE AirInv'
  BY <1>7, TakeTypes, TakeSkip, TakeAsk
<1>8. ASSUME CommitPage PROVE AirInv'
  BY <1>8, CommitTypes, CommitSkip, CommitAsk
<1>9. ASSUME LeaveTracked PROVE AirInv'
  BY <1>9, LeaveTypes, LeaveSkip, SearchAsk
<1>10. ASSUME LosePage PROVE AirInv'
  BY <1>10, LoseTypes, LoseSkip, SearchAsk
<1>11. ASSUME EndSearch PROVE AirInv'
  BY <1>11, EndSearchTypes, RestSkip, EndSearchAsk
<1>12. ASSUME Ask PROVE AirInv'
  BY <1>12, AskTypes, RestSkip, AskAsk
<1>13. ASSUME RecordVerdict PROVE AirInv'
  <2>1. queue[refresh.message] # None
    BY <1>13 DEF RecordVerdict, AskInv, InHand, Claimed, Reply
  <2> QED BY <1>13, <2>1, VerdictTypes, RestSkip, VerdictAsk
<1>14. ASSUME RecordHttpFailure PROVE AirInv'
  <2>1. queue[refresh.message] # None /\ attempt[refresh.message] # None
    BY <1>14 DEF RecordHttpFailure, AskInv, InHand, Claimed, Reply
  <2> QED BY <1>14, <2>1, FailureTypes, RestSkip, FailureAsk
<1>15. ASSUME EndRefresh PROVE AirInv'
  BY <1>15, EndTypes, RestSkip, SearchAsk
<1>16. CASE UNCHANGED airVars
  BY <1>16 DEF airVars, AirTypes, RunTyped, SkipInv, CursorsBehind, WindowBehind, PageTaken,
     AskInv, RowsFit, DraftFits, InHand, TodoQueued
<1> QED
  BY <1>1, <1>2, <1>3, <1>4, <1>5, <1>6, <1>7, <1>8, <1>9, <1>10, <1>11, <1>12, <1>13, <1>14, <1>15, <1>16 DEF AirNext

LEMMA ReadAndPaid == AirInv => ReadAndPaidOnce
BY DEF AirInv, SkipInv, CursorsBehind, Behind, AskInv, RowsFit, Asked, ReadAndPaidOnce, NoneSkipped, NoneAskedTwice

\* Every message within reach is read at least once, and the AI is paid for it once, unless it
\* answers that it was too busy.
THEOREM ReadAndPaidCorrect == AirSpec => []ReadAndPaidOnce
<1> QED BY AirInitially, AirKept, ReadAndPaid, PTL DEF AirSpec
=============================================================================
