------------------------------- MODULE Cockpit -------------------------------
(***************************************************************************)
(* The worker that turns aircraft messages into stories.                   *)
(*                                                                         *)
(* A timer starts it every ten minutes; a file lock keeps it alone; it may *)
(* die at any step.  It searches the provider term by term, a page at a    *)
(* time: the messages of a page and the cursor behind it are committed     *)
(* together.  Then it has the AI review a few of the messages that wait;   *)
(* a message is claimed, and its price taken from every budget, before the *)
(* AI is asked.                                                            *)
(*                                                                         *)
(* The worker is the only writer, so a request whose answer changes        *)
(* nothing before its transaction is one step with it.                     *)
(***************************************************************************)
EXTENDS Integers, FiniteSetsExt, Sequences, Common

CONSTANTS
  Message,        \* messages of aircraft
  Id,             \* [Message -> Nat], the id the provider gives, in which it pages
  Age,            \* [Message -> Nat]: how old a message is when the provider gets it
  Nature,         \* [Message -> "sensitive" | "dropped" | "ordinary" | "urgent"]
  Content,        \* [Message -> text]
  Happening,      \* [Message -> event of an aircraft it tells of]
  Search,         \* terms, and aircraft of saved flights ("tracked:...")
  Tracked,        \* those that are aircraft
  Turn,           \* [Search -> {-1, 0, 1}]: every run, or every other one
  Hits,           \* {<<search, message>>}
  PageSize, PagesPerRun,
  Overlap,        \* of successive windows, 2 minutes
  CatchUp,        \* CATCHUP_HOURS
  News,           \* FRESH_CANDIDATE_HOURS
  Week,           \* retention of what is not published
  MostTries,      \* MAX_ATTEMPTS
  PerWindow, PerMonth,   \* reviews the budgets of a window and of a month pay for
  Day,            \* in which a text is queued once
  Pause,          \* of the AI after an error that is not transient
  MostFailures,   \* MAX_PROVIDER_FAILURES_PER_RUN
  LastTenth,      \* bound of tenth
  AirBudgets      \* bounds of a behaviour: failures and deaths, listings that are
                  \* late or amid the searches; what is left of the month's
                  \* budget and of the 20,000 places of the queue

CandidateRow ==
  [received : Int,
   status : {"pending", "attempted", "duplicate", "expired", "published", "failed", "review", "held"}]
TryRow == [received : Int, tries : 1..MostTries, next : Int]

\* The provider numbers its messages; what is searched for again lasts longer than what is
\* kept waiting for late listings, and rows are kept longer than they are news.  There are
\* pauses for three tries.
ASSUME AirAssumption ==
  /\ IsFiniteSet(Message) /\ Id \in [Message -> Nat] /\ Age \in [Message -> Nat]
  /\ \A m, n \in Message : Id[m] = Id[n] => m = n
  /\ PageSize \in Nat \ {0} /\ MostTries \in 1..3 /\ {PagesPerRun, Overlap, CatchUp, News, Week, Pause} \subseteq Nat
  /\ Overlap <= CatchUp /\ News <= Week
  /\ None \notin Int \cup CandidateRow \cup TryRow

VARIABLES
  tenth,          \* the time, in ticks of the timer
  listed,         \* [Message -> time the provider received it, or None], what it lists
  cursor,         \* cockpit_cursor
  lastTried,      \* "global-attempt:", "tracked-attempt:" of cockpit_metadata
  queue,          \* cockpit_queue, [Message -> CandidateRow or None]
  told,           \* cockpit_content
  review,         \* cockpit_review
  attempt,        \* cockpit_ai_attempt, [Message -> TryRow or None]
  debit,          \* cockpit_budget, of the AI
  notBefore,      \* "ai-not-before"
  airStory,       \* cockpit_stories
  complete,       \* "updated_at"
  refresh,        \* the process
  lastRun,        \* of the timer
  seen,           \* history: messages of pages that were committed
  asks,           \* history: [Message -> answers of the AI]
  airLeft         \* what is left of a member of AirBudgets

airVars == <<tenth, listed, cursor, lastTried, queue, told, review, attempt, debit, notBefore,
             airStory, complete, refresh, lastRun, seen, asks, airLeft>>

AirSpend(e) == airLeft[e] > 0 /\ airLeft' = [airLeft EXCEPT ![e] = @ - 1]

Off == [pc |-> "off"]

AirInit ==
  /\ tenth = 0
  /\ listed = [m \in Message |-> None]
  /\ cursor = [s \in Search |-> None]
  /\ lastTried = [s \in Search |-> -1]
  /\ queue = [m \in Message |-> None]
  /\ told = [c \in {Content[m] : m \in Message} |-> None]
  /\ review = {}
  /\ attempt = [m \in Message |-> None]
  /\ airLeft \in AirBudgets
  /\ debit = [b \in ({"window"} \X (0..LastTenth)) \cup {<<"month", 0>>} |->
       IF b[1] = "month" THEN PerMonth - airLeft.review ELSE 0]
  /\ notBefore = 0
  /\ airStory = {}
  /\ complete = None
  /\ refresh = Off
  /\ lastRun = -1
  /\ seen = {}
  /\ asks = [m \in Message |-> <<>>]

-----------------------------------------------------------------------------
(* The provider and the clock. *)

Receipt(m) == listed[m] - Age[m]      \* timestamp: when the aircraft sent it

\* A message shows up in searches no later than Overlap after it was received; the reviews
\* do not look.
List(m) ==
  /\ listed[m] = None /\ refresh.pc \in {"off", "search", "page"}
  /\ \/ refresh = Off /\ listed' = [listed EXCEPT ![m] = tenth] /\ UNCHANGED airLeft
     \/ AirSpend("late") /\ \E late \in 0..Overlap : tenth >= late /\ listed' = [listed EXCEPT ![m] = tenth - late]
  /\ UNCHANGED <<tenth, cursor, lastTried, queue, told, review, attempt, debit, notBefore,
                 airStory, complete, refresh, lastRun, seen, asks>>

\* The timer starts a run in every tick; its searches all use the time it started at.
Tenth ==
  /\ tenth < LastTenth /\ lastRun = tenth /\ refresh.pc \notin {"search", "page", "rows"}
  /\ tenth' = tenth + 1
  /\ UNCHANGED <<listed, cursor, lastTried, queue, told, review, attempt, debit, notBefore,
                 airStory, complete, refresh, lastRun, seen, asks, airLeft>>

-----------------------------------------------------------------------------
(* Searching. *)

\* The rows of the week; the stories stay.
StartRefresh ==
  /\ refresh = Off /\ lastRun < tenth
  /\ LET kept(m) == queue[m] # None /\ queue[m].received >= tenth - Week
     IN /\ queue' = [m \in Message |-> IF kept(m) THEN queue[m] ELSE None]
        /\ attempt' = [m \in Message |->
             IF attempt[m] # None /\ attempt[m].received >= tenth - Week THEN attempt[m] ELSE None]
  /\ review' = {m \in review : Receipt(m) >= tenth - Week}
  /\ told' = [c \in DOMAIN told |-> IF told[c] # None /\ told[c] >= tenth - Week THEN told[c] ELSE None]
  /\ lastRun' = tenth
  /\ refresh' = [pc |-> "search", now |-> tenth, left |-> {s \in Search : Turn[s] \in {-1, tenth % 2}},
                 errors |-> 0, blocked |-> FALSE, whole |-> TRUE]
  /\ UNCHANGED <<tenth, listed, cursor, lastTried, debit, notBefore, airStory, complete, seen, asks, airLeft>>

Stopped(w) == w.blocked \/ w.errors >= MostFailures

\* fresh_cursor: nothing older than CatchUp is searched for.
FreshCursor(c, now) ==
  IF c = None \/ c.since < now - CatchUp
  THEN [since |-> now - CatchUp, until |-> now, before |-> None]
  ELSE [c EXCEPT !.until = IF @ = None THEN now ELSE @]

\* The aircraft first, then the terms; what was tried least recently comes first.
PickSearch(s) ==
  LET w == refresh
      ahead(r) == IF (r \in Tracked) = (s \in Tracked) THEN lastTried[r] < lastTried[s] ELSE r \in Tracked
  IN /\ w.pc = "search" /\ s \in w.left /\ ~Stopped(w)
     /\ ~\E r \in w.left : ahead(r)
     /\ lastTried' = [lastTried EXCEPT ![s] = w.now]
     /\ refresh' = [pc |-> "page", now |-> w.now, left |-> w.left \ {s}, errors |-> w.errors, blocked |-> FALSE,
                    whole |-> w.whole, search |-> s, pages |-> PagesPerRun, at |-> FreshCursor(cursor[s], w.now)]
     /\ UNCHANGED <<tenth, listed, cursor, queue, told, review, attempt, debit, notBefore,
                    airStory, complete, lastRun, seen, asks, airLeft>>

Searching(w) == [pc |-> "search", now |-> w.now, left |-> w.left, errors |-> w.errors, blocked |-> w.blocked, whole |-> w.whole]

\* A page: of the messages of the window with ids before the cursor those with the greatest.
Page(s, at) ==
  LET hits == {m \in Message : /\ <<s, m>> \in Hits /\ listed[m] # None
                               /\ listed[m] \in at.since..at.until
                               /\ at.before # None => Id[m] < at.before}
  IN {m \in hits : Cardinality({n \in hits : Id[n] > Id[m]}) < PageSize}

\* The answer arrives and is valid; with its rows begins a transaction.
TakePage ==
  LET w == refresh
      page == Page(w.search, w.at)
  IN /\ w.pc = "page"
     /\ refresh' = [pc |-> "rows", now |-> w.now, left |-> w.left, errors |-> w.errors, blocked |-> w.blocked,
                    whole |-> w.whole, search |-> w.search, pages |-> w.pages, at |-> w.at, page |-> page, rows |-> page,
                    draft |-> [queue |-> queue, told |-> told, review |-> review]]
     /\ UNCHANGED <<tenth, listed, cursor, lastTried, queue, told, review, attempt, debit, notBefore,
                    airStory, complete, lastRun, seen, asks, airLeft>>

\* A text is queued once a day, except for saved flights.
Boilerplate(d, m, s) ==
  LET last == d.told[Content[m]]
  IN s \notin Tracked /\ last # None /\ Receipt(m) - last < Day /\ last - Receipt(m) < Day

\* queue_message: d holds the tables.  Of a sensitive message only the provider's id is kept.
Ignored(m, now) == Receipt(m) < now - News \/ Nature[m] = "dropped"
Redundant(d, m, s) == d.queue[m] # None \/ Boilerplate(d, m, s)
NoRoom(d) == Cardinality({n \in Message : d.queue[n] # None}) >= airLeft.room

Queued(d, m) ==
  [d EXCEPT !.queue[m] = [received |-> Receipt(m), status |-> "pending"],
            !.told[Content[m]] = IF @ = None \/ @ < Receipt(m) THEN Receipt(m) ELSE @]

\* A row of the page; their order is the provider's.  A full queue rolls the page back and ends
\* the run.
QueueRow(m) ==
  LET w == refresh
      onto(d) == [w EXCEPT !.rows = @ \ {m}, !.draft = d]
  IN /\ w.pc = "rows" /\ m \in w.rows
     /\ refresh' = IF Ignored(m, w.now) THEN onto(w.draft)
                   ELSE IF Nature[m] = "sensitive" THEN onto([w.draft EXCEPT !.review = @ \cup {m}])
                   ELSE IF Redundant(w.draft, m, w.search) THEN onto(w.draft)
                   ELSE IF NoRoom(w.draft) THEN Off
                   ELSE onto(Queued(w.draft, m))
     /\ UNCHANGED <<tenth, listed, cursor, lastTried, queue, told, review, attempt, debit, notBefore,
                    airStory, complete, lastRun, seen, asks, airLeft>>

\* min(ids)
Least(page) == CHOOSE i \in {Id[m] : m \in page} : \A m \in page : i <= Id[m]

\* Mutant: the next window begins where this one ended.
NextWindowAtEnd(at, page) ==
  IF Cardinality(page) = PageSize THEN [at EXCEPT !.before = Least(page)]
  ELSE [since |-> at.until, until |-> None, before |-> None]

\* A full page has another behind it; else the next window overlaps this one.
NextWindow(at, page) ==
  IF Cardinality(page) = PageSize THEN [at EXCEPT !.before = Least(page)]
  ELSE [since |-> at.until - Overlap, until |-> None, before |-> None]

\* The page and the cursor behind it are committed.
CommitPage ==
  LET w == refresh
      next == NextWindow(w.at, w.page)
  IN /\ w.pc = "rows" /\ w.rows = {}
     /\ queue' = w.draft.queue /\ told' = w.draft.told /\ review' = w.draft.review
     /\ cursor' = [cursor EXCEPT ![w.search] = next]
     /\ seen' = seen \cup {<<w.search, m>> : m \in w.page}
     /\ refresh' = IF next.until = None \/ w.pages = 1 THEN Searching(w)
                   ELSE [pc |-> "page", now |-> w.now, left |-> w.left, errors |-> w.errors, blocked |-> w.blocked,
                         whole |-> w.whole, search |-> w.search, pages |-> w.pages - 1, at |-> next]
     /\ UNCHANGED <<tenth, listed, lastTried, attempt, debit, notBefore, airStory, complete, lastRun, asks, airLeft>>

\* The aircraft have taken eight requests or 100 seconds: the others wait for the next run.
LeaveTracked ==
  LET w == refresh
  IN /\ w.pc = "search" /\ w.left \cap Tracked # {}
     /\ AirSpend("fault")
     /\ refresh' = [w EXCEPT !.left = @ \ Tracked]
     /\ UNCHANGED <<tenth, listed, cursor, lastTried, queue, told, review, attempt, debit, notBefore,
                    airStory, complete, lastRun, seen, asks>>

\* The request fails, or the allowance of requests is used up, which spoils only the
\* searches for terms: the cursor stays.  A refusal (401, 403, 429) ends the requests of
\* this run.
LosePage ==
  LET w == refresh
  IN /\ w.pc = "page"
     /\ AirSpend("fault")
     /\ \/ \E blocked \in BOOLEAN :
             refresh' = Searching([w EXCEPT !.errors = @ + 1, !.blocked = blocked, !.whole = FALSE])
        \/ refresh' = Searching([w EXCEPT !.whole = @ /\ w.search \in Tracked])
     /\ UNCHANGED <<tenth, listed, cursor, lastTried, queue, told, review, attempt, debit, notBefore,
                    airStory, complete, lastRun, seen, asks>>

-----------------------------------------------------------------------------
(* Reviews by the AI. *)

Cooling == notBefore > tenth

Due(m) ==
  /\ queue[m] # None /\ queue[m].status = "pending"
  /\ attempt[m] # None => attempt[m].tries < MostTries /\ attempt[m].next <= tenth

\* The searches are over, or took too long.  Pending messages that are no news any more
\* expire (expire_stale_pending); the others, if they are due, are reviewed
\* (pending_messages).
EndSearch ==
  LET w == refresh
      stale(m) == queue[m] # None /\ queue[m].status = "pending" /\ queue[m].received < w.now - News
      late == ~Stopped(w) /\ w.left # {}
      todo == {m \in Message : Due(m) /\ queue[m].received >= tenth - News /\ ~stale(m)}
  IN /\ w.pc = "search"
     /\ IF late THEN AirSpend("fault") ELSE UNCHANGED airLeft
     /\ complete' = IF w.whole /\ ~late THEN tenth ELSE complete
     /\ queue' = [m \in Message |-> IF stale(m) THEN [queue[m] EXCEPT !.status = "expired"] ELSE queue[m]]
     /\ refresh' = [pc |-> "select", now |-> w.now, urgentTurn |-> TRUE,
                    todo |-> IF w.blocked \/ Cooling THEN {} ELSE todo]
     /\ UNCHANGED <<tenth, listed, cursor, lastTried, told, review, attempt, debit, notBefore,
                    airStory, lastRun, seen, asks>>

\* Every other review goes to an urgent message, as long as one waits.
NextCandidates(w) ==
  LET urgent == {m \in w.todo : Nature[m] = "urgent"}
  IN IF urgent # {} /\ (w.urgentTurn \/ urgent = w.todo) THEN urgent ELSE w.todo \ urgent

Known(m) == \E n \in airStory : Happening[n] = Happening[m]

Bucket(t) == {<<"window", t>>, <<"month", 0>>}
Limit(b) == IF b[1] = "window" THEN PerWindow ELSE PerMonth

\* claim, which looks at everything again, for time has passed.
Claimable(m) ==
  /\ Due(m) /\ queue[m].received >= tenth - News /\ ~Cooling
  /\ \A b \in Bucket(tenth) : debit[b] < Limit(b)

\* A message of an event that has a story is a duplicate; one that cannot be claimed ends
\* the reviews.
Select(m) ==
  LET w == refresh
      rest == [w EXCEPT !.todo = @ \ {m}, !.urgentTurn = ~@]
  IN /\ w.pc = "select" /\ m \in NextCandidates(w)
     /\ IF Known(m)
        THEN /\ queue' = [queue EXCEPT ![m].status = "duplicate"]
             /\ refresh' = rest
             /\ UNCHANGED <<attempt, debit>>
        ELSE IF ~Claimable(m)
        THEN refresh' = Off /\ UNCHANGED <<queue, attempt, debit>>
        ELSE /\ queue' = [queue EXCEPT ![m].status = "attempted"]
             /\ attempt' = [attempt EXCEPT ![m] =
                  [received |-> queue[m].received, tries |-> IF @ = None THEN 1 ELSE @.tries + 1, next |-> 0]]
             /\ debit' = [b \in DOMAIN debit |-> IF b \in Bucket(tenth) THEN debit[b] + 1 ELSE debit[b]]
             /\ refresh' = [pc |-> "ask", now |-> w.now, todo |-> rest.todo, urgentTurn |-> rest.urgentTurn, message |-> m]
     /\ UNCHANGED <<tenth, listed, cursor, lastTried, told, review, notBefore, airStory, complete, lastRun, seen, asks, airLeft>>

\* The AI is given the message; the answer is a verdict, an HTTP error, or none.
Ask ==
  LET w == refresh
  IN /\ w.pc = "ask"
     /\ \E answer \in {"story", "review", "held", "transient", "refused", "error", "unknown"} :
          /\ asks' = [asks EXCEPT ![w.message] = Append(@, answer)]
          /\ refresh' = [w EXCEPT !.pc = answer]
     /\ UNCHANGED <<tenth, listed, cursor, lastTried, queue, told, review, attempt, debit, notBefore,
                    airStory, complete, lastRun, seen, airLeft>>

GoOn(w) == [pc |-> "select", now |-> w.now, todo |-> w.todo, urgentTurn |-> w.urgentTurn]

\* A verdict, one transaction; "unknown" is a time-out, a lost connection or an answer that
\* does not parse, and is final.
RecordVerdict ==
  LET w == refresh
      m == w.message
      status == CASE w.pc = "story" -> IF Known(m) THEN "duplicate" ELSE "published"
                  [] w.pc = "unknown" -> "failed"
                  [] OTHER -> w.pc
  IN /\ w.pc \in {"story", "review", "held", "unknown"}
     /\ queue' = [queue EXCEPT ![m].status = status]
     /\ airStory' = IF status = "published" THEN airStory \cup {m} ELSE airStory
     /\ review' = IF status = "review" THEN review \cup {m} ELSE review
     /\ refresh' = GoOn(w)
     /\ UNCHANGED <<tenth, listed, cursor, lastTried, told, attempt, debit, notBefore, complete, lastRun, seen, asks, airLeft>>

\* http_failure: only a transient error lets the message be asked about again, later (the
\* AI may ask for more time) and while it is news; that and a refusal pause the AI.
RecordHttpFailure ==
  LET w == refresh
      m == w.message
  IN /\ w.pc \in {"transient", "refused", "error"}
     /\ \E wait \in {<<1, 2, 4>>[attempt[m].tries], Pause} :
          LET due == tenth + Max({wait, <<1, 2, 4>>[attempt[m].tries]})
              retry == w.pc = "transient" /\ attempt[m].tries < MostTries /\ due < attempt[m].received + News
          IN /\ queue' = [queue EXCEPT ![m].status = IF retry THEN "pending" ELSE "failed"]
             /\ attempt' = [attempt EXCEPT ![m].next = IF retry THEN due ELSE 0]
             /\ notBefore' = CASE w.pc = "transient" -> Max({notBefore, due})
                               [] w.pc = "refused" -> Max({notBefore, due, tenth + Pause})
                               [] OTHER -> notBefore
     /\ refresh' = IF notBefore' > tenth THEN Off ELSE GoOn(w)
     /\ UNCHANGED <<tenth, listed, cursor, lastTried, told, review, debit, airStory, complete, lastRun, seen, asks, airLeft>>

\* No message is left; or time is up or the process dies.
EndRefresh ==
  /\ refresh # Off
  /\ IF refresh.pc = "select" /\ refresh.todo = {} THEN UNCHANGED airLeft ELSE AirSpend("fault")
  /\ refresh' = Off
  /\ UNCHANGED <<tenth, listed, cursor, lastTried, queue, told, review, attempt, debit, notBefore,
                 airStory, complete, lastRun, seen, asks>>

AirNext ==
  \/ \E m \in Message : List(m) \/ QueueRow(m) \/ Select(m)
  \/ Tenth
  \/ StartRefresh
  \/ \E s \in Search : PickSearch(s)
  \/ TakePage \/ CommitPage \/ LeaveTracked \/ LosePage \/ EndSearch
  \/ Ask \/ RecordVerdict \/ RecordHttpFailure
  \/ EndRefresh

AirSpec == AirInit /\ [][AirNext]_airVars

-----------------------------------------------------------------------------
(* Properties. *)

\* What lies behind a cursor was read, or is out of reach by now: pages cut off by failures
\* and deaths, late listings and windows that start afresh lose no message.
NoneSkipped ==
  \A s \in Search, m \in Message :
    /\ <<s, m>> \in Hits /\ listed[m] # None
    /\ cursor[s] # None /\ listed[m] < cursor[s].since
    => <<s, m>> \in seen \/ listed[m] < tenth - CatchUp

\* The AI is asked about a message again only after an explicit transient error.
NoneAskedTwice ==
  \A m \in Message :
    /\ Len(asks[m]) <= MostTries
    /\ \A i \in 1..(Len(asks[m]) - 1) : asks[m][i] = "transient"

\* Every message within reach is read at least once, and though it is read again and
\* again, by several searches, by overlapping windows and after deaths, the AI is paid for
\* it once, unless it answers that it was too busy: run, claim and http_failure.
ReadAndPaidOnce == NoneSkipped /\ NoneAskedTwice
=============================================================================
