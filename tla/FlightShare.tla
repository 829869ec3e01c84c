----------------------------- MODULE FlightShare -----------------------------
(***************************************************************************)
(* Public share links of a flight.                                         *)
(*                                                                         *)
(* A user who tracks a flight gets one link for it.  The token in the link *)
(* is computed from the row's id with a key derived from JWT_SECRET; the   *)
(* row keeps a hash of it.  Owners' requests run in several workers and    *)
(* read before they write; removing the flight, revoking the link and      *)
(* deleting the account are transactions of their own.  Anonymous viewers  *)
(* resolve a token and count a view.  A change of JWT_SECRET restarts the  *)
(* service.                                                                *)
(***************************************************************************)
EXTENDS Naturals, Common

CONSTANTS
  User,     \* account ids, never issued twice
  Flight,   \* flight ids
  Share,    \* ids of share rows (uuid4)
  Secret,   \* values of JWT_SECRET
  Request,  \* owners' requests in progress
  Viewer,   \* requests of anonymous viewers in progress
  Budget,   \* how often each kind of outside event may happen
  Deleted   \* DELETED_ACCOUNT_OWNER, the empty user id

\* What Budget bounds: requests of owners, page views and restarts.
Event == {"request", "view", "restart"}

ASSUME FlightShareAssumption ==
  /\ Deleted \notin User
  /\ None \notin [user : User \cup {Deleted}, flight : Flight, hashed : Secret,
                  revoked : BOOLEAN, view_count : Nat]
  /\ Budget \in [Event -> Nat]

VARIABLES
  account,  \* the accounts that exist
  link,     \* UserFlightLink
  ended,    \* flights whose share_expires_at has passed
  row,      \* flight_share; hashed is the secret token_hash was computed with
  secret,   \* JWT_SECRET of the running service
  request,  \* what an owner's request has found out
  viewer,   \* what a viewer's request has found out
  handed,   \* history: the links given to owners, as share and secret
  current,  \* history: the shares of links given since JWT_SECRET last changed
  viewed,   \* history: how often a page of the share was counted
  left      \* what is left of Budget

requests == <<request, viewer>>
history  == <<handed, current, viewed>>
vars == <<account, link, ended, row, secret, requests, history, left>>

Row == [user : User \cup {Deleted}, flight : Flight, hashed : Secret,
        revoked : BOOLEAN, view_count : Nat]

Idle == [pc |-> "idle"]

RequestState ==
  [pc : {"idle"}] \cup [pc : {"lookup", "insert", "conflict"}, user : User, flight : Flight]
  \cup [pc : {"found"}, share : Share, copy : Row] \cup [pc : {"answer"}, share : Share]

ViewerState == [pc : {"idle"}] \cup [pc : {"shown"}, share : Share, copy : Row]

Spend(e) == left[e] > 0 /\ left' = [left EXCEPT ![e] = @ - 1]

Init ==
  /\ account = User
  /\ link \in SUBSET (User \X Flight)
  /\ ended \in SUBSET Flight
  /\ row = [s \in Share |-> None]
  /\ secret \in Secret
  /\ request = [q \in Request |-> Idle]
  /\ viewer = [v \in Viewer |-> Idle]
  /\ handed = {}
  /\ current = {}
  /\ viewed = [s \in Share |-> 0]
  /\ left = Budget

-----------------------------------------------------------------------------
(* The owner's requests. *)

\* find_active_share: the rows it may return (the partial unique index keeps
\* them to one).
Active(u, f) ==
  {s \in Share : row[s] # None /\ row[s].user = u /\ row[s].flight = f /\ ~row[s].revoked}

\* A request goes on with the active share, or with what is given.
Found(q, shares, otherwise) ==
  IF shares = {}
  THEN request' = [request EXCEPT ![q] = otherwise]
  ELSE \E s \in shares :
         request' = [request EXCEPT ![q] = [pc |-> "found", share |-> s, copy |-> row[s]]]

\* create_flight_share: 404 unless the user tracks the flight, 409 after its end.
CreateCheck(q, u, f) ==
  /\ request[q] = Idle
  /\ Spend("request")
  /\ u \in account
  /\ <<u, f>> \in link
  /\ f \notin ended
  /\ request' = [request EXCEPT ![q] = [pc |-> "lookup", user |-> u, flight |-> f]]
  /\ UNCHANGED <<account, link, ended, row, secret, viewer, history>>

\* create_or_reuse_share: an active share is reused, else one is inserted.
CreateLookup(q) ==
  /\ request[q].pc = "lookup"
  /\ Found(q, Active(request[q].user, request[q].flight), [request[q] EXCEPT !.pc = "insert"])
  /\ UNCHANGED <<account, link, ended, row, secret, viewer, history, left>>

NewRow(u, f) ==
  [user |-> u, flight |-> f, hashed |-> secret, revoked |-> FALSE, view_count |-> 0]

\* The INSERT commits, or fails on the unique index; then the share that won is
\* looked up, and without one the request ends with a 500.
CreateInsert(q) ==
  /\ request[q].pc = "insert"
  /\ LET u == request[q].user
         f == request[q].flight
     IN IF Active(u, f) = {}
        THEN \E s \in Share :
               /\ row[s] = None
               /\ row' = [row EXCEPT ![s] = NewRow(u, f)]
               /\ request' = [request EXCEPT ![q] = [pc |-> "answer", share |-> s]]
        ELSE /\ request' = [request EXCEPT ![q] = [request[q] EXCEPT !.pc = "conflict"]]
             /\ UNCHANGED row
  /\ UNCHANGED <<account, link, ended, secret, viewer, history, left>>

CreateConflict(q) ==
  /\ request[q].pc = "conflict"
  /\ Found(q, Active(request[q].user, request[q].flight), Idle)
  /\ UNCHANGED <<account, link, ended, row, secret, viewer, history, left>>

\* get_flight_share: 404 without an active share.
GetLookup(q, u, f) ==
  /\ request[q] = Idle
  /\ Spend("request")
  /\ u \in account
  /\ Active(u, f) # {}
  /\ Found(q, Active(u, f), Idle)
  /\ UNCHANGED <<account, link, ended, row, secret, viewer, history>>

\* Mutant: the copy that was read is written back as a whole.
WrittenBack(cur, copy) == [copy EXCEPT !.hashed = secret]

\* The ORM writes the one column that changed.
Rekeyed(cur, copy) == [cur EXCEPT !.hashed = secret]

\* Mutant: a share that is found is taken to have the current hash.
NeverStale(copy) == FALSE

Stale(copy) == copy.hashed # secret

\* rekey_if_needed: the hash of a share made under another secret is replaced.
Rekey(q) ==
  /\ request[q].pc = "found"
  /\ LET s == request[q].share
         copy == request[q].copy
     IN row' = IF Stale(copy) THEN [row EXCEPT ![s] = Rekeyed(@, copy)] ELSE row
  /\ request' = [request EXCEPT ![q] = [pc |-> "answer", share |-> request[q].share]]
  /\ UNCHANGED <<account, link, ended, secret, viewer, history, left>>

\* The owner is given the link, computed from the id with the current secret.
Answer(q) ==
  /\ request[q].pc = "answer"
  /\ handed' = handed \cup {[share |-> request[q].share, secret |-> secret]}
  /\ current' = current \cup {request[q].share}
  /\ request' = [request EXCEPT ![q] = Idle]
  /\ UNCHANGED <<account, link, ended, row, secret, viewer, viewed, left>>

\* revoke_flight_shares, one UPDATE.
RevokedRows(u, f) ==
  [s \in Share |-> IF s \in Active(u, f) THEN [row[s] EXCEPT !.revoked = TRUE] ELSE row[s]]

\* DELETE of the share by its owner; 404 changes nothing.
RevokeShare(u, f) ==
  /\ Spend("request")
  /\ u \in account
  /\ row' = RevokedRows(u, f)
  /\ UNCHANGED <<account, link, ended, secret, requests, history>>

\* delete_flight_for_a_user: the link goes and the share with it.
RemoveFlight(u, f) ==
  /\ Spend("request")
  /\ u \in account
  /\ <<u, f>> \in link
  /\ link' = link \ {<<u, f>>}
  /\ row' = RevokedRows(u, f)
  /\ UNCHANGED <<account, ended, secret, requests, history>>

\* assign_flight_to_a_user, or a flight found in a forwarded e-mail.
AssignFlight(u, f) ==
  /\ Spend("request")
  /\ u \in account
  /\ link' = link \cup {<<u, f>>}
  /\ UNCHANGED <<account, ended, row, secret, requests, history>>

\* delete_user: links, shares and then the user; the rows lose their owner.
DeleteUser(u) ==
  /\ Spend("request")
  /\ u \in account
  /\ account' = account \ {u}
  /\ link' = link \ ({u} \X Flight)
  /\ row' = [s \in Share |->
       IF row[s] # None /\ row[s].user = u
       THEN [row[s] EXCEPT !.user = Deleted, !.revoked = TRUE] ELSE row[s]]
  /\ UNCHANGED <<ended, secret, requests, history>>

\* share_expires_at is recomputed on every read: time passes it, and a delay
\* moves it again.
FlightMoves(f) ==
  /\ ended' = IF f \in ended THEN ended \ {f} ELSE ended \cup {f}
  /\ UNCHANGED <<account, link, row, secret, requests, history, left>>

-----------------------------------------------------------------------------
(* Viewers. *)

\* resolve_public_share: the row whose hash is that of the token.
Resolves(s, k) ==
  /\ row[s] # None
  /\ row[s].hashed = k
  /\ ~row[s].revoked
  /\ <<row[s].user, row[s].flight>> \in link

\* A viewer opens the page of a link that was handed out.
OpenPage(v, h) ==
  /\ viewer[v] = Idle
  /\ Spend("view")
  /\ h \in handed
  /\ Resolves(h.share, h.secret)
  /\ row[h.share].flight \notin ended
  /\ viewer' = [viewer EXCEPT ![v] = [pc |-> "shown", share |-> h.share, copy |-> row[h.share]]]
  /\ UNCHANGED <<account, link, ended, row, secret, request, history>>

\* Mutant: the count that was read is written back plus one.
CountedFromCopy(cur, copy) == [cur EXCEPT !.view_count = copy.view_count + 1]

Counted(cur, copy) == [cur EXCEPT !.view_count = @ + 1]

\* record_view, after the page has been rendered.
RecordView(v) ==
  /\ viewer[v].pc = "shown"
  /\ LET s == viewer[v].share
     IN /\ row' = [row EXCEPT ![s] = Counted(@, viewer[v].copy)]
        /\ viewed' = [viewed EXCEPT ![s] = @ + 1]
  /\ viewer' = [viewer EXCEPT ![v] = Idle]
  /\ UNCHANGED <<account, link, ended, secret, request, handed, current, left>>

\* The count cannot be written: the page is shown nevertheless.
LoseView(v) ==
  /\ viewer[v].pc = "shown"
  /\ viewer' = [viewer EXCEPT ![v] = Idle]
  /\ UNCHANGED <<account, link, ended, row, secret, request, history, left>>

-----------------------------------------------------------------------------
\* The service restarts, with the same or another JWT_SECRET: every request in
\* progress dies.
Restart ==
  /\ Spend("restart")
  /\ secret' \in Secret
  /\ request' = [q \in Request |-> Idle]
  /\ viewer' = [v \in Viewer |-> Idle]
  /\ current' = IF secret' = secret THEN current ELSE {}
  /\ UNCHANGED <<account, link, ended, row, handed, viewed>>

Next ==
  \/ \E q \in Request :
       \/ \E u \in User, f \in Flight : CreateCheck(q, u, f) \/ GetLookup(q, u, f)
       \/ CreateLookup(q) \/ CreateInsert(q) \/ CreateConflict(q) \/ Rekey(q) \/ Answer(q)
  \/ \E u \in User, f \in Flight : RevokeShare(u, f) \/ RemoveFlight(u, f) \/ AssignFlight(u, f)
  \/ \E u \in User : DeleteUser(u)
  \/ \E f \in Flight : FlightMoves(f)
  \/ \E v \in Viewer : (\E h \in handed : OpenPage(v, h)) \/ RecordView(v) \/ LoseView(v)
  \/ Restart

Spec == Init /\ [][Next]_vars

-----------------------------------------------------------------------------
(* Properties. *)

\* Every variable holds a value of its table, request or setting.
TypeOK ==
  /\ account \subseteq User
  /\ link \subseteq User \X Flight
  /\ ended \subseteq Flight
  /\ row \in [Share -> Row \cup {None}]
  /\ secret \in Secret
  /\ request \in [Request -> RequestState]
  /\ viewer \in [Viewer -> ViewerState]
  /\ handed \subseteq [share : Share, secret : Secret]
  /\ current \subseteq Share
  /\ viewed \in [Share -> Nat]
  /\ left \in [Event -> Nat]

\* routers/flight_share.py: "so it resolves after a secret rotation": every link
\* handed out since JWT_SECRET last changed finds its row by the hash of its
\* token, whichever requests overlapped.
HandedOutResolves ==
  \A s \in current : row[s] # None /\ row[s].hashed = secret

\* A revoked share stays revoked and keeps its owner or none: no request that
\* read the row before writes it back, and no rotation revives its token.
RevokedStaysDead ==
  [][\A s \in Share : (row[s] # None /\ row[s].revoked) =>
       row'[s].revoked /\ row'[s].user \in {row[s].user, Deleted}]_vars

\* The aggregate count misses no page whose view was recorded, whichever viewers,
\* revocations and rekeyings overlap.
ViewsExact ==
  \A s \in Share : row[s] # None => row[s].view_count = viewed[s]

\* routers/flights.py: "A removed flight must not stay public through an earlier
\* share link": a link that does not resolve because its flight is not tracked
\* does not become public again by tracking the flight anew.
RemovedStaysPrivate ==
  [][\A s \in Share :
       (row[s] # None /\ <<row[s].user, row[s].flight>> \notin link)
         => ~Resolves(s, row[s].hashed)']_vars
=============================================================================
