------------------------------ MODULE AIConsent ------------------------------
(***************************************************************************)
(* The permissions an account gives for the use of Gemini.                 *)
(*                                                                         *)
(* The app reads the permissions with their revision and sends commands    *)
(* against that revision; a command may arrive late, twice or out of       *)
(* order.  The permission for forwarded e-mail needs an address proven by  *)
(* Apple, which sign-in and a verification of their own record; both wait  *)
(* for Apple between what they read and what they write.  Each write is a  *)
(* transaction that holds SQLite's writer lock from its first statement.   *)
(***************************************************************************)
EXTENDS Naturals

CONSTANTS
  User,       \* account ids, never issued twice
  Subject,    \* Apple accounts
  Email,      \* addresses Apple proves
  RequestId,  \* request ids of the app's commands
  Login,      \* requests that wait for Apple
  Budget,     \* how often each kind of outside event may happen
  None        \* no row, no proof, no address

\* What Budget bounds: commands of the app, requests that wait for Apple and
\* ticks of the clock.
Event == {"command", "login", "tick"}

VARIABLES
  time,       \* the clock of the service
  account,    \* the accounts that exist
  apple,      \* User.apple_id; verified is set with it
  identity,   \* UserAIEmailIdentity
  consent,    \* UserAIConsent; a missing row reads like the first one
  applied,    \* AIConsentReceipt: the commands that were accepted
  command,    \* the commands sent, each of which may arrive any number of times
  login,      \* what a request waiting for Apple has read
  issued,     \* how many permissions for e-mail were given; their ids
  conflicted, \* history: the commands once answered with a conflict
  left        \* what is left of Budget

consentVars == <<time, account, apple, identity, consent, applied, command, login, issued,
                 conflicted, left>>

Identity == [apple : Subject, email : Email]
Grant    == [id : Nat, at : Nat]
Row      == [revision : Nat, search : BOOLEAN, email : BOOLEAN, grant : Grant \cup {None}]

\* What the app or a request has seen when it decided (history).
Seen == [identity : Identity \cup {None}, consent : Row]

Command == [user : User, id : RequestId, purpose : {"search", "email"}, enabled : BOOLEAN,
            expected : Nat, seen : Seen]

Idle == [pc |-> "idle"]

LoginState ==
  [pc : {"idle"}]
  \cup [pc : {"verify"}, user : User, apple : Subject, email : Email, expected : Nat, seen : Seen]
  \cup [pc : {"signin", "adopt", "record"}, user : User, apple : Subject,
        email : Email \cup {None}]

ASSUME AIConsentAssumption ==
  /\ None \notin Email /\ None \notin Subject
  /\ None \notin Identity /\ None \notin Grant
  /\ Budget \in [Event -> Nat]

FirstRow == [revision |-> 0, search |-> FALSE, email |-> FALSE, grant |-> None]

Spend(e) == left[e] > 0 /\ left' = [left EXCEPT ![e] = @ - 1]

ConsentInit ==
  /\ time = 0
  /\ account = User
  /\ apple = [u \in User |-> None]
  /\ identity = [u \in User |-> None]
  /\ consent = [u \in User |-> FirstRow]
  /\ applied = {}
  /\ command = {}
  /\ login = [l \in Login |-> Idle]
  /\ issued = 0
  /\ conflicted = {}
  /\ left = Budget

Tick ==
  /\ Spend("tick")
  /\ time' = time + 1
  /\ UNCHANGED <<account, apple, identity, consent, applied, command, login, issued, conflicted>>

-----------------------------------------------------------------------------
(* read_ai_consent *)

\* The address is proven for the Apple account the user is signed in with.
Proven(u) == identity[u] # None /\ identity[u].apple = apple[u]

\* forwarded_email_enabled.
Enabled(u) == Proven(u) /\ consent[u].email /\ consent[u].grant # None

SeenNow(u) == [identity |-> identity[u], consent |-> consent[u]]

-----------------------------------------------------------------------------
(* Commands of the app. *)

\* The app decides on what it has read; nothing keeps it from using a request id
\* twice.
SendCommand(u, id, purpose, enabled) ==
  /\ Spend("command")
  /\ u \in account
  /\ command' = command \cup {[user |-> u, id |-> id, purpose |-> purpose, enabled |-> enabled,
                               expected |-> consent[u].revision, seen |-> SeenNow(u)]}
  /\ UNCHANGED <<time, account, apple, identity, consent, applied, login, issued, conflicted>>

SameCommand(c, d) ==
  c.purpose = d.purpose /\ c.enabled = d.enabled /\ c.expected = d.expected

\* What a command is refused for, its receipt aside.
Refusal(c) ==
  IF consent[c.user].revision # c.expected THEN "conflict"
  ELSE IF c.purpose = "email" /\ c.enabled /\ ~Proven(c.user) THEN "unverified"
  ELSE "none"

\* Mutant: the revision is compared before the receipt is looked for.
AnswerByRevision(c) ==
  IF Refusal(c) = "none" /\ \A d \in applied : <<d.user, d.id>> # <<c.user, c.id>>
  THEN "accepted" ELSE Refusal(c)

\* How update_ai_consent answers.
Answer(c) ==
  IF \E d \in applied : <<d.user, d.id>> = <<c.user, c.id>>
  THEN IF \E d \in applied : <<d.user, d.id>> = <<c.user, c.id>> /\ SameCommand(c, d)
       THEN "current" ELSE "conflict"
  ELSE IF Refusal(c) = "none" THEN "accepted" ELSE Refusal(c)

\* The row an accepted command writes: the other purpose keeps what it reads as.
Updated(row, c) ==
  IF c.purpose = "search"
  THEN [revision |-> row.revision + 1, search |-> c.enabled, email |-> Enabled(c.user),
        grant |-> row.grant]
  ELSE [revision |-> row.revision + 1, search |-> row.search, email |-> c.enabled,
        grant |-> IF c.enabled THEN [id |-> issued + 1, at |-> time] ELSE None]

UpdateConsent(c) ==
  /\ c.user \in account
  /\ Answer(c) = "accepted"
  /\ consent' = [consent EXCEPT ![c.user] = Updated(@, c)]
  /\ applied' = applied \cup {c}
  /\ issued' = IF c.purpose = "email" /\ c.enabled THEN issued + 1 ELSE issued
  /\ UNCHANGED <<time, account, apple, identity, command, login, conflicted, left>>

RefuseCommand(c) ==
  /\ c.user \in account
  /\ Answer(c) = "conflict"
  /\ conflicted' = conflicted \cup {c}
  /\ UNCHANGED <<time, account, apple, identity, consent, applied, command, login, issued, left>>

-----------------------------------------------------------------------------
(* Proof of an address. *)

\* Mutant: the permission ends and the revision stays.
RevokedQuietly(row) == [row EXCEPT !.email = FALSE, !.grant = None]

Revoked(row) ==
  [revision |-> row.revision + 1, search |-> row.search, email |-> FALSE, grant |-> None]

NewIdentity(a, e) == IF e = None THEN None ELSE [apple |-> a, email |-> e]

\* record_verified_apple_email_identity, once it has found the account to match.
RecordIdentity(u, a, e) ==
  IF identity[u] = NewIdentity(a, e)
  THEN UNCHANGED <<identity, consent>>
  ELSE /\ identity' = [identity EXCEPT ![u] = NewIdentity(a, e)]
       /\ consent' = [consent EXCEPT ![u] = Revoked(@)]

\* verify_email reads the account and the revision and waits for Apple.
VerifyStart(l, u, e) ==
  /\ login[l] = Idle
  /\ Spend("login")
  /\ u \in account
  /\ apple[u] # None
  /\ login' = [login EXCEPT ![l] = [pc |-> "verify", user |-> u, apple |-> apple[u], email |-> e,
                                    expected |-> consent[u].revision, seen |-> SeenNow(u)]]
  /\ UNCHANGED <<time, account, apple, identity, consent, applied, command, issued, conflicted>>

\* Mutant: the revision is not compared again.
MatchesAccount(r) == r.user \in account /\ apple[r.user] = r.apple

Matches(r) ==
  /\ r.user \in account
  /\ apple[r.user] = r.apple
  /\ consent[r.user].revision = r.expected

VerifyCommit(l) ==
  /\ login[l].pc = "verify"
  /\ IF Matches(login[l])
     THEN RecordIdentity(login[l].user, login[l].apple, login[l].email)
     ELSE UNCHANGED <<identity, consent>>
  /\ login' = [login EXCEPT ![l] = Idle]
  /\ UNCHANGED <<time, account, apple, applied, command, issued, conflicted, left>>

\* create_user: a guest signs in, with or without an address in the token.
SignInStart(l, u, a, e) ==
  /\ login[l] = Idle
  /\ Spend("login")
  /\ u \in account
  /\ apple[u] = None
  /\ login' = [login EXCEPT ![l] = [pc |-> "signin", user |-> u, apple |-> a, email |-> e]]
  /\ UNCHANGED <<time, account, apple, identity, consent, applied, command, issued, conflicted>>

\* Apple has answered: an account of that Apple account is signed in to, else the
\* guest becomes one.
SignInLookup(l) ==
  /\ login[l].pc = "signin"
  /\ LET owners == {v \in account : apple[v] = login[l].apple}
     IN IF owners = {}
        THEN login' = [login EXCEPT ![l].pc = "adopt"]
        ELSE \E v \in owners : login' = [login EXCEPT ![l].pc = "record", ![l].user = v]
  /\ UNCHANGED <<time, account, apple, identity, consent, applied, command, issued, conflicted,
                 left>>

SignInRecord(l) ==
  /\ login[l].pc = "record"
  /\ LET r == login[l]
     IN IF r.user \in account /\ apple[r.user] = r.apple
        THEN RecordIdentity(r.user, r.apple, r.email)
        ELSE UNCHANGED <<identity, consent>>
  /\ login' = [login EXCEPT ![l] = Idle]
  /\ UNCHANGED <<time, account, apple, applied, command, issued, conflicted, left>>

\* The guest's row is written whatever it says by now; a deleted one fails.
SignInAdopt(l) ==
  /\ login[l].pc = "adopt"
  /\ LET r == login[l]
     IN IF r.user \in account
        THEN /\ apple' = [apple EXCEPT ![r.user] = r.apple]
             /\ RecordIdentity(r.user, r.apple, r.email)
        ELSE UNCHANGED <<apple, identity, consent>>
  /\ login' = [login EXCEPT ![l] = Idle]
  /\ UNCHANGED <<time, account, applied, command, issued, conflicted, left>>

-----------------------------------------------------------------------------
\* delete_user takes the proof, the permissions and the receipts of commands.
DeleteUser(u) ==
  /\ u \in account
  /\ account' = account \ {u}
  /\ apple' = [apple EXCEPT ![u] = None]
  /\ identity' = [identity EXCEPT ![u] = None]
  /\ consent' = [consent EXCEPT ![u] = FirstRow]
  /\ applied' = {c \in applied : c.user # u}
  /\ UNCHANGED <<time, command, login, issued, conflicted, left>>

ConsentNext ==
  \/ Tick
  \/ \E u \in User, id \in RequestId, p \in {"search", "email"}, b \in BOOLEAN :
       SendCommand(u, id, p, b)
  \/ \E c \in command : UpdateConsent(c) \/ RefuseCommand(c)
  \/ \E l \in Login :
       \/ \E u \in User, e \in Email : VerifyStart(l, u, e)
       \/ \E u \in User, a \in Subject, e \in Email \cup {None} : SignInStart(l, u, a, e)
       \/ VerifyCommit(l) \/ SignInLookup(l) \/ SignInRecord(l) \/ SignInAdopt(l)
  \/ \E u \in User : DeleteUser(u)

ConsentSpec == ConsentInit /\ [][ConsentNext]_consentVars

-----------------------------------------------------------------------------
(* Properties. *)

\* Every variable holds a value of its table or request.
ConsentTypeOK ==
  /\ time \in Nat
  /\ account \subseteq User
  /\ apple \in [User -> Subject \cup {None}]
  /\ identity \in [User -> Identity \cup {None}]
  /\ consent \in [User -> Row]
  /\ applied \subseteq Command
  /\ command \subseteq Command
  /\ login \in [Login -> LoginState]
  /\ issued \in Nat
  /\ conflicted \subseteq Command
  /\ left \in [Event -> Nat]

\* ai_consent.py: "a delayed Allow for the previous sender cannot apply to the new
\* identity": a command is accepted only in the very state of proof and
\* permissions that the app had read, however late or often it arrives.
AcceptedAsSeen ==
  [][\A c \in applied' \ applied : c.seen = SeenNow(c.user)]_consentVars

\* docs/ai-consent-v1.md: "An older completion cannot overwrite a newer proof or
\* consent change": a verification that changes the proof finds what it read
\* before it waited for Apple.
OlderVerificationHarmless ==
  [][\A l \in Login : LET r == login[l] IN
       (r.pc = "verify" /\ login'[l] = Idle /\ identity' # identity)
         => r.seen = SeenNow(r.user)]_consentVars

\* docs/ai-consent-v1.md: "an idempotent replay": a command that was accepted is
\* not answered with a conflict when it arrives again.
ReplayAcknowledged == applied \cap conflicted = {}
=============================================================================
