---------------------------- MODULE ConsentProofs ----------------------------
(* Proofs about AIConsent, for any accounts, commands, requests and budgets, and about      *)
(* EmailIntake: its types, and that it implements EmailAuthority.                           *)
EXTENDS EmailIntake, TLAPS

-----------------------------------------------------------------------------
(* AIConsent. *)

\* What was read at a revision is what holds, as long as the revision does.
ReadAt(u, revision, seen) ==
  u \in account =>
    /\ revision <= consent[u].revision
    /\ revision = consent[u].revision => seen = SeenNow(u)

\* So for every command and every verification.
SeenInv ==
  /\ \A c \in command : ReadAt(c.user, c.expected, c.seen)
  /\ \A l \in Login : login[l].pc = "verify" =>
       ReadAt(login[l].user, login[l].expected, login[l].seen)

\* A conflict lasts: the revision has passed, or the request id is another's.
ConflictInv ==
  \A c \in conflicted : c.user \in account =>
    /\ c \notin applied
    /\ \/ c.expected < consent[c.user].revision
       \/ \E d \in applied : <<d.user, d.id>> = <<c.user, c.id>>

\* Receipts belong to accounts that exist, and to commands that were sent.
AppliedInv == \A c \in applied : c.user \in account /\ c \in command

ConflictedInv == conflicted \subseteq command

ConsentInv == ConsentTypeOK /\ SeenInv /\ ConflictInv /\ AppliedInv /\ ConflictedInv

-----------------------------------------------------------------------------
(* Rows and proofs. *)

LEMMA RevokedRow ==
  ASSUME NEW row \in Row
  PROVE  Revoked(row) \in Row /\ Revoked(row).revision = row.revision + 1
BY DEF Row, Revoked

LEMMA UpdatedRow ==
  ASSUME NEW row \in Row, NEW c \in Command, issued \in Nat, time \in Nat
  PROVE  Updated(row, c) \in Row /\ Updated(row, c).revision = row.revision + 1
<1>1. Enabled(c.user) \in BOOLEAN
  BY DEF Enabled
<1>2. CASE c.purpose = "search"
  <2>1. Updated(row, c) = [revision |-> row.revision + 1, search |-> c.enabled,
                           email |-> Enabled(c.user), grant |-> row.grant]
    BY <1>2 DEF Updated
  <2>2. c.enabled \in BOOLEAN
    BY DEF Command
  <2> QED
    BY <2>1, <2>2, <1>1 DEF Row
<1>3. CASE c.purpose # "search"
  <2> DEFINE g == IF c.enabled THEN [id |-> issued + 1, at |-> time] ELSE None
  <2>1. Updated(row, c) = [revision |-> row.revision + 1, search |-> row.search,
                           email |-> c.enabled, grant |-> g]
    BY <1>3 DEF Updated
  <2>2. g \in Grant \cup {None}
    BY DEF Grant
  <2>3. c.enabled \in BOOLEAN
    BY DEF Command
  <2> HIDE DEF g
  <2> QED
    BY <2>1, <2>2, <2>3 DEF Row
<1> QED
  BY <1>2, <1>3

LEMMA NewIdentityType ==
  ASSUME NEW a \in Subject, NEW e \in Email \cup {None}
  PROVE  NewIdentity(a, e) \in Identity \cup {None}
BY DEF NewIdentity, Identity

\* A change of what the app reads of an account is seen in the revision.
Advances(u) ==
  \/ identity'[u] = identity[u] /\ consent'[u] = consent[u]
  \/ consent'[u].revision > consent[u].revision

LEMMA RecordAdvances ==
  ASSUME ConsentTypeOK, NEW u \in User, NEW a \in Subject, NEW e \in Email \cup {None},
         RecordIdentity(u, a, e)
  PROVE  /\ identity' \in [User -> Identity \cup {None}]
         /\ consent' \in [User -> Row]
         /\ \A v \in User : Advances(v)
<1> USE DEF ConsentTypeOK
<1>1. CASE identity[u] = NewIdentity(a, e)
  BY <1>1 DEF RecordIdentity, Advances
<1>2. CASE identity[u] # NewIdentity(a, e)
  <2>1. /\ identity' = [identity EXCEPT ![u] = NewIdentity(a, e)]
        /\ consent' = [consent EXCEPT ![u] = Revoked(consent[u])]
    BY <1>2 DEF RecordIdentity
  <2>2. /\ Revoked(consent[u]) \in Row
        /\ Revoked(consent[u]).revision = consent[u].revision + 1
    BY RevokedRow
  <2>3. consent[u].revision \in Nat
    BY DEF Row
  <2> QED
    BY <2>1, <2>2, <2>3, NewIdentityType DEF Advances
<1> QED
  BY <1>1, <1>2

\* What a request waiting for Apple holds, read off its state.
LEMMA LoginFields ==
  ASSUME ConsentTypeOK, NEW l \in Login
  PROVE  /\ login[l].pc \in {"verify", "record", "adopt", "signin"} =>
              /\ login[l].user \in User
              /\ login[l].apple \in Subject
              /\ login[l].email \in Email \cup {None}
         /\ login[l].pc = "verify" => login[l].expected \in Nat /\ login[l].seen \in Seen
BY DEF ConsentTypeOK, LoginState

-----------------------------------------------------------------------------
\* Every variable keeps its type, one action at a time.
LEMMA ConsentNextType == ConsentTypeOK /\ [ConsentNext]_consentVars => ConsentTypeOK'
<1> SUFFICES ASSUME ConsentTypeOK, [ConsentNext]_consentVars PROVE ConsentTypeOK'
  OBVIOUS
<1> USE AIConsentAssumption DEF ConsentTypeOK
<1>1. ASSUME Tick PROVE ConsentTypeOK'
  BY <1>1 DEF Tick, Spend, Event
<1>2. ASSUME NEW u \in User, NEW id \in RequestId, NEW p \in {"search", "email"},
             NEW b \in BOOLEAN, SendCommand(u, id, p, b)
      PROVE  ConsentTypeOK'
  <2> DEFINE c == [user |-> u, id |-> id, purpose |-> p, enabled |-> b,
                   expected |-> consent[u].revision, seen |-> SeenNow(u)]
  <2>1. consent[u] \in Row /\ consent[u].revision \in Nat
    BY DEF Row
  <2>2. SeenNow(u) \in Seen
    BY <2>1 DEF SeenNow, Seen
  <2>3. c \in Command
    BY <2>1, <2>2 DEF Command
  <2>4. command' = command \cup {c} /\ Spend("command")
    BY <1>2 DEF SendCommand
  <2> HIDE DEF c
  <2> QED
    BY <1>2, <2>3, <2>4 DEF SendCommand, Spend, Event
<1>3. ASSUME NEW c \in command, UpdateConsent(c) PROVE ConsentTypeOK'
  <2>1. c \in Command /\ c.user \in User
    BY DEF Command
  <2>2. Updated(consent[c.user], c) \in Row
    BY <2>1, UpdatedRow
  <2> QED
    BY <1>3, <2>1, <2>2 DEF UpdateConsent
<1>4. ASSUME NEW c \in command, RefuseCommand(c) PROVE ConsentTypeOK'
  BY <1>4 DEF RefuseCommand
<1>5. ASSUME NEW l \in Login, NEW u \in User, NEW e \in Email, VerifyStart(l, u, e)
      PROVE  ConsentTypeOK'
  <2> DEFINE r == [pc |-> "verify", user |-> u, apple |-> apple[u], email |-> e,
                   expected |-> consent[u].revision, seen |-> SeenNow(u)]
  <2>1. consent[u] \in Row /\ consent[u].revision \in Nat
    BY DEF Row
  <2>2. SeenNow(u) \in Seen
    BY <2>1 DEF SeenNow, Seen
  <2>3. apple[u] \in Subject
    BY <1>5 DEF VerifyStart
  <2>4. r \in LoginState
    BY <2>1, <2>2, <2>3 DEF LoginState
  <2>5. login' = [login EXCEPT ![l] = r] /\ Spend("login")
    BY <1>5 DEF VerifyStart
  <2> HIDE DEF r
  <2> QED
    BY <1>5, <2>4, <2>5 DEF VerifyStart, Spend, Event
<1>6. ASSUME NEW l \in Login, VerifyCommit(l) PROVE ConsentTypeOK'
  <2>1. identity' \in [User -> Identity \cup {None}] /\ consent' \in [User -> Row]
    BY <1>6, RecordAdvances, LoginFields DEF VerifyCommit
  <2>2. login' \in [Login -> LoginState]
    BY <1>6 DEF VerifyCommit, LoginState, Idle
  <2> QED
    BY <1>6, <2>1, <2>2 DEF VerifyCommit
<1>7. ASSUME NEW l \in Login, NEW u \in User, NEW a \in Subject, NEW e \in Email \cup {None},
             SignInStart(l, u, a, e)
      PROVE  ConsentTypeOK'
  BY <1>7 DEF SignInStart, LoginState, Spend, Event
<1>8. ASSUME NEW l \in Login, SignInLookup(l) PROVE ConsentTypeOK'
  <2>1. login[l] \in [pc : {"signin"}, user : User, apple : Subject, email : Email \cup {None}]
    BY <1>8 DEF SignInLookup, LoginState
  <2>2. login' \in [Login -> LoginState]
    BY <1>8, <2>1 DEF SignInLookup, LoginState
  <2> QED
    BY <1>8, <2>2 DEF SignInLookup
<1>9. ASSUME NEW l \in Login, SignInRecord(l) PROVE ConsentTypeOK'
  <2>1. identity' \in [User -> Identity \cup {None}] /\ consent' \in [User -> Row]
    BY <1>9, RecordAdvances, LoginFields DEF SignInRecord
  <2>2. login' \in [Login -> LoginState]
    BY <1>9 DEF SignInRecord, LoginState, Idle
  <2> QED
    BY <1>9, <2>1, <2>2 DEF SignInRecord
<1>10. ASSUME NEW l \in Login, SignInAdopt(l) PROVE ConsentTypeOK'
  <2>1. identity' \in [User -> Identity \cup {None}] /\ consent' \in [User -> Row]
    BY <1>10, RecordAdvances, LoginFields DEF SignInAdopt
  <2>2. login' \in [Login -> LoginState]
    BY <1>10 DEF SignInAdopt, LoginState, Idle
  <2>3. apple' \in [User -> Subject \cup {None}]
    BY <1>10, LoginFields DEF SignInAdopt
  <2> QED
    BY <1>10, <2>1, <2>2, <2>3 DEF SignInAdopt
<1>11. ASSUME NEW u \in User, DeleteUser(u) PROVE ConsentTypeOK'
  <2>1. FirstRow \in Row
    BY DEF FirstRow, Row
  <2> QED
    BY <1>11, <2>1 DEF DeleteUser
<1>20. CASE UNCHANGED consentVars
  BY <1>20 DEF consentVars
<1> QED
  BY <1>1, <1>2, <1>3, <1>4, <1>5, <1>6, <1>7, <1>8, <1>9, <1>10, <1>11, <1>20 DEF ConsentNext

\* No step brings an account back, and an account that stays advances.
LEMMA StepAdvances ==
  ASSUME ConsentTypeOK, [ConsentNext]_consentVars, NEW u \in account'
  PROVE  u \in account /\ Advances(u)
<1>a. account' \subseteq account
  BY DEF ConsentNext, consentVars, Tick, SendCommand, UpdateConsent, RefuseCommand, VerifyStart,
         VerifyCommit, SignInStart, SignInLookup, SignInRecord, SignInAdopt, DeleteUser
<1>b. u \in account /\ u \in User
  BY <1>a DEF ConsentTypeOK
<1>c. identity' = identity /\ consent' = consent => Advances(u)
  BY DEF Advances
<1>1. ASSUME NEW c \in command, UpdateConsent(c) PROVE Advances(u)
  <2>1. c \in Command /\ c.user \in User
    BY DEF Command, ConsentTypeOK
  <2>2. Updated(consent[c.user], c).revision = consent[c.user].revision + 1
    BY <2>1, UpdatedRow DEF ConsentTypeOK
  <2>3. consent[c.user].revision \in Nat
    BY <2>1 DEF ConsentTypeOK, Row
  <2> QED
    BY <1>1, <1>b, <2>1, <2>2, <2>3 DEF UpdateConsent, Advances, ConsentTypeOK
<1>2. ASSUME NEW l \in Login, VerifyCommit(l) \/ SignInRecord(l) \/ SignInAdopt(l)
      PROVE  Advances(u)
  BY <1>2, <1>b, <1>c, RecordAdvances, LoginFields DEF VerifyCommit, SignInRecord, SignInAdopt
<1>3. ASSUME NEW v \in User, DeleteUser(v) PROVE Advances(u)
  BY <1>3, <1>b DEF DeleteUser, Advances, ConsentTypeOK
<1>4. ASSUME Tick \/ (\E c \in command : RefuseCommand(c)) \/ UNCHANGED consentVars
      PROVE  Advances(u)
  BY <1>4, <1>c DEF Tick, RefuseCommand, consentVars
<1>5. ASSUME NEW v \in User, NEW id \in RequestId, NEW p \in {"search", "email"}, NEW b \in BOOLEAN,
             SendCommand(v, id, p, b)
      PROVE  Advances(u)
  BY <1>5, <1>c DEF SendCommand
<1>6. ASSUME NEW l \in Login, NEW v \in User, NEW e \in Email, VerifyStart(l, v, e)
      PROVE  Advances(u)
  BY <1>6, <1>c DEF VerifyStart
<1>7. ASSUME NEW l \in Login, NEW v \in User, NEW a \in Subject, NEW e \in Email \cup {None},
             SignInStart(l, v, a, e)
      PROVE  Advances(u)
  BY <1>7, <1>c DEF SignInStart
<1>8. ASSUME NEW l \in Login, SignInLookup(l) PROVE Advances(u)
  BY <1>8, <1>c DEF SignInLookup
<1>9. Advances(u)
  BY <1>1, <1>2, <1>3, <1>4, <1>5, <1>6, <1>7, <1>8 DEF ConsentNext
<1> QED
  BY <1>b, <1>9

\* So what was read before a step is still read right after it.
LEMMA ReadLasts ==
  ASSUME ConsentTypeOK, ConsentTypeOK', [ConsentNext]_consentVars,
         NEW u \in User, NEW revision \in Nat, NEW seen, ReadAt(u, revision, seen)
  PROVE  ReadAt(u, revision, seen)'
<1> SUFFICES ASSUME u \in account'
             PROVE  /\ revision <= consent'[u].revision
                    /\ revision = consent'[u].revision => seen = SeenNow(u)'
  BY DEF ReadAt
<1>1. u \in account /\ Advances(u)
  BY StepAdvances
<1>2. consent[u].revision \in Nat /\ consent'[u].revision \in Nat
  BY DEF ConsentTypeOK, Row
<1>3. CASE identity'[u] = identity[u] /\ consent'[u] = consent[u]
  BY <1>1, <1>3 DEF ReadAt, SeenNow
<1>4. CASE consent'[u].revision > consent[u].revision
  BY <1>1, <1>2, <1>4 DEF ReadAt
<1> QED
  BY <1>1, <1>3, <1>4 DEF Advances

LEMMA NextSeen == ConsentInv /\ [ConsentNext]_consentVars => SeenInv'
<1> SUFFICES ASSUME ConsentInv, [ConsentNext]_consentVars PROVE SeenInv'
  OBVIOUS
<1>a. ConsentTypeOK /\ ConsentTypeOK'
  BY ConsentNextType DEF ConsentInv
<1>1. ASSUME NEW c \in command' PROVE ReadAt(c.user, c.expected, c.seen)'
  <2>1. CASE c \in command
    <3>1. c.user \in User /\ c.expected \in Nat
      BY <1>a, <2>1 DEF ConsentTypeOK, Command
    <3>2. ReadAt(c.user, c.expected, c.seen)
      BY <2>1 DEF ConsentInv, SeenInv
    <3> QED
      BY <1>a, <3>1, <3>2, ReadLasts
  <2>2. CASE c \notin command
    <3>1. PICK u \in User, id \in RequestId, p \in {"search", "email"}, b \in BOOLEAN :
            SendCommand(u, id, p, b)
      BY <2>2 DEF ConsentNext, consentVars, Tick, UpdateConsent, RefuseCommand, VerifyStart,
            VerifyCommit, SignInStart, SignInLookup, SignInRecord, SignInAdopt, DeleteUser
    <3>2. c.user = u /\ c.expected = consent[u].revision /\ c.seen = SeenNow(u)
      BY <2>2, <3>1 DEF SendCommand
    <3>3. UNCHANGED <<account, identity, consent>>
      BY <3>1 DEF SendCommand
    <3>4. consent[u].revision \in Nat
      BY <1>a DEF ConsentTypeOK, Row
    <3> QED
      BY <3>2, <3>3, <3>4 DEF ReadAt, SeenNow
  <2> QED
    BY <2>1, <2>2
<1>2. ASSUME NEW l \in Login, login'[l].pc = "verify"
      PROVE  ReadAt(login[l].user, login[l].expected, login[l].seen)'
  <2>1. CASE login'[l] = login[l]
    <3>1. ReadAt(login[l].user, login[l].expected, login[l].seen)
      BY <1>2, <2>1 DEF ConsentInv, SeenInv
    <3>2. login[l].user \in User /\ login[l].expected \in Nat /\ login[l].seen \in Seen
      BY <1>a, <1>2, <2>1, LoginFields
    <3>3. PICK u \in User, n \in Nat, seen \in Seen :
            u = login[l].user /\ n = login[l].expected /\ seen = login[l].seen
      BY <3>2
    <3>4. ReadAt(u, n, seen)'
      BY <1>a, <3>1, <3>3, ReadLasts
    <3>5. u = login'[l].user /\ n = login'[l].expected /\ seen = login'[l].seen
      BY <2>1, <3>3
    <3> QED
      BY <3>4, <3>5 DEF ReadAt
  <2>2. CASE login'[l] # login[l]
    <3>1. PICK u \in User, e \in Email : VerifyStart(l, u, e)
      <4>1. PICK k \in Login :
              \/ \E u \in User, e \in Email : VerifyStart(k, u, e)
              \/ \E u \in User, c \in Subject, e \in Email \cup {None} : SignInStart(k, u, c, e)
              \/ VerifyCommit(k) \/ SignInLookup(k) \/ SignInRecord(k) \/ SignInAdopt(k)
        BY <2>2 DEF ConsentNext, consentVars, Tick, SendCommand, UpdateConsent, RefuseCommand,
              DeleteUser
      <4>2. ASSUME NEW u \in User, NEW c \in Subject, NEW e \in Email \cup {None},
                   SignInStart(k, u, c, e)
            PROVE  FALSE
        BY <4>2, <1>2, <2>2, <1>a DEF SignInStart, ConsentTypeOK
      <4>3. ~(VerifyCommit(k) \/ SignInRecord(k) \/ SignInAdopt(k))
        BY <1>2, <2>2, <1>a DEF VerifyCommit, SignInRecord, SignInAdopt, ConsentTypeOK, Idle
      <4>4. ASSUME SignInLookup(k) PROVE FALSE
        BY <4>4, <1>2, <2>2, <1>a DEF SignInLookup, ConsentTypeOK, LoginState
      <4>5. ASSUME NEW u \in User, NEW e \in Email, VerifyStart(k, u, e) PROVE k = l
        BY <4>5, <2>2, <1>a DEF VerifyStart, ConsentTypeOK
      <4> QED
        BY <4>1, <4>2, <4>3, <4>4, <4>5
    <3>2. /\ login'[l].user = u /\ login'[l].expected = consent[u].revision
          /\ login'[l].seen = SeenNow(u)
      BY <3>1, <1>a DEF VerifyStart, ConsentTypeOK
    <3>3. UNCHANGED <<account, identity, consent>>
      BY <3>1 DEF VerifyStart
    <3>4. consent[u].revision \in Nat
      BY <1>a DEF ConsentTypeOK, Row
    <3> QED
      BY <3>2, <3>3, <3>4 DEF ReadAt, SeenNow
  <2> QED
    BY <2>1, <2>2
<1> QED
  BY <1>1, <1>2 DEF SeenInv

-----------------------------------------------------------------------------
\* What happens to the commands: they are only ever added, and only two steps
\* answer one.
LEMMA CommandSteps ==
  ASSUME [ConsentNext]_consentVars
  PROVE  /\ command \subseteq command'
         /\ \/ \E c \in command : UpdateConsent(c) \/ RefuseCommand(c)
            \/ \E u \in User : DeleteUser(u)
            \/ UNCHANGED <<account, applied, conflicted>>
BY DEF ConsentNext, consentVars, Tick, SendCommand, UpdateConsent, RefuseCommand, VerifyStart,
       VerifyCommit, SignInStart, SignInLookup, SignInRecord, SignInAdopt, DeleteUser

LEMMA NextApplied ==
  ConsentInv /\ [ConsentNext]_consentVars => AppliedInv' /\ ConflictedInv'
<1> SUFFICES ASSUME ConsentInv, [ConsentNext]_consentVars PROVE AppliedInv' /\ ConflictedInv'
  OBVIOUS
<1> USE DEF ConsentInv, AppliedInv, ConflictedInv
<1>1. ASSUME NEW c \in command, UpdateConsent(c) PROVE AppliedInv' /\ ConflictedInv'
  BY <1>1 DEF UpdateConsent
<1>2. ASSUME NEW c \in command, RefuseCommand(c) PROVE AppliedInv' /\ ConflictedInv'
  BY <1>2 DEF RefuseCommand
<1>3. ASSUME NEW u \in User, DeleteUser(u) PROVE AppliedInv' /\ ConflictedInv'
  BY <1>3 DEF DeleteUser
<1>4. CASE UNCHANGED <<account, applied, conflicted>>
  BY <1>4, CommandSteps
<1> QED
  BY <1>1, <1>2, <1>3, <1>4, CommandSteps

\* A command that conflicts has been passed by the revision or by its request id.
LEMMA ConflictMeans ==
  ASSUME ConsentInv, NEW c \in command, c.user \in account, Answer(c) = "conflict"
  PROVE  /\ c \notin applied
         /\ \/ c.expected < consent[c.user].revision
            \/ \E d \in applied : <<d.user, d.id>> = <<c.user, c.id>>
<1>1. c \notin applied
  BY DEF Answer, SameCommand
<1>2. ReadAt(c.user, c.expected, c.seen)
  BY DEF ConsentInv, SeenInv
<1>3. c.expected \in Nat /\ consent[c.user].revision \in Nat
  BY DEF ConsentInv, ConsentTypeOK, Command, Row
<1>4. CASE ~\E d \in applied : <<d.user, d.id>> = <<c.user, c.id>>
  <2>1. Refusal(c) = "conflict"
    BY <1>4 DEF Answer
  <2>2. consent[c.user].revision # c.expected
    BY <2>1 DEF Refusal
  <2> QED
    BY <1>1, <1>2, <1>3, <2>2 DEF ReadAt
<1> QED
  BY <1>1, <1>4

\* A command that is accepted neither.
LEMMA AcceptedMeans ==
  ASSUME NEW c, Answer(c) = "accepted"
  PROVE  /\ consent[c.user].revision = c.expected
         /\ ~\E d \in applied : <<d.user, d.id>> = <<c.user, c.id>>
BY DEF Answer, Refusal

LEMMA NextConflict == ConsentInv /\ [ConsentNext]_consentVars => ConflictInv'
<1> SUFFICES ASSUME ConsentInv, [ConsentNext]_consentVars, NEW c \in conflicted', c.user \in account'
             PROVE  /\ c \notin applied'
                    /\ \/ c.expected < consent'[c.user].revision
                       \/ \E d \in applied' : <<d.user, d.id>> = <<c.user, c.id>>
  BY DEF ConflictInv
<1>a. ConsentTypeOK /\ ConsentTypeOK'
  BY ConsentNextType DEF ConsentInv
<1>b. c.user \in account /\ Advances(c.user)
  BY <1>a, StepAdvances
<1>c. c \in command /\ c.expected \in Nat
  <2>1. conflicted \subseteq command
    BY DEF ConsentInv, ConflictedInv
  <2>2. conflicted' \subseteq conflicted \cup command
    BY <2>1, CommandSteps DEF UpdateConsent, RefuseCommand, DeleteUser
  <2> QED
    BY <1>a, <2>1, <2>2 DEF ConsentTypeOK, Command
<1>d. c.user \in User /\ consent[c.user].revision \in Nat /\ consent'[c.user].revision \in Nat
  BY <1>a, <1>b DEF ConsentTypeOK, Row
<1>e. consent[c.user].revision <= consent'[c.user].revision
  BY <1>b, <1>d DEF Advances
<1>1. \A d \in applied : d.user = c.user => d \in applied'
  BY CommandSteps, <1>b DEF UpdateConsent, RefuseCommand, DeleteUser
<1>2. c \in conflicted =>
        /\ c \notin applied
        /\ \/ c.expected < consent[c.user].revision
           \/ \E d \in applied : <<d.user, d.id>> = <<c.user, c.id>>
  BY <1>b DEF ConsentInv, ConflictInv
<1>3. c \notin conflicted => RefuseCommand(c)
  BY CommandSteps DEF UpdateConsent, RefuseCommand, DeleteUser
<1>4. /\ c \notin applied
      /\ \/ c.expected < consent[c.user].revision
         \/ \E d \in applied : <<d.user, d.id>> = <<c.user, c.id>>
  <2>1. CASE c \in conflicted
    BY <1>2, <2>1
  <2>2. CASE c \notin conflicted
    BY <1>3, <1>b, <1>c, <2>2, ConflictMeans DEF RefuseCommand
  <2> QED
    BY <2>1, <2>2
<1>5. c \notin applied'
  <2>1. ASSUME c \in applied' PROVE UpdateConsent(c)
    BY <1>4, <2>1, CommandSteps DEF UpdateConsent, RefuseCommand, DeleteUser
  <2>2. ~UpdateConsent(c)
    BY <1>4, <1>d, <1>c, AcceptedMeans DEF UpdateConsent
  <2> QED
    BY <2>1, <2>2
<1>6. CASE c.expected < consent[c.user].revision
  BY <1>5, <1>6, <1>c, <1>d, <1>e
<1>7. CASE \E d \in applied : <<d.user, d.id>> = <<c.user, c.id>>
  BY <1>1, <1>5, <1>7
<1> QED
  BY <1>4, <1>6, <1>7

LEMMA ConsentInitInv == ConsentInit => ConsentInv
BY AIConsentAssumption DEF ConsentInit, ConsentInv, ConsentTypeOK, SeenInv, ConflictInv, AppliedInv,
   ConflictedInv, FirstRow, Row, LoginState, Idle, Event

LEMMA ConsentNextInv == ConsentInv /\ [ConsentNext]_consentVars => ConsentInv'
BY ConsentNextType, NextSeen, NextApplied, NextConflict DEF ConsentInv

LEMMA AlwaysConsentInv == ConsentSpec => []ConsentInv
<1> QED
  BY ConsentInitInv, ConsentNextInv, PTL DEF ConsentSpec

-----------------------------------------------------------------------------
(* The properties. *)

\* Every variable keeps its type.
THEOREM ConsentTypeCorrect == ConsentSpec => []ConsentTypeOK
BY AlwaysConsentInv, PTL DEF ConsentInv

\* A command is accepted only in the state of proof and permissions it was given in.
THEOREM AcceptedCorrect == ConsentSpec => AcceptedAsSeen
<1>1. ConsentInv /\ [ConsentNext]_consentVars =>
        [\A c \in applied' \ applied : c.seen = SeenNow(c.user)]_consentVars
  <2> SUFFICES ASSUME ConsentInv, [ConsentNext]_consentVars, NEW c \in applied' \ applied
               PROVE  c.seen = SeenNow(c.user)
    OBVIOUS
  <2>1. c \in command /\ UpdateConsent(c)
    BY CommandSteps DEF UpdateConsent, RefuseCommand, DeleteUser
  <2>2. c.user \in account /\ consent[c.user].revision = c.expected
    BY <2>1, AcceptedMeans DEF UpdateConsent
  <2> QED
    BY <2>1, <2>2 DEF ConsentInv, SeenInv, ReadAt
<1> QED
  BY <1>1, AlwaysConsentInv, PTL DEF ConsentSpec, AcceptedAsSeen

\* A command that was accepted is never answered with a conflict.
THEOREM ReplayCorrect == ConsentSpec => []ReplayAcknowledged
<1>1. ConsentInv => ReplayAcknowledged
  BY DEF ConsentInv, ConflictInv, AppliedInv, ReplayAcknowledged
<1> QED
  BY <1>1, AlwaysConsentInv, PTL

\* A verification that changes a proof finds what it read before Apple answered.
THEOREM OlderVerificationCorrect == ConsentSpec => OlderVerificationHarmless
<1>1. ConsentInv /\ [ConsentNext]_consentVars =>
        [\A l \in Login : LET r == login[l] IN
           (r.pc = "verify" /\ login'[l] = Idle /\ identity' # identity)
             => r.seen = SeenNow(r.user)]_consentVars
  <2> SUFFICES ASSUME ConsentInv, [ConsentNext]_consentVars, NEW l \in Login,
                      login[l].pc = "verify", login'[l] = Idle, identity' # identity
               PROVE  login[l].seen = SeenNow(login[l].user)
    OBVIOUS
  <2>a. ConsentTypeOK
    BY DEF ConsentInv
  <2>b. login'[l] # login[l]
    BY DEF Idle
  <2>1. PICK k \in Login : VerifyCommit(k) \/ SignInRecord(k) \/ SignInAdopt(k)
    BY <2>b DEF ConsentNext, consentVars, Tick, SendCommand, UpdateConsent, RefuseCommand,
       VerifyStart, SignInStart, SignInLookup, DeleteUser
  <2>2. k = l
    BY <2>a, <2>b, <2>1 DEF VerifyCommit, SignInRecord, SignInAdopt, ConsentTypeOK
  <2>3. VerifyCommit(l)
    BY <2>1, <2>2 DEF SignInRecord, SignInAdopt
  <2>4. Matches(login[l])
    BY <2>3 DEF VerifyCommit
  <2> QED
    BY <2>4 DEF Matches, ConsentInv, SeenInv, ReadAt
<1> QED
  BY <1>1, AlwaysConsentInv, PTL DEF ConsentSpec, OlderVerificationHarmless

-----------------------------------------------------------------------------
(* EmailIntake. *)

\* A proof is for the Apple account its user is signed in with.
ConsistentInv == \A u \in User : identity[u] # None => identity[u].apple = apple[u]

Live(j) == job[j].pc \notin {"idle", "new"}

\* A job that has claimed its receipt still holds it: the receipt is bound as the
\* job knows, and the sends of the message are its own.
Holds(j) ==
  LET r == job[j]
  IN /\ receipt[r.message] # None
     /\ receipt[r.message].user = r.user
     /\ receipt[r.message].grant = r.grant
     /\ sends[r.message] = r.n
     /\ r.pc \in {"claimed", "attempt"} => r.n < MaxAttempts
     /\ r.pc \in {"sending", "got", "handled", "link"} => r.n > 0
     /\ r.pc \notin Final => r.message \notin saved

JobInv ==
  /\ \A j \in Job : job[j] # Idle => mail[job[j].message] # None
  /\ \A j \in Job : Live(j) => Holds(j)
  /\ \A i \in Job, j \in Job : Live(i) /\ Live(j) /\ i # j => job[i].message # job[j].message
  /\ \A m \in Message : receipt[m] = None => sends[m] = 0 /\ m \notin saved

IInv == TypeOK /\ ConsistentInv /\ JobInv

-----------------------------------------------------------------------------
(* Steps of the requests. *)

\* With the account of the token, a proof is recorded or stays as it is.
LEMMA RecordMaps ==
  ASSUME ConsentTypeOK, ConsistentInv, NEW u \in User, NEW a \in Subject,
         NEW e \in Email \cup {None}, RecordIdentity(u, a, e), apple' = [apple EXCEPT ![u] = a]
  PROVE  /\ ConsistentInv'
         /\ \/ UNCHANGED <<provenAddress, permission>>
            \/ /\ provenAddress' = [provenAddress EXCEPT ![u] = e]
               /\ permission' = [permission EXCEPT ![u] = None]
<1> USE AIConsentAssumption DEF ConsentTypeOK
<1>a. \A v \in User : v # u => apple'[v] = apple[v]
  OBVIOUS
<1>1. CASE identity[u] = NewIdentity(a, e)
  <2>1. identity' = identity /\ consent' = consent
    BY <1>1 DEF RecordIdentity
  <2>2. CASE e = None
    <3>1. identity[u] = None
      BY <1>1, <2>2 DEF NewIdentity
    <3> QED
      BY <1>a, <2>1, <3>1 DEF ConsistentInv, provenAddress, permission, Enabled, Proven
  <2>3. CASE e # None
    <3>1. identity[u].apple = a /\ identity[u] # None
      BY <1>1, <2>3 DEF NewIdentity, Identity
    <3>2. apple' = apple
      BY <3>1 DEF ConsistentInv
    <3> QED
      BY <2>1, <3>2 DEF ConsistentInv, provenAddress, permission, Enabled, Proven
  <2> QED
    BY <2>2, <2>3
<1>2. CASE identity[u] # NewIdentity(a, e)
  <2>1. /\ identity' = [identity EXCEPT ![u] = NewIdentity(a, e)]
        /\ consent' = [consent EXCEPT ![u] = Revoked(consent[u])]
    BY <1>2 DEF RecordIdentity
  <2>2. /\ identity'[u] = NewIdentity(a, e) /\ apple'[u] = a
        /\ \A v \in User : v # u => identity'[v] = identity[v] /\ consent'[v] = consent[v]
    BY <2>1
  <2>3. ~consent'[u].email
    BY <2>1 DEF Revoked
  <2>4. ConsistentInv'
    BY <1>a, <2>2 DEF ConsistentInv, NewIdentity
  <2>5. provenAddress' = [provenAddress EXCEPT ![u] = e]
    <3>1. provenAddress'[u] = e
      <4>1. CASE e = None
        BY <2>2, <4>1 DEF provenAddress, Proven, NewIdentity
      <4>2. CASE e # None
        <5>1. NewIdentity(a, e) # None
          BY <4>2 DEF NewIdentity, Identity
        <5> QED
          BY <2>2, <4>2, <5>1 DEF provenAddress, Proven, NewIdentity
      <4> QED
        BY <4>1, <4>2
    <3>2. \A v \in User : v # u => provenAddress'[v] = provenAddress[v]
      BY <1>a, <2>2 DEF provenAddress, Proven
    <3> QED
      BY <3>1, <3>2 DEF provenAddress
  <2>6. permission' = [permission EXCEPT ![u] = None]
    <3>1. permission'[u] = None
      BY <2>3 DEF permission, Enabled
    <3>2. \A v \in User : v # u => permission'[v] = permission[v]
      BY <1>a, <2>2 DEF permission, Enabled, Proven
    <3> QED
      BY <3>1, <3>2 DEF permission
  <2> QED
    BY <2>4, <2>5, <2>6
<1> QED
  BY <1>1, <1>2

\* An accepted command gives, ends or keeps the permission.
LEMMA UpdateMaps ==
  ASSUME ConsentTypeOK, ConsistentInv, NEW c \in command, UpdateConsent(c)
  PROVE  /\ ConsistentInv'
         /\ provenAddress' = provenAddress
         /\ c.user \in User
         /\ \/ permission' = permission /\ issued' = issued
            \/ permission' = [permission EXCEPT ![c.user] = None] /\ issued' = issued
            \/ /\ provenAddress[c.user] # None
               /\ permission' = [permission EXCEPT ![c.user] = [id |-> issued + 1, at |-> time]]
               /\ issued' = issued + 1
<1> USE AIConsentAssumption DEF ConsentTypeOK
<1> DEFINE u == c.user
<1>a. c \in Command /\ u \in User /\ c.purpose \in {"search", "email"} /\ c.enabled \in BOOLEAN
  BY DEF Command
<1>b. /\ identity' = identity /\ apple' = apple
      /\ consent'[u] = Updated(consent[u], c)
      /\ \A v \in User : v # u => consent'[v] = consent[v]
  BY <1>a DEF UpdateConsent
<1>c. ConsistentInv' /\ provenAddress' = provenAddress
  BY <1>b DEF ConsistentInv, provenAddress, Proven
<1>d. \A v \in User : v # u => permission'[v] = permission[v]
  BY <1>b DEF permission, Enabled, Proven
<1>1. CASE c.purpose = "search"
  <2>1. consent'[u].grant = consent[u].grant /\ consent'[u].email = Enabled(u)
    BY <1>b, <1>1 DEF Updated
  <2>2. permission'[u] = permission[u]
    BY <1>a, <1>b, <2>1 DEF permission, Enabled, Proven
  <2>3. permission' = permission
    BY <1>a, <1>d, <2>2 DEF permission
  <2> QED
    BY <1>1, <1>a, <1>c, <2>3 DEF UpdateConsent
<1>2. CASE c.purpose = "email" /\ ~c.enabled
  <2>1. ~consent'[u].email
    BY <1>b, <1>2 DEF Updated
  <2>2. permission'[u] = None
    BY <1>a, <2>1 DEF permission, Enabled
  <2>3. permission' = [permission EXCEPT ![u] = None]
    BY <1>a, <1>d, <2>2 DEF permission
  <2> QED
    BY <1>2, <1>a, <1>c, <2>3 DEF UpdateConsent
<1>3. CASE c.purpose = "email" /\ c.enabled
  <2> DEFINE g == [id |-> issued + 1, at |-> time]
  <2>1. Proven(u)
    BY <1>3 DEF UpdateConsent, Answer, Refusal
  <2>2. consent'[u].email /\ consent'[u].grant = g
    BY <1>b, <1>3 DEF Updated
  <2>3. g # None
    BY DEF Grant
  <2>4. permission'[u] = g
    BY <1>a, <1>b, <2>1, <2>2, <2>3 DEF permission, Enabled, Proven
  <2>5. permission' = [permission EXCEPT ![u] = g]
    BY <1>a, <1>d, <2>4 DEF permission
  <2>6. provenAddress[u] # None
    BY <1>a, <2>1 DEF provenAddress, Proven, Identity
  <2> QED
    BY <1>3, <1>a, <1>c, <2>5, <2>6 DEF UpdateConsent
<1> QED
  BY <1>a, <1>1, <1>2, <1>3
\* A step of the requests is one of EmailAuthority's, or a stutter.
LEMMA ConsentMaps ==
  ASSUME ConsentTypeOK, ConsistentInv, ConsentNext, UNCHANGED intakeVars
  PROVE  ConsistentInv' /\ [Authority!Next]_(Authority!vars)
<1> USE AIConsentAssumption DEF ConsentTypeOK
<1> DEFINE Goal == ConsistentInv' /\ [Authority!Next]_(Authority!vars)
<1>a. UNCHANGED <<mail, binding, sends, saved>>
  BY DEF intakeVars, binding
<1>b. ASSUME UNCHANGED <<apple, identity, consent, issued, time>> PROVE Goal
  BY <1>a, <1>b DEF ConsistentInv, provenAddress, permission, Enabled, Proven, Authority!vars
<1>1. ASSUME Tick PROVE Goal
  <2>1. UNCHANGED <<issued, provenAddress, permission>> /\ ConsistentInv' /\ time' = time + 1
    BY <1>1 DEF Tick, ConsistentInv, provenAddress, permission, Enabled, Proven
  <2> QED
    BY <1>a, <2>1 DEF Authority!Next, Authority!Tick
<1>2. ASSUME NEW c \in command, UpdateConsent(c) PROVE Goal
  <2>1. time' = time
    BY <1>2 DEF UpdateConsent
  <2>2. /\ ConsistentInv'
        /\ provenAddress' = provenAddress
        /\ c.user \in User
        /\ \/ permission' = permission /\ issued' = issued
           \/ permission' = [permission EXCEPT ![c.user] = None] /\ issued' = issued
           \/ /\ provenAddress[c.user] # None
              /\ permission' = [permission EXCEPT ![c.user] = [id |-> issued + 1, at |-> time]]
              /\ issued' = issued + 1
    BY <1>2, UpdateMaps
  <2>3. CASE permission' = permission /\ issued' = issued
    BY <1>a, <2>1, <2>2, <2>3 DEF Authority!vars
  <2>4. CASE permission' = [permission EXCEPT ![c.user] = None] /\ issued' = issued
    <3>1. Authority!Deny(c.user)
      BY <1>a, <2>1, <2>2, <2>4 DEF Authority!Deny
    <3> QED
      BY <2>2, <3>1 DEF Authority!Next
  <2>5. CASE /\ provenAddress[c.user] # None
             /\ permission' = [permission EXCEPT ![c.user] = [id |-> issued + 1, at |-> time]]
             /\ issued' = issued + 1
    <3>1. Authority!Allow(c.user)
      BY <1>a, <2>1, <2>2, <2>5 DEF Authority!Allow
    <3> QED
      BY <2>2, <3>1 DEF Authority!Next
  <2> QED
    BY <2>2, <2>3, <2>4, <2>5
<1>c. ASSUME NEW u \in User, NEW a \in Subject, NEW e \in Email \cup {None},
             RecordIdentity(u, a, e), apple' = [apple EXCEPT ![u] = a],
             UNCHANGED <<time, issued>>
      PROVE  Goal
  <2>1. /\ ConsistentInv'
        /\ \/ UNCHANGED <<provenAddress, permission>>
           \/ /\ provenAddress' = [provenAddress EXCEPT ![u] = e]
              /\ permission' = [permission EXCEPT ![u] = None]
    BY <1>c, RecordMaps
  <2>2. CASE UNCHANGED <<provenAddress, permission>>
    BY <1>a, <1>c, <2>1, <2>2 DEF Authority!vars
  <2>3. CASE /\ provenAddress' = [provenAddress EXCEPT ![u] = e]
             /\ permission' = [permission EXCEPT ![u] = None]
    <3>1. Authority!Prove(u, e)
      BY <1>a, <1>c, <2>3 DEF Authority!Prove
    <3> QED
      BY <2>1, <3>1 DEF Authority!Next
  <2> QED
    BY <2>1, <2>2, <2>3
<1>3. ASSUME NEW l \in Login, VerifyCommit(l) PROVE Goal
  <2>1. CASE Matches(login[l])
    <3>1. PICK u \in User, a \in Subject, e \in Email \cup {None} :
            u = login[l].user /\ a = login[l].apple /\ e = login[l].email
      BY <1>3, LoginFields DEF VerifyCommit
    <3>2. RecordIdentity(u, a, e) /\ apple' = [apple EXCEPT ![u] = a]
      BY <1>3, <2>1, <3>1 DEF VerifyCommit, Matches
    <3> QED
      BY <1>3, <1>c, <3>2 DEF VerifyCommit
  <2>2. CASE ~Matches(login[l])
    BY <1>3, <1>b, <2>2 DEF VerifyCommit
  <2> QED
    BY <2>1, <2>2
<1>4. ASSUME NEW l \in Login, SignInRecord(l) PROVE Goal
  <2>1. PICK u \in User, a \in Subject, e \in Email \cup {None} :
          u = login[l].user /\ a = login[l].apple /\ e = login[l].email
    BY <1>4, LoginFields DEF SignInRecord
  <2>2. CASE u \in account /\ apple[u] = a
    <3>1. RecordIdentity(u, a, e) /\ apple' = [apple EXCEPT ![u] = a]
      BY <1>4, <2>1, <2>2 DEF SignInRecord
    <3> QED
      BY <1>4, <1>c, <3>1 DEF SignInRecord
  <2>3. CASE ~(u \in account /\ apple[u] = a)
    BY <1>4, <1>b, <2>1, <2>3 DEF SignInRecord
  <2> QED
    BY <2>2, <2>3
<1>5. ASSUME NEW l \in Login, SignInAdopt(l) PROVE Goal
  <2>1. PICK u \in User, a \in Subject, e \in Email \cup {None} :
          u = login[l].user /\ a = login[l].apple /\ e = login[l].email
    BY <1>5, LoginFields DEF SignInAdopt
  <2>2. CASE u \in account
    <3>1. RecordIdentity(u, a, e) /\ apple' = [apple EXCEPT ![u] = a]
      BY <1>5, <2>1, <2>2 DEF SignInAdopt
    <3> QED
      BY <1>5, <1>c, <3>1 DEF SignInAdopt
  <2>3. CASE u \notin account
    BY <1>5, <1>b, <2>1, <2>3 DEF SignInAdopt
  <2> QED
    BY <2>2, <2>3
<1>6. ASSUME NEW u \in User, DeleteUser(u) PROVE Goal
  <2>1. /\ identity'[u] = None
        /\ \A v \in User : v # u => /\ identity'[v] = identity[v] /\ consent'[v] = consent[v]
                                    /\ apple'[v] = apple[v]
    BY <1>6 DEF DeleteUser
  <2>2. ConsistentInv'
    BY <2>1 DEF ConsistentInv
  <2>3. provenAddress' = [provenAddress EXCEPT ![u] = None]
    BY <2>1 DEF provenAddress, Proven
  <2>4. permission' = [permission EXCEPT ![u] = None]
    BY <2>1 DEF permission, Enabled, Proven
  <2>5. Authority!Prove(u, None)
    BY <1>a, <1>6, <2>3, <2>4 DEF Authority!Prove, DeleteUser
  <2> QED
    BY <2>2, <2>5 DEF Authority!Next
<1>7. ASSUME NEW u \in User, NEW id \in RequestId, NEW p \in {"search", "email"}, NEW b \in BOOLEAN,
             SendCommand(u, id, p, b)
      PROVE  Goal
  BY <1>7, <1>b DEF SendCommand
<1>8. ASSUME NEW c \in command, RefuseCommand(c) PROVE Goal
  BY <1>8, <1>b DEF RefuseCommand
<1>9. ASSUME NEW l \in Login, NEW u \in User, NEW e \in Email, VerifyStart(l, u, e) PROVE Goal
  BY <1>9, <1>b DEF VerifyStart
<1>10. ASSUME NEW l \in Login, NEW u \in User, NEW a \in Subject, NEW e \in Email \cup {None},
              SignInStart(l, u, a, e)
       PROVE  Goal
  BY <1>10, <1>b DEF SignInStart
<1>11. ASSUME NEW l \in Login, SignInLookup(l) PROVE Goal
  BY <1>11, <1>b DEF SignInLookup
<1> HIDE DEF Goal
<1>12. Goal
  BY <1>1, <1>2, <1>3, <1>4, <1>5, <1>6, <1>7, <1>8, <1>9, <1>10, <1>11 DEF ConsentNext
<1> QED
  BY <1>12 DEF Goal
-----------------------------------------------------------------------------
(* Steps of the jobs: what they know. *)

Working == {"claimed", "attempt", "sending", "got", "handled", "link"} \cup Final

LEMMA JobFields ==
  ASSUME TypeOK, NEW j \in Job
  PROVE  /\ job[j] \in JobState
         /\ job[j] # Idle => job[j].message \in Message
         /\ Live(j) => /\ job[j].pc \in Working
                       /\ job[j].user \in User
                       /\ job[j].grant \in Nat
                       /\ job[j].n \in 0..MaxAttempts
                       /\ job[j] # Idle
         /\ ~Live(j) => job[j] = Idle \/ job[j].pc = "new"
BY DEF TypeOK, JobState, Live, Working, Idle, Final

\* A job that goes on, and what it keeps.
LEMMA AtKeeps ==
  ASSUME TypeOK, NEW j \in Job, Live(j), NEW p \in Working, At(j, p)
  PROVE  /\ job' \in [Job -> JobState]
         /\ job'[j].pc = p
         /\ job'[j].message = job[j].message
         /\ job'[j].user = job[j].user
         /\ job'[j].grant = job[j].grant
         /\ job'[j].n = job[j].n
         /\ \A i \in Job : i # j => job'[i] = job[i]
         /\ Live(j)' /\ job'[j] # Idle
<1> DEFINE r == [job[j] EXCEPT !.pc = p]
<1>1. job[j] \in [pc : Working, message : Message, user : User, grant : Nat, n : 0..MaxAttempts]
  BY DEF TypeOK, JobState, Live, Working
<1>2. /\ r \in [pc : Working, message : Message, user : User, grant : Nat, n : 0..MaxAttempts]
      /\ r.pc = p /\ r.message = job[j].message /\ r.user = job[j].user
      /\ r.grant = job[j].grant /\ r.n = job[j].n
  BY <1>1
<1>3. r \in JobState
  BY <1>2 DEF JobState, Working
<1>4. job' = [job EXCEPT ![j] = r]
  BY DEF At
<1> HIDE DEF r
<1>5. job'[j] = r /\ \A i \in Job : i # j => job'[i] = job[i]
  BY <1>4 DEF TypeOK
<1>6. p \notin {"idle", "new"}
  BY DEF Working, Final
<1> QED
  BY <1>2, <1>3, <1>4, <1>5, <1>6 DEF TypeOK, Live, Idle

\* A step of job j that touches only its own message keeps what the others know.
LEMMA OneJob ==
  ASSUME TypeOK, JobInv, NEW j \in Job, NEW m \in Message,
         mail' = mail,
         \A i \in Job : i # j => job'[i] = job[i],
         job'[j] # Idle => job'[j].message = m /\ mail[m] # None,
         \A k \in Message : k # m => /\ receipt'[k] = receipt[k] /\ sends'[k] = sends[k]
                                     /\ k \in saved' <=> k \in saved,
         \/ \A i \in Job : i # j /\ Live(i) => job[i].message # m
         \/ UNCHANGED <<receipt, sends, saved>> /\ ~Live(j)',
         Live(j)' => Holds(j)',
         receipt'[m] = None => sends'[m] = 0 /\ m \notin saved'
  PROVE  JobInv'
<1>1. \A i \in Job : job'[i] # Idle => mail'[job'[i].message] # None
  BY DEF JobInv
<1>2. \A i \in Job : i # j => (Live(i)' <=> Live(i))
  BY DEF Live
<1>3. ASSUME NEW i \in Job, Live(i)' PROVE Holds(i)'
  <2>1. CASE i = j
    BY <1>3, <2>1 DEF Holds
  <2>2. CASE i # j
    <3>1. Holds(i) /\ job'[i] = job[i] /\ job[i].message \in Message
      BY <1>2, <1>3, <2>2, JobFields DEF JobInv
    <3>2. /\ receipt'[job[i].message] = receipt[job[i].message]
          /\ sends'[job[i].message] = sends[job[i].message]
          /\ job[i].message \in saved' <=> job[i].message \in saved
      BY <1>2, <1>3, <2>2, <3>1
    <3> QED
      BY <3>1, <3>2 DEF Holds
  <2> QED
    BY <2>1, <2>2
<1>4. \A h \in Job, i \in Job :
        Live(h)' /\ Live(i)' /\ h # i => job'[h].message # job'[i].message
  <2>1. ASSUME NEW h \in Job, NEW i \in Job, h # i, h # j, i # j, Live(h)', Live(i)'
        PROVE  job'[h].message # job'[i].message
    BY <1>2, <2>1 DEF JobInv
  <2>2. ASSUME NEW i \in Job, i # j, Live(i)', Live(j)'
        PROVE  job'[i].message # job'[j].message
    <3>1. job'[j] # Idle
      BY <2>2 DEF Live, Idle
    <3> QED
      BY <1>2, <2>2, <3>1
  <2> QED
    BY <2>1, <2>2
<1>5. \A k \in Message : receipt'[k] = None => sends'[k] = 0 /\ k \notin saved'
  BY DEF JobInv
<1> QED
  BY <1>1, <1>3, <1>4, <1>5 DEF JobInv
-----------------------------------------------------------------------------
(* Steps of the jobs: what they change, and the step of EmailAuthority that is. *)

Implements == [Authority!Next]_(Authority!vars)

\* The requests' tables stay as they are.
LEMMA RequestsRest ==
  ASSUME TypeOK, ConsistentInv, UNCHANGED consentVars
  PROVE  /\ ConsentTypeOK' /\ ConsistentInv'
         /\ UNCHANGED <<time, issued, provenAddress, permission>>
BY DEF TypeOK, consentVars, ConsentTypeOK, ConsistentInv, provenAddress, permission, Enabled, Proven

\* A job's step that writes no table.
LEMMA Quiet ==
  ASSUME IInv, UNCHANGED <<consentVars, mail, receipt, sends, saved>>,
         job' \in [Job -> JobState], delivered' \in [Message -> 0..MaxDeliveries], JobInv'
  PROVE  IInv' /\ Implements
<1>1. /\ ConsentTypeOK' /\ ConsistentInv'
      /\ UNCHANGED <<time, issued, provenAddress, permission>>
  BY RequestsRest DEF IInv
<1>2. TypeOK'
  BY <1>1 DEF IInv, TypeOK
<1>3. binding' = binding
  BY DEF binding
<1> QED
  BY <1>1, <1>2, <1>3 DEF IInv, Implements, Authority!vars

\* A job that has claimed goes on, or fails, without a send.
LEMMA GoesOn ==
  ASSUME IInv, NEW j \in Job, Live(j), NEW p \in Working, At(j, p),
         p \in {"claimed", "attempt"} => job[j].n < MaxAttempts,
         p \in {"sending", "got", "handled", "link"} => job[j].n > 0,
         p \notin Final => job[j].pc \notin Final,
         UNCHANGED <<consentVars, mail, receipt, delivered, sends, saved>>
  PROVE  IInv' /\ Implements
<1>a. TypeOK /\ JobInv
  BY DEF IInv
<1>b. job[j].message \in Message /\ job[j] # Idle
  BY <1>a, JobFields
<1>c. PICK m \in Message : m = job[j].message
  BY <1>b
<1>1. /\ job' \in [Job -> JobState]
      /\ job'[j].pc = p
      /\ job'[j].message = job[j].message
      /\ job'[j].user = job[j].user
      /\ job'[j].grant = job[j].grant
      /\ job'[j].n = job[j].n
      /\ \A i \in Job : i # j => job'[i] = job[i]
      /\ Live(j)' /\ job'[j] # Idle
  BY <1>a, AtKeeps
<1>2. Holds(j)'
  BY <1>a, <1>1 DEF JobInv, Holds
<1>3. job'[j].message = m /\ mail[m] # None
  BY <1>a, <1>b, <1>c, <1>1 DEF JobInv
<1>4. \A i \in Job : i # j /\ Live(i) => job[i].message # m
  BY <1>a, <1>c DEF JobInv
<1>5. receipt'[m] = None => sends'[m] = 0 /\ m \notin saved'
  BY <1>a DEF JobInv
<1>6. JobInv'
  BY <1>a, <1>1, <1>2, <1>3, <1>4, <1>5, OneJob
<1>7. delivered' \in [Message -> 0..MaxDeliveries]
  BY <1>a DEF TypeOK
<1> QED
  BY <1>1, <1>6, <1>7, Quiet

\* A job that ends without writing its receipt.
LEMMA Stops ==
  ASSUME IInv, NEW j \in Job, job[j] # Idle, job' = [job EXCEPT ![j] = Idle],
         UNCHANGED <<consentVars, mail, receipt, delivered, sends, saved>>
  PROVE  IInv' /\ Implements
<1>a. TypeOK /\ JobInv
  BY DEF IInv
<1>b. PICK m \in Message : m = job[j].message
  BY <1>a, JobFields
<1>1. /\ job' \in [Job -> JobState]
      /\ job'[j] = Idle
      /\ \A i \in Job : i # j => job'[i] = job[i]
  BY <1>a DEF TypeOK, JobState, Idle
<1>2. ~Live(j)'
  BY <1>1 DEF Live, Idle
<1>3. receipt'[m] = None => sends'[m] = 0 /\ m \notin saved'
  BY <1>a DEF JobInv
<1>4. JobInv'
  BY <1>a, <1>1, <1>2, <1>3, OneJob
<1>5. delivered' \in [Message -> 0..MaxDeliveries]
  BY <1>a DEF TypeOK
<1> QED
  BY <1>1, <1>4, <1>5, Quiet

LEMMA DeliverStep ==
  ASSUME IInv, NEW j \in Job, NEW m \in Message, Deliver(j, m)
  PROVE  IInv' /\ Implements
<1>a. TypeOK /\ JobInv
  BY DEF IInv
<1>1. /\ job' \in [Job -> JobState]
      /\ job'[j] = [pc |-> "new", message |-> m]
      /\ \A i \in Job : i # j => job'[i] = job[i]
  BY <1>a DEF TypeOK, JobState, Deliver
<1>2. ~Live(j)' /\ job'[j].message = m /\ mail[m] # None
  BY <1>1 DEF Live, Deliver
<1>3. UNCHANGED <<consentVars, mail, receipt, sends, saved>>
  BY DEF Deliver
<1>4. receipt'[m] = None => sends'[m] = 0 /\ m \notin saved'
  BY <1>a, <1>3 DEF JobInv
<1>5. JobInv'
  BY <1>a, <1>1, <1>2, <1>3, <1>4, OneJob
<1>6. delivered' \in [Message -> 0..MaxDeliveries]
  BY <1>a, EmailIntakeAssumption DEF TypeOK, Deliver
<1> QED
  BY <1>1, <1>3, <1>5, <1>6, Quiet

LEMMA ReceiveStep ==
  ASSUME IInv, NEW m \in Message, NEW e \in Email, Receive(m, e)
  PROVE  IInv' /\ Implements
<1>1. /\ ConsentTypeOK' /\ ConsistentInv'
      /\ UNCHANGED <<time, issued, provenAddress, permission>>
  BY RequestsRest DEF IInv, Receive
<1>2. TypeOK'
  BY <1>1 DEF IInv, TypeOK, ConsentTypeOK, Receive, Mail
<1>3. mail'[m] # None /\ \A k \in Message : k # m => mail'[k] = mail[k]
  BY EmailIntakeAssumption DEF IInv, TypeOK, ConsentTypeOK, Receive
<1>4. \A j \in Job : job[j] # Idle => job[j].message \in Message
  BY JobFields DEF IInv
<1>5. JobInv'
  BY <1>3, <1>4 DEF IInv, JobInv, Receive, Live, Holds
<1>6. binding' = binding
  BY DEF binding, Receive
<1>7. Authority!Receive(m, e)
  BY <1>1, <1>6 DEF Receive, Authority!Receive
<1> QED
  BY <1>1, <1>2, <1>5, <1>7 DEF IInv, Implements, Authority!Next
\* The permission as the code asks for it is the one EmailAuthority asks for.
LEMMA EntitledMaps ==
  ASSUME TypeOK, NEW m \in Message, NEW u \in User, mail[m] # None, Entitled(m, u)
  PROVE  /\ Authority!Entitled(m, u)
         /\ permission[u] = consent[u].grant
         /\ consent[u].grant \in Grant
<1>1. Enabled(u) /\ Owners(m) = {u} /\ Fresh(m) /\ GivenBefore(consent[u].grant, m)
  BY DEF Entitled
<1>2. permission[u] = consent[u].grant /\ permission[u] # None
  BY <1>1 DEF permission, Enabled
<1>3. consent[u].grant \in Grant
  BY <1>1 DEF Enabled, TypeOK, ConsentTypeOK, Row
<1>4. mail[m].sender # None
  BY AIConsentAssumption DEF TypeOK, Mail
<1>5. ASSUME NEW v \in User PROVE provenAddress[v] = mail[m].sender <=> v = u
  <2>1. v \in Owners(m) <=> provenAddress[v] = mail[m].sender
    BY <1>4 DEF Owners, provenAddress
  <2> QED
    BY <1>1, <2>1
<1> QED
  BY <1>1, <1>2, <1>3, <1>5 DEF Authority!Entitled, Fresh, GivenBefore

LEMMA ClaimStep ==
  ASSUME IInv, NEW j \in Job, Claim(j)
  PROVE  IInv' /\ Implements
<1>a. TypeOK /\ JobInv
  BY DEF IInv
<1>1. PICK m \in Message : m = job[j].message
  BY <1>a, JobFields DEF Claim, Idle
<1>2. PICK u \in User :
        /\ receipt[m] = None
        /\ Entitled(m, u)
        /\ receipt' = [receipt EXCEPT ![m] = Bound(u)]
        /\ job' = [job EXCEPT ![j] =
             [pc |-> "claimed", message |-> m, user |-> u, grant |-> consent[u].grant.id, n |-> 0]]
  BY <1>1 DEF Claim
<1>3. mail[m] # None
  BY <1>a, <1>1 DEF JobInv, Claim, Idle
<1>4. /\ Authority!Entitled(m, u)
      /\ permission[u] = consent[u].grant
      /\ consent[u].grant \in Grant
  BY <1>a, <1>2, <1>3, EntitledMaps
<1>5. consent[u].grant.id \in Nat
  BY <1>4 DEF Grant
<1>6. /\ ConsentTypeOK' /\ ConsistentInv'
      /\ UNCHANGED <<time, issued, provenAddress, permission>>
  BY RequestsRest DEF IInv, Claim
<1>7. Bound(u) \in Receipt /\ Bound(u) # None
  BY <1>5, EmailIntakeAssumption DEF Bound, Receipt
<1>8. /\ receipt'[m] = Bound(u)
      /\ \A k \in Message : k # m => receipt'[k] = receipt[k]
      /\ receipt' \in [Message -> Receipt \cup {None}]
  BY <1>a, <1>2, <1>7 DEF TypeOK
<1>9. /\ job'[j] = [pc |-> "claimed", message |-> m, user |-> u, grant |-> consent[u].grant.id,
                    n |-> 0]
      /\ \A i \in Job : i # j => job'[i] = job[i]
      /\ job' \in [Job -> JobState]
  <2>1. 0 \in 0..MaxAttempts
    BY EmailIntakeAssumption
  <2>2. [pc |-> "claimed", message |-> m, user |-> u, grant |-> consent[u].grant.id, n |-> 0]
          \in JobState
    BY <1>5, <2>1 DEF JobState
  <2> QED
    BY <1>a, <1>2, <2>2 DEF TypeOK
<1>10. UNCHANGED <<mail, delivered, sends, saved>>
  BY DEF Claim
<1>11. TypeOK'
  BY <1>a, <1>6, <1>8, <1>9, <1>10 DEF TypeOK
<1>12. JobInv'
  <2>1. \A i \in Job : i # j /\ Live(i) => job[i].message # m
    BY <1>a, <1>2 DEF JobInv, Holds
  <2>2. sends[m] = 0 /\ m \notin saved
    BY <1>a, <1>2 DEF JobInv
  <2>3. Holds(j)'
    <3>1. receipt'[m].user = u /\ receipt'[m].grant = consent[u].grant.id /\ receipt'[m] # None
      BY <1>7, <1>8 DEF Bound
    <3>2. 0 < MaxAttempts
      BY EmailIntakeAssumption
    <3> QED
      BY <1>9, <1>10, <2>2, <3>1, <3>2 DEF Holds
  <2>4. job'[j].message = m
    BY <1>9
  <2> QED
    BY <1>a, <1>3, <1>7, <1>8, <1>9, <1>10, <2>1, <2>3, <2>4, OneJob
<1>13. Authority!Claim(m, u)
  <2>1. binding[m] = None
    BY <1>2 DEF binding
  <2>2. binding' = [binding EXCEPT ![m] = [user |-> u, id |-> permission[u].id]]
    <3>1. binding'[m] = [user |-> u, id |-> permission[u].id]
      BY <1>4, <1>7, <1>8 DEF binding, Bound
    <3>2. \A k \in Message : k # m => binding'[k] = binding[k]
      BY <1>8 DEF binding
    <3> QED
      BY <3>1, <3>2 DEF binding
  <2> QED
    BY <1>4, <1>6, <1>10, <2>1, <2>2 DEF Authority!Claim
<1> QED
  BY <1>6, <1>11, <1>12, <1>13 DEF IInv, Implements, Authority!Next

LEMMA AttemptStep ==
  ASSUME IInv, NEW j \in Job, Attempt(j)
  PROVE  IInv' /\ Implements
<1>a. TypeOK /\ JobInv /\ Live(j)
  BY DEF IInv, Attempt, Live
<1>b. UNCHANGED <<consentVars, mail, receipt, delivered, saved>>
  BY DEF Attempt
<1>1. CASE ~Authorized(j)
  <2>1. At(j, "not_authorized") /\ sends' = sends
    BY <1>1 DEF Attempt
  <2> QED
    BY <1>a, <1>b, <2>1, GoesOn DEF Working, Final
<1>2. CASE Authorized(j)
  <2>1. PICK m \in Message, u \in User, g \in Nat, n \in 0..MaxAttempts :
          m = job[j].message /\ u = job[j].user /\ g = job[j].grant /\ n = job[j].n
    BY <1>a, JobFields
  <2>2. /\ receipt[m] = [user |-> u, grant |-> g, state |-> "processing"]
        /\ Entitled(m, u)
        /\ consent[u].grant.id = g
    BY <1>2, <2>1 DEF Authorized
  <2>3. mail[m] # None /\ Holds(j)
    BY <1>a, <2>1 DEF JobInv, Live, Idle
  <2>4. /\ sends[m] = n /\ n < MaxAttempts /\ m \notin saved /\ receipt[m] # None
        /\ receipt[m].user = u /\ receipt[m].grant = g
    BY <2>1, <2>3 DEF Holds, Attempt, Final
  <2>5. /\ job' = [job EXCEPT ![j] = [pc |-> "sending", message |-> m, user |-> u, grant |-> g,
                                      n |-> n + 1]]
        /\ sends' = [sends EXCEPT ![m] = sends[m] + 1]
    BY <1>2, <2>1 DEF Attempt
  <2>6. n + 1 \in 0..MaxAttempts /\ n + 1 > 0
    BY <2>1, <2>4, EmailIntakeAssumption
  <2>7. [pc |-> "sending", message |-> m, user |-> u, grant |-> g, n |-> n + 1] \in JobState
    BY <2>6 DEF JobState
  <2>8. /\ job'[j] = [pc |-> "sending", message |-> m, user |-> u, grant |-> g, n |-> n + 1]
        /\ \A i \in Job : i # j => job'[i] = job[i]
        /\ job' \in [Job -> JobState]
    BY <1>a, <2>5, <2>7 DEF TypeOK
  <2>9. /\ sends'[m] = n + 1
        /\ \A k \in Message : k # m => sends'[k] = sends[k]
        /\ sends' \in [Message -> Nat]
    BY <1>a, <2>4, <2>5 DEF TypeOK
  <2>10. /\ ConsentTypeOK' /\ ConsistentInv'
         /\ UNCHANGED <<time, issued, provenAddress, permission>>
    BY <1>b, RequestsRest DEF IInv
  <2>11. TypeOK'
    BY <1>a, <1>b, <2>8, <2>9, <2>10 DEF TypeOK
  <2>12. JobInv'
    <3>1. Holds(j)'
      BY <1>b, <2>4, <2>6, <2>8, <2>9 DEF Holds, Final
    <3>2. \A i \in Job : i # j /\ Live(i) => job[i].message # m
      BY <1>a, <2>1 DEF JobInv
    <3>3. job'[j].message = m
      BY <2>8
    <3> QED
      BY <1>a, <1>b, <2>3, <2>4, <2>8, <2>9, <3>1, <3>2, <3>3, OneJob
  <2>13. Authority!Send(m)
    <3>1. binding[m] = [user |-> u, id |-> g] /\ binding[m] # None
      <4>1. binding[m] = [user |-> u, id |-> g]
        BY <2>4 DEF binding
      <4>2. u = binding[m].user /\ [user |-> u, id |-> g] # None
        BY <4>1, EmailIntakeAssumption
      <4> QED
        BY <4>1, <4>2
    <3>2. Authority!Entitled(m, u) /\ permission[u].id = g
      BY <1>a, <2>2, <2>3, EntitledMaps
    <3>3. binding' = binding
      BY <1>b DEF binding
    <3> QED
      BY <1>b, <2>4, <2>5, <2>10, <3>1, <3>2, <3>3 DEF Authority!Send
  <2> QED
    BY <2>10, <2>11, <2>12, <2>13 DEF IInv, Implements, Authority!Next
<1> QED
  BY <1>1, <1>2
LEMMA LinkStep ==
  ASSUME IInv, NEW j \in Job, Link(j)
  PROVE  IInv' /\ Implements
<1>a. TypeOK /\ JobInv /\ Live(j)
  BY DEF IInv, Link, Live
<1>b. UNCHANGED <<consentVars, mail, receipt, delivered, sends>>
  BY DEF Link
<1>1. CASE job[j].user \notin account
  <2>1. At(j, "failed") /\ saved' = saved
    BY <1>1 DEF Link
  <2> QED
    BY <1>a, <1>b, <2>1, GoesOn DEF Working, Final
<1>2. CASE job[j].user \in account
  <2>1. PICK m \in Message : m = job[j].message
    BY <1>a, JobFields
  <2>2. At(j, "completed") /\ saved' = saved \cup {m} /\ "completed" \in Working
    BY <1>2, <2>1 DEF Link, Working, Final
  <2>3. /\ job' \in [Job -> JobState]
        /\ job'[j].pc = "completed"
        /\ job'[j].message = m
        /\ job'[j].user = job[j].user
        /\ job'[j].grant = job[j].grant
        /\ job'[j].n = job[j].n
        /\ \A i \in Job : i # j => job'[i] = job[i]
    BY <1>a, <2>1, <2>2, AtKeeps
  <2>4. mail[m] # None /\ Holds(j)
    BY <1>a, <2>1 DEF JobInv, Live, Idle
  <2>5. sends[m] > 0 /\ m \notin saved /\ receipt[m] # None
    BY <2>1, <2>4 DEF Holds, Link, Final
  <2>6. /\ ConsentTypeOK' /\ ConsistentInv'
        /\ UNCHANGED <<time, issued, provenAddress, permission>>
    BY <1>b, RequestsRest DEF IInv
  <2>7. TypeOK'
    BY <1>a, <1>b, <2>2, <2>3, <2>6 DEF TypeOK
  <2>8. JobInv'
    <3>1. Holds(j)'
      BY <1>b, <2>1, <2>3, <2>4 DEF Holds, Final
    <3>2. \A i \in Job : i # j /\ Live(i) => job[i].message # m
      BY <1>a, <2>1 DEF JobInv
    <3>3. \A k \in Message : k # m => (k \in saved' <=> k \in saved)
      BY <2>2
    <3> QED
      BY <1>a, <1>b, <2>3, <2>4, <2>5, <3>1, <3>2, <3>3, OneJob
  <2>9. binding' = binding
    BY <1>b DEF binding
  <2>10. Authority!Save(m)
    BY <1>b, <2>2, <2>5, <2>6, <2>9 DEF Authority!Save
  <2> QED
    BY <2>6, <2>7, <2>8, <2>10 DEF IInv, Implements, Authority!Next
<1> QED
  BY <1>1, <1>2

LEMMA FinishStep ==
  ASSUME IInv, NEW j \in Job, Finish(j)
  PROVE  IInv' /\ Implements
<1>a. TypeOK /\ JobInv
  BY DEF IInv
<1>b. /\ UNCHANGED <<consentVars, mail, delivered, sends, saved>>
      /\ job' = [job EXCEPT ![j] = Idle]
      /\ job[j].pc \in Final
  BY DEF Finish
<1>c. job[j] # Idle /\ Live(j)
  BY <1>b DEF Final, Idle, Live
<1>1. CASE receipt' = receipt
  BY <1>1, <1>b, <1>c, Stops
<1>2. CASE receipt' # receipt
  <2>1. PICK m \in Message, s \in Final : m = job[j].message /\ s = job[j].pc
    BY <1>a, <1>b, <1>c, JobFields
  <2>2. receipt' = [receipt EXCEPT ![m] = [receipt[m] EXCEPT !.state = s]] /\ receipt[m] # None
    BY <1>2, <2>1 DEF Finish
  <2>3. receipt[m] \in Receipt
    BY <1>a, <2>2 DEF TypeOK
  <2> DEFINE r == [user |-> receipt[m].user, grant |-> receipt[m].grant, state |-> s]
  <2>4. [receipt[m] EXCEPT !.state = s] = r
    BY <2>3 DEF Receipt
  <2>5. r \in Receipt /\ r # None /\ r.user = receipt[m].user /\ r.grant = receipt[m].grant
    BY <2>3, EmailIntakeAssumption DEF Receipt, Final
  <2> HIDE DEF r
  <2>6. /\ receipt'[m] = r
        /\ \A k \in Message : k # m => receipt'[k] = receipt[k]
        /\ receipt' \in [Message -> Receipt \cup {None}]
    BY <1>a, <2>2, <2>4, <2>5 DEF TypeOK
  <2>7. /\ job'[j] = Idle
        /\ \A i \in Job : i # j => job'[i] = job[i]
        /\ job' \in [Job -> JobState]
    BY <1>a, <1>b DEF TypeOK, JobState, Idle
  <2>8. /\ ConsentTypeOK' /\ ConsistentInv'
        /\ UNCHANGED <<time, issued, provenAddress, permission>>
    BY <1>b, RequestsRest DEF IInv
  <2>9. TypeOK'
    BY <1>a, <1>b, <2>6, <2>7, <2>8 DEF TypeOK
  <2>10. JobInv'
    <3>1. ~Live(j)'
      BY <2>7 DEF Live, Idle
    <3>2. \A i \in Job : i # j /\ Live(i) => job[i].message # m
      BY <1>a, <1>c, <2>1 DEF JobInv
    <3>3. receipt'[m] # None
      BY <2>5, <2>6
    <3> QED
      BY <1>a, <1>b, <2>6, <2>7, <3>1, <3>2, <3>3, OneJob
  <2>11. binding' = binding
    BY <2>2, <2>5, <2>6 DEF binding
  <2> QED
    BY <1>b, <2>8, <2>9, <2>10, <2>11 DEF IInv, Implements, Authority!vars
<1> QED
  BY <1>1, <1>2

-----------------------------------------------------------------------------
\* Every step keeps the invariant and is a step of EmailAuthority, or a stutter.
LEMMA EveryStep == IInv /\ [Next]_vars => IInv' /\ Implements
<1> SUFFICES ASSUME IInv, [Next]_vars PROVE IInv' /\ Implements
  OBVIOUS
<1>a. TypeOK /\ ConsistentInv /\ JobInv /\ ConsentTypeOK
  BY DEF IInv, TypeOK
<1>b. UNCHANGED intakeVars => JobInv'
  BY <1>a DEF intakeVars, JobInv, Live, Holds
<1>c. UNCHANGED intakeVars /\ ConsentTypeOK' => TypeOK'
  BY <1>a DEF intakeVars, TypeOK
<1>1. CASE ConsentNext /\ UNCHANGED intakeVars
  <2>1. ConsentTypeOK'
    BY <1>a, <1>1, ConsentNextType
  <2>2. ConsistentInv' /\ Implements
    BY <1>a, <1>1, ConsentMaps DEF Implements
  <2> QED
    BY <1>1, <1>b, <1>c, <2>1, <2>2 DEF IInv
<1>2. CASE \E m \in Message, e \in Email : Receive(m, e)
  BY <1>2, ReceiveStep
<1>3. ASSUME NEW j \in Job, NEW m \in Message, Deliver(j, m) PROVE IInv' /\ Implements
  BY <1>3, DeliverStep
<1>4. ASSUME NEW j \in Job, Claim(j) PROVE IInv' /\ Implements
  BY <1>4, ClaimStep
<1>5. ASSUME NEW j \in Job, Drop(j) \/ Crash(j) PROVE IInv' /\ Implements
  <2>1. job[j] # Idle /\ job' = [job EXCEPT ![j] = Idle]
    BY <1>5 DEF Drop, Crash, Idle
  <2>2. UNCHANGED <<consentVars, mail, receipt, delivered, sends, saved>>
    BY <1>5 DEF Drop, Crash
  <2> QED
    BY <2>1, <2>2, Stops
<1>6. ASSUME NEW j \in Job, CheckClaimed(j) \/ CheckGot(j) \/ CheckHandled(j)
      PROVE  IInv' /\ Implements
  <2>1. /\ job[j].pc \in {"claimed", "got", "handled"}
        /\ UNCHANGED <<consentVars, mail, receipt, delivered, sends, saved>>
    BY <1>6 DEF CheckClaimed, CheckGot, CheckHandled, Checked
  <2>2. Live(j) /\ Holds(j)
    BY <1>a, <2>1 DEF Live, JobInv
  <2>3. \/ At(j, "not_authorized") \/ At(j, "no_result")
        \/ At(j, "attempt") /\ job[j].pc = "claimed"
        \/ At(j, "handled") /\ job[j].pc = "got"
        \/ At(j, "link") /\ job[j].pc = "handled"
    BY <1>6 DEF CheckClaimed, CheckGot, CheckHandled, Checked
  <2>4. PICK p \in {"not_authorized", "no_result", "attempt", "handled", "link"} :
          /\ At(j, p)
          /\ p = "attempt" => job[j].pc = "claimed"
          /\ p \in {"handled", "link"} => job[j].pc \in {"got", "handled"}
    BY <2>3
  <2>5. /\ p \in {"claimed", "attempt"} => job[j].n < MaxAttempts
        /\ p \in {"sending", "got", "handled", "link"} => job[j].n > 0
        /\ p \in Working /\ job[j].pc \notin Final
    BY <2>1, <2>2, <2>4 DEF Holds, Working, Final
  <2> QED
    BY <2>1, <2>2, <2>4, <2>5, GoesOn
<1>7. ASSUME NEW j \in Job, Attempt(j) PROVE IInv' /\ Implements
  BY <1>7, AttemptStep
<1>8. ASSUME NEW j \in Job, Reply(j) PROVE IInv' /\ Implements
  <2>1. /\ job[j].pc = "sending"
        /\ UNCHANGED <<consentVars, mail, receipt, delivered, sends, saved>>
        /\ \/ At(j, "got") \/ At(j, "no_result")
           \/ At(j, "attempt") /\ job[j].n < MaxAttempts
    BY <1>8 DEF Reply
  <2>2. Live(j) /\ Holds(j)
    BY <1>a, <2>1 DEF Live, JobInv
  <2>3. job[j].n > 0 /\ job[j].pc \notin Final
    BY <2>1, <2>2 DEF Holds, Final
  <2>4. PICK p \in {"got", "no_result", "attempt"} :
          At(j, p) /\ (p = "attempt" => job[j].n < MaxAttempts)
    BY <2>1
  <2>5. p \in Working /\ p # "claimed"
    BY DEF Working, Final
  <2> QED
    BY <2>1, <2>2, <2>3, <2>4, <2>5, GoesOn
<1>9. ASSUME NEW j \in Job, Link(j) PROVE IInv' /\ Implements
  BY <1>9, LinkStep
<1>10. ASSUME NEW j \in Job, Fail(j) PROVE IInv' /\ Implements
  <2>1. /\ Live(j)
        /\ UNCHANGED <<consentVars, mail, receipt, delivered, sends, saved>>
    BY <1>10 DEF Fail, Live
  <2>2. PICK p \in {"failed", "not_authorized"} : At(j, p)
    BY <1>10 DEF Fail
  <2>3. p \in Working /\ p \in Final
    BY DEF Working, Final
  <2> QED
    BY <2>1, <2>2, <2>3, GoesOn
<1>11. ASSUME NEW j \in Job, Finish(j) PROVE IInv' /\ Implements
  BY <1>11, FinishStep
<1>12. CASE UNCHANGED vars
  <2>1. UNCHANGED <<consentVars, intakeVars>>
    BY <1>12 DEF vars
  <2>2. /\ ConsentTypeOK' /\ ConsistentInv'
        /\ UNCHANGED <<time, issued, provenAddress, permission>>
    BY <1>a, <2>1, RequestsRest
  <2>3. UNCHANGED <<mail, binding, sends, saved>>
    BY <2>1 DEF intakeVars, binding
  <2> QED
    BY <1>b, <1>c, <2>1, <2>2, <2>3 DEF IInv, Implements, Authority!vars
<1> QED
  BY <1>1, <1>2, <1>3, <1>4, <1>5, <1>6, <1>7, <1>8, <1>9, <1>10, <1>11, <1>12 DEF Next

LEMMA FirstState == Init => IInv /\ Authority!Init
<1> SUFFICES ASSUME Init PROVE IInv /\ Authority!Init
  OBVIOUS
<1>1. ConsentTypeOK
  BY ConsentInitInv DEF Init, ConsentInv
<1>2. TypeOK
  BY <1>1, EmailIntakeAssumption DEF Init, TypeOK, JobState, Idle
<1>3. ConsistentInv
  BY DEF Init, ConsentInit, ConsistentInv
<1>4. JobInv
  BY DEF Init, JobInv, Live, Idle
<1>5. Authority!Init
  BY DEF Init, ConsentInit, Authority!Init, provenAddress, permission, binding, Proven, Enabled
<1> QED
  BY <1>2, <1>3, <1>4, <1>5 DEF IInv

-----------------------------------------------------------------------------
(* The properties. *)

\* Every variable keeps its type.
THEOREM TypeCorrect == Spec => []TypeOK
<1>1. IInv => TypeOK
  BY DEF IInv
<1> QED
  BY <1>1, FirstState, EveryStep, PTL DEF Spec

\* The jobs and the requests together do only what EmailAuthority allows: every
\* send of a message happens under the one permission it was claimed for.
THEOREM KeepsAuthorityCorrect == Spec => KeepsAuthority
<1>1. IInv /\ [Next]_vars => [Authority!Next]_(Authority!vars)
  BY EveryStep DEF Implements
<1>2. Spec => []IInv
  BY FirstState, EveryStep, PTL DEF Spec
<1> QED
  BY <1>1, <1>2, FirstState, PTL DEF Spec, KeepsAuthority, Authority!Spec
=============================================================================
