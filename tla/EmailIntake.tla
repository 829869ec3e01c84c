----------------------------- MODULE EmailIntake -----------------------------
(***************************************************************************)
(* Forwarded e-mail: from a receipt of SES to the flight it names.         *)
(*                                                                         *)
(* The Lambda delivers the receipt of a message, perhaps more than once;   *)
(* every delivery starts a job of its own in some worker.  The job claims  *)
(* the receipt for the account that has proven the sender's address and    *)
(* asks for the permission again before each send to Gemini and around the *)
(* search for the flight, while AIConsent's requests change it.            *)
(***************************************************************************)
EXTENDS AIConsent

CONSTANTS
  Message,       \* messages, by their SES id
  Job,           \* jobs in progress
  MaxDeliveries, \* how often the receipt of a message may be delivered
  MaxAge,        \* MAX_RECEIPT_AGE_MS, in ticks
  MaxAttempts    \* attempts of get_function_call

ASSUME EmailIntakeAssumption ==
  /\ MaxDeliveries \in Nat /\ MaxAge \in Nat /\ MaxAttempts \in Nat \ {0}
  /\ None \notin [sender : Email, at : Nat]
  /\ None \notin [user : User, grant : Nat,
                  state : {"processing", "completed", "failed", "not_authorized", "no_result"}]
  /\ None \notin [user : User, id : Nat]

VARIABLES
  mail,      \* what SES received: the sender and the time
  receipt,   \* UserAIEmailReceipt; owner_binding is the account and its grant
  job,       \* what a job knows
  delivered, \* history: deliveries of a receipt
  sends,     \* history: sends of a message to Gemini
  saved      \* history: messages whose flight was linked to the account

intakeVars == <<mail, receipt, job, delivered, sends, saved>>
vars == <<consentVars, intakeVars>>

Mail    == [sender : Email, at : Nat]
Final   == {"completed", "failed", "not_authorized", "no_result"}
Receipt == [user : User, grant : Nat, state : {"processing"} \cup Final]

JobState ==
  [pc : {"idle"}] \cup [pc : {"new"}, message : Message]
  \cup [pc : {"claimed", "attempt", "sending", "got", "handled", "link"} \cup Final,
        message : Message, user : User, grant : Nat, n : 0..MaxAttempts]

Init ==
  /\ ConsentInit
  /\ mail = [m \in Message |-> None]
  /\ receipt = [m \in Message |-> None]
  /\ job = [j \in Job |-> Idle]
  /\ delivered = [m \in Message |-> 0]
  /\ sends = [m \in Message |-> 0]
  /\ saved = {}

Receive(m, e) ==
  /\ mail[m] = None
  /\ mail' = [mail EXCEPT ![m] = [sender |-> e, at |-> time]]
  /\ UNCHANGED <<consentVars, receipt, job, delivered, sends, saved>>

\* require_fresh_receipt.
Fresh(m) == time <= mail[m].at + MaxAge

\* The Lambda posts the receipt; it retries when the answer is lost.
Deliver(j, m) ==
  /\ job[j] = Idle
  /\ delivered[m] < MaxDeliveries
  /\ mail[m] # None
  /\ Fresh(m)
  /\ job' = [job EXCEPT ![j] = [pc |-> "new", message |-> m]]
  /\ delivered' = [delivered EXCEPT ![m] = @ + 1]
  /\ UNCHANGED <<consentVars, mail, receipt, sends, saved>>

-----------------------------------------------------------------------------
(* The permission of a message. *)

\* _sender_owner: the accounts that have proven the sender's address.
Owners(m) == {u \in User : Proven(u) /\ identity[u].email = mail[m].sender}

\* Mutant: a permission given in the same tick counts as older.
GivenUpTo(g, m) == g.at <= mail[m].at

GivenBefore(g, m) == g.at < mail[m].at

\* _current_grant.
Entitled(m, u) ==
  /\ Fresh(m)
  /\ Enabled(u)
  /\ Owners(m) = {u}
  /\ GivenBefore(consent[u].grant, m)

\* The row of a claim; owner_binding is a digest of the account and the grant.
Bound(u) == [user |-> u, grant |-> consent[u].grant.id, state |-> "processing"]

\* claim_email_receipt, under the writer lock; one that exists is never reclaimed.
Claim(j) ==
  /\ job[j].pc = "new"
  /\ LET m == job[j].message
     IN \E u \in User :
          /\ receipt[m] = None
          /\ Entitled(m, u)
          /\ receipt' = [receipt EXCEPT ![m] = Bound(u)]
          /\ job' = [job EXCEPT ![j] =
               [pc |-> "claimed", message |-> m, user |-> u, grant |-> consent[u].grant.id, n |-> 0]]
  /\ UNCHANGED <<consentVars, mail, delivered, sends, saved>>

\* A duplicate, a message without permission, or an object that does not match.
Drop(j) ==
  /\ job[j].pc = "new"
  /\ job' = [job EXCEPT ![j] = Idle]
  /\ UNCHANGED <<consentVars, mail, receipt, delivered, sends, saved>>

\* require_email_consent_for_send.
Authorized(j) ==
  LET r == job[j]
  IN /\ receipt[r.message] = [user |-> r.user, grant |-> r.grant, state |-> "processing"]
     /\ Entitled(r.message, r.user)
     /\ consent[r.user].grant.id = r.grant

-----------------------------------------------------------------------------
(* The steps of a job. *)

At(j, pc) == job' = [job EXCEPT ![j] = [@ EXCEPT !.pc = pc]]

\* The permission is asked for before the job goes on from one step to the next.
Checked(j, from, to) ==
  /\ job[j].pc = from
  /\ At(j, IF Authorized(j) THEN to ELSE "not_authorized")
  /\ UNCHANGED <<consentVars, mail, receipt, delivered, sends, saved>>

\* After the body has been parsed.
CheckClaimed(j) == Checked(j, "claimed", "attempt")

\* One attempt of get_function_call: the check in the thread that sends, and the
\* request to Gemini that follows it at once.
Attempt(j) ==
  /\ job[j].pc = "attempt"
  /\ IF Authorized(j)
     THEN /\ job' = [job EXCEPT ![j] = [pc |-> "sending", message |-> @.message, user |-> @.user,
                                        grant |-> @.grant, n |-> @.n + 1]]
          /\ sends' = [sends EXCEPT ![job[j].message] = @ + 1]
     ELSE At(j, "not_authorized") /\ UNCHANGED sends
  /\ UNCHANGED <<consentVars, mail, receipt, delivered, saved>>

\* Gemini's answer can be used or not, or is an error.
Reply(j) ==
  /\ job[j].pc = "sending"
  /\ At(j, "got") \/ At(j, IF job[j].n < MaxAttempts THEN "attempt" ELSE "no_result")
  /\ UNCHANGED <<consentVars, mail, receipt, delivered, sends, saved>>

\* Before the flight is looked up, and after.
CheckGot(j) == Checked(j, "got", "handled")
CheckHandled(j) == Checked(j, "handled", "link") \/ Checked(j, "handled", "no_result")

\* The link and the account's count are one commit; without the account it fails.
Link(j) ==
  /\ job[j].pc = "link"
  /\ IF job[j].user \in account
     THEN At(j, "completed") /\ saved' = saved \cup {job[j].message}
     ELSE At(j, "failed") /\ UNCHANGED saved
  /\ UNCHANGED <<consentVars, mail, receipt, delivered, sends>>

\* Any other exception: parsing, the flight provider, the database; a check that
\* cannot read the tables counts as a refusal.
Fail(j) ==
  /\ job[j].pc \in {"claimed", "attempt", "got", "handled", "link"}
  /\ \E s \in {"failed", "not_authorized"} : At(j, s)
  /\ UNCHANGED <<consentVars, mail, receipt, delivered, sends, saved>>

\* finish_email_receipt.
Finish(j) ==
  /\ job[j].pc \in Final
  /\ LET m == job[j].message
     IN receipt' = IF /\ receipt[m] # None
                      /\ receipt[m].state = "processing"
                      /\ receipt[m].user = job[j].user /\ receipt[m].grant = job[j].grant
                   THEN [receipt EXCEPT ![m] = [@ EXCEPT !.state = job[j].pc]]
                   ELSE receipt
  /\ job' = [job EXCEPT ![j] = Idle]
  /\ UNCHANGED <<consentVars, mail, delivered, sends, saved>>

\* The worker dies, or the receipt cannot be finished.
Crash(j) ==
  /\ job[j] # Idle
  /\ job' = [job EXCEPT ![j] = Idle]
  /\ UNCHANGED <<consentVars, mail, receipt, delivered, sends, saved>>

Next ==
  \/ ConsentNext /\ UNCHANGED intakeVars
  \/ \E m \in Message, e \in Email : Receive(m, e)
  \/ \E j \in Job :
       \/ \E m \in Message : Deliver(j, m)
       \/ Claim(j) \/ Drop(j) \/ CheckClaimed(j) \/ Attempt(j) \/ Reply(j)
       \/ CheckGot(j) \/ CheckHandled(j) \/ Link(j) \/ Fail(j) \/ Finish(j) \/ Crash(j)

Spec == Init /\ [][Next]_vars

-----------------------------------------------------------------------------
(* Properties. *)

\* Every variable of the intake holds a value of its table or job.
TypeOK ==
  /\ ConsentTypeOK
  /\ mail \in [Message -> Mail \cup {None}]
  /\ receipt \in [Message -> Receipt \cup {None}]
  /\ job \in [Job -> JobState]
  /\ delivered \in [Message -> 0..MaxDeliveries]
  /\ sends \in [Message -> Nat]
  /\ saved \subseteq Message

\* What EmailAuthority knows of the tables: the address an account has proven, the
\* permission in force, and what a receipt is bound to.
provenAddress == [u \in User |-> IF Proven(u) THEN identity[u].email ELSE None]
permission    == [u \in User |-> IF Enabled(u) THEN consent[u].grant ELSE None]
binding       == [m \in Message |-> IF receipt[m] = None THEN None
                                    ELSE [user |-> receipt[m].user, id |-> receipt[m].grant]]

Authority == INSTANCE EmailAuthority WITH
  proven <- provenAddress, grant <- permission, claim <- binding

\* docs/ai-consent-v1.md: "The current generation must have existed strictly before
\* SES received the message", every attempt is checked, and a receipt is an
\* at-most-once tombstone: what the jobs and the requests do together is what
\* EmailAuthority allows.
KeepsAuthority == Authority!Spec
=============================================================================
