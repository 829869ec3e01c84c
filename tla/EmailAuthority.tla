---------------------------- MODULE EmailAuthority ----------------------------
(***************************************************************************)
(* What the consent to forwarded e-mail promises (docs/ai-consent-v1.md):  *)
(* a message is bound to one account and one permission of it, given       *)
(* before the message was received; every send of it to Gemini happens     *)
(* under that permission, while it lasts; a permission that ended never    *)
(* comes back; and a message is processed once, in at most MaxAttempts     *)
(* sends.  Nothing here knows of requests, workers, retries or crashes.    *)
(***************************************************************************)
EXTENDS Naturals

CONSTANTS User, Email, Message, MaxAge, MaxAttempts, None

VARIABLES
  time,    \* the clock
  issued,  \* permissions given so far; the latest one has this number
  proven,  \* the address an account has proven to be its own
  grant,   \* the permission of an account, with its number and its time
  mail,    \* the messages received
  claim,   \* the account and the permission a message is bound to
  sends,   \* how often a message was sent to Gemini
  saved    \* the messages whose flight was saved

vars == <<time, issued, proven, grant, mail, claim, sends, saved>>

Init ==
  /\ time = 0
  /\ issued = 0
  /\ proven = [u \in User |-> None]
  /\ grant = [u \in User |-> None]
  /\ mail = [m \in Message |-> None]
  /\ claim = [m \in Message |-> None]
  /\ sends = [m \in Message |-> 0]
  /\ saved = {}

Tick ==
  /\ time' = time + 1
  /\ UNCHANGED <<issued, proven, grant, mail, claim, sends, saved>>

\* An account proves an address, or loses its proof: its permission ends.
Prove(u, e) ==
  /\ proven' = [proven EXCEPT ![u] = e]
  /\ grant' = [grant EXCEPT ![u] = None]
  /\ UNCHANGED <<time, issued, mail, claim, sends, saved>>

Allow(u) ==
  /\ proven[u] # None
  /\ issued' = issued + 1
  /\ grant' = [grant EXCEPT ![u] = [id |-> issued + 1, at |-> time]]
  /\ UNCHANGED <<time, proven, mail, claim, sends, saved>>

Deny(u) ==
  /\ grant' = [grant EXCEPT ![u] = None]
  /\ UNCHANGED <<time, issued, proven, mail, claim, sends, saved>>

Receive(m, e) ==
  /\ mail[m] = None
  /\ mail' = [mail EXCEPT ![m] = [sender |-> e, at |-> time]]
  /\ UNCHANGED <<time, issued, proven, grant, claim, sends, saved>>

\* Only u has proven the sender's address, and its permission is older than the
\* message, which is not too old.
Entitled(m, u) ==
  /\ mail[m] # None
  /\ time <= mail[m].at + MaxAge
  /\ \A v \in User : proven[v] = mail[m].sender <=> v = u
  /\ grant[u] # None
  /\ grant[u].at < mail[m].at

Claim(m, u) ==
  /\ claim[m] = None
  /\ Entitled(m, u)
  /\ claim' = [claim EXCEPT ![m] = [user |-> u, id |-> grant[u].id]]
  /\ UNCHANGED <<time, issued, proven, grant, mail, sends, saved>>

Send(m) ==
  /\ claim[m] # None
  /\ Entitled(m, claim[m].user)
  /\ grant[claim[m].user].id = claim[m].id
  /\ m \notin saved
  /\ sends[m] < MaxAttempts
  /\ sends' = [sends EXCEPT ![m] = @ + 1]
  /\ UNCHANGED <<time, issued, proven, grant, mail, claim, saved>>

\* The permission may end while Gemini and the flight provider answer.
Save(m) ==
  /\ sends[m] > 0
  /\ m \notin saved
  /\ saved' = saved \cup {m}
  /\ UNCHANGED <<time, issued, proven, grant, mail, claim, sends>>

Next ==
  \/ Tick
  \/ \E u \in User : Allow(u) \/ Deny(u) \/ \E e \in Email \cup {None} : Prove(u, e)
  \/ \E m \in Message :
       \/ \E e \in Email : Receive(m, e)
       \/ \E u \in User : Claim(m, u)
       \/ Send(m) \/ Save(m)

Spec == Init /\ [][Next]_vars
=============================================================================
