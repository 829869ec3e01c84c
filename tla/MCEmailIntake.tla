---------------------------- MODULE MCEmailIntake ----------------------------
(* Bounds of the model-checking run of EmailIntake. *)
EXTENDS EmailIntake, TLC

MCBudget == [command |-> 2, login |-> 2, tick |-> 2]

MCSymmetry == Permutations(User) \cup Permutations(Job) \cup Permutations(Login)
              \cup Permutations(RequestId)

\* What is answered to a refused command, and whether search is allowed or denied,
\* are AIConsent's questions: no behaviour of the intake depends on them.
EmailMatters ==
  /\ conflicted = {}
  /\ \A c \in command : c.purpose = "search" => c.enabled
=============================================================================
