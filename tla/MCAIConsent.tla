----------------------------- MODULE MCAIConsent -----------------------------
(* Bounds of the model-checking run of AIConsent. *)
EXTENDS AIConsent, TLC

MCBudget == [command |-> 2, login |-> 3, tick |-> 1]

MCSymmetry == Permutations(User) \cup Permutations(Subject) \cup Permutations(Email)
              \cup Permutations(RequestId) \cup Permutations(Login)
=============================================================================
