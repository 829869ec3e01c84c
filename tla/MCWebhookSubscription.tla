----------------------- MODULE MCWebhookSubscription -----------------------
(* Bounds of the model-checking runs of WebhookSubscription. *)
EXTENDS WebhookSubscription, TLC

CONSTANTS f1, f2, f3, n1, n2

\* Two flights of one number, one of another.
MCNumberOf == (f1 :> n1) @@ (f2 :> n1) @@ (f3 :> n2)

MCBudget == [input |-> 2, fault |-> 1]
PassBudget == [input |-> 0, fault |-> 0]

\* Subscriptions are interchangeable, and so are the flights of one number.
MCSymmetry == Permutations(Sub) \cup Permutations({f1, f2})
=============================================================================
