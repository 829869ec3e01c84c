--------------------------- MODULE MCDelayPreview ---------------------------
(* Bounds of the model-checking runs of DelayPreview. *)
EXTENDS DelayPreview, TLC

CONSTANTS u1, i1, i2, f1, f2, h1, a1

\* One account with two installations.
MCOwnerOf == (i1 :> u1) @@ (i2 :> u1)

\* A history for each flight, and one airport for both.
MCAsked == {<<i1, f1>>, <<i2, f2>>}

MCInputsOf == (f1 :> {h1, a1}) @@ (f2 :> {a1})

MCAnswers == (h1 :> {"risk"}) @@ (a1 :> {"nothing", "calm"})

MCInputTtl == (h1 :> 9) @@ (a1 :> 2)

MCBudget == [ask |-> 3, end |-> 1]

MCSymmetry == Permutations(Request)
=============================================================================
