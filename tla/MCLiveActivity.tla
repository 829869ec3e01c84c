--------------------------- MODULE MCLiveActivity ---------------------------
(* Bounds of the model-checking runs of LiveActivity. *)
EXTENDS LiveActivity

\* A registration and its rotation, one webhook, one background task beside
\* the fetcher's loop, one fault.
MCBudget == [webhook |-> 1, request |-> 2, run |-> 1, fault |-> 1]

\* A rotation races the completion of a send to a token that has died.
RaceBudget == [webhook |-> 0, request |-> 2, run |-> 1, fault |-> 1]

\* Two senders overlap a webhook.
OverlapBudget == [webhook |-> 1, request |-> 1, run |-> 1, fault |-> 0]
=============================================================================
