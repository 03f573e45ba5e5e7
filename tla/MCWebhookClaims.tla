-------------------------- MODULE MCWebhookClaims --------------------------
(***************************************************************************)
(* Interchangeable workers and two events, the second sent one time        *)
(* unit after the first.                                                   *)
(***************************************************************************)
EXTENDS WebhookClaims, TLC

CONSTANTS e1, e2

MCBirth == (e1 :> 0) @@ (e2 :> 1)
WorkerSymmetry == Permutations(Workers)

=============================================================================
