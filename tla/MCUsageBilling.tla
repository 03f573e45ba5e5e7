-------------------------- MODULE MCUsageBilling ---------------------------
(***************************************************************************)
(* Small instances of UsageBilling for TLC: requests are model values, and *)
(* interchangeable.                                                        *)
(***************************************************************************)
EXTENDS UsageBilling, TLC

RequestSymmetry == Permutations(Requests)

=============================================================================
