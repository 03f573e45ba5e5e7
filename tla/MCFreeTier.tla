---------------------------- MODULE MCFreeTier ----------------------------
(***************************************************************************)
(* Two requests and two calls of the attribution route.                  *)
(***************************************************************************)
EXTENDS FreeTier

=============================================================================
