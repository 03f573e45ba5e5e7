--------------------------- MODULE MCPtySessions ---------------------------
(***************************************************************************)
(* Three calls of create() against a cap of one session, two at once: the  *)
(* cap is reached, passed by the racing calls, and refuses.                *)
(***************************************************************************)
EXTENDS PtySessions

=============================================================================
