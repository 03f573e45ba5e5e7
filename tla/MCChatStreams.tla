--------------------------- MODULE MCChatStreams ---------------------------
(***************************************************************************)
(* Two requests of one tab, the second sent beside, after or instead of    *)
(* the first, in a saved and in a temporary chat.                          *)
(***************************************************************************)
EXTENDS ChatStreams

=============================================================================
