------------------------- MODULE MCTerminalCommands -------------------------
(***************************************************************************)
(* A command next to a proxy tool, or three proxy tools.                   *)
(***************************************************************************)
EXTENDS TerminalCommands, TLC

CONSTANTS a, b, d

MCCalls == {a, b, d}

MCKinds ==
    {a :> k @@ b :> "proxy" @@ d :> "none" : k \in {"command", "background"}}
       \cup {[c \in MCCalls |-> "proxy"]}

=============================================================================
