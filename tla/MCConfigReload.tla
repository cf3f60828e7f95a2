--------------------------- MODULE MCConfigReload ---------------------------
(* Instances of ConfigReload for TLC: A and B differ in all that may change *)
(* while running, C changes the listen address as well.                     *)
EXTENDS ConfigReload, TLC

CONSTANTS A, B, C, p1, p2

Parsed(f, t, p) == [valid |-> TRUE, fixed |-> f, token |-> t, path |-> p, backends |-> t]
Configs == (A :> Parsed(1, 1, p1)) @@ (B :> Parsed(1, 2, p2)) @@ (C :> Parsed(2, 3, p2))
=============================================================================
