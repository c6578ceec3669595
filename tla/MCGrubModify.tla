---------------------------- MODULE MCGrubModify ----------------------------
(***************************************************************************)
(* Instances of GrubModify for TLC.  Two setters that compete for a key, a *)
(* setter that adjusts the theme, a change of the edit authorization and a *)
(* reset; two setters alone.                                               *)
(***************************************************************************)
EXTENDS GrubModify, TLC

CONSTANTS c1, c2, c3, c4, c5

O(m, k, v) == [method |-> m, key |-> k, value |-> v]

Mixed   == (c1 :> O("Set", "Timeout", 1)) @@ (c2 :> O("Set", "Timeout", 2))
           @@ (c3 :> O("Set", "EnableTheme", 1)) @@ (c4 :> O("EditAuth", "Timeout", 0))
           @@ (c5 :> O("Reset", "Timeout", 0))
TwoSets == (c1 :> O("Set", "Timeout", 1)) @@ (c2 :> O("Set", "DefaultEntry", 1))
=============================================================================
