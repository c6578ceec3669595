--------------------------- MODULE MCAudioPriority ---------------------------
(***************************************************************************)
(* An instance of AudioPriority for TLC: two ports of one type between the *)
(* others, and a file with the types and the ports of an earlier run.      *)
(***************************************************************************)
EXTENDS AudioPriority, TLC

MCPortType == ("bt" :> 0) @@ ("jack" :> 1) @@ ("jack2" :> 1) @@ ("usb" :> 2)
MCOldFiles == {NoFile, Priorities(<<1, 0>>, <<"jack", "bt">>)}
=============================================================================
