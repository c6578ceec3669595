---------------------------- MODULE MCAutoConnect ----------------------------
(***************************************************************************)
(* An instance of AutoConnect for TLC: two devices on one adapter and one  *)
(* on another.                                                             *)
(***************************************************************************)
EXTENDS AutoConnect, TLC

MCAdapterOf == ("mouse" :> "hci0") @@ ("keyboard" :> "hci0") @@ ("headset" :> "hci1")
=============================================================================
