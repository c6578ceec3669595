--------------------------- MODULE MCAirplaneMode ---------------------------
(***************************************************************************)
(* An instance of AirplaneMode for TLC: radios 1, 2 and 3, two of them of  *)
(* one type.                                                               *)
(***************************************************************************)
EXTENDS AirplaneMode

TwoBt == <<"bt", "wifi", "bt">>
=============================================================================
