--------------------------- MODULE MCPowerSavePlan ---------------------------
(***************************************************************************)
(* Instances of PowerSavePlan for TLC.                                     *)
(***************************************************************************)
EXTENDS PowerSavePlan

D(sleep, saver, lock, black) ==
  [k \in MetaKind |-> CASE k = "sleep" -> sleep [] k = "screenSaverStart" -> saver
                        [] k = "lock" -> lock [] k = "screenBlack" -> black]

OnlyBlack == {D(0, 0, 0, 600)}
\* One kind at a time; in the second plan the screen saver would start after
\* the sleep and is left out.
OneKind   == {D(0, 0, 0, 600), D(300, 600, 0, 0), D(0, 300, 0, 0), D(0, 0, 600, 0)}
============================================================================
