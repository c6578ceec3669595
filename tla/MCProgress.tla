----------------------------- MODULE MCProgress -----------------------------
(***************************************************************************)
(* Components whose goroutines wait for one another and must all come to   *)
(* an end: the module loader, the search of the launcher, the power-save   *)
(* plan, the transfer of files over bluetooth and the warnings of a low    *)
(* battery.                                                                *)
(*                                                                         *)
(* They run in different processes or in goroutines that share nothing, no *)
(* two of the modules have a variable in common and every property reads   *)
(* the variables of one.  So a step of one commutes with the steps of the  *)
(* others, and it is enough to look at the behaviours in which one of them *)
(* (focus) moves while the others stay as they begin: TLC explores the sum *)
(* of the state spaces instead of their product.                           *)
(***************************************************************************)
EXTENDS Loader, LauncherSearch, PowerSavePlan, ObexTransfer, WarnLevel, TLC

VARIABLE focus

Component == {"loader", "search", "plan", "obex", "warn_level"}

progressVars == <<focus, loaderVars, searchVars, pspVars, obexVars, warnVars>>

ProgressInit ==
  /\ focus \in Component
  /\ LoaderInit /\ SearchInit /\ PlanInit /\ ObexInit
  /\ WarnInit /\ (focus # "warn_level" => cfg = DefaultConfig)

\* Component k moves, the others do not.
Only(k) ==
  /\ focus = k /\ focus' = k
  /\ k # "loader" => UNCHANGED loaderVars
  /\ k # "search" => UNCHANGED searchVars
  /\ k # "plan" => UNCHANGED pspVars
  /\ k # "obex" => UNCHANGED obexVars
  /\ k # "warn_level" => UNCHANGED warnVars

ProgressNext ==
  \/ Only("loader") /\ (LoaderNext \/ Ended)
  \/ Only("search") /\ SearchNext
  \/ Only("plan") /\ PlanNext
  \/ Only("obex") /\ ObexNext
  \/ Only("warn_level") /\ WarnNext

\* The fairness of the module that moves: with focus fixed, one condition
\* says what the conditions of the modules say together.
Progress ==
  \/ Only("loader") /\ LoaderProgress
  \/ Only("search") /\ SearchProgress
  \/ Only("plan") /\ PlanProgress
  \/ Only("obex") /\ ObexProgress
  \/ Only("warn_level") /\ WarnProgress

ProgressSpec ==
  ProgressInit /\ [][ProgressNext]_progressVars /\ WF_progressVars(Progress)

-----------------------------------------------------------------------------
\* Loader: c needs a and b, and b needs a; "again" reaches two of these a
\* second time; "cycle" asks for a module that needs itself; the other calls
\* ask for a name nobody registered (x) and are refused, passed over or forced.
MCDep     == ("a" :> {}) @@ ("b" :> {"a"}) @@ ("c" :> {"a", "b"}) @@ ("e" :> {"e"})
MCRequest == [k \in Call |-> CASE k = "all" -> {"c"} [] k = "again" -> {"b"}
                               [] k = "cycle" -> {"e"} [] OTHER -> {"x"}]
MCDisable == [k \in Call |-> {"b", "x"}]
MCFlag    == [k \in Call |-> CASE k = "skipped" -> {"IgnoreMissingModule"}
                               [] k = "forced" -> {"IgnoreMissingModule", "ForceStart"}
                               [] OTHER -> {}]
\* A missing name is passed over only at LevelDebug.
MCDebug   == [k \in Call |-> k = "skipped"]

\* LauncherSearch: the keys begin with one another, or do not.
MCTargets == ("abacus" :> {<<"a", "b">>}) @@ ("bank" :> {<<"b", "a">>})
MCKey     == {<<>>, <<"a">>, <<"a", "b">>, <<"b">>}

\* WarnLevel: the defaults of the schema, and settings whose times are out
\* of order.
MCDefaultConfig ==
  [usePercentage |-> TRUE, threshold |-> 20,
   action |-> 5, critical |-> 10, danger |-> 15, low |-> 20, remind |-> 25,
   actionTime |-> 300, criticalTime |-> 600, dangerTime |-> 900, lowTime |-> 1200]
MCConfigs == {MCDefaultConfig, [MCDefaultConfig EXCEPT !.usePercentage = FALSE, !.lowTime = 200]}
MCMinutes == [p \in {0, 5, 100} |-> p * 60]

\* PowerSavePlan: the screen goes black after ten minutes.
OnlyBlack ==
  {[k \in MetaKind |-> IF k = "screenBlack" THEN 600 ELSE 0]}
=============================================================================
