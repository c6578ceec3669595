----------------------------- MODULE LidSwitch -----------------------------
(***************************************************************************)
(* The laptop's lid and the ambient light sensor in the session daemon     *)
(* (src/session/power: lid_switch.go, manager_ambient_light.go).  Every    *)
(* lid event cancels the operation that waits and starts a goroutine that  *)
(* operates 1.5 s later unless the next event cancels it.  Lid operations, *)
(* the session's activity, a setting and the restart of the sensor service *)
(* each decide, in their own threads, whether the light sensor is claimed. *)
(*                                                                         *)
(* The goroutines' timers run out in the order in which they were started. *)
(***************************************************************************)
EXTENDS Naturals, Sequences

CONSTANTS
  MaxLid,       \* bound on the lid events
  MaxLight,     \* bound on the changes that concern the light sensor
  MaxLightFail  \* bound on the failures of ClaimLight and ReleaseLight

ASSUME LidAssumption == MaxLid \in Nat /\ MaxLight \in Nat /\ MaxLightFail \in Nat

Gen == 1..MaxLid
LightThread == {<<"lid", g>> : g \in Gen}
               \cup {<<"session", 0>>, <<"system", 0>>, <<"settings", 0>>}

VARIABLES
  cookie,         \* LidSwitchHandler.cookie: number of the event it is for
  lidOp,          \* the goroutines of onLidDelayOperate
  timers,         \* the goroutines in the order in which their timers were started
  isLidOpenLast,  \* LidSwitchHandler.isLidOpenLast
  screenBlack,    \* the window manager's black screen (wmBlackScreen)
  light,          \* Manager: sensor, auto, active, lidClosed, claimed
  lightTodo,      \* events about the light that have not been handled
  decided,        \* threads between the decision and the call that follows it
  proxy,          \* the sensor service has our claim
  lidHist         \* history: events made, late goroutines, overlapped decisions

lidVars   == <<cookie, lidOp, timers, isLidOpenLast, screenBlack>>
lightVars == <<light, lightTodo, decided, proxy>>
lidSwitchVars == <<lidVars, lightVars, lidHist>>

NoOp   == [pc |-> "none", open |-> TRUE, on |-> 0]
ShouldClaim == light.sensor /\ light.auto /\ light.active /\ ~light.lidClosed

\* Manager.init has claimed the sensor.
LidInit ==
  /\ cookie = 0
  /\ lidOp = [g \in Gen |-> NoOp]
  /\ timers = <<>>
  /\ isLidOpenLast = TRUE
  /\ screenBlack = FALSE
  /\ light = [sensor |-> TRUE, auto |-> TRUE, active |-> TRUE, lidClosed |-> FALSE,
              claimed |-> TRUE]
  /\ lightTodo = {}
  /\ decided = [t \in LightThread |-> "no"]
  /\ proxy = TRUE
  /\ lidHist = [light |-> 0, fails |-> 0, lateStart |-> FALSE, overlap |-> FALSE,
                early |-> FALSE, together |-> FALSE]

-----------------------------------------------------------------------------
(* onLidDelayOperate.                                                      *)

\* Events alternate.  The send to the previous cookie never blocks, and
\* closing it ends the goroutine that listens to it.
LidEvent ==
  /\ cookie < MaxLid
  /\ cookie' = cookie + 1
  /\ lidOp' = [lidOp EXCEPT ![cookie + 1] =
                 [pc |-> "new", open |-> (cookie > 0 /\ ~lidOp[cookie].open), on |-> 0]]
  /\ UNCHANGED <<timers, isLidOpenLast, screenBlack, lightVars, lidHist>>

\* The goroutine reads h.cookie when it is scheduled: one that is late
\* listens to a later event's cookie.
Listen(g) ==
  /\ lidOp[g].pc = "new"
  /\ lidOp' = [lidOp EXCEPT ![g].pc = "listen", ![g].on = cookie]
  /\ timers' = Append(timers, g)
  /\ lidHist' = [lidHist EXCEPT !.lateStart = @ \/ cookie # g]
  /\ UNCHANGED <<cookie, isLidOpenLast, screenBlack, lightVars>>

Ready(g) == lidOp[g].pc = "listen"
RunsOut(g) == \E i \in DOMAIN timers : timers[i] = g /\ \A j \in 1..(i - 1) : ~Ready(timers[j])

LidCancelled(g) ==
  /\ Ready(g) /\ lidOp[g].on < cookie
  /\ lidOp' = [lidOp EXCEPT ![g].pc = "end"]
  /\ UNCHANGED <<cookie, timers, isLidOpenLast, screenBlack, lightVars, lidHist>>

\* Mutant: the operation is not remembered.
DoLidStateChangedForgets(g) ==
  /\ Ready(g) /\ RunsOut(g)
  /\ lidOp' = [lidOp EXCEPT ![g].pc = IF isLidOpenLast = lidOp[g].open THEN "end" ELSE "light"]
  /\ light' = [light EXCEPT !.lidClosed = @ \/ isLidOpenLast # lidOp[g].open]
  /\ UNCHANGED <<cookie, timers, isLidOpenLast, screenBlack, lightTodo, decided, proxy, lidHist>>

\* The timer ran out: doLidStateChanged up to claimOrReleaseAmbientLight.
\* lidSwitchState is set to "close" when the lid opens, too.
DoLidStateChanged(g) ==
  /\ Ready(g) /\ RunsOut(g)
  /\ IF isLidOpenLast = lidOp[g].open
     THEN /\ lidOp' = [lidOp EXCEPT ![g].pc = "end"]
          /\ UNCHANGED <<isLidOpenLast, light>>
     ELSE /\ isLidOpenLast' = lidOp[g].open
          /\ light' = [light EXCEPT !.lidClosed = TRUE]
          /\ lidOp' = [lidOp EXCEPT ![g].pc = "light"]
  /\ lidHist' = [lidHist EXCEPT !.together = @ \/ \E h \in Gen : lidOp[h].pc \in {"light", "operate"}]
  /\ UNCHANGED <<cookie, timers, screenBlack, lightTodo, decided, proxy>>

\* The rest: closing runs the configured action, and black is the screen
\* unless the action is none or switches the screen off; opening lights it.
OperateLid(g, black) ==
  /\ lidOp[g].pc = "operate"
  /\ screenBlack' = (~lidOp[g].open /\ (screenBlack \/ black))
  /\ lidOp' = [lidOp EXCEPT ![g].pc = "end"]
  /\ UNCHANGED <<cookie, timers, isLidOpenLast, lightVars, lidHist>>

-----------------------------------------------------------------------------
(* claimOrReleaseAmbientLight.                                             *)

LightEvent(t, new) ==
  /\ lidHist.light < MaxLight /\ t \notin lightTodo
  /\ lidHist' = [lidHist EXCEPT !.light = @ + 1]
  /\ lightTodo' = lightTodo \cup {t}
  /\ light' = new
  /\ UNCHANGED <<lidVars, decided>>

\* The setting is changed at once and its callback comes later.
WriteAuto == LightEvent(<<"settings", 0>>, [light EXCEPT !.auto = ~@]) /\ UNCHANGED proxy

SessionEvent == LightEvent(<<"session", 0>>, light) /\ UNCHANGED proxy

ProxyRestarts == LightEvent(<<"system", 0>>, light) /\ proxy' = FALSE

\* Mutant: the restart of the service is not noticed.
HandledKeeps(t, has) ==
  IF t[1] = "session" THEN [light EXCEPT !.active = ~@] ELSE light

\* What the handlers set under PropsMu before they call; after a restart the
\* service is asked whether it has a sensor.
Handled(t, has) ==
  CASE t[1] = "session" -> [light EXCEPT !.active = ~@]
    [] t[1] = "system" -> [light EXCEPT !.claimed = FALSE, !.sensor = has]
    [] OTHER -> light

\* A handler up to the decision, taken under PropsMu.RLock.
Decide(t, has) ==
  LET new == Handled(t, has)
  IN /\ decided[t] = "no"
     /\ IF t[1] = "lid"
        THEN lidOp[t[2]].pc = "light" /\ UNCHANGED lightTodo
        ELSE t \in lightTodo /\ lightTodo' = lightTodo \ {t}
     /\ light' = new
     /\ decided' = [decided EXCEPT ![t] = IF new.sensor /\ new.auto /\ new.active /\ ~new.lidClosed
                                          THEN "claim" ELSE "release"]
     /\ lidHist' = [lidHist EXCEPT
                      !.overlap = @ \/ \E u \in LightThread : decided[u] # "no",
                      !.early = @ \/ (t[1] = "system" /\ proxy)]
     /\ UNCHANGED <<lidVars, proxy>>

\* claimAmbientLight and releaseAmbientLight, under PropsMu.
Apply(t, fails) ==
  LET claim == decided[t] = "claim"
      call  == claim # light.claimed
  IN /\ decided[t] # "no"
     /\ fails => call /\ lidHist.fails < MaxLightFail
     /\ light' = [light EXCEPT !.claimed = IF fails THEN @ ELSE claim]
     /\ proxy' = IF call /\ ~fails THEN claim ELSE proxy
     /\ decided' = [decided EXCEPT ![t] = "no"]
     /\ lidOp' = IF t[1] = "lid" THEN [lidOp EXCEPT ![t[2]].pc = "operate"] ELSE lidOp
     /\ lidHist' = [lidHist EXCEPT !.fails = IF fails THEN @ + 1 ELSE @]
     /\ UNCHANGED <<cookie, timers, isLidOpenLast, screenBlack, lightTodo>>

-----------------------------------------------------------------------------
LidNext ==
  \/ LidEvent
  \/ \E g \in Gen : \/ Listen(g) \/ LidCancelled(g) \/ DoLidStateChanged(g)
                    \/ \E black \in BOOLEAN : OperateLid(g, black)
  \/ WriteAuto \/ SessionEvent \/ ProxyRestarts
  \/ \E t \in LightThread, b \in BOOLEAN : Decide(t, b) \/ Apply(t, b)

LidSpec == LidInit /\ [][LidNext]_lidSwitchVars

-----------------------------------------------------------------------------
LidSettled == \A g \in Gen : lidOp[g].pc \in {"none", "end"}

(* When all the operations are over, the last one that counted is for the  *)
(* lid as it is, however fast it was opened and closed, unless a goroutine *)
(* was scheduled only after the next event.                                *)
LidFollowed ==
  LidSettled /\ cookie > 0 /\ ~lidHist.lateStart => isLidOpenLast = lidOp[cookie].open

(* The screen of an open lid is not left black, unless the operation for   *)
(* opening began while the one for closing was still under way.            *)
OpenNotBlack ==
  LidSettled /\ isLidOpenLast /\ ~lidHist.lateStart /\ ~lidHist.together => ~screenBlack

(* When every handler has returned, the sensor service has our claim       *)
(* exactly when a decision taken now would claim it, unless two decisions  *)
(* overlapped, a call failed, or the service was claimed between its       *)
(* restart and the signal of it.                                           *)
SensorClaimed ==
  /\ lightTodo = {} /\ \A t \in LightThread : decided[t] = "no"
  /\ \A g \in Gen : lidOp[g].pc # "light"
  /\ ~lidHist.overlap /\ lidHist.fails = 0 /\ ~lidHist.early
  => light.claimed = ShouldClaim /\ proxy = light.claimed

(* The last operation is for the lid as it is, and leaves its screen lit.  *)
LidObeyed == LidFollowed /\ OpenNotBlack
=============================================================================
