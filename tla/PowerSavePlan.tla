---------------------------- MODULE PowerSavePlan ----------------------------
(***************************************************************************)
(* The power-save plan of the session power module                         *)
(* (src/session/power/power_save_plan.go and delayed_task.go).  When the   *)
(* session becomes idle a delayed task is armed for every entry of the     *)
(* plan; when the user is back, when the settings change and after a       *)
(* suspend the tasks are cancelled.  Three threads take psp.mu: the loop   *)
(* of session signals (idle on, idle off), the loop of login signals       *)
(* (suspend, wake-up) and the settings handler (update).  The callbacks of *)
(* the tasks run in threads of their own; one of them, screenBlack, arms   *)
(* another task and needs psp.mu to register it.                           *)
(*                                                                         *)
(* Timers are untimed: an armed timer may expire at any moment.            *)
(***************************************************************************)
EXTENDS Naturals, Sequences, FiniteSets

CONSTANTS
  Delays,      \* the delays that can be configured, by kind; 0 is never
  MaxIdle,     \* bound: idle periods of the user
  MaxOutside   \* bound: suspends, calls of SetPrepareSuspend, changes of the settings

MetaKind == {"sleep", "screenSaverStart", "lock", "screenBlack"}
Kind     == MetaKind \cup {"screenFullBlack"}

ASSUME PlanAssumption ==
  /\ Delays \subseteq [MetaKind -> Nat] /\ Delays # {}
  /\ MaxIdle \in Nat /\ MaxOutside \in Nat

\* A task is named by its kind and the idle period it belongs to.
Task   == Kind \X (1..MaxIdle)
Thread == {"session", "login", "settings"}

VARIABLES
  userIdle,        \* whether the user is idle
  periods,         \* number of idle periods so far
  idleSignals,     \* IdleOn and IdleOff signals not handled yet
  asleep,          \* between HandleForSleep(true) and HandleForSleep(false)
  outside,         \* number of suspends, calls of SetPrepareSuspend, settings changes
  mu,              \* psp.mu: who holds it
  thread,          \* progress of each thread
  left,            \* tasks a thread has still to cancel
  round,           \* number of idle periods whose tasks have been armed
  metaTasks,       \* psp.metaTasks, as the set of their kinds
  tasks,           \* psp.tasks
  state,           \* delayedTask.state
  cb,              \* timer and callback of each task
  adjust,          \* adjustBrightnessEnabled of a callback, or its table
  prepareSuspend,  \* Manager.prepareSuspend
  oldBrightness,   \* psp.oldBrightnessTable
  brightness,      \* of the display
  dpms,            \* whether the display is powered
  screensaver,     \* psp.screensaverRunning
  raced,           \* history: an idle-off has met a callback under way
  settled          \* history: an idle-off has ended since tasks were armed

userVars  == <<userIdle, periods, idleSignals>>
loginVars == <<asleep, outside, prepareSuspend>>
lockVars  == <<mu, thread, left>>
planVars  == <<round, metaTasks>>
taskVars  == <<tasks, state, cb, adjust>>
screenVars == <<oldBrightness, brightness, dpms, screensaver>>
histVars  == <<raced, settled>>
pspVars   == <<userVars, loginVars, lockVars, planVars, taskVars, screenVars, histVars>>

Finish == 3
Wakeup == 4
Prepare == 5
ButtonClick == 7

\* Brightness: "min" stands for anything below half of the user's level.
Level == {"user", "half", "min"}
Half(l) == IF l = "user" THEN "half" ELSE "min"

TaskState   == {"Ready", "Running", "Done"}
Callback    == {"none", "timer", "stopped", "fired", "run", "dim", "arm", "add",
                "read", "set", "off", "finish", "end"}
InCallback  == Callback \ {"none", "timer", "stopped", "end"}
ThreadState ==
  {"idle", "cancel", "wait", "plan", "dpms", "brightness", "clear", "keep", "wake", "woken"}

\* Update and canAddToTasks: a screen saver that would start after the sleep
\* is left out.
MetaTasks(d) ==
  {k \in MetaKind : d[k] > 0 /\ (k = "screenSaverStart" /\ d["sleep"] > 0 => d[k] <= d["sleep"])}

PlanInit ==
  /\ userIdle = FALSE /\ periods = 0 /\ idleSignals = <<>>
  /\ asleep = FALSE /\ outside = 0
  /\ mu = "free"
  /\ thread = [p \in Thread |-> "idle"]
  /\ left = [p \in Thread |-> {}]
  /\ round = 0
  /\ \E d \in Delays : metaTasks = MetaTasks(d)
  /\ tasks = {}
  /\ state = [t \in Task |-> "Ready"]
  /\ cb = [t \in Task |-> "none"]
  /\ adjust = [t \in Task |-> FALSE]
  /\ prepareSuspend = 1
  /\ oldBrightness = "nil" /\ brightness = "user" /\ dpms = "on" /\ screensaver = FALSE
  /\ raced = FALSE /\ settled = FALSE

-----------------------------------------------------------------------------
(* The environment: the user, logind and the settings.                     *)

UserIdle ==
  /\ ~userIdle /\ periods < MaxIdle
  /\ userIdle' = TRUE
  /\ periods' = periods + 1
  /\ idleSignals' = Append(idleSignals, "IdleOn")
  /\ UNCHANGED <<loginVars, lockVars, planVars, taskVars, screenVars, histVars>>

UserActive ==
  /\ userIdle
  /\ userIdle' = FALSE
  /\ idleSignals' = Append(idleSignals, "IdleOff")
  /\ UNCHANGED <<periods, loginVars, lockVars, planVars, taskVars, screenVars, histVars>>

\* HandleForSleep(true).
HandleBeforeSuspend ==
  /\ ~asleep /\ outside < MaxOutside /\ thread["login"] = "idle"
  /\ asleep' = TRUE /\ outside' = outside + 1
  /\ prepareSuspend' = Prepare
  /\ UNCHANGED <<userVars, lockVars, planVars, taskVars, screenVars, histVars>>

\* The method SetPrepareSuspend, called by the keybinding module for the
\* power button.  (Closing the lid sets LidClose, which acts like
\* ButtonClick.)
SetPrepareSuspend(v) ==
  /\ outside < MaxOutside
  /\ outside' = outside + 1
  /\ prepareSuspend' = v
  /\ UNCHANGED <<asleep, userVars, lockVars, planVars, taskVars, screenVars, histVars>>

-----------------------------------------------------------------------------
(* HandleIdleOn.  It holds psp.mu throughout, so it is one step.           *)

\* ignored: the session is inactive, or a full-screen window of a listed
\* application prevents idling.
HandleIdleOn(ignored) ==
  /\ thread["session"] = "idle" /\ idleSignals # <<>> /\ Head(idleSignals) = "IdleOn"
  /\ mu = "free"
  /\ idleSignals' = Tail(idleSignals)
  /\ IF ignored \/ prepareSuspend > Finish
       THEN UNCHANGED <<round, taskVars, settled>>
       ELSE LET new == metaTasks \X {round + 1}
            IN /\ round' = round + 1
               /\ tasks' = tasks \cup new
               /\ state' = [t \in Task |-> IF t \in new THEN "Ready" ELSE state[t]]
               /\ cb' = [t \in Task |-> IF t \in new THEN "timer" ELSE cb[t]]
               /\ settled' = FALSE
               /\ UNCHANGED adjust
  /\ UNCHANGED <<userIdle, periods, loginVars, lockVars, metaTasks, screenVars, raced>>

-----------------------------------------------------------------------------
(* HandleIdleOff, Update and interruptTasks.                               *)

Lock(p) ==
  /\ mu = "free" /\ mu' = p
  /\ thread' = [thread EXCEPT ![p] = "cancel"]
  /\ left' = [left EXCEPT ![p] = tasks]

\* The first part of HandleIdleOff, by the session or the login thread,
\* which goes on with state to.
IdleOffBegin(p, to) ==
  /\ mu = "free"
  /\ IF prepareSuspend >= Prepare
       THEN thread' = [thread EXCEPT ![p] = to] /\ UNCHANGED <<mu, left, raced>>
       ELSE Lock(p) /\ raced' = (raced \/ \E t \in Task : cb[t] \in InCallback)
  /\ prepareSuspend' = Finish
  /\ UNCHANGED settled

HandleIdleOff ==
  /\ thread["session"] = "idle" /\ idleSignals # <<>> /\ Head(idleSignals) = "IdleOff"
  /\ idleSignals' = Tail(idleSignals)
  /\ IdleOffBegin("session", "idle")
  /\ UNCHANGED <<userIdle, periods, asleep, outside, planVars, taskVars, screenVars>>

\* HandleForSleep(false), or logind has died: Wakeup, then HandleIdleOff.
HandleWakeup ==
  /\ thread["login"] = "idle" /\ asleep
  /\ asleep' = FALSE
  /\ prepareSuspend' = Wakeup
  /\ thread' = [thread EXCEPT !["login"] = "wake"]
  /\ UNCHANGED <<outside, userVars, mu, left, planVars, taskVars, screenVars, histVars>>

WakeupIdleOff ==
  /\ thread["login"] = "wake"
  /\ IdleOffBegin("login", "woken")
  /\ UNCHANGED <<asleep, outside, userVars, planVars, taskVars, screenVars>>

\* Reset, after a change of the settings or of OnBattery.
UpdateBegin ==
  /\ thread["settings"] = "idle" /\ outside < MaxOutside
  /\ outside' = outside + 1
  /\ Lock("settings")
  /\ UNCHANGED <<userVars, asleep, prepareSuspend, planVars, taskVars, screenVars, histVars>>

Cancelable(t) == cb[t] \in {"timer", "stopped", "fired"}

\* Mutant: only the tasks whose timer is certain to be pending are stopped.
CancelNoStop(p, t) ==
  /\ thread[p] = "cancel" /\ t \in left[p]
  /\ left' = [left EXCEPT ![p] = @ \ {t}]
  /\ state' = [state EXCEPT ![t] = IF Cancelable(t) THEN "Done" ELSE @]
  /\ raced' = (raced \/ (p # "settings" /\ cb[t] \in InCallback))
  /\ UNCHANGED <<userVars, loginVars, mu, thread, planVars, tasks, cb, adjust, screenVars, settled>>

\* delayedTask.Cancel: timer.Stop does not stop a callback that has been
\* started and waits for the lock of the task; its result is not looked at.
Cancel(p, t) ==
  /\ thread[p] = "cancel" /\ t \in left[p]
  /\ left' = [left EXCEPT ![p] = @ \ {t}]
  /\ state' = [state EXCEPT ![t] = IF Cancelable(t) THEN "Done" ELSE @]
  /\ cb' = [cb EXCEPT ![t] = IF @ = "timer" THEN "stopped" ELSE @]
  /\ raced' = (raced \/ (p # "settings" /\ cb[t] \in InCallback))
  /\ UNCHANGED <<userVars, loginVars, mu, thread, planVars, tasks, adjust, screenVars, settled>>

CancelAllDone(p) ==
  /\ thread[p] = "cancel" /\ left[p] = {}
  /\ thread' = [thread EXCEPT ![p] = "wait"]
  /\ UNCHANGED <<userVars, loginVars, mu, left, planVars, taskVars, screenVars, histVars>>

\* Mutant: Wait has no limit.
WaitUnbounded(p) ==
  /\ thread[p] = "wait"
  /\ \A t \in tasks : state[t] = "Done"
  /\ tasks' = {}
  /\ thread' = [thread EXCEPT ![p] = IF p = "settings" THEN "plan" ELSE "dpms"]
  /\ UNCHANGED <<userVars, loginVars, mu, left, planVars, state, cb, adjust, screenVars, histVars>>

\* Wait ends when all are done or after two seconds, whatever the tasks do;
\* the list is dropped in either case.
Wait(p) ==
  /\ thread[p] = "wait"
  /\ tasks' = {}
  /\ thread' = [thread EXCEPT ![p] = IF p = "settings" THEN "plan" ELSE "dpms"]
  /\ UNCHANGED <<userVars, loginVars, mu, left, planVars, state, cb, adjust, screenVars, histVars>>

Unlock(p, to) ==
  /\ mu' = "free"
  /\ thread' = [thread EXCEPT ![p] = to]

\* The rest of Update.
Replan ==
  /\ thread["settings"] = "plan"
  /\ \E d \in Delays : metaTasks' = MetaTasks(d)
  /\ Unlock("settings", "idle")
  /\ UNCHANGED <<userVars, loginVars, left, round, taskVars, screenVars, histVars>>

\* The rest of HandleIdleOff: the display on, then resetBrightness, which
\* sets the old level and forgets it, if there is one when it looks.
SetDPMSModeOn(p) ==
  /\ thread[p] = "dpms"
  /\ dpms' = "on"
  /\ thread' = [thread EXCEPT ![p] = "brightness"]
  /\ UNCHANGED <<userVars, loginVars, mu, left, planVars, taskVars, oldBrightness, brightness,
                 screensaver, histVars>>

ResetBrightness(p) ==
  /\ thread[p] = "brightness"
  /\ brightness' = IF oldBrightness # "nil" THEN oldBrightness ELSE brightness
  /\ thread' = [thread EXCEPT ![p] = IF oldBrightness # "nil" THEN "clear" ELSE "keep"]
  /\ UNCHANGED <<userVars, loginVars, mu, left, planVars, taskVars, oldBrightness, dpms,
                 screensaver, histVars>>

\* Mutant: the old level is kept after it has been restored.
ForgetBrightnessNot(p) ==
  /\ thread[p] \in {"clear", "keep"}
  /\ settled' = TRUE
  /\ Unlock(p, IF p = "login" THEN "woken" ELSE "idle")
  /\ UNCHANGED <<userVars, loginVars, left, planVars, taskVars, screenVars, raced>>

ForgetBrightness(p) ==
  /\ thread[p] \in {"clear", "keep"}
  /\ oldBrightness' = IF thread[p] = "clear" THEN "nil" ELSE oldBrightness
  /\ settled' = TRUE
  /\ Unlock(p, IF p = "login" THEN "woken" ELSE "idle")
  /\ UNCHANGED <<userVars, loginVars, left, planVars, taskVars, brightness, dpms,
                 screensaver, raced>>

\* handleWakeup goes on after HandleIdleOff, without psp.mu.
WakeupDPMSOn ==
  /\ thread["login"] = "woken"
  /\ dpms' = "on"
  /\ thread' = [thread EXCEPT !["login"] = "idle"]
  /\ UNCHANGED <<userVars, loginVars, mu, left, planVars, taskVars, oldBrightness, brightness,
                 screensaver, histVars>>

-----------------------------------------------------------------------------
(* The timers and the callbacks.                                           *)

CbStep(t, from, to) == cb[t] = from /\ cb' = [cb EXCEPT ![t] = to]

cbRest == <<userVars, loginVars, lockVars, planVars, histVars>>

Expire(t) ==
  /\ CbStep(t, "timer", "fired")
  /\ UNCHANGED <<cbRest, tasks, state, adjust, screenVars>>

\* The callback gets the lock of the task; it does not look whether the
\* task has been cancelled in the meantime.
Run(t) ==
  /\ CbStep(t, "fired", "run")
  /\ state' = [state EXCEPT ![t] = "Running"]
  /\ UNCHANGED <<cbRest, tasks, adjust, screenVars>>

StartScreensaver(t) ==
  /\ t[1] = "screenSaverStart" /\ CbStep(t, "run", "finish")
  /\ screensaver' = TRUE
  /\ UNCHANGED <<cbRest, tasks, state, adjust, oldBrightness, brightness, dpms>>

\* The lock screen and the suspend are other processes' work.
LockScreen(t) ==
  /\ t[1] = "lock" /\ CbStep(t, "run", "finish")
  /\ UNCHANGED <<cbRest, tasks, state, adjust, screenVars>>

MakeSystemSleep(t) ==
  /\ t[1] = "sleep" /\ CbStep(t, "run", "finish")
  /\ screensaver' = FALSE
  /\ UNCHANGED <<cbRest, tasks, state, adjust, oldBrightness, brightness, dpms>>

\* screenBlack: saveCurrentBrightness fails when a level is saved already.
SaveBrightness(t, enabled) ==
  /\ t[1] = "screenBlack"
  /\ LET saves == enabled /\ oldBrightness = "nil"
     IN /\ CbStep(t, "run", IF saves THEN "dim" ELSE "arm")
        /\ oldBrightness' = IF saves THEN brightness ELSE oldBrightness
        /\ adjust' = [adjust EXCEPT ![t] = saves]
  /\ UNCHANGED <<cbRest, tasks, state, brightness, dpms, screensaver>>

\* Half of the saved level, if the table is still there.
Dim(t) ==
  /\ CbStep(t, "dim", "arm")
  /\ brightness' = IF oldBrightness # "nil" THEN Half(oldBrightness) ELSE brightness
  /\ UNCHANGED <<cbRest, tasks, state, adjust, oldBrightness, dpms, screensaver>>

FullBlack(t) == <<"screenFullBlack", t[2]>>

\* newDelayedTask starts the timer; addTask needs psp.mu.
ArmFullBlack(t) ==
  /\ cb[t] = "arm"
  /\ cb' = [cb EXCEPT ![t] = "add", ![FullBlack(t)] = "timer"]
  /\ state' = [state EXCEPT ![FullBlack(t)] = "Ready"]
  /\ adjust' = [adjust EXCEPT ![FullBlack(t)] = adjust[t]]
  /\ UNCHANGED <<cbRest, tasks, screenVars>>

AddTask(t) ==
  /\ CbStep(t, "add", "finish") /\ mu = "free"
  /\ tasks' = tasks \cup {FullBlack(t)}
  /\ UNCHANGED <<cbRest, state, adjust, screenVars>>

\* screenFullBlack: the screen saver off, perhaps the lock screen, then the
\* table of minimal levels for the outputs that are saved.
ReadTable(t) ==
  /\ t[1] = "screenFullBlack" /\ CbStep(t, "run", "set")
  /\ screensaver' = FALSE
  /\ adjust' = [adjust EXCEPT ![t] = @ /\ oldBrightness # "nil"]
  /\ UNCHANGED <<cbRest, tasks, state, oldBrightness, brightness, dpms>>

SetMinimum(t) ==
  /\ CbStep(t, "set", "off")
  /\ brightness' = IF adjust[t] THEN "min" ELSE brightness
  /\ UNCHANGED <<cbRest, tasks, state, adjust, oldBrightness, dpms, screensaver>>

SetDPMSModeOff(t) ==
  /\ CbStep(t, "off", "finish")
  /\ dpms' = "off"
  /\ UNCHANGED <<cbRest, tasks, state, adjust, oldBrightness, brightness, screensaver>>

CallbackEnd(t) ==
  /\ CbStep(t, "finish", "end")
  /\ state' = [state EXCEPT ![t] = "Done"]
  /\ UNCHANGED <<cbRest, tasks, adjust, screenVars>>

-----------------------------------------------------------------------------
ThreadStep(p) ==
  \/ \E t \in Task : Cancel(p, t)
  \/ CancelAllDone(p)
  \/ Wait(p)
  \/ p = "settings" /\ Replan
  \/ SetDPMSModeOn(p)
  \/ ResetBrightness(p)
  \/ ForgetBrightness(p)
  \/ p = "session" /\ ((\E i \in BOOLEAN : HandleIdleOn(i)) \/ HandleIdleOff)
  \/ p = "login" /\ (WakeupIdleOff \/ WakeupDPMSOn)

CallbackStep(t) ==
  /\ cb[t] \in InCallback
  /\ \/ Run(t)
     \/ StartScreensaver(t)
     \/ LockScreen(t)
     \/ MakeSystemSleep(t)
     \/ \E enabled \in BOOLEAN : SaveBrightness(t, enabled)
     \/ Dim(t)
     \/ ArmFullBlack(t)
     \/ AddTask(t)
     \/ ReadTable(t)
     \/ SetMinimum(t)
     \/ SetDPMSModeOff(t)
     \/ CallbackEnd(t)

PlanNext ==
  \/ UserIdle \/ UserActive
  \/ HandleBeforeSuspend \/ HandleWakeup
  \/ \E v \in {Finish, ButtonClick} : SetPrepareSuspend(v)
  \/ UpdateBegin
  \/ \E p \in Thread : ThreadStep(p)
  \/ \E t \in Task : Expire(t) \/ CallbackStep(t)

(* The signal loops and the callbacks keep running; users, timers, logind  *)
(* and settings owe nothing.                                               *)
PlanProgress ==
  \/ \E p \in Thread : ThreadStep(p)
  \/ \E t \in Task : CallbackStep(t)

PlanFairness == WF_pspVars(PlanProgress)

PlanSpec == PlanInit /\ [][PlanNext]_pspVars /\ PlanFairness

-----------------------------------------------------------------------------
(* No timer is lost: a timer that can still expire belongs to a task that  *)
(* is in psp.tasks, where the next cancelling finds it, or that its        *)
(* creator is about to put there.  A lost timer would put an active        *)
(* session to sleep.                                                       *)
NoLostTimer ==
  \A t \in Task : cb[t] = "timer" =>
     \/ t \in tasks
     \/ t[1] = "screenFullBlack" /\ cb[<<"screenBlack", t[2]>>] = "add"

(* As long as every idle-off met only pending timers and finished          *)
(* callbacks, the display is on at the user's own level, and no saved      *)
(* level is left over, from the end of an idle-off to the next idle-on.    *)
IdleOffRestores ==
  settled /\ ~raced /\ mu = "free" => dpms = "on" /\ brightness = "user" /\ oldBrightness = "nil"

(* interruptTasks waits for callbacks with psp.mu held, and a callback     *)
(* waits for psp.mu: every handler returns all the same.                   *)
HandlersReturn == \A p \in Thread : []<>(thread[p] = "idle")

(* LinePowerScreenBlackDelay is the time without any user operation until  *)
(* the screen is turned off (docs/session-power.md:34), and interruptTasks *)
(* cancels the earlier tasks (power_save_plan.go:374): once an idle-off    *)
(* has been handled the display is on until the next idle period.          *)
LitWhileActive ==
  /\ ~userIdle /\ idleSignals = <<>> /\ mu = "free" /\ thread["login"] = "idle"
  /\ \A t \in Task : cb[t] \notin InCallback
  => dpms = "on"
============================================================================
