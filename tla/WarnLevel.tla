----------------------------- MODULE WarnLevel -----------------------------
(***************************************************************************)
(* Low battery, from the battery to the forced suspend: the system daemon  *)
(* (src/system/power) publishes the battery's percentage and whether mains *)
(* are on, the session daemon (src/session/power) turns them into a warn   *)
(* level, and a change of level starts or stops the countdown that locks   *)
(* the screen, shows the low-power screen and suspends the machine.        *)
(*                                                                         *)
(* handleBatteryDisplayUpdate runs in the signal loop and, when a setting  *)
(* changes, in the thread of the settings.  The level is set under PropsMu *)
(* and acted upon outside it.  The countdown runs in a goroutine of its    *)
(* own and is stopped through a field that has no lock.  The ten settings  *)
(* that Reset writes one by one are written in one step.                   *)
(***************************************************************************)
EXTENDS Naturals, Sequences

CONSTANTS
  Percent,      \* the percentages a battery may report
  Minutes,      \* the values of timeToEmpty, a function of the percentage
  Configs,      \* the settings the user may write
  DefaultConfig,
  Ticker,       \* the countdowns that can be made, 1..n
  MaxPower,     \* bound on the changes of the battery and of the mains
  MaxSettings   \* bound on the changes of the settings

LevelNone == 0
LevelRemind == 1
LevelLow == 2
LevelDanger == 3
LevelCritical == 4
LevelAction == 5

WarnThread == {"signals", "settings"}

ASSUME WarnAssumption ==
  /\ Percent \subseteq 1..100
  /\ Minutes \in [Percent \cup {0} -> Nat]
  /\ DefaultConfig \in Configs
  /\ Ticker \subseteq Nat \ {0}

VARIABLES
  power,      \* what the system daemon publishes, and its pending refreshes
  cfg,        \* the settings of the warn levels
  wlInbox,    \* signals of the system daemon that are on their way
  wlTodo,     \* settings signal not handled yet; the timer of delayCheckValid
  onBattery,  \* Manager.OnBattery of the session daemon
  level,      \* Manager.WarnLevel
  handler,    \* progress of each thread in handleBatteryDisplayUpdate
  counter,    \* Manager.warnLevelCountTicker, 0 for nil
  ticker,     \* the countdowns
  lowScreen,  \* the low-power screen is shown
  wlHist      \* history: changes made, handlers overlapped, forced suspend, ...

sysVars  == <<power, wlInbox>>
tickVars == <<counter, ticker, lowScreen>>
warnVars == <<power, cfg, wlInbox, wlTodo, onBattery, level, handler, counter,
              ticker, lowScreen, wlHist>>

-----------------------------------------------------------------------------
(* warn_level.go: getWarnLevel.                                            *)

LevelByPercentage(c, p) ==
  IF p = 0 \/ p > c.threshold THEN LevelNone
  ELSE IF p <= c.action THEN LevelAction
  ELSE IF p <= c.critical THEN LevelCritical
  ELSE IF p <= c.danger THEN LevelDanger
  ELSE IF p <= c.low THEN LevelLow
  ELSE IF p <= c.remind THEN LevelRemind
  ELSE LevelNone

LevelByTime(c, t) ==
  IF t > c.lowTime \/ t = 0 THEN LevelNone
  ELSE IF t > c.dangerTime THEN LevelLow
  ELSE IF t > c.criticalTime THEN LevelDanger
  ELSE IF t > c.actionTime THEN LevelCritical
  ELSE LevelAction

GetWarnLevel(c, battery, p, t) ==
  IF ~battery THEN LevelNone
  ELSE IF c.usePercentage THEN LevelByPercentage(c, p) ELSE LevelByTime(c, t)

ValidConfig(c) ==
  /\ c.lowTime > c.dangerTime /\ c.dangerTime > c.criticalTime
  /\ c.criticalTime > c.actionTime
  /\ c.remind > c.low /\ c.low > c.danger /\ c.danger > c.critical
  /\ c.critical > c.action

ASSUME DefaultsValid == ValidConfig(DefaultConfig)

-----------------------------------------------------------------------------
NoTicker == [state |-> "none", count |-> 0, late |-> FALSE]
AtRest   == [pc |-> "idle", has |-> FALSE, level |-> LevelNone, made |-> 0]

\* The session daemon starts on mains with a charged battery; it has read
\* both and handled the first update.  The settings are those that were
\* stored: NewWarnLevelConfigManager does not check them.
WarnInit ==
  /\ power = [has |-> TRUE, percent |-> 100, mains |-> TRUE, refreshes |-> 0]
  /\ cfg \in Configs
  /\ wlInbox = <<>>
  /\ wlTodo = [changed |-> FALSE, check |-> FALSE]
  /\ onBattery = FALSE
  /\ level = LevelNone
  /\ handler = [t \in WarnThread |-> AtRest]
  /\ counter = 0
  /\ ticker = [k \in Ticker |-> NoTicker]
  /\ lowScreen = FALSE
  /\ wlHist = [power |-> 0, settings |-> 0, raced |-> FALSE, late |-> FALSE,
               fired |-> FALSE, stale |-> FALSE, panic |-> FALSE]

WlUp == ~wlHist.panic

-----------------------------------------------------------------------------
(* The system daemon.  Its signals reach the session daemon in order.      *)

PowerEvent == /\ WlUp /\ wlHist.power < MaxPower
              /\ wlHist' = [wlHist EXCEPT !.power = @ + 1]
              /\ UNCHANGED <<cfg, wlTodo, onBattery, level, handler, tickVars>>

\* Mutant: the batteries are not refreshed when the mains change.
HandleMainsNoRefresh ==
  /\ PowerEvent
  /\ power' = [power EXCEPT !.mains = ~@]
  /\ wlInbox' = Append(wlInbox, IF power.mains THEN "onBattery" ELSE "onMains")

\* handleUEvent for the mains: refreshAC, and the batteries are refreshed
\* one and three seconds later.
HandleMains ==
  /\ PowerEvent
  /\ power' = [power EXCEPT !.mains = ~@, !.refreshes = 2]
  /\ wlInbox' = Append(wlInbox, IF power.mains THEN "onBattery" ELSE "onMains")

\* Battery.Refresh with what the battery reports, and refreshBatteryDisplay.
BatteryReports(p) ==
  /\ PowerEvent
  /\ power.has /\ p # power.percent
  /\ power' = [power EXCEPT !.percent = p]
  /\ wlInbox' = Append(wlInbox, "display")

\* removeBattery, and addAndExportBattery with the first report.
RemoveBattery ==
  /\ PowerEvent
  /\ power.has
  /\ power' = [power EXCEPT !.has = FALSE, !.percent = 0]
  /\ wlInbox' = Append(wlInbox, "display")

AddBattery(p) ==
  /\ PowerEvent
  /\ ~power.has
  /\ power' = [power EXCEPT !.has = TRUE, !.percent = p]
  /\ wlInbox' = Append(wlInbox, "display")

\* refreshBatteries by a timer of handleUEvent: there may be none to refresh.
RefreshBatteries ==
  /\ WlUp /\ power.refreshes > 0
  /\ power' = [power EXCEPT !.refreshes = @ - 1]
  /\ wlInbox' = IF power.has THEN Append(wlInbox, "display") ELSE wlInbox
  /\ UNCHANGED <<cfg, wlTodo, onBattery, level, handler, tickVars, wlHist>>

-----------------------------------------------------------------------------
(* The settings of the warn levels.                                        *)

WriteConfig(c) ==
  /\ WlUp /\ wlHist.settings < MaxSettings
  /\ c # cfg
  /\ cfg' = c
  /\ wlTodo' = [wlTodo EXCEPT !.changed = TRUE]
  /\ wlHist' = [wlHist EXCEPT !.settings = @ + 1]
  /\ UNCHANGED <<sysVars, onBattery, level, handler, tickVars>>

\* Mutant: the settings are checked only after a change that is valid.
CheckValidNever ==
  /\ WlUp /\ wlTodo.check
  /\ wlTodo' = [wlTodo EXCEPT !.check = FALSE]
  /\ UNCHANGED <<sysVars, cfg, onBattery, level, handler, tickVars, wlHist>>

\* The timer of delayCheckValid.
CheckValid ==
  /\ WlUp /\ wlTodo.check
  /\ cfg' = IF ValidConfig(cfg) THEN cfg ELSE DefaultConfig
  /\ wlTodo' = [check |-> FALSE, changed |-> wlTodo.changed \/ ~ValidConfig(cfg)]
  /\ UNCHANGED <<sysVars, onBattery, level, handler, tickVars, wlHist>>

-----------------------------------------------------------------------------
(* The session daemon: the handler of OnBattery, which plays a sound, and  *)
(* handleBatteryDisplayUpdate.                                             *)

Step(t, from, to) == /\ WlUp /\ handler[t].pc = from
                     /\ handler' = [handler EXCEPT ![t].pc = to]

HandleOnBattery ==
  /\ WlUp /\ handler["signals"].pc = "idle"
  /\ wlInbox # <<>> /\ Head(wlInbox) # "display"
  /\ onBattery' = (Head(wlInbox) = "onBattery")
  /\ wlInbox' = Tail(wlInbox)
  /\ UNCHANGED <<power, cfg, wlTodo, level, handler, tickVars, wlHist>>

\* HasBattery is read before PropsMu is taken.
ReadHasBattery(t) ==
  /\ WlUp /\ handler[t].pc = "idle"
  /\ IF t = "signals"
     THEN /\ wlInbox # <<>> /\ Head(wlInbox) = "display"
          /\ wlInbox' = Tail(wlInbox)
          /\ UNCHANGED wlTodo
     ELSE /\ wlTodo.changed
          /\ wlTodo' = [wlTodo EXCEPT !.changed = FALSE]
          /\ UNCHANGED wlInbox
  /\ handler' = [handler EXCEPT ![t] =
                  [pc |-> "has", has |-> power.has, level |-> LevelNone, made |-> 0]]
  /\ wlHist' = [wlHist EXCEPT !.raced = @ \/ \E u \in WarnThread : handler[u].pc # "idle"]
  /\ UNCHANGED <<power, cfg, onBattery, level, tickVars>>

\* The level for what is published now.  A battery that fell to 0 % keeps
\* the level it had.
NewLevel(has) ==
  IF ~has THEN LevelNone
  ELSE IF cfg.usePercentage /\ power.percent = 0 /\ level # LevelNone THEN level
  ELSE GetWarnLevel(cfg, onBattery, power.percent, Minutes[power.percent])

\* Under PropsMu.  notifyChange arms the timer of delayCheckValid when the
\* callback has returned.
SetWarnLevel(t) ==
  LET new == NewLevel(handler[t].has)
  IN /\ WlUp /\ handler[t].pc = "has"
     /\ level' = new
     /\ handler' = [handler EXCEPT ![t].level = new,
                                   ![t].pc = IF new # level THEN "changed" ELSE "leave"]
     /\ wlHist' = [wlHist EXCEPT !.fired = @ /\ new = level,
                                 !.stale = handler[t].has # power.has]
     /\ UNCHANGED <<sysVars, cfg, wlTodo, onBattery, tickVars>>

\* disableWarnLevelCountTicker looks at the field ...
FieldSet(t) ==
  /\ Step(t, "changed", IF counter = 0 THEN "switch" ELSE "stop")
  /\ UNCHANGED <<sysVars, cfg, wlTodo, onBattery, level, tickVars, wlHist>>

\* ... and stops what is in it then: close of a closed channel panics, and
\* so does the call on nil.  Stop leaves a tick that has already come.
Stopped(late) ==
  IF counter = 0 \/ (counter # 0 /\ ticker[counter].state = "closed")
  THEN wlHist' = [wlHist EXCEPT !.panic = TRUE] /\ UNCHANGED tickVars
  ELSE /\ counter' = 0
       /\ ticker' = [ticker EXCEPT ![counter].state = IF @ = "open" THEN "closed" ELSE @,
                                   ![counter].late = late]
       /\ wlHist' = [wlHist EXCEPT !.late = @ \/ late]
       /\ UNCHANGED lowScreen

\* Mutant: the field is cleared and the countdown goes on.
StopForgets(t, late) ==
  /\ Step(t, "stop", "switch")
  /\ counter' = 0
  /\ UNCHANGED <<sysVars, cfg, wlTodo, onBattery, level, ticker, lowScreen, wlHist>>

Stop(t, late) ==
  /\ Step(t, "stop", "switch")
  /\ Stopped(late)
  /\ UNCHANGED <<sysVars, cfg, wlTodo, onBattery, level>>

\* The switch of handleWarnLevelChanged: notifications are left out.
\* newCountTicker starts its goroutine before the field is set.
Switch(t) ==
  /\ handler[t].level # LevelAction
  /\ Step(t, "switch", "leave")
  /\ lowScreen' = (lowScreen /\ handler[t].level # LevelNone)
  /\ UNCHANGED <<sysVars, cfg, wlTodo, onBattery, level, counter, ticker, wlHist>>

\* Mutant: the ticker is made and its goroutine is not started.
NewCountTickerIdle(t, k) ==
  /\ WlUp /\ handler[t].pc = "switch" /\ handler[t].level = LevelAction
  /\ handler' = [handler EXCEPT ![t].pc = "leave"]
  /\ UNCHANGED <<sysVars, cfg, wlTodo, onBattery, level, tickVars, wlHist>>

NewCountTicker(t, k) ==
  /\ WlUp /\ handler[t].pc = "switch" /\ handler[t].level = LevelAction
  /\ ticker[k].state = "none" /\ \A j \in Ticker : j < k => ticker[j].state # "none"
  /\ ticker' = [ticker EXCEPT ![k] = [NoTicker EXCEPT !.state = "open"]]
  /\ handler' = [handler EXCEPT ![t].pc = "made", ![t].made = k]
  /\ UNCHANGED <<sysVars, cfg, wlTodo, onBattery, level, counter, lowScreen, wlHist>>

SetField(t) ==
  /\ Step(t, "made", "leave")
  /\ counter' = handler[t].made
  /\ UNCHANGED <<sysVars, cfg, wlTodo, onBattery, level, ticker, lowScreen, wlHist>>

Leave(t) ==
  /\ Step(t, "leave", "idle")
  /\ wlTodo' = [wlTodo EXCEPT !.check = @ \/ t = "settings"]
  /\ UNCHANGED <<sysVars, cfg, onBattery, level, tickVars, wlHist>>

-----------------------------------------------------------------------------
(* The goroutine of a countdown.                                           *)

\* A tick, while the ticker runs or one was left when it was stopped.  The
\* fifth stops the countdown that is in the field and suspends.
Counts(k) == WlUp /\ (ticker[k].state = "open" \/ (ticker[k].state = "closed" /\ ticker[k].late))

Tick(k) ==
  /\ Counts(k) /\ ticker[k].count < 4
  /\ ticker' = [ticker EXCEPT ![k].count = @ + 1, ![k].late = FALSE]
  /\ lowScreen' = (lowScreen \/ ticker[k].count = 3)
  /\ UNCHANGED <<sysVars, cfg, wlTodo, onBattery, level, handler, counter, wlHist>>

FifthTick(k) ==
  /\ Counts(k) /\ ticker[k].count = 4
  /\ counter' = 0
  /\ ticker' = [j \in Ticker |->
                  IF j = counter /\ ticker[j].state = "open"
                  THEN [ticker[j] EXCEPT !.state = "closed", !.count = IF j = k THEN 5 ELSE @]
                  ELSE IF j = k THEN [ticker[k] EXCEPT !.count = 5, !.late = FALSE]
                  ELSE ticker[j]]
  /\ wlHist' = [wlHist EXCEPT !.fired = TRUE,
                  !.raced = @ \/ counter # k
                              \/ \E t \in WarnThread : handler[t].pc \notin {"idle", "has", "leave"},
                  !.panic = counter # 0 /\ ticker[counter].state = "closed"]
  /\ UNCHANGED <<sysVars, cfg, wlTodo, onBattery, level, handler, lowScreen>>

TickerExits(k) ==
  /\ WlUp /\ ticker[k].state = "closed"
  /\ ticker' = [ticker EXCEPT ![k].state = "exited"]
  /\ UNCHANGED <<sysVars, cfg, wlTodo, onBattery, level, handler, counter, lowScreen,
                 wlHist>>

-----------------------------------------------------------------------------
WarnHandler(t) ==
  \/ ReadHasBattery(t)
  \/ SetWarnLevel(t)
  \/ FieldSet(t)
  \/ \E late \in BOOLEAN : Stop(t, late)
  \/ Switch(t)
  \/ \E k \in Ticker : NewCountTicker(t, k)
  \/ SetField(t)
  \/ Leave(t)

Countdown(k) == Tick(k) \/ FifthTick(k) \/ TickerExits(k)

WarnNext ==
  \/ HandleMains
  \/ \E p \in Percent \cup {0} : BatteryReports(p) \/ AddBattery(p)
  \/ RemoveBattery
  \/ RefreshBatteries
  \/ \E c \in Configs : WriteConfig(c)
  \/ CheckValid
  \/ HandleOnBattery
  \/ \E t \in WarnThread : WarnHandler(t)
  \/ \E k \in Ticker : Countdown(k)

(* Handlers and goroutines are scheduled by the Go runtime and tickers     *)
(* tick; nothing forces the battery or the user.                           *)
WarnProgress ==
  \/ \E t \in WarnThread : WarnHandler(t)
  \/ \E k \in Ticker : Countdown(k)

WarnFairness == WF_warnVars(WarnProgress)

WarnSpec == WarnInit /\ [][WarnNext]_warnVars /\ WarnFairness

-----------------------------------------------------------------------------
Quiet == \A t \in WarnThread : handler[t].pc = "idle"

(* When every signal has been handled, the level is the one for the        *)
(* battery and the mains as they are, whatever the order of the events:    *)
(* the signal of the mains does not compute the level, the refreshes that  *)
(* follow it do.  A battery at 0 % keeps its level, and an update that had *)
(* read HasBattery before the battery came leaves the level None.          *)
LevelCurrent ==
  /\ Quiet /\ WlUp /\ wlInbox = <<>> /\ ~wlTodo.changed /\ power.refreshes = 0
  /\ power.has /\ power.percent > 0 /\ ~wlHist.stale
  => level = GetWarnLevel(cfg, ~power.mains, power.percent, Minutes[power.percent])

(* Between two handlers a countdown runs exactly at the level Action until *)
(* it has suspended the machine, and it is the one that the next change of *)
(* level stops; unless two handlers have overlapped.                       *)
CountdownMatchesLevel ==
  Quiet /\ WlUp /\ ~wlHist.raced =>
    /\ \A k \in Ticker : ticker[k].state = "open" => k = counter
    /\ (counter # 0) <=> (level = LevelAction /\ ~wlHist.fired)

(* The low-power screen is not left behind when the level is None, unless  *)
(* handlers overlapped or a tick was already there when the countdown was  *)
(* stopped.                                                                *)
LowPowerClosed ==
  Quiet /\ WlUp /\ level = LevelNone /\ ~wlHist.raced /\ ~wlHist.late => ~lowScreen

(* Settings that are not in order are put back: as long as they are, the   *)
(* check is going to happen.  The exception are settings that were stored  *)
(* when the daemon started and that nobody has changed since.              *)
ConfigRepaired ==
  ~ValidConfig(cfg) /\ WlUp /\ wlHist.settings > 0 =>
     wlTodo.changed \/ wlTodo.check \/ handler["settings"].pc # "idle"

(* A level of Action ends in the suspend or in another level.              *)
ActionSuspends ==
  []<>(level # LevelAction \/ wlHist.fired \/ wlHist.raced \/ ~WlUp)

(* The countdown and its screen follow the level.                          *)
CountdownFollowsLevel == CountdownMatchesLevel /\ LowPowerClosed
=============================================================================
