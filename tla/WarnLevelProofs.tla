--------------------------- MODULE WarnLevelProofs ---------------------------
(***************************************************************************)
(* Proofs about WarnLevel, for every battery and any number of changes:    *)
(* what getWarnLevel computes, whatever the thresholds are; that settings  *)
(* which are changed and not in order are about to be checked; that the    *)
(* countdown follows the level; and that the level is the one for the      *)
(* battery and the mains once every signal has been handled.               *)
(***************************************************************************)
EXTENDS WarnLevel, Integers, TLAPS

Config == [usePercentage : BOOLEAN, threshold : Int,
           action : Int, critical : Int, danger : Int, low : Int, remind : Int,
           actionTime : Int, criticalTime : Int, dangerTime : Int, lowTime : Int]

LEMMA ByPercentageMonotone ==
  ASSUME NEW c \in Config, NEW p \in Nat, NEW q \in Nat, p > 0, p <= q
  PROVE  LevelByPercentage(c, q) <= LevelByPercentage(c, p)
BY DEF Config, LevelByPercentage, LevelNone, LevelRemind, LevelLow, LevelDanger, LevelCritical,
       LevelAction

LEMMA ByTimeMonotone ==
  ASSUME NEW c \in Config, NEW s \in Nat, NEW t \in Nat, s > 0, s <= t
  PROVE  LevelByTime(c, t) <= LevelByTime(c, s)
BY DEF Config, LevelByTime, LevelNone, LevelLow, LevelDanger, LevelCritical, LevelAction

(* getWarnLevel never warns less when the battery has less left, whatever  *)
(* the thresholds are, in order or not: the chains of comparisons have no  *)
(* gap.  (At 0 the kernel's reading is taken to be wrong and the level is  *)
(* None, which is why the smaller readings are positive.)                  *)
THEOREM WarnLevelMonotone ==
  ASSUME NEW c \in Config, NEW battery \in BOOLEAN,
         NEW p \in Nat, NEW q \in Nat, p > 0, p <= q,
         NEW s \in Nat, NEW t \in Nat, s > 0, s <= t
  PROVE  GetWarnLevel(c, battery, q, t) <= GetWarnLevel(c, battery, p, s)
<1>1. LevelByPercentage(c, q) <= LevelByPercentage(c, p)
  BY ByPercentageMonotone
<1>2. LevelByTime(c, t) <= LevelByTime(c, s)
  BY ByTimeMonotone
<1> QED
  BY <1>1, <1>2 DEF GetWarnLevel, LevelNone

-----------------------------------------------------------------------------
WarnPC == {"idle", "has", "changed", "stop", "switch", "made", "leave"}

\* What the steps need to know of the variables they update field by field.
WarnShape ==
  /\ power \in [has : BOOLEAN, percent : Nat, mains : BOOLEAN, refreshes : Int]
  /\ level \in 0..5
  /\ wlTodo \in [changed : BOOLEAN, check : BOOLEAN]
  /\ handler \in [WarnThread -> [pc : WarnPC, has : BOOLEAN, level : 0..5, made : Nat]]

\* Settings that are not in order are going to be checked.  A step keeps this,
\* if it holds: settings that were stored out of order are not checked.
CheckPending ==
  ValidConfig(cfg) \/ wlTodo.changed \/ wlTodo.check \/ handler["settings"].pc # "idle"
WarnKept == WarnShape' /\ (CheckPending => CheckPending')

LEMMA NewLevelType ==
  ASSUME level \in 0..5, NEW has
  PROVE  NewLevel(has) \in 0..5
<1>1. \A p : LevelByPercentage(cfg, p) \in 0..5
  BY DEF LevelByPercentage, LevelNone, LevelRemind, LevelLow, LevelDanger, LevelCritical,
         LevelAction
<1>2. \A t : LevelByTime(cfg, t) \in 0..5
  BY DEF LevelByTime, LevelNone, LevelLow, LevelDanger, LevelCritical, LevelAction
<1> QED
  BY <1>1, <1>2 DEF NewLevel, GetWarnLevel, LevelNone

LEMMA WarnInitShape == WarnInit => WarnShape
BY DEF WarnInit, WarnShape, AtRest, WarnThread,
                      WarnPC, LevelNone, NoTicker

\* A step of a thread inside handleBatteryDisplayUpdate moves its pc only.
LEMMA StepKeeps ==
  ASSUME WarnShape, NEW t \in WarnThread, NEW from \in WarnPC, NEW to \in WarnPC,
         Step(t, from, to), from # "idle", to # "idle", UNCHANGED <<power, level, cfg, wlTodo>>
  PROVE  WarnKept
<1>1. WarnShape'
  BY DEF WarnShape, Step, AtRest, WarnThread
<1>2. CheckPending => CheckPending'
  BY DEF WarnShape, CheckPending, Step, AtRest, WarnThread, ValidConfig
<1> QED
  BY <1>1, <1>2 DEF WarnKept

\* The system daemon, the countdowns and the handler of OnBattery leave the
\* settings and the handlers alone.
LEMMA OthersKeep ==
  ASSUME WarnShape, UNCHANGED <<level, cfg, wlTodo, handler>>,
         power' \in [has : BOOLEAN, percent : Nat, mains : BOOLEAN, refreshes : Int]
  PROVE  WarnKept
BY DEF WarnKept, WarnShape, CheckPending, ValidConfig

LEMMA SettingsKeep ==
  ASSUME WarnShape, CheckValid \/ \E c \in Configs : WriteConfig(c)
  PROVE  WarnKept
<1>1. CASE CheckValid
  <2>1. ValidConfig(cfg)'
    BY <1>1, DefaultsValid DEF CheckValid, ValidConfig
  <2>2. /\ UNCHANGED <<power, level, handler>>
        /\ wlTodo' = [check |-> FALSE, changed |-> wlTodo.changed \/ ~ValidConfig(cfg)]
    BY <1>1 DEF CheckValid, sysVars
  <2>3. wlTodo' \in [changed : BOOLEAN, check : BOOLEAN]
    BY <2>2 DEF WarnShape
  <2> QED
    BY <2>1, <2>2, <2>3 DEF WarnKept, WarnShape, CheckPending
<1>2. CASE \E c \in Configs : WriteConfig(c)
  <2>1. /\ UNCHANGED <<power, level, handler>>
        /\ wlTodo' = [wlTodo EXCEPT !.changed = TRUE]
    BY <1>2 DEF WriteConfig, sysVars
  <2>2. wlTodo' \in [changed : BOOLEAN, check : BOOLEAN] /\ wlTodo'.changed
    BY <2>1 DEF WarnShape
  <2> QED
    BY <2>1, <2>2 DEF WarnKept, WarnShape, CheckPending
<1> QED
  BY <1>1, <1>2

\* Inside the handler the settings are left alone and the pc is not idle.
LEMMA InsideKeeps ==
  ASSUME WarnShape, UNCHANGED <<power, cfg, wlTodo>>, level' \in 0..5, NEW t \in WarnThread,
         handler' \in [WarnThread -> [pc : WarnPC, has : BOOLEAN, level : 0..5, made : Nat]],
         handler'[t].pc # "idle", \A u \in WarnThread \ {t} : handler'[u] = handler[u]
  PROVE  WarnKept
BY DEF WarnKept, WarnShape, CheckPending, ValidConfig, WarnThread

LEMMA HandlerKeeps ==
  ASSUME WarnShape, NEW t \in WarnThread, WarnHandler(t)
  PROVE  WarnKept
<1> DEFINE Handler == [pc : WarnPC, has : BOOLEAN, level : 0..5, made : Nat]
<1>0. /\ handler \in [WarnThread -> Handler]
      /\ power.has \in BOOLEAN /\ level \in 0..5
  BY DEF WarnShape
<1>1. CASE ReadHasBattery(t)
  <2> DEFINE new == [pc |-> "has", has |-> power.has, level |-> LevelNone, made |-> 0]
  <2>1. /\ handler' = [handler EXCEPT ![t] = new]
        /\ UNCHANGED <<power, level, cfg>>
        /\ IF t = "signals" THEN UNCHANGED wlTodo
           ELSE wlTodo' = [wlTodo EXCEPT !.changed = FALSE]
    BY <1>1 DEF ReadHasBattery
  <2>2. new \in Handler /\ new.pc # "idle"
    BY <1>0 DEF LevelNone, WarnPC
  <2> HIDE DEF new
  <2>3. WarnShape'
    BY <2>1, <2>2, <1>0 DEF WarnShape
  <2>4. CheckPending => CheckPending'
    BY <2>1, <2>2, <1>0 DEF WarnShape, CheckPending, ValidConfig, WarnThread
  <2> QED
    BY <2>3, <2>4 DEF WarnKept
<1>2. CASE SetWarnLevel(t)
  <2> DEFINE new == NewLevel(handler[t].has)
             pc  == IF new # level THEN "changed" ELSE "leave"
  <2>1. /\ handler' = [handler EXCEPT ![t].level = new, ![t].pc = pc]
        /\ level' = new
        /\ UNCHANGED <<power, cfg, wlTodo>>
    BY <1>2 DEF SetWarnLevel, sysVars
  <2>2. new \in 0..5
    BY <1>0, NewLevelType
  <2>3. pc \in WarnPC /\ pc # "idle"
    BY DEF WarnPC
  <2> HIDE DEF new, pc
  <2>4. handler' \in [WarnThread -> Handler] /\ handler'[t].pc = pc
    BY <2>1, <2>2, <2>3, <1>0
  <2>5. \A u \in WarnThread \ {t} : handler'[u] = handler[u]
    BY <2>1, <1>0
  <2> QED
    BY <2>1, <2>2, <2>3, <2>4, <2>5, InsideKeeps
<1>3. CASE FieldSet(t)
  <2>1. PICK to \in WarnPC : Step(t, "changed", to) /\ to # "idle"
    BY <1>3 DEF FieldSet, WarnPC
  <2>2. UNCHANGED <<power, level, cfg, wlTodo>>
    BY <1>3 DEF FieldSet, sysVars
  <2> QED
    BY <2>1, <2>2, StepKeeps DEF WarnPC
<1>4. CASE \E late \in BOOLEAN : Stop(t, late)
  <2>1. Step(t, "stop", "switch") /\ UNCHANGED <<power, level, cfg, wlTodo>>
    BY <1>4 DEF Stop, sysVars
  <2> QED
    BY <2>1, StepKeeps DEF WarnPC
<1>5. CASE Switch(t)
  <2>1. Step(t, "switch", "leave") /\ UNCHANGED <<power, level, cfg, wlTodo>>
    BY <1>5 DEF Switch, sysVars
  <2> QED
    BY <2>1, StepKeeps DEF WarnPC
<1>6. CASE \E k \in Ticker : NewCountTicker(t, k)
  <2>1. PICK k \in Ticker :
          /\ handler' = [handler EXCEPT ![t].pc = "made", ![t].made = k]
          /\ UNCHANGED <<power, level, cfg, wlTodo>>
    BY <1>6 DEF NewCountTicker, sysVars
  <2>2. k \in Nat
    BY WarnAssumption
  <2>3. handler' \in [WarnThread -> Handler] /\ handler'[t].pc = "made"
    BY <2>1, <2>2, <1>0 DEF WarnPC
  <2>4. \A u \in WarnThread \ {t} : handler'[u] = handler[u]
    BY <2>1, <1>0
  <2> QED
    BY <2>1, <2>3, <2>4, <1>0, InsideKeeps
<1>7. CASE SetField(t)
  <2>1. Step(t, "made", "leave") /\ UNCHANGED <<power, level, cfg, wlTodo>>
    BY <1>7 DEF SetField, sysVars
  <2> QED
    BY <2>1, StepKeeps DEF WarnPC
<1>8. CASE Leave(t)
  <2>1. /\ handler' = [handler EXCEPT ![t].pc = "idle"]
        /\ wlTodo' = [wlTodo EXCEPT !.check = @ \/ t = "settings"]
        /\ UNCHANGED <<power, level, cfg>>
    BY <1>8 DEF Leave, Step, sysVars
  <2>2. WarnShape'
    BY <2>1 DEF WarnShape, WarnPC
  <2>3. CheckPending => CheckPending'
    BY <2>1 DEF WarnShape, CheckPending, ValidConfig, WarnThread
  <2> QED
    BY <2>2, <2>3 DEF WarnKept
<1> QED
  BY <1>1, <1>2, <1>3, <1>4, <1>5, <1>6, <1>7, <1>8 DEF WarnHandler

LEMMA WarnNextKeeps == WarnShape /\ [WarnNext]_warnVars => WarnKept
<1> SUFFICES ASSUME WarnShape, [WarnNext]_warnVars
             PROVE  WarnKept
  OBVIOUS
<1> DEFINE Power == [has : BOOLEAN, percent : Nat, mains : BOOLEAN, refreshes : Int]
<1>0. power \in Power
  BY DEF WarnShape
<1>1. CASE \/ HandleMains \/ RemoveBattery \/ RefreshBatteries \/ HandleOnBattery
           \/ \E p \in Percent \cup {0} : BatteryReports(p) \/ AddBattery(p)
  <2>1. UNCHANGED <<level, cfg, wlTodo, handler>>
    BY <1>1 DEF HandleMains, RemoveBattery, RefreshBatteries, HandleOnBattery,
                BatteryReports, AddBattery, PowerEvent
  <2>2. \/ power' = [power EXCEPT !.mains = ~@, !.refreshes = 2]
        \/ power' = [power EXCEPT !.has = FALSE, !.percent = 0]
        \/ power' = [power EXCEPT !.refreshes = @ - 1]
        \/ power' = power
        \/ \E p \in Percent \cup {0} : \/ power' = [power EXCEPT !.percent = p]
                                       \/ power' = [power EXCEPT !.has = TRUE, !.percent = p]
    BY <1>1 DEF HandleMains, RemoveBattery, RefreshBatteries, HandleOnBattery,
                BatteryReports, AddBattery
  <2>3. \A p \in Percent \cup {0} : p \in Nat
    BY WarnAssumption
  <2>4. ASSUME NEW p \in Percent \cup {0},
               \/ power' = [power EXCEPT !.percent = p]
               \/ power' = [power EXCEPT !.has = TRUE, !.percent = p]
        PROVE  power' \in Power
    BY <2>3, <2>4, <1>0
  <2>5. power' = [power EXCEPT !.mains = ~@, !.refreshes = 2] => power' \in Power
    <3>1. ASSUME NEW b \in BOOLEAN, NEW n \in Int
          PROVE  [power EXCEPT !.mains = b, !.refreshes = n] \in Power
      BY <1>0
    <3>2. (~power.mains) \in BOOLEAN /\ 2 \in Int
      OBVIOUS
    <3> QED
      BY <3>1, <3>2, Zenon
  <2>6. power' = [power EXCEPT !.has = FALSE, !.percent = 0] => power' \in Power
    <3>1. ASSUME NEW b \in BOOLEAN PROVE [power EXCEPT !.has = b, !.percent = 0] \in Power
      BY <1>0
    <3>2. FALSE \in BOOLEAN
      OBVIOUS
    <3> QED
      BY <3>1, <3>2, Zenon
  <2>7. power' = [power EXCEPT !.refreshes = @ - 1] => power' \in Power
    BY <1>0
  <2>8. power' \in Power
    BY <2>2, <2>4, <2>5, <2>6, <2>7, <1>0
  <2> QED
    BY <2>1, <2>8, OthersKeep
<1>2. CASE CheckValid \/ \E c \in Configs : WriteConfig(c)
  BY <1>2, SettingsKeep
<1>3. CASE \E t \in WarnThread : WarnHandler(t)
  BY <1>3, HandlerKeeps
<1>4. CASE \E k \in Ticker : Countdown(k)
  <2>1. UNCHANGED <<power, level, cfg, wlTodo, handler>>
    BY <1>4 DEF sysVars, Countdown, Tick, FifthTick, TickerExits
  <2> QED
    BY <2>1, <1>0, OthersKeep
<1>5. CASE UNCHANGED warnVars
  BY <1>5, <1>0, OthersKeep DEF warnVars
<1> QED
  BY <1>1, <1>2, <1>3, <1>4, <1>5 DEF WarnNext

LEMMA WarnKeptShape == WarnKept => WarnShape'
BY DEF WarnKept

-----------------------------------------------------------------------------
(* The countdown.                                                          *)

TickerState == {"none", "open", "closed", "exited"}
TickerRec == [state : TickerState, count : Nat, late : BOOLEAN]
WarnPast == [power : Nat, settings : Nat, raced : BOOLEAN, late : BOOLEAN, fired : BOOLEAN,
             stale : BOOLEAN, panic : BOOLEAN]

CountTypes ==
  /\ ticker \in [Ticker -> TickerRec]
  /\ counter \in Ticker \cup {0}
  /\ \A t \in WarnThread : handler[t].pc = "made" => handler[t].made \in Ticker
  /\ wlHist \in WarnPast

\* No handler is between the change of the level and the end of its switch.
Settled == \A t \in WarnThread : handler[t].pc \in {"idle", "has", "leave"}

\* Handlers that have not overlapped: one at a time ...
OneInside ==
  \A t, u \in WarnThread : t # u => handler[t].pc = "idle" \/ handler[u].pc = "idle"

\* ... acts on the level that is published, and the countdown of the level
\* before it has not suspended the machine meanwhile, ...
ActsOnLevel ==
  \A t \in WarnThread : handler[t].pc \in {"changed", "stop", "switch", "made"} =>
    handler[t].level = level /\ ~wlHist.fired

\* ... and finds the field as it read it.
FieldAsRead ==
  \A t \in WarnThread :
    /\ handler[t].pc = "stop" => counter # 0
    /\ handler[t].pc \in {"switch", "made"} => counter = 0
    /\ handler[t].pc = "made" => level = LevelAction

\* The countdown that runs is the one of the field, or about to be.
OpenIsKnown ==
  \A k \in Ticker : ticker[k].state = "open" =>
    k = counter \/ \E t \in WarnThread : handler[t].pc = "made" /\ handler[t].made = k

FieldFollows == Settled => ((counter # 0) <=> (level = LevelAction /\ ~wlHist.fired))
ScreenFollows == Settled /\ level = LevelNone /\ ~wlHist.late => ~lowScreen

\* A tick that was left behind by Stop is remembered.
LateKnown == \A k \in Ticker : ticker[k].late => wlHist.late

CountOrder ==
  OneInside /\ ActsOnLevel /\ FieldAsRead /\ OpenIsKnown /\ FieldFollows /\ ScreenFollows

CountInv == CountTypes /\ LateKnown /\ (WlUp /\ ~wlHist.raced => CountOrder)

LEMMA CountInit == WarnInit => CountInv
<1> SUFFICES ASSUME WarnInit PROVE CountInv
  OBVIOUS
<1>1. /\ handler = [t \in WarnThread |-> AtRest] /\ level = LevelNone
      /\ counter = 0 /\ lowScreen = FALSE
      /\ ticker = [k \in Ticker |-> NoTicker]
      /\ wlHist = [power |-> 0, settings |-> 0, raced |-> FALSE, late |-> FALSE,
                   fired |-> FALSE, stale |-> FALSE, panic |-> FALSE]
  BY DEF WarnInit
<1>2. NoTicker \in TickerRec /\ NoTicker.state = "none" /\ ~NoTicker.late
  BY DEF NoTicker, TickerRec, TickerState
<1>3. wlHist \in WarnPast
  BY <1>1 DEF WarnPast
<1>4. CountTypes
  BY <1>1, <1>2, <1>3 DEF CountTypes, AtRest
<1>5. LateKnown
  BY <1>1, <1>2 DEF LateKnown
<1>6. \A t \in WarnThread : handler[t].pc = "idle"
  BY <1>1 DEF AtRest
<1>7. CountOrder
  BY <1>1, <1>2, <1>6 DEF CountOrder, OneInside, ActsOnLevel, FieldAsRead, OpenIsKnown,
       FieldFollows, ScreenFollows, LevelNone, LevelAction
<1> QED
  BY <1>4, <1>5, <1>7 DEF CountInv

\* Steps outside the handlers and the countdowns.
LEMMA CountElsewhere ==
  ASSUME CountInv, UNCHANGED <<level, handler, counter, ticker, lowScreen>>,
         wlHist' \in WarnPast, wlHist'.raced = wlHist.raced, wlHist'.late = wlHist.late,
         wlHist'.fired = wlHist.fired, wlHist'.panic = wlHist.panic
  PROVE  CountInv'
BY DEF CountInv, CountTypes, LateKnown, WlUp, CountOrder, OneInside, ActsOnLevel, FieldAsRead,
       OpenIsKnown, FieldFollows, ScreenFollows, Settled

LEMMA CountHandlerKeeps ==
  ASSUME WarnShape, CountInv, NEW t \in WarnThread, WarnHandler(t)
  PROVE  CountInv'
<1> USE DEF CountInv
<1> DEFINE Handler == [pc : WarnPC, has : BOOLEAN, level : 0..5, made : Nat]
<1>0. /\ handler \in [WarnThread -> Handler]
      /\ power.has \in BOOLEAN /\ level \in 0..5
      /\ ticker \in [Ticker -> TickerRec] /\ counter \in Ticker \cup {0} /\ wlHist \in WarnPast
      /\ 0 \notin Ticker
  BY WarnAssumption DEF WarnShape, CountTypes
<1>w. WlUp
  BY DEF WarnHandler, ReadHasBattery, SetWarnLevel, FieldSet, Stop, Switch, NewCountTicker,
         SetField, Leave, Step
<1>1. CASE ReadHasBattery(t)
  <2>1. /\ handler' = [handler EXCEPT ![t] =
                [pc |-> "has", has |-> power.has, level |-> LevelNone, made |-> 0]]
        /\ wlHist' = [wlHist EXCEPT !.raced = @ \/ \E u \in WarnThread : handler[u].pc # "idle"]
        /\ UNCHANGED <<level, counter, ticker, lowScreen>>
    BY <1>1 DEF ReadHasBattery, tickVars
  <2>2. wlHist' \in WarnPast
    <3>1. (wlHist.raced \/ \E u \in WarnThread : handler[u].pc # "idle") \in BOOLEAN
      OBVIOUS
    <3>2. ASSUME NEW b \in BOOLEAN PROVE [wlHist EXCEPT !.raced = b] \in WarnPast
      BY <1>0 DEF WarnPast
    <3> QED
      BY <2>1, <3>1, <3>2, Zenon
  <2>3. /\ wlHist'.late = wlHist.late /\ wlHist'.fired = wlHist.fired
        /\ wlHist'.panic = wlHist.panic
    BY <2>1, <1>0 DEF WarnPast
  <2>4. ~wlHist'.raced => ~wlHist.raced /\ \A u \in WarnThread : handler[u].pc = "idle"
    BY <2>1, <1>0 DEF WarnPast
  <2>5. handler'[t].pc = "has" /\ \A u \in WarnThread \ {t} : handler'[u] = handler[u]
    BY <2>1, <1>0
  <2> QED
    BY <2>1, <2>2, <2>3, <2>4, <2>5, <1>0, <1>w DEF CountTypes, LateKnown, WlUp, CountOrder,
       OneInside, ActsOnLevel, FieldAsRead, OpenIsKnown, FieldFollows, ScreenFollows, Settled
<1>2. CASE SetWarnLevel(t)
  <2> DEFINE new == NewLevel(handler[t].has)
             pc  == IF new # level THEN "changed" ELSE "leave"
  <2>1. /\ handler' = [handler EXCEPT ![t].level = new, ![t].pc = pc]
        /\ level' = new /\ handler[t].pc = "has"
        /\ wlHist' = [wlHist EXCEPT !.fired = @ /\ new = level,
                                    !.stale = handler[t].has # power.has]
        /\ UNCHANGED <<counter, ticker, lowScreen>>
    BY <1>2 DEF SetWarnLevel, tickVars
  <2>2. new \in 0..5
    BY <1>0, NewLevelType
  <2>3. wlHist' \in WarnPast
    <3>1. (wlHist.fired /\ new = level) \in BOOLEAN /\ (handler[t].has # power.has) \in BOOLEAN
      OBVIOUS
    <3>2. ASSUME NEW b \in BOOLEAN, NEW c \in BOOLEAN
          PROVE  [wlHist EXCEPT !.fired = b, !.stale = c] \in WarnPast
      BY <1>0 DEF WarnPast
    <3> QED
      BY <2>1, <3>1, <3>2, Zenon
  <2>4. /\ wlHist'.late = wlHist.late /\ wlHist'.panic = wlHist.panic
        /\ wlHist'.raced = wlHist.raced
        /\ wlHist'.fired <=> wlHist.fired /\ new = level
    BY <2>1, <1>0 DEF WarnPast
  <2>5. /\ handler'[t].pc = pc /\ handler'[t].level = new
        /\ \A u \in WarnThread \ {t} : handler'[u] = handler[u]
    BY <2>1, <2>2, <1>0
  <2>6. (pc = "leave" /\ new = level) \/ (pc = "changed" /\ new # level)
    OBVIOUS
  <2> HIDE DEF new, pc
  <2> QED
    BY <2>1, <2>2, <2>3, <2>4, <2>5, <2>6, <1>0, <1>w DEF CountTypes, LateKnown, WlUp,
       CountOrder, OneInside, ActsOnLevel, FieldAsRead, OpenIsKnown, FieldFollows,
       ScreenFollows, Settled
<1>3. CASE FieldSet(t)
  <2> DEFINE pc == IF counter = 0 THEN "switch" ELSE "stop"
  <2>1. /\ handler' = [handler EXCEPT ![t].pc = pc] /\ handler[t].pc = "changed"
        /\ UNCHANGED <<level, counter, ticker, lowScreen, wlHist>>
    BY <1>3 DEF FieldSet, Step, tickVars
  <2>2. /\ handler'[t] = [handler[t] EXCEPT !.pc = pc]
        /\ \A u \in WarnThread \ {t} : handler'[u] = handler[u]
    BY <2>1, <1>0
  <2>3. handler'[t].pc = pc /\ handler'[t].level = handler[t].level
    BY <2>2, <1>0
  <2> QED
    BY <2>1, <2>2, <2>3, <1>0, <1>w DEF CountTypes, LateKnown, WlUp,
       CountOrder, OneInside, ActsOnLevel, FieldAsRead, OpenIsKnown, FieldFollows,
       ScreenFollows, Settled
<1>4. CASE \E late \in BOOLEAN : Stop(t, late)
  <2>1. PICK late \in BOOLEAN : Stop(t, late)
    BY <1>4
  <2>2. /\ handler' = [handler EXCEPT ![t].pc = "switch"] /\ handler[t].pc = "stop"
        /\ UNCHANGED level
        /\ Stopped(late)
    BY <2>1 DEF Stop, Step
  <2>3. /\ handler'[t].pc = "switch" /\ handler'[t].level = handler[t].level
        /\ \A u \in WarnThread \ {t} : handler'[u] = handler[u]
    BY <2>2, <1>0
  <2>4. CASE counter = 0 \/ (counter # 0 /\ ticker[counter].state = "closed")
    <3>1. wlHist' = [wlHist EXCEPT !.panic = TRUE] /\ UNCHANGED <<counter, ticker>>
      BY <2>2, <2>4 DEF Stopped, tickVars
    <3>2. wlHist' \in WarnPast /\ wlHist'.late = wlHist.late /\ wlHist'.panic
      BY <3>1, <1>0 DEF WarnPast
    <3> QED
      BY <3>1, <3>2, <2>3, <1>0 DEF CountTypes, LateKnown, WlUp
  <2>5. CASE counter # 0 /\ ticker[counter].state # "closed"
    <3>1. /\ counter' = 0 /\ UNCHANGED lowScreen
          /\ ticker' = [ticker EXCEPT ![counter].state = IF @ = "open" THEN "closed" ELSE @,
                                      ![counter].late = late]
          /\ wlHist' = [wlHist EXCEPT !.late = @ \/ late]
      BY <2>2, <2>5 DEF Stopped
    <3>2. wlHist' \in WarnPast
      <4>1. (wlHist.late \/ late) \in BOOLEAN
        OBVIOUS
      <4>2. ASSUME NEW b \in BOOLEAN PROVE [wlHist EXCEPT !.late = b] \in WarnPast
        BY <1>0 DEF WarnPast
      <4> QED
        BY <3>1, <4>1, <4>2, Zenon
    <3>3. /\ wlHist'.raced = wlHist.raced /\ wlHist'.fired = wlHist.fired
          /\ wlHist'.panic = wlHist.panic /\ (wlHist'.late <=> wlHist.late \/ late)
      BY <3>1, <1>0 DEF WarnPast
    <3>4. ticker' \in [Ticker -> TickerRec]
      BY <3>1, <1>0, <2>5 DEF TickerRec, TickerState
    <3>5. /\ \A k \in Ticker \ {counter} : ticker'[k] = ticker[k]
          /\ ticker'[counter].state # "open" /\ ticker'[counter].late = late
      BY <3>1, <1>0, <2>5 DEF TickerRec, TickerState
    <3>6. CountTypes' /\ LateKnown'
      BY <3>1, <3>2, <3>3, <3>4, <3>5, <2>3, <1>0 DEF CountTypes, LateKnown
    <3> QED
      BY <3>1, <3>3, <3>5, <3>6, <2>2, <2>3, <1>0, <1>w DEF WlUp,
         CountOrder, OneInside, ActsOnLevel, FieldAsRead, OpenIsKnown, FieldFollows,
         ScreenFollows, Settled
  <2> QED
    BY <2>4, <2>5
<1>5. CASE Switch(t)
  <2>1. /\ handler' = [handler EXCEPT ![t].pc = "leave"] /\ handler[t].pc = "switch"
        /\ handler[t].level # LevelAction
        /\ lowScreen' = (lowScreen /\ handler[t].level # LevelNone)
        /\ UNCHANGED <<level, counter, ticker, wlHist>>
    BY <1>5 DEF Switch, Step
  <2>2. /\ handler'[t].pc = "leave"
        /\ \A u \in WarnThread \ {t} : handler'[u] = handler[u]
    BY <2>1, <1>0
  <2> QED
    BY <2>1, <2>2, <1>0, <1>w DEF CountTypes, LateKnown, WlUp,
       CountOrder, OneInside, ActsOnLevel, FieldAsRead, OpenIsKnown, FieldFollows,
       ScreenFollows, Settled
<1>6. CASE \E k \in Ticker : NewCountTicker(t, k)
  <2>1. PICK k \in Ticker : NewCountTicker(t, k)
    BY <1>6
  <2>2. /\ handler' = [handler EXCEPT ![t].pc = "made", ![t].made = k]
        /\ handler[t].pc = "switch" /\ handler[t].level = LevelAction
        /\ ticker' = [ticker EXCEPT ![k] = [NoTicker EXCEPT !.state = "open"]]
        /\ UNCHANGED <<level, counter, lowScreen, wlHist>>
    BY <2>1 DEF NewCountTicker
  <2>3. /\ handler'[t].pc = "made" /\ handler'[t].made = k
        /\ handler'[t].level = handler[t].level
        /\ \A u \in WarnThread \ {t} : handler'[u] = handler[u]
    BY <2>2, <1>0
  <2>4. /\ [NoTicker EXCEPT !.state = "open"] \in TickerRec
        /\ [NoTicker EXCEPT !.state = "open"].late = FALSE
    BY DEF NoTicker, TickerRec, TickerState
  <2>5. /\ ticker' \in [Ticker -> TickerRec] /\ ~ticker'[k].late
        /\ \A j \in Ticker \ {k} : ticker'[j] = ticker[j]
    BY <2>2, <2>4, <1>0
  <2> QED
    BY <2>2, <2>3, <2>5, <1>0, <1>w DEF CountTypes, LateKnown, WlUp,
       CountOrder, OneInside, ActsOnLevel, FieldAsRead, OpenIsKnown, FieldFollows,
       ScreenFollows, Settled
<1>7. CASE SetField(t)
  <2>1. /\ handler' = [handler EXCEPT ![t].pc = "leave"] /\ handler[t].pc = "made"
        /\ counter' = handler[t].made
        /\ UNCHANGED <<level, ticker, lowScreen, wlHist>>
    BY <1>7 DEF SetField, Step
  <2>2. /\ handler'[t].pc = "leave"
        /\ \A u \in WarnThread \ {t} : handler'[u] = handler[u]
    BY <2>1, <1>0
  <2> QED
    BY <2>1, <2>2, <1>0, <1>w DEF CountTypes, LateKnown, WlUp,
       CountOrder, OneInside, ActsOnLevel, FieldAsRead, OpenIsKnown, FieldFollows,
       ScreenFollows, Settled, LevelNone, LevelAction
<1>8. CASE Leave(t)
  <2>1. /\ handler' = [handler EXCEPT ![t].pc = "idle"] /\ handler[t].pc = "leave"
        /\ UNCHANGED <<level, counter, ticker, lowScreen, wlHist>>
    BY <1>8 DEF Leave, Step, tickVars
  <2>2. /\ handler'[t].pc = "idle"
        /\ \A u \in WarnThread \ {t} : handler'[u] = handler[u]
    BY <2>1, <1>0
  <2> QED
    BY <2>1, <2>2, <1>0, <1>w DEF CountTypes, LateKnown, WlUp,
       CountOrder, OneInside, ActsOnLevel, FieldAsRead, OpenIsKnown, FieldFollows,
       ScreenFollows, Settled
<1> QED
  BY <1>1, <1>2, <1>3, <1>4, <1>5, <1>6, <1>7, <1>8 DEF WarnHandler

LEMMA CountdownKeeps ==
  ASSUME WarnShape, CountInv, NEW k \in Ticker, Countdown(k)
  PROVE  CountInv'
<1> USE DEF CountInv
<1>0. /\ handler \in [WarnThread -> [pc : WarnPC, has : BOOLEAN, level : 0..5, made : Nat]]
      /\ ticker \in [Ticker -> TickerRec] /\ counter \in Ticker \cup {0} /\ wlHist \in WarnPast
      /\ 0 \notin Ticker
  BY WarnAssumption DEF WarnShape, CountTypes
<1>1. CASE Tick(k)
  <2>1. /\ WlUp /\ (ticker[k].state = "open" \/ ticker[k].late)
        /\ ticker' = [ticker EXCEPT ![k].count = @ + 1, ![k].late = FALSE]
        /\ lowScreen' = (lowScreen \/ ticker[k].count = 3)
        /\ UNCHANGED <<level, handler, counter, wlHist>>
    BY <1>1 DEF Tick, Counts
  <2>2. ticker' \in [Ticker -> TickerRec]
    <3>0. ticker[k].count + 1 \in Nat
      BY <1>0 DEF TickerRec
    <3>1. ASSUME NEW b \in BOOLEAN, NEW n \in Nat
          PROVE  [ticker EXCEPT ![k].count = n, ![k].late = b] \in [Ticker -> TickerRec]
      BY <1>0 DEF TickerRec
    <3>2. FALSE \in BOOLEAN
      OBVIOUS
    <3> QED
      BY <2>1, <3>0, <3>1, <3>2, Zenon
  <2>3. \A j \in Ticker : ticker'[j].state = ticker[j].state /\ (ticker'[j].late => ticker[j].late)
    BY <2>1, <1>0 DEF TickerRec
  <2>4. CountTypes' /\ LateKnown'
    BY <2>1, <2>2, <2>3 DEF CountTypes, LateKnown
  <2>5. ASSUME CountOrder PROVE CountOrder'
    <3>1. (OneInside /\ ActsOnLevel /\ FieldAsRead /\ OpenIsKnown /\ FieldFollows)'
      BY <2>1, <2>3, <2>5 DEF CountOrder, OneInside, ActsOnLevel, FieldAsRead, OpenIsKnown,
         FieldFollows, Settled
    <3>2. ASSUME Settled, level = LevelNone, ~wlHist.late PROVE FALSE
      <4>1. ticker[k].state = "open"
        BY <2>1, <3>2 DEF LateKnown
      <4>2. k = counter
        BY <4>1, <3>2, <2>5 DEF CountOrder, OpenIsKnown, Settled
      <4> QED
        BY <4>2, <3>2, <2>5, <1>0 DEF CountOrder, FieldFollows, LevelNone, LevelAction
    <3> QED
      BY <3>1, <3>2, <2>1 DEF CountOrder, ScreenFollows, Settled
  <2> QED
    BY <2>1, <2>4, <2>5 DEF WlUp
<1>2. CASE FifthTick(k)
  <2> DEFINE raced == \/ wlHist.raced \/ counter # k
                      \/ \E t \in WarnThread : handler[t].pc \notin {"idle", "has", "leave"}
             panic == counter # 0 /\ ticker[counter].state = "closed"
             after(j) == IF j = counter /\ ticker[j].state = "open"
                         THEN [ticker[j] EXCEPT !.state = "closed", !.count = IF j = k THEN 5 ELSE @]
                         ELSE IF j = k THEN [ticker[k] EXCEPT !.count = 5, !.late = FALSE]
                         ELSE ticker[j]
  <2>1. /\ WlUp /\ (ticker[k].state = "open" \/ ticker[k].state = "closed")
        /\ counter' = 0
        /\ ticker' = [j \in Ticker |-> after(j)]
        /\ wlHist' = [wlHist EXCEPT !.fired = TRUE, !.raced = raced, !.panic = panic]
        /\ UNCHANGED <<level, handler, lowScreen>>
    BY <1>2 DEF FifthTick, Counts
  <2>2. \A j \in Ticker : /\ after(j) \in TickerRec
                          /\ after(j).state = "open" => ticker[j].state = "open" /\ j # counter
                          /\ after(j).late => ticker[j].late
    BY <1>0 DEF TickerRec, TickerState
  <2> HIDE DEF after
  <2>3. raced \in BOOLEAN /\ panic \in BOOLEAN
    OBVIOUS
  <2>4. wlHist' \in WarnPast
    <3>1. ASSUME NEW b \in BOOLEAN, NEW c \in BOOLEAN, NEW d \in BOOLEAN
          PROVE  [wlHist EXCEPT !.fired = d, !.raced = b, !.panic = c] \in WarnPast
      BY <1>0 DEF WarnPast
    <3>2. TRUE \in BOOLEAN
      OBVIOUS
    <3> QED
      BY <2>1, <2>3, <3>1, <3>2, Zenon
  <2>5. /\ wlHist'.late = wlHist.late /\ wlHist'.fired
        /\ wlHist'.raced = raced /\ wlHist'.panic = panic
    BY <2>1, <1>0, <2>3 DEF WarnPast
  <2>6. CountTypes' /\ LateKnown'
    BY <2>1, <2>2, <2>4, <2>5, <1>0 DEF CountTypes, LateKnown
  <2>7. ASSUME ~raced, ~panic PROVE CountOrder'
    <3>1. Settled /\ counter = k /\ CountOrder
      BY <2>1, <2>7 DEF Settled
    <3>2. ticker'[k].state # "open"
      BY <3>1, <2>1, <2>2
    <3>3. (OneInside /\ ActsOnLevel /\ FieldAsRead)'
      BY <2>1, <3>1 DEF CountOrder, Settled, OneInside, ActsOnLevel, FieldAsRead
    <3>4. \A j \in Ticker : ticker'[j].state # "open"
      BY <2>1, <2>2, <3>1 DEF CountOrder, OpenIsKnown, Settled
    <3>5. FieldFollows' /\ OpenIsKnown'
      BY <3>4, <2>1, <2>5 DEF FieldFollows, OpenIsKnown
    <3>6. ScreenFollows'
      BY <2>1, <2>5, <3>1 DEF CountOrder, ScreenFollows, Settled
    <3> QED
      BY <3>3, <3>5, <3>6 DEF CountOrder
  <2> QED
    BY <2>5, <2>6, <2>7 DEF WlUp
<1>3. CASE TickerExits(k)
  <2>1. /\ WlUp /\ ticker[k].state = "closed"
        /\ ticker' = [ticker EXCEPT ![k].state = "exited"]
        /\ UNCHANGED <<level, handler, counter, lowScreen, wlHist>>
    BY <1>3 DEF TickerExits
  <2>2. ticker' \in [Ticker -> TickerRec]
    BY <2>1, <1>0 DEF TickerRec, TickerState
  <2>3. \A j \in Ticker : /\ ticker'[j].state = "open" => ticker[j].state = "open"
                          /\ ticker'[j].late = ticker[j].late
    BY <2>1, <1>0 DEF TickerRec
  <2> QED
    BY <2>1, <2>2, <2>3 DEF CountTypes, LateKnown, WlUp, CountOrder, OneInside, ActsOnLevel,
       FieldAsRead, OpenIsKnown, FieldFollows, ScreenFollows, Settled
<1> QED
  BY <1>1, <1>2, <1>3 DEF Countdown

LEMMA CountNext == WarnShape /\ CountInv /\ [WarnNext]_warnVars => CountInv'
<1> SUFFICES ASSUME WarnShape, CountInv, [WarnNext]_warnVars
             PROVE  CountInv'
  OBVIOUS
<1>0. wlHist \in WarnPast
  BY DEF CountInv, CountTypes
<1>1. CASE \/ HandleMains \/ RemoveBattery
           \/ \E p \in Percent \cup {0} : BatteryReports(p) \/ AddBattery(p)
           \/ \E c \in Configs : WriteConfig(c)
  <2>1. /\ UNCHANGED <<level, handler, counter, ticker, lowScreen>>
        /\ \/ wlHist' = [wlHist EXCEPT !.power = @ + 1]
           \/ wlHist' = [wlHist EXCEPT !.settings = @ + 1]
    BY <1>1 DEF HandleMains, RemoveBattery, BatteryReports, AddBattery, WriteConfig, PowerEvent,
                tickVars
  <2>2. wlHist' \in WarnPast
    BY <2>1, <1>0 DEF WarnPast
  <2>3. /\ wlHist'.raced = wlHist.raced /\ wlHist'.late = wlHist.late
        /\ wlHist'.fired = wlHist.fired /\ wlHist'.panic = wlHist.panic
    BY <2>1, <1>0 DEF WarnPast
  <2> QED
    BY <2>1, <2>2, <2>3, CountElsewhere
<1>2. CASE RefreshBatteries \/ HandleOnBattery \/ CheckValid \/ UNCHANGED warnVars
  <2>1. UNCHANGED <<level, handler, counter, ticker, lowScreen, wlHist>>
    BY <1>2 DEF RefreshBatteries, HandleOnBattery, CheckValid, warnVars, tickVars
  <2> QED
    BY <2>1, <1>0, CountElsewhere
<1>3. CASE \E t \in WarnThread : WarnHandler(t)
  BY <1>3, CountHandlerKeeps
<1>4. CASE \E k \in Ticker : Countdown(k)
  BY <1>4, CountdownKeeps
<1> QED
  BY <1>1, <1>2, <1>3, <1>4 DEF WarnNext

(* Between two handlers of a battery update that have not overlapped, the  *)
(* countdown runs exactly at the level Action until it has suspended the   *)
(* machine, it is the one that the field holds, so that the next change of *)
(* level stops it, and the low-power screen is gone at the level None: for *)
(* any number of countdowns, battery events and settings, although the     *)
(* field has no lock and ticks come between any two steps of the handler.  *)
THEOREM CountdownAlwaysFollows == WarnSpec => []CountdownFollowsLevel
<1>1. CountInv => CountdownFollowsLevel
  BY DEF CountInv, CountOrder, OpenIsKnown, FieldFollows, ScreenFollows, Settled, Quiet,
         CountdownFollowsLevel, CountdownMatchesLevel, LowPowerClosed
<1> QED
  BY <1>1, WarnInitShape, WarnNextKeeps, WarnKeptShape, CountInit, CountNext, PTL DEF WarnSpec

-----------------------------------------------------------------------------
(* The settings: those that were stored out of order are checked after the *)
(* first change.                                                           *)

RepairInv == wlHist.settings = 0 \/ CheckPending

\* Only a change of the settings is counted, and it is signalled.
LEMMA SettingsCounted ==
  ASSUME wlHist \in WarnPast, wlTodo \in [changed : BOOLEAN, check : BOOLEAN], [WarnNext]_warnVars
  PROVE  wlHist'.settings = wlHist.settings \/ wlTodo'.changed
<1>1. CASE \/ HandleMains \/ RemoveBattery
           \/ \E p \in Percent \cup {0} : BatteryReports(p) \/ AddBattery(p)
  BY <1>1 DEF WarnPast, HandleMains, RemoveBattery, BatteryReports, AddBattery, PowerEvent
<1>2. CASE RefreshBatteries \/ HandleOnBattery \/ CheckValid
  BY <1>2 DEF RefreshBatteries, HandleOnBattery, CheckValid
<1>3. CASE \E c \in Configs : WriteConfig(c)
  BY <1>3 DEF WriteConfig
<1>4. ASSUME NEW t \in WarnThread, WarnHandler(t) PROVE wlHist'.settings = wlHist.settings
  <2>1. CASE ReadHasBattery(t)
    BY <2>1 DEF ReadHasBattery, WarnPast
  <2>2. CASE SetWarnLevel(t)
    BY <2>2 DEF SetWarnLevel, WarnPast
  <2>3. CASE \E late \in BOOLEAN : Stop(t, late)
    BY <2>3 DEF Stop, Stopped, WarnPast
  <2>4. CASE \/ FieldSet(t) \/ Switch(t) \/ SetField(t) \/ Leave(t)
             \/ \E k \in Ticker : NewCountTicker(t, k)
    BY <2>4 DEF FieldSet, Switch, SetField, Leave, NewCountTicker
  <2> QED
    BY <1>4, <2>1, <2>2, <2>3, <2>4 DEF WarnHandler
<1>5. ASSUME NEW k \in Ticker, Countdown(k) PROVE wlHist'.settings = wlHist.settings
  <2>1. CASE FifthTick(k)
    BY <2>1 DEF FifthTick, WarnPast
  <2>2. CASE Tick(k) \/ TickerExits(k)
    BY <2>2 DEF Tick, TickerExits
  <2> QED
    BY <1>5, <2>1, <2>2 DEF Countdown
<1>6. CASE UNCHANGED warnVars
  BY <1>6 DEF warnVars
<1> QED
  BY <1>1, <1>2, <1>3, <1>4, <1>5, <1>6 DEF WarnNext

LEMMA RepairInit == WarnInit => RepairInv
BY DEF WarnInit, RepairInv

LEMMA RepairNext == WarnShape /\ CountInv /\ RepairInv /\ [WarnNext]_warnVars => RepairInv'
<1> SUFFICES ASSUME WarnShape, CountInv, RepairInv, [WarnNext]_warnVars
             PROVE  RepairInv'
  OBVIOUS
<1>1. wlHist'.settings = wlHist.settings \/ wlTodo'.changed
  BY SettingsCounted DEF WarnShape, CountInv, CountTypes
<1>2. CheckPending => CheckPending'
  BY WarnNextKeeps DEF WarnKept
<1> QED
  BY <1>1, <1>2 DEF RepairInv, CheckPending

(* Settings whose thresholds are not in order are always going to be       *)
(* checked, and so put back, once the user has changed any of them: no     *)
(* interleaving of the user's writes, the callback of the settings and the *)
(* timer of delayCheckValid loses the check, for every set of settings,    *)
(* whatever was stored when the daemon started, and any number of changes. *)
THEOREM ConfigAlwaysRepaired == WarnSpec => []ConfigRepaired
<1>1. CountInv /\ RepairInv => ConfigRepaired
  BY DEF CountInv, CountTypes, WarnPast, RepairInv, CheckPending, ConfigRepaired
<1> QED
  BY <1>1, WarnInitShape, WarnNextKeeps, WarnKeptShape, CountInit, CountNext, RepairInit,
     RepairNext, PTL DEF WarnSpec

-----------------------------------------------------------------------------
(* The level.                                                              *)

Message == {"display", "onBattery", "onMains"}
MainsMessage(mains) == IF mains THEN "onMains" ELSE "onBattery"

HasDisplay(s)  == \E i \in 1..Len(s) : s[i] = "display"
OnlyDisplay(s) == \A i \in 1..Len(s) : s[i] = "display"

\* An update of the batteries comes after every message about the mains.
AllFollowed(s) ==
  \A i \in 1..Len(s) : s[i] # "display" => \E j \in (i + 1)..Len(s) : s[j] = "display"

\* The last message about the mains is m.
LastMains(s, m) ==
  \A i \in 1..Len(s) :
    s[i] # "display" /\ (\A j \in (i + 1)..Len(s) : s[j] = "display") => s[i] = m

LEMMA AppendDisplay ==
  ASSUME NEW s \in Seq(Message), NEW m
  PROVE  LET q == Append(s, "display")
         IN /\ q \in Seq(Message) /\ HasDisplay(q) /\ AllFollowed(q)
            /\ LastMains(s, m) => LastMains(q, m)
            /\ OnlyDisplay(q) => OnlyDisplay(s)
<1> DEFINE q == Append(s, "display")
<1>1. /\ q \in Seq(Message) /\ Len(q) = Len(s) + 1 /\ Len(s) \in Nat
      /\ \A i \in 1..Len(s) : q[i] = s[i]
      /\ q[Len(s) + 1] = "display"
  BY DEF Message
<1> HIDE DEF q
<1>2. HasDisplay(q) /\ AllFollowed(q)
  BY <1>1 DEF HasDisplay, AllFollowed
<1>3. LastMains(s, m) => LastMains(q, m)
  BY <1>1 DEF LastMains
<1>4. OnlyDisplay(q) => OnlyDisplay(s)
  BY <1>1 DEF OnlyDisplay
<1> QED
  BY <1>1, <1>2, <1>3, <1>4 DEF q

LEMMA AppendMains ==
  ASSUME NEW s \in Seq(Message), NEW m \in Message, m # "display"
  PROVE  LET q == Append(s, m)
         IN q \in Seq(Message) /\ LastMains(q, m) /\ ~OnlyDisplay(q)
<1> DEFINE q == Append(s, m)
<1>1. /\ q \in Seq(Message) /\ Len(q) = Len(s) + 1 /\ Len(s) \in Nat
      /\ \A i \in 1..Len(s) : q[i] = s[i]
      /\ q[Len(s) + 1] = m
  OBVIOUS
<1> HIDE DEF q
<1>2. LastMains(q, m) /\ ~OnlyDisplay(q)
  BY <1>1 DEF LastMains, OnlyDisplay
<1> QED
  BY <1>1, <1>2 DEF q

LEMMA TailKeeps ==
  ASSUME NEW s \in Seq(Message), s # <<>>, NEW m
  PROVE  /\ Tail(s) \in Seq(Message) /\ Head(s) \in Message
         /\ AllFollowed(s) => AllFollowed(Tail(s))
         /\ LastMains(s, m) => LastMains(Tail(s), m)
         /\ Head(s) = "display" /\ OnlyDisplay(Tail(s)) => OnlyDisplay(s)
         /\ Head(s) # "display" /\ OnlyDisplay(Tail(s)) /\ LastMains(s, m) => Head(s) = m
         /\ Head(s) # "display" /\ AllFollowed(s) => HasDisplay(Tail(s))
         /\ Head(s) # "display" /\ HasDisplay(s) => HasDisplay(Tail(s))
<1> DEFINE q == Tail(s)
<1>1. /\ q \in Seq(Message) /\ Len(q) = Len(s) - 1 /\ Len(s) \in Nat /\ Len(s) > 0
      /\ \A i \in 1..Len(q) : q[i] = s[i + 1]
      /\ Head(s) = s[1] /\ s[1] \in Message
  OBVIOUS
<1> HIDE DEF q
<1>2. \A i \in 2..Len(s) : i - 1 \in 1..Len(q) /\ s[i] = q[i - 1]
  BY <1>1
<1>3. AllFollowed(s) => AllFollowed(q)
  <2> SUFFICES ASSUME AllFollowed(s), NEW i \in 1..Len(q), q[i] # "display"
               PROVE  \E j \in (i + 1)..Len(q) : q[j] = "display"
    BY DEF AllFollowed
  <2>1. PICK j \in (i + 2)..Len(s) : s[j] = "display"
    BY <1>1 DEF AllFollowed
  <2> QED
    BY <2>1, <1>1, <1>2
<1>4. LastMains(s, m) => LastMains(q, m)
  <2> SUFFICES ASSUME LastMains(s, m), NEW i \in 1..Len(q), q[i] # "display",
                      \A j \in (i + 1)..Len(q) : q[j] = "display"
               PROVE  q[i] = m
    BY DEF LastMains
  <2>1. \A j \in (i + 2)..Len(s) : s[j] = "display"
    BY <1>1, <1>2
  <2> QED
    BY <2>1, <1>1 DEF LastMains
<1>5. Head(s) = "display" /\ OnlyDisplay(q) => OnlyDisplay(s)
  BY <1>1, <1>2 DEF OnlyDisplay
<1>6. Head(s) # "display" /\ OnlyDisplay(q) /\ LastMains(s, m) => Head(s) = m
  BY <1>1, <1>2 DEF OnlyDisplay, LastMains
<1>7. Head(s) # "display" /\ (AllFollowed(s) \/ HasDisplay(s)) => HasDisplay(q)
  BY <1>1, <1>2 DEF AllFollowed, HasDisplay
<1> QED
  BY <1>1, <1>3, <1>4, <1>5, <1>6, <1>7 DEF q

\* The level for what the session daemon knows.
LevelNow == GetWarnLevel(cfg, onBattery, power.percent, Minutes[power.percent])

UpdatePending ==
  \/ wlTodo.changed
  \/ power.refreshes > 0
  \/ HasDisplay(wlInbox)
  \/ \E t \in WarnThread : handler[t].pc = "has"

\* The mains: as long as there is a battery, each change is followed by an
\* update, and once all changes are handled OnBattery is right.
MainsFollowed == power.has => power.refreshes > 0 \/ AllFollowed(wlInbox)
MainsKnown ==
  /\ LastMains(wlInbox, MainsMessage(power.mains))
  /\ OnlyDisplay(wlInbox) => (onBattery <=> ~power.mains)

LevelKnown ==
  WlUp /\ power.has /\ power.percent > 0 /\ ~wlHist.stale => UpdatePending \/ level = LevelNow

LevelInv ==
  /\ wlInbox \in Seq(Message) /\ onBattery \in BOOLEAN
  /\ MainsFollowed /\ MainsKnown /\ LevelKnown

LEMMA LevelInit == WarnInit => LevelInv
<1> SUFFICES ASSUME WarnInit PROVE LevelInv
  OBVIOUS
<1>1. /\ power = [has |-> TRUE, percent |-> 100, mains |-> TRUE, refreshes |-> 0]
      /\ wlInbox = <<>> /\ onBattery = FALSE /\ level = LevelNone
  BY DEF WarnInit
<1>2. wlInbox \in Seq(Message)
  BY <1>1
<1>3. MainsFollowed /\ MainsKnown
  BY <1>1 DEF MainsFollowed, MainsKnown, AllFollowed, LastMains, OnlyDisplay
<1>4. LevelKnown
  BY <1>1 DEF LevelKnown, LevelNow, GetWarnLevel
<1>5. onBattery \in BOOLEAN
  BY <1>1, Zenon
<1> QED
  BY <1>2, <1>3, <1>4, <1>5 DEF LevelInv

\* A change of the battery, which publishes it.
LEMMA DisplayKeeps ==
  ASSUME LevelInv, UNCHANGED onBattery,
         wlInbox' = Append(wlInbox, "display"), power'.mains = power.mains
  PROVE  LevelInv'
<1>1. /\ wlInbox' \in Seq(Message) /\ HasDisplay(wlInbox') /\ AllFollowed(wlInbox')
      /\ LastMains(wlInbox', MainsMessage(power'.mains))
      /\ OnlyDisplay(wlInbox') => OnlyDisplay(wlInbox)
  BY AppendDisplay DEF LevelInv, MainsKnown
<1>2. MainsFollowed'
  BY <1>1 DEF MainsFollowed
<1>3. MainsKnown'
  BY <1>1 DEF LevelInv, MainsKnown
<1>4. LevelKnown'
  BY <1>1 DEF LevelKnown, UpdatePending
<1> QED
  BY <1>1, <1>2, <1>3, <1>4 DEF LevelInv

LEMMA SystemKeeps ==
  ASSUME WarnShape, LevelInv,
         \/ HandleMains \/ RemoveBattery \/ RefreshBatteries
         \/ \E p \in Percent \cup {0} : BatteryReports(p) \/ AddBattery(p)
  PROVE  LevelInv'
<1>0. power \in [has : BOOLEAN, percent : Nat, mains : BOOLEAN, refreshes : Int]
  BY DEF WarnShape
<1>1. CASE HandleMains
  <2>1. /\ power' = [power EXCEPT !.mains = ~@, !.refreshes = 2]
        /\ wlInbox' = Append(wlInbox, IF power.mains THEN "onBattery" ELSE "onMains")
        /\ UNCHANGED onBattery
    BY <1>1 DEF HandleMains, PowerEvent
  <2>2. power'.mains = ~power.mains /\ power'.refreshes > 0
    BY <2>1, <1>0
  <2>3. /\ wlInbox' = Append(wlInbox, MainsMessage(power'.mains))
        /\ MainsMessage(power'.mains) \in Message /\ MainsMessage(power'.mains) # "display"
    BY <2>1, <2>2 DEF MainsMessage, Message
  <2>4. /\ wlInbox' \in Seq(Message) /\ LastMains(wlInbox', MainsMessage(power'.mains))
        /\ ~OnlyDisplay(wlInbox')
    BY <2>3, AppendMains DEF LevelInv
  <2>5. MainsFollowed' /\ MainsKnown'
    BY <2>2, <2>4 DEF MainsFollowed, MainsKnown
  <2>6. LevelKnown'
    BY <2>2 DEF LevelKnown, UpdatePending
  <2> QED
    BY <2>1, <2>4, <2>5, <2>6 DEF LevelInv
<1>2. CASE RemoveBattery \/ \E p \in Percent \cup {0} : BatteryReports(p) \/ AddBattery(p)
  <2>1. /\ UNCHANGED onBattery /\ wlInbox' = Append(wlInbox, "display")
        /\ \/ power' = [power EXCEPT !.has = FALSE, !.percent = 0]
           \/ \E p : power' = [power EXCEPT !.percent = p]
           \/ \E p : power' = [power EXCEPT !.has = TRUE, !.percent = p]
    BY <1>2 DEF RemoveBattery, BatteryReports, AddBattery, PowerEvent
  <2>2. power'.mains = power.mains
    BY <2>1, <1>0
  <2> QED
    BY <2>1, <2>2, DisplayKeeps
<1>3. CASE RefreshBatteries
  <2>1. /\ power' = [power EXCEPT !.refreshes = @ - 1]
        /\ wlInbox' = IF power.has THEN Append(wlInbox, "display") ELSE wlInbox
        /\ UNCHANGED onBattery
    BY <1>3 DEF RefreshBatteries
  <2>2. power'.mains = power.mains /\ power'.has = power.has
    BY <2>1, <1>0
  <2>3. CASE power.has
    BY <2>1, <2>2, <2>3, DisplayKeeps
  <2>4. CASE ~power.has
    BY <2>1, <2>2, <2>4 DEF LevelInv, MainsFollowed, MainsKnown, LevelKnown
  <2> QED
    BY <2>3, <2>4
<1> QED
  BY <1>1, <1>2, <1>3

LEMMA OnBatteryKeeps ==
  ASSUME LevelInv, HandleOnBattery
  PROVE  LevelInv'
<1>1. /\ wlInbox # <<>> /\ Head(wlInbox) # "display"
      /\ onBattery' = (Head(wlInbox) = "onBattery")
      /\ wlInbox' = Tail(wlInbox)
      /\ UNCHANGED <<power, cfg, wlTodo, level, handler, wlHist>>
  BY DEF HandleOnBattery
<1>2. /\ wlInbox' \in Seq(Message)
      /\ AllFollowed(wlInbox) => AllFollowed(wlInbox') /\ HasDisplay(wlInbox')
      /\ LastMains(wlInbox', MainsMessage(power.mains))
      /\ OnlyDisplay(wlInbox') => Head(wlInbox) = MainsMessage(power.mains)
  BY <1>1, TailKeeps DEF LevelInv, MainsKnown
<1>3. MainsFollowed'
  BY <1>1, <1>2 DEF LevelInv, MainsFollowed
<1>4. MainsKnown'
  BY <1>1, <1>2 DEF MainsKnown, MainsMessage
<1>5. LevelKnown'
  BY <1>1, <1>2 DEF LevelInv, MainsFollowed, LevelKnown, UpdatePending
<1>6. onBattery' \in BOOLEAN
  BY <1>1
<1> QED
  BY <1>2, <1>3, <1>4, <1>5, <1>6 DEF LevelInv

LEMMA LevelHandlerKeeps ==
  ASSUME WarnShape, CountInv, LevelInv, NEW t \in WarnThread, WarnHandler(t)
  PROVE  LevelInv'
<1>0. /\ handler \in [WarnThread -> [pc : WarnPC, has : BOOLEAN, level : 0..5, made : Nat]]
      /\ wlHist \in WarnPast /\ wlTodo \in [changed : BOOLEAN, check : BOOLEAN]
      /\ power \in [has : BOOLEAN, percent : Nat, mains : BOOLEAN, refreshes : Int]
  BY DEF WarnShape, CountInv, CountTypes
<1>u. WlUp /\ UNCHANGED <<power, cfg, onBattery>>
  BY DEF WarnHandler, ReadHasBattery, SetWarnLevel, FieldSet, Stop, Switch, NewCountTicker,
         SetField, Leave, Step, sysVars
<1>1. CASE ReadHasBattery(t)
  <2>1. handler'[t].pc = "has"
    BY <1>1, <1>0 DEF ReadHasBattery
  <2>2. LevelKnown'
    BY <2>1 DEF LevelKnown, UpdatePending
  <2>3. /\ wlInbox' \in Seq(Message)
        /\ AllFollowed(wlInbox) => AllFollowed(wlInbox')
        /\ LastMains(wlInbox', MainsMessage(power.mains))
        /\ OnlyDisplay(wlInbox') => OnlyDisplay(wlInbox)
    <3>1. CASE t = "signals"
      BY <1>1, <3>1, TailKeeps DEF ReadHasBattery, LevelInv, MainsKnown
    <3>2. CASE t # "signals"
      BY <1>1, <3>2 DEF ReadHasBattery, LevelInv, MainsKnown
    <3> QED
      BY <3>1, <3>2
  <2> QED
    BY <2>2, <2>3, <1>u DEF LevelInv, MainsFollowed, MainsKnown
<1>2. CASE SetWarnLevel(t)
  <2>1. /\ level' = NewLevel(handler[t].has) /\ UNCHANGED wlInbox
        /\ wlHist' = [wlHist EXCEPT !.fired = @ /\ NewLevel(handler[t].has) = level,
                                    !.stale = handler[t].has # power.has]
    BY <1>2 DEF SetWarnLevel, sysVars
  <2>2. wlHist'.stale = (handler[t].has # power.has)
    BY <2>1, <1>0 DEF WarnPast
  <2>3. ASSUME power.has, power.percent > 0, ~wlHist'.stale PROVE level' = LevelNow'
    <3>1. handler[t].has
      BY <2>2, <2>3, <1>0
    <3> QED
      BY <3>1, <2>1, <2>3, <1>u, <1>0 DEF NewLevel, LevelNow
  <2> QED
    BY <2>1, <2>3, <1>u DEF LevelInv, MainsFollowed, MainsKnown, LevelKnown
<1>3. CASE ~ReadHasBattery(t) /\ ~SetWarnLevel(t)
  <2>1. /\ UNCHANGED <<level, wlInbox>>
        /\ handler[t].pc # "has" /\ (\A u \in WarnThread \ {t} : handler'[u] = handler[u])
        /\ \/ UNCHANGED wlTodo
           \/ wlTodo' = [wlTodo EXCEPT !.check = @ \/ t = "settings"]
    BY <1>3, <1>0 DEF WarnHandler, FieldSet, Stop, Switch, NewCountTicker, SetField, Leave, Step,
       sysVars
  <2>2. wlHist'.stale = wlHist.stale
    <3>1. \/ UNCHANGED wlHist
          \/ wlHist' = [wlHist EXCEPT !.panic = TRUE]
          \/ \E late \in BOOLEAN : wlHist' = [wlHist EXCEPT !.late = @ \/ late]
      BY <1>3 DEF WarnHandler, FieldSet, Stop, Stopped, Switch, NewCountTicker, SetField, Leave
    <3> QED
      BY <3>1, <1>0 DEF WarnPast
  <2>3. wlTodo'.changed = wlTodo.changed
    BY <2>1, <1>0
  <2>4. LevelKnown'
    BY <2>1, <2>2, <2>3, <1>u DEF LevelInv, LevelKnown, UpdatePending, LevelNow, WlUp
  <2> QED
    BY <2>1, <2>4, <1>u DEF LevelInv, MainsFollowed, MainsKnown
<1> QED
  BY <1>1, <1>2, <1>3

LEMMA LevelNext == WarnShape /\ CountInv /\ LevelInv /\ [WarnNext]_warnVars => LevelInv'
<1> SUFFICES ASSUME WarnShape, CountInv, LevelInv, [WarnNext]_warnVars
             PROVE  LevelInv'
  OBVIOUS
<1>0. wlHist \in WarnPast /\ wlTodo \in [changed : BOOLEAN, check : BOOLEAN]
  BY DEF WarnShape, CountInv, CountTypes
<1>1. CASE \/ HandleMains \/ RemoveBattery \/ RefreshBatteries
           \/ \E p \in Percent \cup {0} : BatteryReports(p) \/ AddBattery(p)
  BY <1>1, SystemKeeps
<1>2. CASE HandleOnBattery
  BY <1>2, OnBatteryKeeps
<1>3. CASE \E t \in WarnThread : WarnHandler(t)
  BY <1>3, LevelHandlerKeeps
<1>4. CASE \E c \in Configs : WriteConfig(c)
  <2>1. /\ UNCHANGED <<power, wlInbox, onBattery>> /\ wlTodo' = [wlTodo EXCEPT !.changed = TRUE]
    BY <1>4 DEF WriteConfig, sysVars
  <2>2. wlTodo'.changed
    BY <2>1, <1>0
  <2> QED
    BY <2>1, <2>2 DEF LevelInv, MainsFollowed, MainsKnown, LevelKnown, UpdatePending
<1>5. CASE CheckValid
  <2>1. /\ UNCHANGED <<power, wlInbox, onBattery, level, handler, wlHist>>
        /\ wlTodo'.changed <=> wlTodo.changed \/ ~ValidConfig(cfg)
        /\ ValidConfig(cfg) => cfg' = cfg
    BY <1>5 DEF CheckValid, sysVars
  <2>2. LevelKnown'
    BY <2>1 DEF LevelInv, LevelKnown, UpdatePending, LevelNow, WlUp
  <2> QED
    BY <2>1, <2>2 DEF LevelInv, MainsFollowed, MainsKnown
<1>6. CASE (\E k \in Ticker : Countdown(k)) \/ UNCHANGED warnVars
  <2>1. /\ UNCHANGED <<power, wlInbox, onBattery, level, handler, cfg, wlTodo>>
        /\ WlUp \/ UNCHANGED wlHist
        /\ \/ UNCHANGED wlHist
           \/ \E r, p : wlHist' = [wlHist EXCEPT !.fired = TRUE, !.raced = r, !.panic = p]
    BY <1>6, ZenonT(30) DEF Countdown, Tick, FifthTick, TickerExits, Counts, warnVars, sysVars
  <2>2. wlHist'.stale = wlHist.stale
    BY <2>1, <1>0 DEF WarnPast
  <2>3. LevelKnown'
    BY <2>1, <2>2 DEF LevelInv, LevelKnown, UpdatePending, LevelNow, WlUp
  <2> QED
    BY <2>1, <2>3 DEF LevelInv, MainsFollowed, MainsKnown
<1> QED
  BY <1>1, <1>2, <1>3, <1>4, <1>5, <1>6 DEF WarnNext

(* When every signal, setting and refresh has been handled the level is    *)
(* the one for the battery, the mains and the settings as they are: for    *)
(* any order and number of the events, although the signal of the mains    *)
(* does not compute the level and the two threads handle updates at once.  *)
THEOREM LevelAlwaysCurrent == WarnSpec => []LevelCurrent
<1>1. LevelInv => LevelCurrent
  <2> SUFFICES ASSUME LevelInv, Quiet, WlUp, wlInbox = <<>>, ~wlTodo.changed,
                      power.refreshes = 0, power.has, power.percent > 0, ~wlHist.stale
               PROVE  level = GetWarnLevel(cfg, ~power.mains, power.percent,
                                           Minutes[power.percent])
    BY DEF LevelCurrent
  <2>1. level = LevelNow
    BY DEF LevelInv, LevelKnown, UpdatePending, Quiet, HasDisplay
  <2>2. onBattery <=> ~power.mains
    BY DEF LevelInv, MainsKnown, OnlyDisplay
  <2> QED
    BY <2>1, <2>2 DEF LevelNow, GetWarnLevel
<1> QED
  BY <1>1, WarnInitShape, WarnNextKeeps, WarnKeptShape, CountInit, CountNext, LevelInit,
     LevelNext, PTL DEF WarnSpec
=============================================================================
