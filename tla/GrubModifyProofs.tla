--------------------------- MODULE GrubModifyProofs ---------------------------
(***************************************************************************)
(* Proofs about GrubModify, for any calls and any number of crashes and    *)
(* failed writes: the parameter file is left alone during an update, and a *)
(* service at rest has given the inhibitor back, has brought grub.cfg up   *)
(* to date and publishes what the parameter file says.                     *)
(***************************************************************************)
EXTENDS GrubModify, TLAPS

CallState == {"idle", "send", "done", "lost"}
TaskType  == [set : SUBSET (Key \X Value), theme : BOOLEAN]
LoopPC    == {"recv", "lock", "start"}
StartPC   == {"none", "write", "logStart", "notify"}

\* The update goroutine before update-grub has read the files, before it
\* ends, and at all.
BeforeRead   == {"theme", "adjusting", "mkconfig", "read"}
Active       == BeforeRead \cup {"made", "end", "restart"}
UpdateState  == Active \cup {"none", "stopped"}

GrubTypes ==
  /\ prop \in [Key -> Value] /\ params \in [Key -> Value]
  /\ propsMu \in Call \cup {"free"}
  /\ call \in [Call -> CallState]
  /\ task \in [Call -> TaskType]
  /\ loop \in [pc : LoopPC, task : TaskType]
  /\ mu \in {"free", "loop", "update"}
  /\ starting \in [pc : StartPC, theme : BOOLEAN]
  /\ modifyTasks \in Seq(TaskType)
  /\ running \in BOOLEAN /\ updating \in BOOLEAN /\ inhibit \in BOOLEAN
  /\ update \in UpdateState
  /\ proc \in {"up", "down"}
  /\ writeFails \in Nat
  /\ themeOwed \in BOOLEAN /\ excused \in BOOLEAN

\* Who is in start and who runs an update: mu goes with them.
Phases ==
  /\ loop.pc = "start" <=> mu = "loop"
  /\ update \in {"restart", "stopped"} <=> mu = "update"
  /\ mu = "loop" => update = "none"
  /\ starting.pc # "none" <=> mu = "loop" \/ update = "restart"

\* running, and what is given up with it.
RunningMeansUpdate ==
  /\ update \in Active \/ starting.pc = "notify" => running
  /\ update = "stopped" => ~running
  /\ inhibit => running
  /\ updating => running \/ update = "stopped"
  /\ running /\ writeFails = 0 => update # "none" \/ starting.pc = "notify"
  /\ ~excused => writeFails = 0

\* A queued task is left to the update that runs.
QueueServed == modifyTasks # <<>> /\ writeFails = 0 => update \in Active

DownIsReset ==
  proc = "down" =>
    /\ propsMu = "free" /\ \A c \in Call : call[c] # "send"
    /\ loop = Receiving /\ mu = "free" /\ starting = NotStarting /\ modifyTasks = <<>>
    /\ ~running /\ ~updating /\ ~inhibit /\ update = "none"

\* The log tells how far the update is.
LogFollows ==
  /\ starting.pc = "notify" \/ update = "theme" => log = {"start"}
  /\ update = "adjusting" => log = {"start", "adjustThemeStart"}
  /\ update \in BeforeRead \cup {"made"} => LogOpen

\* Tasks of the edit authorization are empty.
AuthTasks == \A c \in Call : Op[c].method = "EditAuth" => task[c] = NoTask

\* An update that a service started again has found in the log.
Redoing == loop.pc # "recv" /\ update = "none" /\ LogOpen

ReadOwed == seen # <<params, auth>>

StaleMeansWork ==
  ~excused /\ ReadOwed =>
    IF proc = "down" THEN LogOpen
    ELSE \/ AuthWindow
         \/ starting.pc \in {"logStart", "notify"}
         \/ update \in BeforeRead
         \/ Redoing

ThemeJobOpen == HasJob("adjustThemeStart") /\ ~IsJobDone("adjustThemeEnd")

OwedMeansWork ==
  ~excused /\ themeOwed =>
    IF proc = "down" THEN LogOpen /\ ThemeJobOpen
    ELSE \/ starting.pc \in {"logStart", "notify"} /\ starting.theme
         \/ update \in {"theme", "adjusting"}
         \/ Redoing /\ loop.task.theme /\ starting.pc \in {"none", "write"} /\ ThemeJobOpen

GrubControl == Phases /\ RunningMeansUpdate /\ QueueServed /\ DownIsReset

GrubInv ==
  /\ GrubTypes /\ GrubControl
  /\ LogFollows /\ AuthTasks /\ StaleMeansWork /\ OwedMeansWork

-----------------------------------------------------------------------------
\* The tasks that are on their way to the parameter file.
OnTheWay == modifyTasks \o (IF loop.pc = "recv" THEN <<>> ELSE <<loop.task>>)

\* A property is what the call that holds PropsMu is about to send, or else
\* what the file is going to say.
PropsAhead ==
  proc = "up" /\ writeFails = 0 /\ NoReset =>
    \A k \in Key :
      prop[k] = IF propsMu # "free" /\ Op[propsMu].key = k
                  THEN Op[propsMu].value ELSE Modified(params, OnTheWay)[k]

\* PropsMu is held by the setter that sends.
HolderSends ==
  \A c \in Call : /\ propsMu = c <=> Op[c].method = "Set" /\ call[c] = "send"
                  /\ Op[c].method = "Set" /\ call[c] = "send" =>
                        task[c].set = {<<Op[c].key, Op[c].value>>}

\* Between the write and the return of start, what it starts is in the file.
TasksWritten ==
  starting.pc \in {"logStart", "notify"} => params = Modified(params, StartTasks)

PropsInv == GrubInv /\ HolderSends /\ TasksWritten /\ PropsAhead

-----------------------------------------------------------------------------
LEMMA RestTypes ==
  /\ NoTask \in TaskType
  /\ Receiving \in [pc : LoopPC, task : TaskType]
  /\ NotStarting \in [pc : StartPC, theme : BOOLEAN]
  /\ [pc |-> "write", theme |-> FALSE] \in [pc : StartPC, theme : BOOLEAN]
<1>1. NoTask \in TaskType
  BY DEF NoTask, Task, TaskType
<1> QED
  BY <1>1 DEF Receiving, NotStarting, LoopPC, StartPC

LEMMA GrubInitTypes == GrubInit => GrubTypes
<1> SUFFICES ASSUME GrubInit PROVE GrubTypes
  OBVIOUS
<1>1. prop \in [Key -> Value] /\ params \in [Key -> Value]
  BY DEF GrubInit, Value
<1>2. call \in [Call -> CallState] /\ task \in [Call -> TaskType]
  BY RestTypes DEF GrubInit, CallState
<1>3. /\ loop \in [pc : LoopPC, task : TaskType]
      /\ starting \in [pc : StartPC, theme : BOOLEAN]
      /\ modifyTasks \in Seq(TaskType)
  BY RestTypes DEF GrubInit
<1>4. /\ propsMu \in Call \cup {"free"} /\ mu \in {"free", "loop", "update"}
      /\ update \in UpdateState /\ proc \in {"up", "down"} /\ writeFails \in Nat
  BY DEF GrubInit, UpdateState
<1>5. /\ running \in BOOLEAN /\ updating \in BOOLEAN /\ inhibit \in BOOLEAN
      /\ themeOwed \in BOOLEAN /\ excused \in BOOLEAN
  BY DEF GrubInit
<1> QED
  BY <1>1, <1>2, <1>3, <1>4, <1>5 DEF GrubTypes

LEMMA ModifiedType ==
  ASSUME NEW p \in [Key -> Value], NEW ts
  PROVE  Modified(p, ts) \in [Key -> Value]
<1>1. \A k : LastSet(ts, k) \subseteq Value
  BY DEF LastSet
<1> QED
  BY <1>1 DEF Modified

\* A method that has called and returned.
LEMMA CallTypes ==
  ASSUME GrubTypes, NEW c \in Call, CallStep(c)
  PROVE  GrubTypes'
<1>0. Op[c].key \in Key /\ Op[c].value \in Value
  BY GrubAssumption
<1>1. CASE SetProp(c)
  BY <1>0, <1>1 DEF SetProp, GrubTypes, CallState, TaskType, Task, manVars, fileVars, boundVars, grubHist, AdjustsTheme
<1>2. CASE Reset(c)
  <2> DEFINE changed == {k \in ResetKey : prop[k] # Default}
  <2>1. changed \X {Default} \subseteq Key \X Value
    BY DEF ResetKey, Key, Value, Default
  <2>2. Task(changed \X {Default}, TRUE) \in TaskType
    BY <2>1 DEF Task, TaskType
  <2>3. [k \in Key |-> IF k \in changed THEN Default ELSE prop[k]] \in [Key -> Value]
    BY DEF GrubTypes, Default, Value
  <2>4. /\ prop' = [k \in Key |-> IF k \in changed THEN Default ELSE prop[k]]
        /\ call' = [call EXCEPT ![c] = IF changed = {} THEN "done" ELSE "send"]
        /\ task' = [task EXCEPT ![c] = Task(changed \X {Default}, TRUE)]
        /\ UNCHANGED <<propsMu, manVars, update, fileVars, boundVars, grubHist>>
    BY <1>2 DEF Reset
  <2> HIDE DEF changed
  <2> QED
    BY <2>2, <2>3, <2>4 DEF GrubTypes, CallState, manVars, fileVars, boundVars, grubHist
<1>3. CASE \E fails \in BOOLEAN : SaveUserAuthInfo(c, fails)
  BY <1>3 DEF SaveUserAuthInfo, GrubTypes, CallState, manVars, boundVars, grubHist
<1>4. CASE AddModifyTask(c)
  BY <1>4 DEF AddModifyTask, GrubTypes, CallState, LoopPC, fileVars, boundVars, grubHist
<1> QED
  BY <1>1, <1>2, <1>3, <1>4 DEF CallStep

LEMMA StartTypes ==
  ASSUME GrubTypes, StartStep
  PROVE  GrubTypes'
<1>1. CASE StartWriteFails
  BY <1>1, RestTypes DEF StartWriteFails, StartReturns, GrubTypes, callVars, fileVars, UpdateState
<1>2. CASE StartWrite
  BY <1>2, ModifiedType DEF StartWrite, GrubTypes, callVars, boundVars, grubHist, StartPC
<1>3. CASE \E inhibited \in BOOLEAN : LogStart(inhibited)
  BY <1>3 DEF LogStart, PreventShutdown, GrubTypes, callVars, boundVars, StartPC
<1>4. CASE StartUpdate
  BY <1>4, RestTypes DEF StartUpdate, StartReturns, GrubTypes, callVars, fileVars, boundVars, grubHist, UpdateState, Active, BeforeRead
<1> QED
  BY <1>1, <1>2, <1>3, <1>4 DEF StartStep

LEMMA UpdateTypes ==
  ASSUME GrubTypes, UpdateGoroutine
  PROVE  GrubTypes'
<1>1. CASE AdjustThemeStart \/ AdjustThemeEnd \/ MkConfigStart \/ MkConfigEnd
  <2>1. CASE AdjustThemeStart
    BY <2>1 DEF AdjustThemeStart, LogJob, UpdateStep, GrubTypes, callVars, manVars, boundVars, grubHist, UpdateState,
                Active, BeforeRead
  <2>2. CASE AdjustThemeEnd
    BY <2>2 DEF AdjustThemeEnd, LogJob, UpdateStep, GrubTypes, callVars, manVars, boundVars, grubHist, UpdateState,
                Active, BeforeRead
  <2>3. CASE MkConfigStart
    BY <2>3 DEF MkConfigStart, LogJob, UpdateStep, GrubTypes, callVars, manVars, boundVars, grubHist, UpdateState,
                Active, BeforeRead
  <2>4. CASE MkConfigEnd
    BY <2>4 DEF MkConfigEnd, LogJob, UpdateStep, GrubTypes, callVars, manVars, boundVars, grubHist, UpdateState,
                Active, BeforeRead
  <2> QED
    BY <1>1, <2>1, <2>2, <2>3, <2>4
<1>2. CASE RunUpdateGrub
  BY <1>2 DEF RunUpdateGrub, UpdateStep, GrubTypes, callVars, manVars, boundVars, grubHist,
              UpdateState, Active
<1>3. CASE UpdateEnd
  BY <1>3, RestTypes DEF UpdateEnd, EnableShutdown, GrubTypes, callVars, boundVars, grubHist,
                         UpdateState, Active
<1>4. CASE NotifyStopped
  BY <1>4 DEF NotifyStopped, UpdateStep, GrubTypes, callVars, fileVars, boundVars, grubHist,
              UpdateState
<1> QED
  BY <1>1, <1>2, <1>3, <1>4 DEF UpdateGoroutine

LEMMA GrubNextTypes == GrubTypes /\ [GrubNext]_grubVars => GrubTypes'
<1> SUFFICES ASSUME GrubTypes, [GrubNext]_grubVars
             PROVE  GrubTypes'
  OBVIOUS
<1>1. CASE LoopTask
  <2>1. UNCHANGED <<prop, propsMu, call, task, params, running, updating, inhibit, update, proc,
                    writeFails, themeOwed, excused>>
    BY <1>1 DEF LoopTask, callVars, fileVars, boundVars, grubHist
  <2>2. /\ loop' \in [pc : LoopPC, task : TaskType] /\ mu' \in {"free", "loop", "update"}
        /\ starting' \in [pc : StartPC, theme : BOOLEAN] /\ modifyTasks' \in Seq(TaskType)
    <3>1. CASE running
      <4>1. /\ modifyTasks' = Append(modifyTasks, loop.task) /\ loop' = Receiving
            /\ UNCHANGED <<mu, starting>>
        BY <1>1, <3>1 DEF LoopTask
      <4>2. loop.task \in TaskType /\ modifyTasks \in Seq(TaskType)
        BY DEF GrubTypes
      <4>3. modifyTasks' \in Seq(TaskType)
        BY <4>1, <4>2
      <4> QED
        BY <4>1, <4>3, RestTypes DEF GrubTypes
    <3>2. CASE ~running
      <4>1. /\ loop' = [loop EXCEPT !.pc = "start"] /\ modifyTasks' = modifyTasks
            /\ mu' = "loop"
            /\ starting' = [pc |-> "write", theme |-> FALSE]
        BY <1>1, <3>2 DEF LoopTask
      <4>2. loop' \in [pc : LoopPC, task : TaskType]
        BY <4>1 DEF GrubTypes, LoopPC
      <4> QED
        BY <4>1, <4>2, RestTypes DEF GrubTypes
    <3> QED
      BY <3>1, <3>2
  <2> QED
    BY <2>1, <2>2 DEF GrubTypes
<1>2. CASE Crash
  <2>1. UNCHANGED <<prop, task, params, writeFails, themeOwed>>
    BY <1>2 DEF Crash, fileVars
  <2>2. /\ propsMu' = "free" /\ loop' = Receiving /\ mu' = "free" /\ starting' = NotStarting
        /\ modifyTasks' = <<>> /\ update' = "none" /\ proc' = "down"
        /\ call' \in [Call -> CallState]
    BY <1>2 DEF Crash, GrubTypes, CallState
  <2>3. /\ running' \in BOOLEAN /\ updating' \in BOOLEAN /\ inhibit' \in BOOLEAN
        /\ excused' \in BOOLEAN
    BY <1>2, Zenon DEF Crash
  <2> QED
    BY <2>1, <2>2, <2>3, RestTypes DEF GrubTypes, UpdateState
<1>3. CASE NewGrub2
  BY <1>3 DEF NewGrub2, ApplyParams, GrubTypes, CallState, fileVars, grubHist, Receiving, LoopPC, NoTask, Task, TaskType
<1>4. CASE UNCHANGED grubVars
  BY <1>4 DEF GrubTypes, grubVars, callVars, manVars, fileVars, boundVars, grubHist
<1> QED
  BY <1>1, <1>2, <1>3, <1>4, CallTypes, StartTypes, UpdateTypes DEF GrubNext

LEMMA GrubControlNext ==
  ASSUME GrubTypes, GrubControl, [GrubNext]_grubVars
  PROVE  GrubControl'
<1> USE DEF GrubControl, Phases, RunningMeansUpdate, QueueServed, DownIsReset
<1>1. CASE \E c \in Call : \/ SetProp(c) \/ Reset(c)
                           \/ \E fails \in BOOLEAN : SaveUserAuthInfo(c, fails)
  <2>1. UNCHANGED <<manVars, update, boundVars, excused>> /\ proc = "up"
    BY <1>1 DEF SetProp, Reset, SaveUserAuthInfo, Called, grubHist
  <2> QED
    BY <2>1 DEF manVars, boundVars
<1>2. CASE \E c \in Call : AddModifyTask(c)
  <2>1. /\ loop.pc = "recv" /\ loop'.pc = "lock" /\ proc = "up"
        /\ UNCHANGED <<mu, starting, modifyTasks, running, updating, inhibit, update, boundVars, excused>>
    BY <1>2 DEF AddModifyTask, grubHist
  <2> QED
    BY <2>1 DEF boundVars
<1>3. CASE LoopTask
  <2>1. /\ loop.pc = "lock" /\ mu = "free" /\ proc = "up"
        /\ UNCHANGED <<running, updating, inhibit, update, boundVars, excused>>
    BY <1>3 DEF LoopTask, grubHist
  <2>2. CASE running
    <3>1. loop'.pc = "recv" /\ UNCHANGED <<mu, starting>>
      BY <1>3, <2>2 DEF LoopTask, Receiving
    <3> QED
      BY <2>1, <2>2, <3>1 DEF boundVars, GrubTypes, UpdateState
  <2>3. CASE ~running
    <3>1. loop'.pc = "start" /\ mu' = "loop" /\ starting'.pc = "write" /\ modifyTasks' = modifyTasks
      BY <1>3, <2>3 DEF LoopTask, GrubTypes
    <3> QED
      BY <2>1, <2>3, <3>1 DEF boundVars, GrubTypes, UpdateState
  <2> QED
    BY <2>2, <2>3
<1>4. CASE StartWriteFails
  <2>1. /\ starting.pc # "none" /\ proc = "up" /\ proc' = "up"
        /\ mu' = "free" /\ starting'.pc = "none" /\ update' = "none"
        /\ loop' = IF mu = "loop" THEN Receiving ELSE loop
        /\ writeFails' # 0 /\ excused' /\ UNCHANGED <<running, updating, inhibit>>
    BY <1>4 DEF StartWriteFails, StartReturns, NotStarting, GrubTypes
  <2> QED
    BY <2>1 DEF GrubTypes, Receiving, Active, BeforeRead
<1>5. CASE StartWrite
  <2>1. /\ starting.pc = "write" /\ starting'.pc = "logStart" /\ proc = "up"
        /\ UNCHANGED <<loop, mu, modifyTasks, running, updating, inhibit, update, boundVars, excused>>
    BY <1>5 DEF StartWrite, grubHist
  <2> QED
    BY <2>1 DEF boundVars
<1>6. CASE \E inhibited \in BOOLEAN : LogStart(inhibited)
  <2>1. /\ starting.pc = "logStart" /\ starting'.pc = "notify" /\ proc = "up"
        /\ running' /\ UNCHANGED <<loop, mu, modifyTasks, updating, update, boundVars, excused>>
    BY <1>6 DEF LogStart, GrubTypes
  <2> QED
    BY <2>1 DEF boundVars
<1>7. CASE StartUpdate
  <2>1. /\ starting.pc = "notify" /\ proc = "up"
        /\ mu' = "free" /\ starting'.pc = "none" /\ update' \in BeforeRead
        /\ loop' = IF mu = "loop" THEN Receiving ELSE loop
        /\ UNCHANGED <<running, inhibit, boundVars, excused>>
    BY <1>7 DEF StartUpdate, StartReturns, NotStarting, grubHist, BeforeRead
  <2> QED
    BY <2>1 DEF GrubTypes, Receiving, Active, BeforeRead, boundVars
<1>8. CASE AdjustThemeStart \/ AdjustThemeEnd \/ MkConfigStart \/ RunUpdateGrub \/ MkConfigEnd
  <2>1. /\ update \in BeforeRead \cup {"made"} /\ update' \in BeforeRead \cup {"made", "end"}
        /\ proc = "up" /\ UNCHANGED <<manVars, boundVars, excused>>
    BY <1>8 DEF AdjustThemeStart, AdjustThemeEnd, MkConfigStart, RunUpdateGrub, MkConfigEnd,
                LogJob, UpdateStep, grubHist, BeforeRead
  <2> QED
    BY <2>1 DEF manVars, boundVars, Active, BeforeRead
<1>9. CASE UpdateEnd
  <2>1. /\ mu = "free" /\ mu' = "update" /\ update = "end" /\ proc = "up"
        /\ UNCHANGED <<loop, modifyTasks, updating, boundVars, excused>>
    BY <1>9 DEF UpdateEnd, grubHist
  <2>2. CASE modifyTasks # <<>>
    <3>1. starting'.pc = "write" /\ update' = "restart" /\ UNCHANGED <<running, inhibit>>
      BY <1>9, <2>2 DEF UpdateEnd
    <3> QED
      BY <2>1, <3>1 DEF boundVars, Active
  <2>3. CASE modifyTasks = <<>>
    <3>1. update' = "stopped" /\ ~running' /\ ~inhibit' /\ UNCHANGED starting
      BY <1>9, <2>3 DEF UpdateEnd, EnableShutdown
    <3> QED
      BY <2>1, <2>3, <3>1 DEF boundVars, Active, BeforeRead
  <2> QED
    BY <2>2, <2>3
<1>10. CASE NotifyStopped
  <2>1. /\ update = "stopped" /\ update' = "none" /\ ~updating' /\ mu' = "free" /\ proc = "up"
        /\ UNCHANGED <<loop, starting, modifyTasks, running, inhibit, boundVars, excused>>
    BY <1>10 DEF NotifyStopped, UpdateStep, grubHist
  <2> QED
    BY <2>1 DEF boundVars, Active, BeforeRead
<1>11. CASE Crash
  <2>1. /\ propsMu' = "free" /\ \A c \in Call : call'[c] # "send"
        /\ loop' = Receiving /\ mu' = "free" /\ starting' = NotStarting /\ modifyTasks' = <<>>
        /\ ~running' /\ ~updating' /\ ~inhibit' /\ update' = "none"
        /\ writeFails' = writeFails /\ (~excused' => ~excused)
    BY <1>11 DEF Crash
  <2> QED
    BY <2>1 DEF Receiving, NotStarting, Active, BeforeRead
<1>12. CASE NewGrub2
  <2>1. /\ proc' = "up" /\ loop'.pc # "start"
        /\ UNCHANGED <<mu, starting, modifyTasks, running, updating, inhibit, update, writeFails, excused>>
    BY <1>12 DEF NewGrub2, Receiving, grubHist
  <2>2. proc = "down"
    BY <1>12 DEF NewGrub2
  <2> QED
    BY <2>1, <2>2 DEF Receiving, NotStarting
<1>13. CASE UNCHANGED grubVars
  BY <1>13 DEF grubVars, callVars, manVars, boundVars, grubHist
<1> QED
  BY <1>1, <1>2, <1>3, <1>4, <1>5, <1>6, <1>7, <1>8, <1>9, <1>10, <1>11, <1>12, <1>13
     DEF GrubNext, CallStep, StartStep, UpdateGoroutine

LEMMA LogNext ==
  ASSUME GrubTypes, GrubControl, LogFollows, [GrubNext]_grubVars
  PROVE  LogFollows'
<1>1. CASE (\E c \in Call : CallStep(c)) \/ NewGrub2 \/ UNCHANGED grubVars
  <2>1. UNCHANGED <<starting, update, log>>
    BY <1>1 DEF CallStep, SetProp, Reset, SaveUserAuthInfo, AddModifyTask, NewGrub2,
                grubVars, callVars, manVars, fileVars
  <2> QED
    BY <2>1 DEF LogFollows, LogOpen, IsJobDone
<1>2. CASE LoopTask
  <2>1. UNCHANGED <<update, log>> /\ (starting' = starting \/ starting'.pc = "write")
    BY <1>2 DEF LoopTask, fileVars
  <2> QED
    BY <2>1 DEF LogFollows, LogOpen, IsJobDone
<1>3. CASE StartWriteFails \/ StartWrite
  <2>1. /\ UNCHANGED log
        /\ starting'.pc \in {"none", "logStart"}
        /\ update' = update \/ update' = "none"
    BY <1>3 DEF StartWriteFails, StartWrite, StartReturns, NotStarting, fileVars
  <2> QED
    BY <2>1 DEF LogFollows, LogOpen, IsJobDone, BeforeRead
<1>4. CASE \E inhibited \in BOOLEAN : LogStart(inhibited)
  <2>1. log' = {"start"} /\ update' = update /\ update \notin BeforeRead \cup {"made"}
    BY <1>4 DEF LogStart, GrubControl, Phases, BeforeRead
  <2> QED
    BY <2>1 DEF LogFollows, BeforeRead
<1>5. CASE StartUpdate
  <2>1. /\ UNCHANGED log /\ log = {"start"}
        /\ starting'.pc = "none" /\ update' \in {"theme", "mkconfig"}
    BY <1>5 DEF StartUpdate, StartReturns, NotStarting, LogFollows, fileVars
  <2> QED
    BY <2>1 DEF LogFollows, LogOpen, IsJobDone, NoLog
<1>6. CASE AdjustThemeStart
  <2>1. update = "theme" /\ update' = "adjusting" /\ log' = log \cup {"adjustThemeStart"}
        /\ starting' = starting
    BY <1>6 DEF AdjustThemeStart, LogJob, UpdateStep, manVars
  <2>2. starting.pc # "notify"
    BY <2>1 DEF GrubControl, Phases
  <2>3. log' = {"start", "adjustThemeStart"}
    BY <2>1 DEF LogFollows
  <2> QED
    BY <2>1, <2>2, <2>3 DEF LogFollows, LogOpen, IsJobDone, NoLog
<1>7. CASE AdjustThemeEnd \/ MkConfigStart \/ RunUpdateGrub
  <2>1. /\ update \in BeforeRead /\ update' \in {"mkconfig", "read", "made"}
        /\ \E key \in {"adjustThemeEnd", "mkconfigStart"} : log' = log \/ log' = log \cup {key}
        /\ starting' = starting
    BY <1>7 DEF AdjustThemeEnd, MkConfigStart, RunUpdateGrub, LogJob, UpdateStep, manVars,
                BeforeRead
  <2>2. starting.pc # "notify"
    BY <2>1 DEF GrubControl, Phases, BeforeRead
  <2> QED
    BY <2>1, <2>2 DEF LogFollows, LogOpen, IsJobDone, NoLog
<1>8. CASE MkConfigEnd \/ UpdateEnd \/ NotifyStopped \/ Crash
  <2>1. starting'.pc # "notify" /\ update' \notin BeforeRead \cup {"made"}
    BY <1>8 DEF MkConfigEnd, UpdateEnd, NotifyStopped, Crash, LogJob, UpdateStep, manVars,
                NotStarting, BeforeRead, GrubControl, Phases
  <2> QED
    BY <2>1 DEF LogFollows, BeforeRead
<1> QED
  BY <1>1, <1>2, <1>3, <1>4, <1>5, <1>6, <1>7, <1>8 DEF GrubNext, StartStep, UpdateGoroutine

LEMMA AuthTasksNext ==
  ASSUME GrubTypes, AuthTasks, [GrubNext]_grubVars
  PROVE  AuthTasks'
<1>1. CASE \E c \in Call : SetProp(c) \/ Reset(c)
  BY <1>1 DEF SetProp, Reset, Called, AuthTasks, GrubTypes
<1>2. ASSUME ~\E c \in Call : SetProp(c) \/ Reset(c)
      PROVE  task' = task
  BY <1>2 DEF GrubNext, CallStep, SaveUserAuthInfo, AddModifyTask, LoopTask, StartStep,
       StartWriteFails, StartWrite, LogStart, StartUpdate, UpdateGoroutine, AdjustThemeStart,
       AdjustThemeEnd, MkConfigStart, RunUpdateGrub, MkConfigEnd, UpdateEnd, NotifyStopped,
       Crash, NewGrub2, grubVars, callVars
<1> QED
  BY <1>1, <1>2 DEF AuthTasks

LEMMA AuthTaskNoTask == AuthTask(NoTask)
BY DEF AuthTask, NoTask, Task

\* What the changes of the methods do to the work that is left.
LEMMA StaleCalls ==
  ASSUME GrubInv, NEW c \in Call, CallStep(c)
  PROVE  StaleMeansWork'
<1>1. CASE SetProp(c) \/ Reset(c)
  <2>1. /\ UNCHANGED <<params, auth, seen, log, loop, starting, update, modifyTasks, excused, proc>>
        /\ \A d \in Call : Op[d].method = "EditAuth" => call'[d] = call[d]
    BY <1>1 DEF SetProp, Reset, Called, GrubInv, GrubTypes, manVars, fileVars, boundVars, grubHist
  <2>2. AuthWindow => AuthWindow'
    BY <2>1 DEF AuthWindow, AuthTask
  <2> QED
    BY <2>1, <2>2 DEF GrubInv, StaleMeansWork, ReadOwed, Redoing, LogOpen, IsJobDone
<1>2. CASE \E fails \in BOOLEAN : SaveUserAuthInfo(c, fails)
  <2>1. PICK fails \in BOOLEAN : SaveUserAuthInfo(c, fails)
    BY <1>2
  <2>2. UNCHANGED <<params, seen, log, loop, starting, update, modifyTasks, excused, proc>>
    BY <2>1 DEF SaveUserAuthInfo, manVars, boundVars, grubHist
  <2>3. CASE fails
    <3>1. auth' = auth /\ \A d \in Call : call[d] = "send" => call'[d] = "send"
      BY <2>1, <2>3 DEF SaveUserAuthInfo, Called, GrubInv, GrubTypes
    <3>2. AuthWindow => AuthWindow'
      BY <2>2, <3>1 DEF AuthWindow, AuthTask
    <3> QED
      BY <2>2, <3>1, <3>2 DEF GrubInv, StaleMeansWork, ReadOwed, Redoing, LogOpen, IsJobDone
  <2>4. CASE ~fails
    <3>1. AuthWindow' /\ proc' = "up"
      BY <2>1, <2>4 DEF SaveUserAuthInfo, Called, AuthWindow, GrubInv, GrubTypes, boundVars
    <3> QED
      BY <3>1 DEF StaleMeansWork
  <2> QED
    BY <2>3, <2>4
<1>3. CASE AddModifyTask(c)
  <2>1. /\ UNCHANGED <<params, auth, seen, log, starting, update, modifyTasks, excused, proc>>
        /\ loop.pc = "recv" /\ loop'.pc = "lock" /\ loop'.task = task[c]
        /\ \A d \in Call : d # c => call'[d] = call[d]
    BY <1>3 DEF AddModifyTask, GrubInv, GrubTypes, fileVars, boundVars, grubHist
  <2>2. AuthWindow => AuthWindow'
    <3>1. CASE Op[c].method = "EditAuth"
      <4>1. AuthTask(loop'.task)
        BY <2>1, <3>1, AuthTaskNoTask DEF GrubInv, AuthTasks
      <4> QED
        BY <2>1, <4>1 DEF AuthWindow, AuthTask
    <3>2. CASE Op[c].method # "EditAuth"
      BY <2>1, <3>2 DEF AuthWindow, AuthTask
    <3> QED
      BY <3>1, <3>2
  <2> QED
    BY <2>1, <2>2 DEF GrubInv, StaleMeansWork, ReadOwed, Redoing, LogOpen, IsJobDone
<1> QED
  BY <1>1, <1>2, <1>3 DEF CallStep

LEMMA StaleNext ==
  ASSUME GrubInv, [GrubNext]_grubVars
  PROVE  StaleMeansWork'
<1>1. CASE LoopTask
  <2>1. UNCHANGED <<params, auth, seen, log, call, update, excused, proc>>
    BY <1>1 DEF LoopTask, callVars, fileVars, boundVars, grubHist
  <2>2. CASE running
    <3>1. /\ modifyTasks' = Append(modifyTasks, loop.task) /\ loop' = Receiving
          /\ starting' = starting /\ mu = "free" /\ loop.pc = "lock"
      BY <1>1, <2>2 DEF LoopTask
    <3>2. AuthWindow => AuthWindow'
      <4>1. modifyTasks \in Seq(TaskType) /\ loop.task \in TaskType
        BY DEF GrubInv, GrubTypes
      <4>2. /\ Len(modifyTasks') = Len(modifyTasks) + 1
            /\ modifyTasks'[Len(modifyTasks) + 1] = loop.task
            /\ \A i \in 1..Len(modifyTasks) : modifyTasks'[i] = modifyTasks[i]
        BY <3>1, <4>1
      <4>3. CASE AuthTask(loop.task)
        <5>1. Len(modifyTasks) + 1 \in 1..Len(modifyTasks')
          BY <4>1, <4>2
        <5> QED
          BY <5>1, <4>2, <4>3 DEF AuthWindow, AuthTask
      <4>4. CASE \E i \in 1..Len(modifyTasks) : AuthTask(modifyTasks[i])
        <5>1. PICK i \in 1..Len(modifyTasks) : AuthTask(modifyTasks[i])
          BY <4>4
        <5>2. i \in 1..Len(modifyTasks') /\ AuthTask(modifyTasks'[i])
          BY <5>1, <4>1, <4>2
        <5> QED
          BY <5>2 DEF AuthWindow, AuthTask
      <4> QED
        BY <2>1, <4>3, <4>4 DEF AuthWindow
    <3>3. ~excused => update # "none"
      BY <2>2, <3>1 DEF GrubInv, GrubControl, RunningMeansUpdate, Phases
    <3> QED
      BY <2>1, <3>1, <3>2, <3>3 DEF GrubInv, StaleMeansWork, ReadOwed, Redoing, LogOpen, IsJobDone
  <2>3. CASE ~running
    <3>1. /\ modifyTasks' = modifyTasks /\ loop' = [loop EXCEPT !.pc = "start"]
          /\ loop.pc = "lock" /\ mu = "free"
      BY <1>1, <2>3 DEF LoopTask
    <3>2. loop'.pc = "start" /\ loop'.task = loop.task
      BY <3>1 DEF GrubInv, GrubTypes
    <3>3. AuthWindow => AuthWindow'
      BY <2>1, <3>1, <3>2 DEF AuthWindow, AuthTask
    <3>4. starting.pc = "none"
      BY <3>1 DEF GrubInv, GrubControl, Phases
    <3> QED
      BY <2>1, <3>1, <3>2, <3>3, <3>4 DEF GrubInv, StaleMeansWork, ReadOwed, Redoing, LogOpen, IsJobDone
  <2> QED
    BY <2>2, <2>3 DEF GrubInv, GrubTypes
<1>2. CASE StartWriteFails
  BY <1>2 DEF StartWriteFails, StaleMeansWork
<1>3. CASE StartWrite \/ \E inhibited \in BOOLEAN : LogStart(inhibited)
  <2>1. starting'.pc \in {"logStart", "notify"} /\ proc' = "up"
    BY <1>3 DEF StartWrite, LogStart, boundVars, GrubInv, GrubTypes
  <2> QED
    BY <2>1 DEF StaleMeansWork
<1>4. CASE StartUpdate
  <2>1. update' \in BeforeRead /\ proc' = "up"
    BY <1>4 DEF StartUpdate, StartReturns, boundVars, BeforeRead
  <2> QED
    BY <2>1 DEF StaleMeansWork
<1>5. CASE AdjustThemeStart \/ AdjustThemeEnd \/ MkConfigStart
  <2>1. update' \in BeforeRead /\ proc' = "up"
    BY <1>5 DEF AdjustThemeStart, AdjustThemeEnd, MkConfigStart, LogJob, UpdateStep, boundVars,
                BeforeRead
  <2> QED
    BY <2>1 DEF StaleMeansWork
<1>6. CASE RunUpdateGrub
  BY <1>6 DEF RunUpdateGrub, StaleMeansWork, ReadOwed
<1>7. CASE MkConfigEnd \/ UpdateEnd \/ NotifyStopped
  <2>1. /\ UNCHANGED <<params, auth, seen, call, loop, modifyTasks, excused, proc>>
        /\ update \in {"made", "end", "stopped"}
        /\ starting' = starting \/ starting.pc = "none"
    BY <1>7 DEF MkConfigEnd, UpdateEnd, NotifyStopped, LogJob, UpdateStep, callVars, manVars,
                fileVars, boundVars, grubHist, GrubInv, GrubControl, Phases
  <2>2. AuthWindow => AuthWindow'
    BY <2>1 DEF AuthWindow, AuthTask
  <2> QED
    BY <2>1, <2>2 DEF GrubInv, StaleMeansWork, ReadOwed, Redoing, BeforeRead, GrubControl, DownIsReset
<1>8. CASE Crash
  <2>1. /\ UNCHANGED <<params, auth, seen, log>> /\ proc = "up" /\ proc' = "down"
        /\ ~excused' => ~excused /\ ~StartWindow /\ (AuthWindow => LogOpen)
    BY <1>8 DEF Crash, fileVars
  <2> QED
    BY <2>1 DEF GrubInv, StaleMeansWork, ReadOwed, Redoing, StartWindow, LogFollows, LogOpen,
                IsJobDone, NoLog
<1>9. CASE NewGrub2
  <2>1. /\ UNCHANGED <<params, auth, seen, log, update, excused>>
        /\ proc = "down" /\ proc' = "up"
        /\ LogOpen => loop'.pc = "lock"
    BY <1>9 DEF NewGrub2, fileVars, grubHist
  <2> QED
    BY <2>1 DEF GrubInv, StaleMeansWork, ReadOwed, Redoing, LogOpen, IsJobDone, GrubControl, DownIsReset
<1>10. CASE UNCHANGED grubVars
  BY <1>10 DEF grubVars, callVars, manVars, fileVars, boundVars, grubHist, GrubInv, StaleMeansWork,
               ReadOwed, Redoing, LogOpen, IsJobDone, AuthWindow, AuthTask
<1> QED
  BY <1>1, <1>2, <1>3, <1>4, <1>5, <1>6, <1>7, <1>8, <1>9, <1>10, StaleCalls
     DEF GrubNext, StartStep, UpdateGoroutine

LEMMA OwedNext ==
  ASSUME GrubInv, [GrubNext]_grubVars
  PROVE  OwedMeansWork'
<1>1. CASE \E c \in Call : SetProp(c) \/ Reset(c) \/ \E fails \in BOOLEAN : SaveUserAuthInfo(c, fails)
  <2>1. UNCHANGED <<log, loop, starting, update, themeOwed, excused, proc>>
    BY <1>1 DEF SetProp, Reset, SaveUserAuthInfo, manVars, fileVars, boundVars, grubHist
  <2> QED
    BY <2>1 DEF GrubInv, OwedMeansWork, Redoing, LogOpen, IsJobDone, HasJob, ThemeJobOpen
<1>2. CASE \E c \in Call : AddModifyTask(c)
  <2>1. /\ UNCHANGED <<log, starting, update, themeOwed, excused, proc>>
        /\ loop.pc = "recv" /\ proc = "up"
    BY <1>2 DEF AddModifyTask, fileVars, boundVars, grubHist
  <2> QED
    BY <2>1 DEF GrubInv, OwedMeansWork, Redoing
<1>3. CASE LoopTask
  <2>1. /\ UNCHANGED <<log, update, themeOwed, excused, proc>>
        /\ mu = "free" /\ loop.pc = "lock" /\ proc = "up"
    BY <1>3 DEF LoopTask, fileVars, boundVars, grubHist
  <2>2. starting.pc = "none"
    BY <2>1 DEF GrubInv, GrubControl, Phases
  <2>3. CASE running
    <3>1. ~excused => update # "none"
      BY <2>2, <2>3 DEF GrubInv, GrubControl, RunningMeansUpdate
    <3> QED
      BY <2>1, <2>2, <3>1 DEF GrubInv, OwedMeansWork, Redoing
  <2>4. CASE ~running
    <3>1. loop' = [loop EXCEPT !.pc = "start"] /\ starting'.pc = "write"
      BY <1>3, <2>4 DEF LoopTask
    <3>2. loop'.pc = "start" /\ loop'.task = loop.task
      BY <3>1 DEF GrubInv, GrubTypes
    <3> QED
      BY <2>1, <2>2, <3>1, <3>2 DEF GrubInv, OwedMeansWork, Redoing, LogOpen, IsJobDone, HasJob,
         ThemeJobOpen
  <2> QED
    BY <2>3, <2>4
<1>4. CASE StartWriteFails
  BY <1>4 DEF StartWriteFails, OwedMeansWork
<1>5. CASE StartWrite
  <2>1. /\ UNCHANGED <<update, themeOwed, excused, proc>> /\ proc = "up"
        /\ starting.pc = "write" /\ starting'.pc = "logStart"
        /\ starting'.theme = \E i \in 1..Len(StartTasks) : StartTasks[i].theme
    BY <1>5 DEF StartWrite, boundVars, grubHist
  <2>2. update \notin {"theme", "adjusting"}
    BY <2>1 DEF GrubInv, GrubControl, Phases
  <2>3. ASSUME Redoing, loop.task.theme PROVE starting'.theme
    <3>1. mu = "loop"
      BY <2>1, <2>3 DEF GrubInv, GrubControl, Phases, Redoing
    <3>2. StartTasks = <<loop.task>>
      BY <3>1 DEF StartTasks
    <3>3. 1 \in 1..Len(StartTasks) /\ StartTasks[1] = loop.task
      BY <3>2
    <3> QED
      BY <2>1, <2>3, <3>3
  <2> QED
    BY <2>1, <2>2, <2>3 DEF GrubInv, OwedMeansWork
<1>6. CASE \E inhibited \in BOOLEAN : LogStart(inhibited)
  <2>1. /\ UNCHANGED <<update, excused, proc>> /\ proc = "up"
        /\ themeOwed' = (themeOwed \/ starting.theme)
        /\ starting.pc = "logStart" /\ starting' = [starting EXCEPT !.pc = "notify"]
    BY <1>6 DEF LogStart, boundVars
  <2>2. starting'.pc = "notify" /\ starting'.theme = starting.theme
    BY <2>1 DEF GrubInv, GrubTypes
  <2>3. update \notin {"theme", "adjusting"}
    BY <2>1 DEF GrubInv, GrubControl, Phases
  <2>4. themeOwed /\ ~excused => starting.theme
    BY <2>1, <2>3 DEF GrubInv, OwedMeansWork
  <2> QED
    BY <2>1, <2>2, <2>4 DEF OwedMeansWork
<1>7. CASE StartUpdate
  <2>1. /\ UNCHANGED <<themeOwed, excused, proc>> /\ proc = "up"
        /\ starting.pc = "notify"
        /\ update' = IF starting.theme THEN "theme" ELSE "mkconfig"
    BY <1>7 DEF StartUpdate, StartReturns, boundVars, grubHist
  <2>2. update \notin {"theme", "adjusting"}
    BY <2>1 DEF GrubInv, GrubControl, Phases
  <2> QED
    BY <2>1, <2>2 DEF GrubInv, OwedMeansWork
<1>8. CASE AdjustThemeStart \/ AdjustThemeEnd
  <2>1. proc' = "up" /\ (update' = "adjusting" \/ ~themeOwed')
    BY <1>8 DEF AdjustThemeStart, AdjustThemeEnd, LogJob, UpdateStep, boundVars
  <2> QED
    BY <2>1 DEF OwedMeansWork
<1>9. CASE MkConfigStart \/ RunUpdateGrub \/ MkConfigEnd \/ UpdateEnd \/ NotifyStopped
  <2>1. /\ UNCHANGED <<themeOwed, excused, proc>> /\ proc = "up"
        /\ update \in {"mkconfig", "read", "made", "end", "stopped"}
    BY <1>9 DEF MkConfigStart, RunUpdateGrub, MkConfigEnd, UpdateEnd, NotifyStopped, LogJob,
                UpdateStep, boundVars, grubHist
  <2>2. starting.pc = "none"
    BY <2>1 DEF GrubInv, GrubControl, Phases
  <2> QED
    BY <2>1, <2>2 DEF GrubInv, OwedMeansWork, Redoing
<1>10. CASE Crash
  <2>1. /\ UNCHANGED <<log, themeOwed>> /\ proc = "up" /\ proc' = "down"
        /\ ~excused' => ~excused /\ ~StartWindow /\ ~ThemeWindow
    BY <1>10 DEF Crash, fileVars
  <2>2. ~excused' /\ themeOwed => HasJob("adjustThemeStart") /\ starting.pc # "logStart"
    BY <2>1 DEF StartWindow, ThemeWindow
  <2>3. starting.pc = "notify" \/ update = "theme" => ~HasJob("adjustThemeStart")
    BY DEF GrubInv, LogFollows, HasJob
  <2>4. update = "adjusting" => LogOpen /\ ~IsJobDone("adjustThemeEnd")
    BY DEF GrubInv, LogFollows, IsJobDone, LogOpen, BeforeRead
  <2> QED
    BY <2>1, <2>2, <2>3, <2>4 DEF GrubInv, OwedMeansWork, Redoing, LogOpen, IsJobDone, HasJob, ThemeJobOpen
<1>11. CASE NewGrub2
  <2>1. /\ UNCHANGED <<log, update, starting, themeOwed, excused>>
        /\ proc = "down" /\ proc' = "up"
        /\ LogOpen => loop' = [pc |-> "lock", task |-> Task({}, ThemeJobOpen)]
    BY <1>11 DEF NewGrub2, fileVars, grubHist, ThemeJobOpen
  <2>2. ThemeJobOpen /\ LogOpen => loop'.pc = "lock" /\ loop'.task.theme
    BY <2>1 DEF Task
  <2> QED
    BY <2>1, <2>2 DEF GrubInv, OwedMeansWork, Redoing, LogOpen, IsJobDone, HasJob, ThemeJobOpen,
       GrubControl, DownIsReset, NotStarting
<1>12. CASE UNCHANGED grubVars
  BY <1>12 DEF grubVars, callVars, manVars, fileVars, boundVars, grubHist, GrubInv, OwedMeansWork,
               Redoing, LogOpen, IsJobDone, HasJob, ThemeJobOpen
<1> QED
  BY <1>1, <1>2, <1>3, <1>4, <1>5, <1>6, <1>7, <1>8, <1>9, <1>10, <1>11, <1>12
     DEF GrubNext, CallStep, StartStep, UpdateGoroutine

LEMMA GrubInvariant == GrubSpec => []GrubInv
<1>1. GrubInit => GrubInv
  <2> SUFFICES ASSUME GrubInit PROVE GrubInv
    OBVIOUS
  <2>1. GrubTypes
    BY GrubInitTypes
  <2>2. GrubControl
    BY DEF GrubInit, GrubControl, Phases, RunningMeansUpdate, QueueServed, DownIsReset,
           Receiving, NotStarting, Active, BeforeRead
  <2>3. LogFollows /\ AuthTasks
    BY DEF GrubInit, LogFollows, AuthTasks, NotStarting, BeforeRead
  <2>4. StaleMeansWork /\ OwedMeansWork
    BY DEF GrubInit, StaleMeansWork, OwedMeansWork, ReadOwed
  <2> QED
    BY <2>1, <2>2, <2>3, <2>4 DEF GrubInv
<1>2. GrubInv /\ [GrubNext]_grubVars => GrubInv'
  BY GrubNextTypes, GrubControlNext, LogNext, AuthTasksNext, StaleNext, OwedNext DEF GrubInv
<1> QED
  BY <1>1, <1>2, PTL DEF GrubSpec

(* The loop and the update goroutine never write the parameter file while  *)
(* an update may be reading it: start runs with mu and either nothing is   *)
(* running or the update itself, at its end, runs it.                      *)
THEOREM ParamsStableDuringUpdate == GrubSpec => NoWriteDuringUpdate
<1> DEFINE Stable == update \in {"theme", "adjusting", "mkconfig", "read", "made"} => params' = params
<1>1. GrubInv /\ [GrubNext]_grubVars => [Stable]_grubVars
  <2> SUFFICES ASSUME GrubInv, GrubNext PROVE Stable
    BY DEF Stable
  <2>1. CASE StartWrite
    BY <2>1 DEF StartWrite, GrubInv, GrubControl, Phases
  <2>2. ASSUME ~StartWrite PROVE params' = params
    BY <2>2 DEF GrubNext, CallStep, SetProp, Reset, SaveUserAuthInfo, AddModifyTask, LoopTask,
       StartStep, StartWriteFails, LogStart, StartUpdate, UpdateGoroutine, AdjustThemeStart,
       AdjustThemeEnd, MkConfigStart, RunUpdateGrub, MkConfigEnd, UpdateEnd, NotifyStopped,
       Crash, NewGrub2, fileVars
  <2> QED
    BY <2>1, <2>2
<1> QED
  BY <1>1, GrubInvariant, PTL DEF GrubSpec, NoWriteDuringUpdate

(* A service at rest has given back the inhibitor and says that it is not  *)
(* updating, unless a write of the parameter file has failed: for any      *)
(* calls, queued in any order, and any number of crashes.                  *)
THEOREM InhibitorAlwaysGivenBack == GrubSpec => []InhibitorGivenBack
<1>1. GrubInv => InhibitorGivenBack
  BY DEF GrubInv, GrubControl, Phases, RunningMeansUpdate, InhibitorGivenBack, AtRest
<1> QED
  BY <1>1, GrubInvariant, PTL

(* A service at rest has made grub.cfg from the files as they are and has  *)
(* adjusted the theme if it was asked to, after any number of crashes at   *)
(* any point where the log can tell what was left to do.                   *)
THEOREM GrubCfgAlwaysCurrent == GrubSpec => []GrubCfgCurrent
<1>1. GrubInv => GrubCfgCurrent
  <2> SUFFICES ASSUME GrubInv, AtRest, ~excused PROVE ~ReadOwed /\ ~themeOwed
    BY DEF GrubCfgCurrent, ReadOwed
  <2>1. modifyTasks = <<>>
    BY DEF GrubInv, GrubControl, QueueServed, RunningMeansUpdate, AtRest, Active, BeforeRead
  <2>2. starting.pc = "none"
    BY DEF GrubInv, GrubControl, Phases, AtRest
  <2>3. ~AuthWindow
    BY <2>1 DEF AtRest, AuthWindow
  <2> QED
    BY <2>2, <2>3 DEF GrubInv, StaleMeansWork, OwedMeansWork, Redoing, AtRest, BeforeRead
<1> QED
  BY <1>1, GrubInvariant, PTL

-----------------------------------------------------------------------------
(* The properties and the parameter file.                                  *)

Sets(t, k) == \E v \in Value : <<k, v>> \in t.set
SetBy(t, k) == {v \in Value : <<k, v>> \in t.set}

LEMMA LastSetEmpty == \A k : LastSet(<<>>, k) = {}
BY DEF LastSet

\* What one more task changes.
LEMMA LastSetAppend ==
  ASSUME NEW ts \in Seq(TaskType), NEW t \in TaskType, NEW k
  PROVE  LastSet(Append(ts, t), k) = IF Sets(t, k) THEN SetBy(t, k) ELSE LastSet(ts, k)
<1> DEFINE us == Append(ts, t)
           n  == Len(ts)
<1>1. /\ n \in Nat /\ Len(us) = n + 1 /\ us[n + 1] = t
      /\ \A i \in 1..n : us[i] = ts[i]
  OBVIOUS
<1> HIDE DEF us, n
<1>2. ASSUME NEW v \in Value
      PROVE  v \in LastSet(us, k) <=> \/ <<k, v>> \in t.set
                                      \/ ~Sets(t, k) /\ v \in LastSet(ts, k)
  <2>1. ASSUME <<k, v>> \in t.set PROVE v \in LastSet(us, k)
    <3>1. n + 1 \in 1..Len(us) /\ <<k, v>> \in us[n + 1].set
      BY <1>1, <2>1
    <3>2. \A j \in (n + 1 + 1)..Len(us) : FALSE
      BY <1>1
    <3> QED
      BY <3>1, <3>2 DEF LastSet
  <2>2. ASSUME ~Sets(t, k), v \in LastSet(ts, k) PROVE v \in LastSet(us, k)
    <3>1. PICK i \in 1..n : /\ <<k, v>> \in ts[i].set
                            /\ \A j \in (i + 1)..n : \A w \in Value : <<k, w>> \notin ts[j].set
      BY <2>2 DEF LastSet, n
    <3>2. \A j \in (i + 1)..Len(us) : \A w \in Value : <<k, w>> \notin us[j].set
      <4>1. ASSUME NEW j \in (i + 1)..Len(us), NEW w \in Value PROVE <<k, w>> \notin us[j].set
        <5>1. CASE j = n + 1
          BY <5>1, <1>1, <2>2 DEF Sets
        <5>2. CASE j \in (i + 1)..n
          BY <5>2, <1>1, <3>1
        <5> QED
          BY <5>1, <5>2, <1>1, <3>1
      <4> QED
        BY <4>1
    <3>3. i \in 1..Len(us) /\ <<k, v>> \in us[i].set
      BY <1>1, <3>1
    <3> QED
      BY <3>2, <3>3 DEF LastSet
  <2>3. ASSUME v \in LastSet(us, k), <<k, v>> \notin t.set
        PROVE  ~Sets(t, k) /\ v \in LastSet(ts, k)
    <3>1. PICK i \in 1..Len(us) :
            /\ <<k, v>> \in us[i].set
            /\ \A j \in (i + 1)..Len(us) : \A w \in Value : <<k, w>> \notin us[j].set
      BY <2>3 DEF LastSet
    <3>2. i \in 1..n
      BY <1>1, <2>3, <3>1
    <3>3. n + 1 \in (i + 1)..Len(us) /\ \A j \in (i + 1)..n : j \in (i + 1)..Len(us) /\ us[j] = ts[j]
      BY <1>1, <3>2
    <3>4. ~Sets(t, k)
      BY <1>1, <3>1, <3>3 DEF Sets
    <3>5. /\ <<k, v>> \in ts[i].set
          /\ \A j \in (i + 1)..n : \A w \in Value : <<k, w>> \notin ts[j].set
      BY <1>1, <3>1, <3>2, <3>3
    <3> QED
      BY <3>2, <3>4, <3>5 DEF LastSet, n
  <2> QED
    BY <2>1, <2>2, <2>3
<1>3. LastSet(us, k) \subseteq Value /\ LastSet(ts, k) \subseteq Value
  BY DEF LastSet
<1>4. CASE Sets(t, k)
  BY <1>2, <1>3, <1>4 DEF SetBy, us
<1>5. CASE ~Sets(t, k)
  BY <1>2, <1>3, <1>5 DEF Sets, us
<1> QED
  BY <1>4, <1>5

LEMMA ModifiedEmpty ==
  ASSUME NEW p \in [Key -> Value]
  PROVE  Modified(p, <<>>) = p
BY LastSetEmpty DEF Modified

LEMMA ModifiedAppend ==
  ASSUME NEW p \in [Key -> Value], NEW ts \in Seq(TaskType), NEW t \in TaskType, NEW k \in Key
  PROVE  Modified(p, Append(ts, t))[k] =
           IF Sets(t, k) THEN CHOOSE v \in SetBy(t, k) : TRUE ELSE Modified(p, ts)[k]
<1>1. Sets(t, k) => SetBy(t, k) # {}
  BY DEF Sets, SetBy
<1>2. LastSet(Append(ts, t), k) = IF Sets(t, k) THEN SetBy(t, k) ELSE LastSet(ts, k)
  BY LastSetAppend
<1>3. CASE Sets(t, k)
  BY <1>1, <1>2, <1>3 DEF Modified
<1>4. CASE ~Sets(t, k)
  BY <1>2, <1>4 DEF Modified
<1> QED
  BY <1>3, <1>4

\* Tasks that have been applied may be applied again.
LEMMA ModifiedTwice ==
  ASSUME NEW p \in [Key -> Value], NEW ts
  PROVE  Modified(Modified(p, ts), ts) = Modified(p, ts)
BY DEF Modified

LEMMA HolderNext ==
  ASSUME GrubInv, HolderSends, [GrubNext]_grubVars
  PROVE  HolderSends'
<1>0. "free" \notin Call /\ call \in [Call -> CallState] /\ task \in [Call -> TaskType]
  BY GrubAssumption DEF GrubInv, GrubTypes
<1>1. CASE \E c \in Call : SetProp(c)
  <2>1. PICK c \in Call : SetProp(c)
    BY <1>1
  <2>2. /\ propsMu = "free" /\ Op[c].method = "Set"
        /\ propsMu' = IF prop[Op[c].key] = Op[c].value THEN "free" ELSE c
        /\ call' = [call EXCEPT ![c] = IF prop[Op[c].key] = Op[c].value THEN "done" ELSE "send"]
        /\ task' = [task EXCEPT ![c] = Task({<<Op[c].key, Op[c].value>>},
                                            AdjustsTheme(Op[c].key, Op[c].value))]
    BY <2>1 DEF SetProp, Called
  <2>3. task'[c].set = {<<Op[c].key, Op[c].value>>}
    BY <1>0, <2>2 DEF Task
  <2> QED
    BY <1>0, <2>2, <2>3 DEF HolderSends
<1>2. CASE \E c \in Call : Reset(c) \/ \E fails \in BOOLEAN : SaveUserAuthInfo(c, fails)
  <2>1. PICK c \in Call : /\ Op[c].method # "Set"
                          /\ UNCHANGED propsMu
                          /\ \A d \in Call : d # c => call'[d] = call[d] /\ task'[d] = task[d]
    BY <1>0, <1>2 DEF Reset, SaveUserAuthInfo, Called
  <2> QED
    BY <2>1 DEF HolderSends
<1>3. CASE \E c \in Call : AddModifyTask(c)
  <2>1. PICK c \in Call : AddModifyTask(c)
    BY <1>3
  <2>2. /\ call' = [call EXCEPT ![c] = "done"] /\ task' = task
        /\ propsMu' = IF propsMu = c THEN "free" ELSE propsMu
    BY <2>1 DEF AddModifyTask
  <2> QED
    BY <1>0, <2>2 DEF HolderSends
<1>4. CASE Crash
  <2>1. propsMu' = "free" /\ task' = task /\ \A c \in Call : call'[c] # "send"
    BY <1>4 DEF Crash
  <2> QED
    BY <1>0, <2>1 DEF HolderSends
<1>5. ASSUME ~\E c \in Call : CallStep(c), ~Crash
      PROVE  UNCHANGED <<propsMu, call, task>>
  BY <1>5 DEF GrubNext, LoopTask, StartStep, StartWriteFails, StartWrite, LogStart, StartUpdate,
     UpdateGoroutine, AdjustThemeStart, AdjustThemeEnd, MkConfigStart, RunUpdateGrub,
     MkConfigEnd, UpdateEnd, NotifyStopped, NewGrub2, grubVars, callVars
<1> QED
  BY <1>1, <1>2, <1>3, <1>4, <1>5 DEF CallStep, HolderSends

LEMMA WrittenNext ==
  ASSUME GrubInv, TasksWritten, [GrubNext]_grubVars
  PROVE  TasksWritten'
<1>0. params \in [Key -> Value]
  BY DEF GrubInv, GrubTypes
<1>1. CASE StartWrite
  <2>1. params' = Modified(params, StartTasks) /\ StartTasks' = StartTasks
    BY <1>1 DEF StartWrite, StartTasks
  <2> QED
    BY <1>0, <2>1, ModifiedTwice DEF TasksWritten
<1>2. CASE \E inhibited \in BOOLEAN : LogStart(inhibited)
  <2>1. UNCHANGED <<params, mu, loop, modifyTasks>> /\ starting.pc = "logStart"
    BY <1>2 DEF LogStart
  <2> QED
    BY <2>1 DEF TasksWritten, StartTasks
<1>3. CASE \E c \in Call : AddModifyTask(c)
  <2>1. UNCHANGED <<params, mu, modifyTasks, starting>> /\ loop.pc = "recv"
    BY <1>3 DEF AddModifyTask, fileVars
  <2>2. mu # "loop"
    BY <2>1 DEF GrubInv, GrubControl, Phases
  <2> QED
    BY <2>1, <2>2 DEF TasksWritten, StartTasks
<1>4. CASE LoopTask
  <2>1. mu = "free" /\ (starting' = starting \/ starting'.pc = "write")
    BY <1>4 DEF LoopTask
  <2> QED
    BY <2>1 DEF TasksWritten, GrubInv, GrubControl, Phases
<1>5. CASE StartWriteFails \/ StartUpdate \/ UpdateEnd \/ NotifyStopped \/ Crash \/ NewGrub2
  <2>1. starting'.pc \in {"none", "write"}
    BY <1>5 DEF StartWriteFails, StartUpdate, UpdateEnd, NotifyStopped, Crash, NewGrub2, StartReturns,
       UpdateStep, NotStarting, GrubInv, GrubControl, Phases, DownIsReset
  <2> QED
    BY <2>1 DEF TasksWritten
<1>6. CASE \/ \E c \in Call : \/ SetProp(c) \/ Reset(c)
                              \/ \E fails \in BOOLEAN : SaveUserAuthInfo(c, fails)
           \/ AdjustThemeStart \/ AdjustThemeEnd \/ MkConfigStart \/ RunUpdateGrub \/ MkConfigEnd
           \/ UNCHANGED grubVars
  <2>1. UNCHANGED <<params, mu, loop, modifyTasks, starting>>
    BY <1>6 DEF SetProp, Reset, SaveUserAuthInfo, AdjustThemeStart, AdjustThemeEnd, MkConfigStart,
       RunUpdateGrub, MkConfigEnd, LogJob, grubVars, manVars, fileVars
  <2> QED
    BY <2>1 DEF TasksWritten, StartTasks
<1> QED
  BY <1>1, <1>2, <1>3, <1>4, <1>5, <1>6 DEF GrubNext, CallStep, StartStep, UpdateGoroutine

LEMMA NoResetBefore ==
  ASSUME GrubInv, [GrubNext]_grubVars, NoReset'
  PROVE  NoReset
<1>1. CASE \E c \in Call : CallStep(c)
  <2>1. PICK c \in Call : CallStep(c)
    BY <1>1
  <2>2. \A d \in Call : call'[d] = "idle" => call[d] = "idle"
    BY <2>1 DEF CallStep, SetProp, Reset, SaveUserAuthInfo, AddModifyTask, Called, GrubInv, GrubTypes
  <2> QED
    BY <2>2 DEF NoReset
<1>2. CASE Crash
  BY <1>2 DEF Crash, NoReset
<1>3. ASSUME ~\E c \in Call : CallStep(c), ~Crash
      PROVE  call' = call
  BY <1>3 DEF GrubNext, LoopTask, StartStep, StartWriteFails, StartWrite, LogStart, StartUpdate,
     UpdateGoroutine, AdjustThemeStart, AdjustThemeEnd, MkConfigStart, RunUpdateGrub,
     MkConfigEnd, UpdateEnd, NotifyStopped, NewGrub2, grubVars, callVars
<1> QED
  BY <1>1, <1>2, <1>3 DEF NoReset

LEMMA OnTheWayIs ==
  ASSUME GrubInv
  PROVE  /\ loop.pc = "recv" => OnTheWay = modifyTasks
         /\ loop.pc # "recv" => OnTheWay = Append(modifyTasks, loop.task)
<1>1. modifyTasks \in Seq(TaskType) /\ loop.task \in TaskType
  BY DEF GrubInv, GrubTypes
<1> QED
  BY <1>1 DEF OnTheWay

\* A setter sends what it has published; the tasks of others set nothing.
LEMMA AheadSend ==
  ASSUME PropsInv, NEW c \in Call, AddModifyTask(c)
  PROVE  PropsAhead'
<1>0. "free" \notin Call /\ Op[c].method \in Method /\ Op[c].key \in Key /\ Op[c].value \in Value
  BY GrubAssumption
<1>1. /\ params \in [Key -> Value] /\ modifyTasks \in Seq(TaskType) /\ task[c] \in TaskType
      /\ call \in [Call -> CallState]
  BY DEF PropsInv, GrubInv, GrubTypes
<1>2. /\ UNCHANGED <<prop, params, modifyTasks, writeFails>> /\ proc = "up"
      /\ loop.pc = "recv" /\ call[c] = "send"
      /\ loop' = [pc |-> "lock", task |-> task[c]]
      /\ propsMu' = IF propsMu = c THEN "free" ELSE propsMu
      /\ call' = [call EXCEPT ![c] = "done"]
  BY DEF AddModifyTask, fileVars, boundVars
<1>3. OnTheWay = modifyTasks /\ OnTheWay' = Append(modifyTasks, task[c])
  BY <1>1, <1>2 DEF OnTheWay
<1> SUFFICES ASSUME writeFails = 0, NoReset', NEW k \in Key
             PROVE  prop[k] = IF propsMu' # "free" /\ Op[propsMu'].key = k
                                THEN Op[propsMu'].value
                                ELSE Modified(params, Append(modifyTasks, task[c]))[k]
  BY <1>2, <1>3 DEF PropsAhead
<1>4. Op[c].method # "Reset"
  BY <1>1, <1>2 DEF NoReset
<1>5. prop[k] = IF propsMu # "free" /\ Op[propsMu].key = k
                  THEN Op[propsMu].value ELSE Modified(params, modifyTasks)[k]
  <2>1. NoReset
    BY <1>1, <1>2 DEF NoReset
  <2> QED
    BY <1>2, <1>3, <2>1 DEF PropsInv, PropsAhead
<1>6. Modified(params, Append(modifyTasks, task[c]))[k] =
        IF Sets(task[c], k) THEN CHOOSE v \in SetBy(task[c], k) : TRUE
        ELSE Modified(params, modifyTasks)[k]
  BY <1>1, ModifiedAppend
<1>7. CASE Op[c].method = "Set"
  <2>1. propsMu = c /\ task[c].set = {<<Op[c].key, Op[c].value>>}
    BY <1>2, <1>7 DEF PropsInv, HolderSends
  <2>2. Sets(task[c], k) <=> k = Op[c].key
    BY <1>0, <2>1 DEF Sets
  <2>3. k = Op[c].key => SetBy(task[c], k) = {Op[c].value}
    BY <1>0, <2>1 DEF SetBy
  <2>4. (CHOOSE v \in {Op[c].value} : TRUE) = Op[c].value
    OBVIOUS
  <2>5. propsMu' = "free"
    BY <1>2, <2>1
  <2>6. CASE k = Op[c].key
    BY <1>0, <1>5, <1>6, <2>1, <2>2, <2>3, <2>4, <2>5, <2>6
  <2>7. CASE k # Op[c].key
    BY <1>0, <1>5, <1>6, <2>1, <2>2, <2>5, <2>7
  <2> QED
    BY <2>6, <2>7
<1>8. CASE Op[c].method = "EditAuth"
  <2>1. task[c].set = {}
    BY <1>8 DEF PropsInv, GrubInv, AuthTasks, NoTask, Task
  <2>2. propsMu # c
    BY <1>8 DEF PropsInv, HolderSends
  <2> QED
    BY <1>2, <1>5, <1>6, <2>1, <2>2 DEF Sets
<1> QED
  BY <1>0, <1>4, <1>7, <1>8 DEF Method

\* Writing the tasks, and dropping them once they are written, changes
\* nothing of what the file is going to say.
LEMMA AheadStart ==
  ASSUME PropsInv, StartStep
  PROVE  PropsAhead'
<1>0. /\ params \in [Key -> Value] /\ modifyTasks \in Seq(TaskType) /\ loop.task \in TaskType
      /\ params' \in [Key -> Value] /\ modifyTasks' \in Seq(TaskType) /\ loop'.task \in TaskType
  BY StartTypes DEF PropsInv, GrubInv, GrubTypes
<1>1. CASE StartWriteFails
  BY <1>1 DEF StartWriteFails, PropsAhead, PropsInv, GrubInv, GrubTypes
<1>2. ASSUME writeFails = 0, mu = "loop" PROVE modifyTasks = <<>>
  BY <1>2 DEF PropsInv, GrubInv, GrubControl, QueueServed, Phases, Active, BeforeRead
<1>3. starting.pc # "none" => mu \in {"loop", "update"} /\ (mu = "loop" <=> loop.pc = "start")
  BY DEF PropsInv, GrubInv, GrubControl, Phases
<1>4. PropsAhead /\ GrubInv
  BY DEF PropsInv
<1>5. CASE StartWrite
  <2>1. /\ UNCHANGED <<prop, propsMu, call, writeFails, loop, modifyTasks>> /\ proc = "up"
        /\ params' = Modified(params, StartTasks) /\ starting.pc = "write"
    BY <1>5 DEF StartWrite, callVars, boundVars
  <2>2. OnTheWay' = OnTheWay
    BY <2>1 DEF OnTheWay
  <2>3. ASSUME writeFails = 0, NEW k \in Key
        PROVE  Modified(params', OnTheWay)[k] = Modified(params, OnTheWay)[k]
    <3>1. CASE OnTheWay = StartTasks
      BY <1>0, <2>1, <3>1, ModifiedTwice
    <3>2. CASE OnTheWay = Append(StartTasks, loop.task) /\ StartTasks \in Seq(TaskType)
      <4>1. Modified(params', StartTasks)[k] = Modified(params, StartTasks)[k]
        BY <1>0, <2>1, ModifiedTwice
      <4>2. /\ Modified(params', OnTheWay)[k] =
                 IF Sets(loop.task, k) THEN CHOOSE v \in SetBy(loop.task, k) : TRUE
                 ELSE Modified(params', StartTasks)[k]
            /\ Modified(params, OnTheWay)[k] =
                 IF Sets(loop.task, k) THEN CHOOSE v \in SetBy(loop.task, k) : TRUE
                 ELSE Modified(params, StartTasks)[k]
        BY <1>0, <3>2, ModifiedAppend
      <4> QED
        BY <4>1, <4>2
    <3>3. mu = "loop" => OnTheWay = StartTasks
      <4> SUFFICES ASSUME mu = "loop" PROVE OnTheWay = StartTasks
        OBVIOUS
      <4>1. modifyTasks = <<>> /\ loop.pc = "start"
        BY <1>2, <1>3, <2>1, <2>3
      <4> QED
        BY <1>0, <4>1 DEF OnTheWay, StartTasks
    <3>4. mu = "update" => /\ StartTasks = modifyTasks
                           /\ OnTheWay \in {StartTasks, Append(StartTasks, loop.task)}
      BY <1>4, OnTheWayIs DEF StartTasks
    <3> QED
      BY <1>0, <1>3, <2>1, <3>1, <3>2, <3>3, <3>4
  <2>4. NoReset' = NoReset
    BY <2>1 DEF NoReset
  <2> QED
    BY <1>4, <2>1, <2>2, <2>3, <2>4 DEF PropsAhead
<1>6. CASE \E inhibited \in BOOLEAN : LogStart(inhibited)
  <2>1. UNCHANGED <<prop, propsMu, call, writeFails, loop, modifyTasks, params, proc>>
    BY <1>6 DEF LogStart, callVars, boundVars
  <2> QED
    BY <1>4, <2>1 DEF PropsAhead, OnTheWay, NoReset
<1>7. CASE StartUpdate
  <2>1. /\ UNCHANGED <<prop, propsMu, call, writeFails, params, proc>> /\ proc = "up"
        /\ starting.pc = "notify"
        /\ loop' = IF mu = "loop" THEN Receiving ELSE loop
        /\ modifyTasks' = IF mu = "update" THEN <<>> ELSE modifyTasks
    BY <1>7 DEF StartUpdate, StartReturns, callVars, fileVars, boundVars
  <2>2. params = Modified(params, StartTasks)
    BY <2>1 DEF PropsInv, TasksWritten
  <2>3. ASSUME writeFails = 0, NEW k \in Key
        PROVE  Modified(params, OnTheWay')[k] = Modified(params, OnTheWay)[k]
    <3>1. CASE mu = "loop"
      <4>1. modifyTasks = <<>> /\ loop.pc = "start" /\ modifyTasks' = <<>> /\ loop'.pc = "recv"
        BY <1>2, <1>3, <2>1, <2>3, <3>1 DEF Receiving
      <4>2. OnTheWay = StartTasks /\ OnTheWay' = <<>>
        BY <1>0, <3>1, <4>1 DEF OnTheWay, StartTasks
      <4> QED
        BY <1>0, <2>2, <4>2, ModifiedEmpty
    <3>2. CASE mu = "update" /\ loop.pc = "recv"
      <4>1. OnTheWay = StartTasks /\ OnTheWay' = <<>>
        BY <1>0, <2>1, <3>2 DEF OnTheWay, StartTasks
      <4> QED
        BY <1>0, <2>2, <4>1, ModifiedEmpty
    <3>3. CASE mu = "update" /\ loop.pc # "recv"
      <4>1. OnTheWay = Append(modifyTasks, loop.task) /\ OnTheWay' = Append(<<>>, loop.task)
        BY <1>0, <2>1, <3>3 DEF OnTheWay
      <4>2. Modified(params, modifyTasks)[k] = params[k] /\ Modified(params, <<>>)[k] = params[k]
        BY <1>0, <2>2, <3>3, ModifiedEmpty DEF StartTasks
      <4>3. <<>> \in Seq(TaskType)
        OBVIOUS
      <4>4. /\ Modified(params, Append(modifyTasks, loop.task))[k] =
                 IF Sets(loop.task, k) THEN CHOOSE v \in SetBy(loop.task, k) : TRUE
                 ELSE Modified(params, modifyTasks)[k]
            /\ Modified(params, Append(<<>>, loop.task))[k] =
                 IF Sets(loop.task, k) THEN CHOOSE v \in SetBy(loop.task, k) : TRUE
                 ELSE Modified(params, <<>>)[k]
        BY <1>0, <4>3, ModifiedAppend
      <4> QED
        BY <4>1, <4>2, <4>4
    <3> QED
      BY <1>3, <2>1, <3>1, <3>2, <3>3
  <2> QED
    BY <1>4, <2>1, <2>3 DEF PropsAhead, NoReset
<1> QED
  BY <1>1, <1>5, <1>6, <1>7 DEF StartStep

LEMMA AheadNext ==
  ASSUME PropsInv, [GrubNext]_grubVars
  PROVE  PropsAhead'
<1>0. /\ GrubInv /\ PropsAhead /\ HolderSends
      /\ params \in [Key -> Value] /\ prop \in [Key -> Value]
      /\ modifyTasks \in Seq(TaskType) /\ loop.task \in TaskType
  BY DEF PropsInv, GrubInv, GrubTypes
<1>1. CASE \E c \in Call : SetProp(c)
  <2>1. PICK c \in Call : SetProp(c)
    BY <1>1
  <2>2. /\ propsMu = "free" /\ proc = "up"
        /\ prop' = [prop EXCEPT ![Op[c].key] = Op[c].value]
        /\ propsMu' = IF prop[Op[c].key] = Op[c].value THEN "free" ELSE c
        /\ UNCHANGED <<params, loop, modifyTasks, writeFails, proc>>
    BY <2>1 DEF SetProp, Called, manVars, fileVars, boundVars
  <2>3. OnTheWay' = OnTheWay /\ (NoReset' => NoReset) /\ "free" \notin Call /\ Op[c].key \in Key
    BY <1>0, <2>2, NoResetBefore, GrubAssumption DEF OnTheWay
  <2> QED
    BY <1>0, <2>2, <2>3 DEF PropsAhead
<1>2. CASE \E c \in Call : Reset(c)
  <2>1. ~NoReset'
    BY <1>0, <1>2 DEF Reset, Called, NoReset, GrubInv, GrubTypes
  <2> QED
    BY <2>1 DEF PropsAhead
<1>3. CASE \E c \in Call : AddModifyTask(c)
  BY <1>3, AheadSend
<1>4. CASE LoopTask
  <2>1. UNCHANGED <<prop, propsMu, params, writeFails, proc>> /\ loop.pc = "lock"
    BY <1>4 DEF LoopTask, callVars, fileVars, boundVars
  <2>2. OnTheWay' = OnTheWay
    <3>1. CASE running
      BY <1>0, <1>4, <3>1, SMTT(20) DEF LoopTask, OnTheWay, Receiving
    <3>2. CASE ~running
      <4>1. modifyTasks' = modifyTasks /\ loop' = [loop EXCEPT !.pc = "start"]
        BY <1>4, <3>2 DEF LoopTask
      <4>2. loop'.pc = "start" /\ loop'.task = loop.task
        BY <1>0, <4>1 DEF GrubInv, GrubTypes
      <4> QED
        BY <2>1, <4>1, <4>2 DEF OnTheWay
    <3> QED
      BY <3>1, <3>2
  <2> QED
    BY <1>0, <2>1, <2>2, NoResetBefore DEF PropsAhead
<1>5. CASE StartStep
  BY <1>5, AheadStart
<1>6. CASE Crash
  BY <1>6 DEF Crash, PropsAhead
<1>7. CASE NewGrub2
  <2>1. /\ prop' = params /\ params' = params /\ propsMu' = "free" /\ modifyTasks' = <<>>
        /\ loop'.pc # "recv" => loop'.task.set = {}
    BY <1>0, <1>7 DEF NewGrub2, ApplyParams, fileVars, Receiving, Task, GrubInv, GrubControl, DownIsReset
  <2>2. loop'.task \in TaskType
    BY <1>0, GrubNextTypes DEF GrubInv, GrubTypes
  <2>3. OnTheWay' \in {<<>>, Append(<<>>, loop'.task)}
    BY <2>1, <2>2 DEF OnTheWay
  <2>4. ASSUME NEW k \in Key PROVE Modified(params, OnTheWay')[k] = params[k]
    <3>1. Modified(params, <<>>)[k] = params[k]
      BY <1>0, ModifiedEmpty
    <3>2. CASE loop'.pc # "recv"
      <4>1. ~Sets(loop'.task, k)
        BY <2>1, <3>2 DEF Sets
      <4>2. <<>> \in Seq(TaskType)
        OBVIOUS
      <4>3. Modified(params, Append(<<>>, loop'.task))[k] = Modified(params, <<>>)[k]
        BY <1>0, <2>2, <4>1, <4>2, ModifiedAppend
      <4> QED
        BY <2>3, <3>1, <4>3
    <3>3. CASE loop'.pc = "recv"
      BY <2>1, <3>1, <3>3 DEF OnTheWay
    <3> QED
      BY <3>2, <3>3
  <2> QED
    BY <2>1, <2>4 DEF PropsAhead
<1>8. CASE \/ \E c \in Call : \E fails \in BOOLEAN : SaveUserAuthInfo(c, fails)
           \/ UpdateGoroutine \/ UNCHANGED grubVars
  <2>1. UNCHANGED <<prop, propsMu, params, writeFails, proc, loop, modifyTasks>>
    BY <1>8 DEF SaveUserAuthInfo, UpdateGoroutine, AdjustThemeStart, AdjustThemeEnd, MkConfigStart,
       RunUpdateGrub, MkConfigEnd, UpdateEnd, NotifyStopped, grubVars, callVars, manVars, fileVars,
       boundVars
  <2> QED
    BY <1>0, <2>1, NoResetBefore DEF PropsAhead, OnTheWay
<1> QED
  BY <1>1, <1>2, <1>3, <1>4, <1>5, <1>6, <1>7, <1>8 DEF GrubNext, CallStep

(* What the service publishes is what the parameter file says, whenever it *)
(* is at rest: setters are applied in the order in which they changed the  *)
(* property, however they compete for PropsMu, are queued behind an update *)
(* and are applied together, and after any number of crashes.              *)
THEOREM PropsAlwaysMatchParams == GrubSpec => []PropsMatchParams
<1>1. GrubInit => HolderSends /\ TasksWritten /\ PropsAhead
  BY GrubAssumption DEF GrubInit, HolderSends, TasksWritten, PropsAhead, NotStarting
<1>2. GrubInv /\ HolderSends /\ TasksWritten /\ PropsAhead /\ [GrubNext]_grubVars
        => (HolderSends /\ TasksWritten /\ PropsAhead)'
  BY HolderNext, WrittenNext, AheadNext DEF PropsInv
<1>3. GrubInv /\ HolderSends /\ PropsAhead => PropsMatchParams
  <2> SUFFICES ASSUME GrubInv, HolderSends, PropsAhead, AtRest, writeFails = 0, NoReset
               PROVE  prop = params
    BY DEF PropsMatchParams
  <2>1. propsMu = "free"
    BY DEF GrubInv, GrubTypes, HolderSends, AtRest
  <2>2. modifyTasks = <<>>
    BY DEF GrubInv, GrubControl, QueueServed, AtRest, Active, BeforeRead
  <2>3. OnTheWay = <<>>
    BY <2>2 DEF OnTheWay, AtRest
  <2>4. prop \in [Key -> Value] /\ params \in [Key -> Value]
    BY DEF GrubInv, GrubTypes
  <2>5. \A k \in Key : prop[k] = params[k]
    BY <2>1, <2>3, <2>4, ModifiedEmpty DEF PropsAhead, AtRest
  <2> QED
    BY <2>4, <2>5
<1> QED
  BY <1>1, <1>2, <1>3, GrubInvariant, PTL DEF GrubSpec
=============================================================================
