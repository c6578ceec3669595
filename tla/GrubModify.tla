------------------------------ MODULE GrubModify ------------------------------
(***************************************************************************)
(* The boot-loader service (src/grub2).  A D-Bus method, in a goroutine of *)
(* its own, changes a property and hands a task to the modify manager over *)
(* an unbuffered channel.  The manager's loop writes the parameter file    *)
(* and starts an update goroutine, which adjusts the theme, if asked for,  *)
(* and runs update-grub; tasks that come in the meantime are queued and    *)
(* done together by the next update.  A log in /var/cache tells a service  *)
(* that is started again whether the last update was finished.             *)
(*                                                                         *)
(* The gfxmode detection is left out: gfxmodeDetectState is None.  Values  *)
(* are numbers of which 1 is the default.  A file is written in one step,  *)
(* and writing the log succeeds.                                           *)
(***************************************************************************)
EXTENDS Naturals, Sequences, FiniteSets

CONSTANTS
  Call,         \* the D-Bus calls
  Op,           \* method, key and value of each call
  MaxCrash,     \* bound: crashes of the service
  MaxWriteFail  \* bound: failures to write the parameter file

Key       == {"Timeout", "EnableTheme", "DefaultEntry", "Gfxmode"}
ResetKey  == {"Timeout", "EnableTheme", "DefaultEntry"}
Value     == 0..2
Default   == 1
Method    == {"Set", "Reset", "EditAuth"}

ASSUME GrubAssumption ==
  /\ Op \in [Call -> [method : Method, key : Key, value : Value]]
  /\ "free" \notin Call
  /\ MaxCrash \in Nat /\ MaxWriteFail \in Nat

VARIABLES
  prop,         \* the D-Bus properties
  propsMu,      \* PropsMu: "free" or the call that holds it
  call,         \* progress of each call
  task,         \* the task each call sends
  loop,         \* modifyManager.loop: progress and the task it has received
  mu,           \* modifyManager.mu: "free", "loop" or "update"
  starting,     \* start: its progress and whether it adjusts the theme
  modifyTasks,  \* the queue
  running,
  updating,     \* property Updating
  inhibit,      \* whether inhibitFd is open
  update,       \* progress of the update goroutine
  params,       \* file /etc/default/grub
  auth,         \* file 42_uos_menu_crypto, as the number of its changes
  log,          \* file grub2.log, as the set of its keys
  seen,         \* the params and auth that update-grub has read last
  proc,         \* whether the service runs
  crashes, writeFails,
  themeOwed,    \* history: the theme has to be adjusted
  excused       \* history: the service cannot know it has work left

callVars   == <<prop, propsMu, call, task>>
manVars    == <<loop, mu, starting, modifyTasks, running, updating, inhibit>>
fileVars   == <<params, auth, log, seen>>
boundVars  == <<proc, crashes, writeFails>>
grubHist   == <<themeOwed, excused>>
grubVars   == <<callVars, manVars, update, fileVars, boundVars, grubHist>>

LogKey == {"start", "adjustThemeStart", "adjustThemeEnd", "mkconfigStart", "mkconfigEnd", "end"}
NoLog  == {"no such file"}

Task(set, theme) == [set |-> set, theme |-> theme]
NoTask == Task({}, FALSE)

Receiving   == [pc |-> "recv", task |-> NoTask]
NotStarting == [pc |-> "none", theme |-> FALSE]

GrubInit ==
  /\ prop = [k \in Key |-> 0] /\ params = prop
  /\ propsMu = "free"
  /\ call = [c \in Call |-> "idle"]
  /\ task = [c \in Call |-> NoTask]
  /\ loop = Receiving /\ mu = "free" /\ starting = NotStarting
  /\ modifyTasks = <<>>
  /\ running = FALSE /\ updating = FALSE /\ inhibit = FALSE
  /\ update = "none"
  /\ auth = 0 /\ seen = <<params, auth>>
  /\ log \in {NoLog, LogKey}
  /\ proc = "down"
  /\ crashes = 0 /\ writeFails = 0
  /\ themeOwed = FALSE /\ excused = FALSE

-----------------------------------------------------------------------------
(* The methods.                                                            *)

\* getModifyTaskGfxmode and getModifyTaskEnableTheme ask for the theme.
AdjustsTheme(k, v) == k = "Gfxmode" \/ (k = "EnableTheme" /\ v = 1)

Called(c, m) == proc = "up" /\ call[c] = "idle" /\ Op[c].method = m

\* Mutant: the lock is given back before the task is sent.
SetPropUnlocked(c) ==
  LET k == Op[c].key
      v == Op[c].value
  IN /\ Called(c, "Set") /\ propsMu = "free"
     /\ prop' = [prop EXCEPT ![k] = v]
     /\ call' = [call EXCEPT ![c] = IF prop[k] = v THEN "done" ELSE "send"]
     /\ task' = [task EXCEPT ![c] = Task({<<k, v>>}, AdjustsTheme(k, v))]
     /\ UNCHANGED <<propsMu, manVars, update, fileVars, boundVars, grubHist>>

\* SetTimeout, SetDefaultEntry, SetEnableTheme, SetGfxmode: when the value
\* differs the task is sent with PropsMu held.
SetProp(c) ==
  LET k == Op[c].key
      v == Op[c].value
  IN /\ Called(c, "Set") /\ propsMu = "free"
     /\ prop' = [prop EXCEPT ![k] = v]
     /\ call' = [call EXCEPT ![c] = IF prop[k] = v THEN "done" ELSE "send"]
     /\ propsMu' = IF prop[k] = v THEN "free" ELSE c
     /\ task' = [task EXCEPT ![c] = Task({<<k, v>>}, AdjustsTheme(k, v))]
     /\ UNCHANGED <<manVars, update, fileVars, boundVars, grubHist>>

\* Reset changes the properties with PropsMu held and sends without.
Reset(c) ==
  LET changed == {k \in ResetKey : prop[k] # Default}
  IN /\ Called(c, "Reset") /\ propsMu = "free"
     /\ prop' = [k \in Key |-> IF k \in changed THEN Default ELSE prop[k]]
     /\ call' = [call EXCEPT ![c] = IF changed = {} THEN "done" ELSE "send"]
     /\ task' = [task EXCEPT ![c] = Task(changed \X {Default}, TRUE)]
     /\ UNCHANGED <<propsMu, manVars, update, fileVars, boundVars, grubHist>>

\* configMu is held by the call that saves, until its task is sent.
ConfigMuFree == \A c \in Call : ~(Op[c].method = "EditAuth" /\ call[c] = "send")

\* setGrubEditShellAuth and disableGrubEditShellAuth; after an error the old
\* content is written back and nothing is sent.
SaveUserAuthInfo(c, fails) ==
  /\ Called(c, "EditAuth") /\ ConfigMuFree
  /\ auth' = IF fails THEN auth ELSE auth + 1
  /\ call' = [call EXCEPT ![c] = IF fails THEN "done" ELSE "send"]
  /\ UNCHANGED <<prop, propsMu, task, manVars, update, params, log, seen, boundVars, grubHist>>

\* addModifyTask meets the receive of the loop; the method then unlocks.
AddModifyTask(c) ==
  /\ proc = "up" /\ call[c] = "send" /\ loop.pc = "recv"
  /\ loop' = [pc |-> "lock", task |-> task[c]]
  /\ call' = [call EXCEPT ![c] = "done"]
  /\ propsMu' = IF propsMu = c THEN "free" ELSE propsMu
  /\ UNCHANGED <<prop, task, mu, starting, modifyTasks, running, updating, inhibit, update,
                 fileVars, boundVars, grubHist>>

-----------------------------------------------------------------------------
(* The loop and start, which the loop and updateEnd run with mu held.      *)

\* Mutant: a task is started whatever is running.
LoopTaskAlways ==
  /\ proc = "up" /\ loop.pc = "lock" /\ mu = "free"
  /\ mu' = "loop" /\ starting' = [pc |-> "write", theme |-> FALSE]
  /\ loop' = [loop EXCEPT !.pc = "start"]
  /\ UNCHANGED <<callVars, modifyTasks, running, updating, inhibit, update, fileVars, boundVars, grubHist>>

LoopTask ==
  /\ proc = "up" /\ loop.pc = "lock" /\ mu = "free"
  /\ IF running
       THEN /\ modifyTasks' = Append(modifyTasks, loop.task)
            /\ loop' = Receiving
            /\ UNCHANGED <<mu, starting>>
       ELSE /\ mu' = "loop"
            /\ starting' = [pc |-> "write", theme |-> FALSE]
            /\ loop' = [loop EXCEPT !.pc = "start"]
            /\ UNCHANGED modifyTasks
  /\ UNCHANGED <<callVars, running, updating, inhibit, update, fileVars, boundVars, grubHist>>

\* An inhibitor that is held is kept; getting one may fail.
PreventShutdown(inhibited) == inhibit' = (inhibit \/ inhibited)

EnableShutdown == inhibit' = FALSE

StartTasks == IF mu = "loop" THEN <<loop.task>> ELSE modifyTasks

\* The values that the last of the tasks ts that sets k gives it.
LastSet(ts, k) ==
  {v \in Value : \E i \in 1..Len(ts) :
     /\ <<k, v>> \in ts[i].set
     /\ \A j \in (i + 1)..Len(ts) : \A w \in Value : <<k, w>> \notin ts[j].set}

\* The params p after the modify functions have run one after the other.
Modified(p, ts) ==
  [k \in Key |-> IF LastSet(ts, k) = {} THEN p[k] ELSE CHOOSE v \in LastSet(ts, k) : TRUE]

\* What follows a return of start: the loop receives again; updateEnd drops
\* the queue and its goroutine ends.  upd is the update goroutine that is
\* left.
StartReturns(upd) ==
  /\ mu' = "free"
  /\ starting' = NotStarting
  /\ loop' = IF mu = "loop" THEN Receiving ELSE loop
  /\ modifyTasks' = IF mu = "update" THEN <<>> ELSE modifyTasks
  /\ update' = upd

\* writeGrubParams fails: start returns and leaves running as it is.
StartWriteFails ==
  /\ proc = "up" /\ starting.pc = "write" /\ writeFails < MaxWriteFail
  /\ writeFails' = writeFails + 1
  /\ excused' = TRUE
  /\ StartReturns("none")
  /\ UNCHANGED <<callVars, running, updating, inhibit, fileVars, proc, crashes, themeOwed>>

StartWrite ==
  /\ proc = "up" /\ starting.pc = "write"
  /\ params' = Modified(params, StartTasks)
  /\ starting' = [pc |-> "logStart",
                  theme |-> \E i \in 1..Len(StartTasks) : StartTasks[i].theme]
  /\ UNCHANGED <<callVars, loop, mu, modifyTasks, running, updating, inhibit, update,
                 auth, log, seen, boundVars, grubHist>>

\* The log is truncated; preventShutdown may fail to get an inhibitor.
LogStart(inhibited) ==
  /\ proc = "up" /\ starting.pc = "logStart"
  /\ log' = {"start"}
  /\ running' = TRUE
  /\ PreventShutdown(inhibited)
  /\ starting' = [starting EXCEPT !.pc = "notify"]
  /\ themeOwed' = (themeOwed \/ starting.theme)
  /\ UNCHANGED <<callVars, loop, mu, modifyTasks, updating, update,
                 params, auth, seen, boundVars, excused>>

\* setPropUpdating needs PropsMu; then the update goroutine is started.
StartUpdate ==
  /\ proc = "up" /\ starting.pc = "notify" /\ propsMu = "free"
  /\ updating' = TRUE
  /\ StartReturns(IF starting.theme THEN "theme" ELSE "mkconfig")
  /\ UNCHANGED <<callVars, running, inhibit, fileVars, boundVars, grubHist>>

-----------------------------------------------------------------------------
(* The update goroutine.                                                   *)

UpdateStep(from, to) ==
  /\ proc = "up" /\ update = from
  /\ update' = to

LogJob(from, to, key) ==
  /\ UpdateStep(from, to)
  /\ log' = log \cup {key}

AdjustThemeStart ==
  /\ LogJob("theme", "adjusting", "adjustThemeStart")
  /\ UNCHANGED <<callVars, manVars, params, auth, seen, boundVars, grubHist>>

\* Whether or not adjust-grub-theme succeeds.
AdjustThemeEnd ==
  /\ LogJob("adjusting", "mkconfig", "adjustThemeEnd")
  /\ themeOwed' = FALSE
  /\ UNCHANGED <<callVars, manVars, params, auth, seen, boundVars, excused>>

MkConfigStart ==
  /\ LogJob("mkconfig", "read", "mkconfigStart")
  /\ UNCHANGED <<callVars, manVars, params, auth, seen, boundVars, grubHist>>

\* update-grub reads its files; whether it fails makes no difference.
RunUpdateGrub ==
  /\ UpdateStep("read", "made")
  /\ seen' = <<params, auth>>
  /\ UNCHANGED <<callVars, manVars, params, auth, log, boundVars, grubHist>>

MkConfigEnd ==
  /\ LogJob("made", "end", "mkconfigEnd")
  /\ UNCHANGED <<callVars, manVars, params, auth, seen, boundVars, grubHist>>

\* Mutant: the inhibitor is not given up.
UpdateEndKeeps ==
  /\ proc = "up" /\ update = "end" /\ mu = "free"
  /\ log' = log \cup {"end"}
  /\ mu' = "update"
  /\ IF modifyTasks # <<>>
       THEN /\ starting' = [pc |-> "write", theme |-> FALSE]
            /\ update' = "restart"
            /\ UNCHANGED <<running, inhibit>>
       ELSE /\ update' = "stopped"
            /\ running' = FALSE
            /\ UNCHANGED <<starting, inhibit>>
  /\ UNCHANGED <<callVars, loop, modifyTasks, updating, params, auth, seen, boundVars, grubHist>>

\* updateEnd with mu held: the queued tasks are started, or running and the
\* inhibitor are given up.
UpdateEnd ==
  /\ proc = "up" /\ update = "end" /\ mu = "free"
  /\ log' = log \cup {"end"}
  /\ mu' = "update"
  /\ IF modifyTasks # <<>>
       THEN /\ starting' = [pc |-> "write", theme |-> FALSE]
            /\ update' = "restart"
            /\ UNCHANGED <<running, inhibit>>
       ELSE /\ update' = "stopped"
            /\ running' = FALSE /\ EnableShutdown
            /\ UNCHANGED starting
  /\ UNCHANGED <<callVars, loop, modifyTasks, updating, params, auth, seen, boundVars, grubHist>>

\* The end of updateEnd: setPropUpdating needs PropsMu.
NotifyStopped ==
  /\ UpdateStep("stopped", "none") /\ propsMu = "free"
  /\ updating' = FALSE
  /\ mu' = "free"
  /\ UNCHANGED <<callVars, loop, starting, modifyTasks, running, inhibit, fileVars, boundVars, grubHist>>

-----------------------------------------------------------------------------
(* The service ends at any moment and is started again.                    *)

\* loadLog, hasJob and isJobDone.
HasJob(start) == start \in log
IsJobDone(end) == end \in log

\* The log tells of an update that has not made grub.cfg.
LogOpen == log # NoLog /\ ~IsJobDone("mkconfigEnd")

\* Between a write and the record of it in the log.
StartWindow == starting.pc = "logStart"
AuthTask(t) == t.set = {} /\ ~t.theme
AuthWindow ==
  \/ \E c \in Call : Op[c].method = "EditAuth" /\ call[c] = "send"
  \/ loop.pc # "recv" /\ AuthTask(loop.task)
  \/ \E i \in 1..Len(modifyTasks) : AuthTask(modifyTasks[i])
ThemeWindow == themeOwed /\ ~HasJob("adjustThemeStart")

Crash ==
  /\ proc = "up" /\ crashes < MaxCrash
  /\ proc' = "down" /\ crashes' = crashes + 1
  /\ excused' = (excused \/ StartWindow \/ (AuthWindow /\ ~LogOpen) \/ ThemeWindow)
  /\ call' = [c \in Call |-> IF call[c] = "send" THEN "lost" ELSE call[c]]
  /\ propsMu' = "free"
  /\ loop' = Receiving /\ mu' = "free" /\ starting' = NotStarting
  /\ modifyTasks' = <<>> /\ running' = FALSE /\ updating' = FALSE /\ inhibit' = FALSE
  /\ update' = "none"
  /\ UNCHANGED <<prop, task, fileVars, writeFails, themeOwed>>

\* The properties are read from the file.
ApplyParams == prop' = params

\* Mutant: an update that was interrupted is not done again.
NewGrub2Forgets ==
  /\ proc = "down"
  /\ proc' = "up"
  /\ ApplyParams
  /\ UNCHANGED <<propsMu, call, task, manVars, update, fileVars, crashes, writeFails, grubHist>>

\* NewGrub2: applyParams, then an empty task when the log has no mkconfigEnd.
NewGrub2 ==
  /\ proc = "down"
  /\ proc' = "up"
  /\ ApplyParams
  /\ loop' = IF LogOpen
               THEN [pc |-> "lock",
                     task |-> Task({}, HasJob("adjustThemeStart") /\ ~IsJobDone("adjustThemeEnd"))]
               ELSE Receiving
  /\ UNCHANGED <<propsMu, call, task, mu, starting, modifyTasks, running, updating, inhibit,
                 update, fileVars, crashes, writeFails, grubHist>>

-----------------------------------------------------------------------------
CallStep(c) ==
  \/ SetProp(c)
  \/ Reset(c)
  \/ \E fails \in BOOLEAN : SaveUserAuthInfo(c, fails)
  \/ AddModifyTask(c)

StartStep ==
  \/ StartWriteFails
  \/ StartWrite
  \/ \E inhibited \in BOOLEAN : LogStart(inhibited)
  \/ StartUpdate

UpdateGoroutine ==
  \/ AdjustThemeStart
  \/ AdjustThemeEnd
  \/ MkConfigStart
  \/ RunUpdateGrub
  \/ MkConfigEnd
  \/ UpdateEnd
  \/ NotifyStopped

GrubNext ==
  \/ \E c \in Call : CallStep(c)
  \/ LoopTask
  \/ StartStep
  \/ UpdateGoroutine
  \/ Crash
  \/ NewGrub2

(* Goroutines are scheduled and update-grub ends; nobody has to call and   *)
(* nothing has to crash.                                                   *)
GrubFairness ==
  /\ \A c \in Call : WF_grubVars(AddModifyTask(c))
  /\ WF_grubVars(LoopTask)
  /\ WF_grubVars(StartStep)
  /\ WF_grubVars(UpdateGoroutine)
  /\ WF_grubVars(NewGrub2)

GrubSpec == GrubInit /\ [][GrubNext]_grubVars /\ GrubFairness

-----------------------------------------------------------------------------
\* The service runs and has nothing to do.
AtRest ==
  /\ proc = "up" /\ mu = "free" /\ loop.pc = "recv" /\ update = "none"
  /\ \A c \in Call : call[c] # "send"

(* The parameter file is not written while update-grub may be reading it.  *)
NoWriteDuringUpdate ==
  [][(update \in {"theme", "adjusting", "mkconfig", "read", "made"}) => (params' = params)]_grubVars

(* A service at rest has run update-grub on the files as they are and has  *)
(* adjusted the theme when it had to, whatever came in during an update    *)
(* and however often the service was killed: except when it was killed     *)
(* between writing a file and recording that in the log, or could not      *)
(* write the parameter file.                                               *)
GrubCfgCurrent == AtRest /\ ~excused => seen = <<params, auth>> /\ ~themeOwed

(* The properties of a service at rest are what the parameter file says:   *)
(* the tasks are applied in the order in which the properties changed.     *)
(* Reset sends without PropsMu, so this is claimed until it is called.     *)
NoReset == \A c \in Call : Op[c].method = "Reset" => call[c] = "idle"

PropsMatchParams == AtRest /\ writeFails = 0 /\ NoReset => prop = params

(* A service at rest neither says that it is updating nor keeps the system *)
(* from shutting down, however tasks were queued and updates followed one  *)
(* another, as long as every write of the parameter file succeeds.         *)
InhibitorGivenBack == AtRest /\ writeFails = 0 => ~running /\ ~inhibit /\ ~updating

(* "... please shut down or reboot later." (inhibitor.go:25): shutting     *)
(* down becomes possible again.                                            *)
ShutdownLater == inhibit ~> ~inhibit
=============================================================================
