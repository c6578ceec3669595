# Verification of dde-daemon

This directory holds TLA+ models of the parts of dde-daemon in which order,
concurrency, failure or restarts decide whether the program is right, the TLC
configurations that check them on small instances, and TLAPS proofs of the most
important of their properties. `PROJECT.json` maps every definition to the
source lines it models and lists the runs, findings, hazards and theorems.

To repeat a run: `tlc -workers 2 -config <cfg> <module>`; to repeat a proof:
`tlapm <module>Proofs.tla`.

## 1. The system

dde-daemon is a set of D-Bus services. Two large processes, `dde-session-daemon`
(one per user session) and `dde-system-daemon` (root), are each made of modules
that a common *loader* starts in dependency order; smaller executables
(`grub2`, `dde-authority`, `dde-lockservice`, ...) each own one service. Modules
talk to one another, and to logind, the X server, NetworkManager, PulseAudio,
BlueZ, UPower and the kernel, over D-Bus, X11 or device files. Inside a process
every incoming D-Bus call runs in a goroutine of its own, and every signal
connection has a loop of its own, so that state is shared between goroutines,
guarded by mutexes, and work is passed on over channels, timers and callbacks.

| Component | State | Operations | Interacts with | What is hard | What makes it right |
|---|---|---|---|---|---|
| Module loader (`loader/`) | registered modules, enabled flags, a WaitGroup per module, the loader's lock | `EnableModules`, `Enable`, `StartAll`, `StopAll` | all modules, both daemons | one goroutine per module; a lock held while they start; a counter that may not go below zero | dependencies start first; a call that returns has started everything, and it returns |
| Graph sort (`graph/`) | colours, result | `TopologicalDag` | the loader | the order of Go's maps | cyclic exactly if it says so; the order respects every edge |
| Session daemon (`bin/dde-session-daemon`) | module lists, dconfig values, moduleLocker | two-part start, `valueChanged` handler, `checkDependencies` | the loader, dconfig | switches change while modules start | no change is lost, the handler is not stuck |
| Power-save plan (`session/power`) | delayed tasks, `prepareSuspend`, saved brightness | idle on/off, suspend/wake-up, settings change, task callbacks | screen saver, display, logind | timers that expire while they are cancelled; callbacks that need the lock of those who wait for them | no timer outlives its cancelling; brightness and display come back |
| Warn levels (`session/power`, `system/power`) | level, countdown, settings | reports of battery and mains, settings, ticks | UPower, the shutdown front end | handlers in two threads, a countdown stopped through a field without a lock | the level is that of the battery; at Action the machine is suspended, otherwise not |
| Lid and light (`session/power`) | pending lid operation, black screen, claim of the sensor | lid events, activity, settings, restart of the sensor service | window manager, sensor proxy | an operation that waits and is cancelled; decisions taken and applied in two steps | the last operation is for the lid as it is |
| Boot loader (`grub2/`) | properties, task queue, log, inhibitor, files | setters, `Reset`, edit authorization, update | update-grub, logind | a queue during an update, crashes, two locks and a channel | `grub.cfg` is made from the files as they are; shutting down is possible afterwards |
| Screen saver (`screensaver/`) | inhibitors, timeouts | `Inhibit`, `UnInhibit`, `SetTimeout`, `NameOwnerChanged` | X server, the bus | long sequences of calls; clients that die; 16-bit numbers | off while inhibited, the last timeout otherwise |
| Airplane mode (`system/airplane_mode`) | radios, properties, saved state | `Enable*`, rfkill events, recover | the kernel | a stream of events, restarts | properties tell the state of the radios; a restart restores it |
| Session watcher (`sessionwatcher/`) | sessions, `IsActive` | session added/removed/active | logind | sessions that change while they are asked one by one | `IsActive` is right when all is handled |
| Automatic connection (`system/bluetooth`) | table of devices, worker ids, held-back discovery | add devices, workers, adapters that come and go | BlueZ | workers that take, retry and give back; a last look without the lock | every device is tried until it is connected or its time is over |
| Users' agents (`system/bluetooth`) | users, sessions, agents, active user | `RegisterAgent`, logind's and the bus's signals | session daemons, logind | registration in several critical sections; daemons that die | requests go to the living agent of the active user |
| File transfer (`bluetooth/`) | `Transportable`, sessions, channels | `SendFiles`, `CancelTransferSession`, `AuthorizePush`, status handlers | obexd, notifications | sends on channels with locks held; handlers that block their loop | every question is answered; files can be received again afterwards |
| Secret agent (`network/`) | keyring, dialogs by connection | `GetSecrets`, `SaveSecrets`, `DeleteSecrets`, `CancelGetSecrets` | NetworkManager, the secret service, a dialog process | unlocking by prompt, overlapping calls, failures | what must be there is given, nothing unwanted is kept |
| Audio priorities (`audio/`) | lists of types and ports, their file, switch counter | hot-plug, user's choice, restart, automatic switch | PulseAudio | a switch that causes events that cause a switch | the first usable port is in use |
| Launcher search (`launcher/`) | queue of operations, stack of tasks | `Search`, pops and pushes, filtering goroutines | launcher front end | tasks that end while they are replaced | the last result is for the last key |
| Application recorder (`apps/`) | maps of launched files, status file | file events, launches, hints, saves | the kernel, the launcher | events that are looked at late, saves that fail, kills | map, directory and file agree |
| Lock service (`bin/dde-lockservice`) | channels by client | `AuthenticateUser`, `UnlockCheck`, conversations | PAM | sends with the lock held, two conversations of one client | every conversation goes on and its channel is closed once |
| Event monitor (`x_event_monitor/`) | areas, references, selection | registration, cursor, buttons, keys | X server | equal areas of several processes | told exactly what holds, as long as registered |
| The rest: authority, fprintd, network manager, dock, launcher items, key bindings, clipboard, accounts, appearance, time, input, gestures, tray, triggers, language, lastore | mostly mirrors of other services | getters, setters, signals | those services | see section 7 | see section 7 |

`PROJECT.json` has each of these with its sources and the reason when it is not
modelled, and the forty places of the code that are hardest to test ("hazards"),
each with the properties that would catch it going wrong.

## 2. The modules

A module keeps the control of the code and abstracts its data. Names are the
source's wherever possible. Definitions marked `Mutant:` are plausible bugs of
the definition after them, used to show that a property can fail; they are not
part of any specification. History variables, marked `history:`, remember that
something happened that a property is about or excepts, and no guard reads them
(the records `...Hist` also hold the counters of bounded events, a panic and the
connections that were deleted, which guards do read).

**Components and compositions.** Each component has a module of its own with
its specification. `SessionDaemon` composes the start-up and the configuration
handler with `Loader`; `WarnLevel` composes the system daemon's battery, the
session daemon's level and the countdown; `ObexTransfer` composes sending and
receiving, which meet in `Transportable`. `MCProgress`, `MCReactions` and
`MCServices` check several components at a time. The ones put together share no
variable and run in different processes or goroutines, and every property reads
the variables of one, so a step of one commutes with every step of another: it
is enough to look at the behaviours in which one of them (`focus`, fixed by the
initial state) moves. TLC explores the sum of the state spaces, not the product.

| Module | Source | State and actions |
|---|---|---|
| `Loader` | `loader/` | `call[c]` is the progress of a call of `EnableModules`, `go[c][n]` of the goroutine for the name `n`; `wg` and `enabled` are fields of `ModuleBase`. A goroutine waits (`WaitDependencies`), tests the flag (`EnableBegin`), runs `Start`, releases the WaitGroup (`WaitGroupDone`) and sets the flag (`SetEnabled`), a step each, as nothing in the code joins them. `Fatalf`, a nil module and a negative WaitGroup end the process (`proc`). The DAG is the closure of the request under dependencies, with the odd treatment of missing and disabled names that the code has. Nobody calls `EnableModules` after `StopAll` has begun. |
| `StartOrder` | the promise of `loader/` | the abstract specification: items come up one at a time after what they need; a client is answered when what it wants is up. `Loader` implements it (`ImplementsStartOrder`: `up` is `started`, `answered` the calls that returned). |
| `TopologicalDag` | `graph/topological_dag.go` | the recursion is a stack of activations, the ranges over Go maps are choices; `HasCycle` and `Sorted` are the reference definitions. |
| `SessionDaemon` | `bin/dde-session-daemon` | EXTENDS `Loader`; the calls are the two parts of the start-up. The handler (`onChange`) takes the loader's lock only inside `GetModule` and `List`, and `checkDependencies` looks at one module per step. A read of the configuration may fail, at the start (`InitConfig` is what was read, `config` what is stored) and in the handler, and then counts as FALSE. |
| `PowerSavePlan` | `session/power/power_save_plan.go`, `delayed_task.go` | three threads and one per callback; a task is named by its kind and its idle period. `HandleIdleOff` and `Update` are cut at every point where a callback can come between. Timers are untimed; brightness is "user", "half" or "min". Reading and setting `prepareSuspend` in `HandleIdleOff` is one step. |
| `WarnLevel` | `session/power` (`warn_level*.go`, `count_ticker.go`, `manager_events.go`), `system/power` | battery reports, removal and insertion, mains and the delayed refreshes; signals on their way (`wlInbox`); `handleBatteryDisplayUpdate` step by step in two threads; tickers with their ticks; settings, `delayCheckValid`, `Reset`. The daemon starts with whatever settings are stored. `GetWarnLevel` is the pure function, with percentages and times. |
| `LidSwitch` | `lid_switch.go`, `manager_ambient_light.go` | a goroutine per lid event that reads `cookie` when it is scheduled, its timer, the operation; the sensor's decision under one lock and its application under another, by four threads; calls that fail and a service that restarts, with or without a sensor. |
| `GrubModify` | `grub2/` | callers, the manager's loop, `start` and the update goroutine, with `PropsMu`, `mu`, the unbuffered channel, the files and the log. `Crash` may come between any two steps; `NewGrub2` reads files and log. A file is written in one step; writing the log succeeds. |
| `ScreenSaver` | `screensaver/` | every method holds `ss.mu` and is one step; the conversion to `int16` and what the X server does with negative numbers are modelled. |
| `AirplaneMode` | `system/airplane_mode` | the kernel (external) keeps blocks and a queue of events; the daemon recovers the saved state type by type, and handles one event per step with the update of devices, properties and file. |
| `SessionWatcher` | `sessionwatcher/manager.go` | `initUserSessions` step by step, the signal loop, and `handleSessionChanged` as a pass (`pass`) that asks one session per step. |
| `AutoConnect` | `system/bluetooth/auto_connect_manager.go` | `listed`, `takenBy`, `tried` are the table; a worker gets a device, connects, gives back or takes out, and looks at the others without the lock before it ends. Methods under `acm.mu` are one step. Devices may be removed, and adapters taken out or switched off (`off`) at any time: `connectCb` and `startDiscoveryCb` then return early. |
| `BluetoothAgents` | `system/bluetooth/agent.go`, `bluetooth.go`, `bluetooth_ifc.go` | `RegisterAgent` in its critical sections (`register`), `watchSession` with the value it read, and the loop's handlers. |
| `ObexTransfer` | `bluetooth/obex_agent.go`, `bluetooth.go`, `bluetooth_ifc.go` | `send[s]` is `doSendFiles`, `cancel[c]` a call of `CancelTransferSession`, `push[r]` `AuthorizePush` with the transfer it admits, which may be over (`gone`) before `ReceiveProgress` connects its handlers. Three mutexes, the channel without a buffer, `receiveCh` with one place (`tokens`), and two signal loops (`sendLoop`, `recvLoop`) that a blocked handler stops. obexd is external. |
| `SecretAgent` | `network/secret_agent.go` | calls (`req`) through unlocking, keyring, dialog and storing; prompts answered by the signal loop, which may block (`loopStuck`); the map of dialogs by connection (`secretTask`), which a dialog enters a step after its process has started (`AddSaveSecretsTask`). Setting and deleting items may fail (`ItemError`): `SaveSecrets` returns with the error, `DeleteSecrets` and `GetSecrets` go on. |
| `AudioPriority` | `audio/priority_*.go`, `audio_events.go` | the policy of one direction: the two lists, the file, hot-plug, choices, `sortPorts`, automatic switch, its counter and the setting that allows it (`autoSwitch`). Methods work with the cards and the sink as the last event left them; PulseAudio may refuse a port. |
| `LauncherSearch` | `launcher/search_task*.go` | `Search` queues pops and pushes, `handlePopPushOps` applies them, a task filters the result below it in goroutines; `FullResult` is the reference: a search of all items from nothing. |
| `AppRecorder` | `apps/` | the directory with a subdirectory, kernel events, `DFWatcher`, `ALRecorder`, `SubRecorder` with its maps, the save in its steps, kill and restart. `handleDirRemoved` changes the map and asks for the save in two steps. |
| `LockService` | `bin/dde-lockservice/manager.go` | `authUserTable`, channels with one place, `authLocker`, conversations step by step; a send that blocks keeps the lock. |
| `XEventMonitor` | `x_event_monitor/manager.go` | every method and event handler holds `m.mu` and is one step; the signals of the last step are `emitted`. |
| `Registrations` | the promise of `x_event_monitor/` | the abstract specification: clients join and leave topics, the service listens while one is held and speaks only of those. `XEventMonitor` implements it (`ImplementsRegistrations`: `held` is `pidAids`, `inside` is `moveInto`, `listening` is `selected`, `heard` is `emitted`); reference counts, the areas' own table and the motion count have no counterpart. |

## 3. The runs

| Run | Bounds | Distinct states |
|---|---|---|
| `progress` (MCProgress) | Loader: 4 modules and a name nobody registered, 6 calls. LauncherSearch: 2 items, 4 keys, 2 searches, 4 tasks. PowerSavePlan: 1 idle period, 2 suspends, power buttons or settings changes. ObexTransfer: 1 session that sends a file, 2 that push, 1 cancellation, 3 calls, 1 click. WarnLevel: 5 % and 100 %, 2 power changes, settings in order and not, 1 settings change, 2 countdowns | 480,004 |
| `reactions` (MCReactions) | AutoConnect: 2 adapters with a device each, 2 tries, 3 workers at a time, 2 calls, 1 adapter that comes back or is switched off and on, or 1 device that is removed. AppRecorder: 2 files, one in the subdirectory, 2 changes, 1 kill, 1 failed save. SessionDaemon: 3 modules and an unknown key, 2 changes. LockService: 2 clients, 2 conversations, 2 prompts, 1 unknown pid | 834,703 |
| `services` (MCServices) | TopologicalDag: all graphs of 4 nodes with up to 4 edges. ScreenSaver: 2 programs, 5 timeouts around the 16-bit limits, 3 inhibitors. AirplaneMode: 3 radios of 2 types, 3 changes, 1 restart, 1 failed write. XEventMonitor: 2 processes, 2 overlapping areas and the screen. AudioPriority: 4 ports of 3 types, 3 old files, 2 runs, 2 changes. SessionWatcher: 3 sessions, 3 changes. BluetoothAgents: 2 users, 2 connections, 3 events. LidSwitch: 3 lid events, 2 light changes, 1 failure. SecretAgent: 2 connections with 2 secrets, 2 calls, 1 exit of the secret service or error of an item | 1,745,248 |
| `power_restore` (MCPowerSavePlan) | 2 idle periods, 1 suspend, power button or settings change, each kind of task | 2,853,473 |
| `grub` (MCGrubModify) | 5 calls, 2 for one key, 2 crashes, 1 failed write | 2,933,077 |
| `session_defaults`, `power_lit`, `grub_shutdown`, `airplane_recover`, `audio_sort`, `autoconnect_limit`, `obex_cancel` | the smallest instance that shows the disagreement | violated |

What the properties say (each stands with a full comment in its module):

* *Loader*: `DependenciesStartFirst`; `CallReturns`: an accepted graph cannot
  make the goroutines wait for one another; `ImplementsStartOrder`.
* *TopologicalDag*: `TopologicalOrder`: the verdict on cycles is right and the
  order respects every edge, for every order of the maps.
* *SessionDaemon*: `NoChangeLost`: the last value acted on is the current one, unless its read failed;
  `SignalsHandled`: handler and loader do not wait for one another for ever.
* *PowerSavePlan*: `NoLostTimer`; `IdleOffRestores`: display and brightness come
  back unless an idle-off met a callback under way; `HandlersReturn`: the waits
  with the lock held end.
* *WarnLevel*: `LevelCurrent`: when all is handled the level is that of battery
  and mains; `CountdownFollowsLevel`: a countdown runs exactly at Action and its
  screen is not left behind; `ConfigRepaired`: settings changed to a
  wrong order are going to be replaced; `ActionSuspends`: Action ends in a suspend or another level.
* *LidSwitch*: `LidObeyed`: the last operation is for the lid as it is, and an
  open lid's screen is not black; `SensorClaimed`: the service has the claim
  exactly if a decision taken now would claim.
* *GrubModify*: `GrubCfgCurrent`: update-grub has seen the files as they are;
  `PropsMatchParams`; `InhibitorGivenBack`; `NoWriteDuringUpdate`.
* *ScreenSaver*: `InhibitedMeansOff`, `SecondsRestored`. *AirplaneMode*:
  `RadioStateKnown`: properties and saved state are those of the radios.
* *SessionWatcher*: `WatcherCurrent`. *BluetoothAgents*: `AgentsCurrent`: active
  user and agents are those there are, and no map is written before it is made.
* *AutoConnect*: `AutoConnectInOrder`: what is taken is with a worker, by one at
  a time, and discovery resumes if the adapter stayed on; `NoDeviceForgotten`.
* *ObexTransfer*: `TransportableAgain`: after all transfers files can be received
  again; `PushAnswered`: `AuthorizePush` returns although it waits with a lock.
* *SecretAgent*: `SecretsServed`: calls that end well have what must be there,
  dialogs can be cancelled, the keyring keeps nothing unwanted.
* *AudioPriority*: `PrioritiesKept`: each usable port once, in the order of the
  types; `FirstPortUsed`, as far as the setting allows. *LauncherSearch*: `LastDoneIsForKey`: the incremental
  result is that of a search from nothing; `SearchAnswered`.
* *AppRecorder*: `MapMatchesFiles`, `RecordsKept` (map and file remember what was
  launched, and a kill in the middle of a save loses nothing that an earlier save
  has written), `StatusReachesFile`. *LockService*: `ChannelsInOrder`,
  `ConversationGoesOn`.
* *XEventMonitor*: `IntoOutAlternate`; `ImplementsRegistrations`: whoever shares
  an id, the monitor does what a table of registrations would.

Some invariants are conjunctions of named parts (`RecordsKept` of
`LaunchedRemembered` and `FileHasStatus`, and so on), each commented by itself.

Why the bounds are enough. *Loader*: three modules give a module with two
dependencies, one of which waits for the other; two calls that share modules
reach all the ways in which the process ends; one request of each kind that is
refused, passed over or forced. *Graph*: with four edges, every cycle and the
diamond. *Session*: two changes switch one module off and on, or two that depend
on each other, in any order. *Power*: a level that is saved wrongly in one idle
period shows in the next. *Grub*: one task that is started, one queued, and one
that comes while the queue is started; a crash during the update that makes up
for the last crash. *Warn levels*: charged and discharged, mains on and off, with
a settings change in between, and a countdown that follows another. *Lid*: the
third event cancels an operation that has itself cancelled one. *Automatic
connection*: a worker of one adapter takes the device of the other; an adapter
that comes back meets the worker of its first life; one that is switched off does
so before, during or after its workers' last look. *Recorder*: remove and create
of one file, or one change before and one after a kill. *Search*: a key that
extends, shortens or replaces another. *Lock service*: two conversations of one
client, or one of each of two. *Agents*: a daemon that dies and one that follows,
a logout and a switch during registration. *Secrets*: two calls for one
connection or for two, with each way to keep a secret of the first, and an error at
any item of either. *Airplane mode*: two radios that share a property, and one
that has none. *Transfer*: a second file
of an accepted session, a second session while one receives, a cancellation at
every point of sending. *Audio*: two ports of one type, a restart, files that
lack a type. The numbers of workers, tries and switches are the smallest for
which the limit is both kept and reached.

No symmetry is used: the values that could be exchanged are too few to pay for it.

Deadlock checking is off in the runs in which the environment (users, kernel,
logind, obexd) may simply have used up its bounded events and nothing has to
happen; there the progress properties say that nobody is stuck. Only
`session_defaults`, whose model says when it may rest (`Rest`), checks it.

Fairness. Goroutines, callbacks, signal loops, timers that run and woken callers
are scheduled by the Go runtime. Each module has one action, `...Progress`, of
the steps they take by themselves, and weak fairness on it: something that can
run does run. This is weaker than fairness of every goroutine, and enough here
because the bounded events cannot keep the progress busy for ever. `Start` of a
module, `update-grub`, prompts of PAM and transfers of obexd are assumed to end.
Users, writers of settings, callers and crashes owe nothing. A service that is
killed is started again by the bus (`NewGrub2`). Progress properties have the
form `[]<>(done \/ exception)`.

## 4. Proofs

All proofs are for every value of the constants, from the `ASSUME` of the
modules alone, which a run evaluates; only `PrioritiesAlwaysKept` has a hypothesis
of its own, evaluated by the run too. The assumptions give the types of the
constants, say that sets which the code walks through are finite (`App`, `Node`,
`Device` of airplane mode and of the automatic connection, `Talk`, `Slot`), that values which stand for "nobody"
are not members of the sets they are put beside (`NoUid`, `NoDevice`, `NoPort`,
`NoRequest`, `Nobody`, "free", "lost", "dir"), and that the default settings of the warn levels are
in order (`DefaultsValid`). Every inductive invariant below was checked by TLC
before it was proved.

An invariant of section 3 usually speaks of a system at rest, "when all is
handled", and says nothing about the way there. The inductive invariants
complete it: for each thing a property wants to hold, who is still going to
bring it about if it does not hold yet (a signal on its way, a task in a queue, a
goroutine before its last step), and what the exceptions named in the property
exclude.

* `LoaderProofs` (Loader, SessionDaemon, TopologicalDag).
  `LoaderTypeCorrect`, `DependenciesAlwaysStartFirst`, `ReturnAlwaysMeansStarted`
  and the refinement `LoaderImplementsStartOrder`. A goroutine goes on because a
  WaitGroup is at zero, and that says nothing about `Start` by itself: `LoaderInv`
  adds `ReleasedMeansStarted` and `PastStart`. The refinement maps `StartOK` to
  `StartItem`, the return of a call to `Answer`, and every other step to a
  stutter. `CallsCanAlwaysGoOn`: nobody waits for ever in a call that the sort
  accepted. `WaitInv` has, for a call that waits, all its goroutines begun
  (`Accepted`), each in a place that its WaitGroup fits (`GoroutinesFit`) and the
  loader's lock held (`LockHeld`). Goroutines none of which can move would then be
  a set of names in which each waits for another one, which is what `Cyclic`
  excludes. `SignalsCanAlwaysBeHandled`: the same with the handler of the module
  switches, which waits for the lock while a call has it. Both write the guards
  of the steps out (`GoroutineCanMove`, `HandlerCanMove`), as the prover does not
  know `ENABLED`; TLC has compared them with `ENABLED` on small instances of the
  loader and of the session daemon, and the guards in the theorems of this kind
  below in the same way. `ChangesNeverLost`: `ChangeInv` says that the last value read is the
  current one, or its read failed, or a signal that tells of it waits, or the
  handler is about to read. `AlwaysTopologicalOrder`: `DagInv` has the gray nodes as a path of the
  graph (`GrayPath`), what the activations have left (`VisitedChildren`), and the
  black nodes in the result before what they lead to (`BlackSorted`). That a
  sorted graph has no cycle is the least-position argument (`LeastOf`) on the
  result.
* `WarnLevelProofs`. `ConfigAlwaysRepaired` from `CheckPending` (the property
  whether the daemon runs or not, which a suspend between two steps needs), with
  any settings stored at the start.
  `CountdownAlwaysFollows` from `CountInv`: as long as handlers do not overlap,
  the one that is inside acts on the level it read and knows the countdown in the
  field (`OneInside`, `ActsOnLevel`, `FieldAsRead`, `FieldFollows`).
  `LevelAlwaysCurrent` from `LevelInv`: the last signal about the mains in the
  queue, or else the field, is what the system daemon says, and an update is
  pending or the level is right. `WarnLevelMonotone`, about the pure function:
  less charge or less time left never gives a milder level, whatever the
  thresholds.
* `PowerSavePlanProofs`. `TimersNeverLost`: the list of tasks is dropped at the
  end of `Wait`, so no timer may be pending there: `CancelledStopped`, which needs
  `HoldsLock`. The timer that `screenBlack` starts before it registers it is the
  exception in the property; `OnlyBlackArms` and `RegisteredLast` say that it is
  registered exactly once, `PeriodsBegun` that a new idle period finds its names
  unused. `IdleOffAlwaysRestores`: `RestoreInv` follows an idle-off through
  cancelling (`CancelReaches`), waiting (`CancelledQuiet`) and restoring
  (`SettledQuiet`), and says that a level changed by the plan was saved before
  (`LevelSaved`, `TableSaved`).
* `GrubModifyProofs`. `ParamsStableDuringUpdate` (an action property),
  `InhibitorAlwaysGivenBack` and `GrubCfgAlwaysCurrent` from `GrubInv`: which of
  loop and update has `mu` (`Phases`), that `running` means an update that is
  going to look at the queue (`RunningMeansUpdate`, `QueueServed`), that the log
  is open from the write until update-grub has read (`LogFollows`), so that a
  crash in between is made up for (`StaleMeansWork`, `OwedMeansWork`).
  `PropsAlwaysMatchParams` from `PropsAhead`: a property is what the file will be
  when the queued tasks are applied in order.
* `SessionProofs` (LidSwitch, SessionWatcher, ObexTransfer, SecretAgent).
  `LidAlwaysObeyed` (`LidInv`: timers in the order of their events, each listener
  on its own cookie, the last decides), `SensorAlwaysClaimed` (`LightInv`: one
  decision at a time, right for what it saw, and whoever sees a change decides
  again), `WatcherAlwaysCurrent` (`WatchInv`: the list is right up to the signals
  on their way, and `IsActive` up to the pass under way), `AlwaysTransportableAgain`
  (`ObexInv`: somebody owes the property as long as it is taken),
  `PushesCanAlwaysBeAnswered` (`PushInv`: `acceptedSessions` counts the transfers
  let in, and without an overlap or a transfer that ended before its handlers were
  connected `receiveCh` has one value or there is one transfer that will put it
  there, `OneToken`, so that whoever waits with
  `acceptedSessionsMu` held waits for something that can move) and
  `SecretsAlwaysServed` (`SecInv`: what a call has in hand at each step, one call
  for a connection unless the exception holds, who is going to clean the keyring).
* `SystemProofs` (LockService, AirplaneMode, BluetoothAgents).
  `ChannelsAlwaysInOrder` (`LockInv`: a client with one conversation waits for the
  channel of the table, which is open), `ConversationsCanAlwaysGoOn` (`LockerInv`:
  the table does not change while a send keeps `authLocker`, so the reader it had
  is still there), `RadioStateAlwaysKnown` (`AirInv`: the
  daemon's table with the unread events applied is the state of the radios) and
  `AgentsAlwaysCurrent` (`AgentsInv`: sessions, agents and active user are those
  of logind and the bus, up to the signals in the queue and the registrations
  under way).
* `DesktopProofs` (ScreenSaver, XEventMonitor, AudioPriority, AppRecorder).
  `InhibitedAlwaysOff`, `SecondsAlwaysRestored` (`RequestKept`: where the last
  request is remembered; `Int16Exact`). `ReferencesAlwaysCounted`,
  `AlwaysSelectedWhileUsed`, `IntoOutAlwaysAlternate` (an action property):
  `XEventInv` with `FlagsAreTold`, and `HoldersTake`, `HoldersGive` on
  cardinality. `MonitorImplementsRegistrations`: `RegisterAreas` and
  `RegisterFullScreen` map to `Join`, `UnregisterArea` to `Leave`, the events to
  `Tell`; by `XEventInv` a count that reaches zero is the last holder, and an area
  that the handlers know is held by somebody (`UsedMeansHeld`, `ListsAreUsed`).
  The audio priorities are below. `RecordsAlwaysKept` (`RecInv`: `SaveFollows`
  and `LaunchedKept` tie map, saved copy and file; `FileWhole`: at every moment the
  file has the launches of the last save that was completed). `MapAlwaysMatchesFiles`
  (`FilesInv`): for every file, the last of the events in the kernel's queue, the
  watcher's and the recorder's tells the truth (`KernelTells`, `DirEvents`),
  through moves of the subdirectory (`DirAway`, `WatchComes`).
  `PrioritiesAlwaysKept` and `FirstPortAlwaysUsed`, for any finite set of ports,
  any types and any numbers of hot-plugs, calls and restarts. The lists are made
  by loops, which the model writes as recursive functions of the round. What such
  a loop computes is proved by an induction over its rounds (`LoopRuns`,
  `InductionOn`): the claim is that a *set* of rounds has all of them, because a
  set without one has a least round that is missing, so that no prover has to
  instantiate a predicate. From that come, for every list, what `KeepIn`,
  `AddPorts`, `SetPorts`, `SortPorts` and `SetTheFirstPort` keep: the elements,
  that none is there twice, and the order of the types. The inductive invariant
  has two layers. `AudioInv` (`AudioTypes`; `ListKept`: the list has what the
  cards had when they were read last; `CacheFresh`: without an event on its way
  the cards and the sink read last are those of PulseAudio) holds for all files
  and gives `FirstPortUsed` and what `PortsListed` says about the set of ports.
  `OrderKept` (no port twice, in the list or in the file, and both in the order of
  the types unless one was put first by itself) holds only if the first file is in
  order and lacks at most one type: `OldFilesInOrder`, the theorem's hypothesis.
  Every file that this policy writes before a type is put first is such a file.
  For others the claim is false, since `sortPorts` does not repair three ports in
  reverse order of their types, which is what `audio_sort` shows.
* `WorkerProofs` (AutoConnect, LauncherSearch). `AlwaysConnectedInOrder`:
  `AutoInv` has the marks of the table held by workers with that id (`TakenHeld`,
  `HeldMarked`), ids in use by workers (`IdsHeld`), and the adapters that have
  begun among those there are. `DevicesNeverForgotten`: a device that waits has
  the timer of its adapter or a worker that looks again before it ends
  (`SomeoneComes`); one that finds nothing free knows by `TakenHeld` that another
  worker has the device, and `startWorkers` starts nobody only if every id is in
  use, which by `IdsHeld` means workers. `LastDoneAlwaysForKey`: `SearchInv` has the stack
  as the chain of prefixes of a key (`StackOfPrefixes`) that the queued pops and
  pushes turn into the last one (`OpsReachKey`, with `DiffMakesKey` on
  `runeSliceDiff`); each task's result as far as it has filtered the one below
  (`FoundSoFar`; `MatchShorter` is why filtering loses nothing); and that a task
  has begun exactly if the one below has looked for it (`BegunInOrder`), so that
  in a quiet state every task has finished (`QuietFinished`).

Only model-checked:

* everything with fairness (`CallReturns`, `SignalsHandled`, `HandlersReturn`,
  `ActionSuspends`, `NoDeviceForgotten`, `StatusReachesFile`, `SearchAnswered`,
  `ConversationGoesOn`, `PushAnswered`), which is out of the prover's reach. For
  `CallReturns`, `SignalsHandled`, `ConversationGoesOn`, `PushAnswered` and
  `NoDeviceForgotten` the safety half is proved: as long as the goal is not
  reached, and but for the exceptions that the property names, what is waited for
  can take a step (`CallsCanAlwaysGoOn`, `SignalsCanAlwaysBeHandled`,
  `ConversationsCanAlwaysGoOn`, `PushesCanAlwaysBeAnswered`,
  `DevicesNeverForgotten`). That these steps are taken and come to an end is what
  TLC checks under fairness.

## 5. Where code and documentation disagree

The violated runs are the findings of `PROJECT.json`, with the lines they
contradict:

| Run | What it shows |
|---|---|
| `session_defaults` | eventlog (part 2) needs dock (part 1): the second call enables dock again and `Fatalf` ends the daemon |
| `power_lit` | a callback started before it was cancelled turns the display off after the user is back |
| `grub_shutdown` | a setter holds `PropsMu` and sends; the loop, in `start`, needs `PropsMu`: the inhibitor stays |
| `airplane_recover` | the last write of `recover` unblocks what the ones before have blocked |
| `audio_sort` | `sortPorts` does not sort three ports in reverse order of their types |
| `autoconnect_limit` | an adapter that goes and comes back gets a second set of workers |
| `obex_cancel` | `CancelTransferSession` sends with the lock that `doSendFiles` needs to finish: both wait for ever |

The models show further behaviours that a maintainer would want to know. They
have no run of their own; the properties that pass are stated with the exception
they make necessary, named here in brackets.

* Loader: a disabled module that another one needs is started without
  `ErrorConflict` (`dag_builder.go:41`); `EnableModules` may return while
  `IsEnable` is false (`module.go:81`); a module switched off and on again
  releases its WaitGroup a second time, which panics (`HandlerDone`);
  `checkDependencies` asks for configured values to enable and for enabled flags
  to disable, while both change (`module.go:71`, `:82` of the session daemon); a
  read of the configuration that fails counts as FALSE until the next change of
  that key (`daemon.go:171`) [`lastRead.failed`].
* Grub: when queued tasks cannot be written, `running` stays true and the
  inhibitor stays (`modify_manger.go:103`); `Reset` sends after giving `PropsMu`
  back, so a setter may overtake it (`grub2_ifc.go:257`); a service killed
  between writing a file and recording it does not know that `grub.cfg` is out of
  date [`excused`]; a failed update-grub is logged as done (`modify_manger.go:148`).
* Screen saver: a program that dies with two inhibitors leaves one for good
  (`screensaver.go:294`); timeouts beyond 16 bits reach the X server as other
  numbers; an interval set during an inhibition is applied but not kept.
* Airplane mode: the first "add" event at start-up makes the file say that all
  radios are blocked until the second is read.
* Warn levels: two handlers that overlap leave a countdown nobody can stop
  [`raced`]; a tick that had already come acts after the countdown was stopped
  [`late`]; an update that read `HasBattery` before the battery came leaves the
  level None [`stale`]; settings that are stored out of order when the daemon starts
  are not checked before one of them changes (`warn_level_config.go:80`)
  [`wlHist.settings`].
* Lid: a goroutine scheduled after the next event listens to the wrong channel
  [`lateStart`]; closing may still be at work when the lid opens [`together`];
  `lidSwitchState` is set to "close" when the lid opens too (`lid_switch.go:106`),
  so the light sensor is not claimed again after the lid was used once:
  `SensorClaimed` is relative to that field.
* Session watcher: sessions that come or go between `ListSessions` and the
  connection of the signals are missed [`gap`]; `IsActive` keeps its value when
  the last session goes.
* Automatic connection: a device listed while the last worker is about to end is
  left [`missed`]; a worker of one adapter that takes another's device clears its
  `autoConnectFinished` for good [`crossed`]; for an adapter that is off when its last
  worker ends `startDiscoveryCb` leaves the flag cleared, until devices are
  connected again after it was switched on (`bluetooth.go:162`) [`dark`].
* Users' agents: a user removed during `RegisterAgent` leads to a write into a
  nil map [`removed`]; `watchSession` may use a value that has changed
  [`staleRead`]; an agent that dies while it registers stays [`stale`];
  `removeAgent` refuses exactly the paths that are registered (`agent.go:109`).
* File transfer: a transfer whose end is handled, or missed, before
  `AuthorizePush` returns leaves `Transportable` false [`aborted`]; one that ends
  before `receiveProgress` connects its handlers stays in `acceptedSessions` and
  sends no token, so that the next file of the session waits for ever with
  `acceptedSessionsMu` held (`obex_agent.go:199`) [`missed`]; two sessions that receive at a time share a
  channel of capacity one and may stop the agent's signal loop [`overlap`]; a
  transfer that ends just when it is cancelled leaves its status handler sending
  with no reader, and the loop of the bluetooth module stops (`StatusChanged`).
* Secret agent: with a dialog on the screen a second call answers without the
  secret [`skipped`]; one secret in the keyring is enough for no other to be asked
  for [`partly`]; a second call for a connection makes the first dialog
  uncancellable [`overlap`]; a dialog that has started and is not yet recorded cannot
  be cancelled (`secret_agent.go:508`); a `SaveSecrets` that fails at an item leaves
  secrets that should go, and `DeleteSecrets` does so without an error (`:198`)
  [`failed`]; the signal loop may block for ever (`loopStuck`).
* Audio: the switch counter is not reset by a success, so that after the limit
  the preferred port is not used (`FirstPortUsed`); while `autoSwitchPort` is off, or
  could not be read at the start, nothing is switched, and turning it on switches
  nothing before the next event [`skipped`].
* Search: a key pressed while a task is in `done` may leave the result of another
  key [`searchRaced`].
* Recorder: a launch behind the save that just ends, and a save that fails, reach
  the file only with the next change [`late`]; between the change of the map by
  `handleDirRemoved` and its `RequestSave` the file is behind [`unasked`]; a launch
  that no completed save has written is lost by a kill, and so is the record of an
  application whose file is away when the daemon starts [`filed`]; changes before the subdirectory is
  watched are missed [`gapApps`].
* Lock service: an error return keeps `authLocker` (`manager.go:154`) [`noPids`];
  a second password before the first is read blocks the service [`jammed`]; PAM
  that does not start leaves the channel in the table [`unstarted`]; two
  conversations of a client close each other's channels [`crossed2`].
* Event monitor: `fullscreenMotionCount` is not lowered by `UnregisterArea` and
  may go below zero; nothing is removed when a process dies.

## 6. Plan

Done: the modules above, in the order of the first plan, and two refinements.
What would come next:

1. *Theorems*: every invariant that a run checks is proved; the next ones would be
   about the recursive reference definitions that only TLC evaluates.
2. *Abstract specifications*: "the last value of every property is eventually in
   `grub.cfg`" for GrubModify without its exceptions.
3. *Components*: the pairing agent of the session, shortcuts and their conflicts,
   recorders of users that log in and out, several batteries.
4. Reading and setting `prepareSuspend` in two steps, with the lid and the
   countdown as its other users.

## 7. Not modelled

Most of the repository's lines are outside these models: about 7 of 100
implementation lines are mapped, and about 40 of 100 in the files that are
mapped at all. The reasons, by kind of code:

* *Generated tables and accessors*: `network/nm_setting_beans_gen.go`,
  `network/nm`, `inputdevices/iso639` and the like (over 15,000 lines) have no
  control of their own.
* *Mirrors of other services*: network manager, sinks and cards of audio,
  bluetooth adapters and devices, dock windows, tray icons, accounts, appearance,
  time and date, input devices, language, lastore. They read, write through and
  announce; what could go wrong is in the other service, which would have to be
  invented.
* *Protocols whose other half is outside*: grabs of keys, the X selection of the
  clipboard, fprintd, and the authority service (PAM and fprintd transactions
  with one caller each).
* *String heuristics and files*: window matching, desktop files, parsing of
  `grub.cfg`, themes.
* Inside modelled components: command lines and debug commands of the daemons; log
  levels of the loader; Wayland branches; the power-saving brightness; the VPN
  branch of the secret agent; volumes; notifications and sounds.
