---------------------------- MODULE SessionDaemon ----------------------------
(***************************************************************************)
(* dde-session-daemon (src/bin/dde-session-daemon) on top of the loader:   *)
(* the calls of EnableModules are part 1 and part 2 (with a DDE cookie) or *)
(* one call for everything (without), and a handler of the dconfig signal  *)
(* valueChanged enables and disables single modules while those calls run. *)
(* The handler takes the loader's lock only inside GetModule and List.     *)
(***************************************************************************)
EXTENDS Loader, Sequences

CONSTANTS
  Part,        \* the module names of each call, from initModules
  InitConfig,  \* the values initModules has read; a failed read is FALSE
  MaxChanges   \* bound: changes of dconfig values

\* initModules splits a part by the values it reads at start-up.
PartEnabled  == [c \in Call |-> {n \in Part[c] : InitConfig[n]}]
PartDisabled == [c \in Call |-> {n \in Part[c] : ~InitConfig[n]}]

ASSUME SessionAssumption ==
  /\ Part \in [Call -> SUBSET Module]
  /\ InitConfig \in [Name -> BOOLEAN]
  /\ Request = PartEnabled
  /\ Disable = PartDisabled
  /\ MaxChanges \in Nat

VARIABLES
  config,     \* the dconfig values
  changes,    \* number of changes so far
  signals,    \* keys of the valueChanged signals not handled yet
  onChange,   \* the handler, which moduleLocker makes one at a time
  lastRead    \* history: what the last getConfigValue returned, by module

sessionVars == <<config, changes, signals, onChange, lastRead>>
allVars     == <<loaderVars, sessionVars>>

\* left: the modules checkDependencies has still to look at.
Handler(pc, key, enable, left) ==
  [pc |-> pc, key |-> key, enable |-> enable, left |-> left]

Idle == Handler("idle", "none", FALSE, {})

\* What getConfigValue returned, and whether its call had failed.
Read(v, failed) == [value |-> v, failed |-> failed]

SessionInit ==
  /\ LoaderInit
  /\ config \in [Name -> BOOLEAN]
  /\ \A n \in Name : InitConfig[n] => config[n]
  /\ changes = 0
  /\ signals = <<>>
  /\ onChange = Idle
  /\ lastRead = [n \in Name |-> Read(InitConfig[n], config[n] # InitConfig[n])]

-----------------------------------------------------------------------------
\* Someone writes a value; the configuration service emits valueChanged.
ConfigChange(n) ==
  /\ proc = "up" /\ changes < MaxChanges
  /\ changes' = changes + 1
  /\ config' = [config EXCEPT ![n] = ~@]
  /\ signals' = Append(signals, n)
  /\ UNCHANGED <<loaderVars, onChange, lastRead>>

HandlerAt(pc) == proc = "up" /\ onChange.pc = pc

\* Mutant: the handler gives up when the loader's lock is taken.
ValueChangedTryLock ==
  /\ HandlerAt("idle") /\ signals # <<>>
  /\ signals' = Tail(signals)
  /\ onChange' = IF Head(signals) \in Module /\ lock = {}
                  THEN Handler("value", Head(signals), FALSE, {}) ELSE Idle
  /\ UNCHANGED <<loaderVars, config, changes, lastRead>>

\* The next signal: GetModule waits for the loader's lock.
ValueChanged ==
  /\ HandlerAt("idle") /\ signals # <<>> /\ lock = {}
  /\ signals' = Tail(signals)
  /\ onChange' = IF Head(signals) \in Module
                  THEN Handler("value", Head(signals), FALSE, {}) ELSE Idle
  /\ UNCHANGED <<loaderVars, config, changes, lastRead>>

Dependents(k) == {m \in Module \ {k} : k \in Dep[m]}

\* getConfigValue; a failed call counts as false.  For a module to disable,
\* checkDependencies then lists the modules, under the loader's lock.
GetConfigValue(fails) ==
  LET k == onChange.key
      v == config[k] /\ ~fails
  IN /\ HandlerAt("value")
     /\ v \/ lock = {}
     /\ onChange' = Handler("check", k, v, IF v THEN Dep[k] ELSE Dependents(k))
     /\ lastRead' = [lastRead EXCEPT ![k] = Read(v, fails)]
     /\ UNCHANGED <<loaderVars, config, changes, signals>>

\* Mutant: instead of refusing, the handler waits for the dependencies.
CheckDependenciesWaits(m, fails) ==
  /\ HandlerAt("check") /\ m \in onChange.left
  /\ IF onChange.enable THEN config[m] /\ ~fails ELSE ~enabled[m]
  /\ onChange' = [onChange EXCEPT !.left = @ \ {m}]
  /\ UNCHANGED <<loaderVars, config, changes, signals, lastRead>>

\* checkDependencies looks at one module after the other: to enable, at the
\* values configured for the dependencies; to disable, at the enabled flags
\* of the dependents.
CheckDependencies(m, fails) ==
  /\ HandlerAt("check") /\ m \in onChange.left
  /\ onChange' = IF IF onChange.enable THEN config[m] /\ ~fails ELSE ~enabled[m]
                  THEN [onChange EXCEPT !.left = @ \ {m}] ELSE Idle
  /\ UNCHANGED <<loaderVars, config, changes, signals, lastRead>>

DependenciesChecked ==
  /\ HandlerAt("check") /\ onChange.left = {}
  /\ onChange' = [onChange EXCEPT !.pc = "enable"]
  /\ UNCHANGED <<loaderVars, config, changes, signals, lastRead>>

\* module.Enable(enable): refused when the flag has that value already.
HandlerEnable ==
  /\ HandlerAt("enable")
  /\ onChange' = IF enabled[onChange.key] = onChange.enable
                  THEN Idle ELSE [onChange EXCEPT !.pc = "run"]
  /\ UNCHANGED <<loaderVars, config, changes, signals, lastRead>>

\* Start or Stop; on an error the handler only logs.
HandlerRun(fails) ==
  /\ HandlerAt("run")
  /\ onChange' = IF fails THEN Idle
                ELSE [onChange EXCEPT !.pc = IF onChange.enable THEN "done" ELSE "set"]
  /\ started' = IF onChange.enable /\ ~fails THEN started \cup {onChange.key} ELSE started
  /\ UNCHANGED <<lock, call, go, enabled, wg, stop, proc, config, changes, signals, lastRead>>

\* The second release of a WaitGroup panics.
HandlerDone ==
  LET k == onChange.key
  IN /\ HandlerAt("done")
     /\ wg' = [wg EXCEPT ![k] = IF @ > 0 THEN @ - 1 ELSE 0]
     /\ proc' = IF wg[k] > 0 THEN "up" ELSE "panic"
     /\ onChange' = [onChange EXCEPT !.pc = "set"]
     /\ UNCHANGED <<lock, call, go, enabled, started, stop, config, changes, signals, lastRead>>

HandlerSet ==
  /\ HandlerAt("set")
  /\ enabled' = [enabled EXCEPT ![onChange.key] = onChange.enable]
  /\ onChange' = Idle
  /\ UNCHANGED <<lock, call, go, wg, started, stop, proc, config, changes, signals, lastRead>>

-----------------------------------------------------------------------------
HandlerStep ==
  \/ ValueChanged
  \/ \E fails \in BOOLEAN : GetConfigValue(fails)
  \/ \E m \in Name, fails \in BOOLEAN : CheckDependencies(m, fails)
  \/ DependenciesChecked
  \/ HandlerEnable
  \/ \E fails \in BOOLEAN : HandlerRun(fails)
  \/ HandlerDone
  \/ HandlerSet

\* The session daemon never calls StopAll.
LoaderStep ==
  \E c \in Call : EnableModules(c) \/ \E n \in Name : Goroutine(c, n)

SessionNext ==
  \/ LoaderStep /\ UNCHANGED sessionVars
  \/ \E n \in Name : ConfigChange(n)
  \/ HandlerStep

\* Nothing left to do: the main loop runs and no value changes.
CallsFinished == \A c \in Call : call[c] \notin {"idle", "waiting"}

GoroutinesEnded == \A c \in Call, n \in Name : go[c][n] \in {"none", "end"}

SessionQuiet ==
  /\ onChange.pc = "idle" /\ signals = <<>>
  /\ CallsFinished /\ GoroutinesEnded

Rest == (proc # "up" \/ SessionQuiet) /\ UNCHANGED allVars

\* The loader's goroutines and the signal loop are scheduled by the Go
\* runtime; nobody has to change a value.
SessionProgress ==
  \/ LoaderProgress /\ UNCHANGED sessionVars
  \/ HandlerStep

SessionSpec == SessionInit /\ [][SessionNext \/ Rest]_allVars /\ WF_allVars(SessionProgress)

-----------------------------------------------------------------------------
(* The handler is level-triggered: it reads the value after taking the     *)
(* signal, so however the changes and the calls of EnableModules           *)
(* interleave, the last value it has acted on is the current one once no   *)
(* signal is pending.  The exception is a module for which the last call   *)
(* of getConfigValue failed: it has counted as FALSE, and nothing tries    *)
(* again before the next change.                                           *)
NoChangeLost ==
  signals = <<>> /\ onChange.pc # "value" =>
     \A m \in Module : ~lastRead[m].failed => lastRead[m].value = config[m]

(* The handler always comes back and takes the next signal: waiting for    *)
(* the lock that EnableModules holds, while EnableModules waits for        *)
(* modules the handler may be working on, is no deadlock.                  *)
SignalsHandled == []<>(signals = <<>> \/ proc # "up")

(* eventlog and dock are both allowed to start by default                  *)
(* (org.deepin.dde.daemon.loader.json): while no value changes and no      *)
(* Start fails, no goroutine of EnableModules finds its module enabled.    *)
DefaultsStart ==
  \A c \in Call, m \in Module : ~(changes = 0 /\ go[c][m] = "enable" /\ enabled[m])
============================================================================
