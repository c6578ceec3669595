------------------------------- MODULE Loader -------------------------------
(***************************************************************************)
(* The module loader shared by dde-session-daemon and dde-system-daemon    *)
(* (src/loader).  EnableModules computes the modules to enable (the        *)
(* requested ones and everything they depend upon), refuses a cyclic       *)
(* graph, and starts one goroutine per module.  A goroutine waits until    *)
(* the WaitGroup of each dependency is released, then calls Enable(true)   *)
(* on its module: test the enabled flag, run Start, release the module's   *)
(* WaitGroup, set the flag.  The caller keeps the loader's lock until the  *)
(* WaitGroups of all the modules are released.                             *)
(*                                                                         *)
(* The slices of names are modelled as sets; the orders in which Go walks  *)
(* its maps are the nondeterminism of the actions.                         *)
(***************************************************************************)
EXTENDS Integers, FiniteSets

CONSTANTS
  Name,      \* all the module names that can occur
  Module,    \* the names registered with loader.Register
  Dep,       \* GetDependencies() of every registered module
  Call,      \* the calls of EnableModules
  Request,   \* argument enablingModules of each call
  Disable,   \* argument disableModules of each call
  Flag,      \* argument flag of each call, as the set of its bits
  DebugLog   \* whether the loader logs at LevelDebug when the call is made

FlagBit == {"IgnoreMissingModule", "ForceStart"}

ASSUME LoaderAssumption ==
  /\ Module \subseteq Name
  /\ Dep \in [Module -> SUBSET Name]
  /\ Request \in [Call -> SUBSET Name]
  /\ Disable \in [Call -> SUBSET Name]
  /\ Flag \in [Call -> SUBSET FlagBit]
  /\ DebugLog \in [Call -> BOOLEAN]

VARIABLES
  lock,      \* Loader.lock: the set of calls that hold it
  call,      \* progress and result of each call of EnableModules
  go,        \* progress of the goroutine of each call for each name
  enabled,   \* ModuleBase.enabled
  wg,        \* counter of ModuleBase.wg
  started,   \* history: the modules one of whose Start()s has succeeded
  stop,      \* StopAll: the modules it has not come to yet, once it runs
  proc       \* "up", or how the process ended

loaderVars == <<lock, call, go, enabled, wg, started, stop, proc>>

CallError == {"ErrorMissingModule", "ErrorConflict", "ErrorCircleDependencies"}
CallState == {"idle", "waiting", "returned"} \cup CallError
GoState   == {"none", "wait", "enable", "start", "done", "set", "end", "failed"}
ProcState == {"up", "fatal", "panic", "finished"}

NotStopping == [running |-> FALSE, left |-> {}]

-----------------------------------------------------------------------------
(* DAGBuilder.buildDAG: the work list starts with the requested names and  *)
(* the dependencies of every registered name taken from it are appended.   *)

DepsOf(n) == IF n \in Module THEN Dep[n] ELSE {}

ClosedUnderDeps(S) == \A n \in S : DepsOf(n) \subseteq S

Nodes == [c \in Call |-> {n \in Name : \A S \in SUBSET Name :
                 Request[c] \subseteq S /\ ClosedUnderDeps(S) => n \in S}]

Missing(c) == Nodes[c] \ Module

\* NewDAGBuilder keeps only the names that are NOT registered.
DisabledNames(c) == Disable[c] \ Module

\* Graph.TopologicalDag fails exactly when some names wait for one another.
Cyclic == [c \in Call |-> \E S \in SUBSET Nodes[c] :
                                S # {} /\ \A n \in S : DepsOf(n) \cap S # {}]

BuildError(c, e) ==
  \E n \in Missing(c) :
     \/ "IgnoreMissingModule" \notin Flag[c] /\ e = "ErrorMissingModule"
     \/ /\ "IgnoreMissingModule" \in Flag[c] /\ ~DebugLog[c]
        /\ n \in DisabledNames(c) /\ "ForceStart" \notin Flag[c]
        /\ e = "ErrorConflict"

\* A missing name that is neither an error nor skipped: the method call on
\* the nil Module panics.
BuildPanic(c) ==
  \E n \in Missing(c) :
     /\ "IgnoreMissingModule" \in Flag[c] /\ ~DebugLog[c]
     /\ n \notin DisabledNames(c) \/ "ForceStart" \in Flag[c]

BuildOK(c) == Missing(c) = {} \/ ("IgnoreMissingModule" \in Flag[c] /\ DebugLog[c])

-----------------------------------------------------------------------------
LoaderInit ==
  /\ lock = {}
  /\ call = [c \in Call |-> "idle"]
  /\ go = [c \in Call |-> [n \in Name |-> "none"]]
  /\ enabled = [m \in Module |-> FALSE]
  /\ wg = [m \in Module |-> 1]
  /\ started = {}
  /\ stop = NotStopping
  /\ proc = "up"

\* EnableModules gets the lock.  Nobody calls it once StopAll runs.
Callable(c) == proc = "up" /\ call[c] = "idle" /\ lock = {} /\ ~stop.running

\* EnableModules up to the error returns: nothing has been started yet and
\* the deferred Unlock releases the lock.
EnableModulesError(c, e) ==
  /\ Callable(c)
  /\ \/ BuildError(c, e)
     \/ BuildOK(c) /\ Cyclic[c] /\ e = "ErrorCircleDependencies"
  /\ call' = [call EXCEPT ![c] = e]
  /\ UNCHANGED <<lock, go, enabled, wg, started, stop, proc>>

EnableModulesPanic(c) ==
  /\ Callable(c)
  /\ BuildPanic(c)
  /\ proc' = "panic"
  /\ UNCHANGED <<lock, call, go, enabled, wg, started, stop>>

\* Mutant: the result of TopologicalDag is ignored.
EnableModulesSpawnCyclic(c) ==
  /\ Callable(c)
  /\ BuildOK(c)
  /\ lock' = {c}
  /\ call' = [call EXCEPT ![c] = "waiting"]
  /\ go' = [go EXCEPT ![c] = [n \in Name |-> IF n \in Nodes[c] THEN "wait" ELSE "none"]]
  /\ UNCHANGED <<enabled, wg, started, stop, proc>>

\* EnableModules spawns the goroutines and keeps the lock.
EnableModulesSpawn(c) ==
  /\ Callable(c)
  /\ BuildOK(c) /\ ~Cyclic[c]
  /\ lock' = {c}
  /\ call' = [call EXCEPT ![c] = "waiting"]
  /\ go' = [go EXCEPT ![c] = [n \in Name |-> IF n \in Nodes[c] THEN "wait" ELSE "none"]]
  /\ UNCHANGED <<enabled, wg, started, stop, proc>>

\* The caller has seen every WaitEnable return.
EnableModulesReturn(c) ==
  /\ proc = "up" /\ call[c] = "waiting"
  /\ \A n \in Nodes[c] : n \in Module /\ wg[n] = 0
  /\ call' = [call EXCEPT ![c] = "returned"]
  /\ lock' = lock \ {c}
  /\ UNCHANGED <<go, enabled, wg, started, stop, proc>>

-----------------------------------------------------------------------------
(* The goroutine of call c for module m.                                   *)

GoStep(c, m, from, to) ==
  /\ proc = "up" /\ go[c][m] = from
  /\ go' = [go EXCEPT ![c][m] = to]

\* l.modules[name] is nil for a name that is not registered.
NilModule(c, n) ==
  /\ GoStep(c, n, "wait", "failed")
  /\ ~(({n} \cup DepsOf(n)) \subseteq Module)
  /\ proc' = "panic"
  /\ UNCHANGED <<lock, call, enabled, wg, started, stop>>

\* Mutant: the goroutine does not wait.
WaitDependenciesSkipped(c, m) ==
  /\ m \in Module
  /\ GoStep(c, m, "wait", "enable")
  /\ UNCHANGED <<lock, call, enabled, wg, started, stop, proc>>

WaitDependencies(c, m) ==
  /\ m \in Module
  /\ GoStep(c, m, "wait", "enable")
  /\ \A d \in Dep[m] : d \in Module /\ wg[d] = 0
  /\ UNCHANGED <<lock, call, enabled, wg, started, stop, proc>>

\* Enable(true): the flag is clear.
EnableBegin(c, m) ==
  /\ GoStep(c, m, "enable", "start")
  /\ ~enabled[m]
  /\ UNCHANGED <<lock, call, enabled, wg, started, stop, proc>>

\* Enable(true) fails on a module that is already enabled, and Fatalf exits.
EnableAlready(c, m) ==
  /\ GoStep(c, m, "enable", "failed")
  /\ enabled[m]
  /\ proc' = "fatal"
  /\ UNCHANGED <<lock, call, enabled, wg, started, stop>>

StartOK(c, m) ==
  /\ GoStep(c, m, "start", "done")
  /\ started' = started \cup {m}
  /\ UNCHANGED <<lock, call, enabled, wg, stop, proc>>

StartError(c, m) ==
  /\ GoStep(c, m, "start", "failed")
  /\ proc' = "fatal"
  /\ UNCHANGED <<lock, call, enabled, wg, started, stop>>

WaitGroupDone(c, m) ==
  /\ GoStep(c, m, "done", "set")
  /\ wg[m] > 0
  /\ wg' = [wg EXCEPT ![m] = @ - 1]
  /\ UNCHANGED <<lock, call, enabled, started, stop, proc>>

WaitGroupNegative(c, m) ==
  /\ GoStep(c, m, "done", "failed")
  /\ wg[m] = 0
  /\ proc' = "panic"
  /\ UNCHANGED <<lock, call, enabled, wg, started, stop>>

SetEnabled(c, m) ==
  /\ GoStep(c, m, "set", "end")
  /\ enabled' = [enabled EXCEPT ![m] = TRUE]
  /\ UNCHANGED <<lock, call, wg, started, stop, proc>>

-----------------------------------------------------------------------------
(* StopAll, deferred by the main function of dde-system-daemon until the   *)
(* service ends; errors of Enable(false) are ignored.                      *)

StopAllBegin ==
  /\ proc = "up" /\ lock = {} /\ ~stop.running
  /\ stop' = [running |-> TRUE, left |-> Module]
  /\ UNCHANGED <<lock, call, go, enabled, wg, started, proc>>

\* Enable(false) on the next module: refused when it is not enabled, and
\* without effect when Stop fails.
StopModule(m, stopFails) ==
  /\ proc = "up" /\ stop.running /\ m \in stop.left
  /\ stop' = [running |-> TRUE, left |-> stop.left \ {m}]
  /\ enabled' = [enabled EXCEPT ![m] = @ /\ stopFails]
  /\ UNCHANGED <<lock, call, go, wg, started, proc>>

StopAllEnd ==
  /\ proc = "up" /\ stop.running /\ stop.left = {}
  /\ proc' = "finished"
  /\ UNCHANGED <<lock, call, go, enabled, wg, started, stop>>

-----------------------------------------------------------------------------
EnableModules(c) ==
  \/ \E e \in CallError : EnableModulesError(c, e)
  \/ EnableModulesPanic(c)
  \/ EnableModulesSpawn(c)
  \/ EnableModulesReturn(c)

Goroutine(c, n) ==
  \/ NilModule(c, n)
  \/ /\ n \in Module
     /\ \/ WaitDependencies(c, n)
        \/ EnableBegin(c, n)
        \/ EnableAlready(c, n)
        \/ StartOK(c, n)
        \/ StartError(c, n)
        \/ WaitGroupDone(c, n)
        \/ WaitGroupNegative(c, n)
        \/ SetEnabled(c, n)

StopAll ==
  \/ StopAllBegin
  \/ \E m \in Module, f \in BOOLEAN : StopModule(m, f)
  \/ StopAllEnd

LoaderNext ==
  \/ \E c \in Call : EnableModules(c) \/ \E n \in Name : Goroutine(c, n)
  \/ StopAll

\* The process may end and then does nothing more.
Ended == proc # "up" /\ UNCHANGED loaderVars

(* Goroutines and the caller are scheduled by the Go runtime, and Start is *)
(* synchronous and returns; nothing forces the daemon to call or to stop.  *)
LoaderProgress ==
  \E c \in Call : EnableModulesReturn(c) \/ \E n \in Nodes[c] : Goroutine(c, n)

LoaderFairness == WF_loaderVars(LoaderProgress)

LoaderSpec == LoaderInit /\ [][LoaderNext \/ Ended]_loaderVars /\ LoaderFairness

-----------------------------------------------------------------------------
LoaderTypeOK ==
  /\ lock \in SUBSET Call
  /\ call \in [Call -> CallState]
  /\ go \in [Call -> [Name -> GoState]]
  /\ enabled \in [Module -> BOOLEAN]
  /\ wg \in [Module -> {0, 1}]
  /\ started \in SUBSET Module
  /\ stop \in [running : BOOLEAN, left : SUBSET Module]
  /\ proc \in ProcState

Proceeding == {"enable", "start", "done", "set", "end"}

(* A goroutine is past WaitDependencies only when a Start of every        *)
(* dependency of its module has succeeded: a module never runs before     *)
(* what it needs.                                                         *)
DependenciesStartFirst ==
  \A c \in Call, m \in Module :
     go[c][m] \in Proceeding => Dep[m] \subseteq started

(* When EnableModules has returned without an error, every requested      *)
(* module and everything it needs has been started.                       *)
ReturnMeansStarted ==
  \A c \in Call : call[c] = "returned" => Nodes[c] \subseteq started

-----------------------------------------------------------------------------
Returned == {c \in Call : call[c] = "returned"}

Order == INSTANCE StartOrder
           WITH Items <- Module, Needs <- Dep, Clients <- Call, Wants <- Nodes,
                up <- started, answered <- Returned

(* EnableModules, its goroutines and StopAll together do no more than bring *)
(* up one module at a time, each after its dependencies, and answer a call  *)
(* when all it asked for is up.                                             *)
ImplementsStartOrder == Order!StartOrderSpec

(* A call that has spawned its goroutines comes back, unless the process   *)
(* ends: the graph it accepted cannot make the goroutines wait for one     *)
(* another.                                                                *)
CallReturns ==
  []<>(proc # "up" \/ \A c \in Call : call[c] # "waiting")
============================================================================
