---------------------------- MODULE LoaderProofs ----------------------------
(***************************************************************************)
(* Proofs about Loader, for every set of modules, every dependency graph   *)
(* and every set of overlapping calls of EnableModules, about the module   *)
(* switches of SessionDaemon on top of it, and about the sort of the       *)
(* dependency graph, for every graph.  Among them: whoever waits in an     *)
(* accepted graph waits for something that can move.                       *)
(***************************************************************************)
EXTENDS SessionDaemon, TopologicalDag, FiniteSetTheorems, TLAPS

\* The parts of the inductive invariant.
\* A released WaitGroup, and a goroutine past Start, both mean that a Start
\* has succeeded.
ReleasedMeansStarted == \A m \in Module : wg[m] = 0 => m \in started

PastStart ==
  \A c \in Call, m \in Module : go[c][m] \in {"done", "set", "end"} => m \in started

LoaderInv ==
  /\ LoaderTypeOK
  /\ ReleasedMeansStarted
  /\ PastStart
  /\ DependenciesStartFirst
  /\ ReturnMeansStarted

\* What a goroutine's step does to go, and nothing else.
LEMMA GoStepType ==
  ASSUME LoaderTypeOK, NEW c \in Call, NEW m \in Name,
         NEW from \in GoState, NEW to \in GoState, GoStep(c, m, from, to)
  PROVE  /\ go' \in [Call -> [Name -> GoState]]
         /\ go[c][m] = from
         /\ go'[c][m] = to
         /\ \A k \in Call, n \in Name : <<k, n>> # <<c, m>> => go'[k][n] = go[k][n]
BY DEF LoaderTypeOK, GoStep

LEMMA NodesType == ASSUME NEW c \in Call PROVE Nodes[c] \subseteq Name
BY DEF Nodes

\* The loader starts with nothing started and every WaitGroup held.
LEMMA InitInv == LoaderInit => LoaderInv
BY LoaderAssumption
   DEF LoaderInit, LoaderInv, LoaderTypeOK, ReleasedMeansStarted, PastStart,
       DependenciesStartFirst, ReturnMeansStarted, NotStopping, CallState,
       GoState, ProcState, Proceeding

-----------------------------------------------------------------------------
(* One lemma for the steps of EnableModules, one for those of a goroutine  *)
(* and one for those of StopAll.                                           *)

LEMMA EnableModulesInv ==
  ASSUME LoaderInv, NEW c \in Call, EnableModules(c)
  PROVE  LoaderInv'
<1> USE LoaderAssumption
<1>1. CASE \E e \in CallError : EnableModulesError(c, e)
  <2>1. PICK e \in CallError : EnableModulesError(c, e)
    BY <1>1
  <2>2. call' \in [Call -> CallState] /\ \A k \in Call : call'[k] = "returned" => call[k] = "returned"
    BY <2>1 DEF EnableModulesError, LoaderInv, LoaderTypeOK, CallState, CallError
  <2> QED
    BY <2>1, <2>2 DEF EnableModulesError, LoaderInv, LoaderTypeOK, ReleasedMeansStarted,
       PastStart, DependenciesStartFirst, ReturnMeansStarted
<1>2. CASE EnableModulesPanic(c)
  BY <1>2 DEF EnableModulesPanic, LoaderInv, LoaderTypeOK, ReleasedMeansStarted,
     PastStart, DependenciesStartFirst, ReturnMeansStarted, ProcState
<1>3. CASE EnableModulesSpawn(c)
  <2>1. /\ call' \in [Call -> CallState]
        /\ \A k \in Call : call'[k] = "returned" => call[k] = "returned"
    BY <1>3 DEF EnableModulesSpawn, LoaderInv, LoaderTypeOK, CallState
  <2>2. /\ go' \in [Call -> [Name -> GoState]]
        /\ \A k \in Call, n \in Name : go'[k][n] \in {"wait", "none", go[k][n]}
    BY <1>3 DEF EnableModulesSpawn, LoaderInv, LoaderTypeOK, GoState
  <2>3. lock' \in SUBSET Call
    BY <1>3 DEF EnableModulesSpawn
  <2>4. LoaderTypeOK' /\ ReleasedMeansStarted' /\ ReturnMeansStarted'
    BY <1>3, <2>1, <2>2, <2>3 DEF EnableModulesSpawn, LoaderInv, LoaderTypeOK, ReleasedMeansStarted,
       ReturnMeansStarted
  <2>5. PastStart' /\ DependenciesStartFirst'
    BY <1>3, <2>2 DEF EnableModulesSpawn, LoaderInv, PastStart, DependenciesStartFirst, Proceeding
  <2> QED
    BY <2>4, <2>5 DEF LoaderInv
<1>4. CASE EnableModulesReturn(c)
  <2>1. /\ call' \in [Call -> CallState]
        /\ \A k \in Call : call'[k] = "returned" => k = c \/ call[k] = "returned"
    BY <1>4 DEF EnableModulesReturn, LoaderInv, LoaderTypeOK, CallState
  <2>2. Nodes[c] \subseteq started
    BY <1>4 DEF EnableModulesReturn, LoaderInv, ReleasedMeansStarted
  <2>3. lock' \in SUBSET Call
    BY <1>4 DEF EnableModulesReturn, LoaderInv, LoaderTypeOK
  <2> QED
    BY <1>4, <2>1, <2>2, <2>3 DEF EnableModulesReturn, LoaderInv, LoaderTypeOK,
       ReleasedMeansStarted, PastStart, DependenciesStartFirst, ReturnMeansStarted
<1> QED
  BY <1>1, <1>2, <1>3, <1>4 DEF EnableModules

\* A step of a goroutine that leaves wg and the set of started modules
\* alone, and does not jump over Start or over the wait.
LEMMA QuietGoStep ==
  ASSUME LoaderInv, NEW c \in Call, NEW m \in Name,
         NEW from \in GoState, NEW to \in GoState, GoStep(c, m, from, to),
         to \in Proceeding => from \in Proceeding,
         to \in {"done", "set", "end"} => from \in {"done", "set", "end"},
         proc' \in ProcState, enabled' \in [Module -> BOOLEAN],
         UNCHANGED <<lock, call, wg, started, stop>>
  PROVE  LoaderInv'
<1>1. /\ go' \in [Call -> [Name -> GoState]]
      /\ go[c][m] = from
      /\ go'[c][m] = to
      /\ \A k \in Call, n \in Name : <<k, n>> # <<c, m>> => go'[k][n] = go[k][n]
  BY GoStepType DEF LoaderInv
<1>2. LoaderTypeOK' /\ ReleasedMeansStarted' /\ ReturnMeansStarted'
  BY <1>1 DEF LoaderInv, LoaderTypeOK, ReleasedMeansStarted, ReturnMeansStarted
<1>3. ASSUME NEW k \in Call, NEW n \in Module
      PROVE  /\ go'[k][n] \in {"done", "set", "end"} => go[k][n] \in {"done", "set", "end"}
             /\ go'[k][n] \in Proceeding => go[k][n] \in Proceeding
  <2>1. n \in Name
    BY LoaderAssumption
  <2>2. CASE k = c /\ n = m
    BY <1>1, <2>2
  <2>3. CASE ~(k = c /\ n = m)
    BY <1>1, <2>1, <2>3
  <2> QED
    BY <2>2, <2>3
<1>4. PastStart' /\ DependenciesStartFirst'
  BY <1>3 DEF LoaderInv, PastStart, DependenciesStartFirst
<1> QED
  BY <1>2, <1>4 DEF LoaderInv

LEMMA GoroutineInv ==
  ASSUME LoaderInv, NEW c \in Call, NEW m \in Name, Goroutine(c, m)
  PROVE  LoaderInv'
<1> USE LoaderAssumption DEF GoState, ProcState, Proceeding
<1>1. CASE NilModule(c, m)
  BY <1>1, QuietGoStep, Zenon DEF NilModule, LoaderInv, LoaderTypeOK
<1>2. CASE m \in Module /\ WaitDependencies(c, m)
  <2>1. Dep[m] \subseteq started
    BY <1>2 DEF WaitDependencies, LoaderInv, ReleasedMeansStarted
  <2>2. /\ go' \in [Call -> [Name -> GoState]]
        /\ go'[c][m] = "enable"
        /\ \A k \in Call, n \in Name : <<k, n>> # <<c, m>> => go'[k][n] = go[k][n]
    BY <1>2, GoStepType DEF WaitDependencies, LoaderInv
  <2>3. PastStart' /\ DependenciesStartFirst'
    BY <1>2, <2>1, <2>2, SMTT(20) DEF WaitDependencies, LoaderInv, PastStart, DependenciesStartFirst
  <2> QED
    BY <1>2, <2>2, <2>3 DEF WaitDependencies, LoaderInv, LoaderTypeOK, ReleasedMeansStarted,
       ReturnMeansStarted
<1>3. CASE m \in Module /\ EnableBegin(c, m)
  BY <1>3, QuietGoStep, Zenon DEF EnableBegin, LoaderInv, LoaderTypeOK
<1>4. CASE m \in Module /\ EnableAlready(c, m)
  BY <1>4, QuietGoStep, Zenon DEF EnableAlready, LoaderInv, LoaderTypeOK
<1>5. CASE m \in Module /\ StartOK(c, m)
  <2>1. /\ go' \in [Call -> [Name -> GoState]]
        /\ go[c][m] = "start"
        /\ go'[c][m] = "done"
        /\ \A k \in Call, n \in Name : <<k, n>> # <<c, m>> => go'[k][n] = go[k][n]
    BY <1>5, GoStepType DEF StartOK, LoaderInv
  <2>2. started' = started \cup {m}
    BY <1>5 DEF StartOK
  <2>3. PastStart' /\ DependenciesStartFirst'
    BY <2>1, <2>2 DEF LoaderInv, PastStart, DependenciesStartFirst
  <2> QED
    BY <1>5, <2>1, <2>2, <2>3 DEF StartOK, LoaderInv, LoaderTypeOK, ReleasedMeansStarted,
       ReturnMeansStarted
<1>6. CASE m \in Module /\ StartError(c, m)
  BY <1>6, QuietGoStep, Zenon DEF StartError, LoaderInv, LoaderTypeOK
<1>7. CASE m \in Module /\ WaitGroupDone(c, m)
  <2>1. /\ go' \in [Call -> [Name -> GoState]]
        /\ go[c][m] = "done"
        /\ go'[c][m] = "set"
        /\ \A k \in Call, n \in Name : <<k, n>> # <<c, m>> => go'[k][n] = go[k][n]
    BY <1>7, GoStepType DEF WaitGroupDone, LoaderInv
  <2>2. m \in started
    BY <1>7, <2>1 DEF LoaderInv, PastStart
  <2>3. /\ wg' \in [Module -> {0, 1}]
        /\ \A n \in Module : n # m => wg'[n] = wg[n]
    BY <1>7 DEF WaitGroupDone, LoaderInv, LoaderTypeOK
  <2>4. ReleasedMeansStarted'
    BY <1>7, <2>2, <2>3 DEF WaitGroupDone, LoaderInv, ReleasedMeansStarted
  <2>5. PastStart'
    BY <1>7, <2>1, <2>2, SMTT(20) DEF WaitGroupDone, LoaderInv, PastStart
  <2>6. DependenciesStartFirst'
    <3>1. started' = started
      BY <1>7 DEF WaitGroupDone
    <3>2. \A k \in Call, n \in Module : go'[k][n] \in Proceeding => go[k][n] \in Proceeding
      BY <2>1
    <3>. QED
      BY <3>1, <3>2 DEF LoaderInv, DependenciesStartFirst
  <2>7. LoaderTypeOK' /\ ReturnMeansStarted'
    BY <1>7, <2>1, <2>3 DEF WaitGroupDone, LoaderInv, LoaderTypeOK, ReturnMeansStarted
  <2> QED
    BY <2>4, <2>5, <2>6, <2>7 DEF LoaderInv
<1>8. CASE m \in Module /\ WaitGroupNegative(c, m)
  BY <1>8, QuietGoStep, Zenon DEF WaitGroupNegative, LoaderInv, LoaderTypeOK
<1>9. CASE m \in Module /\ SetEnabled(c, m)
  <2>1. enabled' \in [Module -> BOOLEAN]
    BY <1>9 DEF SetEnabled, LoaderInv, LoaderTypeOK
  <2> QED
    BY <1>9, <2>1, QuietGoStep, Zenon DEF SetEnabled, LoaderInv, LoaderTypeOK
<1> QED
  BY <1>1, <1>2, <1>3, <1>4, <1>5, <1>6, <1>7, <1>8, <1>9 DEF Goroutine

LEMMA StopAllInv == LoaderInv /\ StopAll => LoaderInv'
<1> SUFFICES ASSUME LoaderInv, StopAll PROVE LoaderInv'
  OBVIOUS
<1>1. /\ UNCHANGED <<lock, call, go, wg, started>>
      /\ enabled' \in [Module -> BOOLEAN]
      /\ stop' \in [running : BOOLEAN, left : SUBSET Module]
      /\ proc' \in ProcState
  <2>1. CASE StopAllBegin
    <3>1. /\ UNCHANGED <<lock, call, go, enabled, wg, started, proc>>
          /\ stop' = [running |-> TRUE, left |-> Module]
      BY <2>1 DEF StopAllBegin
    <3> QED
      BY <3>1 DEF LoaderInv, LoaderTypeOK
  <2>3. CASE StopAllEnd
    <3>1. UNCHANGED <<lock, call, go, enabled, wg, started, stop>> /\ proc' = "finished"
      BY <2>3 DEF StopAllEnd
    <3> QED
      BY <3>1 DEF LoaderInv, LoaderTypeOK, ProcState
  <2>2. CASE \E m \in Module, f \in BOOLEAN : StopModule(m, f)
    <3>1. PICK m \in Module, f \in BOOLEAN : StopModule(m, f)
      BY <2>2
    <3>2. stop.left \subseteq Module /\ enabled[m] \in BOOLEAN
      BY DEF LoaderInv, LoaderTypeOK
    <3>3. enabled' \in [Module -> BOOLEAN]
      BY <3>1, <3>2 DEF StopModule, LoaderInv, LoaderTypeOK
    <3>4. UNCHANGED <<lock, call, go, wg, started, proc>>
      BY <3>1 DEF StopModule
    <3>5. stop' = [running |-> TRUE, left |-> stop.left \ {m}]
      BY <3>1 DEF StopModule
    <3> QED
      BY <3>2, <3>3, <3>4, <3>5 DEF LoaderInv, LoaderTypeOK
  <2> QED
    BY <2>1, <2>2, <2>3 DEF StopAll
<1> QED
  BY <1>1 DEF LoaderInv, LoaderTypeOK, ReleasedMeansStarted, PastStart,
     DependenciesStartFirst, ReturnMeansStarted

-----------------------------------------------------------------------------
LEMMA LoaderInvariant == LoaderSpec => []LoaderInv
<1>1. LoaderInv /\ [LoaderNext \/ Ended]_loaderVars => LoaderInv'
  <2> SUFFICES ASSUME LoaderInv, [LoaderNext \/ Ended]_loaderVars PROVE LoaderInv'
    OBVIOUS
  <2>1. CASE UNCHANGED loaderVars
    BY <2>1 DEF loaderVars, LoaderInv, LoaderTypeOK, ReleasedMeansStarted, PastStart,
       DependenciesStartFirst, ReturnMeansStarted
  <2>2. CASE LoaderNext
    BY <2>2, EnableModulesInv, GoroutineInv, StopAllInv DEF LoaderNext
  <2> QED
    BY <2>1, <2>2 DEF Ended
<1> QED
  BY InitInv, <1>1, PTL DEF LoaderSpec

(* The variables of the loader keep their types; in particular no          *)
(* interleaving of calls takes a WaitGroup below zero without the panic.   *)
THEOREM LoaderTypeCorrect == LoaderSpec => []LoaderTypeOK
BY LoaderInvariant, PTL DEF LoaderInv

(* Loader.WaitDependencies is enough: for every graph and every overlap of *)
(* calls, a module is enabled only after a Start of each of its            *)
(* dependencies has succeeded.                                             *)
THEOREM DependenciesAlwaysStartFirst == LoaderSpec => []DependenciesStartFirst
BY LoaderInvariant, PTL DEF LoaderInv

(* An EnableModules that returned nil has started all it had to start.     *)
THEOREM ReturnAlwaysMeansStarted == LoaderSpec => []ReturnMeansStarted
BY LoaderInvariant, PTL DEF LoaderInv

-----------------------------------------------------------------------------
(* The refinement: the loader maps to StartOrder with the modules that     *)
(* were started and the calls that returned nil.                           *)

\* A step of EnableModules answers the call or changes nothing that maps.
LEMMA EnableModulesMaps ==
  ASSUME LoaderInv, NEW c \in Call, EnableModules(c)
  PROVE  Order!OrderNext \/ UNCHANGED Order!orderVars
<1>1. CASE \E e \in CallError : EnableModulesError(c, e)
  <2>1. PICK e \in CallError : EnableModulesError(c, e)
    BY <1>1
  <2>2. \A k \in Call : call'[k] = "returned" <=> call[k] = "returned"
    BY <2>1 DEF EnableModulesError, Callable, LoaderInv, LoaderTypeOK, CallError
  <2> QED
    BY <2>1, <2>2 DEF EnableModulesError, Returned, Order!orderVars
<1>2. CASE EnableModulesPanic(c)
  BY <1>2 DEF EnableModulesPanic, Returned, Order!orderVars
<1>3. CASE EnableModulesSpawn(c)
  <2>1. \A k \in Call : call'[k] = "returned" <=> call[k] = "returned"
    BY <1>3 DEF EnableModulesSpawn, Callable, LoaderInv, LoaderTypeOK
  <2> QED
    BY <1>3, <2>1 DEF EnableModulesSpawn, Returned, Order!orderVars
<1>4. CASE EnableModulesReturn(c)
  <2>1. Returned' = Returned \cup {c}
    BY <1>4 DEF EnableModulesReturn, Returned, LoaderInv, LoaderTypeOK
  <2>2. Nodes[c] \subseteq started
    BY <1>4 DEF EnableModulesReturn, LoaderInv, ReleasedMeansStarted
  <2>3. UNCHANGED started
    BY <1>4 DEF EnableModulesReturn
  <2>4. Order!Answer(c)
    BY <2>1, <2>2, <2>3 DEF Order!Answer
  <2> QED
    BY <2>4 DEF Order!OrderNext
<1> QED
  BY <1>1, <1>2, <1>3, <1>4 DEF EnableModules

\* A step of a goroutine starts its module or changes nothing that maps.
LEMMA GoroutineMaps ==
  ASSUME LoaderInv, NEW c \in Call, NEW m \in Name, Goroutine(c, m)
  PROVE  Order!OrderNext \/ UNCHANGED Order!orderVars
<1>1. UNCHANGED call
  BY DEF Goroutine, NilModule, WaitDependencies, EnableBegin, EnableAlready, StartOK, StartError,
         WaitGroupDone, WaitGroupNegative, SetEnabled
<1>2. UNCHANGED Returned
  BY <1>1 DEF Returned
<1>3. CASE m \in Module /\ StartOK(c, m)
  <2>1. Dep[m] \subseteq started
    BY <1>3 DEF StartOK, GoStep, LoaderInv, DependenciesStartFirst, Proceeding
  <2>2. Order!StartItem(m)
    BY <1>2, <1>3, <2>1 DEF StartOK, Order!StartItem
  <2> QED
    BY <1>3, <2>2 DEF Order!OrderNext
<1>4. CASE ~(m \in Module /\ StartOK(c, m))
  <2>1. UNCHANGED started
    BY <1>4 DEF Goroutine, NilModule, WaitDependencies, EnableBegin, EnableAlready, StartError,
       WaitGroupDone, WaitGroupNegative, SetEnabled
  <2> QED
    BY <1>2, <2>1 DEF Order!orderVars
<1> QED
  BY <1>3, <1>4

LEMMA StopAllMaps == StopAll => UNCHANGED Order!orderVars
BY DEF StopAll, StopAllBegin, StopModule, StopAllEnd, Returned, Order!orderVars

(* The loader implements StartOrder: for every set of modules, every       *)
(* dependency graph and every overlap of calls, what EnableModules, its    *)
(* goroutines and StopAll do amounts to starting modules one by one, each  *)
(* after its dependencies, and answering calls whose modules are up.       *)
THEOREM LoaderImplementsStartOrder == LoaderSpec => ImplementsStartOrder
<1>1. LoaderInit => Order!OrderInit
  BY DEF LoaderInit, Returned, Order!OrderInit
<1>2. LoaderInv /\ [LoaderNext \/ Ended]_loaderVars => [Order!OrderNext]_Order!orderVars
  <2> SUFFICES ASSUME LoaderInv, [LoaderNext \/ Ended]_loaderVars
               PROVE  Order!OrderNext \/ UNCHANGED Order!orderVars
    OBVIOUS
  <2>1. CASE UNCHANGED loaderVars
    BY <2>1 DEF loaderVars, Returned, Order!orderVars
  <2>2. CASE LoaderNext
    BY <2>2, EnableModulesMaps, GoroutineMaps, StopAllMaps DEF LoaderNext
  <2> QED
    BY <2>1, <2>2 DEF Ended
<1> QED
  BY <1>1, <1>2, LoaderInvariant, PTL DEF LoaderSpec, ImplementsStartOrder, Order!StartOrderSpec

-----------------------------------------------------------------------------
(* Nobody waits for ever.  Progress under fairness is for TLC (CallReturns *)
(* and SignalsHandled); what depends on the graph is proved here, for      *)
(* every graph: whoever waits, somebody can move.  The conditions of the   *)
(* steps are written out.                                                  *)

\* A step of the goroutine of call c for n is possible.
GoroutineCanMove(c, n) ==
  \/ go[c][n] = "wait" /\ ~(({n} \cup DepsOf(n)) \subseteq Module)
  \/ /\ n \in Module
     /\ \/ go[c][n] = "wait" /\ \A d \in Dep[n] : d \in Module /\ wg[d] = 0
        \/ go[c][n] \in {"enable", "start", "done", "set"}

\* EnableModules has nothing to wait for any more, or one of its goroutines
\* can move.
CanGoOn(c) ==
  \/ \A n \in Nodes[c] : n \in Module /\ wg[n] = 0
  \/ \E n \in Nodes[c] : GoroutineCanMove(c, n)

CallCanGoOn == \A c \in Call : proc = "up" /\ call[c] = "waiting" => CanGoOn(c)

\* The inductive invariant: a call that waits was accepted and has all its
\* goroutines, one that failed has ended the process, and one that is past
\* the release has left its WaitGroup at zero.
WaitTypes ==
  /\ lock \subseteq Call
  /\ call \in [Call -> CallState]
  /\ go \in [Call -> [Name -> GoState]]
  /\ wg \in [Module -> {0, 1}]

Accepted ==
  \A c \in Call : call[c] = "waiting" => ~Cyclic[c] /\ \A n \in Nodes[c] : go[c][n] # "none"

LockHeld == \A c \in lock : call[c] = "waiting"

GoroutineFits(c, n) ==
  /\ go[c][n] = "failed" => proc # "up"
  /\ go[c][n] \in Proceeding => n \in Module
  /\ go[c][n] \in {"set", "end"} => wg[n] = 0

GoroutinesFit == \A c \in Call, n \in Name : GoroutineFits(c, n)

WaitInv == WaitTypes /\ Accepted /\ LockHeld /\ GoroutinesFit

LEMMA WaitInit == LoaderInit => WaitInv
BY DEF LoaderInit, WaitInv, WaitTypes, Accepted, LockHeld, GoroutinesFit, GoroutineFits,
       CallState, GoState, Proceeding

\* Steps that only end the process or release WaitGroups.
LEMMA WaitOthers ==
  ASSUME WaitInv, UNCHANGED <<lock, call, go>>, proc' = "up" => proc = "up",
         wg' \in [Module -> {0, 1}], \A m \in Module : wg[m] = 0 => wg'[m] = 0
  PROVE  WaitInv'
<1>1. WaitTypes' /\ Accepted' /\ LockHeld'
  BY DEF WaitInv, WaitTypes, Accepted, LockHeld
<1>2. GoroutinesFit'
  BY DEF WaitInv, GoroutinesFit, GoroutineFits, Proceeding
<1> QED
  BY <1>1, <1>2 DEF WaitInv

\* A step of one goroutine.
LEMMA WaitGoStep ==
  ASSUME WaitInv, NEW c \in Call, NEW m \in Name,
         NEW from \in GoState, NEW to \in GoState \ {"none"}, GoStep(c, m, from, to),
         UNCHANGED <<lock, call>>,
         wg' \in [Module -> {0, 1}], \A n \in Module : wg[n] = 0 => wg'[n] = 0,
         to = "failed" => proc' # "up",
         to \in Proceeding => m \in Module,
         to \in {"set", "end"} => wg'[m] = 0
  PROVE  WaitInv'
<1>1. /\ go' \in [Call -> [Name -> GoState]]
      /\ go'[c][m] = to
      /\ \A k \in Call, n \in Name : <<k, n>> # <<c, m>> => go'[k][n] = go[k][n]
      /\ proc = "up"
  BY DEF WaitInv, WaitTypes, GoStep
<1>2. WaitTypes' /\ LockHeld'
  BY <1>1 DEF WaitInv, WaitTypes, LockHeld
<1>3. Accepted'
  BY <1>1, NodesType DEF WaitInv, Accepted
<1>4. ASSUME NEW k \in Call, NEW n \in Name PROVE GoroutineFits(k, n)'
  <2>1. CASE k = c /\ n = m
    BY <1>1, <2>1 DEF GoroutineFits
  <2>2. CASE ~(k = c /\ n = m)
    <3>1. go'[k][n] = go[k][n] /\ GoroutineFits(k, n)
      BY <1>1, <2>2 DEF WaitInv, GoroutinesFit
    <3>2. go[k][n] # "failed"
      BY <1>1, <3>1 DEF GoroutineFits
    <3> QED
      BY <3>1, <3>2 DEF GoroutineFits, Proceeding
  <2> QED
    BY <2>1, <2>2
<1> QED
  BY <1>2, <1>3, <1>4 DEF WaitInv, GoroutinesFit

LEMMA WaitGoroutine ==
  ASSUME WaitInv, NEW c \in Call, NEW m \in Name, Goroutine(c, m)
  PROVE  WaitInv'
<1> USE DEF GoState, Proceeding
<1>0. /\ GoroutineFits(c, m) /\ wg \in [Module -> {0, 1}]
      /\ m \in Module => wg[m] \in {0, 1}
  BY DEF WaitInv, WaitTypes, GoroutinesFit
<1>1. CASE NilModule(c, m)
  BY <1>0, <1>1, WaitGoStep DEF NilModule
<1>2. CASE m \in Module /\ WaitDependencies(c, m)
  BY <1>0, <1>2, WaitGoStep DEF WaitDependencies
<1>3. CASE m \in Module /\ EnableBegin(c, m)
  BY <1>0, <1>3, WaitGoStep DEF EnableBegin
<1>4. CASE m \in Module /\ EnableAlready(c, m)
  BY <1>0, <1>4, WaitGoStep DEF EnableAlready
<1>5. CASE m \in Module /\ StartOK(c, m)
  BY <1>0, <1>5, WaitGoStep DEF StartOK
<1>6. CASE m \in Module /\ StartError(c, m)
  BY <1>0, <1>6, WaitGoStep DEF StartError
<1>7. CASE m \in Module /\ WaitGroupDone(c, m)
  <2>1. /\ wg' \in [Module -> {0, 1}] /\ wg'[m] = 0
        /\ \A n \in Module : wg[n] = 0 => wg'[n] = 0
    BY <1>0, <1>7 DEF WaitGroupDone
  <2> QED
    BY <1>7, <2>1, WaitGoStep DEF WaitGroupDone
<1>8. CASE m \in Module /\ WaitGroupNegative(c, m)
  BY <1>0, <1>8, WaitGoStep DEF WaitGroupNegative
<1>9. CASE m \in Module /\ SetEnabled(c, m)
  <2>1. wg[m] = 0
    BY <1>0, <1>9 DEF SetEnabled, GoStep, GoroutineFits
  <2> QED
    BY <1>0, <1>9, <2>1, WaitGoStep DEF SetEnabled
<1> QED
  BY <1>1, <1>2, <1>3, <1>4, <1>5, <1>6, <1>7, <1>8, <1>9 DEF Goroutine

LEMMA WaitEnableModules ==
  ASSUME WaitInv, NEW c \in Call, EnableModules(c)
  PROVE  WaitInv'
<1>1. CASE \E e \in CallError : EnableModulesError(c, e)
  <2>1. PICK e \in CallError : EnableModulesError(c, e)
    BY <1>1
  <2>2. /\ UNCHANGED <<lock, go, wg, proc>> /\ lock = {}
        /\ call' \in [Call -> CallState]
        /\ \A k \in Call : call'[k] = "waiting" => call[k] = "waiting"
    BY <2>1 DEF EnableModulesError, Callable, WaitInv, WaitTypes, CallState, CallError
  <2> QED
    BY <2>2 DEF WaitInv, WaitTypes, Accepted, LockHeld, GoroutinesFit, GoroutineFits
<1>2. CASE EnableModulesPanic(c)
  BY <1>2, WaitOthers DEF EnableModulesPanic, WaitInv, WaitTypes
<1>3. CASE EnableModulesSpawn(c)
  <2>1. /\ lock' = {c} /\ UNCHANGED <<wg, proc>> /\ ~Cyclic[c]
        /\ call' \in [Call -> CallState] /\ call'[c] = "waiting"
        /\ \A k \in Call : k # c => call'[k] = call[k]
    BY <1>3 DEF EnableModulesSpawn, WaitInv, WaitTypes, CallState
  <2>2. /\ go' \in [Call -> [Name -> GoState]]
        /\ \A n \in Name : go'[c][n] = IF n \in Nodes[c] THEN "wait" ELSE "none"
        /\ \A k \in Call : k # c => go'[k] = go[k]
    BY <1>3 DEF EnableModulesSpawn, WaitInv, WaitTypes, GoState
  <2>3. WaitTypes' /\ LockHeld'
    BY <2>1, <2>2 DEF WaitInv, WaitTypes, LockHeld
  <2>4. Accepted'
    BY <2>1, <2>2, NodesType DEF WaitInv, Accepted
  <2>5. GoroutinesFit'
    BY <2>1, <2>2 DEF WaitInv, GoroutinesFit, GoroutineFits, Proceeding
  <2> QED
    BY <2>3, <2>4, <2>5 DEF WaitInv
<1>4. CASE EnableModulesReturn(c)
  <2>1. /\ UNCHANGED <<go, wg, proc>> /\ lock' = lock \ {c}
        /\ call' \in [Call -> CallState] /\ call'[c] = "returned"
        /\ \A k \in Call : k # c => call'[k] = call[k]
    BY <1>4 DEF EnableModulesReturn, WaitInv, WaitTypes, CallState
  <2> QED
    BY <2>1 DEF WaitInv, WaitTypes, Accepted, LockHeld, GoroutinesFit, GoroutineFits
<1> QED
  BY <1>1, <1>2, <1>3, <1>4 DEF EnableModules

LEMMA WaitStopAll == WaitInv /\ StopAll => WaitInv'
<1> SUFFICES ASSUME WaitInv, StopAll PROVE WaitInv'
  OBVIOUS
<1>1. UNCHANGED <<lock, call, go, wg>> /\ (proc' = "up" => proc = "up")
  BY DEF StopAll, StopAllBegin, StopModule, StopAllEnd
<1> QED
  BY <1>1, WaitOthers DEF WaitInv, WaitTypes

\* The names of a call are closed under dependencies.
LEMMA NodesClosed ==
  ASSUME NEW c \in Call, NEW n \in Nodes[c], NEW d \in DepsOf(n)
  PROVE  d \in Nodes[c]
<1>1. DepsOf(n) \subseteq Name
  BY LoaderAssumption DEF DepsOf
<1>2. ASSUME NEW S \in SUBSET Name, Request[c] \subseteq S, ClosedUnderDeps(S) PROVE d \in S
  <2>1. n \in S
    BY <1>2 DEF Nodes
  <2> QED
    BY <1>2, <2>1 DEF ClosedUnderDeps
<1> QED
  BY <1>1, <1>2 DEF Nodes

\* If no goroutine of a call can move, those that still wait would be a set
\* of names each of which waits for another one of the set, which is what
\* EnableModules has ruled out.
LEMMA WaitingCanGoOn ==
  ASSUME WaitInv, NEW c \in Call, proc = "up", call[c] = "waiting"
  PROVE  CanGoOn(c)
<1> SUFFICES ASSUME \A n \in Nodes[c] : ~GoroutineCanMove(c, n)
             PROVE  \A n \in Nodes[c] : n \in Module /\ wg[n] = 0
  BY DEF CanGoOn
<1>1. ASSUME NEW n \in Nodes[c]
      PROVE  /\ go[c][n] \in {"wait", "end"}
             /\ go[c][n] = "end" => n \in Module /\ wg[n] = 0
  <2>1. n \in Name /\ go[c][n] \in GoState /\ GoroutineFits(c, n) /\ go[c][n] # "none"
    BY NodesType DEF WaitInv, WaitTypes, Accepted, GoroutinesFit
  <2>2. go[c][n] # "failed"
    BY <2>1 DEF GoroutineFits
  <2>3. go[c][n] \notin {"enable", "start", "done", "set"}
    BY <2>1 DEF GoroutineFits, GoroutineCanMove, Proceeding
  <2> QED
    BY <2>1, <2>2, <2>3 DEF GoState, GoroutineFits, Proceeding
<1> DEFINE W == {n \in Nodes[c] : go[c][n] = "wait"}
<1>2. ASSUME NEW n \in W PROVE DepsOf(n) \cap W # {}
  <2>1. n \in Nodes[c] /\ go[c][n] = "wait" /\ ~GoroutineCanMove(c, n)
    OBVIOUS
  <2>2. ({n} \cup DepsOf(n)) \subseteq Module
    BY <2>1 DEF GoroutineCanMove
  <2>3. n \in Module /\ DepsOf(n) = Dep[n]
    BY <2>2 DEF DepsOf
  <2>4. PICK d \in Dep[n] : ~(d \in Module /\ wg[d] = 0)
    BY <2>1, <2>3 DEF GoroutineCanMove
  <2>5. d \in Nodes[c]
    BY <2>1, <2>3, <2>4, NodesClosed
  <2>6. d \in W
    BY <1>1, <2>4, <2>5
  <2> QED
    BY <2>3, <2>4, <2>6
<1>3. ~Cyclic[c]
  BY DEF WaitInv, Accepted
<1>4. W = {}
  <2>1. W \in SUBSET Nodes[c]
    OBVIOUS
  <2> HIDE DEF W
  <2> QED
    BY <1>2, <1>3, <2>1 DEF Cyclic
<1> QED
  BY <1>1, <1>4

(* The goroutines of EnableModules never wait for one another: as long as  *)
(* a call waits, it can return or one of its goroutines can move, for      *)
(* every dependency graph, overlap of calls and stop of the modules.       *)
THEOREM CallsCanAlwaysGoOn == LoaderSpec => []CallCanGoOn
<1>1. WaitInv /\ [LoaderNext \/ Ended]_loaderVars => WaitInv'
  <2> SUFFICES ASSUME WaitInv, [LoaderNext \/ Ended]_loaderVars PROVE WaitInv'
    OBVIOUS
  <2>1. CASE UNCHANGED loaderVars
    BY <2>1, WaitOthers DEF loaderVars, WaitInv, WaitTypes
  <2>2. CASE LoaderNext
    BY <2>2, WaitEnableModules, WaitGoroutine, WaitStopAll DEF LoaderNext
  <2> QED
    BY <2>1, <2>2 DEF Ended
<1>2. WaitInv => CallCanGoOn
  BY WaitingCanGoOn DEF CallCanGoOn
<1> QED
  BY WaitInit, <1>1, <1>2, PTL DEF LoaderSpec

-----------------------------------------------------------------------------
(* The session daemon: a module whose value the handler has not acted on   *)
(* has a signal in the queue, or the handler is about to read its value.   *)
Signalled(q, m) == \E i \in 1..Len(q) : q[i] = m

IsHandler(h) == h = Handler(h.pc, h.key, h.enable, h.left)

ChangeTypes ==
  /\ config \in [Name -> BOOLEAN]
  /\ lastRead \in [Name -> [value : BOOLEAN, failed : BOOLEAN]]
  /\ signals \in Seq(Name)
  /\ IsHandler(onChange) /\ (onChange.pc = "value" => onChange.key \in Module)

ChangeFollowed ==
  \A m \in Module : \/ lastRead[m].failed
                    \/ lastRead[m].value = config[m]
                    \/ Signalled(signals, m)
                    \/ onChange.pc = "value" /\ onChange.key = m

ChangeInv == ChangeTypes /\ ChangeFollowed

LEMMA HandlerMade ==
  ASSUME NEW pc, NEW key, NEW enable, NEW left
  PROVE  LET h == Handler(pc, key, enable, left)
         IN IsHandler(h) /\ h.pc = pc /\ h.key = key
BY DEF Handler, IsHandler

LEMMA HandlerMoved ==
  ASSUME NEW h, IsHandler(h), NEW pc, NEW left
  PROVE  /\ IsHandler([h EXCEPT !.pc = pc]) /\ [h EXCEPT !.pc = pc].pc = pc
         /\ IsHandler([h EXCEPT !.left = left]) /\ [h EXCEPT !.left = left].pc = h.pc
<1> DEFINE g == Handler(h.pc, h.key, h.enable, h.left)
<1>1. h = g
  BY DEF IsHandler
<1>2. /\ [g EXCEPT !.pc = pc] = Handler(pc, h.key, h.enable, h.left)
      /\ [g EXCEPT !.left = left] = Handler(h.pc, h.key, h.enable, left)
  BY DEF Handler
<1> QED
  BY <1>1, <1>2, HandlerMade

LEMMA ChangeInvInit == SessionInit => ChangeInv
<1>1. IsHandler(Idle) /\ Idle.pc = "idle"
  BY DEF Idle, Handler, IsHandler
<1>2. ASSUME SessionInit
      PROVE  /\ config \in [Name -> BOOLEAN]
             /\ lastRead = [n \in Name |-> Read(InitConfig[n], config[n] # InitConfig[n])]
             /\ signals = <<>> /\ onChange = Idle
  BY <1>2 DEF SessionInit
<1>3. ASSUME SessionInit, NEW n \in Name
      PROVE  /\ lastRead[n] \in [value : BOOLEAN, failed : BOOLEAN]
             /\ lastRead[n].failed \/ lastRead[n].value = config[n]
  <2>1. InitConfig[n] \in BOOLEAN /\ config[n] \in BOOLEAN
    BY <1>2, <1>3, SessionAssumption
  <2>2. lastRead[n] = Read(InitConfig[n], config[n] # InitConfig[n])
    BY <1>2, <1>3
  <2> QED
    BY <2>1, <2>2 DEF Read
<1>4. Module \subseteq Name
  BY LoaderAssumption
<1> QED
  BY <1>1, <1>2, <1>3, <1>4 DEF ChangeInv, ChangeTypes, ChangeFollowed

LEMMA SignalSent ==
  ASSUME NEW q \in Seq(Name), NEW n \in Name
  PROVE  /\ Append(q, n) \in Seq(Name) /\ Signalled(Append(q, n), n)
         /\ \A m : Signalled(q, m) => Signalled(Append(q, n), m)
<1> DEFINE r == Append(q, n)
<1>1. /\ r \in Seq(Name) /\ Len(q) \in Nat /\ Len(r) = Len(q) + 1
      /\ r[Len(q) + 1] = n /\ \A i \in 1..Len(q) : r[i] = q[i]
  OBVIOUS
<1> HIDE DEF r
<1>2. Signalled(r, n) /\ \A m : Signalled(q, m) => Signalled(r, m)
  BY <1>1 DEF Signalled
<1> QED
  BY <1>1, <1>2 DEF r

LEMMA SignalTaken ==
  ASSUME NEW q \in Seq(Name), q # <<>>
  PROVE  /\ Tail(q) \in Seq(Name) /\ Head(q) \in Name
         /\ \A m : Signalled(q, m) => Signalled(Tail(q), m) \/ m = Head(q)
<1> DEFINE r == Tail(q)
<1>1. /\ r \in Seq(Name) /\ Len(q) \in Nat /\ Len(r) = Len(q) - 1 /\ Head(q) = q[1] /\ q[1] \in Name
      /\ \A i \in 1..Len(q) : i # 1 => i - 1 \in 1..Len(r) /\ r[i - 1] = q[i]
  OBVIOUS
<1> HIDE DEF r
<1>2. \A m : Signalled(q, m) => Signalled(r, m) \/ m = Head(q)
  BY <1>1 DEF Signalled
<1> QED
  BY <1>1, <1>2 DEF r

\* Most steps of the handler are about the module, not about the value.
LEMMA ValueAlone ==
  ASSUME ChangeInv, UNCHANGED <<config, signals, lastRead>>, IsHandler(onChange'),
         onChange.pc # "value", onChange'.pc # "value"
  PROVE  ChangeInv'
BY DEF ChangeInv, ChangeTypes, ChangeFollowed

LEMMA ConfigChangeKeeps ==
  ASSUME ChangeInv, NEW n \in Name, ConfigChange(n) PROVE ChangeInv'
<1>1. /\ config' = [config EXCEPT ![n] = ~@] /\ signals' = Append(signals, n)
      /\ UNCHANGED <<onChange, lastRead>>
  BY DEF ConfigChange
<1>2. /\ signals' \in Seq(Name) /\ Signalled(signals', n)
      /\ \A m : Signalled(signals, m) => Signalled(signals', m)
  BY <1>1, SignalSent DEF ChangeInv, ChangeTypes
<1>3. config' \in [Name -> BOOLEAN] /\ \A m \in Name : m # n => config'[m] = config[m]
  BY <1>1 DEF ChangeInv, ChangeTypes
<1>4. Module \subseteq Name
  BY LoaderAssumption
<1> QED
  BY <1>1, <1>2, <1>3, <1>4 DEF ChangeInv, ChangeTypes, ChangeFollowed

LEMMA ValueChangedKeeps == ASSUME ChangeInv, ValueChanged PROVE ChangeInv'
<1>1. /\ signals # <<>> /\ signals' = Tail(signals) /\ UNCHANGED <<config, lastRead>>
      /\ onChange.pc = "idle"
      /\ onChange' = IF Head(signals) \in Module
                       THEN Handler("value", Head(signals), FALSE, {}) ELSE Idle
  BY DEF ValueChanged, HandlerAt
<1>2. /\ signals' \in Seq(Name)
      /\ \A m : Signalled(signals, m) => Signalled(signals', m) \/ m = Head(signals)
  BY <1>1, SignalTaken DEF ChangeInv, ChangeTypes
<1>3. CASE Head(signals) \in Module
  <2>1. IsHandler(onChange') /\ onChange'.pc = "value" /\ onChange'.key = Head(signals)
    BY <1>1, <1>3 DEF Handler, IsHandler
  <2> QED
    BY <1>1, <1>2, <1>3, <2>1 DEF ChangeInv, ChangeTypes, ChangeFollowed
<1>4. CASE Head(signals) \notin Module
  <2>1. IsHandler(onChange') /\ onChange'.pc = "idle"
    BY <1>1, <1>4 DEF Idle, Handler, IsHandler
  <2> QED
    BY <1>1, <1>2, <1>4, <2>1 DEF ChangeInv, ChangeTypes, ChangeFollowed
<1> QED
  BY <1>3, <1>4

LEMMA GetConfigValueKeeps ==
  ASSUME ChangeInv, NEW fails \in BOOLEAN, GetConfigValue(fails) PROVE ChangeInv'
<1> DEFINE k == onChange.key
<1>1. /\ onChange.pc = "value" /\ k \in Module /\ k \in Name
      /\ UNCHANGED <<config, signals>> /\ config[k] \in BOOLEAN
  BY LoaderAssumption DEF GetConfigValue, HandlerAt, ChangeInv, ChangeTypes
<1>2. IsHandler(onChange') /\ onChange'.pc = "check"
  BY HandlerMade DEF GetConfigValue
<1>3. /\ lastRead' = [lastRead EXCEPT ![k] = Read(config[k] /\ ~fails, fails)]
      /\ Read(config[k] /\ ~fails, fails) \in [value : BOOLEAN, failed : BOOLEAN]
  BY DEF GetConfigValue, Read
<1>4. /\ lastRead' \in [Name -> [value : BOOLEAN, failed : BOOLEAN]]
      /\ lastRead'[k] = Read(config[k] /\ ~fails, fails)
      /\ \A m \in Name : m # k => lastRead'[m] = lastRead[m]
  BY <1>1, <1>3 DEF ChangeInv, ChangeTypes
<1>6. lastRead'[k].failed \/ lastRead'[k].value = config[k]
  BY <1>1, <1>4 DEF Read
<1>5. Module \subseteq Name
  BY LoaderAssumption
<1> QED
  BY <1>1, <1>2, <1>4, <1>5, <1>6 DEF ChangeInv, ChangeTypes, ChangeFollowed

\* What the handler does once it has the value.
LEMMA HandlerRestKeeps ==
  ASSUME ChangeInv, onChange.pc # "value", UNCHANGED <<config, signals, lastRead>>,
         \/ onChange' = Idle
         \/ \E left : onChange' = [onChange EXCEPT !.left = left]
         \/ \E pc \in {"enable", "run", "done", "set"} : onChange' = [onChange EXCEPT !.pc = pc]
  PROVE  ChangeInv'
<1>1. IsHandler(onChange)
  BY DEF ChangeInv, ChangeTypes
<1>2. CASE onChange' = Idle
  <2>1. IsHandler(onChange') /\ onChange'.pc = "idle"
    BY <1>2 DEF Idle, Handler, IsHandler
  <2> QED
    BY <2>1, ValueAlone
<1>3. ASSUME NEW left, onChange' = [onChange EXCEPT !.left = left] PROVE ChangeInv'
  BY <1>1, <1>3, HandlerMoved, ValueAlone
<1>4. ASSUME NEW pc \in {"enable", "run", "done", "set"}, onChange' = [onChange EXCEPT !.pc = pc]
      PROVE  ChangeInv'
  BY <1>1, <1>4, HandlerMoved, ValueAlone
<1> QED
  BY <1>2, <1>3, <1>4

LEMMA ChangeStep == ChangeInv /\ [SessionNext \/ Rest]_allVars => ChangeInv'
<1> SUFFICES ASSUME ChangeInv, [SessionNext \/ Rest]_allVars PROVE ChangeInv'
  OBVIOUS
<1>1. CASE UNCHANGED sessionVars
  BY <1>1 DEF sessionVars, ChangeInv, ChangeTypes, ChangeFollowed
<1>2. ASSUME NEW n \in Name, ConfigChange(n) PROVE ChangeInv'
  BY <1>2, ConfigChangeKeeps
<1>3. CASE ValueChanged
  BY <1>3, ValueChangedKeeps
<1>4. ASSUME NEW fails \in BOOLEAN, GetConfigValue(fails) PROVE ChangeInv'
  BY <1>4, GetConfigValueKeeps
<1>5. ASSUME NEW m \in Name, NEW fails \in BOOLEAN, CheckDependencies(m, fails) PROVE ChangeInv'
  BY <1>5, HandlerRestKeeps DEF CheckDependencies, HandlerAt
<1>6. CASE DependenciesChecked
  BY <1>6, HandlerRestKeeps DEF DependenciesChecked, HandlerAt
<1>7. CASE HandlerEnable
  BY <1>7, HandlerRestKeeps DEF HandlerEnable, HandlerAt
<1>8. ASSUME NEW fails \in BOOLEAN, HandlerRun(fails) PROVE ChangeInv'
  BY <1>8, HandlerRestKeeps DEF HandlerRun, HandlerAt
<1>9. CASE HandlerDone
  BY <1>9, HandlerRestKeeps DEF HandlerDone, HandlerAt
<1>10. CASE HandlerSet
  BY <1>10, HandlerRestKeeps DEF HandlerSet, HandlerAt
<1> QED
  BY <1>1, <1>2, <1>3, <1>4, <1>5, <1>6, <1>7, <1>8, <1>9, <1>10
     DEF SessionNext, HandlerStep, Rest, allVars

(* No change of a value is lost: for every set of modules and any number   *)
(* of changes, whatever EnableModules and its goroutines do meanwhile, the *)
(* handler of valueChanged (daemon.go) has acted on the current value of   *)
(* each module once its signals are handled, unless it failed to read it.  *)
THEOREM ChangesNeverLost == SessionSpec => []NoChangeLost
<1>1. ChangeInv => NoChangeLost
  <2> SUFFICES ASSUME ChangeInv, signals = <<>>, onChange.pc # "value", NEW m \in Module,
                      ~lastRead[m].failed
               PROVE  lastRead[m].value = config[m]
    BY DEF NoChangeLost
  <2>1. ~Signalled(signals, m)
    BY DEF Signalled
  <2> QED
    BY <2>1 DEF ChangeInv, ChangeFollowed
<1> QED
  BY <1>1, ChangeInvInit, ChangeStep, PTL DEF SessionSpec

-----------------------------------------------------------------------------
(* The handler of valueChanged and EnableModules do not wait for each      *)
(* other for ever: the handler needs the loader's lock, which a call that  *)
(* waits for modules holds.                                                *)

\* A step of the handler is possible.
HandlerCanMove ==
  \/ onChange.pc = "idle" /\ signals # <<>> /\ lock = {}
  \/ onChange.pc = "value" /\ (config[onChange.key] \/ lock = {})
  \/ onChange.pc = "check" /\ (onChange.left = {} \/ onChange.left \cap Name # {})
  \/ onChange.pc \in {"enable", "run", "done", "set"}

SignalsCanBeHandled ==
  proc = "up" /\ (signals # <<>> \/ onChange.pc # "idle") =>
     HandlerCanMove \/ \E c \in Call : call[c] = "waiting" /\ CanGoOn(c)

HandlerFits(h) ==
  /\ h.pc \in {"idle", "value", "check", "enable", "run", "done", "set"}
  /\ h.left \subseteq Name

\* The steps of the handler leave it in one of its places, and of the loader
\* change only the flags and, in HandlerDone, a WaitGroup.
LEMMA HandlerFitsMoved ==
  ASSUME NEW h, IsHandler(h), HandlerFits(h)
  PROVE  /\ HandlerFits(Idle)
         /\ \A pc \in {"enable", "run", "done", "set"} : HandlerFits([h EXCEPT !.pc = pc])
         /\ \A left \in SUBSET Name : HandlerFits([h EXCEPT !.left = left])
<1> DEFINE g == Handler(h.pc, h.key, h.enable, h.left)
<1>1. h = g
  BY DEF IsHandler
<1>2. /\ \A pc : [g EXCEPT !.pc = pc] = Handler(pc, h.key, h.enable, h.left)
      /\ \A left : [g EXCEPT !.left = left] = Handler(h.pc, h.key, h.enable, left)
  BY DEF Handler
<1>3. \A pc, left : HandlerFits(Handler(pc, h.key, h.enable, left)) <=>
         /\ pc \in {"idle", "value", "check", "enable", "run", "done", "set"}
         /\ left \subseteq Name
  BY DEF HandlerFits, Handler
<1>4. HandlerFits(Idle)
  BY DEF HandlerFits, Idle, Handler
<1>5. h.pc \in {"idle", "value", "check", "enable", "run", "done", "set"} /\ h.left \subseteq Name
  BY DEF HandlerFits
<1> HIDE DEF g
<1>6. \A pc \in {"enable", "run", "done", "set"} : HandlerFits([h EXCEPT !.pc = pc])
  BY <1>1, <1>2, <1>3, <1>5
<1>7. \A left \in SUBSET Name : HandlerFits([h EXCEPT !.left = left])
  BY <1>1, <1>2, <1>3, <1>5
<1> QED
  BY <1>4, <1>6, <1>7

LEMMA HandlerFitsStep ==
  ASSUME ChangeInv, HandlerFits(onChange), [SessionNext \/ Rest]_allVars
  PROVE  HandlerFits(onChange')
<1>0. IsHandler(onChange) /\ HandlerFits(Idle)
  BY HandlerFitsMoved DEF ChangeInv, ChangeTypes
<1>1. CASE UNCHANGED onChange
  BY <1>1
<1>2. CASE ValueChanged
  <2>1. onChange' = Idle \/ onChange' = Handler("value", Head(signals), FALSE, {})
    BY <1>2 DEF ValueChanged
  <2> QED
    BY <1>0, <2>1 DEF HandlerFits, Handler
<1>3. ASSUME NEW fails \in BOOLEAN, GetConfigValue(fails) PROVE HandlerFits(onChange')
  <2>1. onChange.key \in Module /\ Module \subseteq Name
    BY <1>3, LoaderAssumption DEF GetConfigValue, HandlerAt, ChangeInv, ChangeTypes
  <2>2. Dep[onChange.key] \subseteq Name /\ Dependents(onChange.key) \subseteq Name
    BY <2>1, LoaderAssumption DEF Dependents
  <2>3. PICK v, left : /\ onChange' = Handler("check", onChange.key, v, left)
                       /\ left \in {Dep[onChange.key], Dependents(onChange.key)}
    BY <1>3 DEF GetConfigValue
  <2> QED
    BY <2>2, <2>3 DEF HandlerFits, Handler
<1>4. ASSUME NEW m \in Name, NEW fails \in BOOLEAN, CheckDependencies(m, fails)
      PROVE  HandlerFits(onChange')
  <2>1. onChange' \in {Idle, [onChange EXCEPT !.left = onChange.left \ {m}]}
    BY <1>4 DEF CheckDependencies
  <2>2. onChange.left \ {m} \in SUBSET Name
    BY DEF HandlerFits
  <2> QED
    BY <1>0, <2>1, <2>2, HandlerFitsMoved
<1>5. CASE DependenciesChecked \/ HandlerEnable \/ (\E f \in BOOLEAN : HandlerRun(f))
           \/ HandlerDone \/ HandlerSet
  <2>1. \/ onChange' = Idle
        \/ \E pc \in {"enable", "run", "done", "set"} : onChange' = [onChange EXCEPT !.pc = pc]
    BY <1>5 DEF DependenciesChecked, HandlerEnable, HandlerRun, HandlerDone, HandlerSet
  <2>2. \A pc \in {"enable", "run", "done", "set"} : HandlerFits([onChange EXCEPT !.pc = pc])
    BY <1>0, HandlerFitsMoved
  <2> QED
    BY <1>0, <2>1, <2>2
<1> QED
  BY <1>1, <1>2, <1>3, <1>4, <1>5
     DEF SessionNext, HandlerStep, ConfigChange, Rest, allVars, sessionVars

LEMMA WaitSession ==
  ASSUME WaitInv, [SessionNext \/ Rest]_allVars
  PROVE  WaitInv'
<1>1. CASE UNCHANGED <<lock, call, go, wg, proc>>
  BY <1>1, WaitOthers DEF WaitInv, WaitTypes
<1>2. CASE LoaderStep
  BY <1>2, WaitEnableModules, WaitGoroutine DEF LoaderStep
<1>3. CASE HandlerDone
  <2>1. /\ UNCHANGED <<lock, call, go>> /\ proc = "up"
        /\ wg' = [wg EXCEPT ![onChange.key] = IF @ > 0 THEN @ - 1 ELSE 0]
    BY <1>3 DEF HandlerDone, HandlerAt
  <2>2. wg' \in [Module -> {0, 1}] /\ \A m \in Module : wg[m] = 0 => wg'[m] = 0
    <3>1. wg \in [Module -> {0, 1}]
      BY DEF WaitInv, WaitTypes
    <3> DEFINE k == onChange.key
               v == IF wg[k] > 0 THEN wg[k] - 1 ELSE 0
    <3>2. k \in Module => v = 0
      BY <3>1
    <3>3. wg' = [wg EXCEPT ![k] = v]
      BY <2>1
    <3> HIDE DEF k, v
    <3> QED
      BY <3>1, <3>2, <3>3
  <2> QED
    BY <2>1, <2>2, WaitOthers
<1> QED
  BY <1>1, <1>2, <1>3
     DEF SessionNext, HandlerStep, ConfigChange, ValueChanged, GetConfigValue, CheckDependencies,
         DependenciesChecked, HandlerEnable, HandlerRun, HandlerSet, Rest, allVars, loaderVars

(* A signal, or a handler under way, always finds somebody who can move:   *)
(* the handler, or the call that has the lock it needs, for every graph,   *)
(* every interleaving of calls and any number of changes.                  *)
THEOREM SignalsCanAlwaysBeHandled == SessionSpec => [](CallCanGoOn /\ SignalsCanBeHandled)
<1> DEFINE Inv == ChangeInv /\ HandlerFits(onChange) /\ WaitInv
<1>1. SessionInit => Inv
  <2>1. HandlerFits(Idle)
    BY DEF HandlerFits, Idle, Handler
  <2> QED
    BY <2>1, ChangeInvInit, WaitInit DEF SessionInit
<1>2. Inv /\ [SessionNext \/ Rest]_allVars => Inv'
  BY ChangeStep, HandlerFitsStep, WaitSession
<1>3. Inv => CallCanGoOn
  BY WaitingCanGoOn DEF CallCanGoOn
<1>4. Inv => SignalsCanBeHandled
  <2> SUFFICES ASSUME Inv, proc = "up", signals # <<>> \/ onChange.pc # "idle"
               PROVE  HandlerCanMove \/ \E c \in Call : call[c] = "waiting" /\ CanGoOn(c)
    BY DEF SignalsCanBeHandled
  <2>1. CASE lock = {}
    BY <2>1 DEF HandlerCanMove, HandlerFits
  <2>2. CASE lock # {}
    <3>1. PICK c \in lock : c \in Call /\ call[c] = "waiting"
      BY <2>2 DEF WaitInv, WaitTypes, LockHeld
    <3> QED
      BY <3>1, WaitingCanGoOn
  <2> QED
    BY <2>1, <2>2
<1> QED
  BY <1>1, <1>2, <1>3, <1>4, PTL DEF SessionSpec

-----------------------------------------------------------------------------
(* The sort of the dependency graph.                                       *)
Color == {"white", "gray", "black"}
Act == [node : Node, left : SUBSET Node]

DagTypes ==
  /\ edge \subseteq Node \X Node
  /\ roots \subseteq Node
  /\ color \in [Node -> Color]
  /\ stack \in Seq(Act)
  /\ result \in Seq(Node)
  /\ isDag \in BOOLEAN

\* The gray nodes are the activations, which form a path, the last call first.
GrayPath ==
  /\ \A n \in Node : color[n] = "gray" <=> \E i \in 1..Len(stack) : stack[i].node = n
  /\ \A i, j \in 1..Len(stack) : stack[i].node = stack[j].node => i = j
  /\ \A i \in 1..Len(stack) : \A j \in 1..Len(stack) :
       j = i + 1 => <<stack[j].node, stack[i].node>> \in edge

\* What an activation has left is part of WeightTo, and what it no longer has
\* left is finished or being visited, as long as no cycle was met.
VisitedChildren ==
  \A i \in 1..Len(stack) :
    /\ stack[i].left \subseteq WeightTo(stack[i].node)
    /\ isDag => \A m \in WeightTo(stack[i].node) \ stack[i].left :
         color[m] = "black" \/ \E j \in 1..Len(stack) : i = j + 1 /\ stack[j].node = m

\* The black nodes are the result, each once, with all their successors behind.
BlackSorted ==
  /\ \A n \in Node : color[n] = "black" <=> \E i \in 1..Len(result) : result[i] = n
  /\ \A i, j \in 1..Len(result) : result[i] = result[j] => i = j
  /\ isDag => \A n \in Node : color[n] = "black" => \A m \in WeightTo(n) : color[m] = "black"
  /\ isDag => \A i, j \in 1..Len(result) : <<result[i], result[j]>> \in edge => i < j

RootsVisited == \A n \in Node \ roots : color[n] # "white"

CycleMet == ~isDag => HasCycle

DagInv == DagTypes /\ GrayPath /\ VisitedChildren /\ BlackSorted /\ RootsVisited /\ CycleMet

\* Every set of natural numbers that is not empty has a least member.
LEMMA LeastOf ==
  ASSUME NEW T, T \subseteq Nat, T # {}
  PROVE  \E x \in T : \A y \in T : x <= y
<1> DEFINE R == OpToRel(<, Nat)
<1>1. IsWellFoundedOn(R, Nat)
  BY NatLessThanWellFounded
<1>2. \A x, y \in Nat : <<x, y>> \in R <=> x < y
  BY DEF OpToRel
<1> HIDE DEF R
<1>3. PICK x \in T : \A y \in T : ~(<<y, x>> \in R)
  BY <1>1, WFMin
<1>4. \A y \in T : ~(y < x)
  BY <1>2, <1>3
<1>5. \A y \in T : x <= y
  BY <1>4
<1>. QED
  BY <1>5

\* A graph that is sorted has no cycle: the node of a cycle that comes last in
\* the result would have a successor behind it.
LEMMA SortedAcyclic ==
  ASSUME DagTypes, BlackSorted, isDag, \A n \in Node : color[n] = "black"
  PROVE  ~HasCycle
<1> SUFFICES ASSUME NEW S \in SUBSET Node, S # {}, \A n \in S : WeightTo(n) \cap S # {}
             PROVE  FALSE
  BY DEF HasCycle
<1> DEFINE L == Len(result)
           T == {k \in 0..L : \E i \in 1..L : result[i] \in S /\ k = L - i}
<1>0. L \in Nat
  BY DEF DagTypes
<1> HIDE DEF L
<1>1. PICK n \in S : TRUE
  OBVIOUS
<1>2. PICK i \in 1..L : result[i] = n
  BY <1>1 DEF BlackSorted, L
<1>3. L - i \in 0..L
  BY <1>0
<1>4. T \subseteq Nat /\ L - i \in T
  BY <1>0, <1>1, <1>2, <1>3
<1>5. PICK k \in T : \A l \in T : k <= l
  BY <1>4, LeastOf
<1>6. PICK j \in 1..L : result[j] \in S /\ k = L - j
  OBVIOUS
<1>7. PICK m \in S : m \in WeightTo(result[j])
  BY <1>6
<1>8. PICK h \in 1..L : result[h] = m
  BY <1>7 DEF BlackSorted, L
<1>9. <<result[j], result[h]>> \in edge
  BY <1>7, <1>8 DEF WeightTo
<1>10. j < h
  BY <1>9 DEF BlackSorted, L
<1>11. L - h \in T
  <2>1. L - h \in 0..L /\ result[h] \in S
    BY <1>0, <1>8
  <2>. QED
    BY <1>8, <2>1
<1>12. k <= L - h
  BY <1>5, <1>11
<1>. QED
  BY <1>0, <1>6, <1>10, <1>12

\* The activations up to a gray node that is met again form a cycle.
LEMMA GrayMeansCycle ==
  ASSUME DagTypes, GrayPath, VisitedChildren, stack # <<>>,
         NEW m \in Node, m \in stack[1].left, color[m] = "gray"
  PROVE  HasCycle
<1>1. PICK k \in 1..Len(stack) : stack[k].node = m
  BY DEF GrayPath
<1> DEFINE S == {n \in Node : \E i \in 1..k : stack[i].node = n}
<1>2. \A i \in 1..Len(stack) : stack[i].node \in Node
  <2>1. \A i \in 1..Len(stack) : stack[i] \in Act
    BY DEF DagTypes
  <2>. QED
    BY <2>1 DEF Act
<1>3. Len(stack) \in Nat /\ 1 \in 1..Len(stack)
  BY <1>1 DEF DagTypes
<1>4. m \in S
  BY <1>1
<1>5. ASSUME NEW n \in S PROVE WeightTo(n) \cap S # {}
  <2>1. PICK i \in 1..k : stack[i].node = n
    OBVIOUS
  <2>2. CASE i = 1
    <3>1. m \in WeightTo(n)
      BY <1>3, <2>1, <2>2 DEF VisitedChildren
    <3>. QED
      BY <1>4, <3>1
  <2>3. CASE i # 1
    <3>1. i - 1 \in 1..k /\ i \in 1..Len(stack) /\ i - 1 \in 1..Len(stack) /\ i = (i - 1) + 1
      BY <1>1, <1>3, <2>3
    <3>2. <<n, stack[i - 1].node>> \in edge
      BY <2>1, <3>1 DEF GrayPath
    <3>3. stack[i - 1].node \in S
      BY <1>2, <3>1
    <3>. QED
      BY <3>2, <3>3 DEF WeightTo
  <2>. QED
    BY <2>2, <2>3
<1>. QED
  BY <1>4, <1>5 DEF HasCycle

\* When the search is over all nodes are black.
LEMMA DoneBlack == ASSUME DagInv, Done PROVE \A n \in Node : color[n] = "black"
<1>1. \A n \in Node : color[n] # "white"
  BY DEF DagInv, Done, RootsVisited
<1>2. \A n \in Node : color[n] # "gray"
  BY DEF DagInv, Done, GrayPath
<1>. QED
  BY <1>1, <1>2 DEF DagInv, DagTypes, Color

LEMMA DagInvSorted == ASSUME DagInv PROVE TopologicalOrder
<1> SUFFICES ASSUME Done PROVE TopologicalOrder
  BY DEF TopologicalOrder, DagDecided, Sorted
<1>1. \A n \in Node : color[n] = "black"
  BY DoneBlack
<1>2. isDag <=> ~HasCycle
  BY <1>1, SortedAcyclic DEF DagInv, CycleMet
<1>3. Len(result) \in Nat /\ result \in [1..Len(result) -> Node]
  BY DEF DagInv, DagTypes
<1>4. \A n \in Node : \E i \in 1..Len(result) : result[i] = n
  BY <1>1 DEF DagInv, BlackSorted
<1>5. result \in Bijection(1..Len(result), Node)
  BY <1>3, <1>4 DEF Bijection, Injection, Surjection, IsInjective, DagInv, BlackSorted
<1>6. IsFiniteSet(1..Len(result)) /\ Cardinality(1..Len(result)) = Len(result)
  BY <1>3, FS_Interval
<1>7. Cardinality(Node) = Len(result)
  BY <1>5, <1>6, FS_Bijection DEF ExistsBijection
<1>8. {result[i] : i \in 1..Len(result)} = Node
  BY <1>3, <1>4
<1>9. isDag => \A i, j \in 1..Len(result) : <<result[i], result[j]>> \in edge => i < j
  BY DEF DagInv, BlackSorted
<1>. QED
  BY <1>2, <1>7, <1>8, <1>9 DEF TopologicalOrder, DagDecided, Sorted

LEMMA CycleStays == ASSUME UNCHANGED edge PROVE HasCycle => HasCycle'
<1>1. \A n : WeightTo(n)' = WeightTo(n)
  BY DEF WeightTo
<1>. QED
  BY <1>1 DEF HasCycle

\* A call for the white node n on top of the activations rest.
LEMMA CallKeeps ==
  ASSUME DagInv, NEW rest \in Seq(Act), NEW n \in Node, color[n] = "white",
         Len(rest) = Len(stack),
         \A i \in 1..Len(stack) : rest[i].node = stack[i].node,
         \A i \in 2..Len(stack) : rest[i] = stack[i],
         Len(stack) > 0 => /\ n \in stack[1].left /\ rest[1].left = stack[1].left \ {n},
         color' = [color EXCEPT ![n] = "gray"],
         stack' = <<Activation(n)>> \o rest,
         roots' \subseteq roots, roots \ {n} \subseteq roots',
         UNCHANGED <<edge, result, isDag>>
  PROVE  DagInv'
<1>1. /\ Len(stack) \in Nat /\ Len(rest) \in Nat
      /\ \A i \in 1..Len(stack) : stack[i] \in Act
      /\ \A i \in 1..Len(stack) : rest[i] \in Act
  BY DEF DagInv, DagTypes
<1>2. Activation(n) \in Act
  BY DEF Activation, Act, WeightTo
<1>3. /\ Len(stack') = Len(stack) + 1
      /\ stack'[1] = Activation(n)
      /\ \A i \in 1..Len(stack) : stack'[i + 1] = rest[i]
      /\ stack' \in Seq(Act)
  BY <1>1, <1>2
<1>4. /\ \A i \in 1..Len(stack') : i = 1 \/ (i - 1 \in 1..Len(stack) /\ stack'[i] = rest[i - 1])
      /\ stack'[1].node = n /\ stack'[1].left = WeightTo(n)
  BY <1>1, <1>3 DEF Activation
<1>5. /\ color' \in [Node -> Color] /\ color'[n] = "gray"
      /\ \A m \in Node \ {n} : color'[m] = color[m]
  BY DEF DagInv, DagTypes, Color
<1>6. DagTypes'
  BY <1>3, <1>5 DEF DagInv, DagTypes
<1>7. GrayPath'
  <2>1. \A i \in 1..Len(stack) : stack[i].node # n /\ stack[i].node \in Node
    BY <1>1 DEF DagInv, GrayPath, Act
  <2>2. \A m \in Node : color'[m] = "gray" <=> \E i \in 1..Len(stack') : stack'[i].node = m
    <3>1. ASSUME NEW m \in Node, m # n, color'[m] = "gray"
          PROVE  \E i \in 1..Len(stack') : stack'[i].node = m
      <4>1. PICK i \in 1..Len(stack) : stack[i].node = m
        BY <1>5, <3>1 DEF DagInv, GrayPath
      <4>2. i + 1 \in 1..Len(stack') /\ stack'[i + 1].node = m
        BY <1>1, <1>3, <4>1
      <4>. QED
        BY <4>2
    <3>2. ASSUME NEW m \in Node, m # n, NEW i \in 1..Len(stack'), stack'[i].node = m
          PROVE  color'[m] = "gray"
      <4>1. i - 1 \in 1..Len(stack) /\ stack[i - 1].node = m
        BY <1>4, <3>2
      <4>2. \A k \in Node : (\E l \in 1..Len(stack) : stack[l].node = k) => color[k] = "gray"
        BY DEF DagInv, GrayPath
      <4>3. color[m] = "gray"
        BY <4>1, <4>2
      <4>. QED
        BY <1>5, <3>2, <4>3
    <3>3. 1 \in 1..Len(stack')
      BY <1>1, <1>3
    <3>. QED
      BY <1>4, <1>5, <3>1, <3>2, <3>3
  <2>3. ASSUME NEW i \in 1..Len(stack'), NEW j \in 1..Len(stack'), stack'[i].node = stack'[j].node
        PROVE  i = j
    <3>1. i = 1 \/ (i - 1 \in 1..Len(stack) /\ stack'[i].node = stack[i - 1].node)
      BY <1>4
    <3>2. j = 1 \/ (j - 1 \in 1..Len(stack) /\ stack'[j].node = stack[j - 1].node)
      BY <1>4
    <3>3. CASE i = 1 \/ j = 1
      BY <1>4, <2>1, <2>3, <3>1, <3>2, <3>3
    <3>4. CASE i # 1 /\ j # 1
      <4>1. \A k, l \in 1..Len(stack) : stack[k].node = stack[l].node => k = l
        BY DEF DagInv, GrayPath
      <4>2. i - 1 = j - 1
        BY <2>3, <3>1, <3>2, <3>4, <4>1
      <4>. QED
        BY <4>2
    <3>. QED
      BY <3>3, <3>4
  <2>4. ASSUME NEW i \in 1..Len(stack'), NEW j \in 1..Len(stack'), j = i + 1
        PROVE  <<stack'[j].node, stack'[i].node>> \in edge
    <3>1. j - 1 \in 1..Len(stack) /\ stack'[j].node = stack[j - 1].node
      BY <1>4, <2>4
    <3>2. CASE i = 1
      <4>1. n \in stack[1].left /\ 1 \in 1..Len(stack)
        BY <1>1, <2>4, <3>1, <3>2
      <4>2. n \in WeightTo(stack[1].node)
        BY <4>1 DEF DagInv, VisitedChildren
      <4>3. j - 1 = 1 /\ stack'[j].node = stack[1].node /\ stack'[i].node = n
        BY <1>4, <2>4, <3>1, <3>2
      <4>. QED
        BY <4>2, <4>3 DEF WeightTo
    <3>3. CASE i # 1
      <4>1. i - 1 \in 1..Len(stack) /\ stack'[i].node = stack[i - 1].node
        BY <1>4, <3>3
      <4>2. j - 1 = (i - 1) + 1
        BY <2>4
      <4>. QED
        BY <3>1, <4>1, <4>2 DEF DagInv, GrayPath
    <3>. QED
      BY <3>2, <3>3
  <2>. QED
    BY <2>2, <2>3, <2>4 DEF GrayPath
<1>8. VisitedChildren'
  <2> SUFFICES ASSUME NEW i \in 1..Len(stack')
      PROVE /\ stack'[i].left \subseteq WeightTo(stack'[i].node)
            /\ isDag => \A m \in WeightTo(stack'[i].node) \ stack'[i].left :
                 \/ color'[m] = "black"
                 \/ \E j \in 1..Len(stack') : i = j + 1 /\ stack'[j].node = m
    BY DEF VisitedChildren, WeightTo
  <2>1. CASE i = 1
    BY <1>4, <2>1
  <2>2. CASE i # 1
    <3> DEFINE h == i - 1
    <3>1. h \in 1..Len(stack) /\ stack'[i] = rest[h] /\ stack'[i].node = stack[h].node /\ i = h + 1
      BY <1>4, <2>2
    <3>2. rest[h].left \subseteq stack[h].left
      <4>1. CASE h = 1
        BY <3>1, <4>1
      <4>2. CASE h # 1
        <5>1. h \in 2..Len(stack)
          BY <3>1, <4>2
        <5>. QED
          BY <5>1
      <4>. QED
        BY <4>1, <4>2
    <3>3. stack[h].left \subseteq WeightTo(stack[h].node)
      BY <3>1 DEF DagInv, VisitedChildren
    <3>4. ASSUME isDag, NEW m \in WeightTo(stack[h].node) \ rest[h].left
          PROVE  \/ color'[m] = "black"
                 \/ \E j \in 1..Len(stack') : i = j + 1 /\ stack'[j].node = m
      <4>1. CASE m \in stack[h].left
        <5>1. h = 1
          BY <3>1, <3>4, <4>1, SMTT(20)
        <5>2. m = n
          BY <3>1, <3>4, <4>1, <5>1
        <5>3. 1 \in 1..Len(stack') /\ i = 1 + 1
          BY <1>1, <1>3, <3>1, <5>1
        <5>. QED
          BY <1>4, <5>2, <5>3
      <4>2. CASE m \notin stack[h].left
        <5>1. \/ color[m] = "black"
              \/ \E j \in 1..Len(stack) : h = j + 1 /\ stack[j].node = m
          BY <3>1, <3>4, <4>2 DEF DagInv, VisitedChildren
        <5>2. CASE color[m] = "black"
          BY <1>5, <5>2 DEF WeightTo
        <5>3. ASSUME NEW j \in 1..Len(stack), h = j + 1, stack[j].node = m
              PROVE  \E k \in 1..Len(stack') : i = k + 1 /\ stack'[k].node = m
          <6>1. j + 1 \in 1..Len(stack') /\ stack'[j + 1].node = m /\ i = (j + 1) + 1
            BY <1>1, <1>3, <3>1, <5>3
          <6>. QED
            BY <6>1
        <5>. QED
          BY <5>1, <5>2, <5>3
      <4>. QED
        BY <4>1, <4>2
    <3>. QED
      BY <3>1, <3>2, <3>3, <3>4
  <2>. QED
    BY <2>1, <2>2
<1>9. BlackSorted'
  <2>1. \A m \in Node : color'[m] = "black" <=> color[m] = "black"
    BY <1>5
  <2>. QED
    BY <2>1 DEF DagInv, BlackSorted, WeightTo
<1>10. RootsVisited'
  BY <1>5 DEF DagInv, RootsVisited
<1>11. CycleMet'
  BY CycleStays DEF DagInv, CycleMet
<1>. QED
  BY <1>6, <1>7, <1>8, <1>9, <1>10, <1>11 DEF DagInv

LEMMA VisitRootKeeps == ASSUME DagInv, NEW n \in Node, VisitRoot(n) PROVE DagInv'
<1>1. /\ stack = <<>> /\ roots' = roots \ {n} /\ UNCHANGED <<edge, result, isDag>>
  BY DEF VisitRoot
<1>2. CASE color[n] = "white"
  <2>1. color' = [color EXCEPT ![n] = "gray"] /\ stack' = <<Activation(n)>>
    BY <1>2 DEF VisitRoot
  <2>2. stack \in Seq(Act) /\ Len(stack) = 0 /\ stack' = <<Activation(n)>> \o stack
    BY <1>1, <2>1
  <2>3. roots' \subseteq roots /\ roots \ {n} \subseteq roots'
    BY <1>1
  <2>4. ~(Len(stack) > 0)
    BY <2>2
  <2>. QED
    BY <1>1, <1>2, <2>1, <2>2, <2>3, <2>4, CallKeeps
<1>3. CASE color[n] # "white"
  <2>1. UNCHANGED <<color, stack>>
    BY <1>3 DEF VisitRoot
  <2>2. DagTypes' /\ RootsVisited'
    BY <1>1, <1>3, <2>1 DEF DagInv, DagTypes, RootsVisited
  <2>3. GrayPath' /\ BlackSorted' /\ VisitedChildren'
    BY <1>1, <2>1 DEF DagInv, GrayPath, BlackSorted, VisitedChildren, WeightTo
  <2>4. CycleMet'
    BY <1>1, CycleStays DEF DagInv, CycleMet
  <2>. QED
    BY <2>2, <2>3, <2>4 DEF DagInv
<1>. QED
  BY <1>2, <1>3

\* What is left of the activations when a child of the first one is looked at.
Looked(m) == <<[Head(stack) EXCEPT !.left = @ \ {m}]>> \o Tail(stack)

LEMMA LookedShape ==
  ASSUME DagTypes, stack # <<>>, NEW m
  PROVE  /\ Looked(m) \in Seq(Act)
         /\ Len(Looked(m)) = Len(stack) /\ Len(stack) \in Nat /\ Len(stack) > 0
         /\ Head(stack) = stack[1]
         /\ Looked(m)[1].left = stack[1].left \ {m}
         /\ \A i \in 1..Len(stack) : Looked(m)[i].node = stack[i].node
         /\ \A i \in 2..Len(stack) : Looked(m)[i] = stack[i]
<1>1. /\ Len(stack) \in Nat /\ Len(stack) > 0 /\ Head(stack) = stack[1] /\ stack[1] \in Act
      /\ stack \in Seq(Act) /\ Tail(stack) \in Seq(Act) /\ Len(Tail(stack)) = Len(stack) - 1
      /\ \A i \in 1..(Len(stack) - 1) : Tail(stack)[i] = stack[i + 1]
  BY DEF DagTypes
<1> DEFINE x == [Head(stack) EXCEPT !.left = @ \ {m}]
<1>2. x \in Act /\ x.node = stack[1].node /\ x.left = stack[1].left \ {m}
  BY <1>1 DEF Act
<1> HIDE DEF x
<1>3. /\ (<<x>> \o Tail(stack)) \in Seq(Act)
      /\ Len(<<x>> \o Tail(stack)) = Len(stack)
      /\ (<<x>> \o Tail(stack))[1] = x
      /\ \A i \in 2..Len(stack) : (<<x>> \o Tail(stack))[i] = stack[i]
  BY <1>1, <1>2
<1>4. Looked(m) = <<x>> \o Tail(stack)
  BY DEF Looked, x
<1>5. \A i \in 1..Len(stack) : i = 1 \/ i \in 2..Len(stack)
  BY <1>1
<1>. QED
  BY <1>1, <1>2, <1>3, <1>4, <1>5

LEMMA VisitChildKeeps == ASSUME DagInv, NEW m \in Node, VisitChild(m) PROVE DagInv'
<1> DEFINE rest == Looked(m)
<1>1. /\ stack # <<>> /\ m \in Head(stack).left
      /\ UNCHANGED <<edge, roots, result>>
      /\ isDag' = (isDag /\ color[m] # "gray")
  BY DEF VisitChild
<1>2. /\ rest \in Seq(Act) /\ Len(rest) = Len(stack) /\ Len(stack) \in Nat /\ Len(stack) > 0
      /\ rest[1].left = stack[1].left \ {m} /\ m \in stack[1].left
      /\ \A i \in 1..Len(stack) : rest[i].node = stack[i].node
      /\ \A i \in 2..Len(stack) : rest[i] = stack[i]
  BY <1>1, LookedShape DEF DagInv
<1>3. CASE color[m] = "white"
  <2>1. color' = [color EXCEPT ![m] = "gray"] /\ stack' = <<Activation(m)>> \o rest
    BY <1>3 DEF VisitChild, Looked
  <2>2. isDag' = isDag
    BY <1>1, <1>3 DEF DagInv, DagTypes
  <2> HIDE DEF rest
  <2>. QED
    BY <1>1, <1>2, <1>3, <2>1, <2>2, CallKeeps
<1>4. CASE color[m] # "white"
  <2>1. stack' = rest /\ color' = color
    BY <1>4 DEF VisitChild, Looked
  <2> HIDE DEF rest
  <2>2. isDag' => isDag /\ color[m] = "black"
    BY <1>1, <1>4 DEF DagInv, DagTypes, Color
  <2>3. DagTypes'
    BY <1>1, <1>2, <2>1 DEF DagInv, DagTypes
  <2>4. GrayPath'
    <3>1. /\ Len(stack') = Len(stack) /\ edge' = edge
          /\ \A i \in 1..Len(stack) : stack'[i].node = stack[i].node
      BY <1>1, <1>2, <2>1
    <3>2. \A n \in Node : color'[n] = "gray" <=> \E i \in 1..Len(stack') : stack'[i].node = n
      BY <2>1, <3>1 DEF DagInv, GrayPath
    <3>3. \A i, j \in 1..Len(stack') : stack'[i].node = stack'[j].node => i = j
      BY <3>1 DEF DagInv, GrayPath
    <3>4. \A i \in 1..Len(stack') : \A j \in 1..Len(stack') :
            j = i + 1 => <<stack'[j].node, stack'[i].node>> \in edge'
      BY <3>1 DEF DagInv, GrayPath
    <3>. QED
      BY <3>2, <3>3, <3>4 DEF GrayPath
  <2>5. VisitedChildren'
    <3> SUFFICES ASSUME NEW i \in 1..Len(stack)
        PROVE /\ rest[i].left \subseteq WeightTo(stack[i].node)
              /\ isDag' => \A k \in WeightTo(stack[i].node) \ rest[i].left :
                   \/ color[k] = "black"
                   \/ \E j \in 1..Len(stack) : i = j + 1 /\ stack[j].node = k
      BY <1>1, <1>2, <2>1 DEF VisitedChildren, WeightTo
    <3>1. /\ stack[i].left \subseteq WeightTo(stack[i].node)
          /\ isDag => \A k \in WeightTo(stack[i].node) \ stack[i].left :
                   \/ color[k] = "black"
                   \/ \E j \in 1..Len(stack) : i = j + 1 /\ stack[j].node = k
      BY DEF DagInv, VisitedChildren
    <3>2. CASE i = 1
      BY <1>2, <2>2, <3>1, <3>2
    <3>3. CASE i \in 2..Len(stack)
      BY <1>2, <2>2, <3>1, <3>3
    <3>. QED
      BY <1>2, <3>2, <3>3
  <2>6. BlackSorted'
    BY <1>1, <2>1, <2>2 DEF DagInv, BlackSorted, WeightTo
  <2>7. RootsVisited'
    BY <1>1, <2>1 DEF DagInv, RootsVisited
  <2>8. CASE color[m] = "gray"
    <3>1. HasCycle
      BY <1>1, <1>2, <2>8, GrayMeansCycle DEF DagInv
    <3>. QED
      BY <1>1, <2>3, <2>4, <2>5, <2>6, <2>7, <3>1, CycleStays DEF DagInv, CycleMet
  <2>9. CASE color[m] # "gray"
    <3>1. isDag' = isDag
      BY <1>1, <2>9 DEF DagInv, DagTypes
    <3>. QED
      BY <1>1, <2>3, <2>4, <2>5, <2>6, <2>7, <3>1, CycleStays DEF DagInv, CycleMet
  <2>. QED
    BY <2>8, <2>9
<1>. QED
  BY <1>3, <1>4

\* The node that is finished is the only one that becomes black, and all its
\* successors are black before.
LEMMA FinishKeeps == ASSUME DagInv, Finish PROVE DagInv'
<1> DEFINE n == Head(stack).node
<1>1. /\ stack # <<>> /\ Head(stack).left = {}
      /\ color' = [color EXCEPT ![n] = "black"]
      /\ result' = <<n>> \o result
      /\ stack' = Tail(stack)
      /\ UNCHANGED <<edge, roots, isDag>>
  BY DEF Finish
<1>2. /\ Len(stack) \in Nat /\ Len(stack) > 0 /\ Head(stack) = stack[1] /\ stack[1] \in Act
      /\ stack' \in Seq(Act) /\ Len(stack') = Len(stack) - 1
      /\ \A i \in 1..Len(stack') : i + 1 \in 1..Len(stack) /\ stack'[i] = stack[i + 1]
      /\ 1 \in 1..Len(stack)
  BY <1>1 DEF DagInv, DagTypes
<1>3. n \in Node /\ n = stack[1].node /\ stack[1].left = {}
  BY <1>1, <1>2 DEF Act
<1> HIDE DEF n
<1>4. color[n] = "gray"
  BY <1>2, <1>3 DEF DagInv, GrayPath
<1>5. /\ color' \in [Node -> Color] /\ color'[n] = "black"
      /\ \A m \in Node \ {n} : color'[m] = color[m]
  BY <1>1, <1>3 DEF DagInv, DagTypes, Color
<1>6. /\ Len(result) \in Nat /\ Len(result') = Len(result) + 1
      /\ result' \in Seq(Node) /\ result'[1] = n
      /\ \A i \in 1..Len(result) : i + 1 \in 1..Len(result') /\ result'[i + 1] = result[i]
      /\ \A i \in 1..Len(result') : i = 1 \/ (i - 1 \in 1..Len(result) /\ result'[i] = result[i - 1])
  BY <1>1, <1>3 DEF DagInv, DagTypes
<1>7. DagTypes'
  BY <1>1, <1>2, <1>5, <1>6 DEF DagInv, DagTypes
<1>8. \A i \in 1..Len(stack') : stack'[i].node # n
  <2> SUFFICES ASSUME NEW i \in 1..Len(stack'), stack'[i].node = n PROVE FALSE
    OBVIOUS
  <2>1. i + 1 \in 1..Len(stack) /\ stack[i + 1].node = stack[1].node
    BY <1>2, <1>3
  <2>2. i + 1 = 1
    BY <1>2, <2>1 DEF DagInv, GrayPath
  <2>. QED
    BY <2>2
<1>9. GrayPath'
  <2>1. ASSUME NEW m \in Node, color'[m] = "gray"
        PROVE  \E i \in 1..Len(stack') : stack'[i].node = m
    <3>1. m # n /\ color[m] = "gray"
      BY <1>5, <2>1
    <3>2. PICK i \in 1..Len(stack) : stack[i].node = m
      BY <3>1 DEF DagInv, GrayPath
    <3>3. i # 1
      BY <1>3, <3>1, <3>2
    <3>4. i - 1 \in 1..Len(stack') /\ (i - 1) + 1 = i
      BY <1>2, <3>3
    <3>5. stack'[i - 1] = stack[i]
      BY <1>2, <3>4
    <3>. QED
      BY <3>2, <3>4, <3>5
  <2>2. ASSUME NEW m \in Node, NEW i \in 1..Len(stack'), stack'[i].node = m
        PROVE  color'[m] = "gray"
    <3>1. m # n /\ i + 1 \in 1..Len(stack) /\ stack[i + 1].node = m
      BY <1>2, <1>8, <2>2
    <3>. QED
      BY <1>5, <3>1 DEF DagInv, GrayPath
  <2>3. ASSUME NEW i \in 1..Len(stack'), NEW j \in 1..Len(stack'), stack'[i].node = stack'[j].node
        PROVE  i = j
    <3>1. \A k, l \in 1..Len(stack) : stack[k].node = stack[l].node => k = l
      BY DEF DagInv, GrayPath
    <3>2. /\ i + 1 \in 1..Len(stack) /\ stack'[i] = stack[i + 1]
          /\ j + 1 \in 1..Len(stack) /\ stack'[j] = stack[j + 1]
      BY <1>2
    <3>3. i + 1 = j + 1
      BY <2>3, <3>1, <3>2
    <3>. QED
      BY <3>3
  <2>4. ASSUME NEW i \in 1..Len(stack'), NEW j \in 1..Len(stack'), j = i + 1
        PROVE  <<stack'[j].node, stack'[i].node>> \in edge'
    <3>1. \A k \in 1..Len(stack) : \A l \in 1..Len(stack) :
             l = k + 1 => <<stack[l].node, stack[k].node>> \in edge
      BY DEF DagInv, GrayPath
    <3>2. j + 1 = (i + 1) + 1
      BY <2>4
    <3>. QED
      BY <1>1, <1>2, <3>1, <3>2
  <2>. QED
    BY <2>1, <2>2, <2>3, <2>4 DEF GrayPath
<1>10. VisitedChildren'
  <2> SUFFICES ASSUME NEW i \in 1..Len(stack')
      PROVE /\ stack'[i].left \subseteq WeightTo(stack'[i].node)
            /\ isDag => \A m \in WeightTo(stack'[i].node) \ stack'[i].left :
                 \/ color'[m] = "black"
                 \/ \E j \in 1..Len(stack') : i = j + 1 /\ stack'[j].node = m
    BY <1>1 DEF VisitedChildren, WeightTo
  <2> DEFINE h == i + 1
  <2>1. h \in 1..Len(stack) /\ stack'[i] = stack[h]
    BY <1>2
  <2>2. /\ stack[h].left \subseteq WeightTo(stack[h].node)
        /\ isDag => \A m \in WeightTo(stack[h].node) \ stack[h].left :
                 \/ color[m] = "black"
                 \/ \E j \in 1..Len(stack) : h = j + 1 /\ stack[j].node = m
    BY <2>1 DEF DagInv, VisitedChildren
  <2>3. ASSUME isDag, NEW m \in WeightTo(stack[h].node) \ stack[h].left
        PROVE  \/ color'[m] = "black"
               \/ \E j \in 1..Len(stack') : i = j + 1 /\ stack'[j].node = m
    <3>0. m \in Node
      BY DEF WeightTo
    <3>1. CASE color[m] = "black"
      BY <1>5, <3>0, <3>1
    <3>2. ASSUME NEW j \in 1..Len(stack), h = j + 1, stack[j].node = m
          PROVE  \/ color'[m] = "black"
                 \/ \E k \in 1..Len(stack') : i = k + 1 /\ stack'[k].node = m
      <4>1. CASE j = 1
        BY <1>3, <1>5, <3>2, <4>1
      <4>2. CASE j # 1
        <5>1. j - 1 \in 1..Len(stack') /\ i = (j - 1) + 1 /\ (j - 1) + 1 = j
          BY <1>2, <3>2, <4>2
        <5>2. stack'[j - 1] = stack[j]
          BY <1>2, <5>1
        <5>. QED
          BY <3>2, <5>1, <5>2
      <4>. QED
        BY <4>1, <4>2
    <3>. QED
      BY <2>2, <2>3, <3>1, <3>2
  <2>. QED
    BY <2>1, <2>2, <2>3
<1>11. isDag => \A m \in WeightTo(n) : color[m] = "black"
  <2> SUFFICES ASSUME isDag, NEW m \in WeightTo(n) PROVE color[m] = "black"
    OBVIOUS
  <2>1. color[m] = "black" \/ \E j \in 1..Len(stack) : 1 = j + 1 /\ stack[j].node = m
    BY <1>2, <1>3 DEF DagInv, VisitedChildren
  <2>. QED
    BY <2>1
<1>12. BlackSorted'
  <2>1. ASSUME NEW m \in Node
        PROVE  color'[m] = "black" <=> \E i \in 1..Len(result') : result'[i] = m
    <3>1. color[m] = "black" <=> \E i \in 1..Len(result) : result[i] = m
      BY DEF DagInv, BlackSorted
    <3>2. 1 \in 1..Len(result')
      BY <1>6
    <3>3. (\E i \in 1..Len(result') : result'[i] = m)
             <=> m = n \/ \E i \in 1..Len(result) : result[i] = m
      <4>1. ASSUME NEW i \in 1..Len(result'), result'[i] = m
            PROVE  m = n \/ \E k \in 1..Len(result) : result[k] = m
        BY <1>6, <4>1
      <4>2. ASSUME NEW k \in 1..Len(result), result[k] = m
            PROVE  \E i \in 1..Len(result') : result'[i] = m
        BY <1>6, <4>2
      <4>. QED
        BY <1>6, <3>2, <4>1, <4>2
    <3>. QED
      BY <1>5, <3>1, <3>3
  <2>2. \A i \in 1..Len(result) : result[i] # n
    BY <1>3, <1>4 DEF DagInv, BlackSorted
  <2>3. ASSUME NEW i \in 1..Len(result'), NEW j \in 1..Len(result'), result'[i] = result'[j]
        PROVE  i = j
    <3>1. \A k, l \in 1..Len(result) : result[k] = result[l] => k = l
      BY DEF DagInv, BlackSorted
    <3>2. CASE i = 1 \/ j = 1
      <4>1. \A k \in 1..Len(result') : k = 1 \/ result'[k] # n
        <5> SUFFICES ASSUME NEW k \in 1..Len(result'), k # 1
            PROVE result'[k] # n
          OBVIOUS
        <5>1. k - 1 \in 1..Len(result) /\ result'[k] = result[k - 1]
          BY <1>6
        <5>. QED
          BY <2>2, <5>1
      <4>2. (i = 1 \/ result'[i] # n) /\ (j = 1 \/ result'[j] # n)
        BY <4>1
      <4>3. result'[1] = n
        BY <1>6
      <4>. QED
        BY <2>3, <3>2, <4>2, <4>3
    <3>3. CASE i # 1 /\ j # 1
      <4>1. /\ i - 1 \in 1..Len(result) /\ result'[i] = result[i - 1]
            /\ j - 1 \in 1..Len(result) /\ result'[j] = result[j - 1]
        BY <1>6, <3>3
      <4>2. i - 1 = j - 1
        BY <2>3, <3>1, <4>1
      <4>. QED
        BY <4>2
    <3>. QED
      BY <3>2, <3>3
  <2>4. isDag => \A m \in Node : color[m] = "black" => \A k \in WeightTo(m) : color[k] = "black"
    BY DEF DagInv, BlackSorted
  <2>5. isDag => \A m \in Node : color'[m] = "black" => \A k \in WeightTo(m) : color'[k] = "black"
    BY <1>5, <1>11, <2>4 DEF WeightTo
  <2>6. ASSUME isDag, NEW i \in 1..Len(result'), NEW j \in 1..Len(result'),
               <<result'[i], result'[j]>> \in edge
        PROVE  i < j
    <3>1. \A m \in Node : <<m, n>> \in edge => color[m] # "black" /\ m # n
      BY <1>3, <1>4, <1>11, <2>4, <2>6 DEF WeightTo
    <3>2. result'[i] \in Node
      BY <1>6
    <3>3. j # 1
      <4> SUFFICES ASSUME j = 1 PROVE FALSE
        OBVIOUS
      <4>1. <<result'[i], n>> \in edge
        BY <1>6, <2>6
      <4>2. result'[i] # n /\ color[result'[i]] # "black"
        BY <3>1, <3>2, <4>1
      <4>3. i - 1 \in 1..Len(result) /\ result'[i] = result[i - 1]
        BY <1>6, <4>2
      <4>. QED
        BY <3>2, <4>2, <4>3 DEF DagInv, BlackSorted
    <3>4. CASE i = 1
      BY <3>3, <3>4
    <3>5. CASE i # 1
      <4>1. \A k, l \in 1..Len(result) : <<result[k], result[l]>> \in edge => k < l
        BY <2>6 DEF DagInv, BlackSorted
      <4>2. i - 1 < j - 1
        BY <1>6, <2>6, <3>3, <3>5, <4>1
      <4>. QED
        BY <4>2
    <3>. QED
      BY <3>4, <3>5
  <2>. QED
    BY <1>1, <2>1, <2>3, <2>5, <2>6 DEF BlackSorted, WeightTo
<1>13. RootsVisited'
  BY <1>1, <1>5 DEF DagInv, RootsVisited
<1>14. CycleMet'
  BY <1>1, CycleStays DEF DagInv, CycleMet
<1>. QED
  BY <1>7, <1>9, <1>10, <1>12, <1>13, <1>14 DEF DagInv

LEMMA DagInvInit == ASSUME TopoInit PROVE DagInv
<1>1. edge \subseteq Node \X Node
  BY TopoAssumption DEF TopoInit
<1>. QED
  BY <1>1 DEF TopoInit, DagInv, DagTypes, GrayPath, VisitedChildren, BlackSorted, RootsVisited,
     CycleMet, Color

LEMMA DagInvNext == ASSUME DagInv, [TopoNext]_topoVars PROVE DagInv'
<1>1. CASE UNCHANGED topoVars
  <2>1. DagTypes' /\ GrayPath' /\ VisitedChildren' /\ BlackSorted' /\ RootsVisited'
    BY <1>1 DEF topoVars, DagInv, DagTypes, GrayPath, VisitedChildren, BlackSorted, RootsVisited,
       WeightTo
  <2>2. CycleMet'
    BY <1>1, CycleStays DEF topoVars, DagInv, CycleMet
  <2>. QED
    BY <2>1, <2>2 DEF DagInv
<1>. QED
  BY <1>1, VisitRootKeeps, VisitChildKeeps, FinishKeeps DEF TopoNext

(* TopologicalDag (src/graph) tells rightly whether the graph has a cycle, *)
(* and sorts it if it has none, whatever the graph and whatever the order  *)
(* in which Go walks its maps.                                             *)
THEOREM AlwaysTopologicalOrder == TopoSpec => []TopologicalOrder
<1>1. TopoInit => DagInv
  BY DagInvInit
<1>2. DagInv /\ [TopoNext]_topoVars => DagInv'
  BY DagInvNext
<1>3. DagInv => TopologicalOrder
  BY DagInvSorted
<1>. QED
  BY <1>1, <1>2, <1>3, PTL DEF TopoSpec
=============================================================================
