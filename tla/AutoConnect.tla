----------------------------- MODULE AutoConnect -----------------------------
(***************************************************************************)
(* The automatic connection of paired bluetooth devices                    *)
(* (src/system/bluetooth/auto_connect_manager.go): a table of devices to   *)
(* connect, and workers, goroutines that take a device, try to connect it, *)
(* give it back for another try or take it out, and end when there is      *)
(* nothing to do.  The methods hold acm.mu and are one step each; a worker *)
(* takes a step for each of them, for the connection, and for its last     *)
(* look at the other workers, which is made without the lock.              *)
(***************************************************************************)
EXTENDS Integers, FiniteSets, Functions

CONSTANTS
  Adapter, Device,
  AdapterOf,     \* the adapter of each device
  ByDevice,      \* devices that may connect by themselves (maybeReconnectByDevice)
  MaxPerAdapter, \* maxNumWorkerPerAdapter
  DurationMax,   \* tries that connectDurationMax leaves time for
  Slot,          \* bound: workers alive at a time, numbered
  MaxCalls,      \* bound: calls of tryConnectPairedDevices
  MaxUpsets      \* bound: adapters that appear again or are switched off, and
                 \* devices that are removed

WId == 1..MaxPerAdapter
NoDevice == "none"

ASSUME AutoConnectAssumption ==
  /\ AdapterOf \in [Device -> Adapter]
  /\ ByDevice \subseteq Device
  /\ {MaxPerAdapter, DurationMax, MaxCalls} \subseteq Nat \ {0} /\ MaxUpsets \in Nat
  /\ IsFiniteSet(Device) /\ IsFiniteSet(Slot) /\ Slot \subseteq Nat
  /\ NoDevice \notin Device

VARIABLES
  listed,      \* keys of acm.devices
  takenBy,     \* autoDeviceInfo.wId, 0: not taken
  tried,       \* autoDeviceInfo.connectDuration, in tries
  workerIds,   \* acm.adapters[a].workers: the ids in use
  present,     \* keys of acm.adapters
  waitFor,     \* activeReconnectDevices
  timer,       \* adapters whose delayStartWorkers timer runs
  worker,      \* the goroutines
  connected,   \* devices that are connected
  finished,    \* adapters whose autoConnectFinished is set
  off,         \* adapters that are not Powered
  calls, adds, losses, \* counters: calls; upsets of both kinds
  began,       \* history: adapters whose devices a worker has connected
  crossed,     \* history: adapters whose devices a worker of another one took
  dark,        \* history: adapters switched off since a worker last connected
  missed       \* history: devices listed while the workers were about to end

acmVars == <<listed, takenBy, tried, workerIds, present, waitFor, timer>>
powerVars == <<off, losses, dark>>
btVars == <<connected, finished, calls, adds, began, crossed, missed, powerVars>>
autoVars == <<listed, takenBy, tried, workerIds, present, waitFor, timer, worker,
              connected, finished, calls, adds, began, crossed, missed, powerVars>>

NoWorker == [pc |-> "none", adapter |-> "none", id |-> 0, device |-> NoDevice]
Alive(w) == worker[w].pc # "none"

AutoInit ==
  /\ listed = {}
  /\ takenBy = [d \in Device |-> 0] /\ tried = [d \in Device |-> 0]
  /\ present = Adapter
  /\ workerIds = [a \in Adapter |-> {}] /\ waitFor = [a \in Adapter |-> {}]
  /\ timer = {}
  /\ worker = [w \in Slot |-> NoWorker]
  /\ connected = {}
  /\ finished = {} /\ began = {} /\ crossed = {} /\ missed = {}
  /\ off = {} /\ dark = {}
  /\ calls = 0 /\ adds = 0 /\ losses = 0

-----------------------------------------------------------------------------
\* A device that a worker could take (canRetry and not isTaken)
Free(S, taken, t) == {d \in S : taken[d] = 0 /\ t[d] < DurationMax}

Smaller(m, n) == IF m < n THEN m ELSE n

\* evalNumWorkers
EvalNumWorkers(a, free) ==
  Smaller(Smaller(Cardinality({d \in free : AdapterOf[d] = a}), MaxPerAdapter),
          MaxPerAdapter - Cardinality(workerIds[a]))

\* getId gives the lowest id that is not in use.
Rank(i, S) == Cardinality({j \in S : j <= i})
Lowest(S, n) == {i \in S : Rank(i, S) <= n}

\* startWorkers, with the devices free that the step has left.  A device that
\* gets no worker because the one counted is ending is missed.
StartWorkers(a, free) ==
  IF a \notin present \/ EvalNumWorkers(a, free) <= 0
    THEN /\ UNCHANGED <<worker, workerIds>>
         /\ missed' = IF a \in present /\ \E w \in Slot : worker[w].pc \in {"putId", "check"}
                        THEN missed \cup {d \in free : AdapterOf[d] = a} ELSE missed
    ELSE LET num == EvalNumWorkers(a, free)
             ids == Lowest(WId \ workerIds[a], num)
             new == Lowest({w \in Slot : ~Alive(w)}, num)
             idOf == CHOOSE f \in Bijection(new, ids) : TRUE
         IN /\ Cardinality(new) = Cardinality(ids)
            /\ worker' = [w \in Slot |->
                 IF w \in new
                   THEN [pc |-> "getDevice", adapter |-> a, device |-> NoDevice,
                         id |-> idOf[w]]
                   ELSE worker[w]]
            /\ workerIds' = [workerIds EXCEPT ![a] = @ \cup ids]
            /\ missed' = missed

\* startDiscoveryCb does nothing for an adapter that is gone or off.
StartDiscovery(a) == finished' = finished \cup ({a} \cap (present \ off))

\* addDevices for the paired devices of a that are not connected, and the
\* delayed start when devices may connect by themselves.  The adapter was on
\* when getPairedDevicesForAutoConnect looked, and may be off by now.
AddDevices(a) ==
  LET new == {d \in Device : AdapterOf[d] = a /\ d \notin connected}
      fresh == [d \in Device |-> IF d \in new \ listed THEN 0 ELSE takenBy[d]]
      none == [d \in Device |-> IF d \in new THEN 0 ELSE tried[d]]
  IN
  /\ calls < MaxCalls /\ calls' = calls + 1
  /\ CASE new = {} ->
            /\ StartDiscovery(a)
            /\ UNCHANGED <<acmVars, worker, missed>>
       [] new # {} /\ a \notin present ->
            UNCHANGED <<acmVars, worker, missed, finished>>
       [] OTHER ->
            /\ listed' = listed \cup new
            /\ takenBy' = fresh
            /\ tried' = none
            /\ IF new \cap ByDevice = {}
                 THEN /\ StartWorkers(a, Free(listed', takenBy', tried'))
                      /\ UNCHANGED <<waitFor, timer>>
                 ELSE /\ waitFor' = [waitFor EXCEPT ![a] = new \cap ByDevice]
                      /\ timer' = timer \cup {a}
                      /\ UNCHANGED <<worker, workerIds, missed>>
            /\ UNCHANGED <<present, finished>>
  /\ UNCHANGED <<connected, adds, began, crossed, powerVars>>

TimerExpired(a) ==
  /\ a \in timer
  /\ timer' = timer \ {a}
  /\ waitFor' = [waitFor EXCEPT ![a] = {}]
  /\ StartWorkers(a, Free(listed, takenBy, tried))
  /\ UNCHANGED <<listed, takenBy, tried, present, connected, finished, calls, adds,
                 began, crossed, powerVars>>

\* handleDeviceEvent: a device has connected, by itself or through a worker,
\* or it was removed.
HandleDeviceEvent(d, removed) ==
  LET a == AdapterOf[d]
      left == waitFor[a] \ {d}
  IN
  /\ d \in ByDevice /\ a \in present
  /\ removed \/ d \in connected \/ a \notin off
  /\ IF removed
       THEN /\ adds + losses < MaxUpsets /\ losses' = losses + 1
            /\ connected' = connected \ {d}
       ELSE connected' = connected \cup {d} /\ UNCHANGED losses
  /\ IF waitFor[a] # {}
       THEN /\ waitFor' = [waitFor EXCEPT ![a] = left]
            /\ IF left = {}
                 THEN /\ timer' = timer \ {a}
                      /\ StartWorkers(a, Free(listed, takenBy, tried))
                 ELSE UNCHANGED <<timer, worker, workerIds, missed>>
       ELSE UNCHANGED <<waitFor, timer, worker, workerIds, missed>>
  /\ UNCHANGED <<listed, takenBy, tried, present, finished, calls, adds, began, crossed,
                 off, dark>>

\* An adapter that comes back is on or off.
AddAdapter(a, on) ==
  /\ a \notin present /\ adds + losses < MaxUpsets
  /\ present' = present \cup {a}
  /\ adds' = adds + 1
  /\ workerIds' = [workerIds EXCEPT ![a] = {}]
  /\ waitFor' = [waitFor EXCEPT ![a] = {}]
  /\ off' = IF on THEN off \ {a} ELSE off \cup {a}
  /\ UNCHANGED <<listed, takenBy, tried, timer, worker, connected, finished, calls,
                 began, crossed, missed, losses, dark>>

\* removeAdapter; its devices are disconnected.
RemoveAdapter(a) ==
  LET of == {d \in Device : AdapterOf[d] = a} IN
  /\ a \in present
  /\ present' = present \ {a}
  /\ timer' = timer \ {a}
  /\ listed' = listed \ of
  /\ connected' = connected \ of
  /\ finished' = finished \ {a} /\ began' = began \ {a} /\ missed' = missed \ of
  /\ UNCHANGED <<takenBy, tried, workerIds, waitFor, worker, calls, adds, crossed,
                 powerVars>>

\* Powered changes (connectProperties, SetAdapterPowered); bluez disconnects
\* the devices of an adapter that is switched off.  When it is switched on,
\* tryConnectPairedDevices is called a second later.
PowerOff(a) ==
  /\ a \in present \ off /\ adds + losses < MaxUpsets
  /\ off' = off \cup {a} /\ losses' = losses + 1 /\ dark' = dark \cup {a}
  /\ connected' = {d \in connected : AdapterOf[d] # a}
  /\ UNCHANGED <<acmVars, worker, finished, calls, adds, began, crossed, missed>>

PowerOn(a) ==
  /\ a \in present \cap off
  /\ off' = off \ {a}
  /\ UNCHANGED <<acmVars, worker, connected, finished, calls, adds, began, crossed, missed,
                 losses, dark>>

-----------------------------------------------------------------------------
\* A worker, from pc to pc
At(w, pc) == worker[w].pc = pc
Goes(w, pc) == worker' = [worker EXCEPT ![w].pc = pc]

\* getDevice finds a device, of whichever adapter; the best priority first,
\* which the properties do not depend on.
GetDevice(w) ==
  /\ At(w, "getDevice")
  /\ \E d \in Free(listed, takenBy, tried) :
       /\ worker' = [worker EXCEPT ![w].pc = "connect", ![w].device = d]
       /\ takenBy' = [takenBy EXCEPT ![d] = worker[w].id]
  /\ UNCHANGED <<listed, tried, workerIds, present, waitFor, timer, btVars>>

GetNoDevice(w) ==
  /\ At(w, "getDevice")
  /\ Free(listed, takenBy, tried) = {}
  /\ Goes(w, "putId")
  /\ UNCHANGED <<acmVars, btVars>>

\* connectCb.  It does nothing for an adapter that is gone or off or a device
\* that is connected; else it succeeds, gives up (the device was removed, or
\* another one with its icon is connected), or fails.
Connect(w, outcome) ==
  LET d  == worker[w].device
      a  == AdapterOf[d]
      on == a \in present \ off
  IN
  /\ At(w, "connect")
  /\ IF on /\ d \notin connected
       THEN /\ Goes(w, IF outcome = "failed" THEN "putDevice" ELSE "removeDevice")
            /\ connected' = IF outcome = "connected" THEN connected \cup {d} ELSE connected
       ELSE outcome = "ignored" /\ Goes(w, "removeDevice") /\ UNCHANGED connected
  /\ finished' = IF on THEN finished \ {a} ELSE finished
  /\ began' = IF on THEN began \cup {a} ELSE began
  /\ dark' = IF on THEN dark \ {a} ELSE dark
  /\ crossed' = IF worker[w].adapter = a THEN crossed ELSE crossed \cup {a}
  /\ UNCHANGED <<acmVars, calls, adds, missed, off, losses>>

\* Mutant: a device is not free again after a try that failed.
PutDeviceKeepsTaken(w) ==
  LET d == worker[w].device IN
  /\ At(w, "putDevice")
  /\ tried' = IF d \in listed THEN [tried EXCEPT ![d] = @ + 1] ELSE tried
  /\ worker' = [worker EXCEPT ![w].pc = "getDevice", ![w].device = NoDevice]
  /\ UNCHANGED <<listed, takenBy, workerIds, present, waitFor, timer, btVars>>

PutDevice(w) ==
  LET d == worker[w].device IN
  /\ At(w, "putDevice")
  /\ IF d \in listed /\ takenBy[d] = worker[w].id
       THEN /\ takenBy' = [takenBy EXCEPT ![d] = 0]
            /\ tried' = [tried EXCEPT ![d] = @ + 1]
       ELSE UNCHANGED <<takenBy, tried>>
  /\ worker' = [worker EXCEPT ![w].pc = "getDevice", ![w].device = NoDevice]
  /\ UNCHANGED <<listed, workerIds, present, waitFor, timer, btVars>>

RemoveDevice(w) ==
  LET d == worker[w].device IN
  /\ At(w, "removeDevice")
  /\ listed' = listed \ {d}
  /\ worker' = [worker EXCEPT ![w].pc = "getDevice", ![w].device = NoDevice]
  /\ UNCHANGED <<takenBy, tried, workerIds, present, waitFor, timer, btVars>>

\* putId: by the path of the adapter, whichever adapter has it now
PutId(w) ==
  LET a == worker[w].adapter IN
  /\ At(w, "putId")
  /\ workerIds' = IF a \in present
                    THEN [workerIds EXCEPT ![a] = @ \ {worker[w].id}] ELSE workerIds
  /\ Goes(w, "check")
  /\ UNCHANGED <<listed, takenBy, tried, present, waitFor, timer, btVars>>

\* The end of the goroutine: the last worker of the adapter starts discovery.
LastCheck(w) ==
  LET a == worker[w].adapter IN
  /\ At(w, "check")
  /\ IF a \in present /\ workerIds[a] = {} THEN StartDiscovery(a) ELSE UNCHANGED finished
  /\ worker' = [worker EXCEPT ![w] = NoWorker]
  /\ UNCHANGED <<acmVars, connected, calls, adds, began, crossed, missed, powerVars>>

WorkerStep(w) ==
  \/ GetDevice(w) \/ GetNoDevice(w)
  \/ \E outcome \in {"connected", "ignored", "failed"} : Connect(w, outcome)
  \/ PutDevice(w) \/ RemoveDevice(w) \/ PutId(w) \/ LastCheck(w)

AutoNext ==
  \/ \E a \in Adapter : \/ AddDevices(a) \/ TimerExpired(a) \/ RemoveAdapter(a)
                         \/ PowerOff(a) \/ PowerOn(a)
  \/ \E a \in Adapter, on \in BOOLEAN : AddAdapter(a, on)
  \/ \E d \in Device, removed \in BOOLEAN : HandleDeviceEvent(d, removed)
  \/ \E w \in Slot : WorkerStep(w)

\* Goroutines run, and timers expire.
AutoProgress ==
  \/ \E w \in Slot : WorkerStep(w)
  \/ \E a \in Adapter : TimerExpired(a)

AutoFairness == WF_autoVars(AutoProgress)

AutoSpec == AutoInit /\ [][AutoNext]_autoVars /\ AutoFairness

-----------------------------------------------------------------------------
Connecting(w) == worker[w].pc \in {"connect", "putDevice", "removeDevice"}
WorkersOf(a) == {w \in Slot : Alive(w) /\ worker[w].adapter = a}

(* A device that is marked as taken is in the hands of a worker that will  *)
(* give it back, also when its adapter or its entry was replaced meanwhile.*)
TakenByWorker ==
  \A d \in listed : takenBy[d] # 0 =>
     \E w \in Slot : Connecting(w) /\ worker[w].device = d

(* As long as no adapter came back under the path it had, a device is      *)
(* connected by one worker at a time.                                      *)
ConnectedByOne ==
  adds = 0 => \A v, w \in Slot :
     Connecting(v) /\ Connecting(w) /\ worker[v].device = worker[w].device => v = w

(* Discovery is held back while the devices of an adapter are connected    *)
(* and no longer: when it has no worker left, autoConnectFinished is set,  *)
(* unless a worker of another adapter took one of its devices, for which   *)
(* nobody sets it again, or the adapter was switched off meanwhile:        *)
(* startDiscoveryCb leaves the flag of an adapter that is off, and it is   *)
(* left until workers have connected devices again.                        *)
DiscoveryResumes ==
  \A a \in (began \cap present) \ (crossed \cup dark) : WorkersOf(a) = {} => a \in finished

(* The number of workers of an adapter is limited ("limits the number of   *)
(* workers", getId).                                                       *)
WorkersLimited == \A a \in Adapter : Cardinality(WorkersOf(a)) <= MaxPerAdapter

Waiting(d) ==
  /\ AdapterOf[d] \in present /\ d \in listed
  /\ tried[d] < DurationMax

(* A device that was listed is tried until it is connected or its time is  *)
(* over; only one that was listed while the last worker was about to end   *)
(* may be left.                                                            *)
NoDeviceForgotten == \A d \in Device : []<>(~Waiting(d) \/ d \in missed)

(* Devices are with workers, one each, and discovery waits for them only.  *)
AutoConnectInOrder == TakenByWorker /\ ConnectedByOne /\ DiscoveryResumes
=============================================================================
