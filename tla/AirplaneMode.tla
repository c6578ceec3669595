----------------------------- MODULE AirplaneMode -----------------------------
(***************************************************************************)
(* The airplane-mode module of dde-system-daemon                           *)
(* (src/system/airplane_mode).  The kernel keeps a soft and a hard block   *)
(* of every radio and reports each change on /dev/rfkill, beginning with   *)
(* one "add" event per radio for a process that opens it.  The daemon      *)
(* counts the blocked radios at every event, publishes the result, and     *)
(* saves it; when it starts, it writes the saved state to the kernel.      *)
(*                                                                         *)
(* The kernel is external: a write blocks or unblocks every radio of a     *)
(* type.  A change of the file is one step.  HasAirplaneMode, which is     *)
(* true when a radio is known, is left out.                                *)
(***************************************************************************)
EXTENDS Naturals, Sequences, FiniteSets

CONSTANTS
  Device,      \* the radios, numbered by their rfkill index
  Type,        \* "wifi", "bt" or another type, by radio
  MaxChange,   \* bound: changes of the kernel's state from outside recover
  MaxCrash,    \* bound: ends of the daemon
  MaxFail      \* bound: failed writes to /dev/rfkill or to the file

RadioType == {"wifi", "bt", "wwan"}
RfkillType == RadioType \cup {"all"}

ASSUME AirplaneAssumption ==
  /\ Device \subseteq Nat /\ IsFiniteSet(Device)
  /\ Type \in [Device -> RadioType]
  /\ MaxChange \in Nat /\ MaxCrash \in Nat /\ MaxFail \in Nat

VARIABLES
  present,     \* the radios that are plugged in
  soft, hard,  \* the radios that are blocked
  events,      \* events in /dev/rfkill that the daemon has not read
  pc,          \* progress of the daemon
  devices,     \* Manager.devices: the radios it knows
  dsoft, dhard,\* the ones of them it knows to be blocked
  prop,        \* Enabled, WifiEnabled and BluetoothEnabled, by type
  config,      \* Config.config; a missing entry counts as false
  file,        \* the configuration file
  changes, crashes, fails,
  heard        \* history: the types of which the daemon has read an event

kernelVars == <<present, soft, hard, events>>
daemonVars == <<devices, dsoft, dhard, prop, config>>
airVars    == <<kernelVars, daemonVars, pc, file, changes, crashes, fails, heard>>

Published == {"all", "wifi", "bt"}
AllFalse(S) == [t \in S |-> FALSE]

AirplaneInit ==
  /\ present \in SUBSET Device /\ soft = {} /\ hard = {}
  /\ events = <<>>
  /\ pc = "down"
  /\ devices = {} /\ dsoft = {} /\ dhard = {}
  /\ prop = AllFalse(Published)
  /\ config = AllFalse(RfkillType) /\ file = AllFalse(RfkillType)
  /\ changes = 0 /\ crashes = 0 /\ fails = 0
  /\ heard = {}

OfType(S, t) == {d \in S : t = "all" \/ Type[d] = t}

\* "all of them": false when there is none.
AllIn(S, blocked) == S # {} /\ S \subseteq blocked

-----------------------------------------------------------------------------
(* The kernel.                                                             *)

Event(op, d, s, h) == [op |-> op, index |-> d, soft |-> d \in s, hard |-> d \in h]

\* The radios of S in the order of their index, and an event for each.
Ordered(S) ==
  [i \in 1..Cardinality(S) |-> CHOOSE d \in S : Cardinality({e \in S : e <= d}) = i]

EventsOf(op, S, s, h) == [i \in 1..Cardinality(S) |-> Event(op, Ordered(S)[i], s, h)]

\* The radios of S go to soft state s and hard state h; the daemon is told,
\* if it listens.
Report(op, S, s, h) ==
  /\ soft' = s /\ hard' = h
  /\ events' = IF pc = "run" THEN events \o EventsOf(op, S, s, h) ELSE events

\* A write of rfkillOpChangeAll.
ChangeAll(t, blocked) ==
  LET S == IF blocked THEN OfType(present, t) \ soft ELSE OfType(present, t) \cap soft
  IN /\ UNCHANGED present
     /\ Report("change", S, IF blocked THEN soft \cup S ELSE soft \ S, hard)

\* Enable, EnableWifi and EnableBluetooth, and other programs that use rfkill.
Block(t, blocked) ==
  /\ changes < MaxChange /\ changes' = changes + 1
  /\ ChangeAll(t, blocked)
  /\ UNCHANGED <<daemonVars, pc, file, crashes, fails, heard>>

HardSwitch(d) ==
  /\ changes < MaxChange /\ changes' = changes + 1
  /\ d \in present
  /\ UNCHANGED present
  /\ Report("change", {d}, soft, IF d \in hard THEN hard \ {d} ELSE hard \cup {d})
  /\ UNCHANGED <<daemonVars, pc, file, crashes, fails, heard>>

Plug(d) ==
  /\ changes < MaxChange /\ changes' = changes + 1
  /\ d \notin present /\ present' = present \cup {d}
  /\ Report("add", {d}, soft, hard)
  /\ UNCHANGED <<daemonVars, pc, file, crashes, fails, heard>>

Unplug(d) ==
  /\ changes < MaxChange /\ changes' = changes + 1
  /\ d \in present /\ present' = present \ {d}
  /\ Report("del", {d}, soft \ {d}, hard \ {d})
  /\ UNCHANGED <<daemonVars, pc, file, crashes, fails, heard>>

-----------------------------------------------------------------------------
(* The daemon: init, recover, listenRfkill.                                *)

LoadConfig ==
  /\ pc = "down" /\ pc' = "bt"
  /\ config' = file
  /\ UNCHANGED <<kernelVars, devices, dsoft, dhard, prop, file, changes, crashes, fails, heard>>

After == [bt |-> "wifi", wifi |-> "all", all |-> "listen"]

\* recover: the saved state of each type, one after the other, becomes the
\* property and is written to the kernel.
Recover(t, ok) ==
  /\ pc = t /\ pc' = After[t]
  /\ prop' = [prop EXCEPT ![t] = config[t]]
  /\ ok \/ fails < MaxFail
  /\ fails' = IF ok THEN fails ELSE fails + 1
  /\ IF ok THEN ChangeAll(t, config[t]) ELSE UNCHANGED kernelVars
  /\ UNCHANGED <<devices, dsoft, dhard, config, file, changes, crashes, heard>>

\* Opening /dev/rfkill: an event for every radio.
ListenRfkill ==
  /\ pc = "listen" /\ pc' = "run"
  /\ events' = EventsOf("add", present, soft, hard)
  /\ UNCHANGED <<present, soft, hard, daemonVars, file, changes, crashes, fails, heard>>

With(S, d, in) == IF in THEN S \cup {d} ELSE S \ {d}

\* Mutant: a radio that is gone keeps its entry.
UpdateDevicesKeep(e) ==
  /\ devices' = devices \cup {e.index}
  /\ dsoft' = With(dsoft, e.index, e.soft)
  /\ dhard' = With(dhard, e.index, e.hard)

UpdateDevices(e) ==
  /\ devices' = With(devices, e.index, e.op # "del")
  /\ dsoft' = With(dsoft, e.index, e.op # "del" /\ e.soft)
  /\ dhard' = With(dhard, e.index, e.op # "del" /\ e.hard)

\* Only the soft block is saved.
SavedState(t) ==
  [config EXCEPT !["all"] = AllIn(devices', dsoft'), ![t] = AllIn(OfType(devices', t), dsoft')]

\* SaveConfig: the file keeps its content when it cannot be written.
SaveConfig(ok) ==
  /\ ok \/ fails < MaxFail
  /\ fails' = IF ok THEN fails ELSE fails + 1
  /\ file' = IF ok THEN config' ELSE file

\* A type without a property of its own changes only Enabled.
HandleRfkillEvent(ok) ==
  LET e == Head(events)
      t == Type[e.index]
      blocked == dsoft' \cup dhard'
  IN /\ pc = "run" /\ events # <<>>
     /\ events' = Tail(events)
     /\ UpdateDevices(e)
     /\ prop' = [u \in Published |->
                   IF u = "all" THEN AllIn(devices', blocked)
                   ELSE IF u = t THEN AllIn(OfType(devices', t), blocked) ELSE prop[u]]
     /\ config' = SavedState(t)
     /\ SaveConfig(ok)
     /\ heard' = heard \cup {t, "all"}
     /\ UNCHANGED <<present, soft, hard, pc, changes, crashes>>

\* The daemon ends; the kernel's state and the file stay.
Crash ==
  /\ pc # "down" /\ crashes < MaxCrash
  /\ pc' = "down" /\ crashes' = crashes + 1
  /\ events' = <<>>
  /\ devices' = {} /\ dsoft' = {} /\ dhard' = {}
  /\ prop' = AllFalse(Published) /\ config' = AllFalse(RfkillType)
  /\ heard' = {}
  /\ UNCHANGED <<present, soft, hard, file, changes, fails>>

AirplaneNext ==
  \/ \E t \in Published, b \in BOOLEAN : Block(t, b)
  \/ \E d \in Device : HardSwitch(d) \/ Plug(d) \/ Unplug(d)
  \/ LoadConfig
  \/ \E t \in Published, ok \in BOOLEAN : Recover(t, ok)
  \/ ListenRfkill
  \/ \E ok \in BOOLEAN : HandleRfkillEvent(ok)
  \/ Crash

AirplaneSpec == AirplaneInit /\ [][AirplaneNext]_airVars

-----------------------------------------------------------------------------
Drained == pc = "run" /\ events = <<>>

(* Once the daemon has read all the events, its properties tell the state  *)
(* of the radios, for every type it has heard of since it started.         *)
PropertiesCurrent ==
  Drained => \A t \in Published \cap heard :
                prop[t] = AllIn(OfType(present, t), soft \cup hard)

(* Only the soft block is saved (rfkill.go:149): once the events are read, *)
(* the file tells it, for the types heard of.                              *)
SavedIsSoftBlock ==
  Drained /\ fails = 0 => \A t \in heard : file[t] = AllIn(OfType(present, t), soft)

(* "bluetooth enabled, means bluetooth soft/hard block is enabled last     *)
(* time, should recover block state here" (manager.go:132): after recover  *)
(* a type that was saved as blocked is blocked.                            *)
RecoverKeepsBlock ==
  pc = "listen" => \A t \in Published : config[t] => OfType(present, t) \subseteq soft

(* The properties and the file tell the state of the radios.               *)
RadioStateKnown == PropertiesCurrent /\ SavedIsSoftBlock
=============================================================================
