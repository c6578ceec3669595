---------------------------- MODULE AudioPriority ----------------------------
(***************************************************************************)
(* The priorities of sound ports (src/audio): a list of the port types,    *)
(* most preferred first, the list of the usable ports, the file both are   *)
(* kept in between two runs of the daemon, and the switch to the first     *)
(* port.  This is the policy of one direction; input and output are alike  *)
(* but for SetTheFirstType, which is called for input only.  The events of *)
(* PulseAudio are handled by one goroutine, and every method is taken as   *)
(* one step (the lists have no lock of their own).  The methods work with  *)
(* the cards and the default sink as the last event left them, which may   *)
(* be out of date.                                                         *)
(***************************************************************************)
EXTENDS Integers, FiniteSets, SequencesExt

CONSTANTS
  Port,         \* pairs of a card's and a port's name
  PortType,     \* DetectPortType of each
  TypeCount,    \* PortTypeCount
  Bluetooth,    \* PortTypeBluetooth
  OldFiles,     \* files that earlier versions may have left
  SwitchMax,    \* outputAutoSwitchCountMax, 10 for input
  MaxRuns,      \* bound: runs of the daemon
  MaxPortChanges \* bound: changes of the devices and calls of the methods

TypeIndex == 0..(TypeCount - 1)
NoPort == "none"

ASSUME AudioAssumption ==
  /\ TypeCount \in Nat \ {0}
  /\ PortType \in [Port -> TypeIndex]
  /\ Bluetooth \in TypeIndex
  /\ IsFiniteSet(Port) /\ NoPort \notin Port
  /\ {SwitchMax, MaxRuns, MaxPortChanges} \subseteq Nat

VARIABLES
  types, ports,   \* PriorityPolicy
  prioFile,       \* priorities.json: both lists, or NoFile
  plugged,        \* ports whose Available is not No
  disabled,       \* ports whose config says so
  current,        \* active port of the default sink
  cards, sink,    \* plugged and current as the daemon has read them last
  audioEvent,     \* PulseAudio has an event for the daemon
  autoSwitch,     \* enableAutoSwitchPort
  switchPort, switchCount,  \* outputCardName:outputPortName, outputAutoSwitchCount
  runs, portChanges,
  refused,        \* history: the port PulseAudio did not take last
  skipped,        \* history: the last autoSwitchPort found the setting off
  promoted,       \* history: SetTheFirstType has been called
  loaded          \* history: the last step read the lists from the file

policyVars == <<types, ports>>
cacheVars == <<cards, sink>>
switchVars == <<switchPort, switchCount, refused>>
settingVars == <<autoSwitch, skipped>>
audioVars == <<types, ports, prioFile, plugged, disabled, current, cards, sink, audioEvent,
               switchPort, switchCount, runs, portChanges, refused, promoted, loaded,
               settingVars>>

Priorities(ts, ps) == [types |-> ts, ports |-> ps]
NoFile == Priorities(<<-1>>, <<>>)
TypedFile(f) ==
  f.types \in Seq(TypeIndex) /\ f.ports \in Seq(Port) /\ f = Priorities(f.types, f.ports)

ASSUME OldFilesAssumption == \A f \in OldFiles : f = NoFile \/ TypedFile(f)

Usable == plugged \ disabled

AudioInit ==
  /\ types = <<>> /\ ports = <<>>
  /\ prioFile \in OldFiles
  /\ plugged \in SUBSET Port /\ disabled = {}
  /\ current = NoPort
  /\ cards = {} /\ sink = NoPort
  /\ audioEvent = FALSE
  /\ autoSwitch = FALSE /\ skipped = FALSE
  /\ switchPort = NoPort /\ switchCount = 0 /\ refused = NoPort
  /\ runs = 0 /\ portChanges = 0
  /\ promoted = FALSE
  /\ loaded = FALSE

-----------------------------------------------------------------------------
\* The index of the first of types that is t1 or t2; GetPreferType, -1 if none
FirstOf(ts, t1, t2) == SelectInSeq(ts, LAMBDA t : t \in {t1, t2})
GetPreferType(ts, t1, t2) ==
  IF FirstOf(ts, t1, t2) = 0 THEN -1 ELSE ts[FirstOf(ts, t1, t2)]

\* The elements of s that are in S, in their order
KeepIn(s, S) ==
  LET kept[k \in 0..Len(s)] ==
        IF k = 0 THEN <<>>
        ELSE IF s[k] \in S THEN Append(kept[k - 1], s[k]) ELSE kept[k - 1]
  IN kept[Len(s)]

CompleteTypes(ts) == ts \o KeepIn([k \in 1..TypeCount |-> k - 1], TypeIndex \ ToSet(ts))

\* AddPort: before the first port whose type is not preferred to its own
AddPort(ts, ps, p) ==
  LET before(q) == GetPreferType(ts, PortType[p], PortType[q]) = PortType[p]
      i == SelectInSeq(ps, before)
  IN IF i = 0 THEN Append(ps, p) ELSE InsertAt(ps, i, p)

\* The ports of new, one after the other
AddPorts(ts, ps, new) ==
  LET added[k \in 0..Len(new)] ==
        IF k = 0 THEN ps ELSE AddPort(ts, added[k - 1], new[k])
  IN added[Len(new)]

\* Mutant: ports that are gone stay in the list.
SetPortsKeep(ts, ps, usable, new) == AddPorts(ts, ps, new)

\* SetPorts: ports that are gone are taken out, new ones (those that the list
\* lacks) are added in the order the cards have.
SetPorts(ts, ps, usable, new) == AddPorts(ts, KeepIn(ps, usable), new)

CardOrders(usable, ps) == SetToSeqs(usable \ ToSet(ps))

\* One comparison of sortPorts, which exchanges two neighbours
CompareAndSwap(ts, ps, j) ==
  LET t1 == PortType[ps[j]]  t2 == PortType[ps[j + 1]]
  IN IF t1 # t2 /\ GetPreferType(ts, t1, t2) = t2
       THEN [ps EXCEPT ![j] = ps[j + 1], ![j + 1] = ps[j]]
       ELSE ps

\* sortPorts: pass i compares the neighbours from i to the end.
SortPass(ts, ps, i) ==
  LET swept[k \in 0..(Len(ps) - i)] ==
        IF k = 0 THEN ps ELSE CompareAndSwap(ts, swept[k - 1], i + k - 1)
  IN swept[Len(ps) - i]

SortPorts(ts, ps) ==
  LET sorted[i \in 0..(Len(ps) - 1)] ==
        IF i = 0 THEN ps ELSE SortPass(ts, sorted[i - 1], i)
  IN IF Len(ps) < 2 THEN ps ELSE sorted[Len(ps) - 1]

SetTheFirstType(ts, t) == <<t>> \o KeepIn(ts, TypeIndex \ {t})

\* The port of position i goes to position pos.
MoveTo(ps, i, pos) == InsertAt(RemoveAt(ps, i), pos, ps[i])

\* SetTheFirstPort: the port goes to the front, then a loop over the list as
\* it changes brings the ports of its type behind it.
SetTheFirstPort(ts, ps, p) ==
  LET ty == PortType[p]
      front == MoveTo(ps, SelectInSeq(ps, LAMBDA q : q = p), 1)
      raised[i \in 0..Len(ps)] ==
        IF i = 0 THEN [list |-> front, pos |-> 1]
        ELSE LET acc == raised[i - 1]
             IN IF PortType[acc.list[i]] = ty
                  THEN [list |-> MoveTo(acc.list, i, acc.pos), pos |-> acc.pos + 1]
                  ELSE acc
  IN Priorities(SetTheFirstType(ts, ty), raised[Len(ps)].list)

-----------------------------------------------------------------------------
\* Mutant: once a port was switched to, it is taken to be in use.
NeedAutoSwitchOnce == autoSwitch' /\ ports' # <<>> /\ switchPort # Head(ports')

\* autoSwitchPort, after the lists were updated.  PulseAudio takes the port
\* or does not (took); either way it may have an event for that.  (Without a
\* default sink the switches are not limited; the model's are.)
NeedAutoSwitch ==
  /\ autoSwitch'
  /\ ports' # <<>>
  /\ ~(switchCount >= SwitchMax /\ switchPort = Head(ports') /\ sink' # NoPort)
  /\ sink' # Head(ports')

AutoSwitchPort(pending, took, again) ==
  /\ skipped' = ~autoSwitch'
  /\ IF NeedAutoSwitch
       THEN LET first == Head(ports') IN
            /\ took => first \in plugged
            /\ current' = IF took THEN first ELSE current
            /\ audioEvent' = (pending \/ took \/ again)
            /\ again => switchCount <= SwitchMax
            /\ switchPort' = first
            /\ switchCount' = IF switchPort = first THEN switchCount + 1 ELSE 0
            /\ refused' = IF took THEN NoPort ELSE first
       ELSE UNCHANGED <<current, switchVars>> /\ audioEvent' = pending

\* refresh: cards, sinks and the default sink are read again.
Refresh == cards' = plugged /\ sink' = current

\* Audio.init: initDsgProp, PriorityManager.Init, then the first switch.  The
\* setting is off when it cannot be read.  Without a file the ports that are
\* switched off in the config are added too.
StartAudio(took, again) ==
  /\ types = <<>> /\ runs < MaxRuns
  /\ runs' = runs + 1
  /\ autoSwitch' \in BOOLEAN
  /\ Refresh
  /\ \E new \in IF prioFile = NoFile THEN SetToSeqs(plugged) ELSE CardOrders(Usable, prioFile.ports) :
       LET full == CompleteTypes(IF prioFile = NoFile THEN <<>> ELSE prioFile.types)
       IN /\ types' = full
          /\ ports' = IF prioFile = NoFile
                        THEN AddPorts(full, <<>>, new)
                        ELSE SortPorts(full, SetPorts(prioFile.types, prioFile.ports, Usable, new))
  /\ prioFile' = Priorities(types', ports')
  /\ loaded' = (prioFile # NoFile)
  /\ promoted' = (promoted /\ prioFile # NoFile)
  /\ AutoSwitchPort(FALSE, took, again)
  /\ UNCHANGED <<plugged, disabled, portChanges>>

\* handleEvent: refresh, SetPorts, Save, and the switch of the card's event
HandleEvent(took, again) ==
  /\ types # <<>> /\ audioEvent
  /\ Refresh
  /\ \E new \in CardOrders(Usable, ports) : ports' = SetPorts(types, ports, Usable, new)
  /\ prioFile' = Priorities(types, ports')
  /\ loaded' = FALSE
  /\ UNCHANGED autoSwitch
  /\ AutoSwitchPort(FALSE, took, again)
  /\ UNCHANGED <<types, plugged, disabled, runs, portChanges, promoted>>

PortChange ==
  /\ portChanges < MaxPortChanges
  /\ portChanges' = portChanges + 1
  /\ loaded' = FALSE

\* A port appears or goes away; PulseAudio falls back to another, or none.
Replug(p) ==
  /\ PortChange
  /\ plugged' = IF p \in plugged THEN plugged \ {p} ELSE plugged \cup {p}
  /\ current' \in IF p = current THEN {NoPort} \cup plugged' ELSE {current}
  /\ audioEvent' = TRUE
  /\ UNCHANGED <<policyVars, prioFile, disabled, cacheVars, switchVars, runs, promoted,
                 settingVars>>

\* The handler of valueChanged; it does not switch the port.
AutoSwitchChanged ==
  /\ types # <<>> /\ PortChange
  /\ autoSwitch' = ~autoSwitch
  /\ UNCHANGED <<policyVars, prioFile, plugged, disabled, current, cacheVars, audioEvent,
                 switchVars, runs, promoted, skipped>>

\* The cards are not read again, and the lists are not saved here.
SetPortEnabled(p, took, again) ==
  /\ types # <<>> /\ PortChange /\ p \in cards
  /\ disabled' = IF p \in disabled THEN disabled \ {p} ELSE disabled \cup {p}
  /\ UNCHANGED <<cacheVars, autoSwitch>>
  /\ \E new \in CardOrders(cards \ disabled', ports) :
       ports' = SetPorts(types, ports, cards \ disabled', new)
  /\ AutoSwitchPort(audioEvent, took, again)
  /\ UNCHANGED <<types, prioFile, plugged, runs, promoted>>

\* SetPort of the user, which PulseAudio takes or does not; a port that is
\* not in the list changes nothing there.
SetPort(p, took) ==
  /\ types # <<>> /\ PortChange /\ p \in cards \ disabled
  /\ took => p \in plugged
  /\ LET after == IF Contains(ports, p) THEN SetTheFirstPort(types, ports, p)
                  ELSE Priorities(types, ports)
     IN /\ types' = after.types /\ ports' = after.ports
        /\ prioFile' = after
  /\ current' = IF took THEN p ELSE current
  /\ audioEvent' = (audioEvent \/ current' # current)
  /\ refused' = IF took \/ ~Contains(ports, p) THEN refused ELSE p
  /\ UNCHANGED <<plugged, disabled, cacheVars, switchPort, switchCount, runs, promoted,
                 settingVars>>

\* SetBluetoothAudioMode to the headset; saved with the next event
SetBluetoothAudioMode ==
  /\ types # <<>> /\ PortChange
  /\ types' = SetTheFirstType(types, Bluetooth)
  /\ switchCount' = 0
  /\ promoted' = TRUE
  /\ audioEvent' = TRUE
  /\ UNCHANGED <<ports, prioFile, plugged, disabled, current, cacheVars, switchPort, refused, runs,
                 settingVars>>

\* The daemon ends, by itself or not; its next run finds the file, or what a
\* write that was cut off left of it (Load fails).
EndDaemon ==
  /\ types # <<>> /\ runs < MaxRuns
  /\ types' = <<>> /\ ports' = <<>>
  /\ prioFile' \in {prioFile, NoFile}
  /\ cards' = {} /\ sink' = NoPort
  /\ switchPort' = NoPort /\ switchCount' = 0 /\ refused' = NoPort
  /\ autoSwitch' = FALSE /\ skipped' = FALSE
  /\ loaded' = FALSE
  /\ UNCHANGED <<plugged, disabled, current, audioEvent, runs, portChanges, promoted>>

AudioNext ==
  \/ \E took, again \in BOOLEAN :
       \/ StartAudio(took, again) \/ HandleEvent(took, again)
       \/ \E p \in Port : SetPortEnabled(p, took, again)
  \/ \E p \in Port : Replug(p) \/ \E took \in BOOLEAN : SetPort(p, took)
  \/ SetBluetoothAudioMode \/ AutoSwitchChanged \/ EndDaemon

AudioSpec == AudioInit /\ [][AudioNext]_audioVars

-----------------------------------------------------------------------------
Running == types # <<>>

\* ps is in the order of the types, ports of one type in any order
InTypeOrder(ts, ps) ==
  \A i, j \in 1..Len(ps) :
     i < j => GetPreferType(ts, PortType[ps[i]], PortType[ps[j]]) = PortType[ps[i]]

(* As long as no type was put first by itself (SetBluetoothAudioMode), the *)
(* ports stand in the order of their types through every hot-plug, choice  *)
(* of the user and restart, also with a file that lacks a type.            *)
PrioritySorted == Running /\ ~promoted => InTypeOrder(types, ports)

(* When the daemon has handled every event, its list has each usable port  *)
(* once and no other; after a start without a file the ports that are      *)
(* switched off may be there too.                                          *)
PortsListed ==
  Running /\ ~audioEvent => ToSet(ports) \in {Usable, plugged} /\ IsInjective(ports)

(* When the daemon has handled every event, PulseAudio uses the first port *)
(* of the list, unless it refused it, the daemon has switched to it so     *)
(* often that it gave up (the counter is not reset by a success), or       *)
(* autoSwitchPort was off when the daemon last looked at it.               *)
FirstPortUsed ==
  Running /\ ~audioEvent /\ ports # <<>> /\ ~skipped =>
     \/ Head(ports) \in {current, refused}
     \/ switchPort = Head(ports) /\ switchCount >= SwitchMax

\* A file as this policy writes it, or one that lacks a type that is new: no
\* port twice, and at most one type is missing.  (Ports of two missing types
\* are not put in order by AddPort, and sortPorts may not repair that.)
GoodFile(f) ==
  /\ TypedFile(f)
  /\ \A t, u \in TypeIndex \ ToSet(f.types) : t = u
  /\ IsInjective(f.ports)

OldFilesInOrder ==
  \A f \in OldFiles : f = NoFile \/ (GoodFile(f) /\ InTypeOrder(CompleteTypes(f.types), f.ports))

(* What sortPorts says it does, on the start from a file: "sort the ports  *)
(* by the priority of their types".                                        *)
LoadedSorted == loaded => InTypeOrder(types, ports)

(* The list of ports is complete and in order.                             *)
PrioritiesKept == PrioritySorted /\ PortsListed
=============================================================================
