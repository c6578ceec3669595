---------------------------- MODULE XEventMonitor ----------------------------
(***************************************************************************)
(* com.deepin.api.XEventMonitor (src/x_event_monitor): programs register   *)
(* areas of the screen, or the whole of it, and are told when the cursor   *)
(* goes into or out of them and what happens inside.  Every method and     *)
(* every handler of an event holds m.mu, so each is one step.  An id is    *)
(* the checksum of the areas and the flags: equal registrations of several *)
(* processes share it, and count references.                               *)
(***************************************************************************)
EXTENDS Integers, FiniteSets

CONSTANTS
  Pid,          \* processes that register
  AreaId,       \* checksums of areas with their flags
  Fullscreen,   \* fullscreenId
  Point,        \* places of the cursor
  Covers,       \* Covers[a]: the points in an area of a (isInArea)
  Flags,        \* Flags[a]: of "motion", "button" and "key", those in its flags
  MaxMotion     \* bound: calls of RegisterFullScreenMotionFlag that count

Id == AreaId \cup {Fullscreen}

ASSUME XEventAssumption ==
  /\ IsFiniteSet(Pid)
  /\ Fullscreen \notin AreaId
  /\ Covers \in [AreaId -> SUBSET Point]
  /\ Flags \in [AreaId -> SUBSET {"motion", "button", "key"}]
  /\ MaxMotion \in Nat

VARIABLES
  pidAids,       \* pidAidsMap: the ids of each process
  areaInfo,      \* idAreaInfoMap: its keys
  moveInto,      \* the ids whose moveIntoFlag is set
  referCount,    \* idReferCountMap; 0: no key
  motionCount,   \* fullscreenMotionCount
  selected,      \* the raw events are selected at the X server
  emitted,       \* the signals of the last step
  told           \* history: ids told CursorInto and not yet CursorOut

xevVars == <<pidAids, areaInfo, moveInto, referCount, motionCount, selected, emitted, told>>

Signal(name, id) == [name |-> name, id |-> id]

Holders(i) == {p \in Pid : i \in pidAids[p]}

XEventInit ==
  /\ pidAids = [p \in Pid |-> {}]
  /\ areaInfo = {} /\ moveInto = {}
  /\ referCount = [i \in Id |-> 0]
  /\ motionCount = 0
  /\ selected = FALSE
  /\ emitted = {} /\ told = {}

-----------------------------------------------------------------------------
\* registerPidArea; XISelectEvents is repeated on every registration.
RegisterPidArea(p, i) ==
  /\ pidAids' = [pidAids EXCEPT ![p] = @ \cup {i}]
  /\ selected' = TRUE

\* A process that has the id already is refused.  A second process shares
\* the entry as it is.
RegisterAreas(p, i) ==
  /\ i \notin pidAids[p]
  /\ RegisterPidArea(p, i)
  /\ referCount' = [referCount EXCEPT ![i] = @ + 1]
  /\ areaInfo' = areaInfo \cup {i}
  /\ emitted' = {}
  /\ UNCHANGED <<moveInto, motionCount, told>>

RegisterFullScreen(p) ==
  /\ Fullscreen \notin pidAids[p]
  /\ RegisterPidArea(p, Fullscreen)
  /\ referCount' = [referCount EXCEPT ![Fullscreen] = @ + 1]
  /\ emitted' = {}
  /\ UNCHANGED <<areaInfo, moveInto, motionCount, told>>

\* Mutant: the last id of any process ends the selection.
UnregisterPidAreaEnds(p, i) ==
  /\ pidAids' = [pidAids EXCEPT ![p] = @ \ {i}]
  /\ selected' = (selected /\ pidAids'[p] # {})
  /\ told' = IF Holders(i) = {p} THEN told \ {i} ELSE told

\* unregisterPidArea: the last id of the last process ends the selection.
UnregisterPidArea(p, i) ==
  /\ pidAids' = [pidAids EXCEPT ![p] = @ \ {i}]
  /\ selected' = (selected /\ \E q \in Pid : pidAids'[q] # {})
  /\ told' = IF Holders(i) = {p} THEN told \ {i} ELSE told

\* Mutant: the entry with its moveIntoFlag outlives its last process.
UnregisterAreaKeepsInfo(p, i) ==
  /\ i \in pidAids[p]
  /\ UnregisterPidArea(p, i)
  /\ referCount' = [referCount EXCEPT ![i] = @ - 1]
  /\ emitted' = {}
  /\ UNCHANGED <<motionCount, areaInfo, moveInto>>

UnregisterArea(p, i) ==
  /\ i \in pidAids[p]
  /\ UnregisterPidArea(p, i)
  /\ referCount' = [referCount EXCEPT ![i] = @ - 1]
  /\ IF referCount'[i] = 0
       THEN /\ areaInfo' = areaInfo \ {i}
            /\ moveInto' = moveInto \ {i}
       ELSE UNCHANGED <<areaInfo, moveInto>>
  /\ emitted' = {}
  /\ UNCHANGED motionCount

\* changeFullscreenMotionCount, refused to a process without fullscreenId
ChangeFullscreenMotionCount(p, d) ==
  /\ Fullscreen \in pidAids[p]
  /\ motionCount + d \in -MaxMotion..MaxMotion
  /\ motionCount' = motionCount + d
  /\ emitted' = {}
  /\ UNCHANGED <<pidAids, areaInfo, moveInto, referCount, selected, told>>

-----------------------------------------------------------------------------
\* getIdList
InList(pt) == {i \in areaInfo : pt \in Covers[i]}
OutList(pt) == areaInfo \ InList(pt)

\* The registration of the whole screen, if it is to hear of the event
FullscreenIf(cond) == IF referCount[Fullscreen] > 0 /\ cond THEN {Fullscreen} ELSE {}

\* handleCursorEvent: into an area counts only without a button pressed.
CursorInto(pt, press) == IF press THEN {} ELSE InList(pt) \ moveInto
CursorOut(pt) == OutList(pt) \cap moveInto
CursorMove(pt) == {i \in InList(pt) : "motion" \in Flags[i]} \cup FullscreenIf(motionCount > 0)

\* Raw motion is selected at all times, for the sake of the hidden cursor; it
\* is looked at when there is something registered.
HandleCursorEvent(pt, press) ==
  /\ areaInfo # {} \/ referCount[Fullscreen] > 0
  /\ moveInto' = (moveInto \cup CursorInto(pt, press)) \ CursorOut(pt)
  /\ emitted' = {Signal("CursorInto", i) : i \in CursorInto(pt, press)}
                  \cup {Signal("CursorMove", i) : i \in CursorMove(pt)}
                  \cup {Signal("CursorOut", i) : i \in CursorOut(pt)}
  /\ told' = (told \cup {i \in Id : Signal("CursorInto", i) \in emitted'})
               \ {i \in Id : Signal("CursorOut", i) \in emitted'}
  /\ UNCHANGED <<pidAids, areaInfo, referCount, motionCount, selected>>

\* handleButtonEvent and handleKeyboardEvent.  The event may have been on its
\* way since before the selection ended.
HandleInputEvent(kind, pt) ==
  /\ emitted' = {Signal(kind, i) :
                    i \in {j \in InList(pt) : kind \in Flags[j]} \cup FullscreenIf(TRUE)}
  /\ UNCHANGED <<pidAids, areaInfo, moveInto, referCount, motionCount, selected, told>>

XEventNext ==
  \/ \E p \in Pid : \/ \E i \in AreaId : RegisterAreas(p, i)
                    \/ RegisterFullScreen(p)
                    \/ \E i \in Id : UnregisterArea(p, i)
                    \/ \E d \in {-1, 1} : ChangeFullscreenMotionCount(p, d)
  \/ \E pt \in Point : \/ \E kind \in {"button", "key"} : HandleInputEvent(kind, pt)
                       \/ \E press \in BOOLEAN : HandleCursorEvent(pt, press)

XEventSpec == XEventInit /\ [][XEventNext]_xevVars

-----------------------------------------------------------------------------
XEventTypeOK ==
  /\ pidAids \in [Pid -> SUBSET Id]
  /\ areaInfo \subseteq AreaId /\ moveInto \subseteq AreaId /\ told \subseteq Id
  /\ referCount \in [Id -> Nat]
  /\ motionCount \in Int
  /\ selected \in BOOLEAN
  /\ emitted \subseteq [name : {"CursorInto", "CursorMove", "CursorOut", "button", "key"}, id : Id]

(* An id is kept as long as a process holds it, whatever the others that   *)
(* registered the same areas do: the references of RegisterAreas,          *)
(* RegisterFullScreen and UnregisterArea are the processes in pidAidsMap,  *)
(* and the areas known to the event handlers are the ids in use.           *)
ReferencesCounted ==
  /\ \A i \in Id : referCount[i] = Cardinality(Holders(i))
  /\ areaInfo = {i \in AreaId : Holders(i) # {}}

(* The X server is asked for the raw events exactly while some process     *)
(* has an area registered.                                                 *)
SelectedWhileUsed == selected <=> \E p \in Pid : pidAids[p] # {}

(* CursorInto and CursorOut alternate for as long as an id is registered:  *)
(* nobody is told again what holds already, and an id that is registered   *)
(* again begins outside.                                                   *)
IntoOutAlternate ==
  [][ /\ \A i \in Id : Signal("CursorInto", i) \in emitted' => i \notin told
      /\ \A i \in Id : Signal("CursorOut", i) \in emitted' => i \in told
      /\ told' \subseteq areaInfo' ]_xevVars

-----------------------------------------------------------------------------
Table == INSTANCE Registrations
           WITH Clients <- Pid, Topics <- Id, held <- pidAids, inside <- moveInto,
                listening <- selected, heard <- emitted

(* However many processes share an id, and whichever of them registers it  *)
(* or gives it up first, the monitor does what a table of registrations    *)
(* would: raw events are selected exactly while something is registered,   *)
(* a signal is only for an id that a process holds, CursorInto and         *)
(* CursorOut come in turn, and an id whose last process leaves begins      *)
(* outside again.                                                          *)
ImplementsRegistrations == Table!RegistrationsSpec
=============================================================================
