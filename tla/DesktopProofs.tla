---------------------------- MODULE DesktopProofs ----------------------------
(***************************************************************************)
(* Proofs about four services of the desktop, each for every value of its  *)
(* constants: the screen saver's timeout, the event monitor's references   *)
(* and signals and that it implements Registrations, the priorities of the *)
(* sound ports, and the record of launched applications.                   *)
(***************************************************************************)
EXTENDS ScreenSaver, XEventMonitor, AudioPriority, AppRecorder, FiniteSetTheorems,
        WellFoundedInduction, TLAPS

(* The screen saver.                                                       *)
Request == [seconds : Seconds, interval : Intervals]

RequestTypes ==
  /\ idleTime \in Nat
  /\ lastVals \in Request \cup {Nil}
  /\ requested \in Request \cup {Nil}

\* Where the last request is kept: in idleTime, and in the X server, when
\* nobody inhibits; else in lastVals or, if older, in idleTime.
RequestKept ==
  /\ inhibitors = {} => lastVals = Nil
  /\ lastVals # Nil => requested = lastVals
  /\ lastVals = Nil /\ requested # Nil => idleTime = requested.seconds

SSInv == RequestTypes /\ RequestKept /\ InhibitedMeansOff /\ SecondsRestored

\* The conversion to int16 keeps a number that fits.
LEMMA Int16Exact == \A n \in Nat : n <= 32767 => Int16(n) = n
BY DEF Int16

\* A timeout that fits arrives in the X server.
LEMMA XTimeoutSet ==
  ASSUME NEW s \in Nat, NEW i, s <= 32767, SetXTimeout(s, i)
  PROVE  x'.seconds = s
<1>1. Int16(s) = s
  BY Int16Exact
<1> QED
  BY <1>1 DEF SetXTimeout, Vals

\* A request is a record of two numbers, and not nil.
LEMMA RequestSeconds ==
  ASSUME NEW v \in Request
  PROVE  v.seconds \in Nat /\ v # Nil
<1>1. v.seconds \in Seconds
  BY DEF Request
<1>2. v.seconds \in Nat
  <2>1. Seconds \subseteq Nat
    BY ScreenSaverAssumption
  <2> QED
    BY <1>1, <2>1
<1>3. Nil.seconds \notin Nat
  <2>1. Nil = [seconds |-> -1, interval |-> -1]
    BY Zenon DEF Nil, Vals
  <2>2. Nil.seconds = -1
    BY <2>1, Zenon
  <2>3. -1 \notin Nat
    OBVIOUS
  <2> QED
    BY <2>2, <2>3, Zenon
<1>4. v.seconds # Nil.seconds
  BY <1>2, <1>3, Zenon
<1> QED
  BY <1>2, <1>4

LEMMA RequestIsNot ==
  ASSUME NEW s \in Seconds, NEW i \in Intervals
  PROVE  /\ Vals(s, i) \in Request
         /\ Vals(s, i) # Nil
         /\ Vals(s, i).seconds = s
         /\ s \in Nat
<1>1. Vals(s, i) \in Request /\ Vals(s, i).seconds = s
  BY DEF Vals, Request
<1> QED
  BY <1>1, RequestSeconds

\* The initial state has no inhibitor and no request.
LEMMA SSInit == ScreenSaverInit => SSInv
BY DEF ScreenSaverInit, SSInv, RequestTypes, RequestKept, InhibitedMeansOff, SecondsRestored

\* unInhibit, called by UnInhibit and by the handler of NameOwnerChanged.
LEMMA RemoveInhibitorInv ==
  ASSUME SSInv, NEW k \in inhibitors, RemoveInhibitor(k)
  PROVE  SSInv'
<1>1. CASE inhibitors \ {k} # {}
  BY <1>1 DEF SSInv, RequestTypes, RequestKept, InhibitedMeansOff, SecondsRestored, RemoveInhibitor
<1>2. CASE inhibitors \ {k} = {} /\ lastVals # Nil
  <2>1. inhibitors' = {} /\ lastVals' = Nil /\ requested' = requested
        /\ idleTime' = lastVals.seconds /\ SetXTimeout(lastVals.seconds, lastVals.interval)
    BY <1>2 DEF RemoveInhibitor
  <2>2. lastVals \in Request /\ requested = lastVals
    BY <1>2 DEF SSInv, RequestTypes, RequestKept
  <2>3. lastVals.seconds \in Nat
    BY <2>2, RequestSeconds
  <2>4. Fits(requested) => x'.seconds = requested.seconds
    BY <2>1, <2>2, <2>3, XTimeoutSet DEF Fits
  <2> QED
    BY <2>1, <2>2, <2>3, <2>4 DEF SSInv, RequestTypes, RequestKept, InhibitedMeansOff, SecondsRestored
<1>3. CASE inhibitors \ {k} = {} /\ lastVals = Nil
  <2>1. inhibitors' = {} /\ lastVals' = Nil /\ requested' = requested
        /\ idleTime' = idleTime /\ SetXTimeout(idleTime, idleInterval)
    BY <1>3 DEF RemoveInhibitor
  <2>2. requested # Nil => idleTime = requested.seconds
    BY <1>3 DEF SSInv, RequestKept
  <2>3. idleTime \in Nat
    BY DEF SSInv, RequestTypes
  <2>4. requested # Nil /\ Fits(requested) => x'.seconds = requested.seconds
    BY <2>1, <2>2, <2>3, XTimeoutSet DEF Fits
  <2> QED
    BY <2>1, <2>2, <2>4 DEF SSInv, RequestTypes, RequestKept, InhibitedMeansOff, SecondsRestored
<1> QED
  BY <1>1, <1>2, <1>3

\* Every step keeps the invariant.
LEMMA SSNext == SSInv /\ [ScreenSaverNext]_ssVars => SSInv'
<1> SUFFICES ASSUME SSInv, [ScreenSaverNext]_ssVars PROVE SSInv'
  OBVIOUS
<1>1. ASSUME NEW s \in Sender, Inhibit(s) PROVE SSInv'
  <2>1. inhibitors' # {}
    BY <1>1 DEF Inhibit
  <2>2. x'.seconds = 0
    <3>1. CASE inhibitors = {}
      BY <1>1, <3>1, XTimeoutSet DEF Inhibit
    <3>2. CASE inhibitors # {}
      BY <1>1, <3>2 DEF Inhibit, SSInv, InhibitedMeansOff
    <3> QED
      BY <3>1, <3>2
  <2>3. UNCHANGED <<idleTime, lastVals, requested>>
    BY <1>1 DEF Inhibit
  <2> QED
    BY <2>1, <2>2, <2>3 DEF SSInv, RequestTypes, RequestKept, InhibitedMeansOff, SecondsRestored
<1>2. ASSUME NEW s \in Sender, Disconnect(s) PROVE SSInv'
  BY <1>2 DEF Disconnect, SSInv, RequestTypes, RequestKept, InhibitedMeansOff, SecondsRestored
<1>3. ASSUME NEW s \in Sender, NameOwnerChanged(s) PROVE SSInv'
  <2>1. CASE OwnedBy(s) = {}
    BY <1>3, <2>1 DEF NameOwnerChanged, SSInv, RequestTypes, RequestKept, InhibitedMeansOff, SecondsRestored
  <2>2. CASE OwnedBy(s) # {}
    <3>1. PICK k \in OwnedBy(s) : RemoveInhibitor(k)
      BY <1>3, <2>2 DEF NameOwnerChanged
    <3>2. k \in inhibitors
      BY DEF OwnedBy
    <3> QED
      BY <3>1, <3>2, RemoveInhibitorInv
  <2> QED
    BY <2>1, <2>2
<1>4. ASSUME NEW s \in Sender, NEW k \in Cookie, UnInhibit(s, k) PROVE SSInv'
  BY <1>4, RemoveInhibitorInv DEF UnInhibit
<1>5. ASSUME NEW s \in Seconds, NEW i \in Intervals, SetTimeout(s, i) PROVE SSInv'
  <2>1. Vals(s, i) \in Request /\ Vals(s, i) # Nil /\ Vals(s, i).seconds = s /\ s \in Nat
    BY RequestIsNot
  <2>2. requested' = Vals(s, i) /\ inhibitors' = inhibitors
    BY <1>5 DEF SetTimeout
  <2>3. CASE inhibitors # {}
    <3>1. lastVals' = Vals(s, i) /\ UNCHANGED <<idleTime, x>>
      BY <1>5, <2>3 DEF SetTimeout
    <3> QED
      BY <2>1, <2>2, <2>3, <3>1 DEF SSInv, RequestTypes, RequestKept, InhibitedMeansOff, SecondsRestored
  <2>4. CASE inhibitors = {}
    <3>1. idleTime' = s /\ lastVals' = lastVals /\ SetXTimeout(s, i)
      BY <1>5, <2>4 DEF SetTimeout
    <3>2. lastVals = Nil
      BY <2>4 DEF SSInv, RequestKept
    <3>3. Fits(requested') => x'.seconds = s
      BY <2>1, <2>2, <3>1, XTimeoutSet DEF Fits
    <3> QED
      BY <2>1, <2>2, <2>4, <3>1, <3>2, <3>3
         DEF SSInv, RequestTypes, RequestKept, InhibitedMeansOff, SecondsRestored
  <2> QED
    BY <2>3, <2>4
<1>6. CASE UNCHANGED ssVars
  BY <1>6 DEF ssVars, SSInv, RequestTypes, RequestKept, InhibitedMeansOff, SecondsRestored
<1> QED
  BY <1>1, <1>2, <1>3, <1>4, <1>5, <1>6 DEF ScreenSaverNext

\* The invariant holds throughout.
LEMMA SSInvariant == ScreenSaverSpec => []SSInv
BY SSInit, SSNext, PTL DEF ScreenSaverSpec

(* The X server never counts while a program inhibits the idle timer       *)
(* (Inhibit, unInhibit, SetTimeout of screensaver.go).                     *)
THEOREM InhibitedAlwaysOff == ScreenSaverSpec => []InhibitedMeansOff
<1>1. SSInv => InhibitedMeansOff
  BY DEF SSInv
<1> QED
  BY <1>1, SSInvariant, PTL

(* When nobody inhibits the timer, the X server counts to the timeout of   *)
(* the last SetTimeout, whichever inhibitors came, went or died since.     *)
THEOREM SecondsAlwaysRestored == ScreenSaverSpec => []SecondsRestored
<1>1. SSInv => SecondsRestored
  BY DEF SSInv
<1> QED
  BY <1>1, SSInvariant, PTL

-----------------------------------------------------------------------------
(* The event monitor.                                                      *)
\* The part of the inductive invariant that no run checks on its own: the
\* flag of an id says what its process was told last.
FlagsAreTold == told = moveInto /\ moveInto \subseteq areaInfo

XEventInv == XEventTypeOK /\ ReferencesCounted /\ SelectedWhileUsed /\ FlagsAreTold

LEMMA XEventInitInv == XEventInit => XEventInv
<1> SUFFICES ASSUME XEventInit PROVE XEventInv
  OBVIOUS
<1>1. XEventTypeOK
  <2>1. selected \in BOOLEAN
    BY DEF XEventInit
  <2>2. referCount \in [Id -> Nat] /\ pidAids \in [Pid -> SUBSET Id]
    BY DEF XEventInit
  <2> QED
    BY <2>1, <2>2 DEF XEventInit, XEventTypeOK
<1>2. \A i \in Id : Holders(i) = {}
  BY DEF XEventInit, Holders
<1>3. ReferencesCounted
  BY <1>2, FS_EmptySet DEF XEventInit, ReferencesCounted, Id
<1> QED
  BY <1>1, <1>3 DEF XEventInit, XEventInv, SelectedWhileUsed, FlagsAreTold

-----------------------------------------------------------------------------
\* The holders of an id are finitely many.
LEMMA HoldersFinite ==
  \A i : IsFiniteSet(Holders(i)) /\ Cardinality(Holders(i)) \in Nat
BY XEventAssumption, FS_Subset, FS_CardinalityType DEF Holders

\* A process that takes an id, or gives one up, changes its holders only.
LEMMA HoldersTake ==
  ASSUME XEventTypeOK, NEW p \in Pid, NEW i \in Id, i \notin pidAids[p],
         pidAids' = [pidAids EXCEPT ![p] = @ \cup {i}]
  PROVE  /\ Holders(i)' = Holders(i) \cup {p}
         /\ Cardinality(Holders(i)') = Cardinality(Holders(i)) + 1
         /\ \A j \in Id \ {i} : Holders(j)' = Holders(j)
<1>1. Holders(i)' = Holders(i) \cup {p} /\ p \notin Holders(i)
  BY DEF XEventTypeOK, Holders
<1>2. \A j \in Id \ {i} : Holders(j)' = Holders(j)
  BY DEF XEventTypeOK, Holders
<1> QED
  BY <1>1, <1>2, HoldersFinite, FS_AddElement

LEMMA HoldersGive ==
  ASSUME XEventTypeOK, NEW p \in Pid, NEW i \in Id, i \in pidAids[p],
         pidAids' = [pidAids EXCEPT ![p] = @ \ {i}]
  PROVE  /\ Holders(i)' = Holders(i) \ {p} /\ p \in Holders(i)
         /\ Cardinality(Holders(i)') = Cardinality(Holders(i)) - 1
         /\ \A j \in Id \ {i} : Holders(j)' = Holders(j)
<1>1. Holders(i)' = Holders(i) \ {p} /\ p \in Holders(i)
  BY DEF XEventTypeOK, Holders
<1>2. \A j \in Id \ {i} : Holders(j)' = Holders(j)
  BY DEF XEventTypeOK, Holders
<1> QED
  BY <1>1, <1>2, HoldersFinite, FS_RemoveElement

-----------------------------------------------------------------------------
\* RegisterAreas and RegisterFullScreen: known is what areaInfo becomes.
LEMMA RegisterKeeps ==
  ASSUME XEventInv, NEW p \in Pid, NEW i \in Id, i \notin pidAids[p],
         RegisterPidArea(p, i), referCount' = [referCount EXCEPT ![i] = @ + 1],
         areaInfo' = areaInfo \cup (AreaId \cap {i}), emitted' = {},
         UNCHANGED <<moveInto, motionCount, told>>
  PROVE  XEventInv'
<1>1. pidAids' = [pidAids EXCEPT ![p] = @ \cup {i}] /\ selected' = TRUE
  BY DEF RegisterPidArea
<1>2. XEventTypeOK'
  BY <1>1 DEF XEventInv, XEventTypeOK
<1>3. /\ Holders(i)' = Holders(i) \cup {p}
      /\ Cardinality(Holders(i)') = Cardinality(Holders(i)) + 1
      /\ \A j \in Id \ {i} : Holders(j)' = Holders(j)
  BY <1>1, HoldersTake DEF XEventInv
<1>4. \A j \in Id : referCount'[j] = Cardinality(Holders(j)')
  BY <1>3 DEF XEventInv, XEventTypeOK, ReferencesCounted
<1>5. areaInfo' = {j \in AreaId : Holders(j)' # {}}
  BY <1>3 DEF XEventInv, ReferencesCounted, Id
<1>6. ReferencesCounted'
  BY <1>4, <1>5 DEF ReferencesCounted
<1>7. SelectedWhileUsed'
  BY <1>1 DEF SelectedWhileUsed, XEventInv, XEventTypeOK
<1> QED
  BY <1>2, <1>6, <1>7 DEF XEventInv, FlagsAreTold

LEMMA UnregisterKeeps ==
  ASSUME XEventInv, NEW p \in Pid, NEW i \in Id, UnregisterArea(p, i)
  PROVE  XEventInv'
<1>1. /\ pidAids' = [pidAids EXCEPT ![p] = @ \ {i}]
      /\ selected' = (selected /\ \E q \in Pid : pidAids'[q] # {})
      /\ told' = IF Holders(i) = {p} THEN told \ {i} ELSE told
      /\ i \in pidAids[p]
      /\ referCount' = [referCount EXCEPT ![i] = @ - 1]
      /\ emitted' = {} /\ motionCount' = motionCount
  BY DEF UnregisterArea, UnregisterPidArea
<1>2. /\ Holders(i)' = Holders(i) \ {p} /\ p \in Holders(i)
      /\ Cardinality(Holders(i)') = Cardinality(Holders(i)) - 1
      /\ \A j \in Id \ {i} : Holders(j)' = Holders(j)
  BY <1>1, HoldersGive DEF XEventInv
<1>3. Cardinality(Holders(i)') \in Nat
  <2>1. IsFiniteSet(Holders(i) \ {p})
    BY HoldersFinite, FS_Subset
  <2> QED
    BY <2>1, <1>2, FS_CardinalityType
<1>4. /\ \A j \in Id : referCount'[j] = Cardinality(Holders(j)')
      /\ referCount' \in [Id -> Nat]
  BY <1>1, <1>2, <1>3 DEF XEventInv, XEventTypeOK, ReferencesCounted
<1>5. (referCount'[i] = 0) <=> (Holders(i)' = {})
  <2>1. IsFiniteSet(Holders(i) \ {p})
    BY HoldersFinite, FS_Subset
  <2> QED
    BY <2>1, <1>2, <1>4, FS_EmptySet
<1>6. (Holders(i)' = {}) <=> (Holders(i) = {p})
  BY <1>2
<1>7. IF Holders(i)' = {} THEN areaInfo' = areaInfo \ {i} /\ moveInto' = moveInto \ {i}
                          ELSE areaInfo' = areaInfo /\ moveInto' = moveInto
  BY <1>5 DEF UnregisterArea
<1>8. ReferencesCounted'
  <2>1. areaInfo' = {j \in AreaId : Holders(j)' # {}}
    BY <1>2, <1>7 DEF XEventInv, ReferencesCounted, Id
  <2> QED
    BY <1>4, <2>1 DEF ReferencesCounted
<1>9. FlagsAreTold'
  BY <1>1, <1>6, <1>7 DEF XEventInv, FlagsAreTold
<1>10. XEventTypeOK'
  BY <1>1, <1>4, <1>7 DEF XEventInv, XEventTypeOK
<1>11. SelectedWhileUsed'
  BY <1>1 DEF XEventInv, XEventTypeOK, SelectedWhileUsed
<1> QED
  BY <1>8, <1>9, <1>10, <1>11 DEF XEventInv

-----------------------------------------------------------------------------
\* The signals of handleCursorEvent, read back from what it emits.
LEMMA CursorSignals ==
  ASSUME XEventInv, NEW pt \in Point, NEW press \in BOOLEAN, HandleCursorEvent(pt, press)
  PROVE  /\ \A i \in Id : Signal("CursorInto", i) \in emitted' <=> i \in CursorInto(pt, press)
         /\ \A i \in Id : Signal("CursorOut", i) \in emitted' <=> i \in CursorOut(pt)
         /\ CursorInto(pt, press) \subseteq areaInfo \ moveInto
         /\ CursorOut(pt) \subseteq areaInfo \cap moveInto
         /\ told' = (told \cup CursorInto(pt, press)) \ CursorOut(pt)
<1>1. emitted' = {Signal("CursorInto", i) : i \in CursorInto(pt, press)}
                  \cup {Signal("CursorMove", i) : i \in CursorMove(pt)}
                  \cup {Signal("CursorOut", i) : i \in CursorOut(pt)}
  BY DEF HandleCursorEvent
<1>2. \A i, j : \A m, n : Signal(m, i) = Signal(n, j) <=> m = n /\ i = j
  BY DEF Signal
<1>3. \A i \in Id : Signal("CursorInto", i) \in emitted' <=> i \in CursorInto(pt, press)
  BY <1>1, <1>2
<1>4. \A i \in Id : Signal("CursorOut", i) \in emitted' <=> i \in CursorOut(pt)
  BY <1>1, <1>2
<1>5. /\ CursorInto(pt, press) \subseteq areaInfo \ moveInto
      /\ CursorOut(pt) \subseteq areaInfo \cap moveInto
  BY DEF CursorInto, CursorOut, InList, OutList
<1>6. areaInfo \subseteq Id /\ told \subseteq Id
  BY DEF XEventInv, XEventTypeOK, Id
<1>7. told' = (told \cup CursorInto(pt, press)) \ CursorOut(pt)
  BY <1>3, <1>4, <1>5, <1>6 DEF HandleCursorEvent
<1> QED
  BY <1>3, <1>4, <1>5, <1>7

LEMMA CursorKeeps ==
  ASSUME XEventInv, NEW pt \in Point, NEW press \in BOOLEAN, HandleCursorEvent(pt, press)
  PROVE  XEventInv'
<1>1. UNCHANGED <<pidAids, areaInfo, referCount, motionCount, selected>>
  BY DEF HandleCursorEvent
<1>2. /\ CursorInto(pt, press) \subseteq areaInfo /\ CursorOut(pt) \subseteq areaInfo
      /\ told' = (told \cup CursorInto(pt, press)) \ CursorOut(pt)
      /\ moveInto' = (moveInto \cup CursorInto(pt, press)) \ CursorOut(pt)
  BY CursorSignals DEF HandleCursorEvent
<1>3. FlagsAreTold'
  BY <1>1, <1>2 DEF XEventInv, FlagsAreTold
<1>4. CursorMove(pt) \subseteq Id
  BY DEF CursorMove, FullscreenIf, InList, Id, XEventInv, XEventTypeOK
<1>5. emitted' \subseteq [name : {"CursorInto", "CursorMove", "CursorOut", "button", "key"},
                          id : Id]
  BY <1>2, <1>4 DEF HandleCursorEvent, Signal, XEventInv, XEventTypeOK, Id
<1>6. XEventTypeOK'
  BY <1>1, <1>2, <1>3, <1>5 DEF XEventInv, XEventTypeOK, FlagsAreTold, Id
<1>7. ReferencesCounted' /\ SelectedWhileUsed'
  BY <1>1 DEF XEventInv, ReferencesCounted, SelectedWhileUsed, Holders
<1> QED
  BY <1>3, <1>6, <1>7 DEF XEventInv

\* Signals about buttons and keys, and the motion flag of the whole screen.
LEMMA OthersKeep ==
  ASSUME XEventInv,
         UNCHANGED <<pidAids, areaInfo, moveInto, referCount, selected, told>>,
         motionCount' \in Int,
         emitted' \subseteq [name : {"button", "key"}, id : Id]
  PROVE  XEventInv'
<1>1. XEventTypeOK'
  BY DEF XEventInv, XEventTypeOK
<1>2. ReferencesCounted' /\ SelectedWhileUsed'
  BY DEF XEventInv, ReferencesCounted, SelectedWhileUsed, Holders
<1> QED
  BY <1>1, <1>2 DEF XEventInv, FlagsAreTold

\* handleButtonEvent and handleKeyboardEvent emit nothing about the cursor.
LEMMA InputSignals ==
  ASSUME XEventInv, NEW kind \in {"button", "key"}, NEW pt \in Point, HandleInputEvent(kind, pt)
  PROVE  emitted' \subseteq [name : {"button", "key"}, id : Id]
BY DEF HandleInputEvent, Signal, FullscreenIf, InList, Id, XEventInv, XEventTypeOK

\* What can happen, by how it touches the signals.
LEMMA XEventCases ==
  ASSUME XEventInv, [XEventNext]_xevVars
  PROVE  \/ /\ emitted' = {}
            /\ \/ \E p \in Pid : \E i \in AreaId : RegisterAreas(p, i)
               \/ \E p \in Pid : RegisterFullScreen(p)
               \/ \E p \in Pid, i \in Id : UnregisterArea(p, i)
               \/ \E p \in Pid, d \in {-1, 1} : ChangeFullscreenMotionCount(p, d)
         \/ \E pt \in Point, press \in BOOLEAN : HandleCursorEvent(pt, press)
         \/ \E pt \in Point, kind \in {"button", "key"} : HandleInputEvent(kind, pt)
         \/ UNCHANGED xevVars
BY DEF XEventNext, RegisterAreas, RegisterFullScreen, UnregisterArea,
       ChangeFullscreenMotionCount

LEMMA XEventNextInv == XEventInv /\ [XEventNext]_xevVars => XEventInv'
<1> SUFFICES ASSUME XEventInv, [XEventNext]_xevVars PROVE XEventInv'
  OBVIOUS
<1>1. ASSUME NEW p \in Pid, NEW i \in AreaId, RegisterAreas(p, i) PROVE XEventInv'
  <2>1. i \in Id /\ AreaId \cap {i} = {i}
    BY DEF Id
  <2> QED
    BY <1>1, <2>1, RegisterKeeps DEF RegisterAreas
<1>2. ASSUME NEW p \in Pid, RegisterFullScreen(p) PROVE XEventInv'
  <2>1. Fullscreen \in Id /\ AreaId \cap {Fullscreen} = {}
    BY XEventAssumption DEF Id
  <2> QED
    BY <1>2, <2>1, RegisterKeeps DEF RegisterFullScreen
<1>3. ASSUME NEW p \in Pid, NEW d \in {-1, 1}, ChangeFullscreenMotionCount(p, d)
      PROVE  XEventInv'
  BY <1>3, OthersKeep DEF ChangeFullscreenMotionCount, XEventInv, XEventTypeOK
<1>4. ASSUME NEW pt \in Point, NEW kind \in {"button", "key"}, HandleInputEvent(kind, pt)
      PROVE  XEventInv'
  <2>1. UNCHANGED <<pidAids, areaInfo, moveInto, referCount, selected, told, motionCount>>
    BY <1>4 DEF HandleInputEvent
  <2>2. motionCount' \in Int
    BY <2>1 DEF XEventInv, XEventTypeOK
  <2> QED
    BY <1>4, <2>1, <2>2, InputSignals, OthersKeep
<1>5. CASE UNCHANGED xevVars
  BY <1>5 DEF xevVars, XEventInv, XEventTypeOK, ReferencesCounted, SelectedWhileUsed, Holders,
              FlagsAreTold
<1> QED
  BY <1>1, <1>2, <1>3, <1>4, <1>5, UnregisterKeeps, CursorKeeps, XEventCases

-----------------------------------------------------------------------------
(* However many processes register the same areas, and in whatever order   *)
(* they give them up, an id is known as long as one of them holds it and   *)
(* its count is the number that do.                                        *)
THEOREM ReferencesAlwaysCounted == XEventSpec => []ReferencesCounted
<1>1. XEventInv => ReferencesCounted
  BY DEF XEventInv
<1> QED
  BY <1>1, XEventInitInv, XEventNextInv, PTL DEF XEventSpec

(* The X server is asked for the raw events exactly while a process has    *)
(* something registered.                                                   *)
THEOREM AlwaysSelectedWhileUsed == XEventSpec => []SelectedWhileUsed
<1>1. XEventInv => SelectedWhileUsed
  BY DEF XEventInv
<1> QED
  BY <1>1, XEventInitInv, XEventNextInv, PTL DEF XEventSpec

(* CursorInto and CursorOut of an id alternate, beginning with CursorInto, *)
(* for as long as it is registered, through every sequence of events,      *)
(* pressed buttons and registrations by other processes.                   *)
THEOREM IntoOutAlwaysAlternate == XEventSpec => IntoOutAlternate
<1> DEFINE A == /\ \A i \in Id : Signal("CursorInto", i) \in emitted' => i \notin told
                /\ \A i \in Id : Signal("CursorOut", i) \in emitted' => i \in told
                /\ told' \subseteq areaInfo'
<1>1. ASSUME XEventInv, XEventInv', [XEventNext]_xevVars
      PROVE  [A]_xevVars
  <2>1. told' \subseteq areaInfo' /\ told = moveInto
    BY <1>1 DEF XEventInv, FlagsAreTold
  <2>2. CASE emitted' = {}
    BY <2>1, <2>2
  <2>3. CASE \E pt \in Point, press \in BOOLEAN : HandleCursorEvent(pt, press)
    BY <1>1, <2>1, <2>3, CursorSignals
  <2>4. CASE \E pt \in Point, kind \in {"button", "key"} : HandleInputEvent(kind, pt)
    <3>1. emitted' \subseteq [name : {"button", "key"}, id : Id]
      BY <1>1, <2>4, InputSignals
    <3>2. \A i : /\ Signal("CursorInto", i) \notin [name : {"button", "key"}, id : Id]
                 /\ Signal("CursorOut", i) \notin [name : {"button", "key"}, id : Id]
      BY DEF Signal
    <3> QED
      BY <2>1, <3>1, <3>2
  <2> QED
    BY <1>1, <2>2, <2>3, <2>4, XEventCases
<1> QED
  BY <1>1, XEventInitInv, XEventNextInv, PTL DEF XEventSpec, IntoOutAlternate

-----------------------------------------------------------------------------
(* The refinement: the monitor maps to Registrations with the ids of each  *)
(* process, the flags, the selection and the signals as they are.          *)

\* An id is used in the table exactly if it has holders.
LEMMA UsedMeansHeld ==
  /\ \A t \in Id : t \in Table!Used(pidAids) <=> Holders(t) # {}
  /\ \A t \in Id : t \in Table!Used(pidAids') <=> Holders(t)' # {}
  /\ Table!Used(pidAids) \subseteq Id
BY DEF Table!Used, Holders

\* RegisterAreas and RegisterFullScreen.
LEMMA RegisterMaps ==
  ASSUME NEW p \in Pid, NEW i \in Id, i \notin pidAids[p], RegisterPidArea(p, i),
         emitted' = {}, UNCHANGED moveInto
  PROVE  Table!TableNext
<1>1. Table!Join(p, i)
  BY DEF RegisterPidArea, Table!Join
<1> QED
  BY <1>1 DEF Table!TableNext

LEMMA UnregisterMaps ==
  ASSUME XEventInv, XEventInv', NEW p \in Pid, NEW i \in Id, UnregisterArea(p, i)
  PROVE  Table!TableNext
<1>1. /\ pidAids' = [pidAids EXCEPT ![p] = @ \ {i}] /\ i \in pidAids[p]
      /\ emitted' = {}
  BY DEF UnregisterArea, UnregisterPidArea
<1>2. selected' = (Table!Used(pidAids') # {})
  <2>1. selected \in BOOLEAN /\ selected' \in BOOLEAN
    BY DEF XEventInv, XEventTypeOK
  <2>2. \A q \in Pid : pidAids'[q] \subseteq Id
    BY DEF XEventInv, XEventTypeOK
  <2>3. (\E q \in Pid : pidAids'[q] # {}) <=> Table!Used(pidAids') # {}
    BY <2>2 DEF Table!Used
  <2>4. selected' <=> Table!Used(pidAids') # {}
    BY <2>3 DEF XEventInv, SelectedWhileUsed
  <2> QED
    BY <2>1, <2>4
<1>3. moveInto' = moveInto \cap Table!Used(pidAids')
  <2>1. moveInto \subseteq AreaId /\ AreaId \subseteq Id
    BY DEF XEventInv, XEventTypeOK, Id
  <2>2. \A t \in moveInto : Holders(t) # {}
    BY DEF XEventInv, FlagsAreTold, ReferencesCounted
  <2>3. /\ Holders(i)' = Holders(i) \ {p}
        /\ \A j \in Id \ {i} : Holders(j)' = Holders(j)
    BY <1>1, HoldersGive DEF XEventInv
  <2>4. (referCount'[i] = 0) <=> (Holders(i)' = {})
    <3>1. IsFiniteSet(Holders(i) \ {p})
      BY HoldersFinite, FS_Subset
    <3>2. referCount'[i] = Cardinality(Holders(i)')
      BY DEF XEventInv, ReferencesCounted
    <3> QED
      BY <2>3, <3>1, <3>2, FS_EmptySet
  <2>5. moveInto' = IF Holders(i)' = {} THEN moveInto \ {i} ELSE moveInto
    BY <2>4 DEF UnregisterArea
  <2>6. \A t \in moveInto : t \in Table!Used(pidAids') <=> ~(t = i /\ Holders(i)' = {})
    BY <2>1, <2>2, <2>3, UsedMeansHeld
  <2> QED
    BY <2>5, <2>6
<1>4. Table!Leave(p, i)
  BY <1>1, <1>2, <1>3 DEF Table!Leave
<1> QED
  BY <1>4 DEF Table!TableNext

\* What a handler of an event may speak of: areas that are known, and the
\* whole screen if somebody has registered it.
LEMMA ListsAreUsed ==
  ASSUME XEventInv
  PROVE  /\ areaInfo \subseteq Table!Used(pidAids)
         /\ \A cond : FullscreenIf(cond) \subseteq Table!Used(pidAids)
<1>1. areaInfo \subseteq Table!Used(pidAids)
  BY UsedMeansHeld DEF XEventInv, ReferencesCounted, Id
<1>2. referCount[Fullscreen] > 0 => Holders(Fullscreen) # {}
  BY FS_EmptySet DEF XEventInv, ReferencesCounted, Id
<1> QED
  BY <1>1, <1>2, UsedMeansHeld DEF FullscreenIf, Id

LEMMA CursorMaps ==
  ASSUME XEventInv, NEW pt \in Point, NEW press \in BOOLEAN, HandleCursorEvent(pt, press)
  PROVE  Table!TableNext
<1>1. /\ CursorInto(pt, press) \subseteq areaInfo \ moveInto
      /\ CursorOut(pt) \subseteq areaInfo \cap moveInto
      /\ areaInfo \subseteq Id
  BY CursorSignals DEF XEventInv, XEventTypeOK, Id
<1>2. Table!Said("CursorInto", emitted') = CursorInto(pt, press)
  BY <1>1, CursorSignals DEF Table!Said, Signal
<1>3. Table!Said("CursorOut", emitted') = CursorOut(pt)
  BY <1>1, CursorSignals DEF Table!Said, Signal
<1>4. {s.id : s \in emitted'} \subseteq Table!Used(pidAids)
  <2>1. CursorMove(pt) \subseteq Table!Used(pidAids)
    BY ListsAreUsed DEF CursorMove, InList
  <2>2. \A s \in emitted' : s.id \in CursorInto(pt, press) \cup CursorMove(pt) \cup CursorOut(pt)
    BY DEF HandleCursorEvent, Signal
  <2> QED
    BY <1>1, <2>1, <2>2, ListsAreUsed
<1>5. /\ moveInto' = (moveInto \cup CursorInto(pt, press)) \ CursorOut(pt)
      /\ UNCHANGED <<pidAids, selected>>
  BY DEF HandleCursorEvent
<1>6. Table!Tell
  BY <1>1, <1>2, <1>3, <1>4, <1>5 DEF Table!Tell
<1> QED
  BY <1>6 DEF Table!TableNext

\* Steps that say nothing about the cursor's way in or out.
LEMMA OthersMap ==
  ASSUME XEventInv, UNCHANGED <<pidAids, moveInto, selected>>,
         emitted' \subseteq [name : {"button", "key"}, id : Table!Used(pidAids)]
  PROVE  Table!TableNext
<1>1. Table!Said("CursorInto", emitted') = {} /\ Table!Said("CursorOut", emitted') = {}
  BY DEF Table!Said
<1>2. {s.id : s \in emitted'} \subseteq Table!Used(pidAids)
  OBVIOUS
<1>3. Table!Tell
  BY <1>1, <1>2 DEF Table!Tell
<1> QED
  BY <1>3 DEF Table!TableNext

(* The monitor implements Registrations: for any number of processes and   *)
(* areas, what RegisterAreas, RegisterFullScreen, UnregisterArea and the   *)
(* handlers of events do with counts, entries and flags amounts to joining *)
(* and leaving a table, and to telling those who are in it.                *)
THEOREM MonitorImplementsRegistrations == XEventSpec => ImplementsRegistrations
<1>1. XEventInit => Table!TableInit
  BY DEF XEventInit, Table!TableInit
<1>2. XEventInv /\ XEventInv' /\ [XEventNext]_xevVars => [Table!TableNext]_Table!tableVars
  <2> SUFFICES ASSUME XEventInv, XEventInv', [XEventNext]_xevVars
               PROVE  Table!TableNext \/ UNCHANGED Table!tableVars
    OBVIOUS
  <2>1. ASSUME NEW p \in Pid, NEW i \in AreaId, RegisterAreas(p, i) PROVE Table!TableNext
    BY <2>1, RegisterMaps DEF RegisterAreas, Id
  <2>2. ASSUME NEW p \in Pid, RegisterFullScreen(p) PROVE Table!TableNext
    BY <2>2, RegisterMaps DEF RegisterFullScreen, Id
  <2>3. ASSUME NEW p \in Pid, NEW d \in {-1, 1}, ChangeFullscreenMotionCount(p, d)
        PROVE  Table!TableNext
    BY <2>3, OthersMap DEF ChangeFullscreenMotionCount
  <2>4. ASSUME NEW pt \in Point, NEW kind \in {"button", "key"}, HandleInputEvent(kind, pt)
        PROVE  Table!TableNext
    <3> DEFINE L == {j \in InList(pt) : kind \in Flags[j]} \cup FullscreenIf(TRUE)
    <3>1. L \subseteq Table!Used(pidAids)
      BY ListsAreUsed DEF InList
    <3>2. emitted' \subseteq [name : {"button", "key"}, id : Table!Used(pidAids)]
      <4>1. emitted' = {[name |-> kind, id |-> i] : i \in L}
        BY <2>4 DEF HandleInputEvent, Signal
      <4> HIDE DEF L
      <4> QED
        BY <3>1, <4>1
    <3> QED
      BY <2>4, <3>2, OthersMap DEF HandleInputEvent
  <2>5. CASE UNCHANGED xevVars
    BY <2>5 DEF xevVars, Table!tableVars
  <2> QED
    BY <2>1, <2>2, <2>3, <2>4, <2>5, UnregisterMaps, CursorMaps, XEventCases
<1> QED
  BY <1>1, <1>2, XEventInitInv, XEventNextInv, PTL
     DEF XEventSpec, ImplementsRegistrations, Table!RegistrationsSpec

-----------------------------------------------------------------------------
(* The priorities of the sound ports.  What the loops over the lists       *)
(* compute is proved by induction on their rounds (InductionOn: a set of   *)
(* numbers with 0 and the successors of its elements has them all, for the *)
(* least number outside it would have its predecessor in it).              *)

\* Induction on the numbers, for a set in place of a predicate.
LEMMA InductionOn ==
  ASSUME NEW T, T \subseteq Nat, 0 \in T, \A n \in Nat : n \in T => n + 1 \in T
  PROVE  \A n \in Nat : n \in T
<1> SUFFICES ASSUME NEW m \in Nat, m \notin T PROVE FALSE
  OBVIOUS
<1> DEFINE R == OpToRel(<, Nat)
           U == Nat \ T
<1>1. IsWellFoundedOn(R, Nat)
  BY NatLessThanWellFounded
<1>2. \A el, y \in Nat : el < y => <<el, y>> \in R
  BY DEF OpToRel
<1> HIDE DEF R
<1>3. PICK el \in U : \A y \in U : ~(<<y, el>> \in R)
  BY <1>1, WFMin
<1>4. \A y \in U : ~(y < el)
  BY <1>2, <1>3
<1>5. el # 0 /\ el - 1 \in Nat /\ el - 1 < el
  BY <1>3
<1>6. el - 1 \in T
  BY <1>4, <1>5
<1>. QED
  BY <1>3, <1>5, <1>6

\* A loop of n rounds over values of S, which round k changes by F[k]
Rounds(n, S) == [1..n -> [S -> S]]
IsRun(f, n, b, F) == f[0] = b /\ \A k \in 1..n : f[k] = F[k][f[k - 1]]

\* A loop has a run.
LEMMA LoopRuns ==
  ASSUME NEW n \in Nat, NEW S, NEW b \in S, NEW F \in Rounds(n, S)
  PROVE  \E f \in [0..n -> S] : IsRun(f, n, b, F)
<1> DEFINE Run(f, m) == f \in [0..m -> S] /\ f[0] = b /\ \A k \in 1..m : f[k] = F[k][f[k - 1]]
           Reached(m) == \E f : Run(f, m)
           T == {m \in Nat : m <= n => Reached(m)}
<1>1. 0 \in T
  <2>1. Run([k \in 0..0 |-> b], 0)
    OBVIOUS
  <2>. QED
    BY <2>1
<1>2. ASSUME NEW m \in Nat, m \in T PROVE m + 1 \in T
  <2> HIDE DEF Reached
  <2> SUFFICES ASSUME m + 1 <= n PROVE Reached(m + 1)
    OBVIOUS
  <2>6. Reached(m)
    BY <1>2
  <2>1. PICK f : Run(f, m)
    BY <2>6 DEF Reached
  <2> DEFINE g == [k \in 0..(m + 1) |-> IF k <= m THEN f[k] ELSE F[m + 1][f[m]]]
  <2>2. f[m] \in S /\ m + 1 \in 1..n
    BY <2>1
  <2>3. F[m + 1][f[m]] \in S
    BY <2>2 DEF Rounds
  <2>4. g \in [0..(m + 1) -> S] /\ g[0] = b
    BY <2>1, <2>3
  <2>5. ASSUME NEW k \in 1..(m + 1) PROVE g[k] = F[k][g[k - 1]]
    <3>1. CASE k <= m
      BY <2>1, <3>1
    <3>2. CASE k = m + 1
      <4>1. g[m + 1] = F[m + 1][f[m]] /\ g[m] = f[m]
        OBVIOUS
      <4> HIDE DEF g
      <4>. QED
        BY <3>2, <4>1
    <3>. QED
      BY <3>1, <3>2
  <2>7. Run(g, m + 1)
    BY <2>4, <2>5
  <2>. QED
    BY <2>7 DEF Reached
<1>3. \A m \in Nat : m \in T
  <2> HIDE DEF Reached
  <2>1. T \subseteq Nat
    OBVIOUS
  <2> HIDE DEF T
  <2>. QED
    BY <1>1, <1>2, <2>1, InductionOn
<1>4. n \in T
  BY <1>3
<1>. QED
  BY <1>4 DEF IsRun

\* KeepIn is the run of its loop.
LEMMA KeepInRuns ==
  ASSUME NEW D, NEW s \in Seq(D), NEW S
  PROVE  \E c :
           /\ c[0] = <<>>
           /\ \A k \in 1..Len(s) :
                c[k] = IF s[k] \in S THEN Append(c[k - 1], s[k]) ELSE c[k - 1]
           /\ KeepIn(s, S) = c[Len(s)]
<1> DEFINE n == Len(s)
           Round(r, k) == IF s[k] \in S THEN Append(r, s[k]) ELSE r
           c == CHOOSE f : f = [k \in 0..n |-> IF k = 0 THEN <<>> ELSE
                                  IF s[k] \in S THEN Append(f[k - 1], s[k]) ELSE f[k - 1]]
<1>1. n \in Nat /\ \A k \in 1..n : s[k] \in D
  OBVIOUS
<1>2. \A r \in Seq(D), k \in 1..n : Round(r, k) \in Seq(D)
  BY <1>1
<1>3. PICK g \in [0..n -> Seq(D)] : g[0] = <<>> /\ \A k \in 1..n : g[k] = Round(g[k - 1], k)
  <2> DEFINE F == [k \in 1..n |-> [r \in Seq(D) |-> Round(r, k)]]
  <2> HIDE DEF Round, n
  <2>1. F \in Rounds(n, Seq(D)) /\ \A k \in 1..n, r \in Seq(D) : F[k][r] = Round(r, k)
    BY <1>2 DEF Rounds
  <2> HIDE DEF F
  <2>2. PICK g \in [0..n -> Seq(D)] : IsRun(g, n, <<>>, F)
    <3> DEFINE e == <<>>
    <3>1. e \in Seq(D)
      OBVIOUS
    <3> HIDE DEF e
    <3>2. \E g \in [0..n -> Seq(D)] : IsRun(g, n, e, F)
      BY <1>1, <2>1, <3>1, LoopRuns
    <3>. QED
      BY <3>2 DEF e
  <2>3. \A k \in 1..n : g[k - 1] \in Seq(D)
    BY <1>1
  <2>4. g[0] = <<>> /\ \A k \in 1..n : g[k] = Round(g[k - 1], k)
    BY <2>1, <2>2, <2>3 DEF IsRun
  <2>. QED
    BY <2>4
<1>4. g = [k \in 0..n |-> IF k = 0 THEN <<>> ELSE
                         IF s[k] \in S THEN Append(g[k - 1], s[k]) ELSE g[k - 1]]
  <2>1. \A k \in 0..n : k = 0 \/ k \in 1..n
    BY <1>1
  <2> HIDE DEF n
  <2>. QED
    BY <1>3, <2>1
<1>5. c = [k \in 0..n |-> IF k = 0 THEN <<>> ELSE
                         IF s[k] \in S THEN Append(c[k - 1], s[k]) ELSE c[k - 1]]
  BY <1>4, Zenon
<1>6. KeepIn(s, S) = c[n]
  BY Zenon DEF KeepIn
<1> HIDE DEF c
<1>7. c[0] = <<>> /\ \A k \in 1..n : c[k] = IF s[k] \in S THEN Append(c[k - 1], s[k]) ELSE c[k - 1]
  <2>1. 0 \in 0..n /\ \A k \in 1..n : k \in 0..n /\ k # 0
    BY <1>1
  <2> HIDE DEF n
  <2>. QED
    BY <1>5, <2>1
<1>. QED
  BY <1>6, <1>7

\* h tells where in s the elements of r come from: all that are in S, in order.
Chosen(s, S, r, h, n) ==
  /\ h \in [1..Len(r) -> 1..n]
  /\ \A i, j \in 1..Len(r) : i < j => h[i] < h[j]
  /\ \A i \in 1..Len(r) : r[i] = s[h[i]] /\ r[i] \in S
  /\ \A k \in 1..n : s[k] \in S => \E i \in 1..Len(r) : h[i] = k

LEMMA KeepInFacts ==
  ASSUME NEW D, NEW s \in Seq(D), NEW S
  PROVE  KeepIn(s, S) \in Seq(D) /\ \E h : Chosen(s, S, KeepIn(s, S), h, Len(s))
<1>1. PICK c : /\ c[0] = <<>>
               /\ \A k \in 1..Len(s) :
                    c[k] = IF s[k] \in S THEN Append(c[k - 1], s[k]) ELSE c[k - 1]
               /\ KeepIn(s, S) = c[Len(s)]
  BY KeepInRuns
<1> DEFINE T == {k \in Nat : k <= Len(s) => c[k] \in Seq(D) /\ \E h : Chosen(s, S, c[k], h, k)}
<1>2. 0 \in T
  <2>1. Chosen(s, S, <<>>, <<>>, 0)
    BY DEF Chosen
  <2>2. c[0] \in Seq(D) /\ \E h : Chosen(s, S, c[0], h, 0)
    BY <1>1, <2>1
  <2>. QED
    BY <2>2
<1>3. ASSUME NEW k \in Nat, k \in T PROVE k + 1 \in T
  <2> SUFFICES ASSUME k + 1 <= Len(s)
               PROVE  c[k + 1] \in Seq(D) /\ \E h : Chosen(s, S, c[k + 1], h, k + 1)
    OBVIOUS
  <2>1. c[k] \in Seq(D) /\ Len(c[k]) \in Nat
    BY <1>3
  <2>2. PICK h : Chosen(s, S, c[k], h, k)
    BY <1>3
  <2>3. k + 1 \in 1..Len(s) /\ s[k + 1] \in D /\ (k + 1) - 1 = k
    OBVIOUS
  <2>4. CASE s[k + 1] \in S
    <3> DEFINE l == Len(c[k])
               r == Append(c[k], s[k + 1])
               g == [i \in 1..(l + 1) |-> IF i <= l THEN h[i] ELSE k + 1]
    <3>1. c[k + 1] = r
      BY <1>1, <2>3, <2>4
    <3>2. r \in Seq(D) /\ Len(r) = l + 1 /\ r[l + 1] = s[k + 1] /\ \A i \in 1..l : r[i] = c[k][i]
      BY <2>1, <2>3
    <3>3. /\ \A i \in 1..l : g[i] = h[i] /\ h[i] \in 1..k /\ r[i] = s[h[i]] /\ r[i] \in S
          /\ g[l + 1] = k + 1
          /\ \A i \in 1..(l + 1) : i \in 1..l \/ i = l + 1
      <4>1. /\ \A i \in 1..l : g[i] = h[i]
            /\ g[l + 1] = k + 1
            /\ \A i \in 1..(l + 1) : i \in 1..l \/ i = l + 1
        BY <2>1
      <4>2. \A i \in 1..l : h[i] \in 1..k /\ c[k][i] = s[h[i]] /\ c[k][i] \in S
        BY <2>2 DEF Chosen
      <4> HIDE DEF g, r
      <4>. QED
        BY <3>2, <4>1, <4>2
    <3>4. g \in [1..(l + 1) -> 1..(k + 1)]
      <4>1. \A i \in 1..(l + 1) : g[i] \in 1..(k + 1)
        <5> HIDE DEF g, l
        <5>. QED
          BY <3>3
      <4>. QED
        BY <4>1
    <3> HIDE DEF r, g
    <3>5. ASSUME NEW i \in 1..(l + 1), NEW j \in 1..(l + 1), i < j PROVE g[i] < g[j]
      <4>1. i \in 1..l
        BY <2>1, <3>5
      <4>2. CASE j \in 1..l
        BY <2>2, <3>3, <3>5, <4>1, <4>2 DEF Chosen
      <4>3. CASE j = l + 1
        BY <3>3, <4>1, <4>3
      <4>. QED
        BY <3>3, <4>2, <4>3
    <3>6. \A i \in 1..(l + 1) : r[i] = s[g[i]] /\ r[i] \in S
      BY <2>4, <3>2, <3>3
    <3>7. ASSUME NEW m \in 1..(k + 1), s[m] \in S PROVE \E i \in 1..(l + 1) : g[i] = m
      <4>1. CASE m = k + 1
        <5>1. l + 1 \in 1..(l + 1)
          BY <2>1
        <5>. QED
          BY <3>3, <4>1, <5>1
      <4>2. CASE m \in 1..k
        <5>1. PICK i \in 1..l : h[i] = m
          BY <2>2, <3>7, <4>2 DEF Chosen
        <5>2. i \in 1..(l + 1) /\ g[i] = m
          BY <2>1, <3>3, <5>1
        <5>. QED
          BY <5>2
      <4>. QED
        BY <4>1, <4>2
    <3>8. Chosen(s, S, r, g, k + 1)
      BY <3>2, <3>4, <3>5, <3>6, <3>7 DEF Chosen
    <3>. QED
      BY <3>1, <3>2, <3>8
  <2>5. CASE s[k + 1] \notin S
    <3>1. c[k + 1] = c[k]
      BY <1>1, <2>3, <2>5
    <3>2. \A m \in 1..(k + 1) : m \in 1..k \/ m = k + 1
      OBVIOUS
    <3>3. Chosen(s, S, c[k], h, k + 1)
      BY <2>1, <2>2, <2>5, <3>2 DEF Chosen
    <3>. QED
      BY <2>1, <3>1, <3>3
  <2>. QED
    BY <2>4, <2>5
<1>4. \A k \in Nat : k \in T
  <2>1. T \subseteq Nat
    OBVIOUS
  <2> HIDE DEF T
  <2>. QED
    BY <1>2, <1>3, <2>1, InductionOn
<1>5. Len(s) \in T
  BY <1>4
<1>. QED
  BY <1>1, <1>5

-----------------------------------------------------------------------------
LEMMA MinLeast ==
  ASSUME NEW I, I \subseteq Nat, I # {}
  PROVE  Min(I) \in I /\ \A y \in I : Min(I) <= y
<1> DEFINE T == {n \in Nat : \A m \in I : n <= m}
<1>1. \E el \in I : \A y \in I : el <= y
  <2> SUFFICES ASSUME \A el \in I : \E y \in I : ~(el <= y) PROVE FALSE
    OBVIOUS
  <2>1. 0 \in T
    OBVIOUS
  <2>2. ASSUME NEW n \in Nat, n \in T PROVE n + 1 \in T
    <3>1. \A m \in I : n <= m /\ m \in Nat
      BY <2>2
    <3>2. n \notin I
      BY <3>1
    <3>. QED
      BY <3>1, <3>2
  <2>3. T \subseteq Nat
    OBVIOUS
  <2> HIDE DEF T
  <2>4. \A n \in Nat : n \in T
    BY <2>1, <2>2, <2>3, InductionOn
  <2>5. PICK el \in I : TRUE
    OBVIOUS
  <2>6. el + 1 \in T
    BY <2>4
  <2>. QED
    BY <2>5, <2>6 DEF T
<1>. QED
  BY <1>1, Zenon DEF Min

\* The place of a type in the list; a type that is missing comes last.
RankIn(ts, t) ==
  IF \E i \in 1..Len(ts) : ts[i] = t THEN Min({i \in 1..Len(ts) : ts[i] = t}) ELSE Len(ts) + 1

LEMMA RankFacts ==
  ASSUME NEW D, NEW ts \in Seq(D), NEW t
  PROVE  /\ RankIn(ts, t) \in Nat
         /\ (\E i \in 1..Len(ts) : ts[i] = t) =>
              /\ RankIn(ts, t) \in 1..Len(ts) /\ ts[RankIn(ts, t)] = t
              /\ \A i \in 1..Len(ts) : ts[i] = t => RankIn(ts, t) <= i
         /\ ~(\E i \in 1..Len(ts) : ts[i] = t) => RankIn(ts, t) = Len(ts) + 1
<1> DEFINE I == {i \in 1..Len(ts) : ts[i] = t}
<1>1. CASE \E i \in 1..Len(ts) : ts[i] = t
  <2>1. RankIn(ts, t) = Min(I)
    BY <1>1 DEF RankIn
  <2>2. I \subseteq Nat /\ I # {}
    BY <1>1
  <2> HIDE DEF I
  <2>3. Min(I) \in I /\ \A y \in I : Min(I) <= y
    BY <2>2, MinLeast
  <2>. QED
    BY <1>1, <2>1, <2>3 DEF I
<1>2. CASE ~\E i \in 1..Len(ts) : ts[i] = t
  BY <1>2 DEF RankIn
<1>. QED
  BY <1>1, <1>2

\* FirstOf finds the first of both types.
LEMMA FirstOfFacts ==
  ASSUME NEW ts \in Seq(TypeIndex), NEW t, NEW u
  PROVE  \/ /\ FirstOf(ts, t, u) \in 1..Len(ts)
            /\ ts[FirstOf(ts, t, u)] \in {t, u}
            /\ \A i \in 1..Len(ts) : ts[i] \in {t, u} => FirstOf(ts, t, u) <= i
         \/ /\ FirstOf(ts, t, u) = 0
            /\ \A i \in 1..Len(ts) : ts[i] \notin {t, u}
<1> DEFINE I == {i \in 1..Len(ts) : ts[i] \in {t, u}}
<1>1. FirstOf(ts, t, u) = IF I # {} THEN Min(I) ELSE 0
  BY DEF FirstOf, SelectInSeq
<1>2. CASE I # {}
  <2>1. I \subseteq Nat
    OBVIOUS
  <2> HIDE DEF I
  <2>2. Min(I) \in I /\ \A y \in I : Min(I) <= y
    BY <1>2, <2>1, MinLeast
  <2>. QED
    BY <1>1, <1>2, <2>2 DEF I
<1>3. CASE I = {}
  BY <1>1, <1>3
<1>. QED
  BY <1>2, <1>3

\* p's type is put before q's: AddPort's test
Prefers(ts, t, u) == GetPreferType(ts, t, u) = t

LEMMA PreferByRank ==
  ASSUME NEW ts \in Seq(TypeIndex), NEW t \in TypeIndex, NEW u \in TypeIndex
  PROVE  /\ Prefers(ts, t, u) => RankIn(ts, t) <= RankIn(ts, u)
         /\ ~Prefers(ts, t, u) => RankIn(ts, u) <= RankIn(ts, t)
         /\ (\E i \in 1..Len(ts) : ts[i] = t) /\ RankIn(ts, t) <= RankIn(ts, u) => Prefers(ts, t, u)
<1> DEFINE f == FirstOf(ts, t, u)
           a == RankIn(ts, t)
           b == RankIn(ts, u)
<1>1. /\ a \in Nat
      /\ (\E i \in 1..Len(ts) : ts[i] = t) =>
              a \in 1..Len(ts) /\ ts[a] = t /\ \A i \in 1..Len(ts) : ts[i] = t => a <= i
      /\ ~(\E i \in 1..Len(ts) : ts[i] = t) => a = Len(ts) + 1
  BY RankFacts
<1>2. /\ b \in Nat
      /\ (\E i \in 1..Len(ts) : ts[i] = u) =>
              b \in 1..Len(ts) /\ ts[b] = u /\ \A i \in 1..Len(ts) : ts[i] = u => b <= i
      /\ ~(\E i \in 1..Len(ts) : ts[i] = u) => b = Len(ts) + 1
  BY RankFacts
<1>3. \/ /\ f \in 1..Len(ts) /\ ts[f] \in {t, u}
         /\ \A i \in 1..Len(ts) : ts[i] \in {t, u} => f <= i
      \/ f = 0 /\ \A i \in 1..Len(ts) : ts[i] \notin {t, u}
  BY FirstOfFacts
<1>4. Prefers(ts, t, u) <=> (IF f = 0 THEN -1 ELSE ts[f]) = t
  BY DEF Prefers, GetPreferType
<1>5. t # -1 /\ Len(ts) \in Nat
  BY AudioAssumption DEF TypeIndex
<1> HIDE DEF f, a, b
<1>6. CASE f = 0
  <2>1. a = Len(ts) + 1 /\ b = Len(ts) + 1
    BY <1>1, <1>2, <1>3, <1>6
  <2>2. ~Prefers(ts, t, u) /\ ~\E i \in 1..Len(ts) : ts[i] = t
    BY <1>3, <1>4, <1>5, <1>6
  <2>. QED
    BY <1>5, <2>1, <2>2 DEF a, b
<1>7. CASE f # 0 /\ ts[f] = t
  <2>1. Prefers(ts, t, u) /\ a = f
    BY <1>1, <1>3, <1>4, <1>7
  <2>2. f <= b
    BY <1>2, <1>3, <1>7
  <2>. QED
    BY <2>1, <2>2 DEF a, b
<1>8. CASE f # 0 /\ ts[f] = u /\ u # t
  <2>1. ~Prefers(ts, t, u) /\ b = f
    BY <1>2, <1>3, <1>4, <1>8
  <2>2. f <= a
    BY <1>1, <1>3, <1>8
  <2>3. (\E i \in 1..Len(ts) : ts[i] = t) => a # f
    BY <1>1, <1>8
  <2>. QED
    BY <1>1, <1>2, <2>1, <2>2, <2>3 DEF a, b
<1>. QED
  BY <1>3, <1>6, <1>7, <1>8

-----------------------------------------------------------------------------
\* Every type is in the list.
Full(ts) == \A t \in TypeIndex : \E i \in 1..Len(ts) : ts[i] = t

SortedBy(ts, ps) ==
  \A i, j \in 1..Len(ps) : i < j => RankIn(ts, PortType[ps[i]]) <= RankIn(ts, PortType[ps[j]])

LEMMA OrderByRank ==
  ASSUME NEW ts \in Seq(TypeIndex), Full(ts), NEW ps \in Seq(Port)
  PROVE  InTypeOrder(ts, ps) <=> SortedBy(ts, ps)
<1>1. \A i \in 1..Len(ps) : PortType[ps[i]] \in TypeIndex
  BY AudioAssumption
<1>2. \A t, u \in TypeIndex : GetPreferType(ts, t, u) = t <=> RankIn(ts, t) <= RankIn(ts, u)
  <2> TAKE t, u \in TypeIndex
  <2>1. \E i \in 1..Len(ts) : ts[i] = t
    BY DEF Full
  <2>2. /\ Prefers(ts, t, u) => RankIn(ts, t) <= RankIn(ts, u)
        /\ RankIn(ts, t) <= RankIn(ts, u) => Prefers(ts, t, u)
    BY <2>1, PreferByRank
  <2>. QED
    BY <2>2 DEF Prefers
<1>. QED
  BY <1>1, <1>2 DEF InTypeOrder, SortedBy

\* completeTypes adds the types that are missing behind the others.
LEMMA CompleteFacts ==
  ASSUME NEW ts \in Seq(TypeIndex)
  PROVE  /\ CompleteTypes(ts) \in Seq(TypeIndex) /\ Full(CompleteTypes(ts))
         /\ CompleteTypes(ts) # <<>>
         /\ Len(CompleteTypes(ts)) >= Len(ts)
         /\ \A i \in 1..Len(ts) : CompleteTypes(ts)[i] = ts[i]
<1> DEFINE all == [k \in 1..TypeCount |-> k - 1]
           M == TypeIndex \ ToSet(ts)
           r == KeepIn(all, M)
<1>1. TypeCount \in Nat /\ TypeCount > 0
  BY AudioAssumption
<1>2. all \in Seq(TypeIndex) /\ Len(all) = TypeCount /\ \A t \in TypeIndex : t + 1 \in 1..TypeCount /\ all[t + 1] = t
  BY <1>1 DEF TypeIndex
<1> HIDE DEF all
<1>3. r \in Seq(TypeIndex) /\ \E h : Chosen(all, M, r, h, Len(all))
  BY <1>2, KeepInFacts
<1>4. PICK h : Chosen(all, M, r, h, Len(all))
  BY <1>3
<1>5. CompleteTypes(ts) = ts \o r
  BY DEF CompleteTypes, all
<1> HIDE DEF r
<1>6. /\ ts \o r \in Seq(TypeIndex) /\ Len(ts \o r) = Len(ts) + Len(r)
      /\ \A i \in 1..Len(ts) : (ts \o r)[i] = ts[i]
      /\ \A i \in 1..Len(r) : (ts \o r)[Len(ts) + i] = r[i]
      /\ Len(ts) \in Nat /\ Len(r) \in Nat
  BY <1>3
<1>7. ASSUME NEW t \in TypeIndex PROVE \E i \in 1..Len(ts \o r) : (ts \o r)[i] = t
  <2>1. CASE t \in ToSet(ts)
    <3>1. PICK i \in 1..Len(ts) : ts[i] = t
      BY <2>1 DEF ToSet
    <3>2. i \in 1..Len(ts \o r) /\ (ts \o r)[i] = t
      BY <1>6, <3>1
    <3>. QED
      BY <3>2
  <2>2. CASE t \notin ToSet(ts)
    <3>1. t + 1 \in 1..Len(all) /\ all[t + 1] \in M /\ all[t + 1] = t
      BY <1>2, <2>2
    <3>2. PICK i \in 1..Len(r) : h[i] = t + 1
      BY <1>4, <3>1 DEF Chosen
    <3>3. r[i] = t
      BY <1>4, <3>1, <3>2 DEF Chosen
    <3>4. Len(ts) + i \in 1..Len(ts \o r) /\ (ts \o r)[Len(ts) + i] = t
      BY <1>6, <3>2, <3>3
    <3>. QED
      BY <3>4
  <2>. QED
    BY <2>1, <2>2
<1>8. ts \o r # <<>>
  <2>1. 0 \in TypeIndex
    BY <1>1 DEF TypeIndex
  <2>2. PICK i \in 1..Len(ts \o r) : (ts \o r)[i] = 0
    BY <1>7, <2>1
  <2>3. Len(ts \o r) # 0
    BY <1>6, <2>2
  <2>. QED
    BY <2>3
<1>. QED
  BY <1>5, <1>6, <1>7, <1>8 DEF Full

\* With at most one type missing, the completed list orders the types alike.
LEMMA CompleteOrder ==
  ASSUME NEW ts \in Seq(TypeIndex), \A t, u \in TypeIndex \ ToSet(ts) : t = u,
         NEW t \in TypeIndex, NEW u \in TypeIndex
  PROVE  RankIn(CompleteTypes(ts), t) <= RankIn(CompleteTypes(ts), u)
            <=> RankIn(ts, t) <= RankIn(ts, u)
<1> DEFINE full == CompleteTypes(ts)
<1>1. /\ full \in Seq(TypeIndex) /\ Full(full) /\ Len(full) >= Len(ts)
      /\ \A i \in 1..Len(ts) : full[i] = ts[i]
      /\ Len(ts) \in Nat /\ Len(full) \in Nat
  BY CompleteFacts
<1> HIDE DEF full
<1>2. ASSUME NEW v \in TypeIndex
      PROVE  /\ RankIn(full, v) \in Nat /\ RankIn(ts, v) \in Nat
             /\ v \in ToSet(ts) => RankIn(ts, v) <= Len(ts) /\ RankIn(full, v) = RankIn(ts, v)
             /\ v \notin ToSet(ts) => RankIn(ts, v) = Len(ts) + 1 /\ RankIn(full, v) > Len(ts)
  <2>1. v \in ToSet(ts) <=> \E i \in 1..Len(ts) : ts[i] = v
    BY DEF ToSet
  <2>2. \E i \in 1..Len(full) : full[i] = v
    BY <1>1 DEF Full
  <2>3. /\ RankIn(ts, v) \in Nat
        /\ (\E i \in 1..Len(ts) : ts[i] = v) =>
              /\ RankIn(ts, v) \in 1..Len(ts) /\ ts[RankIn(ts, v)] = v
              /\ \A i \in 1..Len(ts) : ts[i] = v => RankIn(ts, v) <= i
        /\ ~(\E i \in 1..Len(ts) : ts[i] = v) => RankIn(ts, v) = Len(ts) + 1
    BY RankFacts
  <2>4. /\ RankIn(full, v) \in 1..Len(full) /\ full[RankIn(full, v)] = v
        /\ \A i \in 1..Len(full) : full[i] = v => RankIn(full, v) <= i
    BY <1>1, <2>2, RankFacts
  <2> DEFINE a == RankIn(full, v)
             b == RankIn(ts, v)
  <2> HIDE DEF a, b
  <2>5. CASE \E i \in 1..Len(ts) : ts[i] = v
    <3>1. b \in 1..Len(ts) /\ ts[b] = v
      BY <2>3, <2>5 DEF b
    <3>2. b \in 1..Len(full) /\ full[b] = v
      BY <1>1, <3>1
    <3>3. a <= b /\ a \in 1..Len(full) /\ full[a] = v
      BY <2>4, <3>2 DEF a
    <3>4. a \in 1..Len(ts) /\ ts[a] = v
      BY <1>1, <3>1, <3>3
    <3>5. b <= a
      BY <2>3, <2>5, <3>4 DEF b
    <3>6. a = b
      BY <3>1, <3>3, <3>5
    <3>. QED
      BY <2>1, <2>5, <3>1, <3>6, <1>1 DEF a, b
  <2>6. CASE ~\E i \in 1..Len(ts) : ts[i] = v
    <3>1. a \in 1..Len(full) /\ full[a] = v
      BY <2>4 DEF a
    <3>2. ~(a <= Len(ts))
      <4> SUFFICES ASSUME a <= Len(ts) PROVE FALSE
        OBVIOUS
      <4>1. a \in 1..Len(ts) /\ ts[a] = v
        BY <1>1, <3>1
      <4>. QED
        BY <2>6, <4>1
    <3>. QED
      BY <1>1, <2>1, <2>3, <2>6, <3>1, <3>2 DEF a, b
  <2>. QED
    BY <2>5, <2>6
<1>3. t \in ToSet(ts) \/ u \in ToSet(ts) \/ t = u
  OBVIOUS
<1>. QED
  BY <1>1, <1>2, <1>3 DEF full

\* With at most one type missing, the completed list sorts the ports alike.
LEMMA CompleteSorted ==
  ASSUME NEW ts \in Seq(TypeIndex), \A t, u \in TypeIndex \ ToSet(ts) : t = u, NEW ps \in Seq(Port)
  PROVE  SortedBy(CompleteTypes(ts), ps) <=> SortedBy(ts, ps)
<1> DEFINE full == CompleteTypes(ts)
<1>1. \A t, u \in TypeIndex : RankIn(full, t) <= RankIn(full, u) <=> RankIn(ts, t) <= RankIn(ts, u)
  BY CompleteOrder
<1> HIDE DEF full
<1>2. \A i \in 1..Len(ps) : PortType[ps[i]] \in TypeIndex
  BY AudioAssumption
<1>3. SortedBy(full, ps) <=> SortedBy(ts, ps)
  BY <1>1, <1>2 DEF SortedBy
<1>. QED
  BY <1>3 DEF full

LEMMA FileOrder ==
  ASSUME NEW f, GoodFile(f)
  PROVE  InTypeOrder(CompleteTypes(f.types), f.ports) <=> SortedBy(f.types, f.ports)
<1> DEFINE ts == f.types
           ps == f.ports
           full == CompleteTypes(ts)
<1>1. ts \in Seq(TypeIndex) /\ ps \in Seq(Port) /\ \A t, u \in TypeIndex \ ToSet(ts) : t = u
  BY DEF GoodFile, TypedFile
<1> HIDE DEF ts, ps
<1>2. full \in Seq(TypeIndex) /\ Full(full)
  BY <1>1, CompleteFacts
<1>3. SortedBy(full, ps) <=> SortedBy(ts, ps)
  BY <1>1, CompleteSorted
<1> HIDE DEF full
<1>4. InTypeOrder(full, ps) <=> SortedBy(full, ps)
  BY <1>1, <1>2, OrderByRank
<1>. QED
  BY <1>3, <1>4 DEF full, ts, ps

\* SetTheFirstType keeps the order of the other types.
LEMMA FirstTypeFacts ==
  ASSUME NEW ts \in Seq(TypeIndex), Full(ts), NEW ty \in TypeIndex
  PROVE  /\ SetTheFirstType(ts, ty) \in Seq(TypeIndex) /\ Full(SetTheFirstType(ts, ty))
         /\ SetTheFirstType(ts, ty) # <<>>
         /\ RankIn(SetTheFirstType(ts, ty), ty) = 1
         /\ \A t, u \in TypeIndex \ {ty} :
              RankIn(ts, t) <= RankIn(ts, u) =>
                RankIn(SetTheFirstType(ts, ty), t) <= RankIn(SetTheFirstType(ts, ty), u)
         /\ \A t \in TypeIndex : RankIn(SetTheFirstType(ts, ty), t) >= 1
<1> DEFINE M == TypeIndex \ {ty}
           r == KeepIn(ts, M)
           new == <<ty>> \o r
<1>1. SetTheFirstType(ts, ty) = new
  BY DEF SetTheFirstType
<1>2. r \in Seq(TypeIndex) /\ \E h : Chosen(ts, M, r, h, Len(ts))
  BY KeepInFacts
<1>3. PICK h : Chosen(ts, M, r, h, Len(ts))
  BY <1>2
<1> HIDE DEF r
<1>4. /\ new \in Seq(TypeIndex) /\ Len(new) = Len(r) + 1 /\ new[1] = ty
      /\ \A i \in 1..Len(r) : new[i + 1] = r[i]
      /\ Len(r) \in Nat /\ Len(ts) \in Nat
  BY <1>2
<1>5. \A i \in 1..Len(new) : i = 1 \/ (i - 1 \in 1..Len(r) /\ new[i] = r[i - 1])
  <2> TAKE i \in 1..Len(new)
  <2>1. i = 1 \/ (i - 1 \in 1..Len(r) /\ (i - 1) + 1 = i)
    BY <1>4
  <2> HIDE DEF new
  <2>. QED
    BY <1>4, <2>1
<1> HIDE DEF new
<1>6. /\ h \in [1..Len(r) -> 1..Len(ts)]
      /\ \A i, j \in 1..Len(r) : i < j => h[i] < h[j]
      /\ \A i \in 1..Len(r) : r[i] = ts[h[i]] /\ r[i] \in M
      /\ \A k \in 1..Len(ts) : ts[k] \in M => \E i \in 1..Len(r) : h[i] = k
  BY <1>3 DEF Chosen
\* the place of a type t that is not ty
<1>7. ASSUME NEW t \in M
      PROVE  \E i \in 1..Len(r) : h[i] = RankIn(ts, t) /\ RankIn(new, t) = i + 1 /\ new[i + 1] = t
  <2> DEFINE a == RankIn(ts, t)
             b == RankIn(new, t)
  <2>1. \E i \in 1..Len(ts) : ts[i] = t
    BY DEF Full
  <2>2. a \in 1..Len(ts) /\ ts[a] = t /\ \A i \in 1..Len(ts) : ts[i] = t => a <= i
    BY <2>1, RankFacts
  <2> HIDE DEF a
  <2>3. PICK i \in 1..Len(r) : h[i] = a
    BY <1>6, <2>2
  <2>4. r[i] = t /\ new[i + 1] = t /\ i + 1 \in 1..Len(new)
    BY <1>4, <1>6, <2>2, <2>3
  <2>5. \E j \in 1..Len(new) : new[j] = t
    BY <2>4
  <2>6. b \in 1..Len(new) /\ new[b] = t /\ \A j \in 1..Len(new) : new[j] = t => b <= j
    BY <1>4, <2>5, RankFacts
  <2> HIDE DEF b
  <2>7. b <= i + 1
    BY <2>4, <2>6
  <2>8. b - 1 \in 1..Len(r) /\ r[b - 1] = t
    BY <1>4, <1>5, <2>6
  <2> DEFINE m == b - 1
  <2>9. m \in 1..Len(r) /\ r[m] = t
    BY <2>8
  <2> HIDE DEF m
  <2>10. h[m] \in 1..Len(ts) /\ ts[h[m]] = t
    BY <1>6, <2>9
  <2>11. a <= h[m]
    BY <2>2, <2>10
  <2>12. ~(m < i)
    BY <1>6, <2>2, <2>3, <2>9, <2>10, <2>11
  <2>13. b = i + 1
    BY <2>3, <2>6, <2>7, <2>12 DEF m
  <2>. QED
    BY <2>3, <2>4, <2>13 DEF a, b
<1>8. 1 \in 1..Len(new)
  BY <1>4
<1>9. RankIn(new, ty) = 1
  <2>1. /\ RankIn(new, ty) \in 1..Len(new)
        /\ \A i \in 1..Len(new) : new[i] = ty => RankIn(new, ty) <= i
    BY <1>4, <1>8, RankFacts
  <2>. QED
    BY <1>4, <1>8, <2>1
<1>10. Full(new)
  <2> SUFFICES ASSUME NEW t \in TypeIndex PROVE \E i \in 1..Len(new) : new[i] = t
    BY DEF Full
  <2>1. CASE t = ty
    BY <1>4, <1>8, <2>1
  <2>2. CASE t # ty
    <3>1. PICK i \in 1..Len(r) : new[i + 1] = t
      BY <1>7, <2>2
    <3>2. i + 1 \in 1..Len(new)
      BY <1>4, <3>1
    <3>. QED
      BY <3>1, <3>2
  <2>. QED
    BY <2>1, <2>2
<1>11. ASSUME NEW t \in M, NEW u \in M, RankIn(ts, t) <= RankIn(ts, u)
       PROVE  RankIn(new, t) <= RankIn(new, u)
  <2>1. PICK i \in 1..Len(r) : h[i] = RankIn(ts, t) /\ RankIn(new, t) = i + 1
    BY <1>7
  <2>2. PICK j \in 1..Len(r) : h[j] = RankIn(ts, u) /\ RankIn(new, u) = j + 1
    BY <1>7
  <2>3. h[i] <= h[j] /\ h[i] \in Nat /\ h[j] \in Nat
    <3>1. h[i] \in 1..Len(ts) /\ h[j] \in 1..Len(ts)
      BY <1>6, <2>1, <2>2
    <3>2. h[i] <= h[j]
      BY <1>11, <2>1, <2>2
    <3>. QED
      BY <1>4, <3>1, <3>2
  <2>4. ~(j < i)
    <3>1. j < i => h[j] < h[i]
      BY <1>6, <2>1, <2>2
    <3>. QED
      BY <2>3, <3>1
  <2>. QED
    BY <2>1, <2>2, <2>4
<1>12. \A t \in TypeIndex : RankIn(new, t) >= 1
  <2> TAKE t \in TypeIndex
  <2>1. \E i \in 1..Len(new) : new[i] = t
    BY <1>10 DEF Full
  <2>2. RankIn(new, t) \in 1..Len(new)
    BY <1>4, <2>1, RankFacts
  <2>. QED
    BY <1>4, <2>2
<1>13. new # <<>>
  BY <1>4
<1>. QED
  BY <1>1, <1>4, <1>9, <1>10, <1>11, <1>12, <1>13

-----------------------------------------------------------------------------
\* r is ps with p put in at place i.
Inserted(ps, i, p, r) ==
  /\ r \in Seq(Port) /\ Len(r) = Len(ps) + 1 /\ i \in 1..Len(r)
  /\ r[i] = p
  /\ \A k \in 1..Len(ps) : k < i => r[k] = ps[k]
  /\ \A k \in 1..Len(ps) : k >= i => r[k + 1] = ps[k]
  /\ \A k \in 1..Len(r) : \/ k < i /\ k \in 1..Len(ps) /\ r[k] = ps[k]
                          \/ k = i
                          \/ k > i /\ k - 1 \in 1..Len(ps) /\ r[k] = ps[k - 1]

LEMMA InsertAtFacts ==
  ASSUME NEW ps \in Seq(Port), NEW p \in Port, NEW i \in 1..(Len(ps) + 1)
  PROVE  Inserted(ps, i, p, InsertAt(ps, i, p))
<1> DEFINE xs == SubSeq(ps, 1, i - 1)
           y == SubSeq(ps, i, Len(ps))
           r == (xs \o <<p>>) \o y
<1>1. Len(ps) \in Nat /\ InsertAt(ps, i, p) = r
  BY DEF InsertAt
<1>2. xs \in Seq(Port) /\ Len(xs) = i - 1 /\ \A k \in 1..(i - 1) : xs[k] = ps[k]
  BY <1>1
<1>3. /\ y \in Seq(Port) /\ Len(y) = Len(ps) - i + 1
      /\ \A k \in 1..(Len(ps) - i + 1) : y[k] = ps[i + k - 1]
  BY <1>1
<1> HIDE DEF xs, y
<1>4. /\ xs \o <<p>> \in Seq(Port) /\ Len(xs \o <<p>>) = i /\ (xs \o <<p>>)[i] = p
      /\ \A k \in 1..(i - 1) : (xs \o <<p>>)[k] = ps[k]
  BY <1>2
<1> DEFINE z == xs \o <<p>>
<1> HIDE DEF z
<1>5. /\ z \in Seq(Port) /\ Len(z) = i /\ z[i] = p
      /\ \A k \in 1..(i - 1) : z[k] = ps[k]
  BY <1>4 DEF z
<1>6. /\ z \o y \in Seq(Port) /\ Len(z \o y) = Len(ps) + 1
      /\ \A k \in 1..i : (z \o y)[k] = z[k]
      /\ \A k \in 1..(Len(ps) - i + 1) : (z \o y)[i + k] = y[k]
  <2> DEFINE l == Len(ps) - i + 1
  <2>1. l \in Nat /\ i + l = Len(ps) + 1 /\ Len(y) = l /\ i \in Nat
    BY <1>1, <1>3
  <2> HIDE DEF l
  <2>2. z \o y \in Seq(Port) /\ Len(z \o y) = i + l
    <3>1. z \in Seq(Port) /\ y \in Seq(Port) /\ Len(z) = i /\ Len(y) = l
      BY <1>3, <1>5, <2>1
    <3>. QED
      BY <3>1
  <2>3. \A k \in 1..i : (z \o y)[k] = z[k]
    BY <1>3, <1>5, <2>1
  <2>4. \A k \in 1..l : (z \o y)[i + k] = y[k]
    BY <1>3, <1>5, <2>1
  <2>. QED
    BY <2>1, <2>2, <2>3, <2>4 DEF l
<1> DEFINE w == z \o y
<1>7. r = w
  BY DEF z
<1> HIDE DEF w, r
<1>8. /\ w \in Seq(Port) /\ Len(w) = Len(ps) + 1 /\ w[i] = p
      /\ \A k \in 1..(i - 1) : w[k] = ps[k]
      /\ i \in 1..Len(w)
  BY <1>1, <1>5, <1>6 DEF w
<1>9. ASSUME NEW k \in 1..Len(ps), k >= i PROVE w[k + 1] = ps[k]
  <2> DEFINE m == k - i + 1
  <2>1. m \in 1..(Len(ps) - i + 1) /\ i + m = k + 1 /\ i + m - 1 = k
    BY <1>1, <1>9
  <2> HIDE DEF m
  <2>2. w[i + m] = y[m] /\ y[m] = ps[i + m - 1]
    BY <1>3, <1>6, <2>1 DEF w
  <2>. QED
    BY <2>1, <2>2
<1>10. ASSUME NEW k \in 1..Len(w)
       PROVE  \/ k < i /\ k \in 1..Len(ps) /\ w[k] = ps[k]
              \/ k = i
              \/ k > i /\ k - 1 \in 1..Len(ps) /\ w[k] = ps[k - 1]
  <2>1. CASE k < i
    BY <1>1, <1>8, <2>1
  <2>2. CASE k > i
    <3>1. k - 1 \in 1..Len(ps) /\ k - 1 >= i /\ (k - 1) + 1 = k
      BY <1>1, <1>8, <2>2
    <3>2. w[(k - 1) + 1] = ps[k - 1]
      BY <1>9, <3>1
    <3>. QED
      BY <2>2, <3>1, <3>2
  <2>. QED
    BY <1>1, <2>1, <2>2
<1>11. \A k \in 1..Len(ps) : k < i => w[k] = ps[k]
  BY <1>1, <1>8
<1>. QED
  BY <1>1, <1>7, <1>8, <1>9, <1>10, <1>11 DEF Inserted

LEMMA SeqBasics ==
  ASSUME NEW D, NEW s \in Seq(D)
  PROVE  /\ Len(s) \in Nat /\ DOMAIN s = 1..Len(s)
         /\ \A i \in 1..Len(s) : s[i] \in D
         /\ \A el : el \in ToSet(s) <=> \E i \in 1..Len(s) : s[i] = el
         /\ ToSet(s) \subseteq D
         /\ IsInjective(s) <=> \A i, j \in 1..Len(s) : s[i] = s[j] => i = j
<1>1. Len(s) \in Nat /\ DOMAIN s = 1..Len(s) /\ \A i \in 1..Len(s) : s[i] \in D
  OBVIOUS
<1>2. \A el : el \in ToSet(s) <=> \E i \in 1..Len(s) : s[i] = el
  BY <1>1 DEF ToSet
<1>3. ToSet(s) \subseteq D
  BY <1>1, <1>2
<1>4. IsInjective(s) <=> \A i, j \in 1..Len(s) : s[i] = s[j] => i = j
  BY <1>1 DEF IsInjective
<1>. QED
  BY <1>1, <1>2, <1>3, <1>4

LEMMA InsertedSet ==
  ASSUME NEW ps \in Seq(Port), NEW p \in Port, NEW i, NEW r, Inserted(ps, i, p, r)
  PROVE  /\ ToSet(r) = ToSet(ps) \cup {p}
         /\ IsInjective(ps) /\ p \notin ToSet(ps) => IsInjective(r)
<1>1. /\ r \in Seq(Port) /\ Len(r) = Len(ps) + 1 /\ i \in 1..Len(r) /\ r[i] = p
      /\ \A k \in 1..Len(ps) : k < i => r[k] = ps[k]
      /\ \A k \in 1..Len(ps) : k >= i => r[k + 1] = ps[k]
      /\ \A k \in 1..Len(r) : \/ k < i /\ k \in 1..Len(ps) /\ r[k] = ps[k]
                              \/ k = i
                              \/ k > i /\ k - 1 \in 1..Len(ps) /\ r[k] = ps[k - 1]
  BY DEF Inserted
<1>2. /\ Len(ps) \in Nat
      /\ \A el : el \in ToSet(ps) <=> \E k \in 1..Len(ps) : ps[k] = el
      /\ IsInjective(ps) <=> \A k, j \in 1..Len(ps) : ps[k] = ps[j] => k = j
  BY SeqBasics
<1>3. /\ \A el : el \in ToSet(r) <=> \E k \in 1..Len(r) : r[k] = el
      /\ IsInjective(r) <=> \A k, j \in 1..Len(r) : r[k] = r[j] => k = j
  BY <1>1, SeqBasics
<1>4. ASSUME NEW el \in ToSet(r) PROVE el \in ToSet(ps) \cup {p}
  <2>1. PICK k \in 1..Len(r) : r[k] = el
    BY <1>3
  <2>. QED
    BY <1>1, <1>2, <2>1
<1>5. ASSUME NEW el \in ToSet(ps) PROVE el \in ToSet(r)
  <2>1. PICK k \in 1..Len(ps) : ps[k] = el
    BY <1>2
  <2>2. CASE k < i
    <3>1. k \in 1..Len(r) /\ r[k] = el
      BY <1>1, <1>2, <2>1, <2>2
    <3>. QED
      BY <1>3, <3>1
  <2>3. CASE k >= i
    <3>1. k + 1 \in 1..Len(r) /\ r[k + 1] = el
      BY <1>1, <1>2, <2>1, <2>3
    <3>. QED
      BY <1>3, <3>1
  <2>. QED
    BY <1>1, <1>2, <2>2, <2>3
<1>6. p \in ToSet(r)
  BY <1>1, <1>3
<1>7. ASSUME IsInjective(ps), p \notin ToSet(ps), NEW k \in 1..Len(r), NEW j \in 1..Len(r), r[k] = r[j]
      PROVE  k = j
  <2>1. \A m \in 1..Len(ps) : ps[m] # p
    BY <1>2, <1>7
  <2>2. \A m, n \in 1..Len(ps) : ps[m] = ps[n] => m = n
    BY <1>2, <1>7
  <2>3. \/ k < i /\ k \in 1..Len(ps) /\ r[k] = ps[k]
        \/ k = i
        \/ k > i /\ k - 1 \in 1..Len(ps) /\ r[k] = ps[k - 1]
    BY <1>1
  <2>4. \/ j < i /\ j \in 1..Len(ps) /\ r[j] = ps[j]
        \/ j = i
        \/ j > i /\ j - 1 \in 1..Len(ps) /\ r[j] = ps[j - 1]
    BY <1>1
  <2>5. CASE k = i
    BY <1>1, <1>7, <2>1, <2>4, <2>5
  <2>6. CASE j = i
    BY <1>1, <1>7, <2>1, <2>3, <2>6
  <2>7. CASE k < i /\ k \in 1..Len(ps) /\ r[k] = ps[k]
    <3>1. j < i => k = j
      BY <1>1, <1>2, <1>7, <2>2, <2>4, <2>7
    <3>2. ~(j > i)
      <4> SUFFICES ASSUME j > i PROVE FALSE
        OBVIOUS
      <4>1. j - 1 \in 1..Len(ps) /\ ps[j - 1] = ps[k]
        BY <1>1, <1>7, <2>4, <2>7
      <4>2. j - 1 = k
        BY <2>2, <2>7, <4>1
      <4>. QED
        BY <1>1, <1>2, <2>7, <4>2
    <3>. QED
      BY <1>1, <1>2, <2>4, <2>6, <3>1, <3>2
  <2>8. CASE k > i /\ k - 1 \in 1..Len(ps) /\ r[k] = ps[k - 1]
    <3>1. ~(j < i)
      <4> SUFFICES ASSUME j < i PROVE FALSE
        OBVIOUS
      <4>1. j \in 1..Len(ps) /\ ps[j] = ps[k - 1]
        BY <1>1, <1>7, <2>4, <2>8
      <4>2. j = k - 1
        BY <2>2, <2>8, <4>1
      <4>. QED
        BY <1>1, <1>2, <2>8, <4>2
    <3>2. j > i => k = j
      <4> SUFFICES ASSUME j > i PROVE k = j
        OBVIOUS
      <4>1. j - 1 \in 1..Len(ps) /\ ps[j - 1] = ps[k - 1]
        BY <1>1, <1>7, <2>4, <2>8
      <4>2. j - 1 = k - 1
        BY <2>2, <2>8, <4>1
      <4>. QED
        BY <1>1, <1>2, <4>2
    <3>. QED
      BY <1>1, <1>2, <2>4, <2>6, <3>1, <3>2
  <2>. QED
    BY <2>3, <2>5, <2>7, <2>8
<1>. QED
  BY <1>3, <1>4, <1>5, <1>6, <1>7

LEMMA InsertedSorted ==
  ASSUME NEW ts \in Seq(TypeIndex), NEW ps \in Seq(Port), NEW p \in Port, NEW i, NEW r,
         Inserted(ps, i, p, r), SortedBy(ts, ps),
         \A k \in 1..Len(ps) : k < i => RankIn(ts, PortType[ps[k]]) <= RankIn(ts, PortType[p]),
         i <= Len(ps) => RankIn(ts, PortType[p]) <= RankIn(ts, PortType[ps[i]])
  PROVE  SortedBy(ts, r)
<1> DEFINE w(q) == RankIn(ts, PortType[q])
<1>1. /\ Len(r) = Len(ps) + 1 /\ i \in 1..Len(r) /\ r[i] = p /\ Len(ps) \in Nat
      /\ \A k \in 1..Len(r) : \/ k < i /\ k \in 1..Len(ps) /\ r[k] = ps[k]
                              \/ k = i
                              \/ k > i /\ k - 1 \in 1..Len(ps) /\ r[k] = ps[k - 1]
  BY DEF Inserted
<1>2. /\ \A k, j \in 1..Len(ps) : k < j => w(ps[k]) <= w(ps[j])
      /\ \A k \in 1..Len(ps) : k < i => w(ps[k]) <= w(p)
      /\ i <= Len(ps) => w(p) <= w(ps[i])
  BY DEF SortedBy
<1>3. \A q : w(q) \in Nat
  BY RankFacts
<1> HIDE DEF w
<1>4. \A k \in 1..Len(ps) : k >= i => w(p) <= w(ps[k])
  <2> SUFFICES ASSUME NEW k \in 1..Len(ps), k >= i PROVE w(p) <= w(ps[k])
    OBVIOUS
  <2>1. i \in 1..Len(ps) /\ w(p) <= w(ps[i])
    BY <1>1, <1>2
  <2>2. k = i \/ w(ps[i]) <= w(ps[k])
    BY <1>2, <2>1
  <2>3. w(p) \in Nat /\ w(ps[i]) \in Nat /\ w(ps[k]) \in Nat
    BY <1>3
  <2>. QED
    BY <2>1, <2>2, <2>3
<1>5. ASSUME NEW k \in 1..Len(r), NEW j \in 1..Len(r), k < j PROVE w(r[k]) <= w(r[j])
  <2>1. \/ k < i /\ k \in 1..Len(ps) /\ r[k] = ps[k]
        \/ k = i
        \/ k > i /\ k - 1 \in 1..Len(ps) /\ r[k] = ps[k - 1]
    BY <1>1
  <2>2. \/ j < i /\ j \in 1..Len(ps) /\ r[j] = ps[j]
        \/ j = i
        \/ j > i /\ j - 1 \in 1..Len(ps) /\ r[j] = ps[j - 1]
    BY <1>1
  <2>3. CASE j < i
    BY <1>1, <1>2, <1>5, <2>1, <2>2, <2>3
  <2>4. CASE j = i
    BY <1>1, <1>2, <1>5, <2>1, <2>4
  <2>5. CASE j > i /\ j - 1 \in 1..Len(ps) /\ r[j] = ps[j - 1]
    <3> DEFINE m == j - 1
    <3>1. m \in 1..Len(ps) /\ m >= i /\ r[j] = ps[m] /\ m = j - 1
      BY <1>1, <2>5
    <3> HIDE DEF m
    <3>2. CASE k < i
      BY <1>1, <1>2, <2>1, <3>1, <3>2
    <3>3. CASE k = i
      BY <1>1, <1>4, <3>1, <3>3
    <3>4. CASE k > i /\ k - 1 \in 1..Len(ps) /\ r[k] = ps[k - 1]
      <4>1. k - 1 < m
        BY <1>1, <1>5, <3>1
      <4>. QED
        BY <1>2, <3>1, <3>4, <4>1
    <3>. QED
      BY <2>1, <3>2, <3>3, <3>4
  <2>. QED
    BY <2>2, <2>3, <2>4, <2>5
<1>. QED
  BY <1>5 DEF SortedBy, w

\* AddPort puts p in before the first port whose type is not preferred to its own.
LEMMA AddPortPlace ==
  ASSUME NEW ts \in Seq(TypeIndex), NEW ps \in Seq(Port), NEW p \in Port
  PROVE  \E i \in 1..(Len(ps) + 1) :
           /\ Inserted(ps, i, p, AddPort(ts, ps, p))
           /\ \A k \in 1..Len(ps) : k < i => ~Prefers(ts, PortType[p], PortType[ps[k]])
           /\ i <= Len(ps) => Prefers(ts, PortType[p], PortType[ps[i]])
<1> DEFINE I == {k \in 1..Len(ps) : Prefers(ts, PortType[p], PortType[ps[k]])}
<1>1. AddPort(ts, ps, p) =
        IF (IF I # {} THEN Min(I) ELSE 0) = 0 THEN Append(ps, p)
        ELSE InsertAt(ps, IF I # {} THEN Min(I) ELSE 0, p)
  BY DEF AddPort, SelectInSeq, Prefers
<1>2. Len(ps) \in Nat
  OBVIOUS
<1>3. CASE I # {}
  <2>1. I \subseteq Nat
    BY <1>2
  <2> DEFINE i == Min(I)
  <2>2. i \in I /\ \A y \in I : i <= y
    <3> HIDE DEF I
    <3>. QED
      BY <1>3, <2>1, MinLeast
  <2> HIDE DEF i
  <2>3. i \in 1..Len(ps) /\ Prefers(ts, PortType[p], PortType[ps[i]])
    BY <2>2
  <2>4. \A k \in 1..Len(ps) : k < i => ~Prefers(ts, PortType[p], PortType[ps[k]])
    BY <1>2, <2>2, <2>3
  <2>5. i \in 1..(Len(ps) + 1) /\ i # 0
    BY <1>2, <2>3
  <2>6. AddPort(ts, ps, p) = InsertAt(ps, i, p)
    <3> HIDE DEF I
    <3>. QED
      BY <1>1, <1>3, <2>5 DEF i
  <2>7. Inserted(ps, i, p, InsertAt(ps, i, p))
    BY <2>5, InsertAtFacts
  <2>. QED
    BY <2>3, <2>4, <2>5, <2>6, <2>7
<1>4. CASE I = {}
  <2> DEFINE i == Len(ps) + 1
             r == Append(ps, p)
  <2>1. AddPort(ts, ps, p) = r
    <3> HIDE DEF I
    <3>. QED
      BY <1>1, <1>4
  <2>2. \A k \in 1..Len(ps) : ~Prefers(ts, PortType[p], PortType[ps[k]])
    BY <1>4
  <2>3. /\ r \in Seq(Port) /\ Len(r) = Len(ps) + 1 /\ r[Len(ps) + 1] = p
        /\ \A k \in 1..Len(ps) : r[k] = ps[k]
    OBVIOUS
  <2> HIDE DEF r
  <2>4. Inserted(ps, i, p, r)
    BY <1>2, <2>3 DEF Inserted
  <2>5. i \in 1..(Len(ps) + 1) /\ ~(i <= Len(ps))
    BY <1>2
  <2> HIDE DEF i
  <2>. QED
    BY <2>1, <2>2, <2>4, <2>5
<1>. QED
  BY <1>3, <1>4

LEMMA AddPortFacts ==
  ASSUME NEW ts \in Seq(TypeIndex), NEW ps \in Seq(Port), NEW p \in Port
  PROVE  /\ AddPort(ts, ps, p) \in Seq(Port)
         /\ ToSet(AddPort(ts, ps, p)) = ToSet(ps) \cup {p}
         /\ IsInjective(ps) /\ p \notin ToSet(ps) => IsInjective(AddPort(ts, ps, p))
         /\ SortedBy(ts, ps) => SortedBy(ts, AddPort(ts, ps, p))
<1> DEFINE r == AddPort(ts, ps, p)
<1>1. PICK i \in 1..(Len(ps) + 1) :
           /\ Inserted(ps, i, p, r)
           /\ \A k \in 1..Len(ps) : k < i => ~Prefers(ts, PortType[p], PortType[ps[k]])
           /\ i <= Len(ps) => Prefers(ts, PortType[p], PortType[ps[i]])
  BY AddPortPlace
<1> HIDE DEF r
<1>2. r \in Seq(Port)
  BY <1>1 DEF Inserted
<1>3. /\ ToSet(r) = ToSet(ps) \cup {p}
      /\ IsInjective(ps) /\ p \notin ToSet(ps) => IsInjective(r)
  BY <1>1, InsertedSet
<1>4. ASSUME SortedBy(ts, ps) PROVE SortedBy(ts, r)
  <2>1. \A q \in Port : PortType[q] \in TypeIndex
    BY AudioAssumption
  <2>2. \A k \in 1..Len(ps) : k < i => RankIn(ts, PortType[ps[k]]) <= RankIn(ts, PortType[p])
    <3> SUFFICES ASSUME NEW k \in 1..Len(ps), k < i
                 PROVE  RankIn(ts, PortType[ps[k]]) <= RankIn(ts, PortType[p])
      OBVIOUS
    <3>1. ~Prefers(ts, PortType[p], PortType[ps[k]])
      BY <1>1
    <3>2. PortType[p] \in TypeIndex /\ PortType[ps[k]] \in TypeIndex
      BY <2>1
    <3>. QED
      BY <3>1, <3>2, PreferByRank
  <2>3. ASSUME i <= Len(ps) PROVE RankIn(ts, PortType[p]) <= RankIn(ts, PortType[ps[i]])
    <3>1. Prefers(ts, PortType[p], PortType[ps[i]]) /\ i \in 1..Len(ps)
      BY <1>1, <2>3
    <3>2. PortType[p] \in TypeIndex /\ PortType[ps[i]] \in TypeIndex
      BY <2>1, <3>1
    <3>. QED
      BY <3>1, <3>2, PreferByRank
  <2>. QED
    BY <1>1, <1>4, <2>2, <2>3, InsertedSorted
<1>. QED
  BY <1>2, <1>3, <1>4 DEF r

\* AddPorts is the run of its loop.
LEMMA AddPortsRuns ==
  ASSUME NEW ts \in Seq(TypeIndex), NEW ps \in Seq(Port), NEW new \in Seq(Port)
  PROVE  \E c :
           /\ c[0] = ps
           /\ \A k \in 1..Len(new) : c[k] = AddPort(ts, c[k - 1], new[k])
           /\ AddPorts(ts, ps, new) = c[Len(new)]
<1> DEFINE n == Len(new)
           c == CHOOSE f : f = [k \in 0..n |-> IF k = 0 THEN ps ELSE AddPort(ts, f[k - 1], new[k])]
<1>1. n \in Nat /\ \A k \in 1..n : new[k] \in Port
  OBVIOUS
<1>2. \A r \in Seq(Port), k \in 1..n : AddPort(ts, r, new[k]) \in Seq(Port)
  <2> TAKE r \in Seq(Port), k \in 1..n
  <2>1. new[k] \in Port
    BY <1>1
  <2>. QED
    BY <2>1, AddPortFacts
<1>3. PICK g \in [0..n -> Seq(Port)] : g[0] = ps /\ \A k \in 1..n : g[k] = AddPort(ts, g[k - 1], new[k])
  <2> DEFINE F == [k \in 1..n |-> [r \in Seq(Port) |-> AddPort(ts, r, new[k])]]
  <2> HIDE DEF n
  <2>1. F \in Rounds(n, Seq(Port)) /\ \A k \in 1..n, r \in Seq(Port) : F[k][r] = AddPort(ts, r, new[k])
    BY <1>2 DEF Rounds
  <2> HIDE DEF F
  <2>2. PICK g \in [0..n -> Seq(Port)] : IsRun(g, n, ps, F)
    BY <1>1, <2>1, LoopRuns
  <2>3. \A k \in 1..n : g[k - 1] \in Seq(Port)
    BY <1>1
  <2>4. g[0] = ps /\ \A k \in 1..n : g[k] = AddPort(ts, g[k - 1], new[k])
    BY <2>1, <2>2, <2>3 DEF IsRun
  <2>. QED
    BY <2>4
<1>4. g = [k \in 0..n |-> IF k = 0 THEN ps ELSE AddPort(ts, g[k - 1], new[k])]
  <2>1. \A k \in 0..n : k = 0 \/ k \in 1..n
    BY <1>1
  <2> HIDE DEF n
  <2>. QED
    BY <1>3, <2>1
<1>5. c = [k \in 0..n |-> IF k = 0 THEN ps ELSE AddPort(ts, c[k - 1], new[k])]
  BY <1>4, Zenon
<1>6. AddPorts(ts, ps, new) = c[n]
  BY Zenon DEF AddPorts
<1> HIDE DEF c
<1>7. c[0] = ps /\ \A k \in 1..n : c[k] = AddPort(ts, c[k - 1], new[k])
  <2>1. 0 \in 0..n /\ \A k \in 1..n : k \in 0..n /\ k # 0
    BY <1>1
  <2> HIDE DEF n
  <2>. QED
    BY <1>5, <2>1
<1>. QED
  BY <1>6, <1>7

\* What r keeps of the list ps, to which the ports of N were added
Added(ts, ps, N, r) ==
  /\ r \in Seq(Port)
  /\ ToSet(r) = ToSet(ps) \cup N
  /\ SortedBy(ts, ps) => SortedBy(ts, r)
  /\ IsInjective(ps) /\ ToSet(ps) \cap N = {} => IsInjective(r)

LEMMA AddPortsFacts ==
  ASSUME NEW ts \in Seq(TypeIndex), NEW ps \in Seq(Port), NEW new \in Seq(Port), IsInjective(new)
  PROVE  Added(ts, ps, ToSet(new), AddPorts(ts, ps, new))
<1>1. PICK c : /\ c[0] = ps
               /\ \A k \in 1..Len(new) : c[k] = AddPort(ts, c[k - 1], new[k])
               /\ AddPorts(ts, ps, new) = c[Len(new)]
  BY AddPortsRuns
<1> DEFINE N(k) == {new[j] : j \in 1..k}
           T == {k \in Nat : k <= Len(new) => Added(ts, ps, N(k), c[k])}
<1>2. /\ Len(new) \in Nat /\ \A j \in 1..Len(new) : new[j] \in Port
      /\ \A i, j \in 1..Len(new) : new[i] = new[j] => i = j
      /\ \A el : el \in ToSet(new) <=> \E i \in 1..Len(new) : new[i] = el
  BY SeqBasics
<1>3. 0 \in T
  <2>1. N(0) = {}
    OBVIOUS
  <2>. QED
    BY <1>1, <2>1 DEF Added
<1>4. ASSUME NEW k \in Nat, k \in T PROVE k + 1 \in T
  <2> SUFFICES ASSUME k + 1 <= Len(new) PROVE Added(ts, ps, N(k + 1), c[k + 1])
    OBVIOUS
  <2>1. Added(ts, ps, N(k), c[k])
    BY <1>2, <1>4
  <2>2. k + 1 \in 1..Len(new) /\ (k + 1) - 1 = k /\ new[k + 1] \in Port
    BY <1>2
  <2> DEFINE p == new[k + 1]
             s == c[k]
             r == c[k + 1]
  <2>3. r = AddPort(ts, s, p)
    BY <1>1, <2>2
  <2>4. N(k + 1) = N(k) \cup {p} /\ p \notin N(k)
    <3>1. \A j \in 1..(k + 1) : j \in 1..k \/ j = k + 1
      OBVIOUS
    <3>2. \A j \in 1..k : j \in 1..(k + 1) /\ j \in 1..Len(new) /\ j # k + 1
      BY <1>2
    <3>3. k + 1 \in 1..(k + 1)
      OBVIOUS
    <3>4. p \notin N(k)
      BY <1>2, <2>2, <3>2
    <3>. QED
      BY <3>1, <3>2, <3>3, <3>4
  <2> HIDE DEF p, s, r, N
  <2>5. s \in Seq(Port) /\ p \in Port
    BY <2>1, <2>2 DEF s, p, Added
  <2>6. /\ r \in Seq(Port)
        /\ ToSet(r) = ToSet(s) \cup {p}
        /\ IsInjective(s) /\ p \notin ToSet(s) => IsInjective(r)
        /\ SortedBy(ts, s) => SortedBy(ts, r)
    BY <2>3, <2>5, AddPortFacts
  <2>7. /\ ToSet(s) = ToSet(ps) \cup N(k)
        /\ SortedBy(ts, ps) => SortedBy(ts, s)
        /\ IsInjective(ps) /\ ToSet(ps) \cap N(k) = {} => IsInjective(s)
    BY <2>1 DEF s, Added
  <2>8. Added(ts, ps, N(k + 1), r)
    BY <2>4, <2>6, <2>7 DEF Added
  <2>. QED
    BY <2>8 DEF r
<1>5. \A k \in Nat : k \in T
  <2>1. T \subseteq Nat
    OBVIOUS
  <2> HIDE DEF T
  <2>. QED
    BY <1>3, <1>4, <2>1, InductionOn
<1>6. Added(ts, ps, N(Len(new)), c[Len(new)])
  <2>1. Len(new) \in T
    BY <1>2, <1>5
  <2>. QED
    BY <1>2, <2>1
<1>7. N(Len(new)) = ToSet(new)
  BY <1>2
<1>. QED
  BY <1>1, <1>6, <1>7

\* Taking elements out keeps the order of the others.
LEMMA KeepPorts ==
  ASSUME NEW ts \in Seq(TypeIndex), NEW ps \in Seq(Port), NEW S
  PROVE  /\ KeepIn(ps, S) \in Seq(Port)
         /\ ToSet(KeepIn(ps, S)) = ToSet(ps) \cap S
         /\ IsInjective(ps) => IsInjective(KeepIn(ps, S))
         /\ SortedBy(ts, ps) => SortedBy(ts, KeepIn(ps, S))
<1> DEFINE r == KeepIn(ps, S)
<1>1. r \in Seq(Port) /\ \E h : Chosen(ps, S, r, h, Len(ps))
  BY KeepInFacts
<1>2. PICK h : Chosen(ps, S, r, h, Len(ps))
  BY <1>1
<1> HIDE DEF r
<1>3. /\ \A i \in 1..Len(r) : h[i] \in 1..Len(ps)
      /\ \A i, j \in 1..Len(r) : i < j => h[i] < h[j]
      /\ \A i \in 1..Len(r) : r[i] = ps[h[i]] /\ r[i] \in S
      /\ \A k \in 1..Len(ps) : ps[k] \in S => \E i \in 1..Len(r) : h[i] = k
  BY <1>2 DEF Chosen
<1>4. /\ Len(ps) \in Nat
      /\ \A el : el \in ToSet(ps) <=> \E k \in 1..Len(ps) : ps[k] = el
      /\ IsInjective(ps) <=> \A k, j \in 1..Len(ps) : ps[k] = ps[j] => k = j
  BY SeqBasics
<1>5. /\ Len(r) \in Nat
      /\ \A el : el \in ToSet(r) <=> \E k \in 1..Len(r) : r[k] = el
      /\ IsInjective(r) <=> \A k, j \in 1..Len(r) : r[k] = r[j] => k = j
  BY <1>1, SeqBasics
<1>6. ToSet(r) = ToSet(ps) \cap S
  <2>1. ASSUME NEW el \in ToSet(r) PROVE el \in ToSet(ps) \cap S
    <3>1. PICK k \in 1..Len(r) : r[k] = el
      BY <1>5
    <3>2. h[k] \in 1..Len(ps) /\ ps[h[k]] = el /\ el \in S
      BY <1>3, <3>1
    <3>. QED
      BY <1>4, <3>2
  <2>2. ASSUME NEW el \in ToSet(ps) \cap S PROVE el \in ToSet(r)
    <3>1. PICK k \in 1..Len(ps) : ps[k] = el
      BY <1>4
    <3>2. PICK i \in 1..Len(r) : h[i] = k
      BY <1>3, <3>1
    <3>3. r[i] = el
      BY <1>3, <3>1, <3>2
    <3>. QED
      BY <1>5, <3>3
  <2>. QED
    BY <2>1, <2>2
<1>7. ASSUME IsInjective(ps) PROVE IsInjective(r)
  <2> SUFFICES ASSUME NEW k \in 1..Len(r), NEW j \in 1..Len(r), r[k] = r[j] PROVE k = j
    BY <1>5
  <2>1. h[k] \in 1..Len(ps) /\ h[j] \in 1..Len(ps) /\ ps[h[k]] = ps[h[j]]
    BY <1>3
  <2>2. h[k] = h[j] /\ h[k] \in Nat
    BY <1>4, <1>7, <2>1
  <2>3. ~(k < j) /\ ~(j < k)
    <3>1. k < j => h[k] < h[j]
      BY <1>3
    <3>2. j < k => h[j] < h[k]
      BY <1>3
    <3>. QED
      BY <2>2, <3>1, <3>2
  <2>. QED
    BY <1>5, <2>3
<1>8. ASSUME SortedBy(ts, ps) PROVE SortedBy(ts, r)
  <2> SUFFICES ASSUME NEW k \in 1..Len(r), NEW j \in 1..Len(r), k < j
               PROVE  RankIn(ts, PortType[r[k]]) <= RankIn(ts, PortType[r[j]])
    BY DEF SortedBy
  <2>1. h[k] \in 1..Len(ps) /\ h[j] \in 1..Len(ps) /\ h[k] < h[j] /\ r[k] = ps[h[k]] /\ r[j] = ps[h[j]]
    BY <1>3
  <2>2. RankIn(ts, PortType[ps[h[k]]]) <= RankIn(ts, PortType[ps[h[j]]])
    BY <1>8, <2>1 DEF SortedBy
  <2>. QED
    BY <2>1, <2>2
<1>. QED
  BY <1>1, <1>6, <1>7, <1>8 DEF r

\* What each round of a loop keeps holds at its end.
LEMMA LoopKeeps ==
  ASSUME NEW n \in Nat, NEW I, NEW c, c[0] \in I, \A k \in 1..n : c[k - 1] \in I => c[k] \in I
  PROVE  c[n] \in I
<1> DEFINE T == {k \in Nat : k <= n => c[k] \in I}
<1>1. 0 \in T
  OBVIOUS
<1>2. ASSUME NEW k \in Nat, k \in T PROVE k + 1 \in T
  <2> SUFFICES ASSUME k + 1 <= n PROVE c[k + 1] \in I
    OBVIOUS
  <2>1. k + 1 \in 1..n /\ (k + 1) - 1 = k /\ c[k] \in I
    BY <1>2
  <2>. QED
    BY <2>1
<1>3. T \subseteq Nat
  OBVIOUS
<1>4. \A k \in Nat : k \in T
  <2> HIDE DEF T
  <2>. QED
    BY <1>1, <1>2, <1>3, InductionOn
<1>. QED
  BY <1>4

-----------------------------------------------------------------------------
\* An order of the ports of S has each once.
LEMMA OrderOfPorts ==
  ASSUME NEW S \in SUBSET Port, NEW new \in SetToSeqs(S)
  PROVE  new \in Seq(Port) /\ IsInjective(new) /\ ToSet(new) = S
<1> DEFINE n == Cardinality(S)
<1>1. IsFiniteSet(S) /\ n \in Nat
  BY AudioAssumption, FS_Subset, FS_CardinalityType
<1>2. new \in [1..n -> S] /\ \A i, j \in 1..n : i # j => new[i] # new[j]
  BY DEF SetToSeqs
<1>3. IsFiniteSet(1..n) /\ Cardinality(1..n) = n
  BY <1>1, FS_Interval
<1> HIDE DEF n
<1>4. new \in Injection(1..n, S)
  BY <1>2 DEF Injection, IsInjective
<1>5. Cardinality(1..n) = Cardinality(S)
  BY <1>3 DEF n
<1>6. new \in Surjection(1..n, S)
  BY <1>1, <1>4, <1>5, FS_Injection
<1>7. \A t \in S : \E i \in 1..n : new[i] = t
  BY <1>6 DEF Surjection
<1>8. new \in Seq(Port) /\ Len(new) = n
  BY <1>1, <1>2
<1>9. /\ \A el : el \in ToSet(new) <=> \E i \in 1..n : new[i] = el
      /\ IsInjective(new) <=> \A i, j \in 1..n : new[i] = new[j] => i = j
  BY <1>8, SeqBasics
<1>10. ToSet(new) = S
  <2>1. \A i \in 1..n : new[i] \in S
    BY <1>2
  <2>2. \A el : el \in ToSet(new) <=> el \in S
    BY <1>7, <1>9, <2>1
  <2>. QED
    BY <2>2
<1>. QED
  BY <1>2, <1>8, <1>9, <1>10

\* SetPorts lists each usable port once, and keeps the order.
LEMMA SetPortsFacts ==
  ASSUME NEW ts \in Seq(TypeIndex), NEW ps \in Seq(Port),
         NEW U \in SUBSET Port, NEW new \in CardOrders(U, ps)
  PROVE  /\ SetPorts(ts, ps, U, new) \in Seq(Port)
         /\ ToSet(SetPorts(ts, ps, U, new)) = U
         /\ IsInjective(ps) => IsInjective(SetPorts(ts, ps, U, new))
         /\ SortedBy(ts, ps) => SortedBy(ts, SetPorts(ts, ps, U, new))
<1> DEFINE kept == KeepIn(ps, U)
           r == AddPorts(ts, kept, new)
           N == U \ ToSet(ps)
<1>1. SetPorts(ts, ps, U, new) = r
  BY DEF SetPorts
<1>2. new \in Seq(Port) /\ IsInjective(new) /\ ToSet(new) = N
  <2>1. N \in SUBSET Port /\ new \in SetToSeqs(N)
    BY DEF CardOrders
  <2> HIDE DEF N
  <2>. QED
    BY <2>1, OrderOfPorts
<1>3. /\ kept \in Seq(Port) /\ ToSet(kept) = ToSet(ps) \cap U
      /\ IsInjective(ps) => IsInjective(kept)
      /\ SortedBy(ts, ps) => SortedBy(ts, kept)
  BY KeepPorts
<1> HIDE DEF kept
<1>4. Added(ts, kept, ToSet(new), r)
  BY <1>2, <1>3, AddPortsFacts
<1> HIDE DEF r
<1>5. ToSet(kept) \cup ToSet(new) = U /\ ToSet(kept) \cap ToSet(new) = {}
  BY <1>2, <1>3
<1>. QED
  BY <1>1, <1>3, <1>4, <1>5 DEF Added

\* r has the ports of ps, in an order that a list in order keeps.
Rearranged(ts, ps, r) ==
  /\ r \in Seq(Port) /\ Len(r) = Len(ps)
  /\ ToSet(r) = ToSet(ps)
  /\ IsInjective(ps) => IsInjective(r)
  /\ SortedBy(ts, ps) => r = ps

LEMMA RearrangedTwice ==
  ASSUME NEW ts, NEW ps, NEW r, NEW s, Rearranged(ts, ps, r), Rearranged(ts, r, s)
  PROVE  Rearranged(ts, ps, s)
<1>1. SortedBy(ts, ps) => r = ps /\ SortedBy(ts, r)
  BY DEF Rearranged
<1>. QED
  BY <1>1 DEF Rearranged

LEMMA SwapRearranges ==
  ASSUME NEW ts \in Seq(TypeIndex), Full(ts), NEW ps \in Seq(Port), NEW j \in 1..(Len(ps) - 1)
  PROVE  Rearranged(ts, ps, CompareAndSwap(ts, ps, j))
<1> DEFINE t1 == PortType[ps[j]]
           t2 == PortType[ps[j + 1]]
           r == [ps EXCEPT ![j] = ps[j + 1], ![j + 1] = ps[j]]
<1>1. /\ Len(ps) \in Nat /\ j \in 1..Len(ps) /\ j + 1 \in 1..Len(ps) /\ j # j + 1 /\ j < j + 1
      /\ DOMAIN ps = 1..Len(ps)
      /\ \A i \in 1..Len(ps) : ps[i] \in Port
      /\ \A el : el \in ToSet(ps) <=> \E k \in 1..Len(ps) : ps[k] = el
      /\ IsInjective(ps) <=> \A k, i \in 1..Len(ps) : ps[k] = ps[i] => k = i
  BY SeqBasics
<1>2. CASE t1 # t2 /\ GetPreferType(ts, t1, t2) = t2
  <2>1. CompareAndSwap(ts, ps, j) = r
    BY <1>2 DEF CompareAndSwap
  <2>2. /\ r \in Seq(Port) /\ Len(r) = Len(ps)
        /\ r[j] = ps[j + 1] /\ r[j + 1] = ps[j]
        /\ \A k \in 1..Len(ps) : k # j /\ k # j + 1 => r[k] = ps[k]
    BY <1>1
  <2> HIDE DEF r
  <2>3. /\ \A el : el \in ToSet(r) <=> \E k \in 1..Len(ps) : r[k] = el
        /\ IsInjective(r) <=> \A k, i \in 1..Len(ps) : r[k] = r[i] => k = i
    BY <2>2, SeqBasics
  <2>4. ToSet(r) = ToSet(ps)
    <3>1. ASSUME NEW el \in ToSet(r) PROVE el \in ToSet(ps)
      BY <1>1, <2>2, <2>3
    <3>2. ASSUME NEW el \in ToSet(ps) PROVE el \in ToSet(r)
      BY <1>1, <2>2, <2>3
    <3>. QED
      BY <3>1, <3>2
  <2>5. ASSUME IsInjective(ps) PROVE IsInjective(r)
    BY <1>1, <2>2, <2>3, <2>5
  <2>6. ~SortedBy(ts, ps)
    <3> SUFFICES ASSUME SortedBy(ts, ps) PROVE FALSE
      OBVIOUS
    <3>1. t1 \in TypeIndex /\ t2 \in TypeIndex
      BY <1>1, AudioAssumption
    <3>2. RankIn(ts, t1) <= RankIn(ts, t2)
      BY <1>1 DEF SortedBy
    <3>3. \E i \in 1..Len(ts) : ts[i] = t1
      BY <3>1 DEF Full
    <3>4. Prefers(ts, t1, t2)
      BY <3>1, <3>2, <3>3, PreferByRank
    <3>. QED
      BY <1>2, <3>4 DEF Prefers
  <2>. QED
    BY <2>1, <2>2, <2>4, <2>5, <2>6 DEF Rearranged
<1>3. CASE ~(t1 # t2 /\ GetPreferType(ts, t1, t2) = t2)
  <2>1. CompareAndSwap(ts, ps, j) = ps
    BY <1>3 DEF CompareAndSwap
  <2>. QED
    BY <2>1 DEF Rearranged
<1>. QED
  BY <1>2, <1>3

\* A pass of sortPorts is the run of its loop.
LEMMA SortPassRuns ==
  ASSUME NEW ts \in Seq(TypeIndex), Full(ts), NEW ps \in Seq(Port), NEW i \in 1..Len(ps)
  PROVE  \E c :
           /\ c[0] = ps
           /\ \A k \in 1..(Len(ps) - i) : c[k] = CompareAndSwap(ts, c[k - 1], i + k - 1)
           /\ SortPass(ts, ps, i) = c[Len(ps) - i]
<1> DEFINE n == Len(ps) - i
           S == {r \in Seq(Port) : Len(r) = Len(ps)}
           c == CHOOSE f : f = [k \in 0..n |-> IF k = 0 THEN ps ELSE CompareAndSwap(ts, f[k - 1], i + k - 1)]
<1>1. n \in Nat /\ ps \in S /\ \A k \in 1..n : i + k - 1 \in 1..(Len(ps) - 1)
  OBVIOUS
<1>2. \A r \in S, k \in 1..n : CompareAndSwap(ts, r, i + k - 1) \in S
  <2> TAKE r \in S, k \in 1..n
  <2>1. r \in Seq(Port) /\ i + k - 1 \in 1..(Len(r) - 1)
    BY <1>1
  <2>2. Rearranged(ts, r, CompareAndSwap(ts, r, i + k - 1))
    BY <2>1, SwapRearranges
  <2>. QED
    BY <2>2 DEF Rearranged
<1>3. PICK g \in [0..n -> S] :
         g[0] = ps /\ \A k \in 1..n : g[k] = CompareAndSwap(ts, g[k - 1], i + k - 1)
  <2> DEFINE F == [k \in 1..n |-> [r \in S |-> CompareAndSwap(ts, r, i + k - 1)]]
  <2> HIDE DEF n, S
  <2>1. F \in Rounds(n, S) /\ \A k \in 1..n, r \in S : F[k][r] = CompareAndSwap(ts, r, i + k - 1)
    BY <1>2 DEF Rounds
  <2> HIDE DEF F
  <2>2. PICK g \in [0..n -> S] : IsRun(g, n, ps, F)
    BY <1>1, <2>1, LoopRuns
  <2>3. \A k \in 1..n : g[k - 1] \in S
    BY <1>1
  <2>4. g[0] = ps /\ \A k \in 1..n : g[k] = CompareAndSwap(ts, g[k - 1], i + k - 1)
    BY <2>1, <2>2, <2>3 DEF IsRun
  <2>. QED
    BY <2>4
<1>4. g = [k \in 0..n |-> IF k = 0 THEN ps ELSE CompareAndSwap(ts, g[k - 1], i + k - 1)]
  <2>1. \A k \in 0..n : k = 0 \/ k \in 1..n
    BY <1>1
  <2> HIDE DEF n, S
  <2>. QED
    BY <1>3, <2>1
<1>5. c = [k \in 0..n |-> IF k = 0 THEN ps ELSE CompareAndSwap(ts, c[k - 1], i + k - 1)]
  BY <1>4, Zenon
<1>6. SortPass(ts, ps, i) = c[n]
  BY Zenon DEF SortPass
<1> HIDE DEF c
<1>7. c[0] = ps /\ \A k \in 1..n : c[k] = CompareAndSwap(ts, c[k - 1], i + k - 1)
  <2>1. 0 \in 0..n /\ \A k \in 1..n : k \in 0..n /\ k # 0
    BY <1>1
  <2> HIDE DEF n
  <2>. QED
    BY <1>5, <2>1
<1>. QED
  BY <1>6, <1>7

LEMMA PassRearranges ==
  ASSUME NEW ts \in Seq(TypeIndex), Full(ts), NEW ps \in Seq(Port), NEW i \in 1..Len(ps)
  PROVE  Rearranged(ts, ps, SortPass(ts, ps, i))
<1> DEFINE n == Len(ps) - i
           I == {r \in Seq(Port) : Rearranged(ts, ps, r)}
<1>1. PICK c : /\ c[0] = ps
               /\ \A k \in 1..n : c[k] = CompareAndSwap(ts, c[k - 1], i + k - 1)
               /\ SortPass(ts, ps, i) = c[n]
  BY SortPassRuns
<1>2. n \in Nat /\ \A k \in 1..n : i + k - 1 \in 1..(Len(ps) - 1)
  OBVIOUS
<1> HIDE DEF n
<1>3. c[0] \in I
  BY <1>1 DEF Rearranged
<1>4. ASSUME NEW k \in 1..n, c[k - 1] \in I PROVE c[k] \in I
  <2> DEFINE r == c[k - 1]
             j == i + k - 1
  <2>1. r \in Seq(Port) /\ Rearranged(ts, ps, r) /\ Len(r) = Len(ps)
    BY <1>4 DEF Rearranged
  <2>2. j \in 1..(Len(r) - 1)
    BY <1>2, <2>1
  <2>3. c[k] = CompareAndSwap(ts, r, j)
    BY <1>1
  <2> HIDE DEF r, j
  <2>4. Rearranged(ts, r, c[k])
    BY <2>1, <2>2, <2>3, SwapRearranges
  <2>5. Rearranged(ts, ps, c[k])
    BY <2>1, <2>4, RearrangedTwice
  <2>. QED
    BY <2>5 DEF Rearranged
<1>5. c[n] \in I
  <2> HIDE DEF I
  <2>. QED
    BY <1>2, <1>3, <1>4, LoopKeeps
<1>. QED
  BY <1>1, <1>5

\* sortPorts is the run of its loop.
LEMMA SortPortsRuns ==
  ASSUME NEW ts \in Seq(TypeIndex), Full(ts), NEW ps \in Seq(Port), Len(ps) >= 2
  PROVE  \E c :
           /\ c[0] = ps
           /\ \A k \in 1..(Len(ps) - 1) : c[k] = SortPass(ts, c[k - 1], k)
           /\ SortPorts(ts, ps) = c[Len(ps) - 1]
<1> DEFINE n == Len(ps) - 1
           S == {r \in Seq(Port) : Len(r) = Len(ps)}
           c == CHOOSE f : f = [k \in 0..n |-> IF k = 0 THEN ps ELSE SortPass(ts, f[k - 1], k)]
<1>1. n \in Nat /\ ps \in S /\ \A k \in 1..n : k \in 1..Len(ps)
  OBVIOUS
<1>2. \A r \in S, k \in 1..n : SortPass(ts, r, k) \in S
  <2> TAKE r \in S, k \in 1..n
  <2>1. r \in Seq(Port) /\ k \in 1..Len(r)
    BY <1>1
  <2>2. Rearranged(ts, r, SortPass(ts, r, k))
    BY <2>1, PassRearranges
  <2>. QED
    BY <2>2 DEF Rearranged
<1>3. PICK g \in [0..n -> S] : g[0] = ps /\ \A k \in 1..n : g[k] = SortPass(ts, g[k - 1], k)
  <2> DEFINE F == [k \in 1..n |-> [r \in S |-> SortPass(ts, r, k)]]
  <2> HIDE DEF n, S
  <2>1. F \in Rounds(n, S) /\ \A k \in 1..n, r \in S : F[k][r] = SortPass(ts, r, k)
    BY <1>2 DEF Rounds
  <2> HIDE DEF F
  <2>2. PICK g \in [0..n -> S] : IsRun(g, n, ps, F)
    BY <1>1, <2>1, LoopRuns
  <2>3. \A k \in 1..n : g[k - 1] \in S
    BY <1>1
  <2>4. g[0] = ps /\ \A k \in 1..n : g[k] = SortPass(ts, g[k - 1], k)
    BY <2>1, <2>2, <2>3 DEF IsRun
  <2>. QED
    BY <2>4
<1>4. g = [k \in 0..n |-> IF k = 0 THEN ps ELSE SortPass(ts, g[k - 1], k)]
  <2>1. \A k \in 0..n : k = 0 \/ k \in 1..n
    BY <1>1
  <2> HIDE DEF n, S
  <2>. QED
    BY <1>3, <2>1
<1>5. c = [k \in 0..n |-> IF k = 0 THEN ps ELSE SortPass(ts, c[k - 1], k)]
  BY <1>4, Zenon
<1>6. SortPorts(ts, ps) = c[n]
  <2>1. SortPorts(ts, ps) = IF Len(ps) < 2 THEN ps ELSE c[n]
    BY Zenon DEF SortPorts
  <2>2. ~(Len(ps) < 2)
    OBVIOUS
  <2>. QED
    BY <2>1, <2>2, Zenon
<1> HIDE DEF c
<1>7. c[0] = ps /\ \A k \in 1..n : c[k] = SortPass(ts, c[k - 1], k)
  <2>1. 0 \in 0..n /\ \A k \in 1..n : k \in 0..n /\ k # 0
    BY <1>1
  <2> HIDE DEF n
  <2>. QED
    BY <1>5, <2>1
<1>. QED
  BY <1>6, <1>7

LEMMA SortRearranges ==
  ASSUME NEW ts \in Seq(TypeIndex), Full(ts), NEW ps \in Seq(Port)
  PROVE  Rearranged(ts, ps, SortPorts(ts, ps))
<1>1. CASE Len(ps) < 2
  <2>1. SortPorts(ts, ps) = ps
    BY <1>1, Zenon DEF SortPorts
  <2>. QED
    BY <2>1 DEF Rearranged
<1>2. CASE Len(ps) >= 2
  <2> DEFINE n == Len(ps) - 1
             I == {r \in Seq(Port) : Rearranged(ts, ps, r)}
  <2>1. PICK c : /\ c[0] = ps
                 /\ \A k \in 1..n : c[k] = SortPass(ts, c[k - 1], k)
                 /\ SortPorts(ts, ps) = c[n]
    BY <1>2, SortPortsRuns
  <2>2. n \in Nat /\ \A k \in 1..n : k \in 1..Len(ps)
    BY <1>2
  <2> HIDE DEF n
  <2>3. c[0] \in I
    BY <2>1 DEF Rearranged
  <2>4. ASSUME NEW k \in 1..n, c[k - 1] \in I PROVE c[k] \in I
    <3> DEFINE r == c[k - 1]
    <3>1. r \in Seq(Port) /\ Rearranged(ts, ps, r) /\ k \in 1..Len(r)
      BY <2>2, <2>4 DEF Rearranged
    <3>2. c[k] = SortPass(ts, r, k)
      BY <2>1
    <3> HIDE DEF r
    <3>3. Rearranged(ts, r, c[k])
      BY <3>1, <3>2, PassRearranges
    <3>4. Rearranged(ts, ps, c[k])
      BY <3>1, <3>3, RearrangedTwice
    <3>. QED
      BY <3>4 DEF Rearranged
  <2>5. c[n] \in I
    <3> HIDE DEF I
    <3>. QED
      BY <2>2, <2>3, <2>4, LoopKeeps
  <2>. QED
    BY <2>1, <2>5
<1>. QED
  BY <1>1, <1>2

LEMMA ConcatFacts ==
  ASSUME NEW D, NEW xs \in Seq(D), NEW y \in Seq(D)
  PROVE  /\ xs \o y \in Seq(D) /\ Len(xs \o y) = Len(xs) + Len(y)
         /\ \A k \in 1..Len(xs) : (xs \o y)[k] = xs[k]
         /\ \A k \in 1..Len(y) : (xs \o y)[Len(xs) + k] = y[k]
OBVIOUS

LEMMA RemoveAtFacts ==
  ASSUME NEW ps \in Seq(Port), NEW i \in 1..Len(ps)
  PROVE  /\ RemoveAt(ps, i) \in Seq(Port) /\ Len(RemoveAt(ps, i)) = Len(ps) - 1
         /\ \A k \in 1..(i - 1) : RemoveAt(ps, i)[k] = ps[k]
         /\ \A k \in i..(Len(ps) - 1) : RemoveAt(ps, i)[k] = ps[k + 1]
<1> DEFINE xs == SubSeq(ps, 1, i - 1)
           y == SubSeq(ps, i + 1, Len(ps))
           l == Len(ps) - i
           a == i - 1
<1>1. Len(ps) \in Nat /\ RemoveAt(ps, i) = xs \o y
  BY DEF RemoveAt
<1>2. xs \in Seq(Port) /\ Len(xs) = a /\ \A k \in 1..a : xs[k] = ps[k]
  BY <1>1
<1>3. y \in Seq(Port) /\ Len(y) = l /\ \A k \in 1..l : y[k] = ps[i + k]
  BY <1>1
<1>4. l \in Nat /\ a \in Nat /\ a + l = Len(ps) - 1 /\ a + 1 = i
  BY <1>1
<1> HIDE DEF xs, y, l
<1>11. xs \in Seq(Port) /\ y \in Seq(Port) /\ Len(xs) = a /\ Len(y) = l
  BY <1>2, <1>3
<1>5. /\ xs \o y \in Seq(Port) /\ Len(xs \o y) = a + l
      /\ \A k \in 1..a : (xs \o y)[k] = xs[k]
      /\ \A k \in 1..l : (xs \o y)[a + k] = y[k]
  <2> HIDE DEF a
  <2>1. xs \in Seq(Port) /\ y \in Seq(Port)
    BY <1>11
  <2>2. /\ xs \o y \in Seq(Port) /\ Len(xs \o y) = Len(xs) + Len(y)
        /\ \A k \in 1..Len(xs) : (xs \o y)[k] = xs[k]
        /\ \A k \in 1..Len(y) : (xs \o y)[Len(xs) + k] = y[k]
    BY <2>1, ConcatFacts
  <2>. QED
    BY <1>11, <2>2
<1> DEFINE w == xs \o y
<1> HIDE DEF w
<1>8. \A k \in 1..a : w[k] = ps[k]
  BY <1>2, <1>5 DEF w
<1>9. ASSUME NEW k \in i..(Len(ps) - 1) PROVE w[k] = ps[k + 1]
  <2> DEFINE m == k - a
  <2>1. m \in 1..l /\ a + m = k /\ i + m = k + 1
    BY <1>1, <1>4 DEF l
  <2> HIDE DEF m, a
  <2>2. w[a + m] = y[m] /\ y[m] = ps[i + m]
    BY <1>3, <1>5, <2>1 DEF w
  <2>. QED
    BY <2>1, <2>2
<1>10. w \in Seq(Port) /\ Len(w) = Len(ps) - 1
  BY <1>4, <1>5 DEF w
<1>. QED
  BY <1>1, <1>8, <1>9, <1>10 DEF w

\* r is ps after its port i went to place pos; the ports between move up by one.
Moved(ps, i, pos, r) ==
  /\ r \in Seq(Port) /\ Len(r) = Len(ps)
  /\ r[pos] = ps[i]
  /\ \A m \in 1..Len(ps) : m < pos \/ m > i => r[m] = ps[m]
  /\ \A m \in 1..Len(ps) : pos < m /\ m <= i => m - 1 \in 1..Len(ps) /\ r[m] = ps[m - 1]

LEMMA MoveToFacts ==
  ASSUME NEW ps \in Seq(Port), NEW i \in 1..Len(ps), NEW pos \in 1..i
  PROVE  Moved(ps, i, pos, MoveTo(ps, i, pos))
<1> DEFINE q == RemoveAt(ps, i)
           p == ps[i]
           r == InsertAt(q, pos, p)
<1>1. MoveTo(ps, i, pos) = r
  BY DEF MoveTo
<1>2. /\ q \in Seq(Port) /\ Len(q) = Len(ps) - 1
      /\ \A k \in 1..(i - 1) : q[k] = ps[k]
      /\ \A k \in i..(Len(ps) - 1) : q[k] = ps[k + 1]
  BY RemoveAtFacts
<1>3. Len(ps) \in Nat /\ p \in Port /\ pos \in 1..Len(ps) /\ i \in Nat /\ pos \in Nat
  OBVIOUS
<1> HIDE DEF q, p
<1>4. pos \in 1..(Len(q) + 1)
  BY <1>2, <1>3
<1>5. Inserted(q, pos, p, r)
  BY <1>2, <1>3, <1>4, InsertAtFacts
<1> HIDE DEF r
<1>6. /\ r \in Seq(Port) /\ Len(r) = Len(ps) /\ r[pos] = p
      /\ \A k \in 1..(Len(ps) - 1) : k < pos => r[k] = q[k]
      /\ \A k \in 1..(Len(ps) - 1) : k >= pos => r[k + 1] = q[k]
  <2>1. /\ r \in Seq(Port) /\ Len(r) = Len(q) + 1 /\ r[pos] = p
        /\ \A k \in 1..Len(q) : k < pos => r[k] = q[k]
        /\ \A k \in 1..Len(q) : k >= pos => r[k + 1] = q[k]
    BY <1>5 DEF Inserted
  <2>2. Len(q) = Len(ps) - 1 /\ Len(q) + 1 = Len(ps)
    BY <1>2, <1>3
  <2>. QED
    BY <2>1, <2>2
<1>7. ASSUME NEW m \in 1..Len(ps), m < pos PROVE r[m] = ps[m]
  <2>1. m \in 1..(Len(ps) - 1) /\ m \in 1..(i - 1)
    BY <1>3, <1>7
  <2>. QED
    BY <1>2, <1>6, <1>7, <2>1
<1>8. ASSUME NEW m \in 1..Len(ps), m > i PROVE r[m] = ps[m]
  <2> DEFINE k == m - 1
  <2>1. k \in 1..(Len(ps) - 1) /\ k >= pos /\ k \in i..(Len(ps) - 1) /\ k + 1 = m
    BY <1>3, <1>8
  <2> HIDE DEF k
  <2>2. r[k + 1] = q[k] /\ q[k] = ps[k + 1]
    BY <1>2, <1>6, <2>1
  <2>. QED
    BY <2>1, <2>2
<1>9. ASSUME NEW m \in 1..Len(ps), pos < m, m <= i PROVE m - 1 \in 1..Len(ps) /\ r[m] = ps[m - 1]
  <2> DEFINE k == m - 1
  <2>1. k \in 1..(Len(ps) - 1) /\ k >= pos /\ k \in 1..(i - 1) /\ k + 1 = m /\ k \in 1..Len(ps)
    BY <1>3, <1>9
  <2>2. r[m] = ps[k]
    <3> HIDE DEF k
    <3>1. r[k + 1] = q[k] /\ q[k] = ps[k]
      BY <1>2, <1>6, <2>1
    <3>. QED
      BY <2>1, <3>1
  <2>. QED
    BY <2>1, <2>2
<1>. QED
  BY <1>1, <1>6, <1>7, <1>8, <1>9 DEF Moved, p

LEMMA MovedSet ==
  ASSUME NEW ps \in Seq(Port), NEW i \in 1..Len(ps), NEW pos \in 1..i, NEW r, Moved(ps, i, pos, r)
  PROVE  ToSet(r) = ToSet(ps) /\ (IsInjective(ps) => IsInjective(r))
<1> DEFINE n == Len(ps)
           src == [m \in 1..n |-> IF m < pos \/ m > i THEN m ELSE IF m = pos THEN i ELSE m - 1]
           dst == [k \in 1..n |-> IF k < pos \/ k > i THEN k ELSE IF k = i THEN pos ELSE k + 1]
<1>1. /\ n \in Nat /\ i \in 1..n /\ pos \in 1..i
      /\ \A el : el \in ToSet(ps) <=> \E k \in 1..n : ps[k] = el
      /\ IsInjective(ps) <=> \A k, j \in 1..n : ps[k] = ps[j] => k = j
  BY SeqBasics
<1>2. r \in Seq(Port) /\ Len(r) = n
  BY DEF Moved
<1>3. /\ \A el : el \in ToSet(r) <=> \E k \in 1..n : r[k] = el
      /\ IsInjective(r) <=> \A k, j \in 1..n : r[k] = r[j] => k = j
  BY <1>2, SeqBasics
<1>4. /\ r[pos] = ps[i]
      /\ \A m \in 1..n : m < pos \/ m > i => r[m] = ps[m]
      /\ \A m \in 1..n : pos < m /\ m <= i => r[m] = ps[m - 1]
  BY DEF Moved
<1> HIDE DEF n
<1>5. \A m \in 1..n : src[m] \in 1..n /\ dst[m] \in 1..n
  BY <1>1
<1>6. \A m \in 1..n : src[dst[m]] = m /\ dst[src[m]] = m
  <2> TAKE m \in 1..n
  <2>1. CASE m < pos \/ m > i
    BY <1>1, <2>1
  <2>2. CASE ~(m < pos \/ m > i)
    <3>1. dst[m] = IF m = i THEN pos ELSE m + 1
      BY <2>2
    <3>2. src[m] = IF m = pos THEN i ELSE m - 1
      BY <2>2
    <3>3. src[dst[m]] = m
      BY <1>1, <2>2, <3>1
    <3>4. dst[src[m]] = m
      BY <1>1, <2>2, <3>2
    <3>. QED
      BY <3>3, <3>4
  <2>. QED
    BY <2>1, <2>2
<1>7. \A m \in 1..n : r[m] = ps[src[m]]
  BY <1>1, <1>4
<1> HIDE DEF src, dst
<1>8. ToSet(r) = ToSet(ps)
  <2>1. ASSUME NEW el \in ToSet(r) PROVE el \in ToSet(ps)
    BY <1>1, <1>3, <1>5, <1>7
  <2>2. ASSUME NEW el \in ToSet(ps) PROVE el \in ToSet(r)
    <3>1. PICK k \in 1..n : ps[k] = el
      BY <1>1
    <3>2. dst[k] \in 1..n /\ r[dst[k]] = el
      BY <1>5, <1>6, <1>7, <3>1
    <3>. QED
      BY <1>3, <3>2
  <2>. QED
    BY <2>1, <2>2
<1>9. ASSUME IsInjective(ps) PROVE IsInjective(r)
  <2> SUFFICES ASSUME NEW k \in 1..n, NEW j \in 1..n, r[k] = r[j] PROVE k = j
    BY <1>3
  <2>1. src[k] = src[j]
    BY <1>1, <1>5, <1>7, <1>9
  <2>. QED
    BY <1>6, <2>1
<1>. QED
  BY <1>8, <1>9

\* LoopKeeps, with a set for each round
LEMMA LoopKeepsAll ==
  ASSUME NEW n \in Nat, NEW I, NEW c, c[0] \in I[0],
         \A k \in 1..n : c[k - 1] \in I[k - 1] => c[k] \in I[k]
  PROVE  \A k \in 0..n : c[k] \in I[k]
<1> DEFINE T == {k \in Nat : k <= n => c[k] \in I[k]}
<1>1. 0 \in T
  OBVIOUS
<1>2. ASSUME NEW k \in Nat, k \in T PROVE k + 1 \in T
  <2> SUFFICES ASSUME k + 1 <= n PROVE c[k + 1] \in I[k + 1]
    OBVIOUS
  <2>1. k + 1 \in 1..n /\ (k + 1) - 1 = k /\ c[k] \in I[k]
    BY <1>2
  <2>. QED
    BY <2>1
<1>3. T \subseteq Nat
  OBVIOUS
<1>4. \A k \in Nat : k \in T
  <2> HIDE DEF T
  <2>. QED
    BY <1>1, <1>2, <1>3, InductionOn
<1>. QED
  BY <1>4

\* The round i of SetTheFirstPort's loop
Raise(ty, acc, i) ==
  IF PortType[acc.list[i]] = ty
    THEN [list |-> MoveTo(acc.list, i, acc.pos), pos |-> acc.pos + 1]
    ELSE acc

\* The lists of n ports with a place for the next
ListsOf(n) == [list : {r \in Seq(Port) : Len(r) = n}, pos : Nat]

LEMMA RaiseKeepsList ==
  ASSUME NEW n \in Nat, NEW ty, NEW acc \in ListsOf(n), NEW i \in 1..n, acc.pos \in 1..i
  PROVE  Raise(ty, acc, i) \in ListsOf(n) /\ Raise(ty, acc, i).pos \in 1..(i + 1)
<1> DEFINE ps == acc.list
           r == MoveTo(ps, i, acc.pos)
<1>1. ps \in Seq(Port) /\ Len(ps) = n /\ acc.pos \in Nat
  BY DEF ListsOf
<1>2. Moved(ps, i, acc.pos, r)
  <2>1. i \in 1..Len(ps)
    BY <1>1
  <2> HIDE DEF ps
  <2>. QED
    BY <1>1, <2>1, MoveToFacts
<1>3. r \in Seq(Port) /\ Len(r) = n
  <2> HIDE DEF ps, r
  <2>. QED
    BY <1>1, <1>2 DEF Moved
<1>4. CASE PortType[acc.list[i]] = ty
  <2>1. Raise(ty, acc, i) = [list |-> r, pos |-> acc.pos + 1]
    BY <1>4 DEF Raise
  <2> HIDE DEF r, ps
  <2>2. [list |-> r, pos |-> acc.pos + 1] \in ListsOf(n)
    BY <1>1, <1>3 DEF ListsOf
  <2>3. acc.pos + 1 \in 1..(i + 1)
    OBVIOUS
  <2>. QED
    BY <2>1, <2>2, <2>3
<1>5. CASE PortType[acc.list[i]] # ty
  <2>1. Raise(ty, acc, i) = acc
    BY <1>5 DEF Raise
  <2>. QED
    BY <2>1
<1>. QED
  BY <1>4, <1>5

\* Where the list has p
PlaceOf(ps, p) == SelectInSeq(ps, LAMBDA q : q = p)

\* c is the run of SetTheFirstPort's loop.
RaiseRun(ts, ps, p, front, c) ==
  /\ c[0] = [list |-> front, pos |-> 1]
  /\ \A i \in 1..Len(ps) : c[i] = Raise(PortType[p], c[i - 1], i)
  /\ SetTheFirstPort(ts, ps, p) = Priorities(SetTheFirstType(ts, PortType[p]), c[Len(ps)].list)

LEMMA FirstPortRuns ==
  ASSUME NEW ts, NEW ps \in Seq(Port), NEW p, NEW front \in Seq(Port), Len(front) = Len(ps),
         front = MoveTo(ps, PlaceOf(ps, p), 1)
  PROVE  \E c : RaiseRun(ts, ps, p, front, c)
<1> DEFINE n == Len(ps)
           S == ListsOf(n)
           ty == PortType[p]
           b == [list |-> front, pos |-> 1]
           c == CHOOSE f : f = [i \in 0..n |-> IF i = 0 THEN b ELSE
                   IF PortType[f[i - 1].list[i]] = ty
                     THEN [list |-> MoveTo(f[i - 1].list, i, f[i - 1].pos), pos |-> f[i - 1].pos + 1]
                     ELSE f[i - 1]]
           Round(a, i) == IF a.pos \in 1..i THEN Raise(ty, a, i) ELSE a
<1>1. n \in Nat /\ b \in S /\ b.pos = 1
  BY DEF ListsOf
<1>2. \A a \in S, i \in 1..n : Round(a, i) \in S
  BY <1>1, RaiseKeepsList
<1>3. PICK g \in [0..n -> S] : g[0] = b /\ \A i \in 1..n : g[i] = Round(g[i - 1], i)
  <2> DEFINE F == [i \in 1..n |-> [a \in S |-> Round(a, i)]]
  <2> HIDE DEF n, S, Round, b
  <2>1. F \in Rounds(n, S) /\ \A i \in 1..n, a \in S : F[i][a] = Round(a, i)
    BY <1>2 DEF Rounds
  <2> HIDE DEF F
  <2>2. PICK g \in [0..n -> S] : IsRun(g, n, b, F)
    BY <1>1, <2>1, LoopRuns
  <2>3. \A i \in 1..n : g[i - 1] \in S
    BY <1>1
  <2>4. g[0] = b /\ \A i \in 1..n : g[i] = Round(g[i - 1], i)
    BY <2>1, <2>2, <2>3 DEF IsRun
  <2>. QED
    BY <2>4
<1>4. \A i \in 0..n : g[i] \in S /\ g[i].pos \in 1..(i + 1)
  <2> DEFINE I == [i \in 0..n |-> {a \in S : a.pos \in 1..(i + 1)}]
  <2> HIDE DEF n, S, b
  <2>1. g[0] \in I[0]
    BY <1>1, <1>3
  <2>2. ASSUME NEW i \in 1..n, g[i - 1] \in I[i - 1] PROVE g[i] \in I[i]
    <3>1. i - 1 \in 0..n /\ i \in 0..n /\ (i - 1) + 1 = i
      BY <1>1
    <3>2. g[i - 1] \in S /\ g[i - 1].pos \in 1..i
      BY <2>2, <3>1
    <3>3. g[i] = Raise(ty, g[i - 1], i)
      BY <1>3, <3>2
    <3>4. g[i] \in S /\ g[i].pos \in 1..(i + 1)
      BY <1>1, <3>2, <3>3, RaiseKeepsList DEF S
    <3>. QED
      BY <3>1, <3>4
  <2>3. \A i \in 0..n : g[i] \in I[i]
    <3> HIDE DEF I
    <3>. QED
      BY <1>1, <2>1, <2>2, LoopKeepsAll
  <2>. QED
    BY <2>3
<1>5. \A i \in 1..n : g[i] = Raise(ty, g[i - 1], i)
  <2> TAKE i \in 1..n
  <2>1. i - 1 \in 0..n /\ (i - 1) + 1 = i
    BY <1>1
  <2> HIDE DEF n, S, b
  <2>2. g[i - 1].pos \in 1..i
    BY <1>4, <2>1
  <2>. QED
    BY <1>3, <2>2
<1>6. g = [i \in 0..n |-> IF i = 0 THEN b ELSE
                   IF PortType[g[i - 1].list[i]] = ty
                     THEN [list |-> MoveTo(g[i - 1].list, i, g[i - 1].pos), pos |-> g[i - 1].pos + 1]
                     ELSE g[i - 1]]
  <2>1. \A i \in 0..n : i = 0 \/ i \in 1..n
    BY <1>1
  <2>2. \A i \in 1..n : g[i] = IF PortType[g[i - 1].list[i]] = ty
                     THEN [list |-> MoveTo(g[i - 1].list, i, g[i - 1].pos), pos |-> g[i - 1].pos + 1]
                     ELSE g[i - 1]
    BY <1>5, Zenon DEF Raise
  <2> HIDE DEF n, S, b, ty
  <2>. QED
    BY <1>3, <2>1, <2>2
<1>7. c = [i \in 0..n |-> IF i = 0 THEN b ELSE
                   IF PortType[c[i - 1].list[i]] = ty
                     THEN [list |-> MoveTo(c[i - 1].list, i, c[i - 1].pos), pos |-> c[i - 1].pos + 1]
                     ELSE c[i - 1]]
  BY <1>6, Zenon
<1>8. SetTheFirstPort(ts, ps, p) = Priorities(SetTheFirstType(ts, ty), c[n].list)
  BY Zenon DEF SetTheFirstPort, PlaceOf
<1> HIDE DEF c
<1>9. c[0] = b /\ \A i \in 1..n : c[i] = Raise(ty, c[i - 1], i)
  <2>1. 0 \in 0..n /\ \A i \in 1..n : i \in 0..n /\ i # 0
    BY <1>1
  <2> HIDE DEF n, b, ty
  <2>2. c[0] = b
    BY <1>7, <2>1
  <2>3. \A i \in 1..n : c[i] = IF PortType[c[i - 1].list[i]] = ty
                     THEN [list |-> MoveTo(c[i - 1].list, i, c[i - 1].pos), pos |-> c[i - 1].pos + 1]
                     ELSE c[i - 1]
    BY <1>7, <2>1
  <2>. QED
    BY <2>2, <2>3 DEF Raise
<1>10. RaiseRun(ts, ps, p, front, c)
  BY <1>8, <1>9 DEF RaiseRun
<1>. QED
  BY <1>10

\* The ports of another type than ty are in order.
OthersSorted(ts, ty, ps) ==
  \A m, l \in 1..Len(ps) :
     m < l /\ PortType[ps[m]] # ty /\ PortType[ps[l]] # ty =>
        RankIn(ts, PortType[ps[m]]) <= RankIn(ts, PortType[ps[l]])

LEMMA MovedOthers ==
  ASSUME NEW ts, NEW ty, NEW ps \in Seq(Port), NEW i \in 1..Len(ps), NEW pos \in 1..i, NEW r,
         Moved(ps, i, pos, r), PortType[ps[i]] = ty, OthersSorted(ts, ty, ps)
  PROVE  OthersSorted(ts, ty, r)
<1> DEFINE n == Len(ps)
<1>1. /\ n \in Nat /\ Len(r) = n /\ r[pos] = ps[i]
      /\ \A m \in 1..n : m < pos \/ m > i => r[m] = ps[m]
      /\ \A m \in 1..n : pos < m /\ m <= i => m - 1 \in 1..n /\ r[m] = ps[m - 1]
  BY DEF Moved
<1>2. \A m \in 1..n : PortType[r[m]] # ty =>
         \/ (m < pos \/ m > i) /\ r[m] = ps[m]
         \/ pos < m /\ m <= i /\ m - 1 \in 1..n /\ r[m] = ps[m - 1]
  BY <1>1
<1> SUFFICES ASSUME NEW m \in 1..n, NEW l \in 1..n, m < l, PortType[r[m]] # ty, PortType[r[l]] # ty
             PROVE  RankIn(ts, PortType[r[m]]) <= RankIn(ts, PortType[r[l]])
  BY <1>1 DEF OthersSorted
<1>3. \E a, b \in 1..n : a < b /\ r[m] = ps[a] /\ r[l] = ps[b]
  <2>1. CASE m < pos \/ m > i
    <3>1. r[m] = ps[m]
      BY <1>1, <2>1
    <3>2. CASE l < pos \/ l > i
      BY <1>1, <3>1, <3>2
    <3>3. CASE pos < l /\ l <= i /\ l - 1 \in 1..n /\ r[l] = ps[l - 1]
      <4>1. m < l - 1
        BY <1>1, <2>1, <3>3
      <4>. QED
        BY <3>1, <3>3, <4>1
    <3>. QED
      BY <1>2, <3>2, <3>3
  <2>2. CASE pos < m /\ m <= i /\ m - 1 \in 1..n /\ r[m] = ps[m - 1]
    <3>1. CASE l < pos \/ l > i
      <4>1. m - 1 < l /\ r[l] = ps[l]
        BY <1>1, <3>1
      <4>. QED
        BY <2>2, <4>1
    <3>2. CASE pos < l /\ l <= i /\ l - 1 \in 1..n /\ r[l] = ps[l - 1]
      <4>1. m - 1 < l - 1
        BY <1>1
      <4>. QED
        BY <2>2, <3>2, <4>1
    <3>. QED
      BY <1>2, <3>1, <3>2
  <2>. QED
    BY <1>2, <2>1, <2>2
<1>4. PICK a, b \in 1..n : a < b /\ r[m] = ps[a] /\ r[l] = ps[b]
  BY <1>3
<1>. QED
  BY <1>4 DEF OthersSorted

\* After round i of the loop: the ports of p's type are before pos, those of
\* pos to i are others, and the others are in their old order.
RaisedTo(ts, ps, p, i, acc) ==
  /\ acc.list \in Seq(Port) /\ Len(acc.list) = Len(ps)
  /\ ToSet(acc.list) = ToSet(ps) /\ (IsInjective(ps) => IsInjective(acc.list))
  /\ acc.pos \in 1..(i + 1) /\ (i >= 1 => acc.pos >= 2)
  /\ acc.list[1] = p
  /\ \A m \in 1..Len(ps) : m < acc.pos => PortType[acc.list[m]] = PortType[p]
  /\ \A m \in 1..Len(ps) : acc.pos <= m /\ m <= i => PortType[acc.list[m]] # PortType[p]
  /\ SortedBy(ts, ps) => OthersSorted(ts, PortType[p], acc.list)

LEMMA RaiseRound ==
  ASSUME NEW ts, NEW ps \in Seq(Port), NEW p, NEW i \in 1..Len(ps), NEW acc,
         RaisedTo(ts, ps, p, i - 1, acc)
  PROVE  RaisedTo(ts, ps, p, i, Raise(PortType[p], acc, i))
<1> DEFINE n == Len(ps)
           ty == PortType[p]
           s == acc.list
           pos == acc.pos
           r == MoveTo(s, i, pos)
<1>1. /\ n \in Nat /\ i \in 1..n /\ i \in Nat
      /\ s \in Seq(Port) /\ Len(s) = n
      /\ ToSet(s) = ToSet(ps) /\ (IsInjective(ps) => IsInjective(s))
      /\ pos \in 1..i /\ (i - 1 >= 1 => pos >= 2)
      /\ s[1] = p
      /\ \A m \in 1..n : m < pos => PortType[s[m]] = ty
      /\ \A m \in 1..n : pos <= m /\ m <= i - 1 => PortType[s[m]] # ty
      /\ SortedBy(ts, ps) => OthersSorted(ts, ty, s)
  <2>1. (i - 1) + 1 = i
    OBVIOUS
  <2>. QED
    BY <2>1 DEF RaisedTo
<1>2. CASE PortType[s[i]] = ty
  <2> DEFINE new == [list |-> r, pos |-> pos + 1]
  <2>1. Raise(ty, acc, i) = new /\ new.list = r /\ new.pos = pos + 1
    BY <1>2 DEF Raise
  <2> HIDE DEF new, s, pos, ty, n
  <2>2. Moved(s, i, pos, r)
    BY <1>1, MoveToFacts
  <2> HIDE DEF r
  <2>3. ToSet(r) = ToSet(s) /\ (IsInjective(s) => IsInjective(r))
    BY <1>1, <2>2, MovedSet
  <2>4. SortedBy(ts, ps) => OthersSorted(ts, ty, r)
    BY <1>1, <1>2, <2>2, MovedOthers
  <2>5. /\ r \in Seq(Port) /\ Len(r) = n /\ r[pos] = s[i]
        /\ \A m \in 1..n : m < pos \/ m > i => r[m] = s[m]
        /\ \A m \in 1..n : pos < m /\ m <= i => m - 1 \in 1..n /\ r[m] = s[m - 1]
    BY <1>1, <2>2 DEF Moved
  <2>6. pos + 1 \in 1..(i + 1) /\ pos + 1 >= 2
    BY <1>1
  <2>7. r[1] = p
    <3>1. CASE pos = 1
      <4>1. i = 1
        BY <1>1, <3>1
      <4>. QED
        BY <1>1, <2>5, <3>1, <4>1
    <3>2. CASE pos > 1
      <4>1. 1 \in 1..n /\ 1 < pos
        BY <1>1, <3>2
      <4>. QED
        BY <1>1, <2>5, <4>1
    <3>. QED
      BY <1>1, <3>1, <3>2
  <2>8. ASSUME NEW m \in 1..n, m < pos + 1 PROVE PortType[r[m]] = ty
    <3>1. m < pos \/ m = pos
      BY <1>1, <2>8
    <3>. QED
      BY <1>1, <1>2, <2>5, <3>1
  <2>9. ASSUME NEW m \in 1..n, pos + 1 <= m, m <= i PROVE PortType[r[m]] # ty
    <3> DEFINE k == m - 1
    <3>1. k \in 1..n /\ r[m] = s[k] /\ pos <= k /\ k <= i - 1
      BY <1>1, <2>5, <2>9
    <3> HIDE DEF k
    <3>. QED
      BY <1>1, <3>1
  <2>10. RaisedTo(ts, ps, p, i, new)
    BY <1>1, <2>1, <2>3, <2>4, <2>5, <2>6, <2>7, <2>8, <2>9 DEF RaisedTo, n, ty
  <2>. QED
    BY <2>1, <2>10 DEF ty
<1>3. CASE PortType[s[i]] # ty
  <2>1. Raise(ty, acc, i) = acc
    BY <1>3 DEF Raise
  <2>2. i >= 1 => pos >= 2
    <3> SUFFICES ASSUME i = 1, pos = 1 PROVE FALSE
      BY <1>1
    <3>. QED
      BY <1>1, <1>3
  <2>3. ASSUME NEW m \in 1..n, pos <= m, m <= i PROVE PortType[s[m]] # ty
    <3>1. m <= i - 1 \/ m = i
      BY <1>1, <2>3
    <3>. QED
      BY <1>1, <1>3, <2>3, <3>1
  <2>4. pos \in 1..(i + 1)
    BY <1>1
  <2>5. RaisedTo(ts, ps, p, i, acc)
    BY <1>1, <2>2, <2>3, <2>4 DEF RaisedTo
  <2>. QED
    BY <2>1, <2>5
<1>. QED
  BY <1>2, <1>3

\* SetTheFirstPort: p is the first, its type is the first, and a list in order
\* is in order for the new types.
PutFirst(ts, ps, p, after) ==
  /\ after = Priorities(SetTheFirstType(ts, PortType[p]), after.ports)
  /\ after.types = SetTheFirstType(ts, PortType[p])
  /\ after.ports \in Seq(Port)
  /\ ToSet(after.ports) = ToSet(ps) /\ (IsInjective(ps) => IsInjective(after.ports))
  /\ after.ports # <<>> /\ Head(after.ports) = p
  /\ SortedBy(ts, ps) => SortedBy(after.types, after.ports)

LEMMA FirstPortFacts ==
  ASSUME NEW ts \in Seq(TypeIndex), Full(ts), NEW ps \in Seq(Port), NEW p, Contains(ps, p)
  PROVE  PutFirst(ts, ps, p, SetTheFirstPort(ts, ps, p))
<1> DEFINE n == Len(ps)
           ty == PortType[p]
           at == PlaceOf(ps, p)
           front == MoveTo(ps, at, 1)
<1>1. n \in Nat /\ n >= 1 /\ p \in Port /\ ty \in TypeIndex
  <2>1. PICK i \in 1..n : ps[i] = p
    BY DEF Contains
  <2>2. n \in Nat /\ ps[i] \in Port
    OBVIOUS
  <2>. QED
    BY <2>1, <2>2, AudioAssumption
<1>2. at \in 1..n /\ ps[at] = p
  <2> DEFINE I == {i \in 1..Len(ps) : ps[i] = p}
  <2>1. at = IF I # {} THEN Min(I) ELSE 0
    BY DEF PlaceOf, SelectInSeq
  <2>2. I \subseteq Nat /\ I # {}
    BY <1>1 DEF Contains
  <2>3. at = Min(I)
    BY <2>1, <2>2
  <2>4. Min(I) \in I
    <3> HIDE DEF I
    <3>. QED
      BY <2>2, MinLeast
  <2>. QED
    BY <2>3, <2>4
<1>3. front = MoveTo(ps, PlaceOf(ps, p), 1)
  OBVIOUS
<1> HIDE DEF at
<1>4. 1 \in 1..at
  BY <1>1, <1>2
<1>5. Moved(ps, at, 1, front)
  BY <1>2, <1>4, MoveToFacts
<1> HIDE DEF front
<1>6. ToSet(front) = ToSet(ps) /\ (IsInjective(ps) => IsInjective(front))
  BY <1>2, <1>4, <1>5, MovedSet
<1>7. front \in Seq(Port) /\ Len(front) = n /\ front[1] = p
  BY <1>2, <1>5 DEF Moved
<1>8. SortedBy(ts, ps) => OthersSorted(ts, ty, front)
  <2>1. SortedBy(ts, ps) => OthersSorted(ts, ty, ps)
    BY DEF SortedBy, OthersSorted
  <2>. QED
    BY <1>2, <1>4, <1>5, <2>1, MovedOthers
<1> DEFINE b == [list |-> front, pos |-> 1]
<1>9. RaisedTo(ts, ps, p, 0, b)
  BY <1>1, <1>6, <1>7, <1>8 DEF RaisedTo
<1>10. PICK c : /\ c[0] = b
                /\ \A i \in 1..n : c[i] = Raise(ty, c[i - 1], i)
                /\ SetTheFirstPort(ts, ps, p) = Priorities(SetTheFirstType(ts, ty), c[n].list)
  <2>1. Len(front) = Len(ps)
    BY <1>7
  <2>2. PICK c : RaiseRun(ts, ps, p, front, c)
    BY <1>3, <1>7, <2>1, FirstPortRuns
  <2>. QED
    BY <2>2 DEF RaiseRun
<1>11. RaisedTo(ts, ps, p, n, c[n])
  <2> DEFINE T == {k \in Nat : k <= n => RaisedTo(ts, ps, p, k, c[k])}
  <2>1. 0 \in T
    BY <1>9, <1>10
  <2>2. ASSUME NEW k \in Nat, k \in T PROVE k + 1 \in T
    <3> SUFFICES ASSUME k + 1 <= n PROVE RaisedTo(ts, ps, p, k + 1, c[k + 1])
      OBVIOUS
    <3>1. k + 1 \in 1..n /\ (k + 1) - 1 = k /\ RaisedTo(ts, ps, p, k, c[k])
      BY <1>1, <2>2
    <3>2. c[k + 1] = Raise(PortType[p], c[k], k + 1)
      BY <1>10, <3>1
    <3>3. RaisedTo(ts, ps, p, (k + 1) - 1, c[k])
      BY <3>1
    <3> HIDE DEF n
    <3>4. k + 1 \in 1..Len(ps)
      BY <3>1 DEF n
    <3>5. RaisedTo(ts, ps, p, k + 1, Raise(PortType[p], c[k], k + 1))
      BY <3>3, <3>4, RaiseRound
    <3>. QED
      BY <3>2, <3>5
  <2>3. T \subseteq Nat
    OBVIOUS
  <2>4. \A k \in Nat : k \in T
    <3> HIDE DEF T
    <3>. QED
      BY <2>1, <2>2, <2>3, InductionOn
  <2>. QED
    BY <1>1, <2>4
<1> DEFINE r == c[n].list
           pos == c[n].pos
           new == SetTheFirstType(ts, ty)
<1>12. /\ r \in Seq(Port) /\ Len(r) = n
       /\ ToSet(r) = ToSet(ps) /\ (IsInjective(ps) => IsInjective(r))
       /\ pos \in Nat /\ r[1] = p
       /\ \A m \in 1..n : m < pos => PortType[r[m]] = ty
       /\ \A m \in 1..n : pos <= m => PortType[r[m]] # ty
       /\ SortedBy(ts, ps) => OthersSorted(ts, ty, r)
  <2>1. \A m \in 1..n : m <= n
    BY <1>1
  <2>. QED
    BY <1>1, <1>11, <2>1 DEF RaisedTo
<1> HIDE DEF r, pos
<1>13. /\ RankIn(new, ty) = 1
       /\ \A t, u \in TypeIndex \ {ty} :
              RankIn(ts, t) <= RankIn(ts, u) => RankIn(new, t) <= RankIn(new, u)
       /\ \A t \in TypeIndex : RankIn(new, t) >= 1
  BY <1>1, FirstTypeFacts
<1> HIDE DEF new
<1>14. ASSUME SortedBy(ts, ps) PROVE SortedBy(new, r)
  <2> SUFFICES ASSUME NEW m \in 1..n, NEW l \in 1..n, m < l
               PROVE  RankIn(new, PortType[r[m]]) <= RankIn(new, PortType[r[l]])
    BY <1>12 DEF SortedBy
  <2>1. PortType[r[m]] \in TypeIndex /\ PortType[r[l]] \in TypeIndex
    BY <1>12, AudioAssumption
  <2>2. CASE PortType[r[m]] = ty
    BY <1>13, <2>1, <2>2
  <2>3. CASE PortType[r[m]] # ty
    <3>1. ~(m < pos)
      BY <1>12, <2>3
    <3>2. PortType[r[l]] # ty
      BY <1>1, <1>12, <3>1
    <3>3. RankIn(ts, PortType[r[m]]) <= RankIn(ts, PortType[r[l]])
      BY <1>12, <1>14, <2>3, <3>2 DEF OthersSorted
    <3>. QED
      BY <1>13, <2>1, <2>3, <3>2, <3>3
  <2>. QED
    BY <2>2, <2>3
<1>15. r # <<>> /\ Head(r) = p
  BY <1>1, <1>12
<1> DEFINE after == SetTheFirstPort(ts, ps, p)
<1>16. after = Priorities(new, r) /\ after.types = new /\ after.ports = r
  <2>1. after = Priorities(new, r)
    BY <1>10 DEF r, new
  <2> HIDE DEF after
  <2>. QED
    BY <2>1 DEF Priorities
<1> HIDE DEF after
<1>17. PutFirst(ts, ps, p, after)
  BY <1>12, <1>14, <1>15, <1>16 DEF PutFirst, new
<1>. QED
  BY <1>17 DEF after

-----------------------------------------------------------------------------
\* What Save writes is a good file.
LEMMA SavedFile ==
  ASSUME NEW ts \in Seq(TypeIndex), Full(ts), NEW ps \in Seq(Port)
  PROVE  /\ TypedFile(Priorities(ts, ps)) /\ (IsInjective(ps) => GoodFile(Priorities(ts, ps)))
         /\ Priorities(ts, ps).types = ts /\ Priorities(ts, ps).ports = ps
<1>1. Priorities(ts, ps).types = ts /\ Priorities(ts, ps).ports = ps
  BY DEF Priorities
<1>2. \A t, u \in TypeIndex \ ToSet(ts) : t = u
  <2>1. \A t \in TypeIndex : t \in ToSet(ts)
    BY SeqBasics DEF Full
  <2>. QED
    BY <2>1
<1>. QED
  BY <1>1, <1>2 DEF GoodFile, TypedFile

-----------------------------------------------------------------------------
(* The invariant of the priorities.                                        *)
AudioTypes ==
  /\ types \in Seq(TypeIndex) /\ ports \in Seq(Port)
  /\ {plugged, disabled, cards} \subseteq SUBSET Port
  /\ prioFile = NoFile \/ TypedFile(prioFile)

ListKept ==
  /\ Running => Full(types)
  /\ Running => ToSet(ports) \in {cards \ disabled, cards}

\* What the daemon has read is still so when there is no event for it.
CacheFresh == Running /\ ~audioEvent => cards = plugged /\ sink = current

AudioInv == AudioTypes /\ ListKept /\ CacheFresh

\* The list and the file are in order, unless a type was put first.
OrderKept ==
  /\ IsInjective(ports)
  /\ Running /\ ~promoted => SortedBy(types, ports)
  /\ prioFile # NoFile =>
       GoodFile(prioFile) /\ (~promoted => SortedBy(prioFile.types, prioFile.ports))

LEMMA EmptyList == <<>> \in Seq(Port) /\ ToSet(<<>>) = {} /\ IsInjective(<<>>) /\ \A ts : SortedBy(ts, <<>>)
<1>1. <<>> \in Seq(Port) /\ Len(<<>>) = 0 /\ DOMAIN <<>> = {}
  OBVIOUS
<1>2. ToSet(<<>>) = {} /\ IsInjective(<<>>)
  BY <1>1 DEF ToSet, IsInjective
<1>3. \A ts : SortedBy(ts, <<>>)
  BY <1>1 DEF SortedBy
<1>. QED
  BY <1>1, <1>2, <1>3

LEMMA AudioInvInit ==
  ASSUME AudioInit
  PROVE  AudioInv /\ (OldFilesInOrder => OrderKept)
<1>1. /\ types = <<>> /\ ports = <<>> /\ prioFile \in OldFiles /\ plugged \in SUBSET Port
      /\ disabled = {} /\ cards = {} /\ ~Running
  BY DEF AudioInit, Running
<1>2. prioFile = NoFile \/ TypedFile(prioFile)
  BY <1>1, OldFilesAssumption, Zenon
<1>3. AudioTypes
  BY <1>1, <1>2 DEF AudioTypes
<1>4. ListKept /\ CacheFresh
  BY <1>1 DEF ListKept, CacheFresh
<1>5. ASSUME OldFilesInOrder PROVE OrderKept
  <2>1. prioFile # NoFile => GoodFile(prioFile) /\ InTypeOrder(CompleteTypes(prioFile.types), prioFile.ports)
    BY <1>1, <1>5, Zenon DEF OldFilesInOrder
  <2>. QED
    BY <1>1, <2>1, EmptyList, FileOrder DEF OrderKept
<1>. QED
  BY <1>3, <1>4, <1>5 DEF AudioInv

\* Save writes the lists that a step has made.
LEMMA SavedKeeps ==
  ASSUME types' \in Seq(TypeIndex), Full(types'), ports' \in Seq(Port),
         prioFile' = Priorities(types', ports')
  PROVE  /\ TypedFile(prioFile')
         /\ IsInjective(ports') /\ (~promoted' => SortedBy(types', ports')) => OrderKept'
<1> DEFINE f == Priorities(types', ports')
<1>1. TypedFile(f) /\ f.types = types' /\ f.ports = ports' /\ (IsInjective(ports') => GoodFile(f))
  BY SavedFile
<1> HIDE DEF f
<1>2. prioFile' = f
  BY DEF f
<1>3. ASSUME IsInjective(ports'), ~promoted' => SortedBy(types', ports') PROVE OrderKept'
  <2>1. GoodFile(prioFile') /\ (~promoted' => SortedBy(prioFile'.types, prioFile'.ports))
    BY <1>1, <1>2, <1>3
  <2>. QED
    BY <1>3, <2>1 DEF OrderKept
<1>. QED
  BY <1>1, <1>2, <1>3

\* autoSwitchPort has an event for what it changes.
LEMMA SwitchTells ==
  ASSUME NEW pending, NEW took \in BOOLEAN, NEW again \in BOOLEAN,
         AutoSwitchPort(pending, took, again), ~audioEvent'
  PROVE  current' = current /\ ~pending
<1>1. CASE NeedAutoSwitch
  <2>1. /\ current' = IF took THEN Head(ports') ELSE current
        /\ audioEvent' = (pending \/ took \/ again)
    BY <1>1 DEF AutoSwitchPort
  <2>. QED
    BY <2>1
<1>2. CASE ~NeedAutoSwitch
  BY <1>2 DEF AutoSwitchPort
<1>. QED
  BY <1>1, <1>2

LEMMA StartKeeps ==
  ASSUME AudioInv, NEW took \in BOOLEAN, NEW again \in BOOLEAN, StartAudio(took, again)
  PROVE  AudioInv' /\ (OrderKept => OrderKept')
<1> DEFINE old == IF prioFile = NoFile THEN <<>> ELSE prioFile.types
           full == CompleteTypes(old)
<1>1. PICK new \in IF prioFile = NoFile THEN SetToSeqs(plugged) ELSE CardOrders(Usable, prioFile.ports) :
         /\ types' = full
         /\ ports' = IF prioFile = NoFile
                        THEN AddPorts(full, <<>>, new)
                        ELSE SortPorts(full, SetPorts(prioFile.types, prioFile.ports, Usable, new))
  BY Zenon DEF StartAudio
<1>2. /\ cards' = plugged /\ sink' = current
      /\ prioFile' = Priorities(types', ports')
      /\ promoted' = (promoted /\ prioFile # NoFile)
      /\ AutoSwitchPort(FALSE, took, again)
      /\ UNCHANGED <<plugged, disabled>>
  BY DEF StartAudio, Refresh
<1>3. plugged \in SUBSET Port /\ disabled \in SUBSET Port /\ Usable \in SUBSET Port
  BY DEF AudioInv, AudioTypes, Usable
<1>4. prioFile = NoFile \/ TypedFile(prioFile)
  BY DEF AudioInv, AudioTypes
<1>5. old \in Seq(TypeIndex)
  BY <1>4 DEF TypedFile
<1>6. full \in Seq(TypeIndex) /\ Full(full) /\ full # <<>>
  BY <1>5, CompleteFacts
<1>7. /\ ports' \in Seq(Port)
      /\ ToSet(ports') \in {Usable, plugged}
      /\ OrderKept => IsInjective(ports') /\ (~promoted' => SortedBy(full, ports'))
  <2>1. CASE prioFile = NoFile
    <3> DEFINE e == <<>>
    <3>1. new \in SetToSeqs(plugged) /\ ports' = AddPorts(full, e, new)
      BY <1>1, <2>1
    <3>2. new \in Seq(Port) /\ IsInjective(new) /\ ToSet(new) = plugged
      BY <1>3, <3>1, OrderOfPorts
    <3>3. e \in Seq(Port) /\ ToSet(e) = {} /\ IsInjective(e) /\ SortedBy(full, e)
      BY EmptyList
    <3> HIDE DEF e, full
    <3>4. Added(full, e, ToSet(new), ports')
      BY <1>6, <3>1, <3>2, <3>3, AddPortsFacts
    <3>. QED
      BY <3>2, <3>3, <3>4 DEF Added
  <2>2. CASE prioFile # NoFile
    <3> DEFINE ts == prioFile.types
               ps == prioFile.ports
               s == SetPorts(ts, ps, Usable, new)
    <3>1. new \in CardOrders(Usable, ps) /\ ports' = SortPorts(full, s) /\ old = ts
      BY <1>1, <2>2
    <3>2. ts \in Seq(TypeIndex) /\ ps \in Seq(Port)
      BY <1>4, <2>2 DEF TypedFile
    <3>3. OrderKept => /\ IsInjective(ps) /\ (~promoted => SortedBy(ts, ps))
                       /\ \A t, u \in TypeIndex \ ToSet(ts) : t = u
      BY <2>2 DEF OrderKept, GoodFile
    <3> HIDE DEF ts, ps, old
    <3>4. /\ s \in Seq(Port) /\ ToSet(s) = Usable /\ (IsInjective(ps) => IsInjective(s))
          /\ SortedBy(ts, ps) => SortedBy(ts, s)
      BY <1>3, <3>1, <3>2, SetPortsFacts
    <3> HIDE DEF s
    <3>5. OrderKept => (SortedBy(full, s) <=> SortedBy(ts, s))
      BY <3>1, <3>2, <3>3, <3>4, CompleteSorted
    <3> HIDE DEF full
    <3>6. Rearranged(full, s, ports')
      BY <1>6, <3>1, <3>4, SortRearranges
    <3>7. ~promoted' => ~promoted
      BY <1>2, <2>2
    <3>. QED
      BY <3>3, <3>4, <3>5, <3>6, <3>7 DEF Rearranged
  <2>. QED
    BY <2>1, <2>2
<1> HIDE DEF full
<1>8. TypedFile(prioFile') /\ (OrderKept => OrderKept')
  BY <1>1, <1>2, <1>6, <1>7, SavedKeeps
<1>9. AudioTypes'
  BY <1>1, <1>2, <1>3, <1>6, <1>7, <1>8 DEF AudioTypes
<1>10. ListKept'
  BY <1>1, <1>2, <1>6, <1>7 DEF ListKept, Usable
<1>11. CacheFresh'
  BY <1>2, SwitchTells DEF CacheFresh
<1>. QED
  BY <1>8, <1>9, <1>10, <1>11 DEF AudioInv

LEMMA HandleKeeps ==
  ASSUME AudioInv, NEW took \in BOOLEAN, NEW again \in BOOLEAN, HandleEvent(took, again)
  PROVE  AudioInv' /\ (OrderKept => OrderKept')
<1>1. PICK new \in CardOrders(Usable, ports) : ports' = SetPorts(types, ports, Usable, new)
  BY Zenon DEF HandleEvent
<1>2. /\ Running /\ cards' = plugged /\ sink' = current
      /\ prioFile' = Priorities(types', ports')
      /\ AutoSwitchPort(FALSE, took, again)
      /\ UNCHANGED <<types, plugged, disabled, promoted>>
  BY DEF HandleEvent, Refresh, Running
<1>3. /\ types \in Seq(TypeIndex) /\ ports \in Seq(Port) /\ Full(types)
      /\ plugged \in SUBSET Port /\ disabled \in SUBSET Port /\ Usable \in SUBSET Port
  BY <1>2 DEF AudioInv, AudioTypes, ListKept, Usable
<1>4. /\ ports' \in Seq(Port) /\ ToSet(ports') = Usable /\ (IsInjective(ports) => IsInjective(ports'))
      /\ SortedBy(types, ports) => SortedBy(types, ports')
  BY <1>1, <1>3, SetPortsFacts
<1>5. OrderKept => IsInjective(ports) /\ (~promoted => SortedBy(types, ports))
  BY <1>2 DEF OrderKept
<1>6. TypedFile(prioFile') /\ (OrderKept => OrderKept')
  BY <1>2, <1>3, <1>4, <1>5, SavedKeeps
<1>7. AudioTypes'
  BY <1>2, <1>3, <1>4, <1>6 DEF AudioTypes
<1>8. ListKept'
  BY <1>2, <1>3, <1>4 DEF ListKept, Usable
<1>9. CacheFresh'
  BY <1>2, SwitchTells DEF CacheFresh
<1>. QED
  BY <1>6, <1>7, <1>8, <1>9 DEF AudioInv

LEMMA EnableKeeps ==
  ASSUME AudioInv, NEW p \in Port, NEW took \in BOOLEAN, NEW again \in BOOLEAN,
         SetPortEnabled(p, took, again)
  PROVE  AudioInv' /\ (OrderKept => OrderKept')
<1> DEFINE U == cards \ disabled'
<1>1. PICK new \in CardOrders(U, ports) : ports' = SetPorts(types, ports, U, new)
  BY Zenon DEF SetPortEnabled
<1>2. /\ Running
      /\ disabled' = IF p \in disabled THEN disabled \ {p} ELSE disabled \cup {p}
      /\ AutoSwitchPort(audioEvent, took, again)
      /\ UNCHANGED <<types, prioFile, plugged, promoted, cards, sink>>
  BY DEF SetPortEnabled, Running, cacheVars
<1>3. /\ types \in Seq(TypeIndex) /\ ports \in Seq(Port) /\ Full(types)
      /\ plugged \in SUBSET Port /\ disabled' \in SUBSET Port /\ cards \in SUBSET Port
      /\ U \in SUBSET Port /\ (prioFile = NoFile \/ TypedFile(prioFile))
  BY <1>2 DEF AudioInv, AudioTypes, ListKept
<1> HIDE DEF U
<1>4. /\ ports' \in Seq(Port) /\ ToSet(ports') = U /\ (IsInjective(ports) => IsInjective(ports'))
      /\ SortedBy(types, ports) => SortedBy(types, ports')
  BY <1>1, <1>3, SetPortsFacts
<1>5. AudioTypes'
  BY <1>2, <1>3, <1>4 DEF AudioTypes
<1>6. OrderKept => OrderKept'
  BY <1>2, <1>4 DEF OrderKept, Running
<1>7. ListKept'
  BY <1>2, <1>3, <1>4 DEF ListKept, U
<1>8. CacheFresh'
  BY <1>2, SwitchTells DEF CacheFresh, AudioInv, Running
<1>. QED
  BY <1>5, <1>6, <1>7, <1>8 DEF AudioInv

LEMMA ReplugKeeps ==
  ASSUME AudioInv, NEW p \in Port, Replug(p)
  PROVE  AudioInv' /\ (OrderKept => OrderKept')
<1>1. /\ plugged' = IF p \in plugged THEN plugged \ {p} ELSE plugged \cup {p}
      /\ audioEvent' = TRUE
      /\ UNCHANGED <<types, ports, prioFile, disabled, cards, sink, promoted>>
  BY DEF Replug, policyVars, cacheVars
<1>2. AudioTypes'
  BY <1>1 DEF AudioInv, AudioTypes
<1>3. OrderKept => OrderKept'
  BY <1>1 DEF OrderKept, Running
<1>4. ListKept'
  BY <1>1 DEF AudioInv, ListKept, Running
<1>5. CacheFresh'
  BY <1>1 DEF CacheFresh
<1>. QED
  BY <1>2, <1>3, <1>4, <1>5 DEF AudioInv

\* SetPort: the chosen port is the first of the list, if the list has it.
LEMMA ChoiceKeeps ==
  ASSUME AudioInv, NEW p \in Port, NEW took \in BOOLEAN, SetPort(p, took)
  PROVE  /\ AudioInv' /\ (OrderKept => OrderKept')
         /\ Contains(ports, p) => Head(ports') = p
         /\ ~Contains(ports, p) => ports' = ports
<1> DEFINE after == SetTheFirstPort(types, ports, p)
<1>1. /\ Running
      /\ Contains(ports, p) => types' = after.types /\ ports' = after.ports /\ prioFile' = after
      /\ ~Contains(ports, p) => /\ types' = Priorities(types, ports).types
                                /\ ports' = Priorities(types, ports).ports
                                /\ prioFile' = Priorities(types, ports)
      /\ audioEvent' = (audioEvent \/ current' # current)
      /\ UNCHANGED <<plugged, disabled, cards, sink, promoted>>
  BY DEF SetPort, Running, cacheVars
<1>2. /\ types \in Seq(TypeIndex) /\ ports \in Seq(Port) /\ Full(types)
      /\ {plugged, disabled, cards} \subseteq SUBSET Port
      /\ ToSet(ports) \in {cards \ disabled, cards}
  BY <1>1 DEF AudioInv, AudioTypes, ListKept
<1>3. /\ types' \in Seq(TypeIndex) /\ Full(types') /\ ports' \in Seq(Port)
      /\ IsInjective(ports) => IsInjective(ports')
      /\ SortedBy(types, ports) => SortedBy(types', ports')
      /\ ToSet(ports') = ToSet(ports)
      /\ prioFile' = Priorities(types', ports')
      /\ Contains(ports, p) => Head(ports') = p
      /\ ~Contains(ports, p) => ports' = ports
  <2>1. CASE Contains(ports, p)
    <3>1. PutFirst(types, ports, p, after)
      BY <1>2, <2>1, FirstPortFacts
    <3>2. PortType[p] \in TypeIndex
      BY AudioAssumption
    <3> HIDE DEF after
    <3>3. types' = SetTheFirstType(types, PortType[p]) /\ types' = after.types
      BY <1>1, <2>1, <3>1 DEF PutFirst
    <3>4. types' \in Seq(TypeIndex) /\ Full(types')
      BY <1>2, <3>2, <3>3, FirstTypeFacts
    <3>5. /\ ports' \in Seq(Port) /\ ToSet(ports') = ToSet(ports) /\ Head(ports') = p
          /\ IsInjective(ports) => IsInjective(ports')
          /\ SortedBy(types, ports) => SortedBy(types', ports')
      BY <1>1, <1>2, <2>1, <3>1 DEF PutFirst
    <3>6. prioFile' = Priorities(types', ports')
      BY <1>1, <2>1, <3>1, <3>3 DEF PutFirst
    <3>. QED
      BY <2>1, <3>4, <3>5, <3>6
  <2>2. CASE ~Contains(ports, p)
    <3>1. types' = types /\ ports' = ports
      BY <1>1, <2>2 DEF Priorities
    <3>. QED
      BY <1>1, <1>2, <2>2, <3>1
  <2>. QED
    BY <2>1, <2>2
<1>4. TypedFile(prioFile') /\ (OrderKept => OrderKept')
  <2>1. OrderKept => IsInjective(ports') /\ (~promoted' => SortedBy(types', ports'))
    BY <1>1, <1>3 DEF OrderKept
  <2>. QED
    BY <1>3, <2>1, SavedKeeps
<1>5. AudioTypes'
  BY <1>1, <1>2, <1>3, <1>4 DEF AudioTypes
<1>6. ListKept'
  BY <1>1, <1>2, <1>3 DEF ListKept
<1>7. CacheFresh'
  BY <1>1 DEF AudioInv, CacheFresh
<1>. QED
  BY <1>3, <1>4, <1>5, <1>6, <1>7 DEF AudioInv

LEMMA PromoteKeeps ==
  ASSUME AudioInv, SetBluetoothAudioMode
  PROVE  AudioInv' /\ (OrderKept => OrderKept')
<1>1. /\ Running /\ types' = SetTheFirstType(types, Bluetooth) /\ promoted' = TRUE /\ audioEvent' = TRUE
      /\ UNCHANGED <<ports, prioFile, plugged, disabled, cards, sink>>
  BY DEF SetBluetoothAudioMode, Running, cacheVars
<1>2. types \in Seq(TypeIndex) /\ Full(types) /\ Bluetooth \in TypeIndex
  BY <1>1, AudioAssumption DEF AudioInv, AudioTypes, ListKept
<1>3. types' \in Seq(TypeIndex) /\ Full(types')
  BY <1>1, <1>2, FirstTypeFacts
<1>4. AudioTypes'
  BY <1>1, <1>3 DEF AudioInv, AudioTypes
<1>5. OrderKept => OrderKept'
  BY <1>1 DEF OrderKept
<1>6. ListKept'
  BY <1>1, <1>3 DEF AudioInv, ListKept
<1>7. CacheFresh'
  BY <1>1 DEF CacheFresh
<1>. QED
  BY <1>4, <1>5, <1>6, <1>7 DEF AudioInv

LEMMA SettingKeeps ==
  ASSUME AudioInv, AutoSwitchChanged
  PROVE  AudioInv' /\ (OrderKept => OrderKept')
<1>1. UNCHANGED <<types, ports, prioFile, plugged, disabled, current, cards, sink, audioEvent, promoted>>
  BY DEF AutoSwitchChanged, policyVars, cacheVars
<1>2. AudioTypes' /\ ListKept' /\ CacheFresh' /\ (OrderKept => OrderKept')
  BY <1>1 DEF AudioInv, AudioTypes, ListKept, CacheFresh, OrderKept, Running
<1>. QED
  BY <1>2 DEF AudioInv

LEMMA EndKeeps ==
  ASSUME AudioInv, EndDaemon
  PROVE  AudioInv' /\ (OrderKept => OrderKept')
<1>1. /\ ~Running' /\ types' = <<>> /\ ports' = <<>> /\ cards' = {}
      /\ prioFile' \in {prioFile, NoFile}
      /\ UNCHANGED <<plugged, disabled, promoted>>
  BY DEF EndDaemon, Running
<1>2. AudioTypes'
  BY <1>1 DEF AudioInv, AudioTypes, NoFile, Priorities
<1>3. OrderKept => OrderKept'
  BY <1>1, EmptyList DEF OrderKept, NoFile, Priorities
<1>4. ListKept' /\ CacheFresh'
  BY <1>1 DEF ListKept, CacheFresh
<1>. QED
  BY <1>2, <1>3, <1>4 DEF AudioInv

LEMMA AudioInvStep ==
  ASSUME AudioInv, [AudioNext]_audioVars
  PROVE  AudioInv' /\ (OrderKept => OrderKept')
<1>1. CASE UNCHANGED audioVars
  <2>1. UNCHANGED <<types, ports, prioFile, plugged, disabled, current, cards, sink, audioEvent, promoted>>
    BY <1>1 DEF audioVars
  <2>2. AudioTypes' /\ ListKept' /\ CacheFresh' /\ (OrderKept => OrderKept')
    BY <2>1 DEF AudioInv, AudioTypes, ListKept, CacheFresh, OrderKept, Running
  <2>. QED
    BY <2>2 DEF AudioInv
<1>2. CASE AudioNext
  BY <1>2, StartKeeps, HandleKeeps, EnableKeeps, ReplugKeeps, ChoiceKeeps, PromoteKeeps,
     SettingKeeps, EndKeeps DEF AudioNext
<1>. QED
  BY <1>1, <1>2

LEMMA InOrderImplies == AudioInv /\ OrderKept => PrioritiesKept
<1> SUFFICES ASSUME AudioInv, OrderKept PROVE PrioritiesKept
  OBVIOUS
<1>1. types \in Seq(TypeIndex) /\ ports \in Seq(Port)
  BY DEF AudioInv, AudioTypes
<1>2. ASSUME Running, ~promoted PROVE InTypeOrder(types, ports)
  <2>1. Full(types) /\ SortedBy(types, ports)
    BY <1>2 DEF AudioInv, ListKept, OrderKept
  <2>. QED
    BY <1>1, <2>1, OrderByRank
<1>3. ASSUME Running, ~audioEvent PROVE ToSet(ports) \in {Usable, plugged} /\ IsInjective(ports)
  BY <1>3 DEF AudioInv, ListKept, CacheFresh, OrderKept, Usable
<1>. QED
  BY <1>2, <1>3 DEF PrioritiesKept, PrioritySorted, PortsListed

(* The list has each usable port once and stands in the order of the port  *)
(* types: for every set of ports and types and every history of hot-plugs, *)
(* choices of the user, refused switches and restarts, if the files that   *)
(* earlier versions left are in order for their types and lack at most one *)
(* type.                                                                   *)
THEOREM PrioritiesAlwaysKept == OldFilesInOrder /\ AudioSpec => []PrioritiesKept
<1> DEFINE Inv == AudioInv /\ OrderKept
<1>1. OldFilesInOrder /\ AudioInit => Inv
  BY AudioInvInit
<1>2. Inv /\ [AudioNext]_audioVars => Inv'
  BY AudioInvStep
<1>3. Inv => PrioritiesKept
  BY InOrderImplies
<1>. QED
  BY <1>1, <1>2, <1>3, PTL DEF AudioSpec

\* autoSwitchPort leaves the first port in use or refused, an event that
\* brings it back, or has given up on that port.
LEMMA SwitchSettles ==
  ASSUME NEW pending, NEW took \in BOOLEAN, NEW again \in BOOLEAN,
         AutoSwitchPort(pending, took, again), CacheFresh'
  PROVE  FirstPortUsed'
<1> SUFFICES ASSUME Running', ~audioEvent', ports' # <<>>, ~skipped'
             PROVE  \/ Head(ports') \in {current', refused'}
                    \/ switchPort' = Head(ports') /\ switchCount' >= SwitchMax
  BY DEF FirstPortUsed
<1>0. autoSwitch'
  BY DEF AutoSwitchPort
<1>1. CASE NeedAutoSwitch
  <2>1. /\ audioEvent' = (pending \/ took \/ again)
        /\ refused' = IF took THEN NoPort ELSE Head(ports')
    BY <1>1 DEF AutoSwitchPort
  <2>2. refused' = Head(ports')
    BY <2>1
  <2>. QED
    BY <2>2
<1>2. CASE ~NeedAutoSwitch
  <2>1. UNCHANGED <<current, switchPort, switchCount, refused>>
    BY <1>2 DEF AutoSwitchPort, switchVars
  <2>2. sink' = Head(ports') \/ (switchCount >= SwitchMax /\ switchPort = Head(ports'))
    BY <1>0, <1>2 DEF NeedAutoSwitch
  <2>3. sink' = current'
    BY DEF CacheFresh
  <2>. QED
    BY <2>1, <2>2, <2>3
<1>. QED
  BY <1>1, <1>2

LEMMA FirstPortStep ==
  ASSUME AudioInv, AudioInv', FirstPortUsed, [AudioNext]_audioVars
  PROVE  FirstPortUsed'
<1>1. CASE UNCHANGED audioVars
  BY <1>1 DEF audioVars, settingVars, FirstPortUsed, Running
<1>2. ASSUME NEW took \in BOOLEAN, NEW again \in BOOLEAN,
             \/ StartAudio(took, again) \/ HandleEvent(took, again)
             \/ \E p \in Port : SetPortEnabled(p, took, again)
      PROVE  FirstPortUsed'
  <2>1. \E pending \in {FALSE, audioEvent} : AutoSwitchPort(pending, took, again)
    BY <1>2, Zenon DEF StartAudio, HandleEvent, SetPortEnabled
  <2>2. CacheFresh'
    BY DEF AudioInv
  <2>. QED
    BY <2>1, <2>2, SwitchSettles
<1>3. ASSUME NEW p \in Port, Replug(p) PROVE FirstPortUsed'
  BY <1>3 DEF Replug, FirstPortUsed
<1>4. CASE SetBluetoothAudioMode
  BY <1>4 DEF SetBluetoothAudioMode, FirstPortUsed
<1>5. CASE EndDaemon
  BY <1>5 DEF EndDaemon, FirstPortUsed, Running
<1>6. ASSUME NEW p \in Port, NEW took \in BOOLEAN, SetPort(p, took) PROVE FirstPortUsed'
  <2>1. /\ Contains(ports, p) => Head(ports') = p
        /\ ~Contains(ports, p) => ports' = ports
    BY <1>6, ChoiceKeeps
  <2>2. /\ Running
        /\ current' = IF took THEN p ELSE current
        /\ audioEvent' = (audioEvent \/ current' # current)
        /\ refused' = IF took \/ ~Contains(ports, p) THEN refused ELSE p
        /\ UNCHANGED <<switchPort, switchCount, skipped>>
    BY <1>6 DEF SetPort, Running, settingVars
  <2>. QED
    BY <2>1, <2>2 DEF FirstPortUsed
<1>7. CASE AutoSwitchChanged
  BY <1>7 DEF AutoSwitchChanged, FirstPortUsed, Running, policyVars, switchVars
<1>. QED
  BY <1>1, <1>2, <1>3, <1>4, <1>5, <1>6, <1>7 DEF AudioNext

(* The first port of the list is in use when every event of PulseAudio is  *)
(* handled, unless PulseAudio refused it, the limit of switches is reached *)
(* or autoSwitchPort was off: for every set of ports and types, every      *)
(* limit, whatever lists the policy comes to and although it acts on what  *)
(* it has read last.                                                       *)
THEOREM FirstPortAlwaysUsed == AudioSpec => []FirstPortUsed
<1> DEFINE Inv == AudioInv /\ FirstPortUsed
<1>1. AudioInit => Inv
  <2>1. AudioInit => FirstPortUsed
    BY DEF AudioInit, FirstPortUsed, Running
  <2>. QED
    BY <2>1, AudioInvInit
<1>2. Inv /\ [AudioNext]_audioVars => Inv'
  BY AudioInvStep, FirstPortStep
<1>3. Inv => FirstPortUsed
  OBVIOUS
<1>. QED
  BY <1>1, <1>2, <1>3, PTL DEF AudioSpec

-----------------------------------------------------------------------------
(* The record of launched applications.                                    *)
Begun == startPc \in {"sub", "done"}

RecTypes ==
  /\ launchedMap \in [App -> Status] /\ removedLaunchedMap \in [App -> Status]
  /\ statusFile \in [App -> Status] \cup {NoStatusFile}
  /\ saver.tmp \in [App -> Status] /\ saver = [pc |-> saver.pc, tmp |-> saver.tmp]
  /\ startPc \in {"root", "read", "sub", "done"}
  /\ everLaunched \subseteq App
  /\ ~Begun => saver.pc = "idle" /\ uninstallMap = {} /\ ~unasked

\* How far the map has come on its way to the file, if it has not changed
\* behind the save.
SaveFollows ==
  ~late => /\ saver.pc = "ending" => statusFile = saver.tmp
           /\ ~unasked => /\ saver.pc = "written" => saver.tmp = launchedMap
                          /\ saver.pc = "ending" => statusFile = launchedMap
                          /\ saver.pc = "idle" /\ Begun => statusFile = launchedMap

\* Where it is recorded that an application was launched: in the map or,
\* while its file is away, among the removed; in the file after a kill.
LaunchedKept ==
  \A a \in everLaunched :
     /\ a \notin uninstallMap
     /\ Begun => \/ launchedMap[a] = "launched"
                 \/ launchedMap[a] = "none" /\ removedLaunchedMap[a] = "launched"
     /\ ~Begun => launchedMap[a] = "none" /\ Filed(a) = "launched"

RecInv == RecTypes /\ SaveFollows /\ LaunchedKept

\* The file has the launches of the last save that was completed.
FileWhole == filed = {a \in App : Filed(a) = "launched"}

LEMMA NoFileNoMap == NoStatusFile \notin [App -> Status]
<1> SUFFICES ASSUME NoStatusFile \in [App -> Status] PROVE FALSE
  OBVIOUS
<1>1. NoStatusFile.missing = "no file" /\ DOMAIN NoStatusFile = {"missing"}
  BY DEF NoStatusFile
<1>2. "missing" \in App
  BY <1>1
<1>3. NoStatusFile["missing"] \in Status
  BY <1>2
<1> QED
  BY <1>1, <1>3 DEF Status

LEMMA SaverMade ==
  ASSUME NEW s, s = [pc |-> s.pc, tmp |-> s.tmp], NEW pc
  PROVE  LET t == [s EXCEPT !.pc = pc]
         IN t.pc = pc /\ t.tmp = s.tmp /\ t = [pc |-> t.pc, tmp |-> t.tmp]
<1> DEFINE g == [pc |-> s.pc, tmp |-> s.tmp]
<1>1. [g EXCEPT !.pc = pc] = [pc |-> pc, tmp |-> s.tmp]
  OBVIOUS
<1> QED
  BY <1>1

LEMMA IdleSaverFacts ==
  /\ IdleSaver.pc = "idle" /\ IdleSaver.tmp = NoStatus /\ NoStatus \in [App -> Status]
  /\ IdleSaver = [pc |-> IdleSaver.pc, tmp |-> IdleSaver.tmp]
BY DEF IdleSaver, NoStatus, Status

LEMMA RecInvInit == RecInit => RecInv
<1> SUFFICES ASSUME RecInit PROVE RecInv
  OBVIOUS
<1>1. statusFile \in [App -> Status] \cup {NoStatusFile}
  BY DEF RecInit, Status
<1> QED
  BY <1>1, IdleSaverFacts DEF RecInit, RecInv, RecTypes, SaveFollows, LaunchedKept, Begun

\* The maps change, and a save is asked for.
LEMMA RequestKeeps ==
  ASSUME RecInv, RequestSave, startPc \in {"read", "sub", "done"}, startPc' \in {"sub", "done"},
         UNCHANGED statusFile,
         launchedMap' \in [App -> Status], removedLaunchedMap' \in [App -> Status],
         everLaunched' \subseteq App, LaunchedKept'
  PROVE  RecInv'
<1>1. /\ saver'.tmp = saver.tmp /\ saver' = [pc |-> saver'.pc, tmp |-> saver'.tmp]
      /\ saver'.pc = IF saver.pc = "idle" THEN "timer" ELSE saver.pc
  BY SaverMade DEF RequestSave, RecInv, RecTypes
<1>2. RecTypes'
  BY <1>1 DEF RecInv, RecTypes, Begun
<1>3. SaveFollows'
  BY <1>1 DEF RequestSave, RecInv, SaveFollows
<1> QED
  BY <1>2, <1>3 DEF RecInv

\* The maps stay; so does what is known of them.
LEMMA MapsStay ==
  ASSUME RecInv, UNCHANGED <<launchedMap, removedLaunchedMap, unasked, statusFile, saver, startPc, late>>,
         everLaunched' \subseteq App, LaunchedKept', ~Begun => uninstallMap' = {}
  PROVE  RecInv'
BY DEF RecInv, RecTypes, SaveFollows, Begun

LEMMA MarkLaunchedKeeps == ASSUME RecInv, NEW a \in App, MarkLaunched(a) PROVE RecInv'
<1>1. /\ startPc = "done" /\ RequestSave /\ UNCHANGED <<removedLaunchedMap, uninstallMap, statusFile, startPc>>
      /\ launchedMap' = [launchedMap EXCEPT ![a] = "launched"]
      /\ everLaunched' = everLaunched \cup ({a} \ uninstallMap)
  BY DEF MarkLaunched
<1>2. /\ launchedMap' \in [App -> Status] /\ launchedMap'[a] = "launched"
      /\ \A b \in App : b # a => launchedMap'[b] = launchedMap[b]
  BY <1>1 DEF RecInv, RecTypes, Status
<1>3. everLaunched' \subseteq App
  BY <1>1 DEF RecInv, RecTypes
<1>4. LaunchedKept'
  BY <1>1, <1>2 DEF RecInv, RecTypes, LaunchedKept, Begun
<1>5. removedLaunchedMap' \in [App -> Status]
  BY <1>1 DEF RecInv, RecTypes
<1> QED
  BY <1>1, <1>2, <1>3, <1>4, <1>5, RequestKeeps

LEMMA UninstallHintKeeps == ASSUME RecInv, NEW a \in App, UninstallHint(a) PROVE RecInv'
<1>1. /\ startPc = "done" /\ uninstallMap' = uninstallMap \cup {a} /\ everLaunched' = everLaunched \ {a}
      /\ UNCHANGED <<launchedMap, removedLaunchedMap, unasked, statusFile, saver, startPc, late>>
  BY DEF UninstallHint
<1>2. everLaunched' \subseteq App /\ LaunchedKept'
  BY <1>1 DEF RecInv, RecTypes, LaunchedKept, Begun
<1> QED
  BY <1>1, <1>2, MapsStay DEF Begun

LEMMA AddedEventKeeps ==
  ASSUME RecInv, startPc = "done", UNCHANGED <<startPc, statusFile>>, NEW a, HandleAdded(a)
  PROVE  RecInv'
<1>1. /\ uninstallMap' = uninstallMap \ {a} /\ everLaunched' = everLaunched /\ everLaunched' \subseteq App
      /\ UNCHANGED unasked
  BY DEF HandleAdded, RecInv, RecTypes
<1>2. CASE launchedMap[a] = "none"
  <2> DEFINE new == IF removedLaunchedMap[a] = "launched" THEN "launched" ELSE "new"
  <2>1. /\ launchedMap' = [launchedMap EXCEPT ![a] = new]
        /\ removedLaunchedMap' = [removedLaunchedMap EXCEPT ![a] = "none"] /\ RequestSave
    BY <1>2 DEF HandleAdded
  <2>2. new \in Status /\ "none" \in Status
    BY DEF Status
  <2>3. /\ launchedMap' \in [App -> Status] /\ removedLaunchedMap' \in [App -> Status]
        /\ \A b \in App : /\ launchedMap'[b] = IF b = a THEN new ELSE launchedMap[b]
                          /\ b # a => removedLaunchedMap'[b] = removedLaunchedMap[b]
    <3> HIDE DEF new
    <3> QED
      BY <2>1, <2>2 DEF RecInv, RecTypes
  <2>4. LaunchedKept'
    BY <1>1, <1>2, <2>3 DEF RecInv, RecTypes, LaunchedKept, Begun
  <2> QED
    BY <1>1, <2>1, <2>3, <2>4, RequestKeeps
<1>3. CASE launchedMap[a] # "none"
  <2>1. UNCHANGED <<launchedMap, removedLaunchedMap, saver, late>>
    BY <1>3 DEF HandleAdded
  <2>2. LaunchedKept'
    BY <1>1, <2>1 DEF RecInv, LaunchedKept, Begun
  <2> QED
    BY <1>1, <2>1, <2>2, MapsStay DEF Begun
<1> QED
  BY <1>2, <1>3

LEMMA RemovedEventKeeps ==
  ASSUME RecInv, startPc = "done", UNCHANGED <<startPc, statusFile>>, NEW a, HandleRemoved(a)
  PROVE  RecInv'
<1>1. UNCHANGED <<uninstallMap, unasked, everLaunched>> /\ everLaunched' \subseteq App
  BY DEF HandleRemoved, RecInv, RecTypes
<1>2. CASE launchedMap[a] # "none"
  <2>1. /\ launchedMap' = [launchedMap EXCEPT ![a] = "none"] /\ RequestSave
        /\ removedLaunchedMap' = IF a \in uninstallMap THEN removedLaunchedMap
                                 ELSE [removedLaunchedMap EXCEPT ![a] = launchedMap[a]]
    BY <1>2 DEF HandleRemoved
  <2>2. /\ launchedMap' \in [App -> Status]
        /\ \A b \in App : launchedMap'[b] = IF b = a THEN "none" ELSE launchedMap[b]
    BY <2>1 DEF RecInv, RecTypes, Status
  <2>3. /\ removedLaunchedMap' \in [App -> Status]
        /\ \A b \in App : /\ b # a => removedLaunchedMap'[b] = removedLaunchedMap[b]
                          /\ b = a /\ b \notin uninstallMap => removedLaunchedMap'[b] = launchedMap[b]
    <3>1. CASE a \in uninstallMap
      BY <2>1, <3>1 DEF RecInv, RecTypes
    <3>2. CASE a \notin uninstallMap
      BY <2>1, <3>2 DEF RecInv, RecTypes
    <3> QED
      BY <3>1, <3>2
  <2>4. LaunchedKept'
    BY <1>1, <1>2, <2>2, <2>3 DEF RecInv, RecTypes, LaunchedKept, Begun
  <2> QED
    BY <1>1, <2>1, <2>2, <2>3, <2>4, RequestKeeps
<1>3. CASE launchedMap[a] = "none"
  <2>1. UNCHANGED <<launchedMap, removedLaunchedMap, saver, late>>
    BY <1>3 DEF HandleRemoved
  <2>2. LaunchedKept'
    BY <1>1, <2>1 DEF RecInv, LaunchedKept, Begun
  <2> QED
    BY <1>1, <2>1, <2>2, MapsStay DEF Begun
<1> QED
  BY <1>2, <1>3

LEMMA DirRemovedEventKeeps ==
  ASSUME RecInv, startPc = "done", ~unasked, UNCHANGED <<startPc, statusFile>>, HandleDirRemoved
  PROVE  RecInv'
<1>1. /\ everLaunched' = everLaunched \ SubApp
      /\ launchedMap' = [a \in App |-> IF a \in SubApp THEN "none" ELSE launchedMap[a]]
      /\ unasked' = \E a \in SubApp : launchedMap[a] # "none"
      /\ UNCHANGED <<removedLaunchedMap, uninstallMap, saver, late>>
  BY DEF HandleDirRemoved
<1>2. launchedMap' \in [App -> Status] /\ RecTypes'
  BY <1>1 DEF RecInv, RecTypes, Status, Begun
<1>3. LaunchedKept'
  BY <1>1 DEF RecInv, RecTypes, LaunchedKept, Begun
<1>4. ~unasked' => launchedMap' = launchedMap
  <2> SUFFICES ASSUME ~unasked' PROVE launchedMap' = launchedMap
    OBVIOUS
  <2>1. \A a \in App : launchedMap'[a] = launchedMap[a]
    BY <1>1
  <2> QED
    BY <1>2, <2>1 DEF RecInv, RecTypes
<1>5. SaveFollows'
  BY <1>1, <1>4 DEF RecInv, SaveFollows, Begun
<1> QED
  BY <1>2, <1>3, <1>5 DEF RecInv

LEMMA SaveKeeps == ASSUME RecInv, Save PROVE RecInv'
<1>1. /\ UNCHANGED <<launchedMap, removedLaunchedMap, uninstallMap, unasked, startPc, everLaunched>>
      /\ SaveWrite \/ SaveRename \/ SaveEnds
  BY DEF Save, mapVars
<1>2. LaunchedKept'
  <2>1. Begun /\ Begun'
    BY <1>1 DEF RecInv, RecTypes, SaveWrite, SaveRename, SaveEnds, Begun
  <2> QED
    BY <1>1, <2>1 DEF RecInv, LaunchedKept
<1>3. CASE SaveWrite
  <2>1. saver'.pc = "written" /\ saver'.tmp = launchedMap /\ saver' = [pc |-> saver'.pc, tmp |-> saver'.tmp]
    BY <1>3 DEF SaveWrite
  <2>2. saver.pc = "timer" /\ UNCHANGED statusFile
    BY <1>3 DEF SaveWrite
  <2> QED
    BY <1>1, <1>2, <2>1, <2>2 DEF RecInv, RecTypes, SaveFollows, Begun
<1>4. CASE SaveRename
  <2>1. /\ saver'.pc = "ending" /\ saver'.tmp = saver.tmp
        /\ saver' = [pc |-> saver'.pc, tmp |-> saver'.tmp]
    BY <1>4, SaverMade DEF SaveRename, RecInv, RecTypes
  <2>2. saver.pc = "written" /\ statusFile' = saver.tmp /\ UNCHANGED late
    BY <1>4 DEF SaveRename
  <2> QED
    BY <1>1, <1>2, <2>1, <2>2 DEF RecInv, RecTypes, SaveFollows, Begun
<1>5. CASE SaveEnds
  <2>1. saver.pc = "ending" /\ saver' = IdleSaver /\ UNCHANGED <<statusFile, late>>
    BY <1>5 DEF SaveEnds
  <2>2. RecTypes'
    BY <1>1, <2>1, IdleSaverFacts DEF RecInv, RecTypes, Begun
  <2> QED
    BY <1>1, <1>2, <2>1, <2>2, IdleSaverFacts DEF RecInv, SaveFollows, Begun
<1> QED
  BY <1>1, <1>3, <1>4, <1>5

LEMMA SaveFailsKeeps == ASSUME RecInv, SaveFails PROVE RecInv'
<1>1. /\ saver.pc \in {"timer", "written"} /\ saver' = [saver EXCEPT !.pc = "ending"] /\ late' = TRUE
      /\ UNCHANGED <<launchedMap, removedLaunchedMap, uninstallMap, unasked, statusFile, startPc,
                     everLaunched>>
  BY DEF SaveFails, mapVars
<1>2. saver'.pc = "ending" /\ saver'.tmp = saver.tmp /\ saver' = [pc |-> saver'.pc, tmp |-> saver'.tmp]
  BY <1>1, SaverMade DEF RecInv, RecTypes
<1> QED
  BY <1>1, <1>2 DEF RecInv, RecTypes, SaveFollows, LaunchedKept, Begun, Filed

LEMMA ReadRootKeeps == ASSUME RecInv, ReadRoot PROVE RecInv'
<1>1. /\ startPc = "read" /\ startPc' = "sub" /\ launchedMap' = InitAppLaunchedMap
      /\ IF launchedMap' # statusFile THEN RequestSave ELSE UNCHANGED <<saver, late>>
      /\ everLaunched' = (everLaunched \cap desktop) \cup {a \in App : launchedMap'[a] = "launched"}
      /\ UNCHANGED <<removedLaunchedMap, uninstallMap, statusFile>>
  BY DEF ReadRoot
<1>2. launchedMap' \in [App -> Status]
  <2>1. \A a \in App : statusFile = NoStatusFile \/ statusFile[a] \in Status
    BY DEF RecInv, RecTypes
  <2>. QED
    BY <1>1, <2>1 DEF InitAppLaunchedMap, Status
<1>3. everLaunched' \subseteq App /\ removedLaunchedMap' \in [App -> Status] /\ LaunchedKept'
  <2>1. \A a \in everLaunched : a \in App /\ Filed(a) = "launched"
    BY <1>1 DEF RecInv, RecTypes, LaunchedKept, Begun
  <2>2. \A a \in everLaunched \cap desktop : launchedMap'[a] = "launched"
    BY <1>1, <2>1 DEF InitAppLaunchedMap, Filed, RecInv, RecTypes
  <2> QED
    BY <1>1, <2>2 DEF RecInv, RecTypes, LaunchedKept, Begun
<1>4. CASE launchedMap' # statusFile
  BY <1>1, <1>2, <1>3, <1>4, RequestKeeps
<1>5. CASE launchedMap' = statusFile
  BY <1>1, <1>2, <1>3, <1>5 DEF RecInv, RecTypes, SaveFollows, Begun
<1> QED
  BY <1>4, <1>5

LEMMA KillKeeps == ASSUME RecInv, FileWhole, Kill PROVE RecInv'
<1>1. /\ startPc' = "root" /\ launchedMap' = NoStatus /\ removedLaunchedMap' = NoStatus
      /\ uninstallMap' = {} /\ unasked' = FALSE /\ saver' = IdleSaver /\ UNCHANGED statusFile
      /\ everLaunched' = {a \in everLaunched : Filed(a) = "launched"}
  BY DEF Kill, FileWhole, RecInv, RecTypes
<1>2. RecTypes' /\ SaveFollows'
  BY <1>1, IdleSaverFacts DEF RecInv, RecTypes, SaveFollows, Begun
<1>3. LaunchedKept'
  BY <1>1 DEF RecInv, RecTypes, LaunchedKept, Begun, NoStatus, Filed
<1> QED
  BY <1>2, <1>3 DEF RecInv

\* The file changes by a rename, whole.
LEMMA FileWholeInit == RecInit => FileWhole
BY DEF RecInit, FileWhole

LEMMA FileWholeStep == RecInv /\ FileWhole /\ [RecNext]_recVars => FileWhole'
<1> SUFFICES ASSUME RecInv, FileWhole, [RecNext]_recVars PROVE FileWhole'
  OBVIOUS
<1>1. ASSUME UNCHANGED <<statusFile, filed>> PROVE FileWhole'
  BY <1>1 DEF FileWhole, Filed
<1>2. CASE SaveRename
  <2>1. statusFile' = saver.tmp /\ filed' = {a \in App : saver.tmp[a] = "launched"}
    BY <1>2 DEF SaveRename
  <2>2. saver.tmp # NoStatusFile
    BY NoFileNoMap DEF RecInv, RecTypes
  <2> QED
    BY <2>1, <2>2 DEF FileWhole, Filed
<1>3. \/ UNCHANGED <<statusFile, filed>> \/ SaveRename
  <2>1. ASSUME NEW a \in App, CreateFile(a) \/ RemoveFile(a) \/ MarkLaunched(a) \/ UninstallHint(a)
        PROVE  UNCHANGED <<statusFile, filed>>
    BY <2>1 DEF CreateFile, RemoveFile, FileChange, MarkLaunched, UninstallHint
  <2>2. MoveDir \/ Notify \/ ListenEvents \/ RequestDirSave => UNCHANGED <<statusFile, filed>>
    BY DEF MoveDir, Notify, ListenEvents, RequestDirSave
  <2>3. Save => UNCHANGED <<statusFile, filed>> \/ SaveRename
    BY DEF Save, SaveWrite, SaveEnds
  <2>4. SaveFails \/ AddRoot \/ ReadRoot \/ WatchSub \/ Kill => UNCHANGED <<statusFile, filed>>
    BY DEF SaveFails, AddRoot, ReadRoot, WatchSub, Kill
  <2>5. UNCHANGED recVars => UNCHANGED <<statusFile, filed>>
    BY DEF recVars
  <2> QED
    BY <2>1, <2>2, <2>3, <2>4, <2>5 DEF RecNext
<1> QED
  BY <1>1, <1>2, <1>3

LEMMA RecStep == RecInv /\ FileWhole /\ [RecNext]_recVars => RecInv'
<1> SUFFICES ASSUME RecInv, FileWhole, [RecNext]_recVars PROVE RecInv'
  OBVIOUS
<1>1. ASSUME UNCHANGED <<mapVars, statusFile, saver, startPc, everLaunched, late>> PROVE RecInv'
  BY <1>1 DEF RecInv, RecTypes, SaveFollows, LaunchedKept, Begun, Filed, mapVars
<1>2. CASE UNCHANGED recVars
  BY <1>1, <1>2 DEF recVars, mapVars
<1>3. ASSUME NEW a \in App, CreateFile(a) \/ RemoveFile(a) PROVE RecInv'
  BY <1>1, <1>3 DEF CreateFile, RemoveFile, FileChange
<1>4. CASE MoveDir \/ Notify
  BY <1>1, <1>4 DEF MoveDir, Notify
<1>5. CASE ListenEvents
  <2>1. startPc = "done" /\ ~unasked /\ UNCHANGED <<startPc, statusFile>>
    BY <1>5 DEF ListenEvents
  <2> QED
    BY <1>5, <2>1, AddedEventKeeps, RemovedEventKeeps, DirRemovedEventKeeps DEF ListenEvents
<1>6. CASE AddRoot
  <2>1. /\ startPc = "root" /\ startPc' = "read"
        /\ UNCHANGED <<launchedMap, removedLaunchedMap, uninstallMap, unasked, statusFile, saver,
                       everLaunched, late>>
    BY <1>6 DEF AddRoot, mapVars
  <2> QED
    BY <2>1 DEF RecInv, RecTypes, SaveFollows, LaunchedKept, Begun, Filed
<1>7. CASE WatchSub
  <2>1. /\ startPc = "sub" /\ startPc' = "done"
        /\ UNCHANGED <<launchedMap, removedLaunchedMap, uninstallMap, unasked, statusFile, saver,
                       everLaunched, late>>
    BY <1>7 DEF WatchSub, mapVars
  <2> QED
    BY <2>1 DEF RecInv, RecTypes, SaveFollows, LaunchedKept, Begun, Filed
<1>8. CASE RequestDirSave /\ Begun
  <2>1. /\ RequestSave /\ startPc' \in {"sub", "done"} /\ startPc \in {"sub", "done"}
        /\ UNCHANGED <<launchedMap, removedLaunchedMap, uninstallMap, statusFile, startPc, everLaunched>>
    BY <1>8 DEF RequestDirSave, Begun
  <2>2. /\ launchedMap' \in [App -> Status] /\ removedLaunchedMap' \in [App -> Status]
        /\ everLaunched' \subseteq App /\ LaunchedKept'
    BY <2>1 DEF RecInv, RecTypes, LaunchedKept, Begun, Filed
  <2> QED
    BY <2>1, <2>2, RequestKeeps
<1>9. RequestDirSave => Begun
  BY DEF RequestDirSave, RecInv, RecTypes
<1> QED
  BY <1>2, <1>3, <1>4, <1>5, <1>6, <1>7, <1>8, <1>9, MarkLaunchedKeeps, UninstallHintKeeps, SaveKeeps,
     SaveFailsKeeps, ReadRootKeeps, KillKeeps DEF RecNext

(* What was launched is remembered and written down, for every set of      *)
(* applications: a file that is replaced does not make its application new *)
(* again, a kill does not either, wherever a save is, if a completed save  *)
(* had written the launch down and the desktop file is there when the      *)
(* directory is read again, and the status file has the status of the map  *)
(* when no save is pending or about to be asked for, unless the last save  *)
(* failed or missed a change.                                              *)
THEOREM RecordsAlwaysKept == RecSpec => []RecordsKept
<1>1. RecInv => RecordsKept
  <2> SUFFICES ASSUME RecInv PROVE RecordsKept
    OBVIOUS
  <2>1. LaunchedRemembered
    BY DEF RecInv, LaunchedKept, LaunchedRemembered
  <2>2. statusFile = launchedMap => statusFile # NoStatusFile
    BY NoFileNoMap DEF RecInv, RecTypes
  <2>3. FileHasStatus
    BY <2>2 DEF RecInv, SaveFollows, Begun, FileHasStatus, Filed
  <2> QED
    BY <2>1, <2>3 DEF RecordsKept
<1> QED
  BY <1>1, RecInvInit, RecStep, FileWholeInit, FileWholeStep, PTL DEF RecSpec

-----------------------------------------------------------------------------
(* The map and the files.                                                  *)

\* An event is about the application, or about the directory its file is in.
Touches(ev, a) == ev.app = a \/ (ev.app = "dir" /\ a \in SubApp)
LastOf(s, i, a) ==
  /\ i \in 1..Len(s) /\ Touches(s[i], a)
  /\ \A j \in 1..Len(s) : j > i => ~Touches(s[j], a)
Untouched(s, a) == \A i \in 1..Len(s) : ~Touches(s[i], a)

KernelEvent ==
  [op : {"create", "remove"}, app : App] \cup [op : {"moved", "appeared"}, app : {"dir"}]
ChanEvent == [op : {"added", "removed"}, app : App] \cup [op : {"dirRemoved"}, app : {"dir"}]

\* What the recorder has been told: the last event on its way to the map or,
\* without one, the map.
ToldTruth(a) ==
  /\ \A i \in 1..Len(eventChan) : LastOf(eventChan, i, a) =>
        (eventChan[i].op = "added" <=> a \in desktop)
  /\ Untouched(eventChan, a) /\ Begun => (launchedMap[a] # "none" <=> a \in desktop)
ToldGone(a) ==
  /\ \A i \in 1..Len(eventChan) : LastOf(eventChan, i, a) => eventChan[i].op # "added"
  /\ Untouched(eventChan, a) => launchedMap[a] = "none"

QueueTypes ==
  /\ kernel \in Seq(KernelEvent) /\ eventChan \in Seq(ChanEvent)
  /\ launchedMap \in [App -> Status]
  /\ startPc \in {"root", "read", "sub", "done"}
  /\ subThere \in BOOLEAN

\* Nothing comes before the root is watched, and the map is empty before it
\* is read.
NotWatchedYet ==
  /\ startPc = "root" => watched = {} /\ kernel = <<>> /\ eventChan = <<>>
  /\ startPc # "root" => "root" \in watched
  /\ ~Begun => launchedMap = NoStatus

DirAway == ~subThere => desktop \cap SubApp = {}

\* A directory that is there and not watched is going to be watched, and
\* nothing was told about it before.
WatchComes ==
  subThere /\ "sub" \notin watched =>
     \/ \E i \in 1..Len(kernel) : kernel[i].app = "dir"
     \/ /\ startPc # "done"
        /\ \A a \in SubApp : Untouched(kernel, a) /\ Untouched(eventChan, a)

\* The events of the directory that the kernel holds: it came before and went
\* after all others, and there are no others while it is not watched.
DirEvents(a) ==
  /\ \A i \in 1..Len(kernel) : kernel[i].op = "moved" /\ a \in SubApp =>
       ~subThere /\ \A j \in 1..Len(kernel) : j > i => ~Touches(kernel[j], a)
  /\ \A i \in 1..Len(kernel) : kernel[i].op = "appeared" /\ a \in SubApp =>
       \A j \in 1..Len(kernel) : j < i => ~Touches(kernel[j], a)
  /\ ~subThere /\ a \in SubApp /\ (\A i \in 1..Len(kernel) : kernel[i].op # "moved") =>
       Untouched(kernel, a)
  /\ subThere /\ "sub" \notin watched /\ a \in SubApp =>
       \A i \in 1..Len(kernel) : Touches(kernel[i], a) => kernel[i].op = "appeared"

\* The last event that the kernel holds will tell the recorder the truth.
KernelTells(a) ==
  /\ \A i \in 1..Len(kernel) : LastOf(kernel, i, a) =>
       /\ kernel[i].op = "create" => a \in desktop
       /\ kernel[i].op = "remove" => a \notin desktop
       /\ kernel[i].op = "appeared" =>
            /\ subThere
            /\ a \notin desktop => ToldGone(a)
            /\ "sub" \notin watched /\ startPc \in {"read", "done"} => ToldGone(a)
  /\ Untouched(kernel, a) => ToldTruth(a)

FilesInv ==
  /\ QueueTypes /\ NotWatchedYet /\ DirAway /\ WatchComes
  /\ \A a \in App \ gapApps : DirEvents(a) /\ KernelTells(a)

\* SetToSeq has every member of a finite set, and no other.
LEMMA SetToSeqFacts ==
  ASSUME NEW S, IsFiniteSet(S)
  PROVE  /\ SetToSeq(S) \in Seq(S)
         /\ \A i \in 1..Len(SetToSeq(S)) : SetToSeq(S)[i] \in S
         /\ \A z \in S : \E i \in 1..Len(SetToSeq(S)) : SetToSeq(S)[i] = z
<1> DEFINE n == Cardinality(S)
           f == SetToSeq(S)
<1>1. n \in Nat /\ ExistsBijection(1..n, S)
  BY FS_CardinalityType
<1>2. \E g \in [1..n -> S] : IsInjective(g)
  BY <1>1 DEF ExistsBijection, Bijection, Injection
<1>3. f \in [1..n -> S] /\ IsInjective(f)
  BY <1>2 DEF SetToSeq
<1> HIDE DEF f, n
<1> DEFINE R == {z \in S : \E i \in 1..n : f[i] = z}
<1>4. f \in Surjection(1..n, R) /\ f \in Injection(1..n, R)
  <2>1. f \in [1..n -> R]
    BY <1>3
  <2>. QED
    BY <1>3, <2>1 DEF Surjection, Injection
<1>5. IsFiniteSet(1..n) /\ Cardinality(1..n) = n
  BY <1>1, FS_Interval
<1> HIDE DEF R
<1>6. Cardinality(R) = n
  BY <1>4, <1>5, FS_Surjection
<1>7. R \subseteq S
  BY DEF R
<1>8. R = S
  BY <1>6, <1>7, FS_Subset DEF n
<1>9. Len(f) = n /\ f \in Seq(S)
  BY <1>1, <1>3
<1>10. \A z \in S : \E i \in 1..n : f[i] = z
  BY <1>8 DEF R
<1>. QED
  BY <1>3, <1>9, <1>10 DEF f

\* How the last event about an application moves when events come and go.
Extended(s, b, t, a) ==
  /\ Untouched(b, a) =>
       /\ \A i \in 1..Len(t) : LastOf(t, i, a) => LastOf(s, i, a) /\ t[i] = s[i]
       /\ Untouched(t, a) <=> Untouched(s, a)
  /\ ~Untouched(b, a) =>
       /\ \A i \in 1..Len(t) : LastOf(t, i, a) =>
             \E j \in 1..Len(b) : t[i] = b[j] /\ Touches(b[j], a)
       /\ ~Untouched(t, a)

LEMMA ConcatLast ==
  ASSUME NEW T, NEW s \in Seq(T), NEW b \in Seq(T), NEW a, NEW t, t = s \o b
  PROVE  t \in Seq(T) /\ Extended(s, b, t, a)
<1>1. /\ Len(s) \in Nat /\ Len(b) \in Nat /\ Len(t) = Len(s) + Len(b) /\ t \in Seq(T)
      /\ \A i \in 1..Len(s) : i \in 1..Len(t) /\ t[i] = s[i]
      /\ \A j \in 1..Len(b) : Len(s) + j \in 1..Len(t) /\ t[Len(s) + j] = b[j]
  OBVIOUS
<1>2. \A i \in 1..Len(t) : \/ i \in 1..Len(s)
                           \/ i - Len(s) \in 1..Len(b) /\ i = Len(s) + (i - Len(s))
  BY <1>1
<1>3. ASSUME Untouched(b, a)
      PROVE  /\ \A i \in 1..Len(t) : LastOf(t, i, a) => LastOf(s, i, a) /\ t[i] = s[i]
             /\ Untouched(t, a) <=> Untouched(s, a)
  <2>1. \A i \in 1..Len(t) : Touches(t[i], a) => i \in 1..Len(s)
    BY <1>1, <1>2, <1>3 DEF Untouched
  <2>2. Untouched(t, a) <=> Untouched(s, a)
    BY <1>1, <2>1 DEF Untouched
  <2>. QED
    BY <1>1, <2>1, <2>2 DEF LastOf
<1>4. ASSUME ~Untouched(b, a)
      PROVE  /\ \A i \in 1..Len(t) : LastOf(t, i, a) =>
                    \E j \in 1..Len(b) : t[i] = b[j] /\ Touches(b[j], a)
             /\ ~Untouched(t, a)
  <2>1. PICK j \in 1..Len(b) : Touches(b[j], a)
    BY <1>4 DEF Untouched
  <2>2. Len(s) + j \in 1..Len(t) /\ Touches(t[Len(s) + j], a)
    BY <1>1, <2>1
  <2>3. ASSUME NEW i \in 1..Len(t), LastOf(t, i, a)
        PROVE  \E k \in 1..Len(b) : t[i] = b[k] /\ Touches(b[k], a)
    <3>1. ~(Len(s) + j > i)
      BY <2>2, <2>3 DEF LastOf
    <3>2. i - Len(s) \in 1..Len(b) /\ i = Len(s) + (i - Len(s))
      BY <1>1, <1>2, <2>1, <3>1
    <3>3. t[i] = b[i - Len(s)]
      BY <1>1, <3>2
    <3>. QED
      BY <2>3, <3>2, <3>3 DEF LastOf
  <2>. QED
    BY <2>2, <2>3 DEF Untouched
<1>. QED
  BY <1>1, <1>3, <1>4 DEF Extended

Appended(s, e, t, a) ==
  /\ Len(s) \in Nat /\ Len(t) = Len(s) + 1 /\ t[Len(t)] = e
  /\ \A i \in 1..Len(s) : t[i] = s[i]
  /\ ~Touches(e, a) =>
       /\ \A i \in 1..Len(t) : LastOf(t, i, a) => LastOf(s, i, a) /\ t[i] = s[i]
       /\ Untouched(t, a) <=> Untouched(s, a)
  /\ Touches(e, a) =>
       /\ \A i \in 1..Len(t) : LastOf(t, i, a) => t[i] = e
       /\ ~Untouched(t, a)

LEMMA AppendLast ==
  ASSUME NEW T, NEW s \in Seq(T), NEW e \in T, NEW a, NEW t, t = Append(s, e)
  PROVE  t \in Seq(T) /\ Appended(s, e, t, a)
<1>1. /\ t \in Seq(T) /\ Len(s) \in Nat /\ Len(t) = Len(s) + 1 /\ t[Len(t)] = e
      /\ \A i \in 1..Len(s) : t[i] = s[i]
  OBVIOUS
<1>2. <<e>> \in Seq(T) /\ Len(<<e>>) = 1 /\ <<e>>[1] = e /\ t = s \o <<e>>
  BY <1>1
<1>3. Untouched(<<e>>, a) <=> ~Touches(e, a)
  BY <1>2 DEF Untouched
<1> DEFINE b == <<e>>
<1>4. Extended(s, b, t, a)
  BY <1>2, ConcatLast
<1>. QED
  BY <1>1, <1>2, <1>3, <1>4 DEF Appended, Extended

Shortened(s, t, a) ==
  /\ 1 \in 1..Len(s)
  /\ \A i \in 1..Len(t) : i + 1 \in 1..Len(s) /\ t[i] = s[i + 1]
  /\ \A i \in 1..Len(s) : i # 1 => i - 1 \in 1..Len(t) /\ s[i] = t[i - 1]
  /\ \A i \in 1..Len(t) : LastOf(t, i, a) => LastOf(s, i + 1, a)
  /\ Untouched(t, a) /\ Touches(s[1], a) => LastOf(s, 1, a)
  /\ Untouched(t, a) /\ ~Touches(s[1], a) => Untouched(s, a)
  /\ Untouched(s, a) => Untouched(t, a)

LEMMA TailLast ==
  ASSUME NEW T, NEW s \in Seq(T), s # <<>>, NEW a, NEW t, t = Tail(s)
  PROVE  t \in Seq(T) /\ Head(s) = s[1] /\ s[1] \in T /\ Shortened(s, t, a)
<1>1. /\ t \in Seq(T) /\ Head(s) = s[1] /\ s[1] \in T /\ Len(t) \in Nat /\ Len(s) = Len(t) + 1
      /\ \A i \in 1..Len(t) : i + 1 \in 1..Len(s) /\ t[i] = s[i + 1]
  OBVIOUS
<1>2. \A i \in 1..Len(s) : i # 1 => i - 1 \in 1..Len(t) /\ s[i] = t[i - 1]
  <2> SUFFICES ASSUME NEW i \in 1..Len(s), i # 1
               PROVE  i - 1 \in 1..Len(t) /\ s[i] = t[i - 1]
    OBVIOUS
  <2>1. i - 1 \in 1..Len(t) /\ (i - 1) + 1 = i
    BY <1>1
  <2>. QED
    BY <1>1, <2>1
<1>3. 1 \in 1..Len(s)
  BY <1>1
<1>4. \A i \in 1..Len(t) : LastOf(t, i, a) => LastOf(s, i + 1, a)
  <2> SUFFICES ASSUME NEW i \in 1..Len(t), LastOf(t, i, a) PROVE LastOf(s, i + 1, a)
    OBVIOUS
  <2>1. ASSUME NEW j \in 1..Len(s), j > i + 1 PROVE ~Touches(s[j], a)
    <3>1. j - 1 \in 1..Len(t) /\ s[j] = t[j - 1] /\ j - 1 > i
      BY <1>2, <2>1
    <3>. QED
      BY <3>1 DEF LastOf
  <2>. QED
    BY <1>1, <2>1 DEF LastOf
<1>5. Untouched(t, a) => \A i \in 1..Len(s) : i # 1 => ~Touches(s[i], a)
  BY <1>2 DEF Untouched
<1>6. Untouched(t, a) /\ Touches(s[1], a) => LastOf(s, 1, a)
  BY <1>3, <1>5 DEF LastOf
<1>7. Untouched(t, a) /\ ~Touches(s[1], a) => Untouched(s, a)
  BY <1>5 DEF Untouched
<1>8. Untouched(s, a) => Untouched(t, a)
  BY <1>1 DEF Untouched
<1>. QED
  BY <1>1, <1>2, <1>3, <1>4, <1>6, <1>7, <1>8 DEF Shortened

\* A step that tells the recorder nothing and leaves the keys of the map.
LEMMA QueuesStay ==
  ASSUME FilesInv,
         UNCHANGED <<desktop, subThere, kernel, watched, eventChan, startPc, gapApps>>,
         launchedMap' \in [App -> Status], ~Begun => launchedMap' = launchedMap,
         \A a \in App : launchedMap'[a] = "none" <=> launchedMap[a] = "none"
  PROVE  FilesInv'
<1>1. QueueTypes' /\ NotWatchedYet' /\ DirAway' /\ WatchComes'
  BY DEF FilesInv, QueueTypes, NotWatchedYet, DirAway, WatchComes, Begun
<1>2. ASSUME NEW a \in App \ gapApps PROVE DirEvents(a)' /\ KernelTells(a)'
  <2>1. DirEvents(a) /\ KernelTells(a)
    BY DEF FilesInv
  <2>2. (ToldTruth(a) => ToldTruth(a)') /\ (ToldGone(a) => ToldGone(a)')
    BY DEF ToldTruth, ToldGone, Begun
  <2>3. DirEvents(a)'
    BY <2>1 DEF DirEvents
  <2>4. KernelTells(a)'
    BY <2>1, <2>2 DEF KernelTells
  <2>. QED
    BY <2>3, <2>4
<1>. QED
  BY <1>1, <1>2 DEF FilesInv

\* Nothing has been told yet: a daemon that starts.
LEMMA NothingTold ==
  ASSUME QueueTypes, NotWatchedYet, startPc \in {"root", "read"},
         kernel = <<>>, eventChan = <<>>, NEW a \in App
  PROVE  DirEvents(a) /\ KernelTells(a)
<1>1. 1..Len(kernel) = {} /\ 1..Len(eventChan) = {} /\ ~Begun
  BY DEF Begun
<1>. QED
  BY <1>1 DEF DirEvents, KernelTells, ToldTruth, Untouched

LEMMA FilesInvInit == RecInit => FilesInv
<1> SUFFICES ASSUME RecInit PROVE FilesInv
  OBVIOUS
<1>1. NoStatus \in [App -> Status]
  BY DEF NoStatus, Status
<1>2. 1..Len(kernel) = {} /\ 1..Len(eventChan) = {}
  BY DEF RecInit
<1>3. QueueTypes /\ NotWatchedYet /\ DirAway /\ WatchComes
  BY <1>1, <1>2 DEF RecInit, QueueTypes, NotWatchedYet, DirAway, WatchComes, Untouched, Begun
<1>4. \A a \in App : DirEvents(a) /\ KernelTells(a)
  BY <1>3, NothingTold DEF RecInit
<1>. QED
  BY <1>3, <1>4 DEF FilesInv

LEMMA KillTells == ASSUME FilesInv, Kill PROVE FilesInv'
<1>1. /\ startPc' = "root" /\ watched' = {} /\ kernel' = <<>> /\ eventChan' = <<>>
      /\ launchedMap' = NoStatus /\ UNCHANGED <<desktop, subThere>>
  BY DEF Kill
<1>2. NoStatus \in [App -> Status]
  BY DEF NoStatus, Status
<1>3. 1..Len(kernel') = {} /\ 1..Len(eventChan') = {}
  BY <1>1
<1>4. ~Begun'
  BY <1>1 DEF Begun
<1>5. QueueTypes' /\ NotWatchedYet' /\ DirAway' /\ WatchComes'
  BY <1>1, <1>2, <1>3, <1>4
     DEF FilesInv, QueueTypes, NotWatchedYet, DirAway, WatchComes, Untouched
<1>6. ASSUME NEW a \in App PROVE DirEvents(a)' /\ KernelTells(a)'
  BY <1>3, <1>4 DEF DirEvents, KernelTells, ToldTruth, Untouched
<1>. QED
  BY <1>5, <1>6 DEF FilesInv

LEMMA AddRootTells == ASSUME FilesInv, AddRoot PROVE FilesInv'
<1>1. /\ startPc = "root" /\ startPc' = "read" /\ watched' = {"root"}
      /\ UNCHANGED <<kernel, eventChan, launchedMap, desktop, subThere, gapApps>>
  BY DEF AddRoot, fsVars, mapVars
<1>2. kernel = <<>> /\ eventChan = <<>> /\ launchedMap = NoStatus
  BY <1>1 DEF FilesInv, NotWatchedYet, Begun
<1>3. 1..Len(kernel') = {} /\ 1..Len(eventChan') = {}
  BY <1>1, <1>2
<1>4. ~Begun'
  BY <1>1 DEF Begun
<1>5. QueueTypes' /\ NotWatchedYet' /\ DirAway' /\ WatchComes'
  BY <1>1, <1>2, <1>3, <1>4
     DEF FilesInv, QueueTypes, NotWatchedYet, DirAway, WatchComes, Untouched
<1>6. ASSUME NEW a \in App PROVE DirEvents(a)' /\ KernelTells(a)'
  BY <1>3, <1>4 DEF DirEvents, KernelTells, ToldTruth, Untouched
<1>. QED
  BY <1>5, <1>6 DEF FilesInv

LEMMA ReadRootTells ==
  ASSUME FilesInv, ReadRoot, launchedMap' \in [App -> Status] PROVE FilesInv'
<1>1. /\ startPc = "read" /\ startPc' = "sub" /\ launchedMap' = InitAppLaunchedMap
      /\ UNCHANGED <<kernel, eventChan, watched, desktop, subThere, gapApps>>
  BY DEF ReadRoot, fsVars
<1>2. \A a \in App : launchedMap'[a] # "none" <=> a \in desktop
  BY <1>1 DEF InitAppLaunchedMap
<1>3. ~Begun /\ Begun'
  BY <1>1 DEF Begun
<1>4. QueueTypes' /\ NotWatchedYet' /\ DirAway' /\ WatchComes'
  BY <1>1, <1>3 DEF FilesInv, QueueTypes, NotWatchedYet, DirAway, WatchComes
<1>5. ASSUME NEW a \in App \ gapApps PROVE DirEvents(a)' /\ KernelTells(a)'
  <2>1. DirEvents(a) /\ KernelTells(a)
    BY DEF FilesInv
  <2>2. ToldTruth(a) => ToldTruth(a)'
    BY <1>1, <1>2 DEF ToldTruth
  <2>3. a \notin desktop => (ToldGone(a) => ToldGone(a)')
    BY <1>1, <1>2 DEF ToldGone
  <2>4. DirEvents(a)'
    BY <1>1, <2>1 DEF DirEvents
  <2>5. KernelTells(a)'
    BY <1>1, <2>1, <2>2, <2>3 DEF KernelTells
  <2>. QED
    BY <2>4, <2>5
<1>. QED
  BY <1>1, <1>4, <1>5 DEF FilesInv

LEMMA WatchSubTells == ASSUME FilesInv, WatchSub PROVE FilesInv'
<1>1. /\ startPc = "sub" /\ startPc' = "done"
      /\ watched' = IF subThere THEN watched \cup {"sub"} ELSE watched
      /\ UNCHANGED <<kernel, eventChan, launchedMap, desktop, subThere, gapApps>>
  BY DEF WatchSub, fsVars, mapVars
<1>2. Begun /\ Begun'
  BY <1>1 DEF Begun
<1>3. QueueTypes' /\ NotWatchedYet' /\ DirAway' /\ WatchComes'
  BY <1>1, <1>2 DEF FilesInv, QueueTypes, NotWatchedYet, DirAway, WatchComes
<1>4. ASSUME NEW a \in App \ gapApps PROVE DirEvents(a)' /\ KernelTells(a)'
  <2>1. DirEvents(a) /\ KernelTells(a)
    BY DEF FilesInv
  <2>2. (ToldTruth(a) => ToldTruth(a)') /\ (ToldGone(a) => ToldGone(a)')
    BY <1>1, <1>2 DEF ToldTruth, ToldGone
  <2>3. DirEvents(a)'
    BY <1>1, <2>1 DEF DirEvents
  <2>4. KernelTells(a)'
    BY <1>1, <2>1, <2>2 DEF KernelTells
  <2>. QED
    BY <2>3, <2>4
<1>. QED
  BY <1>1, <1>3, <1>4 DEF FilesInv

\* Events of files and of the directory are told apart.
LEMMA KernelEvents ==
  ASSUME NEW s \in Seq(KernelEvent), NEW i \in 1..Len(s)
  PROVE  /\ s[i] \in KernelEvent
         /\ \/ s[i].op \in {"create", "remove"} /\ s[i].app \in App /\ s[i].app # "dir"
            \/ s[i].op \in {"moved", "appeared"} /\ s[i].app = "dir"
<1>1. s[i] \in KernelEvent
  OBVIOUS
<1>. QED
  BY <1>1, RecorderAssumption DEF KernelEvent

LEMMA FileChangeTells ==
  ASSUME FilesInv, NEW c \in App, NEW op \in {"create", "remove"}, FileChange(c, op),
         op = "create" => c \notin desktop /\ desktop' = desktop \cup {c},
         op = "remove" => c \in desktop /\ desktop' = desktop \ {c}
  PROVE  FilesInv'
<1> DEFINE e == [op |-> op, app |-> c]
<1>1. /\ UNCHANGED <<subThere, watched, eventChan, launchedMap, startPc>>
      /\ c \in SubApp => subThere
      /\ kernel' = IF Dir(c) \in watched THEN Append(kernel, e) ELSE kernel
      /\ gapApps' = IF startPc = "sub" /\ c \in SubApp THEN gapApps \cup {c} ELSE gapApps
  BY DEF FileChange, Seen, mapVars
<1>2. /\ e \in KernelEvent /\ e.op = op /\ e.app = c
      /\ \A a \in App : Touches(e, a) <=> a = c
  BY RecorderAssumption DEF KernelEvent, Touches
<1>3. Dir(c) = IF c \in SubApp THEN "sub" ELSE "root"
  BY DEF Dir
<1> HIDE DEF e
<1>4. kernel \in Seq(KernelEvent)
  BY DEF FilesInv, QueueTypes
<1>5. Dir(c) \in watched =>
         kernel' \in Seq(KernelEvent) /\ \A a \in App : Appended(kernel, e, kernel', a)
  BY <1>1, <1>2, <1>4, AppendLast
<1>6. QueueTypes' /\ NotWatchedYet' /\ DirAway'
  <2>1. kernel' \in Seq(KernelEvent)
    BY <1>1, <1>4, <1>5 DEF Appended
  <2>2. Dir(c) \in watched => startPc # "root"
    BY DEF FilesInv, NotWatchedYet
  <2>3. QueueTypes'
    BY <1>1, <2>1 DEF FilesInv, QueueTypes
  <2>4. NotWatchedYet'
    BY <1>1, <2>2 DEF FilesInv, NotWatchedYet, Begun
  <2>. QED
    BY <1>1, <2>3, <2>4 DEF FilesInv, DirAway
<1>7. WatchComes'
  <2> SUFFICES ASSUME subThere, "sub" \notin watched
               PROVE  WatchComes'
    BY <1>1 DEF WatchComes
  <2>1. CASE \E i \in 1..Len(kernel) : kernel[i].app = "dir"
    <3>1. \A i \in 1..Len(kernel) : i \in 1..Len(kernel') /\ kernel'[i] = kernel[i]
      BY <1>1, <1>5 DEF Appended
    <3>. QED
      BY <2>1, <3>1 DEF WatchComes
  <2>2. CASE /\ startPc # "done"
             /\ \A a \in SubApp : Untouched(kernel, a) /\ Untouched(eventChan, a)
    <3>1. ASSUME NEW a \in SubApp PROVE Untouched(kernel', a)
      <4>1. a \in App
        BY RecorderAssumption
      <4>2. Dir(c) \in watched => a # c
        BY <1>3
      <4>. QED
        BY <1>1, <1>2, <1>5, <2>2, <4>1, <4>2 DEF Appended
    <3>. QED
      BY <1>1, <2>2, <3>1 DEF WatchComes
  <2>. QED
    BY <2>1, <2>2 DEF FilesInv, WatchComes
<1>8. ASSUME NEW a \in App \ gapApps' PROVE DirEvents(a)' /\ KernelTells(a)'
  <2>1. a \in App \ gapApps /\ (a = c /\ c \in SubApp => startPc # "sub")
    BY <1>1, <1>8
  <2>2. DirEvents(a) /\ KernelTells(a)
    BY <2>1 DEF FilesInv
  <2>3. ToldGone(a) => ToldGone(a)'
    BY <1>1 DEF ToldGone
  <2>4. CASE a # c
    <3>1. a \in desktop' <=> a \in desktop
      BY <2>4
    <3>2. ToldTruth(a) => ToldTruth(a)'
      BY <1>1, <3>1 DEF ToldTruth, Begun
    <3>3. CASE Dir(c) \notin watched
      <4>1. DirEvents(a)'
        BY <1>1, <2>2, <3>3 DEF DirEvents
      <4>2. KernelTells(a)'
        BY <1>1, <2>2, <2>3, <3>1, <3>2, <3>3 DEF KernelTells
      <4>. QED
        BY <4>1, <4>2
    <3>4. CASE Dir(c) \in watched
      <4>1. ~Touches(e, a)
        BY <1>2, <2>4
      <4>2. \A i \in 1..Len(kernel') : \/ i \in 1..Len(kernel) /\ kernel'[i] = kernel[i]
                                       \/ i = Len(kernel') /\ kernel'[i] = e
        BY <1>5, <3>4 DEF Appended
      <4>3. \A i \in 1..Len(kernel) : i \in 1..Len(kernel') /\ kernel'[i] = kernel[i]
        BY <1>5, <3>4 DEF Appended
      <4>4. e.op \notin {"moved", "appeared"}
        BY <1>2
      <4>5. DirEvents(a)'
        BY <1>1, <1>5, <2>2, <3>4, <4>1, <4>2, <4>3, <4>4 DEF DirEvents, Untouched, Appended
      <4>6. /\ \A i \in 1..Len(kernel') :
                  LastOf(kernel', i, a) => LastOf(kernel, i, a) /\ kernel'[i] = kernel[i]
            /\ Untouched(kernel', a) <=> Untouched(kernel, a)
        BY <1>5, <3>4, <4>1 DEF Appended
      <4>7. \A i \in 1..Len(kernel') : LastOf(kernel', i, a) => i \in 1..Len(kernel)
        BY <4>6 DEF LastOf
      <4>8. KernelTells(a)'
        BY <1>1, <2>2, <2>3, <3>1, <3>2, <4>6, <4>7 DEF KernelTells
      <4>. QED
        BY <4>5, <4>8
    <3>. QED
      BY <3>3, <3>4
  <2>5. CASE a = c
    <3>1. CASE Dir(c) \in watched
      <4>1. Touches(e, a)
        BY <1>2, <2>5
      <4>2. \A i \in 1..Len(kernel') : \/ i \in 1..Len(kernel) /\ kernel'[i] = kernel[i]
                                       \/ i = Len(kernel') /\ kernel'[i] = e
        BY <1>5, <3>1 DEF Appended
      <4>3. e.op \notin {"moved", "appeared"}
        BY <1>2
      <4>4. \A j \in 1..Len(kernel') : \A i \in 1..Len(kernel) : j < i => j \in 1..Len(kernel)
        BY <1>5, <3>1 DEF Appended
      <4>5. a \in SubApp => subThere /\ "sub" \in watched
        BY <1>1, <1>3, <2>5, <3>1
      <4>6. DirEvents(a)'
        BY <1>1, <2>2, <4>2, <4>3, <4>4, <4>5 DEF DirEvents
      <4>7. \A i \in 1..Len(kernel') : LastOf(kernel', i, a) => kernel'[i] = e
        BY <1>5, <3>1, <4>1 DEF Appended
      <4>8. ~Untouched(kernel', a)
        BY <1>5, <3>1, <4>1 DEF Appended
      <4>9. KernelTells(a)'
        BY <1>2, <2>5, <4>7, <4>8 DEF KernelTells
      <4>. QED
        BY <4>6, <4>9
    <3>2. CASE Dir(c) \notin watched
      <4>1. kernel' = kernel
        BY <1>1, <3>2
      <4>2. DirEvents(a)'
        BY <1>1, <2>2, <4>1 DEF DirEvents
      <4>3. CASE startPc = "root"
        <5>1. 1..Len(kernel') = {} /\ 1..Len(eventChan') = {}
          BY <1>1, <4>1, <4>3 DEF FilesInv, NotWatchedYet
        <5>2. ~Begun'
          BY <1>1, <4>3 DEF Begun
        <5>. QED
          BY <4>2, <5>1, <5>2 DEF KernelTells, ToldTruth
      <4>4. CASE startPc # "root"
        <5>1. c \in SubApp /\ "sub" \notin watched /\ subThere /\ startPc \in {"read", "done"}
          BY <1>1, <1>3, <2>1, <2>5, <3>2, <4>4 DEF FilesInv, NotWatchedYet, QueueTypes
        <5>2. CASE \E i \in 1..Len(kernel) : kernel[i].app = "dir"
          <6>1. ~Untouched(kernel', a)
            BY <2>5, <4>1, <5>1, <5>2 DEF Untouched, Touches
          <6>2. \A i \in 1..Len(kernel) : LastOf(kernel, i, a) => kernel[i].op = "appeared" /\ ToldGone(a)
            BY <2>2, <2>5, <5>1 DEF DirEvents, KernelTells, LastOf
          <6>. QED
            BY <1>1, <2>3, <4>1, <4>2, <5>1, <6>1, <6>2 DEF KernelTells
        <5>3. CASE startPc # "done" /\ Untouched(kernel, a) /\ Untouched(eventChan, a)
          <6>1. ~Begun'
            BY <1>1, <5>1, <5>3 DEF Begun
          <6>. QED
            BY <1>1, <4>1, <4>2, <5>3, <6>1 DEF KernelTells, ToldTruth, LastOf, Untouched
        <5>. QED
          BY <2>5, <5>1, <5>2, <5>3 DEF FilesInv, WatchComes
      <4>. QED
        BY <4>3, <4>4
    <3>. QED
      BY <3>1, <3>2
  <2>. QED
    BY <2>4, <2>5
<1>. QED
  BY <1>6, <1>7, <1>8 DEF FilesInv

LEMMA MoveDirTells == ASSUME FilesInv, MoveDir PROVE FilesInv'
<1> DEFINE e == [op |-> IF subThere THEN "moved" ELSE "appeared", app |-> "dir"]
<1>1. /\ UNCHANGED <<eventChan, launchedMap, startPc>>
      /\ subThere' = ~subThere
      /\ kernel' = IF "root" \in watched THEN Append(kernel, e) ELSE kernel
      /\ watched' = watched \ {"sub"}
      /\ gapApps' = IF startPc = "sub" \/ \E i \in DOMAIN kernel : kernel[i].op = "moved"
                      THEN gapApps \cup SubApp ELSE gapApps
  BY DEF MoveDir, Seen, mapVars
<1>2. /\ subThere => desktop' = desktop \ SubApp
      /\ ~subThere => \E back \in SUBSET SubApp : desktop' = desktop \cup back
  BY DEF MoveDir
<1>3. /\ e \in KernelEvent /\ e.app = "dir"
      /\ (subThere => e.op = "moved") /\ (~subThere => e.op = "appeared")
      /\ \A a \in App : Touches(e, a) <=> a \in SubApp
  BY RecorderAssumption DEF KernelEvent, Touches
<1> HIDE DEF e
<1>4. kernel \in Seq(KernelEvent) /\ DOMAIN kernel = 1..Len(kernel)
  BY DEF FilesInv, QueueTypes
<1>5. "root" \in watched =>
         kernel' \in Seq(KernelEvent) /\ \A a \in App : Appended(kernel, e, kernel', a)
  BY <1>1, <1>3, <1>4, AppendLast
<1>6. "root" \in watched => startPc # "root"
  BY DEF FilesInv, NotWatchedYet
<1>7. QueueTypes' /\ NotWatchedYet' /\ DirAway'
  <2>1. kernel' \in Seq(KernelEvent) /\ subThere' \in BOOLEAN
    BY <1>1, <1>4, <1>5
  <2>2. QueueTypes'
    BY <1>1, <2>1 DEF FilesInv, QueueTypes
  <2>3. NotWatchedYet'
    BY <1>1, <1>6 DEF FilesInv, NotWatchedYet, Begun
  <2>4. DirAway'
    BY <1>1, <1>2 DEF DirAway
  <2>. QED
    BY <2>2, <2>3, <2>4
<1>8. "root" \notin watched => startPc = "root" /\ kernel' = <<>> /\ eventChan' = <<>> /\ ~Begun'
  BY <1>1 DEF FilesInv, NotWatchedYet, Begun
<1>9. WatchComes'
  <2>1. CASE "root" \in watched
    <3>1. Len(kernel') \in 1..Len(kernel') /\ kernel'[Len(kernel')].app = "dir"
      BY <1>3, <1>5, <2>1, RecorderAssumption DEF Appended
    <3>. QED
      BY <3>1 DEF WatchComes
  <2>2. CASE "root" \notin watched
    <3>1. 1..Len(kernel') = {} /\ 1..Len(eventChan') = {} /\ startPc' # "done"
      BY <1>1, <1>8, <2>2
    <3>. QED
      BY <3>1 DEF WatchComes, Untouched
  <2>. QED
    BY <2>1, <2>2
<1>10. ASSUME NEW a \in App \ gapApps' PROVE DirEvents(a)' /\ KernelTells(a)'
  <2>1. /\ a \in App \ gapApps
        /\ a \in SubApp => startPc # "sub" /\ \A i \in 1..Len(kernel) : kernel[i].op # "moved"
    BY <1>1, <1>4, <1>10
  <2>2. DirEvents(a) /\ KernelTells(a)
    BY <2>1 DEF FilesInv
  <2>3. ToldGone(a) => ToldGone(a)'
    BY <1>1 DEF ToldGone
  <2>4. CASE "root" \notin watched
    <3>1. 1..Len(kernel') = {} /\ 1..Len(eventChan') = {} /\ ~Begun'
      BY <1>8, <2>4
    <3>. QED
      BY <3>1 DEF DirEvents, KernelTells, ToldTruth, Untouched
  <2>5. CASE "root" \in watched /\ a \notin SubApp
    <3>1. a \in desktop' <=> a \in desktop
      BY <1>2, <2>5
    <3>2. ToldTruth(a) => ToldTruth(a)'
      BY <1>1, <3>1 DEF ToldTruth, Begun
    <3>3. ~Touches(e, a)
      BY <1>3, <2>1, <2>5
    <3>4. /\ \A i \in 1..Len(kernel') :
                LastOf(kernel', i, a) => LastOf(kernel, i, a) /\ kernel'[i] = kernel[i]
          /\ Untouched(kernel', a) <=> Untouched(kernel, a)
      BY <1>5, <2>1, <2>5, <3>3 DEF Appended
    <3>5. \A i \in 1..Len(kernel) : LastOf(kernel, i, a) => kernel[i].op # "appeared"
      <4>1. \A i \in 1..Len(kernel) : Touches(kernel[i], a) => kernel[i].app \in App
        BY <2>1, <2>5 DEF Touches
      <4>. QED
        BY <1>4, <4>1, KernelEvents, RecorderAssumption DEF LastOf
    <3>6. \A i \in 1..Len(kernel') : LastOf(kernel', i, a) => i \in 1..Len(kernel)
      BY <3>4 DEF LastOf
    <3>7. KernelTells(a)'
      BY <2>2, <3>1, <3>2, <3>4, <3>5, <3>6 DEF KernelTells
    <3>8. DirEvents(a)'
      BY <2>5 DEF DirEvents
    <3>. QED
      BY <3>7, <3>8
  <2>6. CASE "root" \in watched /\ a \in SubApp
    <3>1. Touches(e, a)
      BY <1>3, <2>1, <2>6
    <3>2. \A i \in 1..Len(kernel') : \/ i \in 1..Len(kernel) /\ kernel'[i] = kernel[i]
                                     \/ i = Len(kernel') /\ kernel'[i] = e
      BY <1>5, <2>1, <2>6 DEF Appended
    <3>3. Len(kernel') \in 1..Len(kernel') /\ kernel'[Len(kernel')] = e
      BY <1>5, <2>1, <2>6 DEF Appended
    <3>4. \A j \in 1..Len(kernel') : \A i \in 1..Len(kernel') :
             j < i => j \in 1..Len(kernel) /\ kernel'[j] = kernel[j] /\ i # j
      BY <1>5, <2>1, <2>6 DEF Appended
    <3>5. \A j \in 1..Len(kernel') : ~(j > Len(kernel'))
      BY <1>5, <2>1, <2>6 DEF Appended
    <3>6. /\ \A i \in 1..Len(kernel') : LastOf(kernel', i, a) => kernel'[i] = e
          /\ ~Untouched(kernel', a)
      BY <1>5, <2>1, <2>6, <3>1 DEF Appended
    <3>7. CASE subThere
      <4>1. e.op = "moved" /\ ~subThere'
        BY <1>1, <1>3, <3>7
      <4>2. \A i \in 1..Len(kernel') : kernel'[i].op = "moved" => i = Len(kernel')
        BY <2>1, <2>6, <3>2
      <4>3. DirEvents(a)'
        BY <2>2, <3>2, <3>3, <3>4, <3>5, <4>1, <4>2 DEF DirEvents
      <4>4. KernelTells(a)'
        BY <3>6, <4>1 DEF KernelTells
      <4>. QED
        BY <4>3, <4>4
    <3>8. CASE ~subThere
      <4>1. e.op = "appeared" /\ subThere'
        BY <1>1, <1>3, <3>8
      <4>2. Untouched(kernel, a)
        BY <2>1, <2>2, <2>6, <3>8 DEF DirEvents
      <4>3. a \notin desktop /\ ToldTruth(a)
        BY <2>2, <2>6, <3>8, <4>2 DEF FilesInv, DirAway, KernelTells
      <4>4. ~Begun => launchedMap[a] = "none"
        BY <2>1 DEF FilesInv, NotWatchedYet, NoStatus
      <4>5. ToldGone(a)'
        BY <2>3, <4>3, <4>4 DEF ToldTruth, ToldGone
      <4>6. \A i \in 1..Len(kernel') : kernel'[i].op # "moved"
        BY <2>1, <2>6, <3>2, <4>1
      <4>7. \A i \in 1..Len(kernel') : Touches(kernel'[i], a) => kernel'[i] = e
        BY <3>2, <4>2 DEF Untouched
      <4>8. \A i, j \in 1..Len(kernel') : j < i => ~Touches(kernel'[j], a)
        BY <3>4, <4>2 DEF Untouched
      <4>9. DirEvents(a)'
        BY <4>1, <4>6, <4>7, <4>8 DEF DirEvents
      <4>10. KernelTells(a)'
        BY <3>6, <4>1, <4>5 DEF KernelTells
      <4>. QED
        BY <4>9, <4>10
    <3>. QED
      BY <3>7, <3>8
  <2>. QED
    BY <2>4, <2>5, <2>6
<1>. QED
  BY <1>7, <1>9, <1>10 DEF FilesInv

LEMMA ListenEventsTells ==
  ASSUME FilesInv, ListenEvents, launchedMap' \in [App -> Status] PROVE FilesInv'
<1> DEFINE ev == eventChan[1]
<1>1. /\ startPc = "done" /\ eventChan # <<>> /\ eventChan' = Tail(eventChan)
      /\ UNCHANGED <<desktop, subThere, kernel, watched, startPc, gapApps>>
  BY DEF ListenEvents, fsVars
<1>2. eventChan \in Seq(ChanEvent) /\ launchedMap \in [App -> Status]
  BY DEF FilesInv, QueueTypes
<1>3. Head(eventChan) = ev /\ ev \in ChanEvent /\ eventChan' \in Seq(ChanEvent)
  BY <1>1, <1>2
<1>4. \/ ev.op = "added" /\ ev.app \in App /\ HandleAdded(ev.app)
      \/ ev.op = "removed" /\ ev.app \in App /\ HandleRemoved(ev.app)
      \/ ev.op = "dirRemoved" /\ ev.app = "dir" /\ HandleDirRemoved
  BY <1>3 DEF ListenEvents, ChanEvent
<1>5. /\ ev.op \in {"added", "removed"} => \A a \in App : Touches(ev, a) <=> ev.app = a
      /\ ev.op = "dirRemoved" => \A a \in App : Touches(ev, a) <=> a \in SubApp
  BY <1>4, RecorderAssumption DEF Touches
<1> HIDE DEF ev
<1>6. \A a \in App :
        /\ Touches(ev, a) => (launchedMap'[a] # "none" <=> ev.op = "added")
        /\ ~Touches(ev, a) => launchedMap'[a] = launchedMap[a]
  <2>1. CASE ev.op = "added" /\ ev.app \in App /\ HandleAdded(ev.app)
    BY <1>2, <1>5, <2>1 DEF HandleAdded
  <2>2. CASE ev.op = "removed" /\ ev.app \in App /\ HandleRemoved(ev.app)
    BY <1>2, <1>5, <2>2 DEF HandleRemoved
  <2>3. CASE ev.op = "dirRemoved" /\ HandleDirRemoved
    BY <1>2, <1>5, <2>3, RecorderAssumption DEF HandleDirRemoved
  <2>. QED
    BY <1>4, <2>1, <2>2, <2>3
<1>7. Begun /\ Begun'
  BY <1>1 DEF Begun
<1>8. QueueTypes' /\ NotWatchedYet' /\ DirAway' /\ WatchComes'
  BY <1>1, <1>3, <1>7 DEF FilesInv, QueueTypes, NotWatchedYet, DirAway, WatchComes
<1>9. ASSUME NEW a \in App \ gapApps PROVE DirEvents(a)' /\ KernelTells(a)'
  <2>1. DirEvents(a) /\ KernelTells(a)
    BY DEF FilesInv
  <2>0. Shortened(eventChan, eventChan', a)
    BY <1>1, <1>2, TailLast
  <2>2. /\ \A i \in 1..Len(eventChan') :
              /\ i + 1 \in 1..Len(eventChan) /\ eventChan'[i] = eventChan[i + 1]
              /\ LastOf(eventChan', i, a) => LastOf(eventChan, i + 1, a)
        /\ 1 \in 1..Len(eventChan)
        /\ Untouched(eventChan', a) /\ Touches(ev, a) => LastOf(eventChan, 1, a)
        /\ Untouched(eventChan', a) /\ ~Touches(ev, a) => Untouched(eventChan, a)
    BY <2>0 DEF Shortened, ev
  <2>3. Untouched(eventChan', a) =>
          \/ LastOf(eventChan, 1, a) /\ (launchedMap'[a] # "none" <=> eventChan[1].op = "added")
          \/ Untouched(eventChan, a) /\ launchedMap'[a] = launchedMap[a]
    BY <1>6, <2>2 DEF ev
  <2>4. ToldTruth(a) => ToldTruth(a)'
    BY <1>1, <1>7, <2>2, <2>3 DEF ToldTruth
  <2>5. ToldGone(a) => ToldGone(a)'
    BY <1>1, <2>2, <2>3 DEF ToldGone
  <2>6. DirEvents(a)'
    BY <1>1, <2>1 DEF DirEvents
  <2>7. KernelTells(a)'
    BY <1>1, <2>1, <2>4, <2>5 DEF KernelTells
  <2>. QED
    BY <2>6, <2>7
<1>. QED
  BY <1>1, <1>8, <1>9 DEF FilesInv

\* What DFWatcher makes of an event, once it has looked at the file.
FileEventsTell(ev, a) ==
  LET b == FileEvents(ev) IN
  /\ ~Touches(ev, a) => Untouched(b, a)
  /\ ev.op = "create" /\ Touches(ev, a) =>
       ~Untouched(b, a) /\ \A j \in 1..Len(b) : b[j].op = "added"
  /\ ev.op = "remove" /\ Touches(ev, a) /\ a \notin desktop =>
       ~Untouched(b, a) /\ \A j \in 1..Len(b) : b[j].op # "added"
  /\ ev.op = "moved" /\ Touches(ev, a) /\ ~subThere =>
       ~Untouched(b, a) /\ \A j \in 1..Len(b) : b[j].op # "added"
  /\ ev.op = "appeared" /\ Touches(ev, a) /\ subThere =>
       /\ \A j \in 1..Len(b) : b[j].op = "added"
       /\ Untouched(b, a) <=> a \notin desktop

LEMMA FileEventsFacts ==
  ASSUME NEW ev \in KernelEvent, NEW a \in App
  PROVE  FileEvents(ev) \in Seq(ChanEvent) /\ FileEventsTell(ev, a)
<1> DEFINE b == FileEvents(ev)
           Found == {Event("added", c) : c \in SubApp \cap desktop}
<1>1. \/ ev.op \in {"create", "remove"} /\ ev.app \in App /\ ev.app # "dir"
      \/ ev.op \in {"moved", "appeared"} /\ ev.app = "dir"
  BY RecorderAssumption DEF KernelEvent
<1>2. a # "dir" /\ SubApp \subseteq App
  BY RecorderAssumption
<1>3. /\ \A c \in App : Event("added", c) \in ChanEvent /\ Event("removed", c) \in ChanEvent
      /\ Event("dirRemoved", "dir") \in ChanEvent
      /\ \A o, c : Event(o, c).op = o /\ Event(o, c).app = c
  BY DEF ChanEvent, Event
<1>4. ASSUME NEW o, NEW c, b = <<Event(o, c)>>
      PROVE  /\ Len(b) = 1 /\ b[1].op = o /\ b[1].app = c
             /\ \A j \in 1..Len(b) : b[j].op = o
             /\ Untouched(b, a) <=> ~(c = a \/ (c = "dir" /\ a \in SubApp))
  <2>1. Len(b) = 1 /\ b[1] = Event(o, c)
    BY <1>4
  <2>. QED
    BY <1>3, <2>1 DEF Untouched, Touches
<1>5. CASE ev.op = "create"
  <2>1. b = <<Event("added", ev.app)>>
    BY <1>1, <1>5 DEF FileEvents
  <2>2. b \in Seq(ChanEvent)
    BY <1>1, <1>3, <1>5, <2>1
  <2>. QED
    BY <1>1, <1>4, <1>5, <2>1, <2>2 DEF FileEventsTell, Touches
<1>6. CASE ev.op = "remove" /\ ev.app \notin desktop
  <2>1. b = <<Event("removed", ev.app)>>
    BY <1>1, <1>6 DEF FileEvents
  <2>2. b \in Seq(ChanEvent)
    BY <1>1, <1>3, <1>6, <2>1
  <2>. QED
    BY <1>1, <1>4, <1>6, <2>1, <2>2 DEF FileEventsTell, Touches
<1>7. CASE ev.op = "remove" /\ ev.app \in desktop
  <2>1. b = <<>>
    BY <1>1, <1>7 DEF FileEvents
  <2>2. b \in Seq(ChanEvent) /\ Untouched(b, a)
    BY <2>1 DEF Untouched
  <2>. QED
    BY <1>1, <1>2, <1>7, <2>2 DEF FileEventsTell, Touches
<1>8. CASE ev.op = "moved" /\ ~subThere
  <2>1. b = <<Event("dirRemoved", "dir")>>
    BY <1>1, <1>8 DEF FileEvents
  <2>2. b \in Seq(ChanEvent)
    BY <1>3, <2>1
  <2>. QED
    BY <1>1, <1>2, <1>4, <1>8, <2>1, <2>2 DEF FileEventsTell, Touches
<1>9. CASE ev.op = "appeared" /\ ~subThere
  <2>1. b = <<>>
    BY <1>1, <1>9 DEF FileEvents
  <2>2. b \in Seq(ChanEvent) /\ Untouched(b, a)
    BY <2>1 DEF Untouched
  <2>. QED
    BY <1>9, <2>2 DEF FileEventsTell
<1>10. CASE ev.op \in {"moved", "appeared"} /\ subThere
  <2>1. b = SetToSeq(Found)
    BY <1>1, <1>10 DEF FileEvents
  <2>2. IsFiniteSet(SubApp \cap desktop)
    BY <1>2, RecorderAssumption, FS_Subset
  <2>3. IsFiniteSet(Found)
    <3> DEFINE made == [c \in SubApp \cap desktop |-> Event("added", c)]
    <3>1. made \in Surjection(SubApp \cap desktop, Found)
      BY DEF Surjection
    <3>. QED
      BY <2>2, <3>1, FS_Surjection
  <2>4. /\ b \in Seq(Found)
        /\ \A i \in 1..Len(b) : b[i] \in Found
        /\ \A z \in Found : \E i \in 1..Len(b) : b[i] = z
    BY <2>1, <2>3, SetToSeqFacts
  <2>5. Found \subseteq ChanEvent
    BY <1>2, <1>3
  <2>6. b \in Seq(ChanEvent)
    BY <2>4, <2>5
  <2>7. \A z \in Found : z.op = "added" /\ (Touches(z, a) <=> z.app = a) /\ z.app \in SubApp \cap desktop
    BY <1>2, <1>3, RecorderAssumption DEF Touches
  <2>8. a \in SubApp \cap desktop => Event("added", a) \in Found /\ Event("added", a).app = a
    BY <1>3
  <2> HIDE DEF b, Found
  <2>9. Untouched(b, a) <=> a \notin SubApp \cap desktop
    BY <2>4, <2>7, <2>8, SMTT(20) DEF Untouched
  <2>10. \A i \in 1..Len(b) : b[i].op = "added"
    BY <2>4, <2>7
  <2>11. Touches(ev, a) <=> a \in SubApp
    BY <1>1, <1>2, <1>10 DEF Touches
  <2>. QED
    BY <1>10, <2>6, <2>9, <2>10, <2>11 DEF FileEventsTell, b
<1>. QED
  BY <1>1, <1>5, <1>6, <1>7, <1>8, <1>9, <1>10

LEMMA NotifyTells == ASSUME FilesInv, Notify PROVE FilesInv'
<1> DEFINE ev == kernel[1]
           b == FileEvents(ev)
<1>1. /\ kernel # <<>> /\ kernel' = Tail(kernel)
      /\ eventChan' = eventChan \o FileEvents(Head(kernel))
      /\ watched' = IF Head(kernel).app = "dir" /\ subThere THEN watched \cup {"sub"} ELSE watched
      /\ UNCHANGED <<desktop, subThere, launchedMap, startPc, gapApps>>
  BY DEF Notify, mapVars
<1>2. kernel \in Seq(KernelEvent) /\ eventChan \in Seq(ChanEvent)
  BY DEF FilesInv, QueueTypes
<1>3. /\ kernel' \in Seq(KernelEvent) /\ Head(kernel) = ev /\ ev \in KernelEvent
      /\ \A a \in App : Shortened(kernel, kernel', a)
  BY <1>1, <1>2, TailLast, RecorderAssumption
<1>4. b \in Seq(ChanEvent) /\ \A a \in App : FileEventsTell(ev, a)
  BY <1>3, FileEventsFacts, RecorderAssumption
<1> HIDE DEF ev, b
<1>5. eventChan' \in Seq(ChanEvent) /\ \A a \in App : Extended(eventChan, b, eventChan', a)
  <2>1. eventChan' = eventChan \o b
    BY <1>1, <1>3 DEF b
  <2>. QED
    BY <1>2, <1>4, <2>1, ConcatLast, RecorderAssumption
<1>6. Len(kernel) > 0 /\ 1 \in 1..Len(kernel)
  BY <1>1, <1>2
<1>7. startPc # "root"
  BY <1>1 DEF FilesInv, NotWatchedYet
<1>8. QueueTypes' /\ NotWatchedYet' /\ DirAway'
  BY <1>1, <1>3, <1>5, <1>7 DEF FilesInv, QueueTypes, NotWatchedYet, DirAway, Begun
<1>9. WatchComes'
  <2> SUFFICES ASSUME subThere, "sub" \notin watched' PROVE WatchComes'
    BY <1>1 DEF WatchComes
  <2>1. ev.app # "dir" /\ "sub" \notin watched
    BY <1>1, <1>3
  <2>2. CASE \E i \in 1..Len(kernel) : kernel[i].app = "dir"
    <3>1. PICK i \in 1..Len(kernel) : kernel[i].app = "dir"
      BY <2>2
    <3>2. i # 1
      BY <2>1, <3>1 DEF ev
    <3>3. i - 1 \in 1..Len(kernel') /\ kernel[i] = kernel'[i - 1]
      BY <1>3, <3>2, RecorderAssumption DEF Shortened
    <3>. QED
      BY <3>1, <3>3 DEF WatchComes
  <2>3. CASE /\ startPc # "done"
             /\ \A a \in SubApp : Untouched(kernel, a) /\ Untouched(eventChan, a)
    <3>1. ASSUME NEW a \in SubApp PROVE Untouched(kernel', a) /\ Untouched(eventChan', a)
      <4>1. a \in App
        BY RecorderAssumption
      <4>2. Untouched(kernel', a)
        BY <1>3, <2>3, <4>1 DEF Shortened
      <4>3. ~Touches(ev, a)
        BY <1>6, <2>3 DEF Untouched, ev
      <4>4. Untouched(b, a)
        BY <1>4, <4>1, <4>3 DEF FileEventsTell, b
      <4>. QED
        BY <1>5, <2>3, <4>1, <4>2, <4>4 DEF Extended
    <3>. QED
      BY <1>1, <2>3, <3>1 DEF WatchComes
  <2>. QED
    BY <2>1, <2>2, <2>3 DEF FilesInv, WatchComes
<1>10. ASSUME NEW a \in App \ gapApps PROVE DirEvents(a)' /\ KernelTells(a)'
  <2>1. DirEvents(a) /\ KernelTells(a)
    BY DEF FilesInv
  <2>2. Shortened(kernel, kernel', a) /\ Extended(eventChan, b, eventChan', a)
    BY <1>3, <1>5
  <2>3. FileEventsTell(ev, a)
    BY <1>4
  <2>4. \A i \in 1..Len(kernel') : i + 1 \in 1..Len(kernel) /\ kernel'[i] = kernel[i + 1]
    BY <2>2 DEF Shortened
  <2>5. DirEvents(a)'
    <3>1. \A i \in 1..Len(kernel') : kernel'[i].op = "moved" /\ a \in SubApp =>
            ~subThere /\ \A j \in 1..Len(kernel') : j > i => ~Touches(kernel'[j], a)
      <4>1. \A i, j \in 1..Len(kernel') : j > i => j + 1 > i + 1
        OBVIOUS
      <4>. QED
        BY <2>1, <2>4, <4>1 DEF DirEvents
    <3>2. \A i \in 1..Len(kernel') : kernel'[i].op = "appeared" /\ a \in SubApp =>
            \A j \in 1..Len(kernel') : j < i => ~Touches(kernel'[j], a)
      <4>1. \A i, j \in 1..Len(kernel') : j < i => j + 1 < i + 1
        OBVIOUS
      <4>. QED
        BY <2>1, <2>4, <4>1 DEF DirEvents
    <3>3. ASSUME ~subThere, a \in SubApp, \A i \in 1..Len(kernel') : kernel'[i].op # "moved"
          PROVE  Untouched(kernel', a)
      <4>1. CASE ev.op = "moved"
        <5>1. \A j \in 1..Len(kernel) : j > 1 => ~Touches(kernel[j], a)
          BY <1>6, <2>1, <3>3, <4>1 DEF DirEvents, ev
        <5>2. \A i \in 1..Len(kernel') : i + 1 > 1
          OBVIOUS
        <5>. QED
          BY <2>4, <5>1, <5>2 DEF Untouched
      <4>2. CASE ev.op # "moved"
        <5>1. \A i \in 1..Len(kernel) : kernel[i].op # "moved"
          BY <2>2, <3>3, <4>2 DEF Shortened, ev
        <5>. QED
          BY <2>1, <2>2, <3>3, <5>1 DEF DirEvents, Shortened
      <4>. QED
        BY <4>1, <4>2
    <3>4. subThere /\ "sub" \notin watched' /\ a \in SubApp =>
            \A i \in 1..Len(kernel') : Touches(kernel'[i], a) => kernel'[i].op = "appeared"
      BY <1>1, <2>1, <2>4 DEF DirEvents
    <3>. QED
      BY <1>1, <3>1, <3>2, <3>3, <3>4 DEF DirEvents
  <2>6. Untouched(b, a) => (ToldGone(a) => ToldGone(a)') /\ (ToldTruth(a) => ToldTruth(a)')
    <3>1. Untouched(b, a) => \A i \in 1..Len(eventChan') : LastOf(eventChan', i, a) => i \in 1..Len(eventChan)
      BY <2>2 DEF Extended, LastOf
    <3>. QED
      BY <1>1, <2>2, <3>1 DEF Extended, ToldGone, ToldTruth, Begun
  <2>7. ~Touches(ev, a) => Untouched(b, a)
    BY <2>3 DEF FileEventsTell, b
  <2>8. ASSUME NEW i \in 1..Len(kernel'), LastOf(kernel', i, a)
        PROVE  /\ kernel'[i].op = "create" => a \in desktop
               /\ kernel'[i].op = "remove" => a \notin desktop
               /\ kernel'[i].op = "appeared" =>
                    /\ subThere
                    /\ a \notin desktop => ToldGone(a)'
                    /\ "sub" \notin watched' /\ startPc \in {"read", "done"} => ToldGone(a)'
    <3>1. LastOf(kernel, i + 1, a) /\ i + 1 \in 1..Len(kernel) /\ kernel'[i] = kernel[i + 1]
      BY <2>2, <2>8 DEF Shortened
    <3>2. "sub" \notin watched' => "sub" \notin watched
      BY <1>1
    <3>3. CASE kernel'[i].op = "appeared"
      <4>1. kernel[i + 1].app = "dir" /\ a \in SubApp
        BY <1>2, <3>1, <3>3, KernelEvents, RecorderAssumption DEF LastOf, Touches
      <4>2. 1 < i + 1
        OBVIOUS
      <4>3. ~Touches(ev, a)
        BY <1>6, <2>1, <3>1, <3>3, <4>1, <4>2 DEF DirEvents, ev
      <4>4. ToldGone(a) => ToldGone(a)'
        BY <2>6, <2>7, <4>3
      <4>. QED
        BY <2>1, <3>1, <3>2, <3>3, <4>4 DEF KernelTells
    <3>4. CASE kernel'[i].op # "appeared"
      BY <2>1, <3>1, <3>4 DEF KernelTells
    <3>. QED
      BY <3>3, <3>4
  <2>9. ASSUME Untouched(kernel', a) PROVE ToldTruth(a)'
    <3>1. CASE ~Touches(ev, a)
      <4>1. Untouched(kernel, a)
        BY <2>2, <2>9, <3>1 DEF Shortened, ev
      <4>. QED
        BY <2>1, <2>6, <2>7, <3>1, <4>1 DEF KernelTells
    <3>2. CASE Touches(ev, a)
      <4>1. LastOf(kernel, 1, a)
        BY <2>2, <2>9, <3>2 DEF Shortened, ev
      <4>2. /\ ev.op = "create" => a \in desktop
            /\ ev.op = "remove" => a \notin desktop
            /\ ev.op = "appeared" => subThere /\ (a \notin desktop => ToldGone(a))
        BY <1>6, <2>1, <4>1 DEF KernelTells, ev
      <4>3. ev.op = "moved" => ~subThere /\ a \notin desktop
        <5>1. ev.op = "moved" => a \in SubApp
          BY <1>2, <1>6, <3>2, KernelEvents, RecorderAssumption DEF Touches, ev
        <5>. QED
          BY <1>6, <2>1, <5>1 DEF DirEvents, FilesInv, DirAway, ev
      <4>4. ev.op \in {"create", "remove", "moved", "appeared"}
        BY <1>3 DEF KernelEvent
      <4>5. ASSUME ~Untouched(b, a), \A j \in 1..Len(b) : b[j].op = "added" <=> a \in desktop
            PROVE  ToldTruth(a)'
        <5>1. ~Untouched(eventChan', a)
          BY <2>2, <4>5 DEF Extended
        <5>2. \A i \in 1..Len(eventChan') : LastOf(eventChan', i, a) =>
                 (eventChan'[i].op = "added" <=> a \in desktop)
          BY <2>2, <4>5 DEF Extended
        <5>. QED
          BY <1>1, <5>1, <5>2 DEF ToldTruth
      <4>6. ASSUME Untouched(b, a), a \notin desktop, ToldGone(a) PROVE ToldTruth(a)'
        <5>1. ToldGone(a)'
          BY <2>6, <4>6
        <5>. QED
          BY <1>1, <4>6, <5>1 DEF ToldGone, ToldTruth
      <4>7. \/ ~Untouched(b, a) /\ \A j \in 1..Len(b) : b[j].op = "added" <=> a \in desktop
            \/ Untouched(b, a) /\ a \notin desktop /\ ToldGone(a)
        BY <2>3, <3>2, <4>2, <4>3, <4>4 DEF FileEventsTell, b
      <4>. QED
        BY <4>5, <4>6, <4>7
    <3>. QED
      BY <3>1, <3>2
  <2>10. KernelTells(a)'
    BY <1>1, <2>8, <2>9 DEF KernelTells
  <2>. QED
    BY <2>5, <2>10
<1>. QED
  BY <1>1, <1>8, <1>9, <1>10 DEF FilesInv

LEMMA FilesStep ==
  RecInv /\ RecInv' /\ FilesInv /\ [RecNext]_recVars => FilesInv'
<1> SUFFICES ASSUME RecInv, RecInv', FilesInv, [RecNext]_recVars PROVE FilesInv'
  OBVIOUS
<1>1. launchedMap \in [App -> Status] /\ launchedMap' \in [App -> Status]
  BY DEF RecInv, RecTypes
<1>2. ASSUME UNCHANGED <<desktop, subThere, kernel, watched, eventChan, startPc, gapApps,
                         launchedMap>>
      PROVE  FilesInv'
  BY <1>1, <1>2, QueuesStay
<1>3. CASE UNCHANGED recVars
  BY <1>2, <1>3 DEF recVars
<1>4. ASSUME NEW a \in App, CreateFile(a) PROVE FilesInv'
  BY <1>4, FileChangeTells DEF CreateFile
<1>5. ASSUME NEW a \in App, RemoveFile(a) PROVE FilesInv'
  BY <1>5, FileChangeTells DEF RemoveFile
<1>6. ASSUME NEW a \in App, MarkLaunched(a) PROVE FilesInv'
  <2>1. /\ startPc = "done" /\ launchedMap[a] = "new"
        /\ launchedMap' = [launchedMap EXCEPT ![a] = "launched"]
        /\ UNCHANGED <<desktop, subThere, kernel, watched, eventChan, startPc, gapApps>>
    BY <1>6 DEF MarkLaunched, fsVars
  <2>2. \A c \in App : launchedMap'[c] = "none" <=> launchedMap[c] = "none"
    BY <1>1, <2>1
  <2>3. Begun
    BY <2>1 DEF Begun
  <2>. QED
    BY <1>1, <2>1, <2>2, <2>3, QueuesStay
<1>7. ASSUME NEW a \in App, UninstallHint(a) PROVE FilesInv'
  BY <1>2, <1>7 DEF UninstallHint, fsVars
<1>8. CASE Save
  BY <1>2, <1>8 DEF Save, fsVars, mapVars
<1>9. CASE SaveFails
  BY <1>2, <1>9 DEF SaveFails, fsVars, mapVars
<1>10. CASE RequestDirSave
  BY <1>2, <1>10 DEF RequestDirSave, fsVars
<1>. QED
  BY <1>1, <1>3, <1>4, <1>5, <1>6, <1>7, <1>8, <1>9, <1>10, MoveDirTells, NotifyTells,
     ListenEventsTells, AddRootTells, ReadRootTells, WatchSubTells, KillTells DEF RecNext

(* When every event is handled the map of the recorder has an entry for     *)
(* exactly the desktop files there are, for every order of file changes,    *)
(* moves of the directory, looks of the watcher, handled events and kills.  *)
THEOREM MapAlwaysMatchesFiles == RecSpec => []MapMatchesFiles
<1>1. FilesInv => MapMatchesFiles
  <2> SUFFICES ASSUME FilesInv, startPc = "done", kernel = <<>>, eventChan = <<>>,
                      NEW a \in App \ gapApps
               PROVE  launchedMap[a] # "none" <=> a \in desktop
    BY DEF MapMatchesFiles
  <2>1. Untouched(kernel, a) /\ Untouched(eventChan, a) /\ Begun
    BY DEF Untouched, Begun
  <2>2. ToldTruth(a)
    BY <2>1 DEF FilesInv, KernelTells
  <2>. QED
    BY <2>1, <2>2 DEF ToldTruth
<1>. QED
  BY <1>1, RecInvInit, FilesInvInit, RecStep, FileWholeInit, FileWholeStep, FilesStep, PTL DEF RecSpec
=============================================================================
