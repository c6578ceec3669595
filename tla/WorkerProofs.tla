---------------------------- MODULE WorkerProofs ----------------------------
(***************************************************************************)
(* Proofs about two components that hand work to goroutines of their own,  *)
(* for any numbers of them: the workers of the automatic connection agree  *)
(* with its table of devices, for all adapters, devices and limits; and    *)
(* the tasks of the launcher's search, each of which filters what another  *)
(* has found, end with the result for the last key, for all items, keys    *)
(* and searches.                                                           *)
(***************************************************************************)
EXTENDS AutoConnect, LauncherSearch, FiniteSetTheorems, SequenceTheorems, NaturalsInduction,
        WellFoundedInduction, TLAPS

\* The members of a set of naturals have a least one.
LEMMA LeastOf ==
  ASSUME NEW T, T \subseteq Nat, T # {}
  PROVE  \E n \in T : \A m \in T : n <= m
<1> DEFINE R == OpToRel(<, Nat)
<1>1. IsWellFoundedOn(R, Nat)
  BY NatLessThanWellFounded
<1>2. \A n, m \in Nat : <<n, m>> \in R <=> n < m
  BY DEF OpToRel
<1> HIDE DEF R
<1>3. PICK n \in T : \A m \in T : ~(<<m, n>> \in R)
  BY <1>1, WFMin
<1>4. \A m \in T : ~(m < n)
  BY <1>2, <1>3
<1>5. \A m \in T : n <= m
  BY <1>4
<1>. QED
  BY <1>5

-----------------------------------------------------------------------------
(* The automatic connection.                                               *)
WorkerPc == {"getDevice", "connect", "putDevice", "removeDevice", "putId", "check"}

\* A worker that is alive has an adapter and an id, and while it connects a
\* device.
WorkerTypes ==
  /\ DOMAIN worker = Slot
  /\ \A w \in Slot : worker[w] = [pc |-> worker[w].pc, adapter |-> worker[w].adapter,
                                  id |-> worker[w].id, device |-> worker[w].device]
  /\ \A w \in Slot : Alive(w) =>
       /\ worker[w].pc \in WorkerPc
       /\ worker[w].adapter \in Adapter
       /\ worker[w].id \in WId
       /\ Connecting(w) => worker[w].device \in Device

TableTypes ==
  /\ listed \subseteq Device
  /\ takenBy \in [Device -> Nat]
  /\ workerIds \in [Adapter -> SUBSET WId]
  /\ present \subseteq Adapter
  /\ adds \in Nat

\* The worker that has a device has the id the device is marked with, so that
\* one that gives up a device it no longer owns does not free it.
TakenHeld ==
  \A d \in listed : takenBy[d] # 0 =>
     \E w \in Slot : Connecting(w) /\ worker[w].device = d /\ worker[w].id = takenBy[d]

ListedPresent == \A d \in listed : AdapterOf[d] \in present

\* As long as no adapter came back, a device with a worker is marked or its
\* adapter is gone for good.
HeldMarked ==
  adds = 0 => \A w \in Slot : Connecting(w) =>
     \/ worker[w].device \in listed /\ takenBy[worker[w].device] # 0
     \/ AdapterOf[worker[w].device] \notin present

\* An id in use belongs to a worker of the adapter that will give it back.
IdsHeld ==
  \A a \in present : \A i \in workerIds[a] :
     \E w \in Slot : /\ worker[w].pc \in WorkerPc \ {"check"}
                     /\ worker[w].adapter = a /\ worker[w].id = i

\* An adapter whose devices a worker has connected is present, and on unless
\* it was switched off since.
BeganPresent == began \subseteq present /\ began \cap off \subseteq dark

AutoInv ==
  /\ WorkerTypes /\ TableTypes
  /\ TakenHeld /\ ListedPresent /\ HeldMarked /\ ConnectedByOne
  /\ IdsHeld /\ BeganPresent /\ DiscoveryResumes

-----------------------------------------------------------------------------
\* What StartWorkers does: new workers of the adapter a, each with an id of
\* its own that is in use from now on.
NewWorker(a, i) == [pc |-> "getDevice", adapter |-> a, device |-> NoDevice, id |-> i]

Started(a) ==
  /\ DOMAIN worker' = Slot
  /\ \A w \in Slot : \/ worker'[w] = worker[w]
                     \/ ~Alive(w) /\ \E i \in WId : worker'[w] = NewWorker(a, i)
  /\ workerIds' \in [Adapter -> SUBSET WId]
  /\ \A b \in Adapter : \A i \in workerIds'[b] :
       \/ i \in workerIds[b]
       \/ b = a /\ \E w \in Slot : worker'[w] = NewWorker(a, i)

\* Ids and slots of the same number can be paired.
LEMMA Paired ==
  ASSUME NEW S, NEW T, IsFiniteSet(S), IsFiniteSet(T), Cardinality(S) = Cardinality(T)
  PROVE  LET f == CHOOSE g \in Bijection(S, T) : TRUE
         IN /\ \A s \in S : f[s] \in T
            /\ \A t \in T : \E s \in S : f[s] = t
<1>1. ExistsBijection(S, T)
  BY FS_SameCardinalityBij
<1>2. PICK h : h \in Bijection(S, T)
  BY <1>1 DEF ExistsBijection
<1> DEFINE f == CHOOSE g \in Bijection(S, T) : TRUE
<1>3. f \in Bijection(S, T)
  BY <1>2
<1> HIDE DEF f
<1>4. /\ f \in [S -> T]
      /\ \A t \in T : \E s \in S : f[s] = t
  BY <1>3 DEF Bijection, Injection, Surjection
<1>. QED
  BY <1>4 DEF f

LEMMA StartWorkersStarts ==
  ASSUME WorkerTypes, TableTypes, NEW a \in Adapter, NEW free, StartWorkers(a, free)
  PROVE  Started(a)
<1>1. CASE UNCHANGED <<worker, workerIds>>
  BY <1>1 DEF Started, WorkerTypes, TableTypes
<1>2. CASE ~(a \notin present \/ EvalNumWorkers(a, free) <= 0)
  <2> DEFINE num == EvalNumWorkers(a, free)
             ids == Lowest(WId \ workerIds[a], num)
             new == Lowest({w \in Slot : ~Alive(w)}, num)
             idOf == CHOOSE f \in Bijection(new, ids) : TRUE
  <2>1. /\ Cardinality(new) = Cardinality(ids)
        /\ worker' = [w \in Slot |-> IF w \in new
             THEN [pc |-> "getDevice", adapter |-> a, device |-> NoDevice, id |-> idOf[w]]
             ELSE worker[w]]
        /\ workerIds' = [workerIds EXCEPT ![a] = @ \cup ids]
    BY <1>2 DEF StartWorkers
  <2>2. new \subseteq {w \in Slot : ~Alive(w)} /\ ids \subseteq WId
    BY DEF Lowest
  <2>3. IsFiniteSet(new)
    BY <2>2, AutoConnectAssumption, FS_Subset
  <2>4. IsFiniteSet(WId)
    BY AutoConnectAssumption, FS_Interval DEF WId
  <2>5. IsFiniteSet(ids)
    BY <2>2, <2>4, FS_Subset
  <2> HIDE DEF new, ids, num
  <2>6. /\ \A w \in new : idOf[w] \in ids
        /\ \A i \in ids : \E w \in new : idOf[w] = i
    BY <2>1, <2>3, <2>5, Paired
  <2> HIDE DEF idOf
  <2>7. \A w \in new : worker'[w] = NewWorker(a, idOf[w])
    BY <2>1, <2>2 DEF NewWorker
  <2>8. \A w \in Slot \ new : worker'[w] = worker[w]
    BY <2>1
  <2>9. workerIds' \in [Adapter -> SUBSET WId]
    BY <2>1, <2>2 DEF TableTypes
  <2>10. \A b \in Adapter : \A i \in workerIds'[b] : i \in workerIds[b] \/ (b = a /\ i \in ids)
    BY <2>1 DEF TableTypes
  <2>11. \A i \in ids : \E w \in Slot : worker'[w] = NewWorker(a, i)
    BY <2>2, <2>6, <2>7
  <2>12. DOMAIN worker' = Slot
    BY <2>1
  <2>13. \A w \in new : ~Alive(w) /\ \E i \in WId : worker'[w] = NewWorker(a, i)
    BY <2>2, <2>6, <2>7
  <2>. QED
    BY <2>8, <2>9, <2>10, <2>11, <2>12, <2>13 DEF Started
<1>. QED
  BY <1>1, <1>2 DEF StartWorkers

\* New workers hold no device, and the others are as they were.
LEMMA StartedKeeps ==
  ASSUME WorkerTypes, NEW a \in Adapter, Started(a)
  PROVE  /\ WorkerTypes'
         /\ \A w \in Slot : Connecting(w)' <=> Connecting(w)
         /\ \A w \in Slot : Alive(w) => worker'[w] = worker[w]
         /\ \A w \in Slot : Alive(w) => Alive(w)'
<1>1. ASSUME NEW w \in Slot, NEW i \in WId, worker'[w] = NewWorker(a, i)
      PROVE  /\ worker'[w].pc = "getDevice" /\ worker'[w].adapter = a
             /\ worker'[w].id = i /\ worker'[w].device = NoDevice
             /\ worker'[w] = [pc |-> worker'[w].pc, adapter |-> worker'[w].adapter,
                              id |-> worker'[w].id, device |-> worker'[w].device]
  BY <1>1 DEF NewWorker
<1>2. \A w \in Slot : Alive(w) => worker'[w] = worker[w]
  BY DEF Started
<1>3. \A w \in Slot : Connecting(w)' <=> Connecting(w)
  BY <1>1 DEF Started, Connecting, Alive
<1>4. \A w \in Slot : Alive(w) => Alive(w)'
  BY <1>2 DEF Alive
<1>5. WorkerTypes'
  <2>1. DOMAIN worker' = Slot
    BY DEF Started
  <2>2. SUFFICES ASSUME NEW w \in Slot
        PROVE /\ worker'[w] = [pc |-> worker'[w].pc, adapter |-> worker'[w].adapter,
                               id |-> worker'[w].id, device |-> worker'[w].device]
              /\ Alive(w)' => /\ worker'[w].pc \in WorkerPc
                              /\ worker'[w].adapter \in Adapter
                              /\ worker'[w].id \in WId
                              /\ Connecting(w)' => worker'[w].device \in Device
    BY <2>1 DEF WorkerTypes
  <2>3. CASE worker'[w] = worker[w]
    BY <2>3 DEF WorkerTypes, Alive, Connecting
  <2>4. CASE \E i \in WId : worker'[w] = NewWorker(a, i)
    BY <2>4, <1>1 DEF WorkerPc, Alive, Connecting
  <2>. QED
    BY <2>3, <2>4 DEF Started
<1>. QED
  BY <1>2, <1>3, <1>4, <1>5

\* The steps that may list devices and start workers for them.
LEMMA ListingKeeps ==
  ASSUME AutoInv, NEW a \in Adapter, Started(a),
         listed \subseteq listed', listed' \subseteq Device, takenBy' \in [Device -> Nat],
         \A d \in listed : takenBy'[d] = takenBy[d],
         \A d \in listed' \ listed : takenBy'[d] = 0 /\ AdapterOf[d] \in present,
         finished \subseteq finished', UNCHANGED <<present, adds, began, crossed, off, dark>>
  PROVE  AutoInv'
<1> USE DEF AutoInv
<1>1. /\ WorkerTypes'
      /\ \A w \in Slot : Connecting(w)' <=> Connecting(w)
      /\ \A w \in Slot : Alive(w) => worker'[w] = worker[w]
      /\ \A w \in Slot : Alive(w) => Alive(w)'
  BY StartedKeeps
<1>2. TableTypes'
  BY DEF TableTypes, Started
<1>3. \A w \in Slot : Connecting(w) => worker'[w] = worker[w]
  BY <1>1 DEF Connecting, Alive
<1>4. TakenHeld'
  BY <1>1, <1>3 DEF TakenHeld
<1>5. ListedPresent'
  BY DEF ListedPresent
<1>6. HeldMarked'
  BY <1>1, <1>3 DEF HeldMarked
<1>7. ConnectedByOne'
  BY <1>1, <1>3 DEF ConnectedByOne
<1>8. IdsHeld'
  <2> SUFFICES ASSUME NEW b \in present', NEW i \in workerIds'[b]
               PROVE  \E w \in Slot : /\ worker'[w].pc \in WorkerPc \ {"check"}
                                      /\ worker'[w].adapter = b /\ worker'[w].id = i
    BY DEF IdsHeld
  <2>1. b \in Adapter
    BY DEF TableTypes
  <2>2. CASE i \in workerIds[b]
    <3>1. PICK w \in Slot : /\ worker[w].pc \in WorkerPc \ {"check"}
                            /\ worker[w].adapter = b /\ worker[w].id = i
      BY <2>2 DEF IdsHeld
    <3>2. Alive(w)
      BY <3>1 DEF Alive, WorkerPc
    <3>. QED
      BY <1>1, <3>1, <3>2
  <2>3. CASE b = a /\ \E w \in Slot : worker'[w] = NewWorker(a, i)
    BY <2>3 DEF NewWorker, WorkerPc
  <2>. QED
    BY <2>1, <2>2, <2>3 DEF Started
<1>9. BeganPresent'
  BY DEF BeganPresent
<1>10. DiscoveryResumes'
  <2>1. \A b : WorkersOf(b) \subseteq WorkersOf(b)'
    BY <1>1 DEF WorkersOf
  <2>. QED
    BY <2>1 DEF DiscoveryResumes
<1>. QED
  BY <1>1, <1>2, <1>4, <1>5, <1>6, <1>7, <1>8, <1>9, <1>10

\* A step that starts no worker.
LEMMA NobodyStarted ==
  ASSUME WorkerTypes, TableTypes, NEW a \in Adapter, UNCHANGED <<worker, workerIds>>
  PROVE  Started(a)
BY DEF WorkerTypes, TableTypes, Started

LEMMA AddDevicesKeeps ==
  ASSUME AutoInv, NEW a \in Adapter, AddDevices(a)
  PROVE  AutoInv'
<1>0. WorkerTypes /\ TableTypes
  BY DEF AutoInv
<1> DEFINE new == {d \in Device : AdapterOf[d] = a /\ d \notin connected}
           fresh == [d \in Device |-> IF d \in new \ listed THEN 0 ELSE takenBy[d]]
<1>1. CASE /\ UNCHANGED <<acmVars, worker>> /\ finished \subseteq finished'
           /\ UNCHANGED <<adds, began, crossed, off, dark>>
  <2>1. Started(a)
    BY <1>0, <1>1, NobodyStarted DEF acmVars
  <2>2. /\ UNCHANGED <<listed, takenBy, present, adds, began, crossed, off, dark>>
        /\ finished \subseteq finished'
    BY <1>1 DEF acmVars
  <2>3. listed' \subseteq Device /\ takenBy' \in [Device -> Nat]
    BY <1>0, <2>2 DEF TableTypes
  <2>. QED
    BY <2>1, <2>2, <2>3, ListingKeeps
<1>2. CASE a \in present /\ new # {}
  <2>1. /\ listed' = listed \cup new
        /\ takenBy' = fresh
        /\ UNCHANGED <<present, finished, adds, began, crossed, off, dark>>
    BY <1>2 DEF AddDevices, powerVars
  <2>2. \/ StartWorkers(a, Free(listed', takenBy', tried'))
        \/ UNCHANGED <<worker, workerIds>>
    BY <1>2 DEF AddDevices
  <2>3. Started(a)
    BY <1>0, <2>2, StartWorkersStarts, NobodyStarted
  <2>4. /\ listed \subseteq listed' /\ listed' \subseteq Device
        /\ takenBy' \in [Device -> Nat]
    BY <1>0, <2>1 DEF TableTypes
  <2>5. \A d \in listed : takenBy'[d] = takenBy[d]
    BY <1>0, <2>1 DEF TableTypes
  <2>6. \A d \in listed' \ listed : takenBy'[d] = 0 /\ AdapterOf[d] \in present
    BY <1>2, <2>1
  <2>. QED
    BY <2>1, <2>3, <2>4, <2>5, <2>6, ListingKeeps
<1>3. CASE ~(a \in present /\ new # {})
  BY <1>1, <1>3 DEF AddDevices, StartDiscovery, powerVars
<1>. QED
  BY <1>2, <1>3

LEMMA TimerExpiredKeeps ==
  ASSUME AutoInv, NEW a \in Adapter, TimerExpired(a)
  PROVE  AutoInv'
<1>1. WorkerTypes /\ TableTypes
  BY DEF AutoInv
<1>2. /\ StartWorkers(a, Free(listed, takenBy, tried))
      /\ UNCHANGED <<listed, takenBy, present, finished, adds, began, crossed, off, dark>>
  BY DEF TimerExpired, powerVars
<1>3. Started(a)
  BY <1>1, <1>2, StartWorkersStarts
<1>4. listed' \subseteq Device /\ takenBy' \in [Device -> Nat]
  BY <1>1, <1>2 DEF TableTypes
<1>. QED
  BY <1>2, <1>3, <1>4, ListingKeeps

LEMMA DeviceEventKeeps ==
  ASSUME AutoInv, NEW d \in Device, NEW removed \in BOOLEAN, HandleDeviceEvent(d, removed)
  PROVE  AutoInv'
<1> DEFINE a == AdapterOf[d]
<1>0. a \in Adapter
  BY AutoConnectAssumption
<1>1. WorkerTypes /\ TableTypes
  BY DEF AutoInv
<1>2. /\ \/ StartWorkers(a, Free(listed, takenBy, tried))
         \/ UNCHANGED <<worker, workerIds>>
      /\ UNCHANGED <<listed, takenBy, present, finished, adds, began, crossed, off, dark>>
  BY DEF HandleDeviceEvent
<1> HIDE DEF a
<1>3. Started(a)
  BY <1>0, <1>1, <1>2, StartWorkersStarts, NobodyStarted
<1>4. listed' \subseteq Device /\ takenBy' \in [Device -> Nat]
  BY <1>1, <1>2 DEF TableTypes
<1>. QED
  BY <1>0, <1>2, <1>3, <1>4, ListingKeeps

\* An adapter that comes back has no ids in use, and it was not begun.
LEMMA AddAdapterKeeps ==
  ASSUME AutoInv, NEW a \in Adapter, NEW on \in BOOLEAN, AddAdapter(a, on)
  PROVE  AutoInv'
<1> USE DEF AutoInv
<1>1. /\ a \notin present /\ present' = present \cup {a} /\ adds' = adds + 1
      /\ workerIds' = [workerIds EXCEPT ![a] = {}]
      /\ \A b \in off' : b \in off \/ b = a
      /\ UNCHANGED <<listed, takenBy, worker, finished, began, crossed, dark>>
  BY DEF AddAdapter
<1>2. adds' # 0 /\ adds' \in Nat
  BY <1>1 DEF TableTypes
<1>3. workerIds'[a] = {} /\ \A b \in Adapter \ {a} : workerIds'[b] = workerIds[b]
  BY <1>1 DEF TableTypes
<1>4. workerIds' \in [Adapter -> SUBSET WId]
  BY <1>1 DEF TableTypes
<1>5. WorkerTypes' /\ TableTypes'
  BY <1>1, <1>2, <1>4 DEF WorkerTypes, TableTypes, Alive, Connecting
<1>6. TakenHeld' /\ ListedPresent' /\ HeldMarked' /\ ConnectedByOne'
  BY <1>1, <1>2 DEF TakenHeld, ListedPresent, HeldMarked, ConnectedByOne, Connecting
<1>7. IdsHeld'
  BY <1>1, <1>3 DEF IdsHeld, TableTypes
<1>8. BeganPresent' /\ a \notin began'
  BY <1>1 DEF BeganPresent
<1>9. DiscoveryResumes'
  BY <1>1, <1>8 DEF DiscoveryResumes, WorkersOf, Alive
<1>. QED
  BY <1>5, <1>6, <1>7, <1>8, <1>9

LEMMA RemoveAdapterKeeps ==
  ASSUME AutoInv, NEW a \in Adapter, RemoveAdapter(a)
  PROVE  AutoInv'
<1> USE DEF AutoInv
<1>1. /\ present' = present \ {a} /\ began' = began \ {a} /\ finished' = finished \ {a}
      /\ listed' = listed \ {d \in Device : AdapterOf[d] = a}
      /\ UNCHANGED <<takenBy, workerIds, worker, adds, crossed, off, dark>>
  BY DEF RemoveAdapter, powerVars
<1>2. WorkerTypes' /\ TableTypes'
  BY <1>1 DEF WorkerTypes, TableTypes, Alive, Connecting
<1>3. TakenHeld' /\ ConnectedByOne'
  BY <1>1 DEF TakenHeld, ConnectedByOne, Connecting
<1>4. ListedPresent'
  BY <1>1 DEF ListedPresent, TableTypes
<1>5. HeldMarked'
  BY <1>1 DEF HeldMarked, Connecting
<1>6. IdsHeld' /\ BeganPresent'
  BY <1>1 DEF IdsHeld, BeganPresent
<1>7. DiscoveryResumes'
  BY <1>1 DEF DiscoveryResumes, WorkersOf, Alive
<1>. QED
  BY <1>2, <1>3, <1>4, <1>5, <1>6, <1>7

\* An adapter that is switched off is dark.
LEMMA PowerKeeps ==
  ASSUME AutoInv, NEW a \in Adapter, PowerOff(a) \/ PowerOn(a)
  PROVE  AutoInv'
<1>1. /\ off' \cap began \subseteq dark' /\ dark \subseteq dark'
      /\ UNCHANGED <<listed, takenBy, workerIds, present, worker, finished, adds, began, crossed>>
  BY DEF AutoInv, BeganPresent, PowerOff, PowerOn, acmVars
<1>2. WorkerTypes' /\ TableTypes' /\ IdsHeld' /\ BeganPresent'
  BY <1>1 DEF AutoInv, WorkerTypes, TableTypes, IdsHeld, BeganPresent, Alive, Connecting
<1>3. TakenHeld' /\ ListedPresent' /\ HeldMarked' /\ ConnectedByOne'
  BY <1>1 DEF AutoInv, TakenHeld, ListedPresent, HeldMarked, ConnectedByOne, Connecting
<1>4. DiscoveryResumes'
  BY <1>1 DEF AutoInv, DiscoveryResumes, WorkersOf, Alive
<1>. QED
  BY <1>2, <1>3, <1>4 DEF AutoInv

-----------------------------------------------------------------------------
\* The worker w takes a step to pc with the device d.
Moved(w, pc, d) ==
  /\ DOMAIN worker' = Slot
  /\ \A v \in Slot \ {w} : worker'[v] = worker[v]
  /\ worker'[w] = [pc |-> pc, adapter |-> worker[w].adapter, id |-> worker[w].id,
                   device |-> d]

LEMMA GoesMoves ==
  ASSUME WorkerTypes, NEW w \in Slot, NEW pc, NEW d,
         \/ worker' = [worker EXCEPT ![w].pc = pc, ![w].device = d]
         \/ Goes(w, pc) /\ d = worker[w].device
  PROVE  Moved(w, pc, d)
BY DEF WorkerTypes, Moved, Goes

LEMMA MovedTypes ==
  ASSUME WorkerTypes, NEW w \in Slot, Alive(w), NEW pc \in WorkerPc, NEW d, Moved(w, pc, d),
         pc \in {"connect", "putDevice", "removeDevice"} => d \in Device
  PROVE  /\ WorkerTypes'
         /\ Alive(w)'
         /\ Connecting(w)' <=> pc \in {"connect", "putDevice", "removeDevice"}
         /\ \A v \in Slot \ {w} : (Connecting(v)' <=> Connecting(v)) /\ (Alive(v)' <=> Alive(v))
         /\ \A a : WorkersOf(a)' = WorkersOf(a)
<1>1. /\ worker'[w].pc = pc /\ worker'[w].adapter = worker[w].adapter
      /\ worker'[w].id = worker[w].id /\ worker'[w].device = d
  BY DEF Moved
<1>2. Alive(w)' /\ (Connecting(w)' <=> pc \in {"connect", "putDevice", "removeDevice"})
  BY <1>1 DEF Alive, Connecting, WorkerPc
<1>3. \A v \in Slot \ {w} : (Connecting(v)' <=> Connecting(v)) /\ (Alive(v)' <=> Alive(v))
  BY DEF Moved, Alive, Connecting
<1>4. WorkerTypes'
  <2>1. DOMAIN worker' = Slot
    BY DEF Moved
  <2>2. \A v \in Slot : worker'[v] = [pc |-> worker'[v].pc, adapter |-> worker'[v].adapter,
                                      id |-> worker'[v].id, device |-> worker'[v].device]
    BY DEF Moved, WorkerTypes
  <2>3. ASSUME NEW v \in Slot, Alive(v)'
        PROVE  /\ worker'[v].pc \in WorkerPc
               /\ worker'[v].adapter \in Adapter
               /\ worker'[v].id \in WId
               /\ Connecting(v)' => worker'[v].device \in Device
    BY <1>1, <1>2, <1>3, <2>3 DEF Moved, WorkerTypes
  <2>. QED
    BY <2>1, <2>2, <2>3 DEF WorkerTypes
<1>5. \A a : WorkersOf(a)' = WorkersOf(a)
  BY <1>1, <1>2, <1>3 DEF WorkersOf, Moved
<1>. QED
  BY <1>2, <1>3, <1>4, <1>5

\* A step of a worker that keeps its id leaves ids and discovery in order.
LEMMA MovedIds ==
  ASSUME WorkerTypes, IdsHeld, DiscoveryResumes, NEW w \in Slot, Alive(w),
         NEW pc \in WorkerPc \ {"check"}, NEW d, Moved(w, pc, d),
         pc \in {"connect", "putDevice", "removeDevice"} => d \in Device,
         UNCHANGED <<workerIds, present, began, crossed, dark, finished>>
  PROVE  IdsHeld' /\ DiscoveryResumes'
<1>1. \A a : WorkersOf(a)' = WorkersOf(a)
  BY MovedTypes
<1>2. DiscoveryResumes'
  BY <1>1 DEF DiscoveryResumes
<1>3. \A v \in Slot : worker[v].pc \in WorkerPc \ {"check"} =>
         /\ worker'[v].pc \in WorkerPc \ {"check"}
         /\ worker'[v].adapter = worker[v].adapter /\ worker'[v].id = worker[v].id
  BY DEF Moved
<1>4. IdsHeld'
  BY <1>3 DEF IdsHeld
<1>. QED
  BY <1>2, <1>4

\* A free device has no worker, so the one that takes it is the only one.
LEMMA GetDeviceKeeps ==
  ASSUME AutoInv, NEW w \in Slot, GetDevice(w)
  PROVE  AutoInv'
<1> USE DEF AutoInv
<1>1. PICK d \in Free(listed, takenBy, tried) :
        /\ worker' = [worker EXCEPT ![w].pc = "connect", ![w].device = d]
        /\ takenBy' = [takenBy EXCEPT ![d] = worker[w].id]
  BY DEF GetDevice
<1>2. /\ worker[w].pc = "getDevice"
      /\ UNCHANGED <<listed, workerIds, present, finished, adds, began, crossed, off, dark>>
  BY DEF GetDevice, At, btVars, powerVars
<1>3. d \in listed /\ d \in Device /\ takenBy[d] = 0
  BY DEF Free, TableTypes
<1>4. Alive(w) /\ ~Connecting(w) /\ worker[w].id \in WId /\ worker[w].id # 0
  BY <1>2, AutoConnectAssumption DEF Alive, Connecting, WorkerTypes, WId
<1>5. Moved(w, "connect", d)
  BY <1>1, GoesMoves
<1>6. /\ takenBy'[d] = worker[w].id
      /\ \A e \in Device \ {d} : takenBy'[e] = takenBy[e]
      /\ takenBy' \in [Device -> Nat]
  BY <1>1, <1>3, <1>4 DEF TableTypes, WId
<1> HIDE DEF AutoInv
<1>7. /\ WorkerTypes' /\ Connecting(w)'
      /\ \A v \in Slot \ {w} : Connecting(v)' <=> Connecting(v)
  BY <1>3, <1>4, <1>5, MovedTypes DEF WorkerPc, AutoInv
<1>8. IdsHeld' /\ DiscoveryResumes'
  BY <1>2, <1>3, <1>4, <1>5, MovedIds DEF WorkerPc, AutoInv
<1>9. TableTypes' /\ ListedPresent' /\ BeganPresent'
  BY <1>2, <1>6 DEF AutoInv, TableTypes, ListedPresent, BeganPresent
<1>10. /\ \A v \in Slot \ {w} : worker'[v] = worker[v]
       /\ worker'[w].device = d /\ worker'[w].id = worker[w].id
  BY <1>5 DEF Moved
<1>11. TakenHeld'
  <2> SUFFICES ASSUME NEW e \in listed, takenBy'[e] # 0
               PROVE  \E v \in Slot : /\ Connecting(v)' /\ worker'[v].device = e
                                      /\ worker'[v].id = takenBy'[e]
    BY <1>2 DEF TakenHeld
  <2>1. CASE e = d
    BY <1>6, <1>7, <1>10, <2>1
  <2>2. CASE e # d
    BY <1>4, <1>6, <1>7, <1>10, <2>2 DEF AutoInv, TakenHeld, TableTypes
  <2>. QED
    BY <2>1, <2>2
<1>12. adds = 0 => \A v \in Slot : Connecting(v) => worker[v].device # d
  BY <1>3 DEF AutoInv, HeldMarked, ListedPresent
<1>13. HeldMarked'
  <2> SUFFICES ASSUME adds = 0, NEW v \in Slot, Connecting(v)'
               PROVE  \/ worker'[v].device \in listed /\ takenBy'[worker'[v].device] # 0
                      \/ AdapterOf[worker'[v].device] \notin present
    BY <1>2 DEF HeldMarked
  <2>1. CASE v = w
    BY <1>3, <1>4, <1>6, <1>10, <2>1
  <2>2. CASE v # w
    BY <1>6, <1>7, <1>10, <1>12, <2>2 DEF AutoInv, HeldMarked, TableTypes
  <2>. QED
    BY <2>1, <2>2
<1>14. ConnectedByOne'
  BY <1>2, <1>7, <1>10, <1>12 DEF AutoInv, ConnectedByOne
<1>. QED
  BY <1>7, <1>8, <1>9, <1>11, <1>13, <1>14 DEF AutoInv

\* A worker that goes on, with a device or without, as before.
LEMMA GoingOnKeeps ==
  ASSUME AutoInv, NEW w \in Slot, Alive(w), NEW pc \in WorkerPc, Goes(w, pc),
         Connecting(w) <=> pc \in {"connect", "putDevice", "removeDevice"},
         UNCHANGED <<listed, takenBy, present, adds>>
  PROVE  /\ WorkerTypes' /\ TakenHeld' /\ ListedPresent' /\ HeldMarked' /\ ConnectedByOne'
         /\ Moved(w, pc, worker[w].device)
         /\ \A a : WorkersOf(a)' = WorkersOf(a)
<1>1. Moved(w, pc, worker[w].device)
  BY GoesMoves DEF AutoInv
<1>2. Connecting(w) => worker[w].device \in Device
  BY DEF AutoInv, WorkerTypes
<1>3. /\ WorkerTypes'
      /\ \A v \in Slot : Connecting(v)' <=> Connecting(v)
      /\ \A a : WorkersOf(a)' = WorkersOf(a)
  BY <1>1, <1>2, MovedTypes DEF AutoInv
<1>4. \A v \in Slot : worker'[v].device = worker[v].device /\ worker'[v].id = worker[v].id
  BY <1>1 DEF Moved
<1>5. TakenHeld' /\ ListedPresent'
  BY <1>3, <1>4 DEF AutoInv, TakenHeld, ListedPresent
<1>6. HeldMarked'
  BY <1>3, <1>4 DEF AutoInv, HeldMarked
<1>7. ConnectedByOne'
  BY <1>3, <1>4 DEF AutoInv, ConnectedByOne
<1>. QED
  BY <1>1, <1>3, <1>5, <1>6, <1>7

LEMMA GetNoDeviceKeeps ==
  ASSUME AutoInv, NEW w \in Slot, GetNoDevice(w)
  PROVE  AutoInv'
<1>1. /\ worker[w].pc = "getDevice" /\ Goes(w, "putId")
      /\ UNCHANGED <<listed, takenBy, workerIds, present, finished, adds, began, crossed, off, dark>>
  BY DEF GetNoDevice, At, acmVars, btVars, powerVars
<1>2. Alive(w) /\ ~Connecting(w)
  BY <1>1 DEF Alive, Connecting
<1>3. /\ WorkerTypes' /\ TakenHeld' /\ ListedPresent' /\ HeldMarked' /\ ConnectedByOne'
      /\ Moved(w, "putId", worker[w].device)
  BY <1>1, <1>2, GoingOnKeeps DEF WorkerPc
<1>4. IdsHeld' /\ DiscoveryResumes'
  BY <1>1, <1>2, <1>3, MovedIds DEF WorkerPc, AutoInv
<1>5. TableTypes' /\ BeganPresent'
  BY <1>1 DEF AutoInv, TableTypes, BeganPresent
<1>. QED
  BY <1>3, <1>4, <1>5 DEF AutoInv

\* Connecting holds discovery back, for the adapter of the worker or for one
\* that is crossed from now on.
LEMMA ConnectKeeps ==
  ASSUME AutoInv, NEW w \in Slot, NEW outcome, Connect(w, outcome)
  PROVE  AutoInv'
<1> DEFINE a == AdapterOf[worker[w].device]
<1>1. PICK pc \in {"removeDevice", "putDevice"} : Goes(w, pc)
  BY DEF Connect
<1>2. /\ worker[w].pc = "connect"
      /\ UNCHANGED <<listed, takenBy, workerIds, present, adds>>
      /\ finished \ {a} \subseteq finished'
      /\ began \subseteq began' /\ began' \subseteq began \cup ({a} \cap (present \ off))
      /\ dark \ ({a} \cap (present \ off)) \subseteq dark'
      /\ off' = off
      /\ crossed' = IF worker[w].adapter = a THEN crossed ELSE crossed \cup {a}
  BY DEF Connect, At, acmVars
<1>3. Alive(w) /\ Connecting(w)
  BY <1>2 DEF Alive, Connecting
<1>4. /\ WorkerTypes' /\ TakenHeld' /\ ListedPresent' /\ HeldMarked' /\ ConnectedByOne'
      /\ Moved(w, pc, worker[w].device)
      /\ \A b : WorkersOf(b)' = WorkersOf(b)
  BY <1>1, <1>2, <1>3, GoingOnKeeps DEF WorkerPc
<1>5. IdsHeld'
  <2>1. \A v \in Slot : worker[v].pc \in WorkerPc \ {"check"} =>
         /\ worker'[v].pc \in WorkerPc \ {"check"}
         /\ worker'[v].adapter = worker[v].adapter /\ worker'[v].id = worker[v].id
    BY <1>4 DEF Moved, WorkerPc
  <2>. QED
    BY <1>2, <2>1 DEF AutoInv, IdsHeld
<1>6. TableTypes' /\ BeganPresent'
  BY <1>2 DEF AutoInv, TableTypes, BeganPresent
<1>7. DiscoveryResumes'
  <2> SUFFICES ASSUME NEW b \in (began' \cap present') \ (crossed' \cup dark'), WorkersOf(b)' = {}
               PROVE  b \in finished'
    BY DEF DiscoveryResumes
  <2> HIDE DEF a
  <2>1. WorkersOf(b) = {}
    BY <1>4
  <2>2. worker[w].adapter # b
    BY <1>3, <2>1 DEF WorkersOf
  <2>3. b # a
    BY <1>2, <2>2
  <2>. QED
    BY <1>2, <2>1, <2>3 DEF AutoInv, DiscoveryResumes
<1>. QED
  BY <1>4, <1>5, <1>6, <1>7 DEF AutoInv

\* A worker gives up its device d, which is then marked as taken only if
\* another worker has it, with the id of the mark.
LEMMA GivingUpKeeps ==
  ASSUME AutoInv, NEW w \in Slot, Connecting(w),
         worker' = [worker EXCEPT ![w].pc = "getDevice", ![w].device = NoDevice],
         listed' \subseteq listed, takenBy' \in [Device -> Nat],
         \A e \in Device : e # worker[w].device =>
            takenBy'[e] = takenBy[e] /\ (e \in listed' <=> e \in listed),
         worker[w].device \in listed' =>
            \/ takenBy'[worker[w].device] = 0
            \/ /\ takenBy'[worker[w].device] = takenBy[worker[w].device]
               /\ takenBy[worker[w].device] # worker[w].id,
         UNCHANGED <<workerIds, present, finished, adds, began, crossed, off, dark>>
  PROVE  AutoInv'
<1> DEFINE d == worker[w].device
<1>1. Alive(w) /\ d \in Device
  BY DEF AutoInv, WorkerTypes, Alive, Connecting
<1>2. Moved(w, "getDevice", NoDevice)
  BY GoesMoves DEF AutoInv
<1>3. /\ WorkerTypes' /\ ~Connecting(w)'
      /\ \A v \in Slot \ {w} : Connecting(v)' <=> Connecting(v)
  BY <1>1, <1>2, MovedTypes DEF WorkerPc, AutoInv
<1>4. IdsHeld' /\ DiscoveryResumes'
  BY <1>1, <1>2, MovedIds DEF WorkerPc, AutoInv
<1>5. TableTypes' /\ ListedPresent' /\ BeganPresent'
  BY DEF AutoInv, TableTypes, ListedPresent, BeganPresent
<1>6. \A v \in Slot \ {w} : worker'[v] = worker[v]
  BY <1>2 DEF Moved
<1>7. TakenHeld'
  <2> SUFFICES ASSUME NEW e \in listed', takenBy'[e] # 0
               PROVE  \E v \in Slot : /\ Connecting(v)' /\ worker'[v].device = e
                                      /\ worker'[v].id = takenBy'[e]
    BY DEF TakenHeld
  <2>1. e \in Device /\ takenBy'[e] = takenBy[e] /\ (e = d => takenBy[e] # worker[w].id)
    BY DEF AutoInv, TableTypes
  <2>2. PICK v \in Slot : Connecting(v) /\ worker[v].device = e /\ worker[v].id = takenBy[e]
    BY <2>1 DEF AutoInv, TakenHeld
  <2>3. v # w
    BY <2>1, <2>2
  <2>. QED
    BY <1>3, <1>6, <2>1, <2>2, <2>3
<1>8. adds = 0 => \A v \in Slot \ {w} : Connecting(v) => worker[v].device # d
  BY DEF AutoInv, ConnectedByOne
<1>9. \A v \in Slot : Connecting(v) => worker[v].device \in Device
  BY DEF AutoInv, WorkerTypes, Alive, Connecting
<1>10. HeldMarked'
  <2> SUFFICES ASSUME adds = 0, NEW v \in Slot, Connecting(v)'
               PROVE  \/ worker'[v].device \in listed' /\ takenBy'[worker'[v].device] # 0
                      \/ AdapterOf[worker'[v].device] \notin present
    BY DEF HeldMarked
  <2> DEFINE e == worker[v].device
  <2>1. v # w /\ Connecting(v) /\ worker'[v].device = e
    BY <1>3, <1>6
  <2>2. e # d /\ e \in Device
    BY <1>8, <1>9, <2>1
  <2>3. takenBy'[e] = takenBy[e] /\ (e \in listed' <=> e \in listed)
    BY <2>2
  <2>4. \/ e \in listed /\ takenBy[e] # 0
        \/ AdapterOf[e] \notin present
    BY <2>1 DEF AutoInv, HeldMarked
  <2>. QED
    BY <2>1, <2>3, <2>4
<1>11. ConnectedByOne'
  BY <1>3, <1>6 DEF AutoInv, ConnectedByOne
<1>. QED
  BY <1>3, <1>4, <1>5, <1>7, <1>10, <1>11 DEF AutoInv

LEMMA PutDeviceKeeps ==
  ASSUME AutoInv, NEW w \in Slot, PutDevice(w)
  PROVE  AutoInv'
<1> DEFINE d == worker[w].device
<1>1. /\ worker' = [worker EXCEPT ![w].pc = "getDevice", ![w].device = NoDevice]
      /\ UNCHANGED <<listed, workerIds, present, finished, adds, began, crossed, off, dark>>
      /\ takenBy' = IF d \in listed /\ takenBy[d] = worker[w].id
                      THEN [takenBy EXCEPT ![d] = 0] ELSE takenBy
  BY DEF PutDevice, btVars, powerVars
<1>2. Connecting(w)
  BY DEF PutDevice, At, Connecting
<1>3. d \in Device /\ takenBy \in [Device -> Nat]
  BY <1>2 DEF AutoInv, WorkerTypes, TableTypes, Alive, Connecting
<1>4. takenBy' \in [Device -> Nat]
  BY <1>1, <1>3
<1>5. \A e \in Device : e # d => takenBy'[e] = takenBy[e]
  BY <1>1, <1>3
<1>6. d \in listed => \/ takenBy'[d] = 0
                      \/ takenBy'[d] = takenBy[d] /\ takenBy[d] # worker[w].id
  BY <1>1, <1>3
<1>. QED
  BY <1>1, <1>2, <1>4, <1>5, <1>6, GivingUpKeeps

LEMMA RemoveDeviceKeeps ==
  ASSUME AutoInv, NEW w \in Slot, RemoveDevice(w)
  PROVE  AutoInv'
<1>1. /\ worker' = [worker EXCEPT ![w].pc = "getDevice", ![w].device = NoDevice]
      /\ UNCHANGED <<takenBy, workerIds, present, finished, adds, began, crossed, off, dark>>
      /\ listed' = listed \ {worker[w].device}
  BY DEF RemoveDevice, btVars, powerVars
<1>2. Connecting(w)
  BY DEF RemoveDevice, At, Connecting
<1>3. takenBy' \in [Device -> Nat]
  BY <1>1 DEF AutoInv, TableTypes
<1>. QED
  BY <1>1, <1>2, <1>3, GivingUpKeeps

\* The worker that gives back its id was the one that had it, or another
\* worker has a different one.
LEMMA PutIdKeeps ==
  ASSUME AutoInv, NEW w \in Slot, PutId(w)
  PROVE  AutoInv'
<1> DEFINE a == worker[w].adapter
<1>1. /\ worker[w].pc = "putId" /\ Goes(w, "check")
      /\ UNCHANGED <<listed, takenBy, present, finished, adds, began, crossed, off, dark>>
      /\ workerIds' = IF a \in present
                        THEN [workerIds EXCEPT ![a] = @ \ {worker[w].id}] ELSE workerIds
  BY DEF PutId, At, btVars, powerVars
<1>2. Alive(w) /\ ~Connecting(w)
  BY <1>1 DEF Alive, Connecting
<1>3. /\ WorkerTypes' /\ TakenHeld' /\ ListedPresent' /\ HeldMarked' /\ ConnectedByOne'
      /\ Moved(w, "check", worker[w].device)
      /\ \A b : WorkersOf(b)' = WorkersOf(b)
  BY <1>1, <1>2, GoingOnKeeps DEF WorkerPc
<1>4. workerIds \in [Adapter -> SUBSET WId] /\ a \in Adapter
  BY <1>2 DEF AutoInv, TableTypes, WorkerTypes
<1>5. /\ workerIds' \in [Adapter -> SUBSET WId]
      /\ \A b \in Adapter : workerIds'[b] \subseteq workerIds[b]
      /\ a \in present => worker[w].id \notin workerIds'[a]
  BY <1>1, <1>4
<1>6. TableTypes' /\ BeganPresent' /\ DiscoveryResumes'
  BY <1>1, <1>3, <1>5 DEF AutoInv, TableTypes, BeganPresent, DiscoveryResumes
<1>7. IdsHeld'
  <2> SUFFICES ASSUME NEW b \in present, NEW i \in workerIds'[b]
               PROVE  \E v \in Slot : /\ worker'[v].pc \in WorkerPc \ {"check"}
                                      /\ worker'[v].adapter = b /\ worker'[v].id = i
    BY <1>1 DEF IdsHeld
  <2>1. i \in workerIds[b]
    BY <1>5 DEF AutoInv, TableTypes
  <2>2. PICK v \in Slot : /\ worker[v].pc \in WorkerPc \ {"check"}
                          /\ worker[v].adapter = b /\ worker[v].id = i
    BY <2>1 DEF AutoInv, IdsHeld
  <2>3. v # w
    BY <1>5, <2>2
  <2>4. worker'[v] = worker[v]
    BY <1>3, <2>3 DEF Moved
  <2>. QED
    BY <2>2, <2>4
<1>. QED
  BY <1>3, <1>6, <1>7 DEF AutoInv

\* The last worker of an adapter sets autoConnectFinished: a worker that ends
\* without setting it has seen an id in use, whose worker is still there.
LEMMA LastCheckKeeps ==
  ASSUME AutoInv, NEW w \in Slot, LastCheck(w)
  PROVE  AutoInv'
<1> DEFINE a == worker[w].adapter
<1>1. /\ worker[w].pc = "check"
      /\ worker' = [worker EXCEPT ![w] = NoWorker]
      /\ finished' = IF a \in present /\ workerIds[a] = {}
                     THEN finished \cup ({a} \cap (present \ off)) ELSE finished
      /\ UNCHANGED <<listed, takenBy, workerIds, present, adds, began, crossed, off, dark>>
  BY DEF LastCheck, StartDiscovery, At, acmVars, powerVars
<1>2. Alive(w) /\ ~Connecting(w)
  BY <1>1 DEF Alive, Connecting
<1>3. /\ DOMAIN worker' = Slot /\ worker'[w] = NoWorker
      /\ \A v \in Slot \ {w} : worker'[v] = worker[v]
  BY <1>1 DEF AutoInv, WorkerTypes
<1>4. /\ \A v \in Slot : Connecting(v)' <=> Connecting(v)
      /\ \A v \in Slot : Connecting(v) => worker'[v] = worker[v]
  BY <1>2, <1>3 DEF Connecting, NoWorker
<1>5. WorkerTypes'
  <2>1. \A v \in Slot : worker'[v] = [pc |-> worker'[v].pc, adapter |-> worker'[v].adapter,
                                      id |-> worker'[v].id, device |-> worker'[v].device]
    BY <1>3 DEF AutoInv, WorkerTypes, NoWorker
  <2>2. \A v \in Slot : Alive(v)' => v # w /\ Alive(v)
    BY <1>3 DEF Alive, NoWorker
  <2>. QED
    BY <1>3, <1>4, <2>1, <2>2 DEF AutoInv, WorkerTypes
<1>6. TableTypes' /\ ListedPresent' /\ BeganPresent'
  BY <1>1 DEF AutoInv, TableTypes, ListedPresent, BeganPresent
<1>7. TakenHeld' /\ HeldMarked' /\ ConnectedByOne'
  <2>1. TakenHeld'
    BY <1>1, <1>4 DEF AutoInv, TakenHeld
  <2>2. HeldMarked'
    BY <1>1, <1>4 DEF AutoInv, HeldMarked
  <2>3. ConnectedByOne'
    BY <1>1, <1>4 DEF AutoInv, ConnectedByOne
  <2>. QED
    BY <2>1, <2>2, <2>3
<1>8. \A v \in Slot : worker[v].pc \in WorkerPc \ {"check"} => v # w /\ worker'[v] = worker[v]
  BY <1>1, <1>3
<1>9. IdsHeld'
  BY <1>1, <1>8 DEF AutoInv, IdsHeld
<1>10. DiscoveryResumes'
  <2> SUFFICES ASSUME NEW b \in (began \cap present) \ (crossed \cup dark), WorkersOf(b)' = {}
               PROVE  b \in finished'
    BY <1>1 DEF DiscoveryResumes
  <2>1. CASE b = a
    <3>1. \A v \in Slot : ~(worker'[v].pc \in WorkerPc \ {"check"} /\ worker'[v].adapter = b)
      BY DEF WorkersOf, Alive, WorkerPc
    <3>2. workerIds[b] = {}
      BY <1>1, <1>9, <3>1 DEF IdsHeld
    <3>3. b \notin off
      BY DEF AutoInv, BeganPresent
    <3>. QED
      BY <1>1, <2>1, <3>2, <3>3
  <2>2. CASE b # a
    <3>1. WorkersOf(b) = {}
      BY <1>3, <2>2 DEF WorkersOf, Alive
    <3>. QED
      BY <1>1, <3>1 DEF AutoInv, DiscoveryResumes
  <2>. QED
    BY <2>1, <2>2
<1>. QED
  BY <1>5, <1>6, <1>7, <1>9, <1>10 DEF AutoInv

-----------------------------------------------------------------------------
LEMMA AutoInitInv == ASSUME AutoInit PROVE AutoInv
<1>1. /\ DOMAIN worker = Slot /\ \A w \in Slot : worker[w] = NoWorker /\ ~Alive(w)
      /\ \A w \in Slot : ~Connecting(w)
  BY DEF AutoInit, Alive, NoWorker, Connecting
<1>2. WorkerTypes
  BY <1>1 DEF WorkerTypes, NoWorker
<1>. QED
  BY <1>1, <1>2 DEF AutoInit, AutoInv, TableTypes, TakenHeld, ListedPresent, HeldMarked,
     ConnectedByOne, IdsHeld, BeganPresent, DiscoveryResumes

LEMMA AutoNextInv == ASSUME AutoInv, [AutoNext]_autoVars PROVE AutoInv'
<1>1. ASSUME NEW a \in Adapter,
             \/ AddDevices(a) \/ TimerExpired(a) \/ RemoveAdapter(a)
             \/ PowerOff(a) \/ PowerOn(a)
             \/ \E on \in BOOLEAN : AddAdapter(a, on)
      PROVE  AutoInv'
  BY <1>1, AddDevicesKeeps, TimerExpiredKeeps, AddAdapterKeeps, RemoveAdapterKeeps, PowerKeeps
<1>2. ASSUME NEW d \in Device, \E removed \in BOOLEAN : HandleDeviceEvent(d, removed)
      PROVE  AutoInv'
  BY <1>2, DeviceEventKeeps
<1>3. ASSUME NEW w \in Slot, WorkerStep(w)
      PROVE  AutoInv'
  BY <1>3, GetDeviceKeeps, GetNoDeviceKeeps, ConnectKeeps, PutDeviceKeeps, RemoveDeviceKeeps,
     PutIdKeeps, LastCheckKeeps DEF WorkerStep
<1>4. CASE UNCHANGED autoVars
  BY <1>4 DEF autoVars, powerVars, AutoInv, WorkerTypes, TableTypes, TakenHeld, ListedPresent, HeldMarked,
     ConnectedByOne, IdsHeld, BeganPresent, DiscoveryResumes, Alive, Connecting, WorkersOf
<1>. QED
  BY <1>1, <1>2, <1>3, <1>4 DEF AutoNext

(* The table and the workers of the automatic connection agree: a device   *)
(* marked as taken is with a worker (getDevice, putDevice, removeDevice),  *)
(* one at a time, and the last worker of an adapter lets discovery go on   *)
(* (putId, the end of work).                                               *)
THEOREM AlwaysConnectedInOrder == AutoSpec => []AutoConnectInOrder
<1>1. AutoInit => AutoInv
  BY AutoInitInv
<1>2. AutoInv /\ [AutoNext]_autoVars => AutoInv'
  BY AutoNextInv
<1>3. AutoInv => AutoConnectInOrder
  BY DEF AutoInv, AutoConnectInOrder, TakenHeld, TakenByWorker
<1>. QED
  BY <1>1, <1>2, <1>3, PTL DEF AutoSpec

-----------------------------------------------------------------------------
(* No device that waits is forgotten: a worker will look for devices again *)
(* before it ends, or the delayed start of its adapter is still to come.   *)
(* Only a device that was listed while the workers were about to end is    *)
(* left to the next call.                                                  *)
Active(w) == worker[w].pc \in {"getDevice", "connect", "putDevice", "removeDevice"}

SomeoneComes ==
  \A d \in Device : Waiting(d) /\ d \notin missed =>
     AdapterOf[d] \in timer \/ \E w \in Slot : Active(w)

\* A device with a worker, of whichever adapter.
LEMMA TakenMeansActive ==
  ASSUME AutoInv, NEW d \in listed, takenBy[d] # 0
  PROVE  \E w \in Slot : Active(w) /\ worker[w].pc # "getDevice"
BY DEF AutoInv, TakenHeld, Connecting, Active

\* startWorkers starts one, or all ids of the adapter are in use: the workers
\* that have them look for devices again, unless they are about to end.
LEMMA StartWorkersComes ==
  ASSUME AutoInv, NEW a \in Adapter, NEW free \in SUBSET Device, StartWorkers(a, free)
  PROVE  /\ missed \subseteq missed'
         /\ \A w \in Slot : Active(w) => Active(w)'
         /\ a \in present => \A d \in free : AdapterOf[d] = a =>
              d \in missed' \/ \E w \in Slot : Active(w)'
<1>0. WorkerTypes /\ TableTypes /\ IdsHeld
  BY DEF AutoInv
<1>1. Started(a)
  BY <1>0, StartWorkersStarts
<1>2. \A w \in Slot : Active(w) => Active(w)'
  BY <1>1 DEF Started, Active, Alive
<1>3. missed \subseteq missed'
  BY DEF StartWorkers
<1>4. ASSUME a \in present, NEW d \in free, AdapterOf[d] = a, d \notin missed'
      PROVE  \E w \in Slot : Active(w)'
  <2> DEFINE F == {e \in free : AdapterOf[e] = a}
             num == EvalNumWorkers(a, free)
             S == WId \ workerIds[a]
  <2>1. /\ IsFiniteSet(F) /\ Cardinality(F) \in Nat /\ Cardinality(F) # 0
    <3>1. IsFiniteSet(F)
      BY AutoConnectAssumption, FS_Subset
    <3>2. d \in F
      BY <1>4
    <3> HIDE DEF F
    <3> QED
      BY <3>1, <3>2, FS_CardinalityType, FS_EmptySet
  <2>2. /\ MaxPerAdapter \in Nat \ {0} /\ IsFiniteSet(WId) /\ Cardinality(WId) = MaxPerAdapter
    BY AutoConnectAssumption, FS_Interval DEF WId
  <2>3. /\ workerIds[a] \subseteq WId /\ IsFiniteSet(workerIds[a])
        /\ Cardinality(workerIds[a]) \in Nat
    <3>1. workerIds[a] \subseteq WId
      BY <1>0 DEF TableTypes
    <3> QED
      BY <3>1, <2>2, FS_Subset, FS_CardinalityType
  <2>4. num = Smaller(Smaller(Cardinality(F), MaxPerAdapter),
                      MaxPerAdapter - Cardinality(workerIds[a]))
    BY DEF EvalNumWorkers
  <2> HIDE DEF F
  <2>5. CASE num <= 0
    <3>1. Cardinality(workerIds[a]) # 0
      BY <2>1, <2>2, <2>3, <2>4, <2>5 DEF Smaller
    <3>2. PICK i : i \in workerIds[a]
      BY <2>3, <3>1, FS_EmptySet
    <3>3. PICK w \in Slot : worker[w].pc \in WorkerPc \ {"check"}
      BY <1>0, <1>4, <3>2 DEF IdsHeld
    <3>4. worker[w].pc # "putId"
      BY <1>4, <2>5 DEF StartWorkers
    <3>5. Active(w)
      BY <3>3, <3>4 DEF Active, WorkerPc
    <3> QED
      BY <1>2, <3>5
  <2>6. CASE ~(num <= 0)
    <3>1. S # {}
      <4>1. SUFFICES ASSUME workerIds[a] = WId PROVE FALSE
        BY <2>3
      <4> QED
        BY <2>1, <2>2, <2>3, <2>4, <2>6, <4>1 DEF Smaller
    <3>2. S \subseteq Nat
      BY <2>2 DEF WId
    <3>3. PICK i \in S : \A j \in S : i <= j
      <4> HIDE DEF S
      <4> QED
        BY <3>1, <3>2, LeastOf
    <3>4. i \in Nat /\ {j \in S : j <= i} = {i}
      BY <3>2, <3>3
    <3>5. Rank(i, S) = 1
      BY <3>4, FS_Singleton DEF Rank
    <3>6. num \in Int /\ 1 <= num
      BY <2>1, <2>2, <2>3, <2>4, <2>6 DEF Smaller
    <3>7. i \in Lowest(S, num)
      BY <3>3, <3>5, <3>6 DEF Lowest
    <3>8. workerIds' = [workerIds EXCEPT ![a] = @ \cup Lowest(S, num)]
      BY <1>4, <2>6 DEF StartWorkers
    <3>9. i \in workerIds'[a] /\ i \notin workerIds[a]
      BY <1>0, <3>3, <3>7, <3>8 DEF TableTypes
    <3>10. PICK w \in Slot : worker'[w] = NewWorker(a, i)
      BY <1>1, <3>9 DEF Started
    <3> QED
      BY <3>10 DEF NewWorker, Active
  <2> QED
    BY <2>5, <2>6
<1> QED
  BY <1>2, <1>3, <1>4

\* What is free or taken after the step is looked after by the workers.
LEMMA StartedComes ==
  ASSUME AutoInv, SomeoneComes, NEW a \in Adapter, NEW T \in SUBSET Device,
         NEW taken, NEW tries, StartWorkers(a, Free(T, taken, tries)),
         \A d \in T : taken[d] # 0 => d \in listed /\ takenBy[d] # 0,
         \A d \in T : AdapterOf[d] # a => d \in listed /\ tries[d] = tried[d],
         listed' = T, tried' = tries, UNCHANGED present,
         \A b \in Adapter : b \in timer /\ b # a => b \in timer'
  PROVE  SomeoneComes'
<1> SUFFICES ASSUME NEW d \in Device, Waiting(d)', d \notin missed'
             PROVE  AdapterOf[d] \in timer' \/ \E w \in Slot : Active(w)'
  BY DEF SomeoneComes
<1>1. /\ missed \subseteq missed'
      /\ \A w \in Slot : Active(w) => Active(w)'
      /\ a \in present => \A e \in Free(T, taken, tries) : AdapterOf[e] = a =>
           e \in missed' \/ \E w \in Slot : Active(w)'
  <2>1. Free(T, taken, tries) \in SUBSET Device
    BY DEF Free
  <2> QED
    BY <2>1, StartWorkersComes
<1>2. d \in T /\ tries[d] < DurationMax /\ AdapterOf[d] \in present /\ AdapterOf[d] \in Adapter
  BY AutoConnectAssumption DEF Waiting
<1>3. CASE taken[d] # 0
  BY <1>1, <1>2, <1>3, TakenMeansActive
<1>4. CASE taken[d] = 0 /\ AdapterOf[d] = a
  BY <1>1, <1>2, <1>4 DEF Free
<1>5. CASE AdapterOf[d] # a
  <2>1. Waiting(d) /\ d \notin missed
    BY <1>1, <1>2, <1>5 DEF Waiting
  <2> QED
    BY <1>1, <1>2, <1>5, <2>1 DEF SomeoneComes
<1> QED
  BY <1>3, <1>4, <1>5

LEMMA AdaptersCome ==
  ASSUME AutoInv, SomeoneComes, NEW a \in Adapter,
         \/ AddDevices(a) \/ TimerExpired(a) \/ RemoveAdapter(a)
         \/ PowerOff(a) \/ PowerOn(a)
         \/ \E on \in BOOLEAN : AddAdapter(a, on)
  PROVE  SomeoneComes'
<1>0. WorkerTypes /\ TableTypes /\ ListedPresent
  BY DEF AutoInv
<1>1. CASE AddDevices(a)
  <2> DEFINE new == {d \in Device : AdapterOf[d] = a /\ d \notin connected}
             fresh == [d \in Device |-> IF d \in new \ listed THEN 0 ELSE takenBy[d]]
             none == [d \in Device |-> IF d \in new THEN 0 ELSE tried[d]]
  <2>1. CASE new = {} \/ a \notin present
    <3>1. UNCHANGED <<listed, takenBy, tried, present, timer, worker, missed>>
      BY <1>1, <2>1 DEF AddDevices, acmVars
    <3> QED
      BY <3>1 DEF SomeoneComes, Waiting, Active
  <2>2. CASE new # {} /\ a \in present
    <3>1. /\ listed' = listed \cup new /\ takenBy' = fresh /\ tried' = none /\ UNCHANGED present
          /\ \/ StartWorkers(a, Free(listed', takenBy', tried')) /\ UNCHANGED timer
             \/ timer' = timer \cup {a} /\ UNCHANGED <<worker, missed>>
      BY <1>1, <2>2 DEF AddDevices
    <3>2. \A d \in listed' : fresh[d] # 0 => d \in listed /\ takenBy[d] # 0
      BY <1>0, <3>1 DEF TableTypes
    <3>3. \A d \in listed' : AdapterOf[d] # a => d \in listed /\ none[d] = tried[d]
      BY <1>0, <3>1 DEF TableTypes
    <3>4. listed' \in SUBSET Device
      BY <1>0, <3>1 DEF TableTypes
    <3>5. CASE StartWorkers(a, Free(listed', takenBy', tried')) /\ UNCHANGED timer
      <4> DEFINE T == listed \cup new
      <4>1. StartWorkers(a, Free(T, fresh, none)) /\ T \in SUBSET Device
        BY <3>1, <3>4, <3>5
      <4>2. /\ \A d \in T : fresh[d] # 0 => d \in listed /\ takenBy[d] # 0
            /\ \A d \in T : AdapterOf[d] # a => d \in listed /\ none[d] = tried[d]
            /\ listed' = T /\ tried' = none
        BY <3>1, <3>2, <3>3
      <4> HIDE DEF T, fresh, none
      <4> QED
        BY <3>1, <3>5, <4>1, <4>2, StartedComes
    <3>6. CASE timer' = timer \cup {a} /\ UNCHANGED <<worker, missed>>
      BY <3>1, <3>3, <3>6 DEF SomeoneComes, Waiting, Active
    <3> QED
      BY <3>1, <3>5, <3>6
  <2> QED
    BY <2>1, <2>2
<1>2. CASE TimerExpired(a)
  <2>1. /\ timer' = timer \ {a} /\ StartWorkers(a, Free(listed, takenBy, tried))
        /\ UNCHANGED <<listed, tried, present>> /\ listed \in SUBSET Device
    BY <1>0, <1>2 DEF TimerExpired, TableTypes
  <2> QED
    BY <2>1, StartedComes
<1>3. CASE \E on \in BOOLEAN : AddAdapter(a, on)
  <2>1. /\ present' = present \cup {a}
        /\ UNCHANGED <<listed, tried, timer, worker, missed>>
    BY <1>3 DEF AddAdapter
  <2>2. \A d \in Device : Waiting(d)' => Waiting(d)
    BY <1>0, <2>1 DEF Waiting, ListedPresent
  <2> QED
    BY <2>1, <2>2 DEF SomeoneComes, Active
<1>4. CASE RemoveAdapter(a)
  <2>1. /\ present' = present \ {a} /\ timer' = timer \ {a} /\ listed' \subseteq listed
        /\ missed' = missed \ {d \in Device : AdapterOf[d] = a}
        /\ UNCHANGED <<tried, worker>>
    BY <1>4 DEF RemoveAdapter
  <2> QED
    BY <2>1 DEF SomeoneComes, Waiting, Active
<1>5. CASE PowerOff(a) \/ PowerOn(a)
  <2>1. UNCHANGED <<listed, tried, present, timer, worker, missed>>
    BY <1>5 DEF PowerOff, PowerOn, acmVars
  <2> QED
    BY <2>1 DEF SomeoneComes, Waiting, Active
<1> QED
  BY <1>1, <1>2, <1>3, <1>4, <1>5

LEMMA EventComes ==
  ASSUME AutoInv, SomeoneComes, NEW e \in Device, NEW removed \in BOOLEAN,
         HandleDeviceEvent(e, removed)
  PROVE  SomeoneComes'
<1>1. AdapterOf[e] \in Adapter /\ listed \in SUBSET Device
  BY AutoConnectAssumption DEF AutoInv, TableTypes
<1>2. /\ UNCHANGED <<listed, tried, present>>
      /\ \/ timer' = timer \ {AdapterOf[e]}
            /\ StartWorkers(AdapterOf[e], Free(listed, takenBy, tried))
         \/ UNCHANGED <<timer, worker, missed>>
  BY DEF HandleDeviceEvent
<1>3. CASE UNCHANGED <<timer, worker, missed>>
  BY <1>2, <1>3 DEF SomeoneComes, Waiting, Active
<1>4. CASE /\ timer' = timer \ {AdapterOf[e]}
           /\ StartWorkers(AdapterOf[e], Free(listed, takenBy, tried))
  BY <1>1, <1>2, <1>4, StartedComes
<1> QED
  BY <1>2, <1>3, <1>4

LEMMA WorkerComes ==
  ASSUME AutoInv, SomeoneComes, NEW w \in Slot, WorkerStep(w)
  PROVE  SomeoneComes'
<1>0. DOMAIN worker = Slot /\ worker[w] = [pc |-> worker[w].pc, adapter |-> worker[w].adapter,
                                           id |-> worker[w].id, device |-> worker[w].device]
  BY DEF AutoInv, WorkerTypes
<1>1. ASSUME Active(w)' PROVE SomeoneComes'
  BY <1>1 DEF SomeoneComes
<1>2. CASE GetDevice(w) \/ PutDevice(w) \/ RemoveDevice(w) \/ \E o : Connect(w, o)
  <2>1. \E p \in {"getDevice", "connect", "putDevice", "removeDevice"} :
           \/ worker' = [worker EXCEPT ![w].pc = p]
           \/ \E d : worker' = [worker EXCEPT ![w].pc = p, ![w].device = d]
    BY <1>2 DEF GetDevice, PutDevice, RemoveDevice, Connect, Goes
  <2>2. worker'[w].pc \in {"getDevice", "connect", "putDevice", "removeDevice"}
    BY <1>0, <2>1
  <2> QED
    BY <1>1, <2>2 DEF Active
<1>3. CASE GetNoDevice(w)
  <2>1. /\ At(w, "getDevice") /\ Free(listed, takenBy, tried) = {}
        /\ \A v \in Slot \ {w} : worker'[v] = worker[v]
        /\ UNCHANGED <<listed, tried, present, timer, missed>>
    BY <1>0, <1>3 DEF GetNoDevice, Goes, acmVars, btVars
  <2> SUFFICES ASSUME NEW d \in Device, Waiting(d) PROVE \E v \in Slot : Active(v)'
    BY <2>1 DEF SomeoneComes, Waiting
  <2>2. d \in listed /\ takenBy[d] # 0
    BY <2>1 DEF Free, Waiting
  <2>3. PICK v \in Slot : Active(v) /\ worker[v].pc # "getDevice"
    BY <2>2, TakenMeansActive
  <2> QED
    BY <2>1, <2>3 DEF Active, At
<1>4. CASE PutId(w) \/ LastCheck(w)
  <2>1. /\ ~Active(w) /\ \A v \in Slot \ {w} : worker'[v] = worker[v]
        /\ UNCHANGED <<listed, tried, present, timer, missed>>
    BY <1>0, <1>4 DEF PutId, LastCheck, Goes, At, Active, acmVars, btVars
  <2> QED
    BY <2>1 DEF SomeoneComes, Waiting, Active
<1> QED
  BY <1>2, <1>3, <1>4 DEF WorkerStep

(* A device that was listed and is to be tried is never without anybody:   *)
(* a worker looks for devices again before it ends, or the delayed start   *)
(* is to come (addDevices, startWorkers, delayStartWorkers, getDevice),    *)
(* for any adapters, devices, limits and numbers of calls and of adapters  *)
(* that come back.  Excepted is a device that was listed when the workers  *)
(* were about to end.                                                      *)
THEOREM DevicesNeverForgotten == AutoSpec => []SomeoneComes
<1>1. AutoInit => AutoInv /\ SomeoneComes
  BY AutoInitInv DEF AutoInit, SomeoneComes, Waiting
<1>2. AutoInv /\ SomeoneComes /\ [AutoNext]_autoVars => SomeoneComes'
  <2> SUFFICES ASSUME AutoInv, SomeoneComes, [AutoNext]_autoVars PROVE SomeoneComes'
    OBVIOUS
  <2>1. CASE UNCHANGED autoVars
    BY <2>1 DEF autoVars, SomeoneComes, Waiting, Active
  <2> QED
    BY <2>1, AdaptersCome, EventComes, WorkerComes DEF AutoNext
<1>3. AutoInv /\ [AutoNext]_autoVars => AutoInv'
  BY AutoNextInv
<1> QED
  BY <1>1, <1>2, <1>3, PTL DEF AutoSpec

-----------------------------------------------------------------------------
(* The search of the launcher.                                             *)

RunPc == {"none", "match", "getNext", "finish", "finishEmit", "emit"}
RunRec == [pc : RunPc, todo : SUBSET Item]
TaskRec == [chars : Seq(STRING), result : [Item -> Nat], canceled : BOOLEAN, finished : BOOLEAN]
OpRec == [pop : Nat, push : Seq(STRING), pc : {"idle", "apply", "search"}, prev : Nat]

SearchTypes ==
  /\ made \in Nat /\ made <= MaxTask
  /\ stack \in Seq(1..made)
  /\ task \in [SearchTask -> TaskRec]
  /\ gor \in [SearchTask -> [Part -> RunRec]]
  /\ op \in OpRec /\ ops \in Seq(OpRec)
  /\ currentRunes \in Seq(STRING)
  /\ searchRaced \in BOOLEAN

OnStack(t) == \E i \in 1..Len(stack) : stack[i] = t

\* The stack has the tasks for the prefixes of a key, from the shortest on;
\* the others that were made are cancelled.
StackOfPrefixes ==
  /\ \A i, j \in 1..Len(stack) : i < j => stack[i] < stack[j]
  /\ \A i \in 1..Len(stack) : Len(task[stack[i]].chars) = i
  /\ \A i \in 1..Len(stack) : i > 1 =>
       \A j \in 1..(i - 1) : task[stack[i]].chars[j] = task[stack[i - 1]].chars[j]
  /\ \A t \in 1..made : task[t].canceled <=> ~OnStack(t)
  /\ \A t \in SearchTask : t > made => gor[t] = [s \in Part |-> NoRun]

OpInOrder ==
  /\ op.pc = "idle" => op = NoOp
  /\ op.pc = "search" => /\ op.pop = 0 /\ op.push # <<>>
                         /\ Len(stack) > 1 /\ op.prev = stack[Len(stack) - 1]
  /\ \A i \in 1..Len(ops) : ops[i].pc = "apply"

\* What an operation, or what is left of it, makes of a key.
After(key, o) ==
  SubSeq(key, 1, Len(key) - o.pop) \o (IF o.pc = "search" THEN Tail(o.push) ELSE o.push)
StackKey == IF stack = <<>> THEN <<>> ELSE task[Top].chars

\* The operations that wait turn the key of the stack into the last one.
OpsReachKey ==
  \E k \in [0..Len(ops) -> Seq(STRING)] :
     /\ op.pop <= Len(StackKey) /\ k[0] = After(StackKey, op)
     /\ \A i \in 1..Len(ops) : ops[i].pop <= Len(k[i - 1]) /\ k[i] = After(k[i - 1], ops[i])
     /\ k[Len(ops)] = currentRunes

Resting(t) == \A s \in Part : gor[t][s].pc = "none"
NotBegun(t) == Resting(t) /\ ~task[t].finished
\* The goroutine has still to look for the task above.
Ahead(t) == NotBegun(t) \/ \E s \in Part : gor[t][s].pc \in {"match", "getNext"}

\* A task in done is on the stack; it emits exactly if it is on top.
DoneAt(t) ==
  \A s \in Part :
    /\ gor[t][s].pc \in {"getNext", "finish", "finishEmit", "emit"} => OnStack(t)
    /\ gor[t][s].pc = "finish" => t # Top
    /\ gor[t][s].pc \in {"finishEmit", "emit"} => t = Top
DoneOnStack == \A t \in SearchTask : DoneAt(t)

\* What a task on the stack has found so far.
FoundSoFar(t) ==
  /\ gor[t]["push"].pc = "none" \/ gor[t]["next"].pc = "none"
  /\ \A s \in Part :
       /\ gor[t][s].pc = "match" =>
            /\ ~task[t].finished
            /\ \A i \in Item : task[t].result[i] =
                 IF i \in gor[t][s].todo THEN 0 ELSE FullResult(task[t].chars)[i]
       /\ gor[t][s].pc \in {"getNext", "finish", "finishEmit"} =>
            ~task[t].finished /\ task[t].result = FullResult(task[t].chars)
       /\ gor[t][s].pc = "emit" => task[t].finished
  /\ task[t].finished => task[t].result = FullResult(task[t].chars)
  /\ NotBegun(t) => task[t].result = NoResult
ResultsGrow == \A i \in 1..Len(stack) : FoundSoFar(stack[i])

\* A task begins once: exactly when the one below has looked for it.
BegunInOrder ==
  /\ \A i \in 1..Len(stack) : NotBegun(stack[i]) =>
       /\ i > 1
       /\ Ahead(stack[i - 1]) \/ (i = Len(stack) /\ op.pc = "search")
  /\ \A i \in 1..Len(stack) : i > 1 /\ Ahead(stack[i - 1]) => NotBegun(stack[i])
  /\ op.pc = "search" => NotBegun(Top)

\* Between operations a finished top has been emitted, or is about to be.
TopEmitted ==
  op.pc = "idle" =>
    /\ stack = <<>> => lastDone = NoResult
    /\ stack # <<>> /\ task[Top].finished /\ (\A s \in Part : gor[Top][s].pc # "emit") =>
         lastDone = FullResult(task[Top].chars)

ShapeInv == SearchTypes /\ StackOfPrefixes /\ OpInOrder /\ OpsReachKey
Orderly == DoneOnStack /\ ResultsGrow /\ BegunInOrder /\ TopEmitted
SearchInv == ShapeInv /\ (~searchRaced => Orderly)

LEMMA CommonFacts ==
  ASSUME NEW key \in Seq(STRING), NEW cur \in Seq(STRING)
  PROVE  /\ Common(key, cur) \in 0..Len(key) /\ Common(key, cur) <= Len(cur)
         /\ \A i \in 1..Common(key, cur) : key[i] = cur[i]
<1> DEFINE Differ == {n \in 0..Len(key) : /\ n <= Len(cur)
                                          /\ n < Len(key) /\ n < Len(cur) => key[n + 1] # cur[n + 1]}
<1>1. Len(key) \in Nat /\ Len(cur) \in Nat
  OBVIOUS
<1>2. Differ # {}
  <2>1. Len(key) <= Len(cur) => Len(key) \in Differ
    BY <1>1
  <2>2. Len(cur) < Len(key) => Len(cur) \in Differ
    BY <1>1
  <2>. QED
    BY <1>1, <2>1, <2>2
<1>3. Differ \subseteq Nat
  BY <1>1
<1>4. PICK n \in Differ : \A m \in Differ : n <= m
  BY <1>2, <1>3, LeastOf
<1>5. \A i \in 1..n : key[i] = cur[i]
  <2> SUFFICES ASSUME NEW i \in 1..n PROVE key[i] = cur[i]
    OBVIOUS
  <2>1. n \in 0..Len(key) /\ n <= Len(cur)
    OBVIOUS
  <2>2. i - 1 \in 0..Len(key) /\ i - 1 <= Len(cur) /\ ~(n <= i - 1) /\ (i - 1) + 1 = i
    BY <1>1, <2>1
  <2>3. i - 1 \notin Differ
    BY <1>4, <2>2
  <2>. QED
    BY <2>2, <2>3
<1>. QED
  BY <1>4, <1>5 DEF Common

\* The pops and pushes of RuneSliceDiff make the one key of the other.
LEMMA DiffMakesKey ==
  ASSUME NEW key \in Seq(STRING), NEW cur \in Seq(STRING), NEW o, o = RuneSliceDiff(key, cur)
  PROVE  o \in OpRec /\ o.pc = "apply" /\ o.pop <= Len(cur) /\ After(cur, o) = key
<1> DEFINE n == Common(key, cur)
<1>1. /\ n \in 0..Len(key) /\ n <= Len(cur)
      /\ \A i \in 1..n : key[i] = cur[i]
  BY CommonFacts
<1>2. o = [pop |-> Len(cur) - n, push |-> SubSeq(key, n + 1, Len(key)), pc |-> "apply",
           prev |-> NoTask]
  BY DEF RuneSliceDiff, NoOp
<1> HIDE DEF n
<1>3. Len(cur) \in Nat /\ Len(key) \in Nat /\ n \in Nat
  BY <1>1
<1> DEFINE a == SubSeq(cur, 1, n)
           b == SubSeq(key, n + 1, Len(key))
<1>4. /\ a \in Seq(STRING) /\ Len(a) = n /\ \A i \in 1..n : a[i] = cur[i]
  BY <1>1, <1>3
<1>5. /\ b \in Seq(STRING) /\ Len(b) = Len(key) - n
      /\ \A i \in 1..(Len(key) - n) : b[i] = key[n + i]
  BY <1>1, <1>3
<1> HIDE DEF a, b
<1>6. a \o b = key
  <2>1. /\ a \o b \in Seq(STRING) /\ Len(a \o b) = Len(key)
        /\ \A i \in 1..Len(key) : (a \o b)[i] = IF i <= n THEN a[i] ELSE b[i - n]
    BY <1>1, <1>3, <1>4, <1>5
  <2>2. \A i \in 1..Len(key) : (a \o b)[i] = key[i]
    <3> SUFFICES ASSUME NEW i \in 1..Len(key) PROVE (a \o b)[i] = key[i]
      OBVIOUS
    <3>1. CASE i <= n
      <4>1. i \in 1..n
        BY <1>3, <3>1
      <4>. QED
        BY <1>1, <1>4, <2>1, <3>1, <4>1
    <3>2. CASE i > n
      <4>1. i - n \in 1..(Len(key) - n) /\ n + (i - n) = i /\ ~(i <= n)
        BY <1>3, <3>2
      <4>. QED
        BY <1>5, <2>1, <4>1
    <3>3. i <= n \/ i > n
      BY <1>3
    <3>. QED
      BY <3>1, <3>2, <3>3
  <2>. QED
    BY <2>1, <2>2, SeqEqual
<1>7. Len(cur) - (Len(cur) - n) = n /\ Len(cur) - n \in Nat
  BY <1>1, <1>3
<1>8. o \in OpRec /\ o.pc = "apply" /\ o.pop = Len(cur) - n /\ o.push = b
  BY <1>2, <1>5, <1>7, SMTT(20) DEF OpRec, NoTask, b
<1>9. After(cur, o) = a \o b
  BY <1>7, <1>8 DEF After, a
<1>. QED
  BY <1>1, <1>3, <1>6, <1>8, <1>9

\* What contains the longer key contains the shorter one.
LEMMA MatchShorter ==
  ASSUME NEW key \in Seq(STRING), NEW longer \in Seq(STRING), Len(longer) = Len(key) + 1,
         \A j \in 1..Len(key) : longer[j] = key[j], NEW i \in Item, Match(longer, i)
  PROVE  Match(key, i)
<1>1. PICK v \in Targets[i] : Len(longer) <= Len(v) /\ IsPart(longer, v)
  BY DEF Match
<1>2. v \in Seq(STRING) /\ Len(v) \in Nat /\ Len(key) \in Nat
  BY <1>1, SearchAssumption
<1>3. PICK n \in 0..(Len(v) - Len(longer)) : \A j \in DOMAIN longer : v[n + j] = longer[j]
  BY <1>1 DEF IsPart
<1>4. n \in 0..(Len(v) - Len(key)) /\ Len(key) <= Len(v)
  BY <1>1, <1>2, <1>3
<1>5. \A j \in DOMAIN key : j \in 1..Len(key) /\ j \in DOMAIN longer
  BY <1>2
<1>6. \A j \in DOMAIN key : v[n + j] = key[j]
  BY <1>3, <1>5
<1>. QED
  BY <1>4, <1>6 DEF Match, IsPart

\* Operations without pops, without anything, and their first steps.
LEMMA AfterNoPop ==
  ASSUME NEW key \in Seq(STRING), NEW o \in OpRec, o.pop = 0
  PROVE  After(key, o) = key \o (IF o.pc = "search" THEN Tail(o.push) ELSE o.push)
<1>1. Len(key) - 0 = Len(key)
  OBVIOUS
<1>. QED
  BY <1>1, SubSeqFull DEF After

LEMMA NoOpFacts ==
  /\ NoOp \in OpRec /\ NoOp.pop = 0 /\ NoOp.push = <<>> /\ NoOp.pc = "idle"
  /\ \A key \in Seq(STRING) : After(key, NoOp) = key
<1>1. NoOp \in OpRec /\ NoOp.pop = 0 /\ NoOp.push = <<>> /\ NoOp.pc = "idle"
  BY DEF NoOp, OpRec, NoTask
<1>2. \A key \in Seq(STRING) : After(key, NoOp) = key \o <<>>
  BY <1>1, AfterNoPop
<1>. QED
  BY <1>1, <1>2, ConcatEmptySeq

LEMMA AfterPop ==
  ASSUME NEW key \in Seq(STRING), NEW o \in OpRec, o.pop > 0, o.pop <= Len(key),
         NEW p \in OpRec, p.pop = o.pop - 1, p.push = o.push, p.pc = o.pc,
         NEW short \in Seq(STRING), Len(short) = Len(key) - 1,
         \A j \in 1..Len(short) : short[j] = key[j]
  PROVE  After(short, p) = After(key, o)
<1>1. Len(key) \in Nat /\ o.pop \in Nat
  BY DEF OpRec
<1> DEFINE n == Len(key) - o.pop
<1>2. n \in Nat /\ Len(short) - p.pop = n /\ n <= Len(short) /\ n <= Len(key)
  BY <1>1
<1> HIDE DEF n
<1>3. /\ SubSeq(key, 1, n) \in Seq(STRING) /\ Len(SubSeq(key, 1, n)) = n
      /\ \A j \in 1..n : SubSeq(key, 1, n)[j] = key[j]
  BY <1>1, <1>2
<1>4. /\ SubSeq(short, 1, n) \in Seq(STRING) /\ Len(SubSeq(short, 1, n)) = n
      /\ \A j \in 1..n : SubSeq(short, 1, n)[j] = short[j]
  BY <1>1, <1>2
<1>5. \A j \in 1..n : j \in 1..Len(short)
  BY <1>1, <1>2
<1>6. \A j \in 1..n : SubSeq(key, 1, n)[j] = SubSeq(short, 1, n)[j]
  BY <1>3, <1>4, <1>5
<1>7. SubSeq(key, 1, n) = SubSeq(short, 1, n)
  BY <1>3, <1>4, <1>6, SeqEqual
<1>. QED
  BY <1>2, <1>7 DEF After, n

LEMMA AfterPush ==
  ASSUME NEW key \in Seq(STRING), NEW o \in OpRec, o.pop = 0, o.push # <<>>, o.pc = "apply",
         NEW p \in OpRec, p.pop = 0, p.push = o.push, p.pc = "search"
  PROVE  /\ Append(key, o.push[1]) \in Seq(STRING)
         /\ After(Append(key, o.push[1]), p) = After(key, o)
<1> DEFINE c == o.push[1]
           rest == Tail(o.push)
<1>1. /\ o.push \in Seq(STRING) /\ c \in STRING /\ rest \in Seq(STRING)
      /\ <<c>> \in Seq(STRING) /\ Append(key, c) \in Seq(STRING)
  BY DEF OpRec
<1>2. o.push = <<c>> \o rest
  <2>1. /\ Len(o.push) \in 1..Len(o.push) /\ 1 \in 1..Len(o.push)
        /\ SubSeq(o.push, 1, Len(o.push)) = o.push
    BY <1>1, SubSeqFull
  <2>2. o.push = <<c>> \o SubSeq(o.push, 1 + 1, Len(o.push))
    BY <1>1, <2>1, SubSeqRecursiveFirst
  <2>3. rest = SubSeq(o.push, 2, Len(o.push))
    BY <1>1, TailIsSubSeq
  <2>. QED
    BY <2>2, <2>3
<1>3. After(Append(key, c), p) = Append(key, c) \o rest /\ After(key, o) = key \o o.push
  BY <1>1, AfterNoPop
<1> HIDE DEF c, rest
<1>4. Append(key, c) = key \o <<c>>
  BY <1>1, AppendIsConcat
<1>5. (key \o <<c>>) \o rest = key \o (<<c>> \o rest)
  BY <1>1, ConcatAssociative
<1>6. After(Append(key, c), p) = After(key, o)
  BY <1>2, <1>3, <1>4, <1>5
<1>. QED
  BY <1>1, <1>6 DEF c

\* What is left when a push is done.
LEMMA RestFacts ==
  ASSUME NEW o \in OpRec, o.push # <<>>, o.pop = 0
  PROVE  /\ Rest(o) \in OpRec /\ Rest(o).pop = 0 /\ Rest(o).pc \in {"idle", "apply"}
         /\ Rest(o).pc = "idle" => Rest(o) = NoOp
         /\ Rest(o).push = Tail(o.push)
         /\ o.pc = "search" => \A key \in Seq(STRING) : After(key, Rest(o)) = After(key, o)
<1>1. o.push \in Seq(STRING) /\ Len(o.push) \in Nat /\ Tail(o.push) \in Seq(STRING)
  BY DEF OpRec
<1>2. CASE Len(o.push) = 1
  <2>1. Rest(o) = NoOp
    BY <1>2 DEF Rest
  <2>2. Len(Tail(o.push)) = 0
    BY <1>1, <1>2
  <2>3. Tail(o.push) = <<>>
    BY <1>1, <2>2, EmptySeq
  <2>. QED
    BY <2>1, <2>3, NoOpFacts, AfterNoPop, ConcatEmptySeq
<1>3. CASE Len(o.push) # 1
  <2>1. Rest(o) = [o EXCEPT !.push = Tail(@), !.pc = "apply"]
    BY <1>3 DEF Rest
  <2>2. /\ Rest(o) \in OpRec /\ Rest(o).pop = 0 /\ Rest(o).pc = "apply"
        /\ Rest(o).push = Tail(o.push)
    BY <1>1, <2>1 DEF OpRec
  <2>. QED
    BY <2>2, AfterNoPop
<1>. QED
  BY <1>2, <1>3

LEMMA StackKeyFacts ==
  ASSUME SearchTypes, StackOfPrefixes
  PROVE  /\ StackKey \in Seq(STRING) /\ Len(StackKey) = Len(stack) /\ Len(stack) \in Nat
         /\ 1..made \subseteq SearchTask
         /\ \A i \in 1..Len(stack) : stack[i] \in 1..made /\ stack[i] \in SearchTask
         /\ stack # <<>> => /\ Len(stack) \in 1..Len(stack) /\ Top = stack[Len(stack)]
                            /\ Top \in 1..made /\ Top \in SearchTask
<1>1. 1..made \subseteq SearchTask
  BY SearchAssumption DEF SearchTypes, SearchTask
<1>2. Len(stack) \in Nat /\ \A i \in 1..Len(stack) : stack[i] \in 1..made
  BY DEF SearchTypes
<1>3. stack # <<>> => Len(stack) \in 1..Len(stack) /\ Top = stack[Len(stack)]
  BY DEF SearchTypes, Top
<1>4. CASE stack = <<>>
  BY <1>1, <1>2, <1>4 DEF StackKey
<1>5. CASE stack # <<>>
  <2>1. Top \in SearchTask /\ Top = stack[Len(stack)] /\ Len(stack) \in 1..Len(stack)
    BY <1>1, <1>2, <1>3, <1>5
  <2>2. task[Top] \in TaskRec
    BY <2>1 DEF SearchTypes
  <2>3. task[Top].chars \in Seq(STRING) /\ Len(task[Top].chars) = Len(stack)
    BY <2>1, <2>2 DEF TaskRec, StackOfPrefixes
  <2>. QED
    BY <1>1, <1>2, <1>3, <1>5, <2>3 DEF StackKey
<1>. QED
  BY <1>4, <1>5

\* The steps of the goroutines leave the keys and the operations alone.
LEMMA ShapeStays ==
  ASSUME ShapeInv, UNCHANGED <<ops, currentRunes, op, stack, made>>,
         task' \in [SearchTask -> TaskRec], gor' \in [SearchTask -> [Part -> RunRec]],
         searchRaced' \in BOOLEAN,
         \A t \in SearchTask : /\ task'[t].chars = task[t].chars
                               /\ task'[t].canceled = task[t].canceled
                               /\ t > made => gor'[t] = gor[t]
  PROVE  ShapeInv'
<1>1. /\ 1..made \subseteq SearchTask
      /\ \A i \in 1..Len(stack) : stack[i] \in SearchTask
      /\ stack # <<>> => Top \in SearchTask
  BY StackKeyFacts DEF ShapeInv
<1>2. SearchTypes'
  BY DEF ShapeInv, SearchTypes
<1>3. StackOfPrefixes'
  <2>1. \A i \in 1..Len(stack) : i > 1 => i - 1 \in 1..Len(stack)
    BY DEF ShapeInv, SearchTypes
  <2>2. \A i \in 1..Len(stack) : Len(task'[stack[i]].chars) = i
    BY <1>1 DEF ShapeInv, StackOfPrefixes
  <2>3. \A i \in 1..Len(stack) : i > 1 =>
          \A j \in 1..(i - 1) : task'[stack[i]].chars[j] = task'[stack[i - 1]].chars[j]
    BY <1>1, <2>1 DEF ShapeInv, StackOfPrefixes
  <2>4. \A t \in 1..made : task'[t].canceled <=> ~OnStack(t)
    <3>1. \A t \in 1..made : task'[t].canceled = task[t].canceled
      BY <1>1
    <3>. QED
      BY <3>1, Zenon DEF ShapeInv, StackOfPrefixes
  <2>5. \A t \in SearchTask : t > made => gor'[t] = [s \in Part |-> NoRun]
    BY DEF ShapeInv, StackOfPrefixes
  <2>6. \A i, j \in 1..Len(stack) : i < j => stack[i] < stack[j]
    BY DEF ShapeInv, StackOfPrefixes
  <2>7. \A t : OnStack(t)' <=> OnStack(t)
    BY DEF OnStack
  <2>. QED
    BY <2>2, <2>3, <2>4, <2>5, <2>6, <2>7 DEF StackOfPrefixes
<1>4. OpInOrder'
  BY DEF ShapeInv, OpInOrder
<1>5. Top' = Top /\ StackKey' = StackKey
  BY <1>1 DEF StackKey, Top
<1>6. OpsReachKey'
  BY <1>5 DEF ShapeInv, OpsReachKey
<1>. QED
  BY <1>2, <1>3, <1>4, <1>6 DEF ShapeInv

\* A search adds operations that turn the last key into the new one.
LEMMA SearchReaches ==
  ASSUME ShapeInv, NEW key \in Key, NEW changed \in BOOLEAN, Search(key, changed)
  PROVE  ShapeInv'
<1> DEFINE first == [NoOp EXCEPT !.pop = Len(currentRunes), !.pc = "apply"]
           n == Len(ops)
<1>1. /\ UNCHANGED <<op, stack, task, gor, made, searchRaced>> /\ currentRunes' = key
      /\ changed => ops' = ops \o <<first, RuneSliceDiff(key, <<>>)>>
      /\ ~changed => ops' = Append(ops, RuneSliceDiff(key, currentRunes))
  BY DEF Search
<1>2. key \in Seq(STRING) /\ currentRunes \in Seq(STRING) /\ ops \in Seq(OpRec) /\ n \in Nat
  BY SearchAssumption DEF ShapeInv, SearchTypes
<1>3. UNCHANGED <<Top, StackKey>>
  BY <1>1 DEF Top, StackKey
<1>4. PICK k \in [0..n -> Seq(STRING)] :
         /\ op.pop <= Len(StackKey) /\ k[0] = After(StackKey, op)
         /\ \A i \in 1..n : ops[i].pop <= Len(k[i - 1]) /\ k[i] = After(k[i - 1], ops[i])
         /\ k[n] = currentRunes
  BY DEF ShapeInv, OpsReachKey
<1>5. SUFFICES ops' \in Seq(OpRec) /\ (\A i \in 1..Len(ops') : ops'[i].pc = "apply") /\ OpsReachKey'
  <2>1. SearchTypes' /\ OpInOrder'
    BY <1>1, <1>2, <1>5 DEF ShapeInv, SearchTypes, OpInOrder
  <2>2. StackOfPrefixes'
    BY <1>1 DEF ShapeInv, StackOfPrefixes, OnStack
  <2>. QED
    BY <1>5, <2>1, <2>2 DEF ShapeInv
<1>6. \A i \in 1..n : ops[i].pc = "apply"
  BY DEF ShapeInv, OpInOrder
<1>7. CASE ~changed
  <2> DEFINE o == RuneSliceDiff(key, currentRunes)
             k2 == [i \in 0..(n + 1) |-> IF i = n + 1 THEN key ELSE k[i]]
  <2>1. o \in OpRec /\ o.pc = "apply" /\ o.pop <= Len(currentRunes) /\ After(currentRunes, o) = key
    BY <1>2, DiffMakesKey
  <2> HIDE DEF o
  <2>2. ops' = Append(ops, o)
    BY <1>1, <1>7 DEF o
  <2> HIDE DEF n
  <2>3. /\ ops' \in Seq(OpRec) /\ Len(ops') = n + 1 /\ ops'[n + 1] = o
        /\ \A i \in 1..n : ops'[i] = ops[i]
    BY <1>2, <2>1, <2>2 DEF n
  <2>4. k2 \in [0..(n + 1) -> Seq(STRING)]
    BY <1>2, <1>4
  <2>5. \A i \in 0..n : k2[i] = k[i]
    BY <1>2
  <2>6. k2[n + 1] = key /\ k2[0] = k[0] /\ k2[n] = currentRunes
    BY <1>2, <1>4, <2>5
  <2> HIDE DEF k2
  <2>7. ASSUME NEW i \in 1..(n + 1)
        PROVE  ops'[i].pop <= Len(k2[i - 1]) /\ k2[i] = After(k2[i - 1], ops'[i])
    <3>1. CASE i = n + 1
      <4>1. i - 1 = n
        BY <1>2, <3>1
      <4>. QED
        BY <2>1, <2>3, <2>6, <3>1, <4>1
    <3>2. CASE i # n + 1
      <4>1. i \in 1..n /\ i - 1 \in 0..n /\ i \in 0..n
        BY <1>2, <3>2
      <4>. QED
        BY <1>4, <2>3, <2>5, <4>1
    <3>. QED
      BY <3>1, <3>2
  <2>8. OpsReachKey'
    BY <1>1, <1>3, <1>4, <2>3, <2>4, <2>6, <2>7 DEF OpsReachKey
  <2>9. \A i \in 1..(n + 1) : i \in 1..n \/ i = n + 1
    BY <1>2
  <2>. QED
    BY <1>6, <2>1, <2>3, <2>8, <2>9
<1>8. CASE changed
  <2> DEFINE o == RuneSliceDiff(key, <<>>)
             k2 == [i \in 0..(n + 2) |-> IF i = n + 2 THEN key ELSE IF i = n + 1 THEN <<>> ELSE k[i]]
  <2>1. o \in OpRec /\ o.pc = "apply" /\ o.pop <= Len(<<>>) /\ After(<<>>, o) = key
    <3>1. <<>> \in Seq(STRING)
      OBVIOUS
    <3>. QED
      BY <1>2, <3>1, DiffMakesKey
  <2>2. /\ first \in OpRec /\ first.pc = "apply" /\ first.pop = Len(currentRunes)
        /\ first.push = <<>>
    <3>1. first = [pop |-> Len(currentRunes), push |-> <<>>, pc |-> "apply", prev |-> 0]
      BY DEF NoOp, NoTask
    <3>2. <<>> \in Seq(STRING) /\ Len(currentRunes) \in Nat
      BY <1>2
    <3> HIDE DEF first
    <3>3. first \in OpRec
      BY <3>1, <3>2 DEF OpRec
    <3>. QED
      BY <3>1, <3>3
  <2>3. After(currentRunes, first) = <<>>
    <3>1. Len(currentRunes) - Len(currentRunes) = 0 /\ 0 \in Int /\ 1 \in Int /\ 0 < 1
      BY <1>2
    <3>2. SubSeq(currentRunes, 1, 0) = <<>>
      BY <3>1, SubSeqEmpty
    <3>3. After(currentRunes, first) = <<>> \o <<>>
      BY <2>2, <3>1, <3>2 DEF After
    <3>. QED
      BY <3>3
  <2> HIDE DEF o, first
  <2>4. ops' = ops \o <<first, o>>
    BY <1>1, <1>8 DEF o
  <2> HIDE DEF n
  <2>5. /\ ops' \in Seq(OpRec) /\ Len(ops') = n + 2 /\ ops'[n + 1] = first /\ ops'[n + 2] = o
        /\ \A i \in 1..n : ops'[i] = ops[i]
    <3>1. <<first, o>> \in Seq(OpRec) /\ Len(<<first, o>>) = 2 /\ n = Len(ops)
      BY <2>1, <2>2 DEF n
    <3>2. /\ ops' \in Seq(OpRec) /\ Len(ops') = n + 2
          /\ \A i \in 1..(n + 2) : ops'[i] = IF i <= n THEN ops[i] ELSE <<first, o>>[i - n]
      BY <1>2, <2>4, <3>1, ConcatProperties
    <3>3. n + 1 \in 1..(n + 2) /\ n + 2 \in 1..(n + 2) /\ (n + 1) - n = 1 /\ (n + 2) - n = 2
      BY <1>2
    <3>4. <<first, o>>[1] = first /\ <<first, o>>[2] = o /\ ~(n + 1 <= n) /\ ~(n + 2 <= n)
      BY <1>2
    <3>5. \A i \in 1..n : i \in 1..(n + 2) /\ i <= n
      BY <1>2
    <3>6. ops'[n + 1] = first
      BY <3>2, <3>3, <3>4
    <3>7. ops'[n + 2] = o
      BY <3>2, <3>3, <3>4
    <3>8. \A i \in 1..n : ops'[i] = ops[i]
      BY <3>2, <3>5
    <3>. QED
      BY <3>2, <3>6, <3>7, <3>8
  <2>6. k2 \in [0..(n + 2) -> Seq(STRING)]
    <3>1. <<>> \in Seq(STRING)
      OBVIOUS
    <3>2. \A i \in 0..(n + 2) : i = n + 2 \/ i = n + 1 \/ i \in 0..n
      BY <1>2
    <3>. QED
      BY <1>2, <1>4, <3>1, <3>2
  <2>7. \A i \in 0..n : k2[i] = k[i]
    BY <1>2
  <2>8. k2[n + 2] = key /\ k2[n + 1] = <<>> /\ k2[0] = k[0] /\ k2[n] = currentRunes
    BY <1>2, <1>4, <2>7
  <2> HIDE DEF k2
  <2>9. ASSUME NEW i \in 1..(n + 2)
        PROVE  ops'[i].pop <= Len(k2[i - 1]) /\ k2[i] = After(k2[i - 1], ops'[i])
    <3>1. CASE i = n + 1
      <4>1. i - 1 = n /\ Len(currentRunes) <= Len(currentRunes)
        BY <1>2, <3>1
      <4>. QED
        BY <2>2, <2>3, <2>5, <2>8, <3>1, <4>1
    <3>2. CASE i = n + 2
      <4>1. i - 1 = n + 1
        BY <1>2, <3>2
      <4>. QED
        BY <2>1, <2>5, <2>8, <3>2, <4>1
    <3>3. CASE i # n + 1 /\ i # n + 2
      <4>1. i \in 1..n /\ i - 1 \in 0..n /\ i \in 0..n
        BY <1>2, <3>3
      <4>. QED
        BY <1>4, <2>5, <2>7, <4>1
    <3>. QED
      BY <3>1, <3>2, <3>3
  <2>10. OpsReachKey'
    BY <1>1, <1>3, <1>4, <2>5, <2>6, <2>8, <2>9 DEF OpsReachKey
  <2>11. \A i \in 1..(n + 2) : i \in 1..n \/ i = n + 1 \/ i = n + 2
    BY <1>2
  <2>. QED
    BY <1>6, <2>1, <2>2, <2>5, <2>10, <2>11
<1>. QED
  BY <1>7, <1>8

LEMMA TakeOpReaches == ASSUME ShapeInv, TakeOp PROVE ShapeInv'
<1> DEFINE n == Len(ops)
<1>1. /\ op.pc = "idle" /\ ops # <<>> /\ op' = Head(ops) /\ ops' = Tail(ops)
      /\ UNCHANGED <<currentRunes, stack, task, gor, made, searchRaced>>
  BY DEF TakeOp
<1>2. op = NoOp /\ ops \in Seq(OpRec) /\ \A i \in 1..n : ops[i].pc = "apply"
  BY <1>1 DEF ShapeInv, SearchTypes, OpInOrder
<1>3. /\ ops' \in Seq(OpRec) /\ op' = ops[1] /\ op' \in OpRec /\ n \in Nat /\ n > 0
      /\ Len(ops') = n - 1 /\ \A i \in 1..(n - 1) : ops'[i] = ops[i + 1]
  BY <1>1, <1>2
<1>4. UNCHANGED <<Top, StackKey>> /\ StackKey \in Seq(STRING)
  BY <1>1, StackKeyFacts DEF Top, StackKey, ShapeInv
<1>5. PICK k \in [0..n -> Seq(STRING)] :
         /\ op.pop <= Len(StackKey) /\ k[0] = After(StackKey, op)
         /\ \A i \in 1..n : ops[i].pop <= Len(k[i - 1]) /\ k[i] = After(k[i - 1], ops[i])
         /\ k[n] = currentRunes
  BY DEF ShapeInv, OpsReachKey
<1>6. k[0] = StackKey
  BY <1>2, <1>4, <1>5, NoOpFacts
<1> HIDE DEF n
<1> DEFINE k2 == [i \in 0..(n - 1) |-> k[i + 1]]
<1>7. k2 \in [0..(n - 1) -> Seq(STRING)]
  <2>1. \A i \in 0..(n - 1) : i + 1 \in 0..n
    BY <1>3
  <2>. QED
    BY <1>5, <2>1
<1>8. \A i \in 0..(n - 1) : k2[i] = k[i + 1]
  OBVIOUS
<1> HIDE DEF k2
<1>9. op'.pop <= Len(StackKey) /\ k2[0] = After(StackKey, op')
  <2>1. 1 \in 1..n /\ 1 - 1 = 0 /\ 0 \in 0..(n - 1) /\ 0 + 1 = 1
    BY <1>3
  <2>2. ops[1].pop <= Len(k[0]) /\ k[1] = After(k[0], ops[1])
    BY <1>5, <2>1
  <2>. QED
    BY <1>3, <1>6, <1>8, <2>1, <2>2
<1>10. ASSUME NEW i \in 1..(n - 1)
       PROVE  ops'[i].pop <= Len(k2[i - 1]) /\ k2[i] = After(k2[i - 1], ops'[i])
  <2>1. /\ i + 1 \in 1..n /\ (i + 1) - 1 = i /\ i - 1 \in 0..(n - 1) /\ i \in 0..(n - 1)
        /\ (i - 1) + 1 = i
    BY <1>3
  <2>2. ops[i + 1].pop <= Len(k[i]) /\ k[i + 1] = After(k[i], ops[i + 1])
    BY <1>5, <2>1
  <2>3. k2[i] = k[i + 1] /\ k2[i - 1] = k[i] /\ ops'[i] = ops[i + 1]
    BY <1>3, <1>8, <2>1
  <2>. QED
    BY <2>2, <2>3
<1>11. k2[n - 1] = currentRunes
  <2>1. n - 1 \in 0..(n - 1) /\ (n - 1) + 1 = n
    BY <1>3
  <2>. QED
    BY <1>5, <1>8, <2>1
<1>12. OpsReachKey'
  BY <1>1, <1>3, <1>4, <1>7, <1>9, <1>10, <1>11 DEF OpsReachKey
<1>13. op'.pc = "apply" /\ \A i \in 1..(n - 1) : ops'[i].pc = "apply"
  <2>1. 1 \in 1..n /\ \A i \in 1..(n - 1) : i + 1 \in 1..n
    BY <1>3
  <2>. QED
    BY <1>2, <1>3, <2>1 DEF n
<1>14. SearchTypes' /\ OpInOrder'
  BY <1>1, <1>3, <1>13 DEF ShapeInv, SearchTypes, OpInOrder
<1>15. StackOfPrefixes'
  BY <1>1 DEF ShapeInv, StackOfPrefixes, OnStack
<1>. QED
  BY <1>12, <1>14, <1>15 DEF ShapeInv

\* When only the key of the stack and the operation under way change, it is
\* enough that the operation still makes the same key.
LEMMA SameKeyAfter ==
  ASSUME OpsReachKey, UNCHANGED <<ops, currentRunes>>,
         op'.pop <= Len(StackKey'), After(StackKey', op') = After(StackKey, op)
  PROVE  OpsReachKey'
BY DEF OpsReachKey

LEMMA PopReaches == ASSUME ShapeInv, Pop PROVE ShapeInv'
<1> DEFINE n == Len(stack)
<1>1. /\ op.pc = "apply" /\ op.pop > 0 /\ op' = [op EXCEPT !.pop = @ - 1]
      /\ UNCHANGED <<ops, currentRunes, gor, made>>
      /\ searchRaced' = (searchRaced \/ InDone)
  BY DEF Pop
<1>2. /\ op \in OpRec /\ op' \in OpRec /\ op'.pop = op.pop - 1 /\ op'.push = op.push
      /\ op'.pc = "apply"
  <2>1. op \in OpRec
    BY DEF ShapeInv, SearchTypes
  <2>. QED
    BY <1>1, <2>1 DEF OpRec
<1>3. op.pop <= Len(StackKey)
  BY DEF ShapeInv, OpsReachKey
<1>4. /\ StackKey \in Seq(STRING) /\ Len(StackKey) = n /\ n \in Nat
      /\ \A i \in 1..n : stack[i] \in 1..made /\ stack[i] \in SearchTask
      /\ 1..made \subseteq SearchTask
  BY StackKeyFacts DEF ShapeInv
<1>5. n > 0 /\ stack # <<>>
  BY <1>1, <1>2, <1>3, <1>4 DEF OpRec
<1>6. /\ n \in 1..n /\ Top = stack[n] /\ Top \in 1..made /\ Top \in SearchTask
      /\ StackKey = task[Top].chars
  BY <1>5, StackKeyFacts DEF ShapeInv, StackKey
<1>7. /\ task' = [task EXCEPT ![Top].canceled = TRUE]
      /\ stack' = SubSeq(stack, 1, n - 1)
  BY <1>5 DEF Pop
<1> HIDE DEF n
<1>8. /\ stack' \in Seq(1..made) /\ Len(stack') = n - 1
      /\ \A i \in 1..(n - 1) : stack'[i] = stack[i] /\ i \in 1..n
  <2>1. stack \in Seq(1..made) /\ Len(stack) = n
    BY DEF ShapeInv, SearchTypes, n
  <2>. QED
    BY <1>4, <1>5, <1>7, <2>1
<1>9. /\ task' \in [SearchTask -> TaskRec]
      /\ \A t \in SearchTask : /\ task'[t].chars = task[t].chars
                               /\ t # Top => task'[t] = task[t]
      /\ task'[Top].canceled = TRUE
  <2>1. task \in [SearchTask -> TaskRec]
    BY DEF ShapeInv, SearchTypes
  <2>. QED
    BY <1>6, <1>7, <2>1 DEF TaskRec
<1>10. SearchTypes'
  <2>1. InDone \in BOOLEAN
    BY DEF InDone
  <2>. QED
    BY <1>1, <1>2, <1>8, <1>9, <2>1 DEF ShapeInv, SearchTypes
<1>11. \A i, j \in 1..n : stack[i] = stack[j] => i = j
  <2>1. \A i, j \in 1..n : i < j => stack[i] < stack[j]
    BY DEF ShapeInv, StackOfPrefixes, n
  <2>. QED
    BY <1>4, <2>1
<1>12. StackOfPrefixes'
  <2>1. \A i, j \in 1..(n - 1) : i < j => stack'[i] < stack'[j]
    BY <1>8 DEF ShapeInv, StackOfPrefixes, n
  <2>2. \A i \in 1..(n - 1) : Len(task'[stack'[i]].chars) = i
    BY <1>4, <1>8, <1>9, SMTT(20) DEF ShapeInv, StackOfPrefixes, n
  <2>3. ASSUME NEW i \in 1..(n - 1), i > 1, NEW j \in 1..(i - 1)
        PROVE  task'[stack'[i]].chars[j] = task'[stack'[i - 1]].chars[j]
    <3>1. i - 1 \in 1..(n - 1) /\ i \in 1..n
      BY <1>4, <2>3
    <3>2. task[stack[i]].chars[j] = task[stack[i - 1]].chars[j]
      BY <2>3, <3>1 DEF ShapeInv, StackOfPrefixes, n
    <3>3. i - 1 \in 1..n /\ stack'[i] = stack[i] /\ stack'[i - 1] = stack[i - 1]
      BY <1>8, <3>1
    <3>. QED
      BY <1>4, <1>9, <3>1, <3>2, <3>3
  <2>4. ASSUME NEW t \in 1..made PROVE task'[t].canceled <=> ~OnStack(t)'
    <3>1. OnStack(t)' <=> \E i \in 1..(n - 1) : stack[i] = t
      BY <1>8 DEF OnStack
    <3>2. OnStack(t) <=> \E i \in 1..n : stack[i] = t
      BY DEF OnStack, n
    <3>3. CASE t = Top
      <4>1. \A i \in 1..(n - 1) : i # n
        BY <1>4
      <4>2. ~OnStack(t)'
        BY <1>6, <1>8, <1>11, <3>1, <3>3, <4>1
      <4>. QED
        BY <1>9, <3>3, <4>2
    <3>4. CASE t # Top
      <4>1. \A i \in 1..n : i # n => i \in 1..(n - 1)
        BY <1>4
      <4>2. OnStack(t)' <=> OnStack(t)
        BY <1>6, <1>8, <3>1, <3>2, <3>4, <4>1
      <4>3. task'[t].canceled = task[t].canceled
        BY <1>4, <1>9, <3>4
      <4>4. task[t].canceled <=> ~OnStack(t)
        BY DEF ShapeInv, StackOfPrefixes
      <4>. QED
        BY <4>2, <4>3, <4>4
    <3>. QED
      BY <3>3, <3>4
  <2>5. \A t \in SearchTask : t > made => gor'[t] = [s \in Part |-> NoRun]
    BY <1>1 DEF ShapeInv, StackOfPrefixes
  <2>. QED
    BY <1>1, <1>8, <2>1, <2>2, <2>3, <2>4, <2>5 DEF StackOfPrefixes
<1>13. OpInOrder'
  BY <1>1, <1>2 DEF ShapeInv, OpInOrder
<1> DEFINE short == StackKey'
<1>14. /\ short \in Seq(STRING) /\ Len(short) = n - 1
       /\ \A j \in 1..(n - 1) : short[j] = StackKey[j]
  <2>1. CASE n = 1
    <3>1. Len(stack') = 0
      BY <1>8, <2>1
    <3>2. stack' = <<>>
      BY <1>8, <3>1, EmptySeq
    <3>3. short = <<>>
      BY <3>2 DEF StackKey
    <3>. QED
      BY <2>1, <3>3
  <2>2. CASE n # 1
    <3>1. n - 1 \in 1..(n - 1) /\ n > 1 /\ n - 1 \in 1..n
      BY <1>4, <1>5, <2>2
    <3>2. stack' # <<>> /\ Top' = stack[n - 1] /\ stack[n - 1] \in SearchTask
      BY <1>4, <1>8, <3>1 DEF Top
    <3>3. short = task[stack[n - 1]].chars
      BY <1>9, <3>2 DEF StackKey
    <3>4. \A j \in 1..(n - 1) : task[stack[n]].chars[j] = task[stack[n - 1]].chars[j]
      BY <1>6, <3>1 DEF ShapeInv, StackOfPrefixes, n
    <3>5. task[stack[n - 1]] \in TaskRec
      BY <3>2 DEF ShapeInv, SearchTypes
    <3>6. Len(task[stack[n - 1]].chars) = n - 1
      BY <3>1 DEF ShapeInv, StackOfPrefixes, n
    <3>. QED
      BY <1>6, <3>3, <3>4, <3>5, <3>6 DEF TaskRec
  <2>. QED
    BY <2>1, <2>2
<1> HIDE DEF short
<1>15. /\ op'.pop = op.pop - 1 /\ op'.push = op.push /\ op'.pc = op.pc
       /\ Len(short) = Len(StackKey) - 1 /\ \A j \in 1..Len(short) : short[j] = StackKey[j]
  BY <1>1, <1>2, <1>4, <1>14
<1> DEFINE p == op'
<1>15a. /\ p \in OpRec /\ p.pop = op.pop - 1 /\ p.push = op.push /\ p.pc = op.pc
  BY <1>2, <1>15
<1> HIDE DEF p
<1>15b. After(short, p) = After(StackKey, op)
  BY <1>1, <1>2, <1>3, <1>4, <1>14, <1>15, <1>15a, AfterPop, SMTT(20)
<1>16. After(StackKey', op') = After(StackKey, op)
  BY <1>15b DEF p, short
<1>17. op'.pop <= Len(StackKey')
  BY <1>2, <1>3, <1>4, <1>14 DEF OpRec, short
<1>18. OpsReachKey'
  BY <1>1, <1>16, <1>17, SameKeyAfter DEF ShapeInv
<1>. QED
  BY <1>10, <1>12, <1>13, <1>18 DEF ShapeInv

LEMMA EmitTopReaches == ASSUME ShapeInv, EmitTop PROVE ShapeInv'
<1>1. /\ op.pc = "apply" /\ op.pop = 0 /\ op.push = <<>> /\ op' = NoOp
      /\ UNCHANGED <<ops, currentRunes, stack, task, gor, made>>
      /\ searchRaced' = (searchRaced \/ InDone)
  BY DEF EmitTop
<1>2. InDone \in BOOLEAN
  BY DEF InDone
<1>3. SearchTypes' /\ OpInOrder'
  BY <1>1, <1>2, NoOpFacts DEF ShapeInv, SearchTypes, OpInOrder
<1>4. StackOfPrefixes'
  BY <1>1 DEF ShapeInv, StackOfPrefixes, OnStack
<1>5. UNCHANGED <<Top, StackKey>> /\ StackKey \in Seq(STRING)
  BY <1>1, StackKeyFacts DEF Top, StackKey, ShapeInv
<1>6. op \in OpRec
  BY DEF ShapeInv, SearchTypes
<1>7. After(StackKey, op) = StackKey
  BY <1>1, <1>5, <1>6, AfterNoPop, ConcatEmptySeq
<1>8. OpsReachKey'
  <2>1. After(StackKey', op') = After(StackKey, op) /\ op'.pop <= Len(StackKey')
    BY <1>1, <1>5, <1>7, NoOpFacts
  <2>. QED
    BY <1>1, <2>1, SameKeyAfter DEF ShapeInv
<1>. QED
  BY <1>3, <1>4, <1>8 DEF ShapeInv

LEMMA StartSearchReaches == ASSUME ShapeInv, StartSearch PROVE ShapeInv'
<1>1. /\ op.pc = "search" /\ op' = Rest(op)
      /\ UNCHANGED <<ops, currentRunes, stack, task, made>>
      /\ gor' = IF task[op.prev].finished
              THEN [gor EXCEPT ![Top]["push"] = RunTask(Found(task[op.prev].result))] ELSE gor
      /\ searchRaced' = (searchRaced \/ InDone)
  BY DEF StartSearch
<1>2. op \in OpRec /\ op.pop = 0 /\ op.push # <<>> /\ Len(stack) > 1 /\ InDone \in BOOLEAN
  BY <1>1 DEF ShapeInv, SearchTypes, OpInOrder, InDone
<1>3. /\ op' \in OpRec /\ op'.pop = 0 /\ op'.pc \in {"idle", "apply"}
      /\ op'.pc = "idle" => op' = NoOp
      /\ \A key \in Seq(STRING) : After(key, op') = After(key, op)
  BY <1>1, <1>2, RestFacts
<1>4. stack # <<>> /\ Top \in SearchTask /\ Top \in 1..made /\ StackKey \in Seq(STRING)
  <2>1. stack # <<>>
    BY <1>2
  <2>. QED
    BY <2>1, StackKeyFacts DEF ShapeInv
<1>5. /\ gor' \in [SearchTask -> [Part -> RunRec]]
      /\ \A t \in SearchTask : t # Top => gor'[t] = gor[t]
  <2>1. RunTask(Found(task[op.prev].result)) \in RunRec
    BY DEF RunTask, Found, RunRec, RunPc
  <2>2. gor \in [SearchTask -> [Part -> RunRec]] /\ "push" \in Part
    BY DEF ShapeInv, SearchTypes, Part
  <2>. QED
    BY <1>1, <1>4, <2>1, <2>2
<1>6. SearchTypes' /\ OpInOrder'
  BY <1>1, <1>2, <1>3, <1>5 DEF ShapeInv, SearchTypes, OpInOrder
<1>7. StackOfPrefixes'
  <2>1. \A t \in SearchTask : t > made => t # Top
    BY <1>4 DEF ShapeInv, SearchTypes
  <2>2. \A t \in SearchTask : t > made => gor'[t] = [s \in Part |-> NoRun]
    BY <1>5, <2>1 DEF ShapeInv, StackOfPrefixes
  <2>. QED
    BY <1>1, <2>2 DEF ShapeInv, StackOfPrefixes, OnStack
<1>8. OpsReachKey'
  <2>1. StackKey' = StackKey
    BY <1>1 DEF StackKey, Top
  <2>2. After(StackKey', op') = After(StackKey, op) /\ op'.pop <= Len(StackKey')
    BY <1>3, <1>4, <2>1
  <2>. QED
    BY <1>1, <2>2, SameKeyAfter DEF ShapeInv
<1>. QED
  BY <1>6, <1>7, <1>8 DEF ShapeInv

LEMMA PushReaches == ASSUME ShapeInv, Push PROVE ShapeInv'
<1> DEFINE t == made + 1
           n == Len(stack)
           key == StackKey
           c == op.push[1]
           new == Append(key, c)
           p == [op EXCEPT !.pc = "search", !.prev = Top]
<1>1. /\ op.pc = "apply" /\ op.pop = 0 /\ op.push # <<>> /\ made < MaxTask /\ made' = t
      /\ stack' = Append(stack, t) /\ UNCHANGED <<ops, currentRunes>>
      /\ searchRaced' = (searchRaced \/ InDone)
      /\ IF stack = <<>> THEN gor' = [gor EXCEPT ![t]["push"] = RunTask(Item)] /\ op' = Rest(op)
                         ELSE op' = p /\ UNCHANGED gor
      /\ task' = [task EXCEPT ![t] = NewTask(IF stack = <<>> THEN <<c>>
                                             ELSE Append(task[Top].chars, c))]
  BY DEF Push
<1>2. /\ key \in Seq(STRING) /\ Len(key) = n /\ n \in Nat /\ 1..made \subseteq SearchTask
      /\ \A i \in 1..n : stack[i] \in 1..made /\ stack[i] \in SearchTask
      /\ stack # <<>> => /\ n \in 1..n /\ Top = stack[n] /\ Top \in 1..made
  BY StackKeyFacts DEF ShapeInv
<1>3. /\ op \in OpRec /\ made \in Nat /\ InDone \in BOOLEAN
      /\ gor \in [SearchTask -> [Part -> RunRec]] /\ task \in [SearchTask -> TaskRec]
      /\ stack \in Seq(1..made)
  BY DEF ShapeInv, SearchTypes, InDone
<1>4. c \in STRING
  BY <1>1, <1>3 DEF OpRec
<1>5. /\ new \in Seq(STRING) /\ Len(new) = n + 1 /\ \A j \in 1..n : new[j] = key[j]
  BY <1>2, <1>4
<1>6. task' = [task EXCEPT ![t] = NewTask(new)]
  <2>1. CASE stack = <<>>
    <3>1. key = <<>> /\ Append(<<>>, c) = <<c>>
      BY <2>1 DEF StackKey
    <3>. QED
      BY <1>1, <2>1, <3>1
  <2>2. CASE stack # <<>>
    BY <1>1, <2>2 DEF StackKey
  <2>. QED
    BY <2>1, <2>2
<1>7. t \in SearchTask /\ t \in 1..t /\ t \in Nat /\ t > made /\ t <= MaxTask
  BY <1>1, <1>3, SearchAssumption DEF SearchTask
<1>8. stack # <<>> => p \in OpRec /\ p.pop = 0 /\ p.push = op.push /\ p.pc = "search" /\ p.prev = stack[n]
  <2>1. stack # <<>> => Top \in Nat
    BY <1>2, <1>3
  <2>. QED
    BY <1>1, <1>2, <1>3, <2>1 DEF OpRec
<1>9. /\ Rest(op) \in OpRec /\ Rest(op).pop = 0 /\ Rest(op).pc \in {"idle", "apply"}
      /\ Rest(op).pc = "idle" => Rest(op) = NoOp
      /\ Rest(op).push = Tail(op.push)
  BY <1>1, <1>3, RestFacts
<1>10. op' \in OpRec /\ op'.pop = 0
  BY <1>1, <1>8, <1>9
<1>11. /\ gor' \in [SearchTask -> [Part -> RunRec]]
       /\ \A u \in SearchTask : u # t => gor'[u] = gor[u]
  <2>1. RunTask(Item) \in RunRec /\ "push" \in Part
    BY DEF RunTask, RunRec, RunPc, Part
  <2>. QED
    <3>1. CASE stack = <<>>
      <4>1. gor' = [gor EXCEPT ![t]["push"] = RunTask(Item)]
        BY <1>1, <3>1
      <4> HIDE DEF t
      <4>. QED
        BY <1>3, <1>7, <2>1, <4>1
    <3>2. CASE stack # <<>>
      BY <1>1, <1>3, <3>2
    <3>. QED
      BY <3>1, <3>2
<1>12. NewTask(new) \in TaskRec /\ NewTask(new).chars = new /\ NewTask(new).canceled = FALSE
  BY <1>5 DEF NewTask, TaskRec, NoResult
<1> HIDE DEF new, p, key, c
<1>13. /\ task' \in [SearchTask -> TaskRec] /\ task'[t].chars = new /\ task'[t].canceled = FALSE
       /\ \A u \in SearchTask : u # t => task'[u] = task[u]
  BY <1>3, <1>6, <1>7, <1>12
<1>14. /\ stack' \in Seq(1..t) /\ Len(stack') = n + 1 /\ stack'[n + 1] = t
       /\ \A i \in 1..n : stack'[i] = stack[i] /\ stack[i] < t
  <2>1. 1..made \subseteq 1..t
    BY <1>3
  <2>2. stack \in Seq(1..t)
    BY <1>3, <2>1
  <2>3. \A i \in 1..n : stack[i] < t
    BY <1>2, <1>3
  <2>. QED
    BY <1>1, <1>7, <2>2, <2>3
<1> HIDE DEF t, n
<1>15. SearchTypes'
  BY <1>1, <1>3, <1>7, <1>10, <1>11, <1>13, <1>14 DEF ShapeInv, SearchTypes
<1>16. \A i \in 1..(n + 1) : i = n + 1 \/ i \in 1..n
  BY <1>2
<1>17. \A i \in 1..n : task'[stack'[i]] = task[stack[i]]
  <2>1. \A i \in 1..n : stack[i] # t
    BY <1>2, <1>3, <1>7, <1>14
  <2>. QED
    BY <1>2, <1>13, <1>14, <2>1
<1>18. \A i, j \in 1..(n + 1) : i < j => stack'[i] < stack'[j]
  <2> SUFFICES ASSUME NEW i \in 1..(n + 1), NEW j \in 1..(n + 1), i < j PROVE stack'[i] < stack'[j]
    OBVIOUS
  <2>1. i \in 1..n
    BY <1>2
  <2>2. CASE j = n + 1
    BY <1>14, <2>1, <2>2
  <2>3. CASE j \in 1..n
    BY <1>14, <2>1, <2>3 DEF ShapeInv, StackOfPrefixes, n
  <2>. QED
    BY <1>16, <2>2, <2>3
<1>19. \A i \in 1..(n + 1) : Len(task'[stack'[i]].chars) = i
  <2>1. \A i \in 1..n : Len(task'[stack'[i]].chars) = i
    BY <1>17 DEF ShapeInv, StackOfPrefixes, n
  <2>2. Len(task'[stack'[n + 1]].chars) = n + 1
    BY <1>5, <1>13, <1>14
  <2>. QED
    BY <1>16, <2>1, <2>2
<1>20. ASSUME NEW i \in 1..(n + 1), i > 1, NEW j \in 1..(i - 1)
       PROVE  task'[stack'[i]].chars[j] = task'[stack'[i - 1]].chars[j]
  <2>1. i - 1 \in 1..n
    BY <1>2, <1>20
  <2>2. CASE i = n + 1
    <3>1. i - 1 = n /\ n > 0 /\ n \in 1..n /\ j \in 1..n
      BY <1>2, <1>20, <2>2
    <3>2. stack # <<>>
      BY <3>1 DEF n
    <3>3. key = task[stack[n]].chars
      BY <1>2, <3>2 DEF key, StackKey
    <3>4. task'[stack'[n + 1]].chars[j] = key[j]
      BY <1>5, <1>13, <1>14, <3>1
    <3>5. task'[stack'[n]].chars = task[stack[n]].chars
      BY <1>17, <3>1
    <3>. QED
      BY <2>2, <3>1, <3>3, <3>4, <3>5
  <2>3. CASE i \in 1..n
    <3>1. task[stack[i]].chars[j] = task[stack[i - 1]].chars[j]
      BY <1>20, <2>3 DEF ShapeInv, StackOfPrefixes, n
    <3>. QED
      BY <1>17, <2>1, <2>3, <3>1
  <2>. QED
    BY <1>16, <2>2, <2>3
<1>21. ASSUME NEW u \in 1..t PROVE task'[u].canceled <=> ~OnStack(u)'
  <2>1. CASE u = t
    <3>1. n + 1 \in 1..(n + 1)
      BY <1>2
    <3>2. OnStack(u)'
      BY <1>14, <2>1, <3>1 DEF OnStack
    <3>. QED
      BY <1>13, <2>1, <3>2
  <2>2. CASE u # t
    <3>1. u \in 1..made /\ u \in SearchTask
      BY <1>2, <1>3, <2>2 DEF t
    <3>2. task'[u].canceled = task[u].canceled
      BY <1>13, <2>2, <3>1
    <3>3. OnStack(u)' <=> \E i \in 1..(n + 1) : stack'[i] = u
      BY <1>14 DEF OnStack
    <3>4. OnStack(u) <=> \E i \in 1..n : stack[i] = u
      BY DEF OnStack, n
    <3>5. \A i \in 1..n : i \in 1..(n + 1)
      BY <1>2
    <3>6. OnStack(u)' <=> OnStack(u)
      BY <1>14, <1>16, <2>2, <3>3, <3>4, <3>5
    <3>7. task[u].canceled <=> ~OnStack(u)
      BY <3>1 DEF ShapeInv, StackOfPrefixes
    <3>. QED
      BY <3>2, <3>6, <3>7
  <2>. QED
    BY <2>1, <2>2
<1>22. \A u \in SearchTask : u > t => gor'[u] = [s \in Part |-> NoRun]
  <2>1. \A u \in SearchTask : u > t => u # t /\ u > made
    BY <1>3, <1>7 DEF SearchTask
  <2>. QED
    BY <1>11, <2>1 DEF ShapeInv, StackOfPrefixes
<1>23. StackOfPrefixes'
  <2>1. /\ \A i, j \in 1..Len(stack') : i < j => stack'[i] < stack'[j]
        /\ \A i \in 1..Len(stack') : Len(task'[stack'[i]].chars) = i
    BY <1>14, <1>18, <1>19
  <2>2. \A i \in 1..Len(stack') : i > 1 =>
          \A j \in 1..(i - 1) : task'[stack'[i]].chars[j] = task'[stack'[i - 1]].chars[j]
    BY <1>14, <1>20
  <2>3. \A u \in 1..made' : task'[u].canceled <=> ~OnStack(u)'
    BY <1>1, <1>21
  <2>4. \A u \in SearchTask : u > made' => gor'[u] = [s \in Part |-> NoRun]
    BY <1>1, <1>22
  <2>. QED
    BY <2>1, <2>2, <2>3, <2>4, Zenon DEF StackOfPrefixes
<1>24. OpInOrder'
  <2>1. \A i \in 1..Len(ops') : ops'[i].pc = "apply"
    BY <1>1 DEF ShapeInv, OpInOrder
  <2>2. CASE stack = <<>>
    BY <1>1, <1>9, <2>1, <2>2 DEF OpInOrder
  <2>3. CASE stack # <<>>
    <3>1. op' = p /\ p.pc = "search" /\ p.pop = 0 /\ p.push # <<>> /\ p.prev = stack[n]
      BY <1>1, <1>8, <2>3
    <3>2. n > 0 /\ n \in 1..n /\ (n + 1) - 1 = n /\ n + 1 > 1
      BY <1>2, <2>3
    <3>3. Len(stack') > 1 /\ op'.prev = stack'[Len(stack') - 1]
      BY <1>14, <3>1, <3>2
    <3>. QED
      BY <2>1, <3>1, <3>3 DEF OpInOrder
  <2>. QED
    BY <2>2, <2>3
<1>25. StackKey' = new
  <2>1. stack' # <<>> /\ Top' = t
    BY <1>2, <1>14 DEF Top
  <2>. QED
    BY <1>13, <2>1 DEF StackKey
<1>26. (op'.push = op.push /\ op'.pc = "search") \/ (op'.push = Tail(op.push) /\ op'.pc # "search")
  BY <1>1, <1>8, <1>9
<1>27. After(new, op') = new \o Tail(op.push)
  <2> DEFINE q == op'
  <2>1. q \in OpRec /\ q.pop = 0 /\ (IF q.pc = "search" THEN Tail(q.push) ELSE q.push) = Tail(op.push)
    BY <1>10, <1>26
  <2> HIDE DEF q
  <2>2. After(new, q) = new \o Tail(op.push)
    BY <1>5, <2>1, AfterNoPop
  <2>. QED
    BY <2>2 DEF q
<1>28. After(key, op) = new \o Tail(op.push)
  <2> DEFINE q == [op EXCEPT !.pc = "search"]
  <2>1. q \in OpRec /\ q.pop = 0 /\ q.push = op.push /\ q.pc = "search"
    BY <1>1, <1>3 DEF OpRec
  <2> HIDE DEF q
  <2>2. After(new, q) = After(key, op)
    BY <1>1, <1>2, <1>3, <2>1, AfterPush DEF new, c
  <2>3. After(new, q) = new \o Tail(op.push)
    BY <1>5, <2>1, AfterNoPop
  <2>. QED
    BY <2>2, <2>3
<1>29. OpsReachKey'
  <2>1. After(StackKey', op') = After(StackKey, op) /\ op'.pop <= Len(StackKey')
    BY <1>2, <1>5, <1>10, <1>25, <1>27, <1>28 DEF key
  <2>. QED
    BY <1>1, <2>1, SameKeyAfter DEF ShapeInv
<1>. QED
  BY <1>15, <1>23, <1>24, <1>29 DEF ShapeInv

\* Names for what a step changes.
SameIn(t) ==
  /\ task'[t].chars = task[t].chars /\ task'[t].result = task[t].result
  /\ task'[t].finished = task[t].finished /\ gor'[t] = gor[t]

LEMMA SameFacts ==
  ASSUME NEW t, SameIn(t)
  PROVE  /\ FoundSoFar(t)' <=> FoundSoFar(t)
         /\ NotBegun(t)' <=> NotBegun(t)
         /\ Ahead(t)' <=> Ahead(t)
<1>1. Resting(t)' <=> Resting(t)
  BY DEF Resting, SameIn
<1>2. NotBegun(t)' <=> NotBegun(t)
  BY <1>1 DEF NotBegun, SameIn
<1>3. Ahead(t)' <=> Ahead(t)
  BY <1>2 DEF Ahead, SameIn
<1>4. FoundSoFar(t)' <=> FoundSoFar(t)
  BY <1>2 DEF FoundSoFar, SameIn
<1>. QED
  BY <1>2, <1>3, <1>4

LEMMA FullFacts ==
  ASSUME NEW key \in Seq(STRING)
  PROVE  /\ FullResult(key) \in [Item -> 0..1]
         /\ key # <<>> => \A i \in Item : FullResult(key)[i] = IF Match(key, i) THEN 1 ELSE 0
BY DEF FullResult

\* What a task finds among the items the one below has found is all there is.
LEMMA BelowIsEnough ==
  ASSUME NEW key \in Seq(STRING), NEW longer \in Seq(STRING), Len(longer) = Len(key) + 1,
         \A j \in 1..Len(key) : longer[j] = key[j], key # <<>>,
         NEW i \in Item, i \notin Found(FullResult(key))
  PROVE  FullResult(longer)[i] = 0
<1>1. FullResult(key)[i] = 0
  BY FullFacts DEF Found
<1>2. ~Match(key, i)
  BY <1>1, FullFacts
<1>3. ~Match(longer, i)
  BY <1>2, MatchShorter
<1>4. longer # <<>>
  OBVIOUS
<1>. QED
  BY <1>3, <1>4, FullFacts

\* The stack holds each task once.
LEMMA StackOnce ==
  ASSUME ShapeInv
  PROVE  \A i, j \in 1..Len(stack) : stack[i] = stack[j] => i = j
<1>1. \A i, j \in 1..Len(stack) : i < j => stack[i] < stack[j]
  BY DEF ShapeInv, StackOfPrefixes
<1>2. \A i \in 1..Len(stack) : stack[i] \in Nat
  BY DEF ShapeInv, SearchTypes
<1>3. Len(stack) \in Nat
  BY DEF ShapeInv, SearchTypes
<1>. QED
  BY <1>1, <1>2, <1>3

\* The keys of two neighbours on the stack.
LEMMA Neighbours ==
  ASSUME ShapeInv, NEW i \in 1..Len(stack), i > 1
  PROVE  /\ i - 1 \in 1..Len(stack) /\ stack[i] \in SearchTask /\ stack[i - 1] \in SearchTask
         /\ task[stack[i]].chars \in Seq(STRING) /\ task[stack[i - 1]].chars \in Seq(STRING)
         /\ Len(task[stack[i]].chars) = Len(task[stack[i - 1]].chars) + 1
         /\ task[stack[i - 1]].chars # <<>>
         /\ \A j \in 1..Len(task[stack[i - 1]].chars) :
               task[stack[i]].chars[j] = task[stack[i - 1]].chars[j]
<1>1. Len(stack) \in Nat /\ i - 1 \in 1..Len(stack)
  BY DEF ShapeInv, SearchTypes
<1>2. stack[i] \in SearchTask /\ stack[i - 1] \in SearchTask
  BY <1>1, StackKeyFacts DEF ShapeInv
<1>3. task[stack[i]].chars \in Seq(STRING) /\ task[stack[i - 1]].chars \in Seq(STRING)
  BY <1>2 DEF ShapeInv, SearchTypes, TaskRec
<1>4. Len(task[stack[i]].chars) = i /\ Len(task[stack[i - 1]].chars) = i - 1
  BY <1>1 DEF ShapeInv, StackOfPrefixes
<1>5. \A j \in 1..(i - 1) : task[stack[i]].chars[j] = task[stack[i - 1]].chars[j]
  BY DEF ShapeInv, StackOfPrefixes
<1>6. task[stack[i - 1]].chars # <<>>
  BY <1>1, <1>3, <1>4
<1>. QED
  BY <1>1, <1>2, <1>3, <1>4, <1>5, <1>6

\* A step of one task that leaves the order of the tasks alone.
LEMMA OneTaskSteps ==
  ASSUME ShapeInv, Orderly, UNCHANGED <<stack, op>>, NEW t \in SearchTask,
         \A u \in SearchTask : u # t => SameIn(u),
         DoneAt(t)',
         OnStack(t) => /\ FoundSoFar(t)' /\ (NotBegun(t)' <=> NotBegun(t))
                       /\ Ahead(t)' <=> Ahead(t),
         TopEmitted'
  PROVE  Orderly'
<1>1. Len(stack) \in Nat /\ \A i \in 1..Len(stack) : stack[i] \in SearchTask
  BY StackKeyFacts DEF ShapeInv
<1>2. Top' = Top /\ \A u : OnStack(u)' <=> OnStack(u)
  BY DEF Top, OnStack
<1>3. DoneOnStack'
  <2> SUFFICES ASSUME NEW u \in SearchTask, u # t PROVE DoneAt(u)'
    BY DEF DoneOnStack
  <2>1. gor'[u] = gor[u]
    BY DEF SameIn
  <2>2. DoneAt(u)
    BY DEF Orderly, DoneOnStack
  <2>. QED
    BY <1>2, <2>1, <2>2 DEF DoneAt
<1>4. ASSUME NEW u \in SearchTask, OnStack(u)
      PROVE  FoundSoFar(u)' /\ (NotBegun(u)' <=> NotBegun(u)) /\ (Ahead(u)' <=> Ahead(u))
  <2>1. CASE u = t
    BY <1>4, <2>1
  <2>2. CASE u # t
    <3>1. SameIn(u) /\ FoundSoFar(u)
      BY <1>4, <2>2 DEF Orderly, ResultsGrow, OnStack
    <3>. QED
      BY <3>1, SameFacts
  <2>. QED
    BY <2>1, <2>2
<1>5. \A i \in 1..Len(stack) : stack'[i] = stack[i] /\ stack[i] \in SearchTask /\ OnStack(stack[i])
  BY <1>1 DEF OnStack
<1>6. ResultsGrow'
  BY <1>4, <1>5 DEF ResultsGrow
<1>7. BegunInOrder'
  <2>1. BegunInOrder
    BY DEF Orderly
  <2>2. ASSUME NEW i \in 1..Len(stack'), NotBegun(stack[i])'
        PROVE  i > 1 /\ (Ahead(stack[i - 1])' \/ (i = Len(stack') /\ op'.pc = "search"))
    <3>1. NotBegun(stack[i])
      BY <1>4, <1>5, <2>2
    <3>2. i > 1 /\ (Ahead(stack[i - 1]) \/ (i = Len(stack) /\ op.pc = "search"))
      BY <2>1, <3>1 DEF BegunInOrder
    <3>3. i - 1 \in 1..Len(stack)
      BY <1>1, <3>2
    <3>. QED
      BY <1>4, <1>5, <3>2, <3>3
  <2>3. ASSUME NEW i \in 1..Len(stack'), i > 1, Ahead(stack[i - 1])' PROVE NotBegun(stack[i])'
    <3>1. i - 1 \in 1..Len(stack)
      BY <1>1, <2>3
    <3>2. Ahead(stack[i - 1])
      BY <1>4, <1>5, <2>3, <3>1
    <3>3. NotBegun(stack[i])
      BY <2>1, <2>3, <3>2 DEF BegunInOrder
    <3>. QED
      BY <1>4, <1>5, <3>3
  <2>4. ASSUME op'.pc = "search" PROVE NotBegun(Top)'
    <3>1. NotBegun(Top) /\ Len(stack) > 1
      BY <2>1, <2>4 DEF BegunInOrder, ShapeInv, OpInOrder
    <3>2. Len(stack) \in 1..Len(stack) /\ Top = stack[Len(stack)]
      BY <1>1, <3>1 DEF Top
    <3>3. Top \in SearchTask /\ OnStack(Top)
      BY <1>5, <3>2
    <3>. QED
      BY <1>2, <1>4, <3>1, <3>3
  <2>. QED
    BY <2>2, <2>3, <2>4 DEF BegunInOrder
<1>. QED
  BY <1>3, <1>6, <1>7 DEF Orderly

\* A goroutine that runs belongs to a task that was made; when that is not
\* cancelled it is on the stack and its key is not empty.
LEMMA RunsMade ==
  ASSUME ShapeInv, NEW t \in SearchTask, NEW s \in Part, gor[t][s].pc # "none"
  PROVE  /\ t \in 1..made
         /\ OnStack(t) <=> ~task[t].canceled
         /\ OnStack(t) => task[t].chars \in Seq(STRING) /\ task[t].chars # <<>>
<1>1. t <= made
  <2> SUFFICES ASSUME t > made PROVE FALSE
    BY DEF ShapeInv, SearchTypes, SearchTask
  <2>1. gor[t] = [p \in Part |-> NoRun]
    BY DEF ShapeInv, StackOfPrefixes
  <2>. QED
    BY <2>1 DEF NoRun
<1>2. t \in 1..made
  BY <1>1 DEF SearchTask, ShapeInv, SearchTypes
<1>3. task[t].canceled <=> ~OnStack(t)
  BY <1>2 DEF ShapeInv, StackOfPrefixes
<1>4. task[t].chars \in Seq(STRING)
  BY DEF ShapeInv, SearchTypes, TaskRec
<1>5. OnStack(t) => Len(task[t].chars) > 0
  <2>1. ASSUME NEW i \in 1..Len(stack), stack[i] = t PROVE Len(task[t].chars) = i /\ i > 0
    BY <2>1 DEF ShapeInv, StackOfPrefixes, SearchTypes
  <2>. QED
    BY <2>1 DEF OnStack
<1>6. OnStack(t) => task[t].chars # <<>>
  BY <1>4, <1>5
<1>. QED
  BY <1>2, <1>3, <1>4, <1>6

\* The goroutines of a task: one part changes its record.
LEMMA PartChanges ==
  ASSUME ShapeInv, NEW t \in SearchTask, NEW s \in Part, NEW r \in RunRec,
         gor' = [gor EXCEPT ![t][s] = r]
  PROVE  /\ gor' \in [SearchTask -> [Part -> RunRec]] /\ gor'[t][s] = r
         /\ \A p \in Part : p # s => gor'[t][p] = gor[t][p]
         /\ \A u \in SearchTask : u # t => gor'[u] = gor[u]
<1>1. gor \in [SearchTask -> [Part -> RunRec]]
  BY DEF ShapeInv, SearchTypes
<1>. QED
  BY <1>1

\* The other goroutine of a task on the stack does nothing.
LEMMA OtherRests ==
  ASSUME NEW t, FoundSoFar(t), NEW s \in Part, gor[t][s].pc # "none", NEW p \in Part, p # s
  PROVE  gor[t][p].pc = "none"
BY DEF FoundSoFar, Part

LEMMA MatchItemKeeps ==
  ASSUME SearchInv, NEW t \in SearchTask, NEW s \in Part, NEW i \in Item, MatchItem(t, s, i)
  PROVE  SearchInv'
<1> DEFINE g == gor[t][s]
           r == IF task[t].canceled THEN NoRun ELSE [g EXCEPT !.todo = @ \ {i}]
<1>1. /\ g.pc = "match" /\ i \in g.todo
      /\ task' = IF Match(task[t].chars, i) THEN [task EXCEPT ![t].result[i] = @ + 1] ELSE task
      /\ gor' = [gor EXCEPT ![t][s] = r]
      /\ UNCHANGED <<ops, currentRunes, op, stack, made, searchRaced, lastDone>>
  BY DEF MatchItem, AtPc, Others, StackVars
<1>2. g \in RunRec /\ task \in [SearchTask -> TaskRec] /\ task[t] \in TaskRec /\ ShapeInv
  BY DEF SearchInv, ShapeInv, SearchTypes
<1>3. /\ r \in RunRec /\ r.pc = (IF task[t].canceled THEN "none" ELSE "match")
      /\ ~task[t].canceled => r.todo = g.todo \ {i}
  BY <1>1, <1>2 DEF RunRec, RunPc, NoRun
<1> HIDE DEF r
<1>4. /\ gor' \in [SearchTask -> [Part -> RunRec]] /\ gor'[t][s] = r
      /\ \A p \in Part : p # s => gor'[t][p] = gor[t][p]
      /\ \A u \in SearchTask : u # t => gor'[u] = gor[u]
  BY <1>1, <1>2, <1>3, PartChanges
<1>5. /\ task' \in [SearchTask -> TaskRec]
      /\ \A u \in SearchTask : u # t => task'[u] = task[u]
      /\ task'[t].chars = task[t].chars /\ task'[t].canceled = task[t].canceled
      /\ task'[t].finished = task[t].finished
      /\ task'[t].result[i] = IF Match(task[t].chars, i) THEN task[t].result[i] + 1 ELSE task[t].result[i]
      /\ \A j \in Item : j # i => task'[t].result[j] = task[t].result[j]
  <2>1. CASE ~Match(task[t].chars, i)
    BY <1>1, <1>2, <2>1
  <2>2. CASE Match(task[t].chars, i)
    <3> DEFINE res == [task[t].result EXCEPT ![i] = @ + 1]
    <3>1. task' = [task EXCEPT ![t] = [task[t] EXCEPT !.result = res]]
      BY <1>1, <1>2, <2>2 DEF TaskRec
    <3>2. /\ res \in [Item -> Nat] /\ res[i] = task[t].result[i] + 1
          /\ \A j \in Item : j # i => res[j] = task[t].result[j]
      BY <1>2 DEF TaskRec
    <3> HIDE DEF res
    <3>3. /\ [task[t] EXCEPT !.result = res] \in TaskRec
          /\ [task[t] EXCEPT !.result = res].chars = task[t].chars
          /\ [task[t] EXCEPT !.result = res].canceled = task[t].canceled
          /\ [task[t] EXCEPT !.result = res].finished = task[t].finished
          /\ [task[t] EXCEPT !.result = res].result = res
      BY <1>2, <3>2 DEF TaskRec
    <3>. QED
      BY <1>2, <2>2, <3>1, <3>2, <3>3
  <2>. QED
    BY <2>1, <2>2
<1>6. \A u \in SearchTask : u > made => gor'[u] = gor[u]
  <2>1. t <= made /\ \A u \in SearchTask : u > made => u # t
    BY <1>1, <1>2, RunsMade DEF SearchTask, ShapeInv, SearchTypes
  <2>. QED
    BY <1>4, <2>1
<1>7. ShapeInv'
  <2>1. searchRaced' \in BOOLEAN
    BY <1>1, <1>2 DEF ShapeInv, SearchTypes
  <2>2. \A u \in SearchTask : /\ task'[u].chars = task[u].chars
                              /\ task'[u].canceled = task[u].canceled
                              /\ u > made => gor'[u] = gor[u]
    BY <1>5, <1>6
  <2>. QED
    BY <1>1, <1>2, <1>4, <1>5, <2>1, <2>2, ShapeStays
<1>8. ASSUME ~searchRaced PROVE Orderly'
  <2>1. Orderly
    BY <1>8 DEF SearchInv
  <2>2. \A u \in SearchTask : u # t => SameIn(u)
    BY <1>4, <1>5 DEF SameIn
  <2>3. Top' = Top /\ (OnStack(t)' <=> OnStack(t))
    BY <1>1 DEF Top, OnStack
  <2>4. DoneAt(t)'
    <3>1. DoneAt(t)
      BY <2>1 DEF Orderly, DoneOnStack
    <3>2. ASSUME NEW p \in Part
          PROVE  /\ gor'[t][p].pc \in {"getNext", "finish", "finishEmit", "emit"} => OnStack(t)'
                 /\ gor'[t][p].pc = "finish" => t # Top'
                 /\ gor'[t][p].pc \in {"finishEmit", "emit"} => t = Top'
      <4>1. CASE p = s
        BY <1>3, <1>4, <4>1
      <4>2. CASE p # s
        BY <1>4, <2>3, <3>1, <4>2 DEF DoneAt
      <4>. QED
        BY <4>1, <4>2
    <3>. QED
      BY <3>2 DEF DoneAt
  <2>5. ASSUME OnStack(t)
        PROVE  FoundSoFar(t)' /\ (NotBegun(t)' <=> NotBegun(t)) /\ (Ahead(t)' <=> Ahead(t))
    <3>1. FoundSoFar(t)
      BY <2>1, <2>5 DEF Orderly, ResultsGrow, OnStack
    <3>2. ~task[t].canceled /\ task[t].chars \in Seq(STRING) /\ task[t].chars # <<>>
      BY <1>1, <1>2, <2>5, RunsMade
    <3>3. r.pc = "match" /\ r.todo = g.todo \ {i}
      BY <1>3, <3>2
    <3>4. /\ ~task[t].finished
          /\ \A j \in Item : task[t].result[j] =
               IF j \in g.todo THEN 0 ELSE FullResult(task[t].chars)[j]
      BY <1>1, <3>1 DEF FoundSoFar
    <3>5. \A p \in Part : p # s => gor'[t][p].pc = "none"
      <4>1. \A p \in Part : p # s => gor[t][p].pc = "none"
        BY <1>1, <3>1, OtherRests
      <4>. QED
        BY <1>4, <4>1
    <3>6. ASSUME NEW j \in Item
          PROVE  task'[t].result[j] = IF j \in r.todo THEN 0 ELSE FullResult(task'[t].chars)[j]
      <4>1. CASE j = i
        <5>1. task[t].result[j] = 0 /\ j \notin r.todo
          BY <1>1, <3>3, <3>4, <4>1
        <5>2. FullResult(task[t].chars)[j] = IF Match(task[t].chars, j) THEN 1 ELSE 0
          BY <3>2, FullFacts
        <5>. QED
          BY <1>5, <4>1, <5>1, <5>2
      <4>2. CASE j # i
        BY <1>5, <3>3, <3>4, <4>2
      <4>. QED
        BY <4>1, <4>2
    <3>7. ~Resting(t) /\ ~Resting(t)'
      BY <1>1, <1>4, <3>3 DEF Resting
    <3>8. ~NotBegun(t) /\ ~NotBegun(t)'
      BY <3>7 DEF NotBegun
    <3>9. Ahead(t) /\ Ahead(t)'
      BY <1>1, <1>4, <3>3 DEF Ahead
    <3>10. FoundSoFar(t)'
      <4>1. gor'[t]["push"].pc = "none" \/ gor'[t]["next"].pc = "none"
        BY <3>5 DEF Part
      <4>2. ~task'[t].finished
        BY <1>5, <3>4
      <4>3. ASSUME NEW p \in Part
            PROVE  /\ gor'[t][p].pc = "match" =>
                        \A j \in Item : task'[t].result[j] =
                           IF j \in gor'[t][p].todo THEN 0 ELSE FullResult(task'[t].chars)[j]
                   /\ gor'[t][p].pc \in {"none", "match"}
        BY <1>4, <3>3, <3>5, <3>6
      <4>. QED
        BY <3>8, <4>1, <4>2, <4>3 DEF FoundSoFar
    <3>. QED
      BY <3>8, <3>9, <3>10
  <2>6. TopEmitted'
    <3>1. TopEmitted
      BY <2>1 DEF Orderly
    <3>2. stack # <<>> => Top \in SearchTask
      BY <1>2, StackKeyFacts DEF ShapeInv
    <3>3. stack # <<>> => /\ task'[Top].finished = task[Top].finished
                          /\ task'[Top].chars = task[Top].chars
      BY <1>5, <3>2
    <3>4. stack # <<>> => \A p \in Part : gor'[Top][p].pc = "emit" <=> gor[Top][p].pc = "emit"
      <4> SUFFICES ASSUME stack # <<>>, NEW p \in Part
                   PROVE  gor'[Top][p].pc = "emit" <=> gor[Top][p].pc = "emit"
        OBVIOUS
      <4>1. CASE Top # t
        BY <1>4, <3>2, <4>1
      <4>2. CASE Top = t /\ p # s
        BY <1>4, <4>2
      <4>3. CASE Top = t /\ p = s
        BY <1>1, <1>3, <1>4, <4>3
      <4>. QED
        BY <4>1, <4>2, <4>3
    <3>. QED
      BY <1>1, <2>3, <3>1, <3>3, <3>4 DEF TopEmitted
  <2>. QED
    BY <1>1, <1>2, <2>1, <2>2, <2>4, <2>5, <2>6, OneTaskSteps
<1>. QED
  BY <1>1, <1>7, <1>8 DEF SearchInv

LEMMA PcChanges ==
  ASSUME ShapeInv, NEW t \in SearchTask, NEW s \in Part, NEW pc \in RunPc, ToPc(t, s, pc)
  PROVE  /\ gor' \in [SearchTask -> [Part -> RunRec]] /\ gor'[t][s].pc = pc
         /\ \A p \in Part : p # s => gor'[t][p] = gor[t][p]
         /\ \A u \in SearchTask : u # t => gor'[u] = gor[u]
<1> DEFINE r == [gor[t][s] EXCEPT !.pc = pc]
<1>1. gor \in [SearchTask -> [Part -> RunRec]]
  BY DEF ShapeInv, SearchTypes
<1>2. r \in RunRec /\ r.pc = pc
  BY <1>1 DEF RunRec
<1>3. gor' = [gor EXCEPT ![t][s] = r]
  BY <1>1 DEF ToPc
<1> HIDE DEF r
<1>. QED
  BY <1>2, <1>3, PartChanges

\* The other goroutines of a step of t, s are as far as before.
LEMMA OtherDone ==
  ASSUME UNCHANGED stack, NEW t, NEW s \in Part, DoneAt(t),
         \A p \in Part : p # s => gor'[t][p] = gor[t][p],
         gor'[t][s].pc \in {"getNext", "finish", "finishEmit", "emit"} => OnStack(t),
         gor'[t][s].pc = "finish" => t # Top,
         gor'[t][s].pc \in {"finishEmit", "emit"} => t = Top
  PROVE  DoneAt(t)'
<1>1. Top' = Top /\ (OnStack(t)' <=> OnStack(t))
  BY DEF Top, OnStack
<1>2. ASSUME NEW p \in Part
      PROVE  /\ gor'[t][p].pc \in {"getNext", "finish", "finishEmit", "emit"} => OnStack(t)'
             /\ gor'[t][p].pc = "finish" => t # Top'
             /\ gor'[t][p].pc \in {"finishEmit", "emit"} => t = Top'
  <2>1. CASE p = s
    BY <1>1, <2>1
  <2>2. CASE p # s
    BY <1>1, <2>2 DEF DoneAt
  <2>. QED
    BY <2>1, <2>2
<1>. QED
  BY <1>2 DEF DoneAt

\* A step of a goroutine leaves the shape alone.
LEMMA GoShape ==
  ASSUME ShapeInv, NEW t \in SearchTask, NEW s \in Part, gor[t][s].pc # "none",
         UNCHANGED <<ops, currentRunes, op, stack, made>>,
         task' \in [SearchTask -> TaskRec], gor' \in [SearchTask -> [Part -> RunRec]],
         searchRaced' \in BOOLEAN,
         \A u \in SearchTask : u # t => gor'[u] = gor[u],
         \A u \in SearchTask : /\ task'[u].chars = task[u].chars
                               /\ task'[u].canceled = task[u].canceled
  PROVE  ShapeInv'
<1>1. \A u \in SearchTask : u > made => gor'[u] = gor[u]
  <2>1. t <= made /\ \A u \in SearchTask : u > made => u # t
    BY RunsMade DEF SearchTask, ShapeInv, SearchTypes
  <2>. QED
    BY <2>1
<1>. QED
  BY <1>1, ShapeStays

LEMMA MatchedKeeps ==
  ASSUME SearchInv, NEW t \in SearchTask, NEW s \in Part, Matched(t, s)
  PROVE  SearchInv'
<1> DEFINE pc == IF task[t].canceled THEN "none" ELSE "getNext"
<1>1. /\ gor[t][s].pc = "match" /\ gor[t][s].todo = {} /\ ToPc(t, s, pc)
      /\ UNCHANGED <<ops, currentRunes, op, stack, made, searchRaced, lastDone, task>>
  BY DEF Matched, AtPc, Others, StackVars
<1>2. ShapeInv /\ pc \in RunPc /\ task \in [SearchTask -> TaskRec] /\ searchRaced \in BOOLEAN
  BY DEF SearchInv, ShapeInv, SearchTypes, RunPc
<1>3. /\ gor' \in [SearchTask -> [Part -> RunRec]] /\ gor'[t][s].pc = pc
      /\ \A p \in Part : p # s => gor'[t][p] = gor[t][p]
      /\ \A u \in SearchTask : u # t => gor'[u] = gor[u]
  <2> HIDE DEF pc
  <2>1. PICK c \in RunPc : c = pc
    BY <1>2
  <2>2. ToPc(t, s, c)
    BY <1>1, <2>1 DEF ToPc
  <2>. QED
    BY <1>2, <2>1, <2>2, PcChanges
<1>4. ShapeInv'
  BY <1>1, <1>2, <1>3, GoShape
<1>5. ASSUME ~searchRaced PROVE Orderly'
  <2>1. Orderly
    BY <1>5 DEF SearchInv
  <2>2. \A u \in SearchTask : u # t => SameIn(u)
    BY <1>1, <1>3 DEF SameIn
  <2>3. OnStack(t) <=> ~task[t].canceled
    BY <1>1, <1>2, RunsMade
  <2>4. DoneAt(t)'
    <3>1. DoneAt(t)
      BY <2>1 DEF Orderly, DoneOnStack
    <3>. QED
      BY <1>1, <1>3, <2>3, <3>1, OtherDone
  <2>5. ASSUME OnStack(t)
        PROVE  FoundSoFar(t)' /\ (NotBegun(t)' <=> NotBegun(t)) /\ (Ahead(t)' <=> Ahead(t))
    <3>1. FoundSoFar(t)
      BY <2>1, <2>5 DEF Orderly, ResultsGrow, OnStack
    <3>2. gor'[t][s].pc = "getNext" /\ task[t].chars \in Seq(STRING)
      BY <1>1, <1>2, <1>3, <2>3, <2>5, RunsMade
    <3>3. /\ ~task[t].finished
          /\ \A j \in Item : task[t].result[j] = FullResult(task[t].chars)[j]
      BY <1>1, <3>1 DEF FoundSoFar
    <3>4. task[t].result = FullResult(task[t].chars)
      <4>1. task[t].result \in [Item -> Nat]
        BY <1>2 DEF TaskRec
      <4>2. FullResult(task[t].chars) \in [Item -> 0..1]
        BY <3>2, FullFacts
      <4>. QED
        BY <3>3, <4>1, <4>2
    <3>5. \A p \in Part : p # s => gor'[t][p].pc = "none"
      <4>1. \A p \in Part : p # s => gor[t][p].pc = "none"
        BY <1>1, <3>1, OtherRests
      <4>. QED
        BY <1>3, <4>1
    <3>6. ~NotBegun(t) /\ ~NotBegun(t)'
      BY <1>1, <3>2 DEF NotBegun, Resting
    <3>7. Ahead(t) /\ Ahead(t)'
      BY <1>1, <3>2 DEF Ahead
    <3>8. FoundSoFar(t)'
      <4>1. gor'[t]["push"].pc = "none" \/ gor'[t]["next"].pc = "none"
        BY <3>5 DEF Part
      <4>2. \A p \in Part : gor'[t][p].pc \in {"none", "getNext"}
        BY <3>2, <3>5
      <4>. QED
        BY <1>1, <3>3, <3>4, <3>6, <4>1, <4>2 DEF FoundSoFar
    <3>. QED
      BY <3>6, <3>7, <3>8
  <2>6. TopEmitted'
    <3>1. TopEmitted /\ Top' = Top
      BY <1>1, <2>1 DEF Orderly, Top
    <3>2. stack # <<>> => Top \in SearchTask
      BY <1>2, StackKeyFacts DEF ShapeInv
    <3>3. stack # <<>> => \A p \in Part : gor'[Top][p].pc = "emit" <=> gor[Top][p].pc = "emit"
      <4> SUFFICES ASSUME stack # <<>>, NEW p \in Part
                   PROVE  gor'[Top][p].pc = "emit" <=> gor[Top][p].pc = "emit"
        OBVIOUS
      <4>1. CASE Top # t
        BY <1>3, <3>2, <4>1
      <4>2. CASE Top = t /\ p # s
        BY <1>3, <4>2
      <4>3. CASE Top = t /\ p = s
        BY <1>1, <1>3, <4>3
      <4>. QED
        BY <4>1, <4>2, <4>3
    <3>. QED
      BY <1>1, <3>1, <3>3 DEF TopEmitted
  <2>. QED
    BY <1>1, <1>2, <2>1, <2>2, <2>4, <2>5, <2>6, OneTaskSteps
<1>. QED
  BY <1>1, <1>4, <1>5 DEF SearchInv

LEMMA FinishTaskKeeps ==
  ASSUME SearchInv, NEW t \in SearchTask, NEW s \in Part, FinishTask(t, s)
  PROVE  SearchInv'
<1> DEFINE pc == IF gor[t][s].pc = "finish" THEN "none" ELSE "emit"
<1>1. /\ gor[t][s].pc \in {"finish", "finishEmit"} /\ ToPc(t, s, pc)
      /\ task' = [task EXCEPT ![t].finished = TRUE]
      /\ UNCHANGED <<ops, currentRunes, op, stack, made, searchRaced, lastDone>>
  BY DEF FinishTask, AtPc, Others, StackVars
<1>2. ShapeInv /\ pc \in RunPc /\ task \in [SearchTask -> TaskRec] /\ searchRaced \in BOOLEAN
  BY DEF SearchInv, ShapeInv, SearchTypes, RunPc
<1>3. /\ gor' \in [SearchTask -> [Part -> RunRec]] /\ gor'[t][s].pc = pc
      /\ \A p \in Part : p # s => gor'[t][p] = gor[t][p]
      /\ \A u \in SearchTask : u # t => gor'[u] = gor[u]
  <2> HIDE DEF pc
  <2>1. PICK c \in RunPc : c = pc
    BY <1>2
  <2>2. ToPc(t, s, c)
    BY <1>1, <2>1 DEF ToPc
  <2>. QED
    BY <1>2, <2>1, <2>2, PcChanges
<1>4. /\ task' \in [SearchTask -> TaskRec]
      /\ \A u \in SearchTask : u # t => task'[u] = task[u]
      /\ task'[t].chars = task[t].chars /\ task'[t].canceled = task[t].canceled
      /\ task'[t].result = task[t].result /\ task'[t].finished = TRUE
  BY <1>1, <1>2 DEF TaskRec
<1>5. ShapeInv'
  <2>1. \A u \in SearchTask : /\ task'[u].chars = task[u].chars
                              /\ task'[u].canceled = task[u].canceled
    BY <1>4
  <2>2. gor[t][s].pc # "none"
    BY <1>1
  <2>. QED
    BY <1>1, <1>2, <1>3, <1>4, <2>1, <2>2, GoShape
<1>6. ASSUME ~searchRaced PROVE Orderly'
  <2>1. Orderly
    BY <1>6 DEF SearchInv
  <2>2. \A u \in SearchTask : u # t => SameIn(u)
    BY <1>3, <1>4 DEF SameIn
  <2>3. DoneAt(t)
    BY <2>1 DEF Orderly, DoneOnStack
  <2>4. /\ OnStack(t)
        /\ gor[t][s].pc = "finish" => t # Top
        /\ gor[t][s].pc = "finishEmit" => t = Top
    BY <1>1, <2>3 DEF DoneAt
  <2>5. DoneAt(t)'
    BY <1>1, <1>3, <2>3, <2>4, OtherDone
  <2>6. FoundSoFar(t)
    BY <2>1, <2>4 DEF Orderly, ResultsGrow, OnStack
  <2>7. ~task[t].finished /\ task[t].result = FullResult(task[t].chars)
    BY <1>1, <2>6 DEF FoundSoFar
  <2>8. \A p \in Part : p # s => gor[t][p].pc = "none" /\ gor'[t][p].pc = "none"
    <3>1. \A p \in Part : p # s => gor[t][p].pc = "none"
      BY <1>1, <2>6, OtherRests
    <3>. QED
      BY <1>3, <3>1
  <2>9. ~NotBegun(t) /\ ~NotBegun(t)'
    BY <1>1, <1>4 DEF NotBegun, Resting
  <2>10. \A p \in Part : /\ gor[t][p].pc \in {"none", "finish", "finishEmit"}
                         /\ gor'[t][p].pc \in {"none", "emit"}
    BY <1>1, <1>3, <2>8
  <2>11. ~Ahead(t) /\ ~Ahead(t)'
    BY <2>9, <2>10 DEF Ahead
  <2>12. FoundSoFar(t)'
    <3>1. gor'[t]["push"].pc = "none" \/ gor'[t]["next"].pc = "none"
      BY <2>8 DEF Part
    <3>. QED
      BY <1>4, <2>7, <2>9, <2>10, <3>1 DEF FoundSoFar
  <2>13. TopEmitted'
    <3>1. TopEmitted /\ Top' = Top
      BY <1>1, <2>1 DEF Orderly, Top
    <3>2. stack # <<>>
      BY <2>4 DEF OnStack
    <3>3. Top \in SearchTask
      BY <1>2, <3>2, StackKeyFacts DEF ShapeInv
    <3>4. CASE Top = t
      <4>1. gor'[t][s].pc = "emit"
        BY <1>1, <1>3, <2>4, <3>4
      <4>. QED
        BY <1>1, <3>1, <3>2, <3>4, <4>1 DEF TopEmitted
    <3>5. CASE Top # t
      <4>1. gor'[Top] = gor[Top] /\ task'[Top] = task[Top]
        BY <1>3, <1>4, <3>3, <3>5
      <4>. QED
        BY <1>1, <3>1, <4>1 DEF TopEmitted
    <3>. QED
      BY <3>4, <3>5
  <2>. QED
    BY <1>1, <1>2, <2>1, <2>2, <2>5, <2>9, <2>11, <2>12, <2>13, OneTaskSteps
<1>. QED
  BY <1>1, <1>5, <1>6 DEF SearchInv

LEMMA EmitResultKeeps ==
  ASSUME SearchInv, NEW t \in SearchTask, NEW s \in Part, EmitResult(t, s)
  PROVE  SearchInv'
<1>1. /\ gor[t][s].pc = "emit" /\ ToPc(t, s, "none") /\ lastDone' = task[t].result
      /\ UNCHANGED <<ops, currentRunes, op, stack, made, searchRaced, task>>
  BY DEF EmitResult, AtPc, Others, StackVars
<1>2. ShapeInv /\ "none" \in RunPc /\ task \in [SearchTask -> TaskRec] /\ searchRaced \in BOOLEAN
  BY DEF SearchInv, ShapeInv, SearchTypes, RunPc
<1>3. /\ gor' \in [SearchTask -> [Part -> RunRec]] /\ gor'[t][s].pc = "none"
      /\ \A p \in Part : p # s => gor'[t][p] = gor[t][p]
      /\ \A u \in SearchTask : u # t => gor'[u] = gor[u]
  BY <1>1, <1>2, PcChanges
<1>4. ShapeInv'
  BY <1>1, <1>2, <1>3, GoShape
<1>5. ASSUME ~searchRaced PROVE Orderly'
  <2>1. Orderly
    BY <1>5 DEF SearchInv
  <2>2. \A u \in SearchTask : u # t => SameIn(u)
    BY <1>1, <1>3 DEF SameIn
  <2>3. DoneAt(t)
    BY <2>1 DEF Orderly, DoneOnStack
  <2>4. OnStack(t) /\ t = Top
    BY <1>1, <2>3 DEF DoneAt
  <2>5. DoneAt(t)'
    BY <1>1, <1>3, <2>3, <2>4, OtherDone
  <2>6. FoundSoFar(t)
    BY <2>1, <2>4 DEF Orderly, ResultsGrow, OnStack
  <2>7. task[t].finished /\ task[t].result = FullResult(task[t].chars)
    BY <1>1, <2>6 DEF FoundSoFar
  <2>8. \A p \in Part : p # s => gor[t][p].pc = "none"
    BY <1>1, <2>6, OtherRests
  <2>9. ~NotBegun(t) /\ ~NotBegun(t)'
    BY <1>1, <2>7 DEF NotBegun, Resting
  <2>10. \A p \in Part : gor[t][p].pc \in {"none", "emit"} /\ gor'[t][p].pc = "none"
    BY <1>1, <1>3, <2>8
  <2>11. ~Ahead(t) /\ ~Ahead(t)'
    BY <2>9, <2>10 DEF Ahead
  <2>12. FoundSoFar(t)'
    <3>1. gor'[t]["push"].pc = "none"
      BY <2>10 DEF Part
    <3>. QED
      BY <1>1, <2>7, <2>9, <2>10, <3>1 DEF FoundSoFar
  <2>13. TopEmitted'
    <3>1. stack # <<>>
      BY <2>4 DEF OnStack
    <3>2. Top' = t
      BY <1>1, <2>4 DEF Top
    <3>. QED
      BY <1>1, <2>7, <3>1, <3>2 DEF TopEmitted
  <2>. QED
    BY <1>1, <1>2, <2>1, <2>2, <2>5, <2>9, <2>11, <2>12, <2>13, OneTaskSteps
<1>. QED
  BY <1>1, <1>4, <1>5 DEF SearchInv

\* A task that begins with what the one below has found.
LEMMA BeginsRight ==
  ASSUME ShapeInv, UNCHANGED task, NEW i \in 1..Len(stack), i > 1,
         NEW u, u = stack[i], NEW v, v = stack[i - 1], NEW s \in Part,
         FoundSoFar(u), NotBegun(u), task[v].result = FullResult(task[v].chars),
         gor'[u][s] = RunTask(Found(task[v].result)),
         \A p \in Part : p # s => gor'[u][p] = gor[u][p]
  PROVE  FoundSoFar(u)' /\ ~NotBegun(u)' /\ Ahead(u)'
<1>1. gor'[u][s].pc = "match" /\ gor'[u][s].todo = Found(FullResult(task[v].chars))
  BY DEF RunTask
<1>2. /\ \A p \in Part : p # s => gor'[u][p].pc = "none"
      /\ ~task[u].finished /\ task[u].result = NoResult
  BY DEF NotBegun, Resting, FoundSoFar
<1>3. /\ task[u].chars \in Seq(STRING) /\ task[v].chars \in Seq(STRING)
      /\ Len(task[u].chars) = Len(task[v].chars) + 1 /\ task[v].chars # <<>>
      /\ \A j \in 1..Len(task[v].chars) : task[u].chars[j] = task[v].chars[j]
  BY Neighbours
<1>4. ~NotBegun(u)' /\ Ahead(u)'
  BY <1>1 DEF NotBegun, Resting, Ahead
<1>5. \A j \in Item : j \notin Found(FullResult(task[v].chars)) => FullResult(task[u].chars)[j] = 0
  BY <1>3, BelowIsEnough
<1>6. \A j \in Item : task'[u].result[j] =
         IF j \in gor'[u][s].todo THEN 0 ELSE FullResult(task'[u].chars)[j]
  BY <1>1, <1>2, <1>5 DEF NoResult
<1>7. gor'[u]["push"].pc = "none" \/ gor'[u]["next"].pc = "none"
  BY <1>2 DEF Part
<1>8. ASSUME NEW p \in Part
      PROVE  /\ gor'[u][p].pc \in {"none", "match"}
             /\ gor'[u][p].pc = "match" => p = s
  BY <1>1, <1>2
<1>9. ~task'[u].finished
  BY <1>2
<1>10. FoundSoFar(u)'
  BY <1>4, <1>6, <1>7, <1>8, <1>9 DEF FoundSoFar
<1>. QED
  BY <1>4, <1>10

LEMMA GetNextKeeps ==
  ASSUME SearchInv, NEW t \in SearchTask, NEW s \in Part, GetNext(t, s)
  PROVE  SearchInv'
<1> DEFINE A == Above(t)
           n == Len(stack)
           pc == IF A = {} THEN "finishEmit" ELSE "finish"
<1>1. /\ gor[t][s].pc = "getNext"
      /\ gor' = [u \in SearchTask |->
           CASE u = t -> [gor[u] EXCEPT ![s].pc = pc]
             [] u \in A -> [gor[u] EXCEPT !["next"] = RunTask(Found(task[t].result))]
             [] OTHER -> gor[u]]
      /\ searchRaced' = (searchRaced \/ op.pc = "search")
      /\ UNCHANGED <<ops, currentRunes, op, stack, made, task, lastDone>>
  BY DEF GetNext, AtPc, StackVars
<1>2. /\ ShapeInv /\ task \in [SearchTask -> TaskRec] /\ searchRaced \in BOOLEAN
      /\ gor \in [SearchTask -> [Part -> RunRec]] /\ stack \in Seq(1..made)
  BY DEF SearchInv, ShapeInv, SearchTypes
<1>3. /\ n \in Nat /\ DOMAIN stack = 1..n
      /\ \A i \in 1..n : stack[i] \in 1..made /\ stack[i] \in SearchTask
      /\ \A i, j \in 1..n : stack[i] = stack[j] => i = j
  BY <1>2, StackKeyFacts, StackOnce DEF ShapeInv
<1>4. \A u : u \in A <=> \E i \in 1..n : stack[i] = t /\ i < n /\ u = stack[i + 1]
  BY <1>3 DEF Above, IndexOf
<1> HIDE DEF A, n
<1>5. t \notin A /\ \A u \in A : u \in 1..made /\ u \in SearchTask
  <2> SUFFICES ASSUME NEW i \in 1..n, stack[i] = t, i < n
               PROVE  t # stack[i + 1] /\ stack[i + 1] \in 1..made /\ stack[i + 1] \in SearchTask
    BY <1>4
  <2>1. i + 1 \in 1..n /\ i + 1 # i
    BY <1>3
  <2>. QED
    BY <1>3, <2>1
<1>6. RunTask(Found(task[t].result)) \in RunRec /\ "next" \in Part /\ pc \in RunPc
  BY DEF RunTask, Found, RunRec, RunPc, Part
<1>7. /\ gor'[t] = [gor[t] EXCEPT ![s].pc = pc]
      /\ \A u \in A : gor'[u] = [gor[u] EXCEPT !["next"] = RunTask(Found(task[t].result))]
      /\ \A u \in SearchTask : u # t /\ u \notin A => gor'[u] = gor[u]
      /\ DOMAIN gor' = SearchTask
  BY <1>1, <1>5
<1> HIDE DEF pc
<1>8. gor'[t] \in [Part -> RunRec] /\ gor'[t][s].pc = pc /\ \A p \in Part : p # s => gor'[t][p] = gor[t][p]
  <2>1. gor[t] \in [Part -> RunRec]
    BY <1>2
  <2>. QED
    BY <1>6, <1>7, <2>1 DEF RunRec
<1>9. \A u \in A : /\ gor'[u] \in [Part -> RunRec]
                   /\ gor'[u]["next"] = RunTask(Found(task[t].result))
                   /\ gor'[u]["push"] = gor[u]["push"]
  <2> SUFFICES ASSUME NEW u \in A
               PROVE  /\ gor'[u] \in [Part -> RunRec]
                      /\ gor'[u]["next"] = RunTask(Found(task[t].result))
                      /\ gor'[u]["push"] = gor[u]["push"]
    OBVIOUS
  <2>1. gor[u] \in [Part -> RunRec] /\ "push" \in Part
    BY <1>2, <1>5 DEF Part
  <2>. QED
    BY <1>6, <1>7, <2>1, ZenonT(30)
<1>10. gor' \in [SearchTask -> [Part -> RunRec]]
  <2>1. \A u \in SearchTask : gor'[u] \in [Part -> RunRec]
    BY <1>2, <1>7, <1>8, <1>9
  <2>2. gor' = [u \in SearchTask |-> gor'[u]]
    BY <1>1
  <2>. QED
    BY <2>1, <2>2
<1>11. ShapeInv'
  <2>1. t \in 1..made
    BY <1>1, <1>2, RunsMade
  <2>2. \A u \in SearchTask : u > made => u # t /\ u \notin A
    BY <1>2, <1>5, <2>1 DEF SearchTask, ShapeInv, SearchTypes
  <2>3. \A u \in SearchTask : u > made => gor'[u] = gor[u]
    BY <1>7, <2>2
  <2>4. searchRaced' \in BOOLEAN
    BY <1>1, <1>2
  <2>5. \A u \in SearchTask : /\ task'[u].chars = task[u].chars
                              /\ task'[u].canceled = task[u].canceled
                              /\ u > made => gor'[u] = gor[u]
    BY <1>1, <2>3
  <2>. QED
    BY <1>1, <1>2, <1>10, <2>4, <2>5, ShapeStays
<1>12. ASSUME ~searchRaced' PROVE Orderly'
  <2>1. Orderly /\ op.pc # "search"
    BY <1>1, <1>12 DEF SearchInv
  <2>2. PICK k \in 1..n : stack[k] = t
    <3>1. DoneAt(t)
      BY <2>1 DEF Orderly, DoneOnStack
    <3>. QED
      BY <1>1, <3>1 DEF DoneAt, OnStack, n
  <2>3. /\ k < n => A = {stack[k + 1]} /\ k + 1 \in 1..n /\ k + 1 > 1 /\ (k + 1) - 1 = k
        /\ k = n => A = {}
    <3>1. \A u : u \in A <=> (k < n /\ u = stack[k + 1])
      BY <1>3, <1>4, <2>2
    <3>. QED
      BY <1>3, <3>1
  <2>4. stack # <<>> /\ Top = stack[n] /\ n \in 1..n
    <3>1. stack # <<>>
      BY <2>2 DEF n
    <3>. QED
      BY <1>2, <3>1, StackKeyFacts DEF ShapeInv, n
  <2>5. t = Top <=> k = n
    BY <1>3, <2>2, <2>4
  <2>6. pc = IF t = Top THEN "finishEmit" ELSE "finish"
    <3>1. k = n \/ k < n
      BY <1>3
    <3>2. k < n => A # {}
      BY <2>3
    <3>3. k < n => k # n
      BY <1>3
    <3>. QED
      BY <2>3, <2>5, <3>1, <3>2, <3>3 DEF pc
  <2>7. FoundSoFar(t)
    BY <2>1, <2>2 DEF Orderly, ResultsGrow, n
  <2>8. /\ ~task[t].finished /\ task[t].result = FullResult(task[t].chars)
        /\ \A p \in Part : p # s => gor[t][p].pc = "none" /\ gor'[t][p].pc = "none"
    <3>1. \A p \in Part : p # s => gor[t][p].pc = "none"
      BY <1>1, <2>7, OtherRests
    <3>. QED
      BY <1>1, <1>8, <2>7, <3>1 DEF FoundSoFar
  <2>9. FoundSoFar(t)' /\ ~NotBegun(t)' /\ ~Ahead(t)'
    <3>1. ~NotBegun(t)'
      BY <1>8, <2>6 DEF NotBegun, Resting
    <3>2. \A p \in Part : gor'[t][p].pc \in {"none", "finish", "finishEmit"}
      BY <1>8, <2>6, <2>8
    <3>3. ~Ahead(t)'
      BY <3>1, <3>2 DEF Ahead
    <3>4. gor'[t]["push"].pc = "none" \/ gor'[t]["next"].pc = "none"
      BY <2>8 DEF Part
    <3>5. FoundSoFar(t)'
      BY <1>1, <2>8, <3>1, <3>2, <3>4 DEF FoundSoFar
    <3>. QED
      BY <3>1, <3>3, <3>5
  <2>10. Ahead(t)
    BY <1>1 DEF Ahead
  <2>11. ASSUME NEW u \in A
         PROVE  /\ u = stack[k + 1] /\ k < n /\ NotBegun(u) /\ Ahead(u)
                /\ FoundSoFar(u)' /\ ~NotBegun(u)' /\ Ahead(u)'
    <3>1. k < n /\ u = stack[k + 1]
      BY <1>3, <2>3
    <3>2. k + 1 \in 1..Len(stack) /\ k + 1 > 1 /\ (k + 1) - 1 = k
      BY <2>3, <3>1 DEF n
    <3>3. NotBegun(u)
      BY <2>1, <2>2, <2>10, <3>1, <3>2 DEF Orderly, BegunInOrder
    <3>4. FoundSoFar(u)
      BY <2>1, <3>1, <3>2 DEF Orderly, ResultsGrow
    <3>5. \A p \in Part : p # "next" => gor'[u][p] = gor[u][p]
      BY <1>9 DEF Part
    <3>6. t = stack[(k + 1) - 1] /\ gor'[u]["next"] = RunTask(Found(task[t].result))
      BY <1>9, <2>2, <3>2
    <3>7. FoundSoFar(u)' /\ ~NotBegun(u)' /\ Ahead(u)'
      <4>1. PICK i \in 1..Len(stack) : i = k + 1
        BY <3>2
      <4>2. i > 1 /\ u = stack[i] /\ t = stack[i - 1]
        BY <3>1, <3>2, <3>6, <4>1
      <4>3. UNCHANGED task /\ task[t].result = FullResult(task[t].chars)
        BY <1>1, <2>8
      <4>. QED
        BY <1>2, <1>6, <3>3, <3>4, <3>5, <3>6, <4>2, <4>3, BeginsRight
    <3>. QED
      BY <3>1, <3>3, <3>7 DEF Ahead
  <2>12. ASSUME NEW u \in SearchTask, u # t, u \notin A
         PROVE  SameIn(u)
    BY <1>1, <1>7, <2>12 DEF SameIn
  <2>13. ASSUME NEW i \in 1..n, i # k, k < n => i # k + 1
         PROVE  /\ FoundSoFar(stack[i])'
                /\ NotBegun(stack[i])' <=> NotBegun(stack[i])
                /\ Ahead(stack[i])' <=> Ahead(stack[i])
    <3>1. PICK u \in SearchTask : u = stack[i]
      BY <1>3
    <3>2. u # t /\ u \notin A
      BY <1>3, <2>2, <2>3, <2>11, <2>13, <3>1
    <3>3. SameIn(u) /\ FoundSoFar(u)
      BY <2>1, <2>12, <3>1, <3>2 DEF Orderly, ResultsGrow, n
    <3>4. FoundSoFar(u)' /\ (NotBegun(u)' <=> NotBegun(u)) /\ (Ahead(u)' <=> Ahead(u))
      BY <3>3, SameFacts
    <3>. QED
      BY <1>1, <3>1, <3>4
  <2>14. n' = n /\ \A i \in 1..n : stack'[i] = stack[i]
    BY <1>1 DEF n
  <2>15. k < n => stack[k + 1] \in A
    BY <2>3
  <2>16. ASSUME NEW i \in 1..n PROVE FoundSoFar(stack[i])'
    <3>1. CASE i = k
      BY <2>2, <2>9, <2>14, <3>1
    <3>2. CASE k < n /\ i = k + 1
      BY <2>11, <2>14, <2>15, <3>2
    <3>3. CASE i # k /\ (k < n => i # k + 1)
      BY <2>13, <3>3
    <3>. QED
      BY <3>1, <3>2, <3>3
  <2>17. ResultsGrow'
    BY <2>14, <2>16 DEF ResultsGrow, n
  <2>18. ASSUME NEW i \in 1..n, NotBegun(stack[i])' PROVE i > 1 /\ Ahead(stack[i - 1])'
    <3>1. i # k
      BY <2>2, <2>9, <2>14, <2>18
    <3>2. k < n => i # k + 1
      BY <2>11, <2>14, <2>15, <2>18
    <3>3. NotBegun(stack[i])
      BY <2>13, <2>18, <3>1, <3>2
    <3>4. i > 1 /\ Ahead(stack[i - 1]) /\ i - 1 \in 1..n
      <4>1. i > 1 /\ Ahead(stack[i - 1])
        BY <2>1, <3>3 DEF Orderly, BegunInOrder, n
      <4>. QED
        BY <1>3, <4>1
    <3>5. i - 1 # k
      BY <1>3, <3>1, <3>2
    <3>6. CASE k < n /\ i - 1 = k + 1
      BY <2>11, <2>14, <2>15, <3>4, <3>6
    <3>7. CASE k < n => i - 1 # k + 1
      BY <2>13, <3>4, <3>5, <3>7
    <3>. QED
      BY <3>4, <3>6, <3>7
  <2>19. ASSUME NEW i \in 1..n, i > 1, Ahead(stack[i - 1])' PROVE NotBegun(stack[i])'
    <3>1. i - 1 \in 1..n
      BY <1>3, <2>19
    <3>2. i - 1 # k
      BY <2>2, <2>9, <2>14, <2>19, <3>1
    <3>3. Ahead(stack[i - 1])
      <4>1. CASE k < n /\ i - 1 = k + 1
        BY <2>11, <2>15, <4>1
      <4>2. CASE k < n => i - 1 # k + 1
        BY <2>13, <2>19, <3>1, <3>2, <4>2
      <4>. QED
        BY <4>1, <4>2
    <3>4. NotBegun(stack[i])
      BY <2>1, <2>19, <3>3 DEF Orderly, BegunInOrder, n
    <3>5. i # k /\ (k < n => i # k + 1)
      <4>1. i # k
        BY <1>1, <2>2, <3>4 DEF NotBegun, Resting
      <4>. QED
        BY <1>3, <3>2, <4>1
    <3>. QED
      BY <2>13, <3>4, <3>5
  <2>20. BegunInOrder'
    <3>1. op'.pc # "search"
      BY <1>1, <2>1
    <3>. QED
      BY <2>14, <2>18, <2>19, <3>1 DEF BegunInOrder, n
  <2>21. Top' = Top /\ \A u : OnStack(u)' <=> OnStack(u)
    BY <1>1 DEF Top, OnStack
  <2>22. ASSUME NEW u \in SearchTask PROVE DoneAt(u)'
    <3>1. DoneAt(u)
      BY <2>1 DEF Orderly, DoneOnStack
    <3>2. CASE u = t
      <4>1. OnStack(t)
        BY <2>2 DEF OnStack, n
      <4>2. /\ gor'[t][s].pc = "finish" => t # Top
            /\ gor'[t][s].pc \in {"finishEmit", "emit"} => t = Top
        BY <1>8, <2>6
      <4>. QED
        BY <1>1, <1>8, <3>1, <3>2, <4>1, <4>2, OtherDone
    <3>3. CASE u \in A
      <4>1. \A p \in Part : gor'[u][p].pc \in {"none", "match"}
        BY <1>9, <2>11, <3>3 DEF Part, NotBegun, Resting, RunTask
      <4>. QED
        BY <4>1 DEF DoneAt
    <3>4. CASE u # t /\ u \notin A
      <4>1. gor'[u] = gor[u]
        BY <1>7, <3>4
      <4>. QED
        BY <2>21, <3>1, <4>1 DEF DoneAt
    <3>. QED
      BY <3>2, <3>3, <3>4
  <2>23. TopEmitted'
    <3>1. TopEmitted /\ Top \in SearchTask
      BY <1>3, <2>1, <2>4 DEF Orderly
    <3>2. CASE Top = t
      BY <1>1, <2>4, <2>8, <2>21, <3>2 DEF TopEmitted
    <3>3. CASE Top \in A
      <4>1. ~task[Top].finished
        BY <2>11, <3>3 DEF NotBegun
      <4>. QED
        BY <1>1, <2>4, <2>21, <4>1 DEF TopEmitted
    <3>4. CASE Top # t /\ Top \notin A
      <4>1. gor'[Top] = gor[Top]
        BY <1>7, <3>1, <3>4
      <4>. QED
        BY <1>1, <2>4, <2>21, <3>1, <4>1 DEF TopEmitted
    <3>. QED
      BY <3>2, <3>3, <3>4
  <2>. QED
    BY <2>17, <2>20, <2>22, <2>23 DEF Orderly, DoneOnStack
<1>. QED
  BY <1>11, <1>12 DEF SearchInv

\* Steps that touch neither the stack nor the tasks.
LEMMA TasksStay ==
  ASSUME Orderly, UNCHANGED <<stack, task, gor>>, op.pc # "search", op'.pc # "search", TopEmitted'
  PROVE  Orderly'
<1>1. Top' = Top /\ \A t : OnStack(t)' <=> OnStack(t)
  BY DEF Top, OnStack
<1>2. \A t : /\ FoundSoFar(t)' <=> FoundSoFar(t)
             /\ NotBegun(t)' <=> NotBegun(t)
             /\ Ahead(t)' <=> Ahead(t)
  BY DEF FoundSoFar, NotBegun, Resting, Ahead
<1>3. DoneOnStack'
  BY <1>1 DEF Orderly, DoneOnStack, DoneAt
<1>4. ResultsGrow'
  BY <1>2 DEF Orderly, ResultsGrow
<1>5. BegunInOrder'
  BY <1>2 DEF Orderly, BegunInOrder
<1>. QED
  BY <1>3, <1>4, <1>5 DEF Orderly

LEMMA SearchKeeps ==
  ASSUME SearchInv, NEW key \in Key, NEW changed \in BOOLEAN, Search(key, changed)
  PROVE  SearchInv'
<1>1. UNCHANGED <<op, stack, task, gor, lastDone, searchRaced>>
  BY DEF Search
<1>2. ShapeInv'
  BY SearchReaches DEF SearchInv
<1>3. Orderly => Orderly'
  BY <1>1 DEF Orderly, DoneOnStack, DoneAt, OnStack, Top, ResultsGrow, FoundSoFar, NotBegun, Resting,
              BegunInOrder, Ahead, TopEmitted
<1>. QED
  BY <1>1, <1>2, <1>3 DEF SearchInv

LEMMA TakeOpKeeps == ASSUME SearchInv, TakeOp PROVE SearchInv'
<1>1. /\ op.pc = "idle" /\ ops # <<>> /\ op' = Head(ops)
      /\ UNCHANGED <<stack, task, gor, lastDone, searchRaced>>
  BY DEF TakeOp
<1>2. ShapeInv'
  BY TakeOpReaches DEF SearchInv
<1>3. op'.pc = "apply"
  <2>1. ops \in Seq(OpRec) /\ \A i \in 1..Len(ops) : ops[i].pc = "apply"
    BY DEF SearchInv, ShapeInv, SearchTypes, OpInOrder
  <2>2. Head(ops) = ops[1] /\ 1 \in 1..Len(ops)
    BY <1>1, <2>1
  <2>. QED
    BY <1>1, <2>1, <2>2
<1>4. TopEmitted'
  BY <1>3 DEF TopEmitted
<1>5. Orderly => Orderly'
  BY <1>1, <1>3, <1>4, TasksStay
<1>. QED
  BY <1>1, <1>2, <1>5 DEF SearchInv

LEMMA EmitTopKeeps == ASSUME SearchInv, EmitTop PROVE SearchInv'
<1>1. /\ op.pc = "apply" /\ op' = NoOp
      /\ lastDone' = IF stack = <<>> THEN NoResult ELSE task[Top].result
      /\ UNCHANGED <<stack, task, gor>> /\ searchRaced' = (searchRaced \/ InDone)
  BY DEF EmitTop
<1>2. ShapeInv'
  BY EmitTopReaches DEF SearchInv
<1>3. ASSUME ~searchRaced' PROVE Orderly'
  <2>1. Orderly
    BY <1>1, <1>3 DEF SearchInv
  <2>2. Top' = Top
    BY <1>1 DEF Top
  <2>3. ASSUME stack # <<>>, task[Top].finished PROVE lastDone' = FullResult(task[Top].chars)
    <3>1. Len(stack) \in 1..Len(stack) /\ Top = stack[Len(stack)]
      BY <2>3, StackKeyFacts DEF SearchInv, ShapeInv
    <3>2. FoundSoFar(Top)
      BY <2>1, <3>1 DEF Orderly, ResultsGrow
    <3>. QED
      BY <1>1, <2>3, <3>2 DEF FoundSoFar
  <2>4. TopEmitted'
    BY <1>1, <2>2, <2>3 DEF TopEmitted
  <2>. QED
    BY <1>1, <2>1, <2>4, TasksStay, NoOpFacts
<1>. QED
  BY <1>2, <1>3 DEF SearchInv

\* When nobody is in done.
LEMMA NobodyDone ==
  ASSUME ~InDone, NEW t \in SearchTask, NEW s \in Part
  PROVE  gor[t][s].pc \notin {"getNext", "finish", "finishEmit", "emit"}
BY DEF InDone

LEMMA PopKeeps == ASSUME SearchInv, Pop PROVE SearchInv'
<1> DEFINE n == Len(stack)
<1>1. /\ op.pc = "apply" /\ op.pop > 0 /\ op' = [op EXCEPT !.pop = @ - 1]
      /\ gor' = gor /\ searchRaced' = (searchRaced \/ InDone)
  BY DEF Pop
<1>2. /\ ShapeInv /\ op \in OpRec /\ op.pop <= Len(StackKey) /\ task \in [SearchTask -> TaskRec]
      /\ stack \in Seq(1..made)
  BY DEF SearchInv, ShapeInv, OpsReachKey, SearchTypes
<1>3. ShapeInv'
  BY <1>2, PopReaches
<1>4. op'.pc = "apply"
  BY <1>1, <1>2 DEF OpRec
<1>5. /\ Len(StackKey) = n /\ n \in Nat
      /\ \A i \in 1..n : stack[i] \in 1..made /\ stack[i] \in SearchTask
  BY <1>2, StackKeyFacts DEF ShapeInv
<1>6. n > 0 /\ stack # <<>>
  BY <1>1, <1>2, <1>5 DEF OpRec
<1>7. Top \in SearchTask
  BY <1>2, <1>6, StackKeyFacts DEF ShapeInv
<1>8. task' = [task EXCEPT ![Top].canceled = TRUE] /\ stack' = SubSeq(stack, 1, n - 1)
  BY <1>6 DEF Pop
<1> HIDE DEF n
<1>9. Len(stack') = n - 1 /\ \A i \in 1..(n - 1) : stack'[i] = stack[i] /\ i \in 1..n
  BY <1>2, <1>5, <1>6, <1>8 DEF n
<1>10. \A t \in SearchTask : SameIn(t)
  BY <1>1, <1>2, <1>7, <1>8 DEF SameIn, TaskRec
<1>11. ASSUME ~searchRaced' PROVE Orderly'
  <2>1. Orderly /\ ~InDone
    BY <1>1, <1>11 DEF SearchInv
  <2>2. DoneOnStack'
    <3>1. \A t \in SearchTask, s \in Part :
            gor'[t][s].pc \notin {"getNext", "finish", "finishEmit", "emit"}
      BY <1>1, <2>1, NobodyDone
    <3>. QED
      BY <3>1 DEF DoneOnStack, DoneAt
  <2>3. ASSUME NEW u \in SearchTask
        PROVE  /\ FoundSoFar(u)' <=> FoundSoFar(u)
               /\ NotBegun(u)' <=> NotBegun(u)
               /\ Ahead(u)' <=> Ahead(u)
    BY <1>10, SameFacts
  <2>4. ResultsGrow'
    <3>1. \A i \in 1..(n - 1) : FoundSoFar(stack[i])
      BY <1>9, <2>1 DEF Orderly, ResultsGrow, n
    <3>. QED
      BY <1>5, <1>9, <2>3, <3>1 DEF ResultsGrow
  <2>5. ASSUME NEW i \in 1..(n - 1), NotBegun(stack[i])' PROVE i > 1 /\ Ahead(stack[i - 1])'
    <3>1. i \in 1..n /\ stack'[i] = stack[i] /\ stack[i] \in SearchTask
      BY <1>5, <1>9
    <3>2. NotBegun(stack[i])
      BY <2>3, <2>5, <3>1
    <3>3. i > 1 /\ Ahead(stack[i - 1])
      BY <1>1, <2>1, <3>1, <3>2 DEF Orderly, BegunInOrder, n
    <3>4. i - 1 \in 1..(n - 1)
      BY <1>5, <3>3
    <3>. QED
      BY <1>5, <1>9, <2>3, <3>3, <3>4
  <2>6. ASSUME NEW i \in 1..(n - 1), i > 1, Ahead(stack[i - 1])' PROVE NotBegun(stack[i])'
    <3>1. i \in 1..n /\ stack'[i] = stack[i] /\ stack[i] \in SearchTask /\ i - 1 \in 1..(n - 1)
      BY <1>5, <1>9, <2>6
    <3>2. Ahead(stack[i - 1])
      BY <1>5, <1>9, <2>3, <2>6, <3>1
    <3>3. NotBegun(stack[i])
      BY <2>1, <2>6, <3>1, <3>2 DEF Orderly, BegunInOrder, n
    <3>. QED
      BY <2>3, <3>1, <3>3
  <2>7. BegunInOrder'
    BY <1>4, <1>9, <2>5, <2>6 DEF BegunInOrder
  <2>8. TopEmitted'
    BY <1>4 DEF TopEmitted
  <2>. QED
    BY <2>2, <2>4, <2>7, <2>8 DEF Orderly
<1>. QED
  BY <1>3, <1>11 DEF SearchInv

LEMMA PushKeeps == ASSUME SearchInv, Push PROVE SearchInv'
<1> DEFINE t == made + 1
           n == Len(stack)
           key == IF stack = <<>> THEN <<op.push[1]>> ELSE Append(task[Top].chars, op.push[1])
<1>1. /\ op.pc = "apply" /\ op.pop = 0 /\ op.push # <<>> /\ made < MaxTask
      /\ task' = [task EXCEPT ![t] = NewTask(key)] /\ stack' = Append(stack, t)
      /\ IF stack = <<>> THEN gor' = [gor EXCEPT ![t]["push"] = RunTask(Item)] /\ op' = Rest(op)
                         ELSE op' = [op EXCEPT !.pc = "search", !.prev = Top] /\ gor' = gor
      /\ searchRaced' = (searchRaced \/ InDone)
  BY DEF Push
<1> HIDE DEF key
<1>2. /\ ShapeInv /\ op \in OpRec /\ task \in [SearchTask -> TaskRec] /\ made \in Nat
      /\ gor \in [SearchTask -> [Part -> RunRec]] /\ stack \in Seq(1..made)
  BY DEF SearchInv, ShapeInv, SearchTypes
<1>3. ShapeInv'
  BY <1>2, PushReaches
<1>4. t \in SearchTask /\ t > made /\ n \in Nat
  BY <1>1, <1>2, SearchAssumption DEF SearchTask
<1>5. gor[t] = [s \in Part |-> NoRun]
  BY <1>2, <1>4 DEF ShapeInv, StackOfPrefixes
<1>6. \A i \in 1..n : stack[i] \in SearchTask /\ stack[i] # t
  <2>1. \A i \in 1..n : stack[i] \in SearchTask /\ stack[i] \in 1..made
    BY <1>2, StackKeyFacts DEF ShapeInv
  <2>. QED
    BY <1>2, <2>1
<1>7. /\ Len(stack') = n + 1 /\ stack'[n + 1] = t /\ \A i \in 1..n : stack'[i] = stack[i]
      /\ stack' # <<>> /\ Top' = t
  <2>1. stack \in Seq(Nat) /\ t \in Nat
    BY <1>2
  <2>2. /\ Len(stack') = n + 1 /\ stack'[n + 1] = t /\ \A i \in 1..n : stack'[i] = stack[i]
    BY <1>1, <2>1
  <2>. QED
    BY <1>4, <2>2 DEF Top
<1>8. /\ task'[t] = NewTask(key) /\ ~task'[t].finished /\ task'[t].result = NoResult
      /\ \A u \in SearchTask : u # t => task'[u] = task[u]
  BY <1>1, <1>2, <1>4 DEF NewTask
<1>9. /\ stack = <<>> => op'.pc # "search" /\ gor'[t]["push"] = RunTask(Item) /\ gor'[t]["next"] = NoRun
      /\ stack # <<>> => op'.pc = "search" /\ \A s \in Part : gor'[t][s] = NoRun
      /\ \A u \in SearchTask : u # t => gor'[u] = gor[u]
  <2>1. CASE stack = <<>>
    <3>1. gor' = [gor EXCEPT ![t]["push"] = RunTask(Item)] /\ op' = Rest(op)
      BY <1>1, <2>1
    <3>2. op'.pc # "search"
      BY <1>1, <1>2, <3>1, RestFacts
    <3>3. gor[t]["next"] = NoRun /\ gor[t] \in [Part -> RunRec] /\ "push" \in Part /\ "next" \in Part
      BY <1>2, <1>4, <1>5 DEF Part
    <3> HIDE DEF t
    <3>. QED
      BY <1>2, <1>4, <2>1, <3>1, <3>2, <3>3
  <2>2. CASE stack # <<>>
    BY <1>1, <1>2, <1>5, <2>2 DEF OpRec
  <2>. QED
    BY <2>1, <2>2
<1> HIDE DEF t, n
<1>10. ASSUME NEW u \in SearchTask, u # t PROVE SameIn(u)
  BY <1>8, <1>9, <1>10 DEF SameIn
<1>11. ASSUME ~searchRaced' PROVE Orderly'
  <2>1. Orderly /\ ~InDone
    BY <1>1, <1>11 DEF SearchInv
  <2>2. DoneOnStack'
    <3>1. ASSUME NEW u \in SearchTask, NEW s \in Part
          PROVE  gor'[u][s].pc \notin {"getNext", "finish", "finishEmit", "emit"}
      <4>1. CASE u = t
        BY <1>9, <4>1 DEF Part, NoRun, RunTask
      <4>2. CASE u # t
        BY <1>9, <2>1, <4>2, NobodyDone
      <4>. QED
        BY <4>1, <4>2
    <3>. QED
      BY <3>1 DEF DoneOnStack, DoneAt
  <2>3. ASSUME NEW i \in 1..n
        PROVE  /\ FoundSoFar(stack[i])'
               /\ NotBegun(stack[i])' <=> NotBegun(stack[i])
               /\ Ahead(stack[i])' <=> Ahead(stack[i])
    <3>1. PICK u \in SearchTask : u = stack[i] /\ u # t
      BY <1>6
    <3>2. FoundSoFar(u) /\ SameIn(u)
      BY <1>10, <2>1, <3>1 DEF Orderly, ResultsGrow, n
    <3>3. FoundSoFar(u)' /\ (NotBegun(u)' <=> NotBegun(u)) /\ (Ahead(u)' <=> Ahead(u))
      BY <3>2, SameFacts
    <3>. QED
      BY <1>7, <3>1, <3>3
  <2>4. PICK w \in SearchTask : w = t
    BY <1>4
  <2>5. stack'[n + 1] = w /\ Top' = w /\ ~task'[w].finished /\ task'[w].result = NoResult
    BY <1>7, <1>8, <2>4
  <2>6. /\ stack # <<>> => \A s \in Part : gor'[w][s].pc = "none"
        /\ stack = <<>> => /\ gor'[w]["push"].pc = "match" /\ gor'[w]["push"].todo = Item
                           /\ gor'[w]["next"].pc = "none" /\ "push" \in Part
    BY <1>9, <2>4 DEF RunTask, Part, NoRun
  <2>7. NotBegun(w)' <=> stack # <<>>
    BY <2>5, <2>6 DEF NotBegun, Resting
  <2>8. FoundSoFar(w)'
    <3>1. CASE stack # <<>>
      <4>1. gor'[w]["push"].pc = "none"
        BY <2>6, <3>1 DEF Part
      <4>. QED
        BY <2>5, <2>6, <3>1, <4>1 DEF FoundSoFar
    <3>2. CASE stack = <<>>
      <4>1. \A j \in Item : task'[w].result[j] = 0
        BY <2>5 DEF NoResult
      <4>2. \A s \in Part : s = "push" \/ s = "next"
        BY DEF Part
      <4>3. ASSUME NEW s \in Part
            PROVE  /\ gor'[w][s].pc \in {"none", "match"}
                   /\ gor'[w][s].pc = "match" => gor'[w][s].todo = Item
        BY <2>6, <3>2, <4>2
      <4>. QED
        BY <2>5, <2>6, <2>7, <3>2, <4>1, <4>3 DEF FoundSoFar
    <3>. QED
      BY <3>1, <3>2
  <2>9. \A i \in 1..(n + 1) : i = n + 1 \/ i \in 1..n
    BY <1>4
  <2>10. ResultsGrow'
    <3>1. ASSUME NEW i \in 1..(n + 1) PROVE FoundSoFar(stack[i])'
      <4>1. CASE i = n + 1
        BY <2>5, <2>8, <4>1
      <4>2. CASE i \in 1..n
        BY <2>3, <4>2
      <4>. QED
        BY <2>9, <4>1, <4>2
    <3>. QED
      BY <1>7, <3>1 DEF ResultsGrow
  <2>11. ASSUME NEW i \in 1..(n + 1), NotBegun(stack[i])'
         PROVE  i > 1 /\ (Ahead(stack[i - 1])' \/ (i = n + 1 /\ op'.pc = "search"))
    <3>1. CASE i = n + 1
      <4>1. stack # <<>>
        BY <2>5, <2>7, <2>11, <3>1
      <4>2. n > 0
        BY <1>2, <1>4, <4>1, EmptySeq DEF n
      <4>. QED
        BY <1>4, <1>9, <3>1, <4>1, <4>2
    <3>2. CASE i \in 1..n
      <4>1. NotBegun(stack[i])
        BY <2>3, <2>11, <3>2
      <4>2. i > 1 /\ Ahead(stack[i - 1])
        BY <1>1, <2>1, <3>2, <4>1 DEF Orderly, BegunInOrder, n
      <4>3. i - 1 \in 1..n
        BY <1>4, <3>2, <4>2
      <4>. QED
        BY <2>3, <4>2, <4>3
    <3>. QED
      BY <2>9, <3>1, <3>2
  <2>12. ASSUME NEW i \in 1..(n + 1), i > 1, Ahead(stack[i - 1])' PROVE NotBegun(stack[i])'
    <3>1. i - 1 \in 1..n
      BY <1>4, <2>12
    <3>2. CASE i = n + 1
      <4>1. stack # <<>>
        BY <3>1 DEF n
      <4>. QED
        BY <2>5, <2>7, <3>2, <4>1
    <3>3. CASE i \in 1..n
      <4>1. Ahead(stack[i - 1])
        BY <2>3, <2>12, <3>1
      <4>2. NotBegun(stack[i])
        BY <2>1, <2>12, <3>3, <4>1 DEF Orderly, BegunInOrder, n
      <4>. QED
        BY <2>3, <3>3, <4>2
    <3>. QED
      BY <2>9, <3>2, <3>3
  <2>13. op'.pc = "search" => NotBegun(Top)'
    BY <1>9, <2>5, <2>7
  <2>14. BegunInOrder'
    BY <1>7, <2>11, <2>12, <2>13 DEF BegunInOrder
  <2>15. TopEmitted'
    BY <1>7, <2>5 DEF TopEmitted
  <2>. QED
    BY <2>2, <2>10, <2>14, <2>15 DEF Orderly
<1>. QED
  BY <1>3, <1>11 DEF SearchInv

LEMMA StartSearchKeeps == ASSUME SearchInv, StartSearch PROVE SearchInv'
<1> DEFINE n == Len(stack)
<1>1. /\ op.pc = "search" /\ op' = Rest(op) /\ UNCHANGED <<stack, task, lastDone>>
      /\ gor' = IF task[op.prev].finished
              THEN [gor EXCEPT ![Top]["push"] = RunTask(Found(task[op.prev].result))] ELSE gor
      /\ searchRaced' = (searchRaced \/ InDone)
  BY DEF StartSearch
<1>2. /\ ShapeInv /\ op \in OpRec /\ op.pop = 0 /\ op.push # <<>> /\ n > 1
      /\ op.prev = stack[n - 1] /\ gor \in [SearchTask -> [Part -> RunRec]]
  BY <1>1 DEF SearchInv, ShapeInv, SearchTypes, OpInOrder
<1>3. ShapeInv'
  BY <1>2, StartSearchReaches
<1>4. op'.pc # "search"
  BY <1>1, <1>2, RestFacts
<1>5. n \in Nat /\ n \in 1..n /\ n - 1 \in 1..n /\ \A i \in 1..n : stack[i] \in SearchTask
  <2>1. n \in Nat /\ \A i \in 1..n : stack[i] \in SearchTask
    BY <1>2, StackKeyFacts DEF ShapeInv
  <2>. QED
    BY <1>2, <2>1
<1>6. PICK t \in SearchTask, v \in SearchTask : t = stack[n] /\ v = stack[n - 1]
  BY <1>5
<1>7. stack # <<>> /\ Top = t /\ Top' = t /\ op.prev = v /\ t # v
  <2>1. stack # <<>>
    BY <1>2
  <2>2. n # n - 1
    BY <1>5
  <2>. QED
    BY <1>1, <1>2, <1>5, <1>6, <2>1, <2>2, StackOnce DEF Top
<1>8. /\ \A u \in SearchTask : u # t => gor'[u] = gor[u]
      /\ task[v].finished => /\ gor'[t]["push"] = RunTask(Found(task[v].result))
                             /\ gor'[t]["next"] = gor[t]["next"]
      /\ ~task[v].finished => gor' = gor
  <2>1. "push" \in Part /\ "next" \in Part
    BY DEF Part
  <2>2. gor' = IF task[v].finished
              THEN [gor EXCEPT ![t]["push"] = RunTask(Found(task[v].result))] ELSE gor
    BY <1>1, <1>7
  <2>. QED
    BY <1>2, <1>6, <2>1, <2>2
<1>9. ASSUME ~searchRaced' PROVE Orderly'
  <2>1. Orderly /\ ~InDone /\ NotBegun(t)
    <3>1. Orderly /\ ~InDone
      BY <1>1, <1>9 DEF SearchInv
    <3>. QED
      BY <1>1, <1>7, <3>1 DEF Orderly, BegunInOrder
  <2>2. FoundSoFar(t) /\ FoundSoFar(v)
    BY <1>5, <1>6, <2>1 DEF Orderly, ResultsGrow
  <2>3. ~task[t].finished
    BY <2>1 DEF NotBegun
  <2>4. task[v].finished => FoundSoFar(t)' /\ ~NotBegun(t)'
    <3> SUFFICES ASSUME task[v].finished PROVE FoundSoFar(t)' /\ ~NotBegun(t)'
      OBVIOUS
    <3>1. task[v].result = FullResult(task[v].chars)
      BY <2>2 DEF FoundSoFar
    <3>2. \A p \in Part : p # "push" => gor'[t][p] = gor[t][p]
      BY <1>8 DEF Part
    <3>3. "push" \in Part /\ gor'[t]["push"] = RunTask(Found(task[v].result))
      BY <1>8 DEF Part
    <3>4. PICK i \in 1..Len(stack) : i = n
      BY <1>5
    <3>5. i > 1 /\ t = stack[i] /\ v = stack[i - 1] /\ UNCHANGED task
      BY <1>1, <1>2, <1>6, <3>4
    <3>. QED
      BY <1>2, <2>1, <2>2, <3>1, <3>2, <3>3, <3>5, BeginsRight
  <2>5. ~task[v].finished => /\ FoundSoFar(t)' /\ NotBegun(t)'
                             /\ Ahead(v)
    <3> SUFFICES ASSUME ~task[v].finished PROVE FoundSoFar(t)' /\ NotBegun(t)' /\ Ahead(v)
      OBVIOUS
    <3>1. SameIn(t)
      BY <1>1, <1>8 DEF SameIn
    <3>2. \A p \in Part : gor[v][p].pc \in {"none", "match"}
      <4>1. \A p \in Part : gor[v][p].pc \in RunPc
        BY <1>2, <1>6 DEF RunRec
      <4>2. \A p \in Part : gor[v][p].pc \notin {"getNext", "finish", "finishEmit", "emit"}
        BY <1>6, <2>1, NobodyDone
      <4>. QED
        BY <4>1, <4>2 DEF RunPc
    <3>3. Ahead(v)
      BY <3>2 DEF Ahead, NotBegun, Resting
    <3>. QED
      BY <2>1, <2>2, <3>1, <3>3, SameFacts
  <2>6. task[v].finished => ~Ahead(v)
    BY <2>2 DEF Ahead, NotBegun, FoundSoFar
  <2>7. ASSUME NEW i \in 1..n, i # n
        PROVE  /\ FoundSoFar(stack[i])'
               /\ NotBegun(stack[i])' <=> NotBegun(stack[i])
               /\ Ahead(stack[i])' <=> Ahead(stack[i])
    <3>1. PICK u \in SearchTask : u = stack[i]
      BY <1>5
    <3>2. u # t
      BY <1>2, <1>5, <1>6, <2>7, <3>1, StackOnce
    <3>3. FoundSoFar(u) /\ SameIn(u)
      BY <1>1, <1>8, <2>1, <3>1, <3>2 DEF Orderly, ResultsGrow, SameIn
    <3>4. FoundSoFar(u)' /\ (NotBegun(u)' <=> NotBegun(u)) /\ (Ahead(u)' <=> Ahead(u))
      BY <3>3, SameFacts
    <3>. QED
      BY <1>1, <3>1, <3>4
  <2> HIDE DEF n
  <2>8. Len(stack') = n /\ \A i \in 1..n : stack'[i] = stack[i]
    BY <1>1 DEF n
  <2>9. ResultsGrow'
    <3>1. ASSUME NEW i \in 1..n PROVE FoundSoFar(stack[i])'
      <4>1. CASE i = n
        BY <1>6, <2>4, <2>5, <2>8, <4>1
      <4>2. CASE i # n
        BY <2>7, <4>2
      <4>. QED
        BY <4>1, <4>2
    <3>. QED
      BY <2>8, <3>1 DEF ResultsGrow
  <2>10. ASSUME NEW i \in 1..n, NotBegun(stack[i])' PROVE i > 1 /\ Ahead(stack[i - 1])'
    <3>1. CASE i = n
      <4>1. NotBegun(t)'
        BY <1>6, <2>8, <2>10, <3>1
      <4>2. Ahead(stack[n - 1])
        BY <1>6, <2>4, <2>5, <4>1
      <4>3. n - 1 \in 1..n /\ n - 1 # n /\ i > 1
        BY <1>2, <1>5, <3>1
      <4>. QED
        BY <2>7, <3>1, <4>2, <4>3
    <3>2. CASE i # n
      <4>1. NotBegun(stack[i])
        BY <2>7, <2>10, <3>2
      <4>2. i > 1 /\ Ahead(stack[i - 1])
        BY <2>1, <3>2, <4>1 DEF Orderly, BegunInOrder, n
      <4>3. i - 1 \in 1..n /\ i - 1 # n
        BY <1>5, <3>2, <4>2
      <4>. QED
        BY <2>7, <4>2, <4>3
    <3>. QED
      BY <3>1, <3>2
  <2>11. ASSUME NEW i \in 1..n, i > 1, Ahead(stack[i - 1])' PROVE NotBegun(stack[i])'
    <3>1. i - 1 \in 1..n /\ i - 1 # n
      BY <1>5, <2>11
    <3>2. Ahead(stack[i - 1])
      BY <2>7, <2>11, <3>1
    <3>3. NotBegun(stack[i])
      BY <2>1, <2>11, <3>2 DEF Orderly, BegunInOrder, n
    <3>4. CASE i = n
      <4>1. ~task[v].finished
        BY <1>6, <2>6, <3>2, <3>4
      <4>. QED
        BY <1>6, <2>5, <2>8, <3>4, <4>1
    <3>5. CASE i # n
      BY <2>7, <3>3, <3>5
    <3>. QED
      BY <3>4, <3>5
  <2>12. BegunInOrder'
    BY <1>4, <2>8, <2>10, <2>11 DEF BegunInOrder
  <2>13. DoneOnStack'
    <3>1. ASSUME NEW u \in SearchTask, NEW s \in Part
          PROVE  gor'[u][s].pc \notin {"getNext", "finish", "finishEmit", "emit"}
      <4>1. gor[u][s].pc \notin {"getNext", "finish", "finishEmit", "emit"}
        BY <2>1, NobodyDone
      <4>2. CASE u # t \/ ~task[v].finished
        BY <1>8, <4>1, <4>2
      <4>3. CASE u = t /\ task[v].finished
        BY <1>8, <4>1, <4>3 DEF Part, RunTask
      <4>. QED
        BY <4>2, <4>3
    <3>. QED
      BY <3>1 DEF DoneOnStack, DoneAt
  <2>14. TopEmitted'
    BY <1>1, <1>7, <2>3 DEF TopEmitted
  <2>. QED
    BY <2>9, <2>12, <2>13, <2>14 DEF Orderly
<1>. QED
  BY <1>3, <1>9 DEF SearchInv

LEMMA SearchInitInv == SearchInit => SearchInv
<1> SUFFICES ASSUME SearchInit PROVE SearchInv
  OBVIOUS
<1>1. /\ ops = <<>> /\ currentRunes = <<>> /\ op = NoOp /\ stack = <<>> /\ made = 0
      /\ task = [t \in SearchTask |-> NewTask(<<>>)]
      /\ gor = [t \in SearchTask |-> [s \in Part |-> NoRun]]
      /\ lastDone = NoResult /\ searchRaced = FALSE
  BY DEF SearchInit
<1>2. NewTask(<<>>) \in TaskRec
  <2>1. <<>> \in Seq(STRING) /\ NoResult \in [Item -> Nat]
    BY DEF NoResult
  <2>. QED
    BY <2>1 DEF NewTask, TaskRec
<1>3. NoRun \in RunRec /\ NoRun.pc = "none"
  BY DEF NoRun, RunRec, RunPc
<1>4. Len(<<>>) = 0 /\ <<>> \in Seq(STRING) /\ <<>> \in Seq(OpRec) /\ <<>> \in Seq(1..0)
  OBVIOUS
<1>5. SearchTypes
  <2>1. task \in [SearchTask -> TaskRec] /\ gor \in [SearchTask -> [Part -> RunRec]]
    BY <1>1, <1>2, <1>3
  <2>2. made \in Nat /\ made <= MaxTask /\ searchRaced \in BOOLEAN
    <3>1. MaxTask \in Nat
      BY SearchAssumption
    <3>2. made \in Nat /\ made <= MaxTask
      BY <1>1, <3>1
    <3>3. searchRaced \in BOOLEAN
      BY <1>1, Zenon
    <3>. QED
      BY <3>2, <3>3
  <2>. QED
    BY <1>1, <1>4, <2>1, <2>2, NoOpFacts DEF SearchTypes
<1>6. StackOfPrefixes /\ OpInOrder
  BY <1>1, <1>4, NoOpFacts DEF StackOfPrefixes, OpInOrder, OnStack
<1>7. OpsReachKey
  <2> DEFINE k == [i \in 0..0 |-> <<>>]
  <2>1. StackKey = <<>>
    BY <1>1 DEF StackKey
  <2>2. After(<<>>, NoOp) = <<>> /\ NoOp.pop = 0
    BY <1>4, NoOpFacts
  <2>3. k \in [0..0 -> Seq(STRING)] /\ k[0] = <<>>
    BY <1>4
  <2> HIDE DEF k
  <2>4. 1..Len(ops) = {} /\ Len(ops) = 0
    BY <1>1, <1>4
  <2>. QED
    BY <1>1, <1>4, <2>1, <2>2, <2>3, <2>4 DEF OpsReachKey
<1>8. Orderly
  <2>1. \A t \in SearchTask, s \in Part : gor[t][s].pc = "none"
    BY <1>1, <1>3
  <2>2. DoneOnStack
    BY <2>1 DEF DoneOnStack, DoneAt
  <2>3. 1..Len(stack) = {} /\ op.pc = "idle"
    BY <1>1, <1>4, NoOpFacts
  <2>. QED
    BY <1>1, <2>2, <2>3 DEF Orderly, ResultsGrow, BegunInOrder, TopEmitted
<1>. QED
  BY <1>5, <1>6, <1>7, <1>8 DEF SearchInv, ShapeInv

LEMMA SearchNextInv == SearchInv /\ [SearchNext]_searchVars => SearchInv'
<1> SUFFICES ASSUME SearchInv, [SearchNext]_searchVars PROVE SearchInv'
  OBVIOUS
<1>1. ASSUME NEW t \in SearchTask, NEW s \in Part, TaskStep(t, s) PROVE SearchInv'
  <2>1. CASE \E i \in Item : MatchItem(t, s, i)
    BY <2>1, MatchItemKeeps
  <2>2. CASE Matched(t, s)
    BY <2>2, MatchedKeeps
  <2>3. CASE GetNext(t, s)
    BY <2>3, GetNextKeeps
  <2>4. CASE FinishTask(t, s)
    BY <2>4, FinishTaskKeeps
  <2>5. CASE EmitResult(t, s)
    BY <2>5, EmitResultKeeps
  <2>. QED
    BY <1>1, <2>1, <2>2, <2>3, <2>4, <2>5 DEF TaskStep
<1>2. CASE UNCHANGED searchVars
  <2>1. UNCHANGED <<ops, currentRunes, op, stack, task, gor, made, lastDone, searchRaced>>
    BY <1>2 DEF searchVars
  <2>2. ShapeInv'
    BY <2>1, ZenonT(30) DEF SearchInv, ShapeInv, SearchTypes, StackOfPrefixes, OpInOrder, OpsReachKey, StackKey, Top,
                OnStack
  <2>3. Orderly => Orderly'
    BY <2>1 DEF Orderly, DoneOnStack, DoneAt, OnStack, Top, ResultsGrow, FoundSoFar, NotBegun, Resting,
                BegunInOrder, Ahead, TopEmitted
  <2>. QED
    BY <2>1, <2>2, <2>3 DEF SearchInv
<1>3. CASE \E key \in Key, changed \in BOOLEAN : Search(key, changed)
  BY <1>3, SearchKeeps
<1>4. CASE TakeOp \/ Pop \/ EmitTop \/ Push \/ StartSearch
  BY <1>4, TakeOpKeeps, PopKeeps, EmitTopKeeps, PushKeeps, StartSearchKeeps
<1>. QED
  BY <1>1, <1>2, <1>3, <1>4 DEF SearchNext

\* In a quiet state every task on the stack has finished: the lowest that has
\* not begun would have one below that is still going to look for it.
LEMMA QuietFinished ==
  ASSUME SearchInv, SearchQuiet, ~searchRaced, NEW i \in 1..Len(stack)
  PROVE  task[stack[i]].finished
<1> DEFINE T == {j \in 1..Len(stack) : NotBegun(stack[j])}
<1>1. BegunInOrder /\ op.pc # "search" /\ Len(stack) \in Nat
  BY NoOpFacts DEF SearchInv, Orderly, SearchQuiet, ShapeInv, SearchTypes
<1>2. \A j \in 1..Len(stack) : stack[j] \in SearchTask
  BY StackKeyFacts DEF SearchInv, ShapeInv
<1>3. \A j \in 1..Len(stack) : /\ Resting(stack[j])
                               /\ Ahead(stack[j]) => NotBegun(stack[j])
  BY <1>2 DEF SearchQuiet, Resting, Ahead
<1>4. T = {}
  <2> SUFFICES ASSUME T # {} PROVE FALSE
    OBVIOUS
  <2>1. PICK j \in T : \A m \in T : j <= m
    <3>1. T \subseteq Nat
      BY <1>1
    <3> HIDE DEF T
    <3>. QED
      BY <3>1, LeastOf
  <2>2. j > 1 /\ Ahead(stack[j - 1])
    BY <1>1, <2>1 DEF BegunInOrder
  <2>3. j - 1 \in 1..Len(stack) /\ ~(j <= j - 1)
    BY <1>1, <2>1, <2>2
  <2>4. j - 1 \in T
    BY <1>3, <2>2, <2>3
  <2>. QED
    BY <2>1, <2>3, <2>4
<1>. QED
  BY <1>3, <1>4 DEF NotBegun

LEMMA InvGivesLastDone == SearchInv => LastDoneIsForKey
<1> SUFFICES ASSUME SearchInv, SearchQuiet, ~searchRaced PROVE lastDone = FullResult(currentRunes)
  BY DEF LastDoneIsForKey
<1>1. /\ ops = <<>> /\ op = NoOp /\ ShapeInv /\ TopEmitted /\ op.pc = "idle"
  BY NoOpFacts DEF SearchInv, Orderly, SearchQuiet
<1>2. StackKey \in Seq(STRING)
  BY <1>1, StackKeyFacts DEF ShapeInv
<1>3. StackKey = currentRunes
  <2>1. Len(ops) = 0
    BY <1>1
  <2>2. After(StackKey, op) = currentRunes
    BY <1>1, <2>1 DEF ShapeInv, OpsReachKey
  <2>. QED
    BY <1>1, <1>2, <2>2, NoOpFacts
<1>4. CASE stack = <<>>
  <2>1. currentRunes = <<>> /\ lastDone = NoResult
    BY <1>1, <1>3, <1>4 DEF StackKey, TopEmitted
  <2>. QED
    BY <2>1 DEF FullResult, NoResult
<1>5. CASE stack # <<>>
  <2>1. Len(stack) \in 1..Len(stack) /\ Top = stack[Len(stack)] /\ Top \in SearchTask
    BY <1>1, <1>5, StackKeyFacts DEF ShapeInv
  <2>2. task[Top].finished
    BY <2>1, QuietFinished
  <2>3. \A s \in Part : gor[Top][s].pc # "emit"
    BY <2>1 DEF SearchQuiet
  <2>4. lastDone = FullResult(task[Top].chars)
    BY <1>1, <1>5, <2>2, <2>3 DEF TopEmitted
  <2>. QED
    BY <1>3, <1>5, <2>4 DEF StackKey
<1>. QED
  BY <1>4, <1>5

(* When all is quiet, the last SearchDone has what a search of all items    *)
(* for the last key finds, each item once, for any items and keys and any   *)
(* number of searches, unless a key came while a task was in done.          *)
THEOREM LastDoneAlwaysForKey == SearchSpec => []LastDoneIsForKey
<1>1. SearchInit => SearchInv
  BY SearchInitInv
<1>2. SearchInv /\ [SearchNext]_searchVars => SearchInv'
  BY SearchNextInv
<1>3. SearchInv => LastDoneIsForKey
  BY InvGivesLastDone
<1>. QED
  BY <1>1, <1>2, <1>3, PTL DEF SearchSpec
=============================================================================
