------------------------- MODULE PowerSavePlanProofs -------------------------
(***************************************************************************)
(* Proofs that no timer of the power-save plan is lost, and that an        *)
(* idle-off brings display and brightness back, for every plan and any     *)
(* number of idle periods, suspends and changes of the settings.           *)
(***************************************************************************)
EXTENDS PowerSavePlan, TLAPS

LockedState == {"cancel", "wait", "plan", "dpms", "brightness", "clear", "keep"}

PTypes ==
  /\ cb \in [Task -> Callback]
  /\ thread \in [Thread -> ThreadState]
  /\ left \in [Thread -> SUBSET (Kind \X Nat)]
  /\ metaTasks \subseteq MetaKind
  /\ tasks \subseteq Kind \X Nat
  /\ round \in Nat

\* A thread that works on the tasks holds psp.mu.
HoldsLock == \A p \in Thread : thread[p] \in LockedState => mu = p

\* What has been cancelled has no timer any more.
CancelledStopped ==
  \A p \in Thread, t \in Task :
     t \in tasks /\ cb[t] = "timer" =>
        /\ thread[p] = "cancel" => t \in left[p]
        /\ thread[p] # "wait"

\* Only the idle periods that have begun have tasks.
PeriodsBegun ==
  /\ \A t \in tasks : t[2] <= round
  /\ \A t \in Task : t[2] > round => cb[t] = "none"

Black(n)     == <<"screenBlack", n>>
BlackFull(n) == <<"screenFullBlack", n>>

\* screenFullBlack is registered as the last deed of screenBlack.
RegisteredLast ==
  \A n \in 1..MaxIdle : BlackFull(n) \in tasks => cb[Black(n)] \in {"finish", "end"}

\* Only screenBlack arms another task.
OnlyBlackArms == \A t \in Task : cb[t] \in {"dim", "arm", "add"} => t[1] = "screenBlack"

PlanInv ==
  /\ PTypes
  /\ HoldsLock
  /\ CancelledStopped
  /\ PeriodsBegun
  /\ RegisteredLast
  /\ OnlyBlackArms
  /\ NoLostTimer

-----------------------------------------------------------------------------
(* A task is a pair of its kind and its period.                            *)

LEMMA TaskPair ==
  ASSUME NEW t \in Task
  PROVE  /\ t = <<t[1], t[2]>> /\ t[1] \in Kind /\ t[2] \in 1..MaxIdle
         /\ t \in Kind \X Nat
         /\ FullBlack(t) \in Task /\ FullBlack(t) = BlackFull(t[2])
         /\ t[1] = "screenBlack" => t = Black(t[2])
BY PlanAssumption DEF Task, Kind, FullBlack, BlackFull, Black

LEMMA PeriodTask ==
  ASSUME NEW n \in 1..MaxIdle
  PROVE  /\ Black(n) \in Task /\ Black(n)[1] = "screenBlack" /\ Black(n)[2] = n
         /\ BlackFull(n) \in Task /\ BlackFull(n)[1] = "screenFullBlack" /\ BlackFull(n)[2] = n
         /\ Black(n) # BlackFull(n)
BY PlanAssumption DEF Task, Kind, MetaKind, Black, BlackFull

\* No thread and no timer is under way at first.
LEMMA PlanInitInv == PlanInit => PlanInv
BY PlanAssumption
   DEF PlanInit, PlanInv, PTypes, HoldsLock, CancelledStopped, PeriodsBegun, RegisteredLast,
       OnlyBlackArms, NoLostTimer, MetaTasks, ThreadState, Callback, LockedState

\* Steps that leave the lock, the tasks and the timers alone.
LEMMA QuietStep ==
  ASSUME PlanInv, UNCHANGED <<cb, thread, left, mu, metaTasks, tasks, round>>
  PROVE  PlanInv'
BY DEF PlanInv, PTypes, HoldsLock, CancelledStopped, PeriodsBegun, RegisteredLast, OnlyBlackArms, NoLostTimer

\* A step of a callback that starts no timer.
LEMMA QuietCallback ==
  ASSUME PlanInv, NEW t \in Task, NEW from, NEW to \in Callback, CbStep(t, from, to),
         UNCHANGED <<thread, left, mu, metaTasks, tasks, round>>,
         from \notin {"none", "end", "add"}, to \notin {"none", "timer"},
         from = "finish" => to = "end",
         to \in {"dim", "arm", "add"} => t[1] = "screenBlack"
  PROVE  PlanInv'
<1>1. cb' \in [Task -> Callback] /\ cb[t] = from /\ cb'[t] = to
      /\ \A u \in Task : u # t => cb'[u] = cb[u]
  BY DEF CbStep, PlanInv, PTypes
<1>2. PTypes' /\ HoldsLock'
  BY <1>1 DEF PlanInv, PTypes, HoldsLock
<1>3. CancelledStopped'
  BY <1>1 DEF PlanInv, CancelledStopped
<1>4. PeriodsBegun'
  BY <1>1 DEF PlanInv, PeriodsBegun
<1>5. RegisteredLast'
  <2> SUFFICES ASSUME NEW n \in 1..MaxIdle, BlackFull(n) \in tasks
               PROVE  cb'[Black(n)] \in {"finish", "end"}
    BY DEF RegisteredLast
  <2>1. cb[Black(n)] \in {"finish", "end"} /\ Black(n) \in Task
    BY PeriodTask DEF PlanInv, RegisteredLast
  <2> QED
    BY <1>1, <2>1
<1>6. OnlyBlackArms'
  BY <1>1 DEF PlanInv, OnlyBlackArms
<1>7. NoLostTimer'
  <2> SUFFICES ASSUME NEW u \in Task, cb'[u] = "timer"
               PROVE  \/ u \in tasks
                      \/ u[1] = "screenFullBlack" /\ cb'[Black(u[2])] = "add"
    BY DEF NoLostTimer, Black
  <2>1. cb[u] = "timer"
    BY <1>1
  <2>2. u \in tasks \/ (u[1] = "screenFullBlack" /\ cb[Black(u[2])] = "add")
    BY <2>1 DEF PlanInv, NoLostTimer, Black
  <2>3. Black(u[2]) \in Task
    BY TaskPair, PeriodTask
  <2> QED
    BY <1>1, <2>2, <2>3
<1> QED
  BY <1>2, <1>3, <1>4, <1>5, <1>6, <1>7 DEF PlanInv

\* A step of a thread that goes on, with the lock as before, when it is not
\* about to cancel or to wait.
LEMMA QuietThread ==
  ASSUME PlanInv, NEW p \in Thread, NEW to \in ThreadState \ {"cancel", "wait"},
         thread' = [thread EXCEPT ![p] = to], UNCHANGED <<cb, left, metaTasks, tasks, round>>,
         \/ UNCHANGED mu /\ (to \in LockedState => thread[p] \in LockedState)
         \/ thread[p] \in LockedState /\ to \notin LockedState
  PROVE  PlanInv'
<1>1. thread' \in [Thread -> ThreadState] /\ thread'[p] = to
      /\ \A q \in Thread : q # p => thread'[q] = thread[q]
  BY DEF PlanInv, PTypes
<1>2. PTypes'
  BY <1>1 DEF PlanInv, PTypes
<1>3. HoldsLock'
  BY <1>1 DEF PlanInv, HoldsLock
<1>4. CancelledStopped'
  <2> SUFFICES ASSUME NEW q \in Thread, NEW t \in Task, t \in tasks, cb[t] = "timer"
               PROVE  (thread'[q] = "cancel" => t \in left[q]) /\ thread'[q] # "wait"
    BY DEF CancelledStopped
  <2> QED
    BY <1>1 DEF PlanInv, CancelledStopped
<1> QED
  BY <1>2, <1>3, <1>4 DEF PlanInv, PeriodsBegun, RegisteredLast, OnlyBlackArms, NoLostTimer

\* psp.mu is taken: all tasks are still to be cancelled.
LEMMA LockInv ==
  ASSUME PlanInv, NEW p \in Thread, Lock(p), UNCHANGED <<cb, metaTasks, tasks, round>>
  PROVE  PlanInv'
<1>1. thread' \in [Thread -> ThreadState] /\ thread'[p] = "cancel"
      /\ \A q \in Thread : q # p => thread'[q] = thread[q]
  BY DEF PlanInv, PTypes, Lock, ThreadState
<1>2. left' \in [Thread -> SUBSET (Kind \X Nat)] /\ left'[p] = tasks
      /\ \A q \in Thread : q # p => left'[q] = left[q]
  BY DEF PlanInv, PTypes, Lock
<1>3. \A q \in Thread : thread[q] \notin LockedState
  BY DEF PlanInv, HoldsLock, Lock, Thread
<1>4. PTypes'
  BY <1>1, <1>2 DEF PlanInv, PTypes
<1>5. HoldsLock'
  BY <1>1, <1>3 DEF HoldsLock, Lock
<1>6. CancelledStopped'
  <2> SUFFICES ASSUME NEW q \in Thread, NEW t \in Task, t \in tasks, cb[t] = "timer"
               PROVE  (thread'[q] = "cancel" => t \in left'[q]) /\ thread'[q] # "wait"
    BY DEF CancelledStopped
  <2>1. CASE q = p
    BY <2>1, <1>1, <1>2
  <2>2. CASE q # p
    BY <2>2, <1>1, <1>3 DEF LockedState
  <2> QED
    BY <2>1, <2>2
<1> QED
  BY <1>4, <1>5, <1>6 DEF PlanInv, PeriodsBegun, RegisteredLast, OnlyBlackArms, NoLostTimer

-----------------------------------------------------------------------------
(* The steps that disturb the invariant: cancelling, waiting, arming.      *)

LEMMA CancelInv ==
  ASSUME PlanInv, NEW p \in Thread, NEW t \in Task, Cancel(p, t)
  PROVE  PlanInv'
<1>1. UNCHANGED <<thread, mu, metaTasks, tasks, round>>
  BY DEF Cancel, planVars
<1>2. left' \in [Thread -> SUBSET (Kind \X Nat)] /\ left'[p] = left[p] \ {t}
      /\ \A q \in Thread : q # p => left'[q] = left[q]
  BY DEF Cancel, PlanInv, PTypes
<1>3. cb' \in [Task -> Callback] /\ cb'[t] # "timer" /\ (cb'[t] = cb[t] \/ (cb[t] = "timer" /\ cb'[t] = "stopped"))
      /\ \A u \in Task : u # t => cb'[u] = cb[u]
  BY DEF Cancel, PlanInv, PTypes, Callback
<1>4. PTypes' /\ HoldsLock'
  BY <1>1, <1>2, <1>3 DEF PlanInv, PTypes, HoldsLock
<1>5. CancelledStopped'
  <2> SUFFICES ASSUME NEW q \in Thread, NEW u \in Task, u \in tasks, cb'[u] = "timer"
               PROVE  (thread[q] = "cancel" => u \in left'[q]) /\ thread[q] # "wait"
    BY <1>1 DEF CancelledStopped
  <2>1. u # t /\ cb[u] = "timer"
    BY <1>3
  <2>2. (thread[q] = "cancel" => u \in left[q]) /\ thread[q] # "wait"
    BY <2>1 DEF PlanInv, CancelledStopped
  <2> QED
    BY <2>1, <2>2, <1>2
<1>6. PeriodsBegun' /\ OnlyBlackArms'
  BY <1>1, <1>3 DEF PlanInv, PeriodsBegun, OnlyBlackArms
<1>7. RegisteredLast'
  <2> SUFFICES ASSUME NEW n \in 1..MaxIdle, BlackFull(n) \in tasks
               PROVE  cb'[Black(n)] \in {"finish", "end"}
    BY <1>1 DEF RegisteredLast
  <2>1. cb[Black(n)] \in {"finish", "end"} /\ Black(n) \in Task
    BY PeriodTask DEF PlanInv, RegisteredLast
  <2> QED
    BY <1>3, <2>1
<1>8. NoLostTimer'
  <2> SUFFICES ASSUME NEW u \in Task, cb'[u] = "timer"
               PROVE  u \in tasks \/ (u[1] = "screenFullBlack" /\ cb'[Black(u[2])] = "add")
    BY <1>1 DEF NoLostTimer, Black
  <2>1. u \in tasks \/ (u[1] = "screenFullBlack" /\ cb[Black(u[2])] = "add")
    BY <1>3 DEF PlanInv, NoLostTimer, Black
  <2>2. Black(u[2]) \in Task
    BY TaskPair, PeriodTask
  <2> QED
    BY <1>3, <2>1, <2>2
<1> QED
  BY <1>4, <1>5, <1>6, <1>7, <1>8 DEF PlanInv

LEMMA CancelAllDoneInv ==
  ASSUME PlanInv, NEW p \in Thread, CancelAllDone(p)
  PROVE  PlanInv'
<1>1. UNCHANGED <<cb, left, mu, metaTasks, tasks, round>>
  BY DEF CancelAllDone, planVars, taskVars
<1>2. thread' \in [Thread -> ThreadState] /\ thread[p] = "cancel" /\ thread'[p] = "wait" /\ left[p] = {}
      /\ \A q \in Thread : q # p => thread'[q] = thread[q]
  BY DEF CancelAllDone, PlanInv, PTypes, ThreadState
<1>3. PTypes' /\ HoldsLock'
  BY <1>1, <1>2 DEF PlanInv, PTypes, HoldsLock, LockedState
<1>4. CancelledStopped'
  <2> SUFFICES ASSUME NEW q \in Thread, NEW u \in Task, u \in tasks, cb[u] = "timer"
               PROVE  (thread'[q] = "cancel" => u \in left[q]) /\ thread'[q] # "wait"
    BY <1>1 DEF CancelledStopped
  <2>1. \A r \in Thread : (thread[r] = "cancel" => u \in left[r]) /\ thread[r] # "wait"
    BY DEF PlanInv, CancelledStopped
  <2> QED
    BY <2>1, <1>2
<1> QED
  BY <1>1, <1>3, <1>4 DEF PlanInv, PeriodsBegun, RegisteredLast, OnlyBlackArms, NoLostTimer

\* The list is dropped when nothing in it has a timer.
LEMMA WaitInv ==
  ASSUME PlanInv, NEW p \in Thread, Wait(p)
  PROVE  PlanInv'
<1>1. UNCHANGED <<cb, left, mu, metaTasks, round>> /\ tasks' = {}
  BY DEF Wait, planVars
<1>2. thread' \in [Thread -> ThreadState] /\ thread[p] = "wait" /\ thread'[p] \in {"plan", "dpms"}
      /\ \A q \in Thread : q # p => thread'[q] = thread[q]
  BY DEF Wait, PlanInv, PTypes, ThreadState
<1>3. PTypes' /\ HoldsLock'
  BY <1>1, <1>2 DEF PlanInv, PTypes, HoldsLock, LockedState
<1>4. CancelledStopped' /\ PeriodsBegun' /\ RegisteredLast' /\ OnlyBlackArms'
  BY <1>1 DEF PlanInv, CancelledStopped, PeriodsBegun, RegisteredLast, OnlyBlackArms
<1>5. NoLostTimer'
  <2> SUFFICES ASSUME NEW u \in Task, cb[u] = "timer"
               PROVE  u[1] = "screenFullBlack" /\ cb[<<"screenBlack", u[2]>>] = "add"
    BY <1>1 DEF NoLostTimer
  <2>1. u \notin tasks
    BY <1>2 DEF PlanInv, CancelledStopped
  <2> QED
    BY <2>1 DEF PlanInv, NoLostTimer
<1> QED
  BY <1>3, <1>4, <1>5 DEF PlanInv

\* The timers of a new idle period, registered before psp.mu is free again.
LEMMA IdleOnInv ==
  ASSUME PlanInv, NEW ignored \in BOOLEAN, HandleIdleOn(ignored)
  PROVE  PlanInv'
<1>1. UNCHANGED <<mu, thread, left, metaTasks>> /\ mu = "free"
  BY DEF HandleIdleOn, lockVars
<1>2. CASE ignored \/ prepareSuspend > Finish
  <2>1. UNCHANGED <<cb, tasks, round>>
    BY <1>2 DEF HandleIdleOn, taskVars
  <2> QED
    BY <1>1, <2>1, QuietStep
<1>3. CASE ~(ignored \/ prepareSuspend > Finish)
  <2> DEFINE new == metaTasks \X {round + 1}
  <2>1. /\ round' = round + 1 /\ tasks' = tasks \cup new
        /\ cb' = [t \in Task |-> IF t \in new THEN "timer" ELSE cb[t]]
    BY <1>3 DEF HandleIdleOn
  <2>2. round \in Nat /\ metaTasks \subseteq MetaKind /\ cb \in [Task -> Callback]
    BY DEF PlanInv, PTypes
  <2>3. \A t \in new : t[1] \in MetaKind /\ t[2] = round + 1 /\ t \in Kind \X Nat
    BY <2>2 DEF Kind
  <2>4. \A q \in Thread : thread[q] \notin LockedState
    BY <1>1 DEF PlanInv, HoldsLock, Thread
  <2>5. \A t \in Task : t[2] = round + 1 => cb[t] = "none"
    <3> SUFFICES ASSUME NEW t \in Task, t[2] = round + 1 PROVE cb[t] = "none"
      OBVIOUS
    <3>1. t[2] > round
      BY <2>2
    <3> QED
      BY <3>1 DEF PlanInv, PeriodsBegun
  <2>6. PTypes'
    <3>1. cb' \in [Task -> Callback]
      BY <2>1, <2>2 DEF Callback
    <3>2. tasks' \subseteq Kind \X Nat
      BY <2>1, <2>3 DEF PlanInv, PTypes
    <3> QED
      BY <1>1, <2>1, <2>2, <3>1, <3>2 DEF PlanInv, PTypes
  <2>7. HoldsLock'
    BY <1>1 DEF PlanInv, HoldsLock
  <2>8. CancelledStopped'
    BY <1>1, <2>4 DEF CancelledStopped, LockedState
  <2>9. PeriodsBegun'
    <3>1. \A t \in tasks' : t[2] <= round'
      <4> SUFFICES ASSUME NEW t \in tasks' PROVE t[2] <= round'
        OBVIOUS
      <4>1. CASE t \in new
        BY <4>1, <2>1, <2>2, <2>3
      <4>2. CASE t \in tasks
        <5>1. t[2] \in Nat /\ t[2] <= round
          BY <4>2 DEF PlanInv, PTypes, PeriodsBegun
        <5> QED
          BY <5>1, <2>1, <2>2
      <4> QED
        BY <4>1, <4>2, <2>1
    <3>2. ASSUME NEW t \in Task, t[2] > round' PROVE cb'[t] = "none"
      <4>1. t[2] \in Nat /\ t[2] > round /\ t[2] # round + 1
        BY <3>2, <2>1, <2>2, TaskPair
      <4>2. t \notin new
        BY <4>1, <2>3
      <4> QED
        BY <4>1, <4>2, <2>1 DEF PlanInv, PeriodsBegun
    <3> QED
      BY <3>1, <3>2 DEF PeriodsBegun
  <2>10. RegisteredLast'
    <3> SUFFICES ASSUME NEW n \in 1..MaxIdle, BlackFull(n) \in tasks'
                 PROVE  cb'[Black(n)] \in {"finish", "end"}
      BY DEF RegisteredLast
    <3>1. BlackFull(n) \notin new
      BY <2>3, PeriodTask DEF MetaKind
    <3>2. BlackFull(n) \in tasks
      BY <3>1, <2>1
    <3>3. cb[Black(n)] \in {"finish", "end"} /\ Black(n) \in Task
      BY <3>2, PeriodTask DEF PlanInv, RegisteredLast
    <3>4. Black(n) \notin new
      BY <3>3, <2>3, <2>5
    <3> QED
      BY <3>3, <3>4, <2>1
  <2>11. OnlyBlackArms'
    BY <2>1 DEF PlanInv, OnlyBlackArms
  <2>12. NoLostTimer'
    <3> SUFFICES ASSUME NEW u \in Task, cb'[u] = "timer"
                 PROVE  u \in tasks' \/ (u[1] = "screenFullBlack" /\ cb'[Black(u[2])] = "add")
      BY DEF NoLostTimer, Black
    <3>1. CASE u \in new
      BY <3>1, <2>1
    <3>2. CASE u \notin new
      <4>1. u \in tasks \/ (u[1] = "screenFullBlack" /\ cb[Black(u[2])] = "add")
        BY <3>2, <2>1 DEF PlanInv, NoLostTimer, Black
      <4>2. Black(u[2]) \in Task
        BY TaskPair, PeriodTask
      <4>3. cb[Black(u[2])] = "add" => Black(u[2]) \notin new
        BY <4>2, <2>3, <2>5
      <4> QED
        BY <4>1, <4>2, <4>3, <2>1
    <3> QED
      BY <3>1, <3>2
  <2> QED
    BY <2>6, <2>7, <2>8, <2>9, <2>10, <2>11, <2>12 DEF PlanInv
<1> QED
  BY <1>2, <1>3

\* screenBlack starts the timer of screenFullBlack before it registers it.
LEMMA ArmInv ==
  ASSUME PlanInv, NEW t \in Task, ArmFullBlack(t)
  PROVE  PlanInv'
<1> DEFINE f == BlackFull(t[2])
           n == t[2]
<1>1. UNCHANGED <<thread, mu, left, metaTasks, tasks, round>>
  BY DEF ArmFullBlack, cbRest, lockVars, planVars
<1>2. t[1] = "screenBlack" /\ n \in 1..MaxIdle /\ f \in Task /\ t # f /\ t = Black(n) /\ f[2] = n
      /\ f[1] = "screenFullBlack" /\ FullBlack(t) = f
  BY TaskPair, PeriodTask DEF ArmFullBlack, PlanInv, OnlyBlackArms
<1>3. cb[t] = "arm" /\ cb' \in [Task -> Callback] /\ cb'[t] = "add" /\ cb'[f] = "timer"
      /\ \A u \in Task : u # t /\ u # f => cb'[u] = cb[u]
  BY <1>2 DEF ArmFullBlack, PlanInv, PTypes, Callback
<1>4. f \notin tasks
  BY <1>2, <1>3 DEF PlanInv, RegisteredLast
<1>5. PTypes' /\ HoldsLock'
  BY <1>1, <1>3 DEF PlanInv, PTypes, HoldsLock
<1>6. CancelledStopped'
  <2> SUFFICES ASSUME NEW q \in Thread, NEW u \in Task, u \in tasks, cb'[u] = "timer"
               PROVE  (thread[q] = "cancel" => u \in left[q]) /\ thread[q] # "wait"
    BY <1>1 DEF CancelledStopped
  <2>1. cb[u] = "timer"
    BY <1>3, <1>4
  <2> QED
    BY <2>1 DEF PlanInv, CancelledStopped
<1>7. PeriodsBegun'
  <2>1. n \in Nat /\ round \in Nat /\ ~(n > round)
    BY <1>2, <1>3 DEF PlanInv, PTypes, PeriodsBegun
  <2>2. ASSUME NEW u \in Task, u[2] > round PROVE cb'[u] = "none"
    <3>1. u # t /\ u # f
      BY <2>1, <2>2, <1>2
    <3> QED
      BY <3>1, <2>2, <1>3 DEF PlanInv, PeriodsBegun
  <2> QED
    BY <1>1, <2>2 DEF PlanInv, PeriodsBegun
<1>8. RegisteredLast'
  <2> SUFFICES ASSUME NEW m \in 1..MaxIdle, BlackFull(m) \in tasks
               PROVE  cb'[Black(m)] \in {"finish", "end"}
    BY <1>1 DEF RegisteredLast
  <2>1. cb[Black(m)] \in {"finish", "end"} /\ Black(m) \in Task /\ Black(m)[1] = "screenBlack"
    BY PeriodTask DEF PlanInv, RegisteredLast
  <2>2. Black(m) # t /\ Black(m) # f
    BY <2>1, <1>2, <1>3
  <2> QED
    BY <2>1, <2>2, <1>3
<1>9. OnlyBlackArms'
  BY <1>2, <1>3 DEF PlanInv, OnlyBlackArms
<1>10. NoLostTimer'
  <2> SUFFICES ASSUME NEW u \in Task, cb'[u] = "timer"
               PROVE  u \in tasks \/ (u[1] = "screenFullBlack" /\ cb'[Black(u[2])] = "add")
    BY <1>1 DEF NoLostTimer, Black
  <2>1. CASE u = f
    BY <2>1, <1>2, <1>3
  <2>2. CASE u # f
    <3>1. cb[u] = "timer"
      BY <2>2, <1>3
    <3>2. u \in tasks \/ (u[1] = "screenFullBlack" /\ cb[Black(u[2])] = "add")
      BY <3>1 DEF PlanInv, NoLostTimer, Black
    <3>3. Black(u[2]) \in Task /\ Black(u[2])[1] = "screenBlack"
      BY TaskPair, PeriodTask
    <3>4. Black(u[2]) # f
      BY <3>3, <1>2
    <3> QED
      BY <3>2, <3>3, <3>4, <1>3
  <2> QED
    BY <2>1, <2>2
<1> QED
  BY <1>5, <1>6, <1>7, <1>8, <1>9, <1>10 DEF PlanInv

\* ... and registers it when psp.mu is free.
LEMMA AddTaskInv ==
  ASSUME PlanInv, NEW t \in Task, AddTask(t)
  PROVE  PlanInv'
<1> DEFINE f == BlackFull(t[2])
           n == t[2]
<1>1. UNCHANGED <<thread, mu, left, metaTasks, round>> /\ mu = "free"
  BY DEF AddTask, cbRest, lockVars, planVars
<1>2. t[1] = "screenBlack" /\ n \in 1..MaxIdle /\ f \in Task /\ t = Black(n) /\ f[2] = n
      /\ FullBlack(t) = f /\ f \in Kind \X Nat
  BY TaskPair, PeriodTask DEF AddTask, CbStep, PlanInv, OnlyBlackArms
<1>3. cb[t] = "add" /\ cb' \in [Task -> Callback] /\ cb'[t] = "finish"
      /\ \A u \in Task : u # t => cb'[u] = cb[u]
  BY DEF AddTask, CbStep, PlanInv, PTypes, Callback
<1>4. tasks' = tasks \cup {f}
  BY <1>2 DEF AddTask
<1>5. \A q \in Thread : thread[q] \notin LockedState
  BY <1>1 DEF PlanInv, HoldsLock, Thread
<1>6. PTypes' /\ HoldsLock'
  BY <1>1, <1>2, <1>3, <1>4 DEF PlanInv, PTypes, HoldsLock
<1>7. CancelledStopped'
  BY <1>1, <1>5 DEF CancelledStopped, LockedState
<1>8. PeriodsBegun'
  <2>1. n \in Nat /\ round \in Nat /\ n <= round
    BY <1>2, <1>3 DEF PlanInv, PTypes, PeriodsBegun
  <2>2. \A u \in tasks' : u[2] <= round
    BY <2>1, <1>2, <1>4 DEF PlanInv, PeriodsBegun
  <2>3. ASSUME NEW u \in Task, u[2] > round PROVE cb'[u] = "none"
    BY <2>1, <2>3, <1>3 DEF PlanInv, PeriodsBegun
  <2> QED
    BY <1>1, <2>2, <2>3 DEF PeriodsBegun
<1>9. RegisteredLast'
  <2> SUFFICES ASSUME NEW m \in 1..MaxIdle, BlackFull(m) \in tasks'
               PROVE  cb'[Black(m)] \in {"finish", "end"}
    BY DEF RegisteredLast
  <2>1. CASE BlackFull(m) = f
    <3>1. m = n
      BY <2>1, <1>2, PeriodTask
    <3> QED
      BY <3>1, <1>2, <1>3
  <2>2. CASE BlackFull(m) \in tasks
    <3>1. cb[Black(m)] \in {"finish", "end"} /\ Black(m) \in Task
      BY <2>2, PeriodTask DEF PlanInv, RegisteredLast
    <3> QED
      BY <3>1, <1>3
  <2> QED
    BY <2>1, <2>2, <1>4
<1>10. OnlyBlackArms'
  BY <1>3 DEF PlanInv, OnlyBlackArms
<1>11. NoLostTimer'
  <2> SUFFICES ASSUME NEW u \in Task, cb'[u] = "timer"
               PROVE  u \in tasks' \/ (u[1] = "screenFullBlack" /\ cb'[Black(u[2])] = "add")
    BY DEF NoLostTimer, Black
  <2>1. u # t /\ cb[u] = "timer"
    BY <1>3
  <2>2. u \in tasks \/ (u[1] = "screenFullBlack" /\ cb[Black(u[2])] = "add")
    BY <2>1 DEF PlanInv, NoLostTimer, Black
  <2>3. Black(u[2]) \in Task /\ u = <<u[1], u[2]>> /\ u[2] \in 1..MaxIdle
    BY TaskPair, PeriodTask
  <2>4. CASE u[1] = "screenFullBlack" /\ Black(u[2]) = t
    <3>1. u[2] = n
      BY <2>3, <2>4, PeriodTask
    <3>2. u = f
      BY <3>1, <2>3, <2>4 DEF BlackFull
    <3> QED
      BY <3>2, <1>4
  <2>5. CASE ~(u[1] = "screenFullBlack" /\ Black(u[2]) = t)
    BY <2>2, <2>3, <2>5, <1>3, <1>4
  <2> QED
    BY <2>4, <2>5
<1> QED
  BY <1>6, <1>7, <1>8, <1>9, <1>10, <1>11 DEF PlanInv

-----------------------------------------------------------------------------
(* All the steps.                                                          *)

LEMMA ThreadStepInv ==
  ASSUME PlanInv, NEW p \in Thread, ThreadStep(p)
  PROVE  PlanInv'
<1> USE DEF LockedState, ThreadState
<1>1. ASSUME NEW t \in Task, Cancel(p, t) PROVE PlanInv'
  BY <1>1, CancelInv
<1>2. CASE CancelAllDone(p)
  BY <1>2, CancelAllDoneInv
<1>3. CASE Wait(p)
  BY <1>3, WaitInv
<1>4. CASE p = "settings" /\ Replan
  <2>1. thread[p] = "plan" /\ mu' = "free" /\ thread' = [thread EXCEPT ![p] = "idle"]
        /\ UNCHANGED <<left, cb, tasks, round>>
    BY <1>4 DEF Replan, Unlock, taskVars
  <2>2. metaTasks' \subseteq MetaKind
    BY <1>4 DEF Replan, MetaTasks
  <2>3. thread' \in [Thread -> ThreadState] /\ thread'[p] = "idle" /\ mu = p
        /\ \A q \in Thread : q # p => thread'[q] = thread[q]
    BY <2>1 DEF PlanInv, PTypes, HoldsLock
  <2>4. PTypes'
    BY <2>1, <2>2, <2>3 DEF PlanInv, PTypes
  <2>5. HoldsLock' /\ CancelledStopped'
    BY <2>1, <2>3 DEF PlanInv, HoldsLock, CancelledStopped
  <2> QED
    BY <2>1, <2>4, <2>5 DEF PlanInv, PeriodsBegun, RegisteredLast, OnlyBlackArms, NoLostTimer
<1>5. CASE SetDPMSModeOn(p)
  <2>1. thread[p] = "dpms" /\ thread' = [thread EXCEPT ![p] = "brightness"]
        /\ UNCHANGED <<mu, cb, left, metaTasks, tasks, round>>
    BY <1>5 DEF SetDPMSModeOn, planVars, taskVars
  <2> QED
    BY <2>1, QuietThread
<1>6. CASE ResetBrightness(p)
  <2>1. PICK to \in {"clear", "keep"} : thread[p] = "brightness" /\ thread' = [thread EXCEPT ![p] = to]
        /\ UNCHANGED <<mu, cb, left, metaTasks, tasks, round>>
    BY <1>6 DEF ResetBrightness, planVars, taskVars
  <2> QED
    BY <2>1, QuietThread
<1>7. CASE ForgetBrightness(p)
  <2>1. PICK to \in {"woken", "idle"} :
           thread[p] \in {"clear", "keep"} /\ thread' = [thread EXCEPT ![p] = to]
           /\ UNCHANGED <<cb, left, metaTasks, tasks, round>>
    BY <1>7 DEF ForgetBrightness, Unlock, planVars, taskVars
  <2> QED
    BY <2>1, QuietThread
<1>8. ASSUME NEW i \in BOOLEAN, HandleIdleOn(i) PROVE PlanInv'
  BY <1>8, IdleOnInv
<1>9. ASSUME NEW to \in {"idle", "woken"}, IdleOffBegin(p, to), UNCHANGED <<cb, metaTasks, tasks, round>>
      PROVE  PlanInv'
  <2>1. CASE prepareSuspend >= Prepare
    <3>1. thread' = [thread EXCEPT ![p] = to] /\ UNCHANGED <<mu, left>>
      BY <1>9, <2>1 DEF IdleOffBegin
    <3> QED
      BY <1>9, <3>1, QuietThread
  <2>2. CASE ~(prepareSuspend >= Prepare)
    BY <1>9, <2>2, LockInv DEF IdleOffBegin
  <2> QED
    BY <2>1, <2>2
<1>10. CASE p = "session" /\ HandleIdleOff
  BY <1>9, <1>10 DEF HandleIdleOff, planVars, taskVars
<1>11. CASE p = "login" /\ WakeupIdleOff
  BY <1>9, <1>11 DEF WakeupIdleOff, planVars, taskVars
<1>12. CASE p = "login" /\ WakeupDPMSOn
  <2>1. thread[p] = "woken" /\ thread' = [thread EXCEPT ![p] = "idle"]
        /\ UNCHANGED <<mu, cb, left, metaTasks, tasks, round>>
    BY <1>12 DEF WakeupDPMSOn, planVars, taskVars
  <2> QED
    BY <2>1, QuietThread
<1> QED
  BY <1>1, <1>2, <1>3, <1>4, <1>5, <1>6, <1>7, <1>8, <1>10, <1>11, <1>12 DEF ThreadStep

LEMMA CallbackStepInv ==
  ASSUME PlanInv, NEW t \in Task, Expire(t) \/ CallbackStep(t)
  PROVE  PlanInv'
<1> USE DEF Callback, cbRest, lockVars, planVars
<1>1. CASE Expire(t)
  BY <1>1, QuietCallback DEF Expire
<1>2. CASE Run(t)
  BY <1>2, QuietCallback DEF Run
<1>3. CASE StartScreensaver(t)
  BY <1>3, QuietCallback DEF StartScreensaver
<1>4. CASE LockScreen(t)
  BY <1>4, QuietCallback DEF LockScreen
<1>5. CASE MakeSystemSleep(t)
  BY <1>5, QuietCallback DEF MakeSystemSleep
<1>6. ASSUME NEW enabled \in BOOLEAN, SaveBrightness(t, enabled) PROVE PlanInv'
  <2>1. PICK to \in {"dim", "arm"} : CbStep(t, "run", to)
    BY <1>6 DEF SaveBrightness
  <2>2. t[1] = "screenBlack" /\ UNCHANGED <<thread, left, mu, metaTasks, tasks, round>>
    BY <1>6 DEF SaveBrightness
  <2> QED
    BY <2>1, <2>2, QuietCallback
<1>7. CASE Dim(t)
  <2>1. t[1] = "screenBlack"
    BY <1>7 DEF Dim, CbStep, PlanInv, OnlyBlackArms
  <2> QED
    BY <1>7, <2>1, QuietCallback DEF Dim
<1>8. CASE ArmFullBlack(t)
  BY <1>8, ArmInv
<1>9. CASE AddTask(t)
  BY <1>9, AddTaskInv
<1>10. CASE ReadTable(t)
  BY <1>10, QuietCallback DEF ReadTable
<1>11. CASE SetMinimum(t)
  BY <1>11, QuietCallback DEF SetMinimum
<1>12. CASE SetDPMSModeOff(t)
  BY <1>12, QuietCallback DEF SetDPMSModeOff
<1>13. CASE CallbackEnd(t)
  BY <1>13, QuietCallback DEF CallbackEnd
<1> QED
  BY <1>1, <1>2, <1>3, <1>4, <1>5, <1>6, <1>7, <1>8, <1>9, <1>10, <1>11, <1>12, <1>13 DEF CallbackStep

LEMMA PlanNextInv == PlanInv /\ [PlanNext]_pspVars => PlanInv'
<1> SUFFICES ASSUME PlanInv, [PlanNext]_pspVars PROVE PlanInv'
  OBVIOUS
<1>1. CASE \/ UserIdle \/ UserActive \/ HandleBeforeSuspend
            \/ \E v \in {Finish, ButtonClick} : SetPrepareSuspend(v)
  BY <1>1, QuietStep
     DEF UserIdle, UserActive, HandleBeforeSuspend, SetPrepareSuspend, lockVars, planVars, taskVars
<1>2. CASE HandleWakeup
  <2>1. thread["login"] = "idle" /\ thread' = [thread EXCEPT !["login"] = "wake"]
        /\ UNCHANGED <<mu, cb, left, metaTasks, tasks, round>>
    BY <1>2 DEF HandleWakeup, planVars, taskVars
  <2> QED
    BY <2>1, QuietThread DEF Thread, ThreadState, LockedState
<1>3. CASE UpdateBegin
  <2>1. Lock("settings") /\ UNCHANGED <<cb, metaTasks, tasks, round>>
    BY <1>3 DEF UpdateBegin, planVars, taskVars
  <2> QED
    BY <2>1, LockInv DEF Thread
<1>4. ASSUME NEW p \in Thread, ThreadStep(p) PROVE PlanInv'
  BY <1>4, ThreadStepInv
<1>5. ASSUME NEW t \in Task, Expire(t) \/ CallbackStep(t) PROVE PlanInv'
  BY <1>5, CallbackStepInv
<1>6. CASE UNCHANGED pspVars
  BY <1>6, QuietStep DEF pspVars, lockVars, planVars, taskVars
<1> QED
  BY <1>1, <1>2, <1>3, <1>4, <1>5, <1>6 DEF PlanNext

(* A timer that can still expire is one that the next cancelling finds, or *)
(* one that its creator is about to register: HandleIdleOn, screenBlack    *)
(* and interruptTasks of power_save_plan.go lose none, in whatever order   *)
(* signals, settings, suspends and callbacks come.                         *)
THEOREM TimersNeverLost == PlanSpec => []NoLostTimer
<1>1. PlanSpec => []PlanInv
  BY PlanInitInv, PlanNextInv, PTL DEF PlanSpec
<1>2. PlanInv => NoLostTimer
  BY DEF PlanInv
<1> QED
  BY <1>1, <1>2, PTL

-----------------------------------------------------------------------------
(* The display after an idle-off.                                          *)
OffThread == {"session", "login"}
Quiet     == {"none", "stopped", "end"}
AllQuiet  == \A t \in Task : cb[t] \in Quiet

\* What an idle-off has still to reach: the tasks whose timer or callback is
\* not over are in its list, unless screenBlack waits for psp.mu, in the list
\* too, and the idle-off will meet it.
WillMeet(p) == \E n \in 1..MaxIdle : Black(n) \in left[p] /\ cb[Black(n)] = "add"
CancelReaches ==
  \A p \in OffThread : thread[p] = "cancel" =>
     WillMeet(p) \/ \A t \in Task : cb[t] \in Quiet \/ t \in left[p]

\* Once all are cancelled nothing is left that could touch the display.
CancelledQuiet ==
  \A p \in OffThread :
     /\ thread[p] \in {"wait", "dpms", "brightness", "clear", "keep"} => AllQuiet
     /\ thread[p] \in {"brightness", "clear", "keep"} => dpms = "on"
     /\ thread[p] \in {"clear", "keep"} => brightness = "user"
     /\ thread[p] = "keep" => oldBrightness = "nil"

SettledQuiet ==
  settled => AllQuiet /\ dpms = "on" /\ brightness = "user" /\ oldBrightness = "nil"

\* The user's level is the display's or the saved one; screenFullBlack sets
\* the minimum only while a level is saved.
LevelSaved ==
  /\ oldBrightness = "nil" => brightness = "user"
  /\ oldBrightness # "nil" => oldBrightness = "user"

TableSaved == \A t \in Task : cb[t] = "set" /\ adjust[t] => oldBrightness # "nil"

SettingsPath == thread["settings"] \in {"idle", "cancel", "wait", "plan"} /\ DOMAIN adjust = Task

RestoreInv ==
  /\ SettingsPath
  /\ ~raced => CancelReaches /\ CancelledQuiet /\ SettledQuiet /\ LevelSaved /\ TableSaved

LEMMA RestoreInit == PlanInit => RestoreInv
BY DEF PlanInit, RestoreInv, SettingsPath, CancelReaches, CancelledQuiet, SettledQuiet, LevelSaved,
       TableSaved, Thread, OffThread

\* Steps that touch neither the threads nor the tasks nor the display.
LEMMA RestoreStays ==
  ASSUME RestoreInv, UNCHANGED <<thread, left, cb, adjust, screenVars, raced>>,
         settled' => settled
  PROVE  RestoreInv'
BY DEF RestoreInv, SettingsPath, CancelReaches, CancelledQuiet, SettledQuiet, LevelSaved, TableSaved,
       AllQuiet, WillMeet, screenVars

\* A step of a callback, or a timer that expires.
LEMMA CallbackRestores ==
  ASSUME RestoreInv, NEW t \in Task, NEW from, NEW to, cb \in [Task -> Callback],
         CbStep(t, from, to), from \notin Quiet, UNCHANGED <<thread, left, raced, settled>>,
         DOMAIN adjust' = DOMAIN adjust,
         from = "add" => \A p \in OffThread : thread[p] # "cancel",
         ~raced => LevelSaved' /\ TableSaved'
  PROVE  RestoreInv'
<1>1. /\ cb[t] = from /\ \A u \in Task : u # t => cb'[u] = cb[u]
  BY DEF CbStep
<1> SUFFICES ASSUME ~raced PROVE CancelReaches' /\ CancelledQuiet' /\ SettledQuiet'
  BY DEF RestoreInv, SettingsPath
<1>2. ~AllQuiet
  BY <1>1 DEF AllQuiet
<1>3. ~settled /\ \A p \in OffThread : thread[p] \notin {"wait", "dpms", "brightness", "clear", "keep"}
  BY <1>2 DEF RestoreInv, SettledQuiet, CancelledQuiet
<1>4. CancelReaches'
  <2> SUFFICES ASSUME NEW p \in OffThread, thread[p] = "cancel"
               PROVE  WillMeet(p)' \/ \A u \in Task : cb'[u] \in Quiet \/ u \in left[p]
    BY DEF CancelReaches
  <2>1. CASE WillMeet(p)
    <3>1. PICK n \in 1..MaxIdle : Black(n) \in left[p] /\ cb[Black(n)] = "add"
      BY <2>1 DEF WillMeet
    <3>2. Black(n) \in Task /\ Black(n) # t
      BY <1>1, <3>1, PeriodTask
    <3> QED
      BY <1>1, <3>1, <3>2 DEF WillMeet
  <2>2. CASE ~WillMeet(p)
    <3>1. \A u \in Task : cb[u] \in Quiet \/ u \in left[p]
      BY <2>2 DEF RestoreInv, CancelReaches
    <3> QED
      BY <1>1, <3>1
  <2> QED
    BY <2>1, <2>2
<1> QED
  BY <1>3, <1>4 DEF CancelledQuiet, SettledQuiet

\* screenBlack has armed the next task and waits for psp.mu.
LEMMA ArmRestores ==
  ASSUME PlanInv, RestoreInv, NEW t \in Task, ArmFullBlack(t) PROVE RestoreInv'
<1> DEFINE f == BlackFull(t[2])
           n == t[2]
<1>1. UNCHANGED <<thread, left, raced, settled, oldBrightness, brightness, dpms>>
  BY DEF ArmFullBlack, cbRest, lockVars, histVars, screenVars
<1>2. n \in 1..MaxIdle /\ f \in Task /\ t # f /\ t = Black(n) /\ FullBlack(t) = f
  BY TaskPair, PeriodTask DEF ArmFullBlack, PlanInv, OnlyBlackArms
<1>3. /\ cb[t] = "arm" /\ cb'[t] = "add" /\ cb'[f] = "timer"
      /\ \A u \in Task : u # t /\ u # f => cb'[u] = cb[u]
  BY <1>2 DEF ArmFullBlack, PlanInv, PTypes
<1>4. DOMAIN adjust' = DOMAIN adjust /\ \A u \in Task : u # f => adjust'[u] = adjust[u]
  BY <1>2 DEF ArmFullBlack
<1> SUFFICES ASSUME ~raced PROVE CancelReaches' /\ CancelledQuiet' /\ SettledQuiet' /\ LevelSaved' /\ TableSaved'
  BY <1>1, <1>4 DEF RestoreInv, SettingsPath
<1>5. ~AllQuiet
  BY <1>3 DEF AllQuiet, Quiet
<1>6. ~settled /\ \A p \in OffThread : thread[p] \notin {"wait", "dpms", "brightness", "clear", "keep"}
  BY <1>5 DEF RestoreInv, SettledQuiet, CancelledQuiet
<1>7. CancelReaches'
  <2> SUFFICES ASSUME NEW p \in OffThread, thread[p] = "cancel" PROVE WillMeet(p)'
    BY <1>1 DEF CancelReaches
  <2>1. CASE WillMeet(p)
    <3>1. PICK m \in 1..MaxIdle : Black(m) \in left[p] /\ cb[Black(m)] = "add"
      BY <2>1 DEF WillMeet
    <3>2. Black(m) \in Task /\ Black(m) # t /\ Black(m) # f
      BY <1>2, <1>3, <3>1, PeriodTask
    <3> QED
      BY <1>1, <1>3, <3>1, <3>2 DEF WillMeet
  <2>2. CASE ~WillMeet(p)
    <3>1. t \in left[p]
      BY <1>3, <2>2 DEF RestoreInv, CancelReaches, Quiet
    <3> QED
      BY <1>1, <1>2, <1>3, <3>1 DEF WillMeet
  <2> QED
    BY <2>1, <2>2
<1>8. TableSaved'
  BY <1>1, <1>3, <1>4 DEF RestoreInv, TableSaved
<1> QED
  BY <1>1, <1>6, <1>7, <1>8 DEF RestoreInv, CancelledQuiet, SettledQuiet, LevelSaved

LEMMA CallbackStepRestores ==
  ASSUME PlanInv, RestoreInv, NEW t \in Task, Expire(t) \/ CallbackStep(t) PROVE RestoreInv'
<1>0. cb \in [Task -> Callback]
  BY DEF PlanInv, PTypes
<1>1. ASSUME NEW from, NEW to, CbStep(t, from, to), UNCHANGED <<thread, left, raced, settled>>,
             from \notin Quiet, from # "add", to # "set", UNCHANGED <<adjust, oldBrightness, brightness>>
      PROVE  RestoreInv'
  <2>1. \A u \in Task : cb'[u] = "set" => cb[u] = "set"
    BY <1>0, <1>1 DEF CbStep
  <2>2. ~raced => LevelSaved' /\ TableSaved'
    BY <1>1, <2>1 DEF RestoreInv, LevelSaved, TableSaved
  <2> QED
    BY <1>0, <1>1, <2>2, CallbackRestores
<1> USE DEF cbRest, lockVars, histVars, screenVars, Quiet
<1>2. CASE Expire(t)
  BY <1>1, <1>2 DEF Expire
<1>3. CASE Run(t)
  BY <1>1, <1>3 DEF Run
<1>4. CASE StartScreensaver(t)
  BY <1>1, <1>4 DEF StartScreensaver
<1>5. CASE LockScreen(t)
  BY <1>1, <1>5 DEF LockScreen
<1>6. CASE MakeSystemSleep(t)
  BY <1>1, <1>6 DEF MakeSystemSleep
<1>7. ASSUME NEW enabled \in BOOLEAN, SaveBrightness(t, enabled) PROVE RestoreInv'
  <2>1. PICK to \in {"dim", "arm"} : CbStep(t, "run", to)
    BY <1>7 DEF SaveBrightness
  <2>2. UNCHANGED <<thread, left, raced, settled, brightness>>
    BY <1>7 DEF SaveBrightness
  <2>3. oldBrightness' = oldBrightness \/ (oldBrightness = "nil" /\ oldBrightness' = brightness)
    BY <1>7 DEF SaveBrightness
  <2>4. \A u \in Task : cb'[u] = "set" => u # t /\ cb[u] = "set"
    BY <1>0, <2>1 DEF CbStep
  <2>5. DOMAIN adjust' = DOMAIN adjust /\ \A u \in Task : u # t => adjust'[u] = adjust[u]
    BY <1>7 DEF SaveBrightness
  <2>6. ~raced => LevelSaved' /\ TableSaved'
    BY <2>2, <2>3, <2>4, <2>5 DEF RestoreInv, LevelSaved, TableSaved
  <2> QED
    BY <1>0, <2>1, <2>2, <2>5, <2>6, CallbackRestores
<1>8. CASE Dim(t)
  <2>1. CbStep(t, "dim", "arm") /\ UNCHANGED <<thread, left, raced, settled, oldBrightness, adjust>>
    BY <1>8 DEF Dim
  <2>2. oldBrightness = "nil" => brightness' = brightness
    BY <1>8 DEF Dim
  <2>3. \A u \in Task : cb'[u] = "set" => cb[u] = "set"
    BY <1>0, <2>1 DEF CbStep
  <2>4. ~raced => LevelSaved' /\ TableSaved'
    BY <2>1, <2>2, <2>3 DEF RestoreInv, LevelSaved, TableSaved
  <2> QED
    BY <1>0, <2>1, <2>4, CallbackRestores
<1>9. CASE ArmFullBlack(t)
  BY <1>9, ArmRestores
<1>10. CASE AddTask(t)
  <2>1. /\ CbStep(t, "add", "finish") /\ mu = "free"
        /\ UNCHANGED <<thread, left, raced, settled, oldBrightness, brightness, adjust>>
    BY <1>10 DEF AddTask
  <2>2. \A p \in OffThread : thread[p] # "cancel"
    BY <2>1 DEF PlanInv, HoldsLock, LockedState, OffThread, Thread
  <2>3. \A u \in Task : cb'[u] = "set" => cb[u] = "set"
    BY <1>0, <2>1 DEF CbStep
  <2>4. ~raced => LevelSaved' /\ TableSaved'
    BY <2>1, <2>3 DEF RestoreInv, LevelSaved, TableSaved
  <2> QED
    BY <1>0, <2>1, <2>2, <2>4, CallbackRestores
<1>11. CASE ReadTable(t)
  <2>1. CbStep(t, "run", "set") /\ UNCHANGED <<thread, left, raced, settled, oldBrightness, brightness>>
    BY <1>11 DEF ReadTable
  <2>2. adjust' = [adjust EXCEPT ![t] = adjust[t] /\ oldBrightness # "nil"]
    BY <1>11 DEF ReadTable
  <2>3. \A u \in Task : adjust'[u] => u # t \/ oldBrightness # "nil"
    <3>1. CASE oldBrightness = "nil"
      <4>1. adjust' = [adjust EXCEPT ![t] = FALSE]
        BY <2>2, <3>1
      <4> QED
        BY <4>1 DEF RestoreInv, SettingsPath
    <3> QED
      BY <3>1
  <2>4. DOMAIN adjust' = DOMAIN adjust /\ \A u \in Task : u # t => adjust'[u] = adjust[u]
    BY <2>2
  <2>5. \A u \in Task : u # t => cb'[u] = cb[u]
    BY <2>1 DEF CbStep
  <2>6. ~raced => LevelSaved' /\ TableSaved'
    BY <2>1, <2>3, <2>4, <2>5 DEF RestoreInv, LevelSaved, TableSaved
  <2> QED
    BY <1>0, <2>1, <2>4, <2>6, CallbackRestores
<1>12. CASE SetMinimum(t)
  <2>1. CbStep(t, "set", "off") /\ UNCHANGED <<thread, left, raced, settled, oldBrightness, adjust>>
    BY <1>12 DEF SetMinimum
  <2>2. adjust[t] \/ brightness' = brightness
    BY <1>12 DEF SetMinimum
  <2>3. \A u \in Task : cb'[u] = "set" => cb[u] = "set"
    BY <1>0, <2>1 DEF CbStep
  <2>4. ~raced => LevelSaved' /\ TableSaved'
    BY <2>1, <2>2, <2>3 DEF RestoreInv, LevelSaved, TableSaved, CbStep
  <2> QED
    BY <1>0, <2>1, <2>4, CallbackRestores
<1>13. CASE SetDPMSModeOff(t)
  BY <1>1, <1>13 DEF SetDPMSModeOff
<1>14. CASE CallbackEnd(t)
  BY <1>1, <1>14 DEF CallbackEnd
<1> QED
  BY <1>2, <1>3, <1>4, <1>5, <1>6, <1>7, <1>8, <1>9, <1>10, <1>11, <1>12, <1>13, <1>14 DEF CallbackStep

\* A thread of an idle-off, or the settings, goes to another place.
LEMMA ThreadMoved ==
  ASSUME PlanInv, NEW p \in Thread, NEW to, thread' = [thread EXCEPT ![p] = to]
  PROVE  thread'[p] = to /\ \A q \in Thread : q # p => thread'[q] = thread[q]
BY DEF PlanInv, PTypes

\* The lock makes the others wait.
LEMMA OthersOut ==
  ASSUME PlanInv, NEW p \in Thread, thread[p] \in LockedState, NEW q \in Thread, q # p
  PROVE  thread[q] \notin LockedState
BY DEF PlanInv, HoldsLock

LEMMA OffIsThread == OffThread \subseteq Thread /\ "settings" \in Thread /\ "settings" \notin OffThread
BY DEF OffThread, Thread

\* A step outside the parts that idle-off goes through.
LEMMA ThreadAside ==
  ASSUME PlanInv, RestoreInv, NEW p \in Thread, NEW to,
         thread' = [thread EXCEPT ![p] = to],
         IF p = "settings" THEN to \in {"idle", "cancel", "wait", "plan"} ELSE to \in {"idle", "wake", "woken"},
         UNCHANGED <<cb, adjust, oldBrightness, brightness>>,
         dpms' = dpms \/ dpms' = "on", settled' = settled,
         \A q \in Thread : q # p => left'[q] = left[q], raced => raced'
  PROVE  RestoreInv'
<1>1. thread'[p] = to /\ \A q \in Thread : q # p => thread'[q] = thread[q]
  BY ThreadMoved
<1>2. SettingsPath'
  BY <1>1, OffIsThread DEF RestoreInv, SettingsPath
<1> SUFFICES ASSUME ~raced' PROVE (CancelReaches /\ CancelledQuiet /\ SettledQuiet /\ LevelSaved /\ TableSaved)'
  BY <1>2 DEF RestoreInv
<1>3. AllQuiet' = AllQuiet /\ \A q \in Thread : q # p => WillMeet(q)' = WillMeet(q)
  BY DEF AllQuiet, WillMeet
<1>4. CancelReaches'
  BY <1>1, OffIsThread DEF RestoreInv, CancelReaches, WillMeet
<1>5. CancelledQuiet'
  BY <1>1, <1>3, OffIsThread DEF RestoreInv, CancelledQuiet
<1> QED
  BY <1>3, <1>4, <1>5 DEF RestoreInv, SettledQuiet, LevelSaved, TableSaved

\* The idle-off takes the lock: the tasks that are not over have a timer, and
\* no timer is lost.
LEMMA LockRestores ==
  ASSUME PlanInv, RestoreInv, NEW p \in OffThread, Lock(p),
         raced' = (raced \/ \E t \in Task : cb[t] \in InCallback),
         UNCHANGED <<cb, adjust, screenVars, settled>>
  PROVE  RestoreInv'
<1>1. /\ mu = "free" /\ thread' = [thread EXCEPT ![p] = "cancel"]
      /\ left' = [left EXCEPT ![p] = tasks]
  BY DEF Lock
<1>2. thread'[p] = "cancel" /\ \A q \in Thread : q # p => thread'[q] = thread[q]
  BY <1>1, ThreadMoved, OffIsThread
<1>3. left'[p] = tasks
  BY <1>1, OffIsThread DEF PlanInv, PTypes
<1>4. \A q \in Thread : thread[q] \notin LockedState
  BY <1>1 DEF PlanInv, HoldsLock, Thread
<1>5. SettingsPath'
  BY <1>2, OffIsThread DEF RestoreInv, SettingsPath
<1> SUFFICES ASSUME ~raced' PROVE (CancelReaches /\ CancelledQuiet /\ SettledQuiet /\ LevelSaved /\ TableSaved)'
  BY <1>5 DEF RestoreInv
<1>6. ~raced /\ \A t \in Task : cb[t] \notin InCallback
  OBVIOUS
<1>7. \A t \in Task : cb[t] \in Quiet \/ t \in tasks
  <2> SUFFICES ASSUME NEW t \in Task, cb[t] \notin Quiet PROVE t \in tasks
    OBVIOUS
  <2>1. cb[t] = "timer"
    BY <1>6 DEF PlanInv, PTypes, InCallback, Quiet
  <2>2. t \in tasks \/ cb[Black(t[2])] = "add"
    BY <2>1 DEF PlanInv, NoLostTimer, Black
  <2>3. Black(t[2]) \in Task
    BY TaskPair, PeriodTask
  <2> QED
    BY <1>6, <2>2, <2>3 DEF InCallback, Callback
<1>8. CancelReaches'
  BY <1>2, <1>3, <1>4, <1>7, OffIsThread DEF CancelReaches, LockedState
<1>9. CancelledQuiet'
  BY <1>2, <1>4, OffIsThread DEF CancelledQuiet, LockedState
<1> QED
  BY <1>6, <1>8, <1>9 DEF RestoreInv, SettledQuiet, LevelSaved, TableSaved, AllQuiet, screenVars

LEMMA CancelRestores ==
  ASSUME PlanInv, RestoreInv, NEW p \in Thread, NEW t \in Task, Cancel(p, t) PROVE RestoreInv'
<1>1. /\ thread[p] = "cancel" /\ t \in left[p] /\ left' = [left EXCEPT ![p] = left[p] \ {t}]
      /\ cb' = [cb EXCEPT ![t] = IF cb[t] = "timer" THEN "stopped" ELSE cb[t]]
      /\ raced' = (raced \/ (p # "settings" /\ cb[t] \in InCallback))
      /\ UNCHANGED <<thread, adjust, oldBrightness, brightness, dpms, settled>>
  BY DEF Cancel, screenVars
<1>2. /\ cb'[t] = IF cb[t] = "timer" THEN "stopped" ELSE cb[t]
      /\ \A u \in Task : u # t => cb'[u] = cb[u]
  BY <1>1 DEF PlanInv, PTypes
<1>3. left'[p] = left[p] \ {t} /\ \A q \in Thread : q # p => left'[q] = left[q]
  BY <1>1 DEF PlanInv, PTypes
<1>4. \A q \in Thread : q # p => thread[q] \notin LockedState
  BY <1>1, OthersOut DEF LockedState
<1> SUFFICES ASSUME ~raced' PROVE (CancelReaches /\ CancelledQuiet /\ SettledQuiet /\ LevelSaved /\ TableSaved)'
  BY <1>1 DEF RestoreInv, SettingsPath
<1>5. ~raced /\ (p = "settings" \/ cb[t] \notin InCallback)
  BY <1>1
<1>6. CancelReaches'
  <2> SUFFICES ASSUME NEW q \in OffThread, thread[q] = "cancel"
               PROVE  WillMeet(q)' \/ \A u \in Task : cb'[u] \in Quiet \/ u \in left'[q]
    BY <1>1 DEF CancelReaches
  <2>1. q = p /\ p # "settings"
    BY <1>4, OffIsThread DEF LockedState
  <2>2. cb[t] \in Quiet \cup {"timer"} /\ cb'[t] \in Quiet
    BY <1>2, <1>5, <2>1 DEF PlanInv, PTypes, Quiet, InCallback
  <2>3. CASE WillMeet(p)
    <3>1. PICK n \in 1..MaxIdle : Black(n) \in left[p] /\ cb[Black(n)] = "add"
      BY <2>3 DEF WillMeet
    <3>2. Black(n) \in Task /\ Black(n) # t
      BY <2>2, <3>1, PeriodTask DEF Quiet
    <3> QED
      BY <1>2, <1>3, <2>1, <3>1, <3>2 DEF WillMeet
  <2>4. CASE ~WillMeet(p)
    <3>1. \A u \in Task : cb[u] \in Quiet \/ u \in left[p]
      BY <1>5, <2>1, <2>4 DEF RestoreInv, CancelReaches
    <3> QED
      BY <1>2, <1>3, <2>1, <2>2, <3>1
  <2> QED
    BY <2>3, <2>4
<1>7. AllQuiet => AllQuiet'
  BY <1>2 DEF AllQuiet, Quiet
<1>8. CancelledQuiet' /\ SettledQuiet'
  BY <1>1, <1>5, <1>7 DEF RestoreInv, CancelledQuiet, SettledQuiet
<1>9. LevelSaved' /\ TableSaved'
  BY <1>1, <1>2, <1>5 DEF RestoreInv, LevelSaved, TableSaved
<1> QED
  BY <1>6, <1>8, <1>9

\* An idle-off goes on with the lock held and the tasks at rest.
LEMMA OffMoves ==
  ASSUME PlanInv, RestoreInv, NEW p \in OffThread, thread[p] \in LockedState,
         NEW to \in {"wait", "dpms", "brightness", "clear", "keep"}, thread' = [thread EXCEPT ![p] = to],
         ~raced => AllQuiet, UNCHANGED <<left, cb, adjust, oldBrightness, raced, settled>>,
         ~raced => (to \in {"brightness", "clear", "keep"} => dpms' = "on"),
         ~raced => (to \in {"clear", "keep"} => brightness' = "user"),
         to = "keep" => oldBrightness = "nil",
         ~raced /\ settled => dpms' = "on" /\ brightness' = "user",
         ~raced /\ oldBrightness = "nil" => brightness' = "user"
  PROVE  RestoreInv'
<1>1. thread'[p] = to /\ \A q \in Thread : q # p => thread'[q] = thread[q]
  BY ThreadMoved, OffIsThread
<1>2. \A q \in Thread : q # p => thread[q] \notin LockedState
  BY OthersOut, OffIsThread
<1>3. SettingsPath'
  BY <1>1, OffIsThread DEF RestoreInv, SettingsPath
<1> SUFFICES ASSUME ~raced PROVE (CancelReaches /\ CancelledQuiet /\ SettledQuiet /\ LevelSaved /\ TableSaved)'
  BY <1>3 DEF RestoreInv
<1>4. CancelReaches'
  BY <1>1, <1>2, OffIsThread DEF CancelReaches, LockedState
<1>5. AllQuiet'
  BY DEF AllQuiet
<1>6. CancelledQuiet'
  BY <1>1, <1>2, <1>5, OffIsThread DEF CancelledQuiet, LockedState
<1> QED
  BY <1>4, <1>5, <1>6 DEF RestoreInv, SettledQuiet, LevelSaved, TableSaved

LEMMA NoSettingsOff ==
  ASSUME RestoreInv, NEW p \in Thread, thread[p] \in {"dpms", "brightness", "clear", "keep"}
  PROVE  p \in OffThread
BY DEF RestoreInv, SettingsPath, Thread, OffThread

LEMMA CancelAllDoneRestores ==
  ASSUME PlanInv, RestoreInv, NEW p \in Thread, CancelAllDone(p) PROVE RestoreInv'
<1>1. /\ thread[p] = "cancel" /\ left[p] = {} /\ thread' = [thread EXCEPT ![p] = "wait"]
      /\ UNCHANGED <<left, cb, adjust, oldBrightness, brightness, dpms, raced, settled>>
  BY DEF CancelAllDone, taskVars, screenVars, histVars
<1>2. CASE p = "settings"
  BY <1>1, <1>2, ThreadAside
<1>3. CASE p # "settings"
  <2>1. p \in OffThread
    BY <1>3 DEF Thread, OffThread
  <2>2. ~raced => AllQuiet
    BY <1>1, <2>1 DEF RestoreInv, CancelReaches, WillMeet, AllQuiet
  <2> QED
    BY <1>1, <2>1, <2>2, OffMoves DEF RestoreInv, SettledQuiet, LevelSaved, LockedState
<1> QED
  BY <1>2, <1>3

LEMMA WaitRestores ==
  ASSUME PlanInv, RestoreInv, NEW p \in Thread, Wait(p) PROVE RestoreInv'
<1>1. /\ thread[p] = "wait" /\ thread' = [thread EXCEPT ![p] = IF p = "settings" THEN "plan" ELSE "dpms"]
      /\ UNCHANGED <<left, cb, adjust, oldBrightness, brightness, dpms, raced, settled>>
  BY DEF Wait, screenVars, histVars
<1>2. CASE p = "settings"
  <2>1. thread' = [thread EXCEPT ![p] = "plan"]
    BY <1>1, <1>2
  <2> QED
    BY <1>1, <1>2, <2>1, ThreadAside
<1>3. CASE p # "settings"
  <2>1. p \in OffThread /\ thread' = [thread EXCEPT ![p] = "dpms"]
    BY <1>1, <1>3 DEF Thread, OffThread
  <2>2. ~raced => AllQuiet
    BY <1>1, <2>1 DEF RestoreInv, CancelledQuiet
  <2> QED
    BY <1>1, <2>1, <2>2, OffMoves DEF RestoreInv, SettledQuiet, LevelSaved, LockedState
<1> QED
  BY <1>2, <1>3

LEMMA DPMSOnRestores ==
  ASSUME PlanInv, RestoreInv, NEW p \in Thread, SetDPMSModeOn(p) PROVE RestoreInv'
<1>1. /\ thread[p] = "dpms" /\ thread' = [thread EXCEPT ![p] = "brightness"] /\ dpms' = "on"
      /\ UNCHANGED <<left, cb, adjust, oldBrightness, brightness, raced, settled>>
  BY DEF SetDPMSModeOn, taskVars, histVars
<1>2. p \in OffThread
  BY <1>1, NoSettingsOff
<1>3. ~raced => AllQuiet
  BY <1>1, <1>2 DEF RestoreInv, CancelledQuiet
<1> QED
  BY <1>1, <1>2, <1>3, OffMoves DEF RestoreInv, SettledQuiet, LevelSaved, LockedState

LEMMA ResetRestores ==
  ASSUME PlanInv, RestoreInv, NEW p \in Thread, ResetBrightness(p) PROVE RestoreInv'
<1>1. /\ thread[p] = "brightness"
      /\ thread' = [thread EXCEPT ![p] = IF oldBrightness # "nil" THEN "clear" ELSE "keep"]
      /\ brightness' = IF oldBrightness # "nil" THEN oldBrightness ELSE brightness
      /\ UNCHANGED <<left, cb, adjust, oldBrightness, dpms, raced, settled>>
  BY DEF ResetBrightness, taskVars, histVars
<1>2. p \in OffThread
  BY <1>1, NoSettingsOff
<1>3. ~raced => AllQuiet /\ dpms = "on"
  BY <1>1, <1>2 DEF RestoreInv, CancelledQuiet
<1>4. ~raced => brightness' = "user"
  BY <1>1 DEF RestoreInv, LevelSaved
<1>5. PICK to \in {"clear", "keep"} : /\ thread' = [thread EXCEPT ![p] = to]
                                     /\ to = "keep" => oldBrightness = "nil"
  BY <1>1
<1> QED
  BY <1>1, <1>2, <1>3, <1>4, <1>5, OffMoves DEF LockedState

LEMMA ForgetRestores ==
  ASSUME PlanInv, RestoreInv, NEW p \in Thread, ForgetBrightness(p) PROVE RestoreInv'
<1>1. PICK to \in {"woken", "idle"} :
        thread[p] \in {"clear", "keep"} /\ thread' = [thread EXCEPT ![p] = to]
  BY DEF ForgetBrightness, Unlock
<1>2. /\ oldBrightness' = IF thread[p] = "clear" THEN "nil" ELSE oldBrightness
      /\ settled' = TRUE
      /\ UNCHANGED <<left, cb, adjust, brightness, dpms, raced>>
  BY DEF ForgetBrightness, taskVars
<1>3. p \in OffThread
  BY <1>1, NoSettingsOff
<1>4. thread'[p] = to /\ \A q \in Thread : q # p => thread'[q] = thread[q]
  BY <1>1, ThreadMoved
<1>5. \A q \in Thread : q # p => thread[q] \notin LockedState
  BY <1>1, OthersOut DEF LockedState
<1>6. SettingsPath'
  BY <1>2, <1>3, <1>4, OffIsThread DEF RestoreInv, SettingsPath
<1> SUFFICES ASSUME ~raced PROVE (CancelReaches /\ CancelledQuiet /\ SettledQuiet /\ LevelSaved /\ TableSaved)'
  BY <1>2, <1>6 DEF RestoreInv
<1>7. AllQuiet /\ dpms = "on" /\ brightness = "user" /\ oldBrightness' = "nil"
  BY <1>1, <1>2, <1>3 DEF RestoreInv, CancelledQuiet
<1>8. AllQuiet'
  BY <1>2, <1>7 DEF AllQuiet
<1>9. CancelReaches' /\ CancelledQuiet'
  BY <1>4, <1>5, OffIsThread DEF CancelReaches, CancelledQuiet, LockedState
<1>10. TableSaved'
  BY <1>8 DEF AllQuiet, TableSaved, Quiet
<1> QED
  BY <1>2, <1>7, <1>8, <1>9, <1>10 DEF SettledQuiet, LevelSaved

\* New timers are armed when no thread is inside.
LEMMA IdleOnRestores ==
  ASSUME PlanInv, RestoreInv, NEW i \in BOOLEAN, HandleIdleOn(i) PROVE RestoreInv'
<1>1. /\ mu = "free" /\ UNCHANGED <<thread, left, oldBrightness, brightness, dpms, raced>>
  BY DEF HandleIdleOn, lockVars, screenVars
<1>2. CASE i \/ prepareSuspend > Finish
  <2>1. UNCHANGED <<cb, adjust, settled>>
    BY <1>2 DEF HandleIdleOn, taskVars
  <2>2. UNCHANGED screenVars
    BY DEF HandleIdleOn
  <2> QED
    BY <1>1, <2>1, <2>2, RestoreStays
<1>3. CASE ~(i \/ prepareSuspend > Finish)
  <2>1. /\ settled' = FALSE /\ adjust' = adjust
        /\ \A t \in Task : cb'[t] = cb[t] \/ cb'[t] = "timer"
    BY <1>3 DEF HandleIdleOn
  <2>2. \A q \in Thread : thread[q] \notin LockedState
    BY <1>1 DEF PlanInv, HoldsLock, Thread
  <2>3. CancelReaches' /\ CancelledQuiet' /\ SettledQuiet'
    BY <1>1, <2>1, <2>2, OffIsThread DEF CancelReaches, CancelledQuiet, SettledQuiet, LockedState
  <2>4. ~raced => LevelSaved' /\ TableSaved'
    BY <1>1, <2>1 DEF RestoreInv, LevelSaved, TableSaved
  <2> QED
    BY <1>1, <2>1, <2>3, <2>4 DEF RestoreInv, SettingsPath
<1> QED
  BY <1>2, <1>3

LEMMA ThreadStepRestores ==
  ASSUME PlanInv, RestoreInv, NEW p \in Thread, ThreadStep(p) PROVE RestoreInv'
<1>1. ASSUME NEW t \in Task, Cancel(p, t) PROVE RestoreInv'
  BY <1>1, CancelRestores
<1>2. CASE p = "settings" /\ Replan
  <2>1. /\ thread' = [thread EXCEPT ![p] = "idle"]
        /\ UNCHANGED <<left, cb, adjust, oldBrightness, brightness, dpms, raced, settled>>
    BY <1>2 DEF Replan, Unlock, taskVars, screenVars, histVars
  <2> QED
    BY <1>2, <2>1, ThreadAside
<1>3. ASSUME NEW i \in BOOLEAN, HandleIdleOn(i) PROVE RestoreInv'
  BY <1>3, IdleOnRestores
<1>4. ASSUME p \in OffThread, NEW to \in {"idle", "woken"}, IdleOffBegin(p, to),
             UNCHANGED <<taskVars, screenVars>>
      PROVE  RestoreInv'
  <2>1. settled' = settled /\ UNCHANGED <<cb, adjust, oldBrightness, brightness, dpms>>
    BY <1>4 DEF IdleOffBegin, taskVars, screenVars
  <2>2. CASE prepareSuspend >= Prepare
    <3>1. thread' = [thread EXCEPT ![p] = to] /\ UNCHANGED <<left, raced>>
      BY <1>4, <2>2 DEF IdleOffBegin
    <3> QED
      BY <1>4, <2>1, <3>1, ThreadAside, OffIsThread
  <2>3. CASE ~(prepareSuspend >= Prepare)
    BY <1>4, <2>1, <2>3, LockRestores DEF IdleOffBegin
  <2> QED
    BY <2>2, <2>3
<1>5. CASE p = "session" /\ HandleIdleOff
  BY <1>4, <1>5 DEF HandleIdleOff, OffThread
<1>6. CASE p = "login" /\ WakeupIdleOff
  BY <1>4, <1>6 DEF WakeupIdleOff, OffThread
<1>7. CASE p = "login" /\ WakeupDPMSOn
  <2>1. /\ thread' = [thread EXCEPT ![p] = "idle"] /\ dpms' = "on"
        /\ UNCHANGED <<left, cb, adjust, oldBrightness, brightness, raced, settled>>
    BY <1>7 DEF WakeupDPMSOn, taskVars, histVars
  <2> QED
    BY <1>7, <2>1, ThreadAside
<1> QED
  BY <1>1, <1>2, <1>3, <1>5, <1>6, <1>7, CancelAllDoneRestores, WaitRestores, DPMSOnRestores,
     ResetRestores, ForgetRestores DEF ThreadStep

LEMMA RestoreNext == PlanInv /\ RestoreInv /\ [PlanNext]_pspVars => RestoreInv'
<1> SUFFICES ASSUME PlanInv, RestoreInv, [PlanNext]_pspVars PROVE RestoreInv'
  OBVIOUS
<1>1. CASE \/ UserIdle \/ UserActive \/ HandleBeforeSuspend
            \/ \E v \in {Finish, ButtonClick} : SetPrepareSuspend(v)
  BY <1>1, RestoreStays
     DEF UserIdle, UserActive, HandleBeforeSuspend, SetPrepareSuspend, lockVars, taskVars, histVars
<1>2. CASE HandleWakeup
  <2>1. /\ thread' = [thread EXCEPT !["login"] = "wake"]
        /\ UNCHANGED <<left, cb, adjust, oldBrightness, brightness, dpms, raced, settled>>
    BY <1>2 DEF HandleWakeup, taskVars, screenVars, histVars
  <2> QED
    BY <2>1, ThreadAside DEF Thread
<1>3. CASE UpdateBegin
  <2>1. /\ thread' = [thread EXCEPT !["settings"] = "cancel"] /\ left' = [left EXCEPT !["settings"] = tasks]
        /\ UNCHANGED <<cb, adjust, oldBrightness, brightness, dpms, raced, settled>>
    BY <1>3 DEF UpdateBegin, Lock, taskVars, screenVars, histVars
  <2>2. \A q \in Thread : q # "settings" => left'[q] = left[q]
    BY <2>1
  <2> QED
    BY <2>1, <2>2, ThreadAside, OffIsThread
<1>4. ASSUME NEW p \in Thread, ThreadStep(p) PROVE RestoreInv'
  BY <1>4, ThreadStepRestores
<1>5. ASSUME NEW t \in Task, Expire(t) \/ CallbackStep(t) PROVE RestoreInv'
  BY <1>5, CallbackStepRestores
<1>6. CASE UNCHANGED pspVars
  BY <1>6, RestoreStays DEF pspVars, lockVars, taskVars, histVars
<1> QED
  BY <1>1, <1>2, <1>3, <1>4, <1>5, <1>6 DEF PlanNext

(* An idle-off that meets only pending timers and finished callbacks       *)
(* leaves the display on and at the user's own level, with no level saved, *)
(* until the next idle-on, for every plan and however idle periods,        *)
(* suspends and changes of the settings overlap (HandleIdleOff, Update).   *)
THEOREM IdleOffAlwaysRestores == PlanSpec => []IdleOffRestores
<1>1. RestoreInv => IdleOffRestores
  BY DEF RestoreInv, SettledQuiet, IdleOffRestores
<1>2. PlanInit => PlanInv /\ RestoreInv
  BY PlanInitInv, RestoreInit
<1>3. PlanInv /\ RestoreInv /\ [PlanNext]_pspVars => PlanInv' /\ RestoreInv'
  BY PlanNextInv, RestoreNext
<1> QED
  BY <1>1, <1>2, <1>3, PTL DEF PlanSpec
=============================================================================
