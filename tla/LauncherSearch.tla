--------------------------- MODULE LauncherSearch ---------------------------
(***************************************************************************)
(* The incremental search of the launcher (src/launcher: Search,           *)
(* handlePopPushOps, searchTaskStack, searchTask).  The stack has a task   *)
(* for each character of the key.  A task filters what the task below it   *)
(* has found, when that is finished; the task on top emits SearchDone.     *)
(* Search only queues pops and pushes; one goroutine applies them, and     *)
(* each task is searched by a goroutine of its own.                        *)
(***************************************************************************)
EXTENDS Integers, Sequences

CONSTANTS
  Item,
  Targets,     \* the texts of an item that are searched, as sequences
  Key,         \* keys that are searched for, sequences of characters
  MaxSearches, \* bound: calls of Search
  MaxTask      \* bound: tasks that are made

ASSUME SearchAssumption ==
  /\ \A i \in Item : \A v \in Targets[i] : v \in Seq(STRING)
  /\ Key \subseteq Seq(STRING)
  /\ {MaxSearches, MaxTask} \subseteq Nat

SearchTask == 1..MaxTask
NoTask == 0
Part == {"push", "next"}  \* who may start the goroutine of a task: Push, or the task below

VARIABLES
  ops,          \* popPushOpChan
  currentRunes,
  op,           \* the operation that handlePopPushOps applies
  stack,        \* searchTaskStack.tasks
  task,         \* the tasks that were made
  gor,          \* the goroutines of each task
  made, searches,
  lastDone,     \* what the last signal SearchDone carried
  searchRaced   \* history: a task was pushed or popped while another was in done

searchVars == <<ops, currentRunes, op, stack, task, gor, made, searches, lastDone, searchRaced>>

NoOp == [pop |-> 0, push |-> <<>>, pc |-> "idle", prev |-> NoTask]
NoResult == [i \in Item |-> 0]
NewTask(key) == [chars |-> key, result |-> NoResult, canceled |-> FALSE, finished |-> FALSE]
NoRun == [pc |-> "none", todo |-> {}]

SearchInit ==
  /\ ops = <<>> /\ currentRunes = <<>> /\ op = NoOp
  /\ stack = <<>>
  /\ task = [t \in SearchTask |-> NewTask(<<>>)]
  /\ gor = [t \in SearchTask |-> [s \in Part |-> NoRun]]
  /\ made = 0 /\ searches = 0
  /\ lastDone = NoResult
  /\ searchRaced = FALSE

-----------------------------------------------------------------------------
\* match: the key is part of one of the texts
IsPart(key, v) ==
  \E n \in 0..(Len(v) - Len(key)) : \A i \in DOMAIN key : v[n + i] = key[i]
Match(key, i) == \E v \in Targets[i] : Len(key) <= Len(v) /\ IsPart(key, v)

\* What a search of all items for the key finds
FullResult(key) == [i \in Item |-> IF key # <<>> /\ Match(key, i) THEN 1 ELSE 0]

\* runeSliceDiff: how many to pop, and what to push
Common(key, current) ==
  CHOOSE n \in 0..Len(key) :
    /\ n <= Len(current) /\ \A i \in 1..n : key[i] = current[i]
    /\ n < Len(key) /\ n < Len(current) => key[n + 1] # current[n + 1]

\* Mutant: one pop is forgotten when the key differs in the middle.
RuneSliceDiffOne(key, current) ==
  LET n == Common(key, current) IN
  [NoOp EXCEPT !.pop = IF n < Len(current) THEN 1 ELSE 0, !.push = SubSeq(key, n + 1, Len(key)),
               !.pc = "apply"]

RuneSliceDiff(key, current) ==
  LET n == Common(key, current) IN
  [NoOp EXCEPT !.pop = Len(current) - n, !.push = SubSeq(key, n + 1, Len(key)), !.pc = "apply"]

\* Search; when the items have changed the stack is cleared first.
Search(key, itemsChanged) ==
  /\ searches < MaxSearches /\ searches' = searches + 1
  /\ ops' = IF itemsChanged
              THEN ops \o <<[NoOp EXCEPT !.pop = Len(currentRunes), !.pc = "apply"],
                            RuneSliceDiff(key, <<>>)>>
              ELSE Append(ops, RuneSliceDiff(key, currentRunes))
  /\ currentRunes' = key
  /\ UNCHANGED <<op, stack, task, gor, made, lastDone, searchRaced>>

-----------------------------------------------------------------------------
InDone == \E t \in SearchTask, s \in Part : gor[t][s].pc \in {"getNext", "finish", "finishEmit", "emit"}

Top == IF stack = <<>> THEN NoTask ELSE stack[Len(stack)]

\* handlePopPushOps
TakeOp ==
  /\ op.pc = "idle" /\ ops # <<>>
  /\ op' = Head(ops) /\ ops' = Tail(ops)
  /\ UNCHANGED <<currentRunes, stack, task, gor, made, searches, lastDone, searchRaced>>

Pop ==
  /\ op.pc = "apply" /\ op.pop > 0
  /\ op' = [op EXCEPT !.pop = @ - 1]
  /\ IF stack = <<>> THEN UNCHANGED <<stack, task>>
     ELSE /\ task' = [task EXCEPT ![Top].canceled = TRUE]
          /\ stack' = SubSeq(stack, 1, Len(stack) - 1)
  /\ searchRaced' = (searchRaced \/ InDone)
  /\ UNCHANGED <<ops, currentRunes, gor, made, searches, lastDone>>

\* Nothing to push: what the top has found, finished or not, or nothing
EmitTop ==
  /\ op.pc = "apply" /\ op.pop = 0 /\ op.push = <<>>
  /\ op' = NoOp
  /\ lastDone' = IF stack = <<>> THEN NoResult ELSE task[Top].result
  /\ searchRaced' = (searchRaced \/ InDone)
  /\ UNCHANGED <<ops, currentRunes, stack, task, gor, made, searches>>

Rest(o) == IF Len(o.push) = 1 THEN NoOp ELSE [o EXCEPT !.push = Tail(@), !.pc = "apply"]
RunTask(items) == [pc |-> "match", todo |-> items]
Found(r) == {i \in Item : r[i] > 0}

\* Push puts the task on the stack; the first one is searched at once.
Push ==
  LET t == made + 1 IN
  /\ op.pc = "apply" /\ op.pop = 0 /\ op.push # <<>> /\ made < MaxTask
  /\ made' = t
  /\ task' = [task EXCEPT ![t] = NewTask(IF stack = <<>> THEN <<op.push[1]>>
                                         ELSE Append(task[Top].chars, op.push[1]))]
  /\ stack' = Append(stack, t)
  /\ IF stack = <<>>
       THEN gor' = [gor EXCEPT ![t]["push"] = RunTask(Item)] /\ op' = Rest(op)
       ELSE op' = [op EXCEPT !.pc = "search", !.prev = Top] /\ UNCHANGED gor
  /\ searchRaced' = (searchRaced \/ InDone)
  /\ UNCHANGED <<ops, currentRunes, searches, lastDone>>

\* Mutant: Push leaves it to the task below to start the search.
StartSearchNever ==
  /\ op.pc = "search"
  /\ op' = Rest(op)
  /\ searchRaced' = (searchRaced \/ InDone)
  /\ UNCHANGED <<ops, currentRunes, stack, task, gor, made, searches, lastDone>>

\* task.search, after the lock is given back: the task below may have finished.
StartSearch ==
  /\ op.pc = "search"
  /\ gor' = IF task[op.prev].finished
              THEN [gor EXCEPT ![Top]["push"] = RunTask(Found(task[op.prev].result))] ELSE gor
  /\ op' = Rest(op)
  /\ searchRaced' = (searchRaced \/ InDone)
  /\ UNCHANGED <<ops, currentRunes, stack, task, made, searches, lastDone>>

-----------------------------------------------------------------------------
\* The goroutine s of task t
AtPc(t, s, pc) == gor[t][s].pc = pc
ToPc(t, s, pc) == gor' = [gor EXCEPT ![t][s].pc = pc]
StackVars == <<ops, currentRunes, op, stack, made, searches>>
Others == <<StackVars, searchRaced>>

\* matchItem, and the check for cancellation
MatchItem(t, s, i) ==
  /\ AtPc(t, s, "match") /\ i \in gor[t][s].todo
  /\ task' = IF Match(task[t].chars, i) THEN [task EXCEPT ![t].result[i] = @ + 1] ELSE task
  /\ gor' = [gor EXCEPT ![t][s] = IF task[t].canceled THEN NoRun
                                  ELSE [gor[t][s] EXCEPT !.todo = @ \ {i}]]
  /\ UNCHANGED <<Others, lastDone>>

Matched(t, s) ==
  /\ AtPc(t, s, "match") /\ gor[t][s].todo = {}
  /\ ToPc(t, s, IF task[t].canceled THEN "none" ELSE "getNext")
  /\ UNCHANGED <<Others, task, lastDone>>

\* GetNext: the task above, unless this one is no longer on the stack
IndexOf(t) == {i \in DOMAIN stack : stack[i] = t}
Above(t) == {stack[i + 1] : i \in {j \in IndexOf(t) : j < Len(stack)}}

GetNext(t, s) ==
  /\ AtPc(t, s, "getNext")
  /\ gor' = [u \in SearchTask |->
       CASE u = t -> [gor[u] EXCEPT ![s].pc = IF Above(t) = {} THEN "finishEmit" ELSE "finish"]
         [] u \in Above(t) -> [gor[u] EXCEPT !["next"] = RunTask(Found(task[t].result))]
         [] OTHER -> gor[u]]
  /\ searchRaced' = (searchRaced \/ op.pc = "search")
  /\ UNCHANGED <<StackVars, task, lastDone>>

FinishTask(t, s) ==
  /\ gor[t][s].pc \in {"finish", "finishEmit"}
  /\ task' = [task EXCEPT ![t].finished = TRUE]
  /\ ToPc(t, s, IF AtPc(t, s, "finish") THEN "none" ELSE "emit")
  /\ UNCHANGED <<Others, lastDone>>

EmitResult(t, s) ==
  /\ AtPc(t, s, "emit")
  /\ lastDone' = task[t].result
  /\ ToPc(t, s, "none")
  /\ UNCHANGED <<Others, task>>

TaskStep(t, s) ==
  \/ \E i \in Item : MatchItem(t, s, i)
  \/ Matched(t, s) \/ GetNext(t, s) \/ FinishTask(t, s) \/ EmitResult(t, s)

SearchNext ==
  \/ \E key \in Key, changed \in BOOLEAN : Search(key, changed)
  \/ TakeOp \/ Pop \/ EmitTop \/ Push \/ StartSearch
  \/ \E t \in SearchTask, s \in Part : TaskStep(t, s)

\* handlePopPushOps and the goroutines of the tasks keep running.
SearchProgress ==
  \/ TakeOp \/ Pop \/ EmitTop \/ Push \/ StartSearch
  \/ \E t \in SearchTask, s \in Part : TaskStep(t, s)

SearchFairness == WF_searchVars(SearchProgress)

SearchSpec == SearchInit /\ [][SearchNext]_searchVars /\ SearchFairness

-----------------------------------------------------------------------------
SearchQuiet ==
  /\ ops = <<>> /\ op = NoOp
  /\ \A t \in SearchTask, s \in Part : gor[t][s].pc = "none"

(* When all is quiet, the last SearchDone has what a search of all items    *)
(* for the key would find, each item once: the filtering step by step, with *)
(* tasks of the old key cancelled on the way, adds up to it.  A key that is *)
(* pressed while a task is in done may change that.                         *)
LastDoneIsForKey == SearchQuiet /\ ~searchRaced => lastDone = FullResult(currentRunes)

(* A search comes to an end: SearchDone is emitted for the key.             *)
SearchAnswered ==
  []<>(lastDone = FullResult(currentRunes) \/ searchRaced \/ made = MaxTask)
=============================================================================
