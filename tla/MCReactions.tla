----------------------------- MODULE MCReactions -----------------------------
(***************************************************************************)
(* Components that answer events from outside in several goroutines, while *)
(* the next events arrive: the automatic connection of bluetooth devices,  *)
(* the recorder of launched applications, the module switches of the       *)
(* session daemon and the lock service.  They share nothing, so one of     *)
(* them (focus) moves while the others stay as they begin; MCProgress says *)
(* why this is enough.                                                     *)
(***************************************************************************)
EXTENDS AutoConnect, AppRecorder, SessionDaemon, LockService, TLC

VARIABLE focus

reactionVars == <<focus, autoVars, recVars, allVars, lockServiceVars>>

\* Without a file all applications count as launched, so a file that says so
\* adds nothing to begin with.
ReactionInit ==
  /\ focus \in {"auto_connect", "recorder", "session", "lock_service"}
  /\ AutoInit
  /\ RecInit /\ filed = {} /\ (focus # "recorder" => desktop = {} /\ statusFile = NoStatusFile)
  /\ SessionInit /\ LockInit

\* Component k moves, the others do not.
Only(k) ==
  /\ focus = k /\ focus' = k
  /\ k # "auto_connect" => UNCHANGED autoVars
  /\ k # "recorder" => UNCHANGED recVars
  /\ k # "session" => UNCHANGED allVars
  /\ k # "lock_service" => UNCHANGED lockServiceVars

ReactionNext ==
  \/ Only("auto_connect") /\ AutoNext
  \/ Only("recorder") /\ RecNext
  \/ Only("session") /\ (SessionNext \/ Rest)
  \/ Only("lock_service") /\ LockNext

\* The fairness of the module that moves
Progress ==
  \/ Only("auto_connect") /\ AutoProgress
  \/ Only("recorder") /\ RecProgress
  \/ Only("session") /\ SessionProgress
  \/ Only("lock_service") /\ LockProgress

ReactionSpec ==
  ReactionInit /\ [][ReactionNext]_reactionVars /\ WF_reactionVars(Progress)

-----------------------------------------------------------------------------
\* AutoConnect: one device on each of two adapters
MCAdapterOf == ("mouse" :> "hci0") @@ ("headset" :> "hci1")

\* SessionDaemon: modules of the shipped graph in the two parts in which the
\* daemon enables them, and a key that names no module.
NoFlags   == [c \in Call |-> {}]
NoDebug   == [c \in Call |-> FALSE]
AllOn     == [n \in Name |-> TRUE]
PowerDep  == ("dock" :> {}) @@ ("screensaver" :> {}) @@ ("power" :> {"screensaver"})
PowerPart == ("part1" :> {"dock"}) @@ ("part2" :> {"screensaver", "power"})
=============================================================================
