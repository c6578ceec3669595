---------------------------- MODULE AppRecorder ----------------------------
(***************************************************************************)
(* The record of launched applications (src/apps): for one directory of    *)
(* desktop files, which of them were ever started, so that the launcher    *)
(* can mark the others as new.  The kernel reports changes of the          *)
(* directory; the goroutine of DFWatcher looks at the file and passes the  *)
(* event on; the goroutine of ALRecorder updates the maps; a timer writes  *)
(* them to a temporary file that replaces the old one.  The daemon may be  *)
(* killed at any time and reads the file when it is started again.         *)
(***************************************************************************)
EXTENDS Integers, SequencesExt

CONSTANTS
  App, SubApp,  \* desktop files, and those that lie in the subdirectory
  MaxFiles,     \* bound: changes of the directory
  MaxKills,     \* bound: restarts of the daemon
  MaxSaveFails  \* bound: saves that fail

ASSUME RecorderAssumption ==
  /\ SubApp \subseteq App /\ App # {} /\ IsFiniteSet(App)
  /\ "dir" \notin App
  /\ {MaxFiles, MaxKills, MaxSaveFails} \subseteq Nat

Status == {"none", "new", "launched"}  \* "none": not a key of the map
NoStatus == [a \in App |-> "none"]
NoStatusFile == [missing |-> "no file"]  \* no map of the applications

VARIABLES
  desktop,     \* the desktop files there are
  subThere,    \* the subdirectory is in its place
  watched,     \* watches: "root", "sub"
  kernel,      \* events that the kernel holds
  eventChan,   \* events that DFWatcher has passed on
  launchedMap, removedLaunchedMap, uninstallMap,
  unasked,     \* handleDirRemoved has changed the map and not yet asked for a save
  statusFile,
  filed,       \* history: the launches that the last completed save has written
  saver,       \* isSaving (pc # "idle") and how far the save is
  startPc,     \* how far NewSubRecorder is; "done"
  files, kills, saveFails,
  everLaunched, \* history: apps that were launched and are to be remembered
  gapApps,      \* history: changed while nobody watched the subdirectory
  late          \* history: the maps changed behind a save, or a save failed

fsVars == <<desktop, subThere, kernel, files>>
mapVars == <<launchedMap, removedLaunchedMap, uninstallMap, unasked>>
recVars == <<desktop, subThere, watched, kernel, eventChan, launchedMap, removedLaunchedMap,
             uninstallMap, unasked, statusFile, filed, saver, startPc, files, kills,
             saveFails, everLaunched, gapApps, late>>

IdleSaver == [pc |-> "idle", tmp |-> NoStatus]

Filed(a) == IF statusFile = NoStatusFile THEN "none" ELSE statusFile[a]

RecInit ==
  /\ desktop \in SUBSET App /\ subThere = TRUE
  /\ statusFile \in {NoStatusFile, [a \in App |-> "new"], [a \in App |-> "launched"]}
  /\ filed = {a \in App : Filed(a) = "launched"}
  /\ watched = {} /\ kernel = <<>> /\ eventChan = <<>>
  /\ launchedMap = NoStatus /\ removedLaunchedMap = NoStatus /\ uninstallMap = {}
  /\ unasked = FALSE /\ saver = IdleSaver
  /\ startPc = "root"
  /\ files = 0 /\ kills = 0 /\ saveFails = 0
  /\ everLaunched = {} /\ gapApps = {} /\ late = FALSE

-----------------------------------------------------------------------------
\* What the file system does, and which watches see it
Seen(w, op, a) == IF w \in watched THEN Append(kernel, [op |-> op, app |-> a]) ELSE kernel
Dir(a) == IF a \in SubApp THEN "sub" ELSE "root"

FileChange(a, op) ==
  /\ files < MaxFiles /\ files' = files + 1
  /\ a \in SubApp => subThere
  /\ kernel' = Seen(Dir(a), op, a)
  /\ gapApps' = IF startPc = "sub" /\ a \in SubApp THEN gapApps \cup {a} ELSE gapApps
  /\ UNCHANGED <<subThere, watched, eventChan, mapVars, statusFile, filed, saver, startPc, kills,
                 saveFails, everLaunched, late>>

CreateFile(a) == a \notin desktop /\ desktop' = desktop \cup {a} /\ FileChange(a, "create")
RemoveFile(a) == a \in desktop /\ desktop' = desktop \ {a} /\ FileChange(a, "remove")

\* The subdirectory is moved away with its files, or back.  What happens in it
\* while it is away is not modelled.
MoveDir ==
  /\ files < MaxFiles /\ files' = files + 1
  /\ subThere' = ~subThere
  /\ \E back \in SUBSET SubApp :
       desktop' = IF subThere THEN desktop \ SubApp ELSE desktop \cup back
  /\ kernel' = Seen("root", IF subThere THEN "moved" ELSE "appeared", "dir")
  /\ watched' = watched \ {"sub"}
  /\ gapApps' = IF startPc = "sub" \/ \E i \in DOMAIN kernel : kernel[i].op = "moved"
                  THEN gapApps \cup SubApp ELSE gapApps
  /\ UNCHANGED <<eventChan, mapVars, statusFile, filed, saver, startPc, kills, saveFails,
                 everLaunched, late>>

-----------------------------------------------------------------------------
Event(op, a) == [op |-> op, app |-> a]

\* DFWatcher.handleEvent looks whether the file is there.  A directory that is
\* there is watched, and its files are reported as found (addRecursive).
FileEvents(ev) ==
  CASE ev.op = "create" -> <<Event("added", ev.app)>>
    [] ev.op = "remove" /\ ev.app \notin desktop -> <<Event("removed", ev.app)>>
    [] ev.op = "moved" /\ ~subThere -> <<Event("dirRemoved", "dir")>>
    [] ev.app = "dir" /\ subThere -> SetToSeq({Event("added", a) : a \in SubApp \cap desktop})
    [] OTHER -> <<>>

Notify ==
  /\ kernel # <<>>
  /\ kernel' = Tail(kernel)
  /\ eventChan' = eventChan \o FileEvents(Head(kernel))
  /\ watched' = IF Head(kernel).app = "dir" /\ subThere THEN watched \cup {"sub"} ELSE watched
  /\ UNCHANGED <<desktop, subThere, files, mapVars, statusFile, filed, saver, startPc, kills,
                 saveFails, everLaunched, gapApps, late>>

\* RequestSave: one timer at a time.  A change that comes when the save has read
\* the map and is not over is late: no save will write it.
RequestSave ==
  /\ saver' = IF saver.pc = "idle" THEN [saver EXCEPT !.pc = "timer"] ELSE saver
  /\ late' = (late \/ (saver.pc \in {"written", "ending"} /\ saver.tmp # launchedMap'))

\* Mutant: the change is not saved.
MarkLaunchedNotSaved(a) ==
  /\ startPc = "done" /\ launchedMap[a] = "new"
  /\ launchedMap' = [launchedMap EXCEPT ![a] = "launched"]
  /\ everLaunched' = everLaunched \cup ({a} \ uninstallMap)
  /\ UNCHANGED <<fsVars, watched, eventChan, removedLaunchedMap, uninstallMap, unasked,
                 statusFile, filed, saver, late, startPc, kills, saveFails, gapApps>>

MarkLaunched(a) ==
  /\ startPc = "done" /\ launchedMap[a] = "new"
  /\ launchedMap' = [launchedMap EXCEPT ![a] = "launched"]
  /\ RequestSave
  /\ everLaunched' = everLaunched \cup ({a} \ uninstallMap)
  /\ UNCHANGED <<fsVars, watched, eventChan, removedLaunchedMap, uninstallMap, unasked,
                 statusFile, filed, startPc, kills, saveFails, gapApps>>

UninstallHint(a) ==
  /\ startPc = "done" /\ a \notin uninstallMap
  /\ uninstallMap' = uninstallMap \cup {a}
  /\ everLaunched' = everLaunched \ {a}
  /\ UNCHANGED <<fsVars, watched, eventChan, launchedMap, removedLaunchedMap, unasked,
                 statusFile, filed, saver, startPc, kills, saveFails, gapApps, late>>

HandleAdded(a) ==
  /\ IF launchedMap[a] = "none"
       THEN /\ launchedMap' = [launchedMap EXCEPT ![a] =
                 IF removedLaunchedMap[a] = "launched" THEN "launched" ELSE "new"]
            /\ removedLaunchedMap' = [removedLaunchedMap EXCEPT ![a] = "none"]
            /\ RequestSave
       ELSE UNCHANGED <<launchedMap, removedLaunchedMap, saver, late>>
  /\ uninstallMap' = uninstallMap \ {a}
  /\ UNCHANGED <<unasked, everLaunched>>

\* Mutant: an application that is uninstalled keeps its entry.
HandleRemovedKeeps(a) ==
  /\ IF launchedMap[a] # "none" /\ a \notin uninstallMap
       THEN /\ removedLaunchedMap' = [removedLaunchedMap EXCEPT ![a] = launchedMap[a]]
            /\ launchedMap' = [launchedMap EXCEPT ![a] = "none"]
            /\ RequestSave
       ELSE UNCHANGED <<launchedMap, removedLaunchedMap, saver, late>>
  /\ UNCHANGED <<uninstallMap, unasked, everLaunched>>

HandleRemoved(a) ==
  /\ IF launchedMap[a] # "none"
       THEN /\ removedLaunchedMap' = IF a \in uninstallMap THEN removedLaunchedMap
                 ELSE [removedLaunchedMap EXCEPT ![a] = launchedMap[a]]
            /\ launchedMap' = [launchedMap EXCEPT ![a] = "none"]
            /\ RequestSave
       ELSE UNCHANGED <<launchedMap, removedLaunchedMap, saver, late>>
  /\ UNCHANGED <<uninstallMap, unasked, everLaunched>>

\* Nothing is kept for the files of a directory that was moved away.  The lock
\* of the map is given back before the save is asked for.
HandleDirRemoved ==
  /\ launchedMap' = [a \in App |-> IF a \in SubApp THEN "none" ELSE launchedMap[a]]
  /\ unasked' = \E a \in SubApp : launchedMap[a] # "none"
  /\ everLaunched' = everLaunched \ SubApp
  /\ UNCHANGED <<removedLaunchedMap, uninstallMap, saver, late>>

RequestDirSave ==
  /\ unasked /\ unasked' = FALSE
  /\ UNCHANGED launchedMap /\ RequestSave
  /\ UNCHANGED <<fsVars, watched, eventChan, removedLaunchedMap, uninstallMap,
                 statusFile, filed, startPc, kills, saveFails, everLaunched, gapApps>>

\* ALRecorder.listenEvents; it waits for the lock while the recorder is made.
ListenEvents ==
  LET ev == Head(eventChan) IN
  /\ startPc = "done" /\ eventChan # <<>> /\ ~unasked
  /\ eventChan' = Tail(eventChan)
  /\ \/ ev.op = "added" /\ HandleAdded(ev.app)
     \/ ev.op = "removed" /\ HandleRemoved(ev.app)
     \/ ev.op = "dirRemoved" /\ HandleDirRemoved
  /\ UNCHANGED <<fsVars, watched, statusFile, filed, startPc, kills, saveFails, gapApps>>

-----------------------------------------------------------------------------
\* Mutant: the status file itself is created anew, instead of a file beside it.
SaveWriteInPlace ==
  /\ saver.pc = "timer"
  /\ saver' = [pc |-> "written", tmp |-> launchedMap]
  /\ late' = FALSE
  /\ statusFile' = NoStatus /\ UNCHANGED filed

\* The function of the timer: save, emitStatusSaved, isSaving = false
SaveWrite ==
  /\ saver.pc = "timer"
  /\ saver' = [pc |-> "written", tmp |-> launchedMap]
  /\ late' = FALSE
  /\ UNCHANGED <<statusFile, filed>>

SaveRename ==
  /\ saver.pc = "written"
  /\ statusFile' = saver.tmp /\ filed' = {a \in App : saver.tmp[a] = "launched"}
  /\ saver' = [saver EXCEPT !.pc = "ending"]
  /\ UNCHANGED late

SaveEnds ==
  /\ saver.pc = "ending"
  /\ saver' = IdleSaver
  /\ UNCHANGED <<statusFile, filed, late>>

Save ==
  /\ SaveWrite \/ SaveRename \/ SaveEnds
  /\ UNCHANGED <<fsVars, watched, eventChan, mapVars, startPc, kills, saveFails,
                 everLaunched, gapApps>>

SaveFails ==
  /\ saver.pc \in {"timer", "written"} /\ saveFails < MaxSaveFails
  /\ saveFails' = saveFails + 1
  /\ saver' = [saver EXCEPT !.pc = "ending"]
  /\ late' = TRUE
  /\ UNCHANGED <<fsVars, watched, eventChan, mapVars, statusFile, filed, startPc, kills,
                 everLaunched, gapApps>>

-----------------------------------------------------------------------------
\* NewSubRecorder: the root is watched, then read, then its subdirectories are
\* watched.
AddRoot ==
  /\ startPc = "root" /\ startPc' = "read"
  /\ watched' = {"root"}
  /\ UNCHANGED <<fsVars, eventChan, mapVars, statusFile, filed, saver, kills, saveFails,
                 everLaunched, gapApps, late>>

\* initAppLaunchedMap: the file (loadStatusFromFile, checkStatus), or every
\* application as launched (resetStatus).
InitAppLaunchedMap ==
  [a \in App |->
     IF a \notin desktop THEN "none"
     ELSE IF statusFile = NoStatusFile THEN "launched"
     ELSE IF statusFile[a] = "none" THEN "new" ELSE statusFile[a]]

ReadRoot ==
  /\ startPc = "read" /\ startPc' = "sub"
  /\ launchedMap' = InitAppLaunchedMap
  /\ IF launchedMap' # statusFile THEN RequestSave ELSE UNCHANGED <<saver, late>>
  /\ everLaunched' = (everLaunched \cap desktop) \cup {a \in App : launchedMap'[a] = "launched"}
  /\ UNCHANGED <<fsVars, watched, eventChan, removedLaunchedMap, uninstallMap, unasked,
                 statusFile, filed, kills, saveFails, gapApps>>

WatchSub ==
  /\ startPc = "sub" /\ startPc' = "done"
  /\ watched' = IF subThere THEN watched \cup {"sub"} ELSE watched
  /\ UNCHANGED <<fsVars, eventChan, mapVars, statusFile, filed, saver, kills, saveFails,
                 everLaunched, gapApps, late>>

\* The daemon is killed and started again.  What the last completed
\* save has written is still to be remembered; an application that is not
\* there when the directory is read (ReadRoot) is forgotten.
Kill ==
  /\ kills < MaxKills /\ kills' = kills + 1
  /\ startPc' = "root"
  /\ watched' = {} /\ kernel' = <<>> /\ eventChan' = <<>>
  /\ launchedMap' = NoStatus /\ removedLaunchedMap' = NoStatus /\ uninstallMap' = {}
  /\ unasked' = FALSE /\ saver' = IdleSaver
  /\ everLaunched' = everLaunched \cap filed
  /\ gapApps' = {} /\ late' = FALSE
  /\ UNCHANGED <<desktop, subThere, files, statusFile, filed, saveFails>>

RecNext ==
  \/ \E a \in App : CreateFile(a) \/ RemoveFile(a) \/ MarkLaunched(a) \/ UninstallHint(a)
  \/ MoveDir
  \/ Notify \/ ListenEvents \/ RequestDirSave
  \/ Save \/ SaveFails
  \/ AddRoot \/ ReadRoot \/ WatchSub
  \/ Kill

\* The goroutines run and the timer expires.
RecProgress ==
  AddRoot \/ ReadRoot \/ WatchSub \/ Save \/ Notify \/ ListenEvents \/ RequestDirSave

RecFairness == WF_recVars(RecProgress)

RecSpec == RecInit /\ [][RecNext]_recVars /\ RecFairness

-----------------------------------------------------------------------------
(* When every event is handled the map has an entry for exactly the files   *)
(* there are, whatever the order in which files, and the directory, came    *)
(* and went while events were on their way.  Left out are the files of the  *)
(* subdirectory when it changed before it was watched (init), or came back  *)
(* before the event of its going was looked at.                             *)
MapMatchesFiles ==
  startPc = "done" /\ kernel = <<>> /\ eventChan = <<>> =>
    \A a \in App \ gapApps : launchedMap[a] # "none" <=> a \in desktop

(* When no save is pending the file has the status of the map, also after   *)
(* the daemon was killed in the middle of a save, unless the map changed    *)
(* behind the save that just ended, the save failed, or handleDirRemoved is *)
(* about to ask for one.                                                    *)
FileHasStatus ==
  startPc = "done" /\ saver.pc = "idle" /\ ~late /\ ~unasked =>
    \A a \in App : Filed(a) = launchedMap[a]

(* An application that was launched is not new again after its file was     *)
(* replaced, as long as nobody announced that it is to be uninstalled       *)
(* (UninstallHints) and its directory stayed; nor after the daemon was      *)
(* killed, also in the middle of a save, if a save that was completed had   *)
(* written the launch down and the desktop file is there when the directory *)
(* is read again.                                                           *)
LaunchedRemembered == \A a \in everLaunched : launchedMap[a] # "new"

(* What the map says reaches the file.                                      *)
StatusReachesFile ==
  \A a \in App : []<>(Filed(a) = launchedMap[a] \/ late \/ startPc # "done")

(* What was launched is remembered, in the map and in the file.            *)
RecordsKept == LaunchedRemembered /\ FileHasStatus
=============================================================================
