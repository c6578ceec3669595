--------------------------- MODULE SessionWatcher ---------------------------
(***************************************************************************)
(* The session watcher (src/sessionwatcher/manager.go) publishes whether a *)
(* session of its user is active.  It computes IsActive by asking logind   *)
(* for each session it knows, in the signal loop or, at the start, in      *)
(* initUserSessions, while sessions come, go and change.                   *)
(***************************************************************************)
EXTENDS Integers, Sequences

CONSTANTS
  Session,
  Mine,       \* sessions of the user that are not remote
  OnSeat,     \* sessions that have a seat
  MaxSessionChanges \* bound: changes in logind

ASSUME WatcherAssumption ==
  /\ Mine \subseteq Session /\ OnSeat \subseteq Session
  /\ MaxSessionChanges \in Nat

VARIABLES
  there, activeOnes,   \* logind: the sessions, and those that are active
  sessionChanges,
  signals,             \* signals that the loop has not handled
  starting,            \* initUserSessions: how far it is
  toAdd,               \* the sessions it has listed and not added
  matches,             \* "new", "removed": signals of the manager that are connected
  known,               \* keys of m.sessions
  handlers,            \* sessions whose Active changes are connected
  IsActive,
  pass,                \* handleSessionChanged under way, with m.mu: by whom, what is left
  gap                  \* history: sessions that came or went before initUserSessions connected

watchVars == <<there, activeOnes, sessionChanges, signals, starting, toAdd, matches, known,
               handlers, IsActive, pass, gap>>
NoPass == [by |-> "none", left |-> {}, active |-> FALSE]

WatcherInit ==
  /\ there \in SUBSET Session /\ activeOnes \in SUBSET there
  /\ \A s, t \in activeOnes : s = t
  /\ sessionChanges = 0
  /\ signals = <<>>
  /\ starting = "list" /\ toAdd = {}
  /\ matches = {} /\ known = {} /\ handlers = {}
  /\ IsActive = TRUE
  /\ pass = NoPass
  /\ gap = {}

-----------------------------------------------------------------------------
\* logind
Emit(kind, s, connected) ==
  signals' = IF connected THEN Append(signals, [kind |-> kind, session |-> s]) ELSE signals

\* The change of Active of a session, or of none, for its handler
ActiveChanged(S) ==
  IF S \cap handlers = {} THEN <<>>
  ELSE <<[kind |-> "active", session |-> CHOOSE s \in S : TRUE]>>

SessionChange == sessionChanges < MaxSessionChanges /\ sessionChanges' = sessionChanges + 1
Watcher == <<starting, toAdd, matches, known, handlers, IsActive, pass>>

NewSession(s) ==
  /\ SessionChange /\ s \notin there
  /\ there' = there \cup {s}
  /\ Emit("new", s, "new" \in matches)
  /\ gap' = IF starting = "list" \/ "new" \in matches THEN gap ELSE gap \cup {s}
  /\ UNCHANGED <<activeOnes, Watcher>>

EndSession(s) ==
  /\ SessionChange /\ s \in there
  /\ there' = there \ {s} /\ activeOnes' = activeOnes \ {s}
  /\ Emit("removed", s, "removed" \in matches)
  /\ gap' = IF starting = "list" \/ "removed" \in matches THEN gap ELSE gap \cup {s}
  /\ UNCHANGED Watcher

\* One session is active at a time, or none.
Activate(s) ==
  /\ SessionChange /\ s \in there \ activeOnes
  /\ activeOnes' = {s}
  /\ signals' = signals \o ActiveChanged(activeOnes) \o ActiveChanged({s})
  /\ UNCHANGED <<there, Watcher, gap>>

Deactivate(s) ==
  /\ SessionChange /\ s \in activeOnes
  /\ activeOnes' = {}
  /\ signals' = signals \o ActiveChanged({s})
  /\ UNCHANGED <<there, Watcher, gap>>

-----------------------------------------------------------------------------
\* handleSessionChanged by the loop or the start: with m.mu held, getActiveSession
\* asks one session after the other, in any order, until one is active.
Free == pass = NoPass
BeginUpdate(by) == pass' = IF known = {} THEN NoPass ELSE [by |-> by, left |-> known, active |-> FALSE]

\* A session that is gone cannot be asked, and does not count.
AskSession(s) ==
  /\ s \in pass.left /\ ~pass.active
  /\ pass' = [pass EXCEPT !.left = @ \ {s}, !.active = (s \in activeOnes \cap OnSeat)]
  /\ UNCHANGED <<there, activeOnes, sessionChanges, signals, starting, toAdd, matches, known, handlers,
                 IsActive, gap>>

SetIsActive ==
  /\ ~Free /\ (pass.left = {} \/ pass.active)
  /\ IsActive' = pass.active
  /\ pass' = NoPass
  /\ UNCHANGED <<there, activeOnes, sessionChanges, signals, starting, toAdd, matches, known, handlers,
                 gap>>

-----------------------------------------------------------------------------
\* addSession: the session must be there to be asked for its user.
Adds(s) == s \in Mine \cap there

\* The loop handles a signal when its last pass is over; the map needs m.mu.
\* A session that was deleted has no handler any more.
HandleSessionSignal ==
  LET s == Head(signals).session  kind == Head(signals).kind IN
  /\ signals # <<>> /\ Free
  /\ signals' = Tail(signals)
  /\ \/ /\ kind = "new"
        /\ known' = IF Adds(s) THEN known \cup {s} ELSE known
        /\ handlers' = IF Adds(s) THEN handlers \cup {s} ELSE handlers
     \/ /\ kind = "removed"
        /\ known' = known \ {s} /\ handlers' = handlers \ {s}
     \/ /\ kind = "active"
        /\ UNCHANGED <<known, handlers>>
  /\ pass' = IF known' = {} \/ (kind = "active" /\ s \notin handlers)
               THEN NoPass ELSE [by |-> "loop", left |-> known', active |-> FALSE]
  /\ UNCHANGED <<there, activeOnes, sessionChanges, starting, toAdd, matches, IsActive,
                 gap>>

-----------------------------------------------------------------------------
\* initUserSessions
ListSessions ==
  /\ starting = "list" /\ starting' = "add"
  /\ toAdd' = there
  /\ UNCHANGED <<there, activeOnes, sessionChanges, signals, matches, known, handlers,
                 IsActive, pass, gap>>

\* addSession of a listed session: the map, then the handler
ManagerAddSession(s) ==
  /\ starting = "add" /\ s \in toAdd /\ Free
  /\ known' = IF Adds(s) THEN known \cup {s} ELSE known
  /\ toAdd' = toAdd \ {s}
  /\ starting' = IF Adds(s) THEN "connect" ELSE "add"
  /\ UNCHANGED <<there, activeOnes, sessionChanges, signals, matches, handlers,
                 IsActive, pass, gap>>

ConnectChanged ==
  /\ starting = "connect" /\ starting' = "add"
  /\ handlers' = known
  /\ UNCHANGED <<there, activeOnes, sessionChanges, signals, toAdd, matches, known,
                 IsActive, pass, gap>>

\* Mutant: what the sessions are at the start is not looked at.
StartPassSkipped ==
  /\ starting = "add" /\ toAdd = {} /\ Free
  /\ starting' = "new"
  /\ UNCHANGED <<there, activeOnes, sessionChanges, signals, toAdd, matches, known, handlers, IsActive,
                 pass, gap>>

StartPass ==
  /\ starting = "add" /\ toAdd = {} /\ Free
  /\ starting' = "new"
  /\ BeginUpdate("start")
  /\ UNCHANGED <<there, activeOnes, sessionChanges, signals, toAdd, matches, known,
                 handlers, IsActive, gap>>

ConnectManager ==
  /\ pass.by # "start"
  /\ \/ starting = "new" /\ matches' = {"new"} /\ starting' = "removed"
     \/ starting = "removed" /\ matches' = {"new", "removed"} /\ starting' = "done"
  /\ UNCHANGED <<there, activeOnes, sessionChanges, signals, toAdd, known, handlers,
                 IsActive, pass, gap>>

WatcherNext ==
  \/ \E s \in Session : NewSession(s) \/ EndSession(s) \/ Activate(s) \/ Deactivate(s)
                        \/ AskSession(s) \/ ManagerAddSession(s)
  \/ SetIsActive \/ HandleSessionSignal
  \/ ListSessions \/ ConnectChanged \/ StartPass \/ ConnectManager

WatcherSpec == WatcherInit /\ [][WatcherNext]_watchVars

-----------------------------------------------------------------------------
SettledDown == starting = "done" /\ signals = <<>> /\ Free

(* When every signal is handled IsActive says whether one of the user's     *)
(* local sessions is active on a seat, although the sessions are asked one  *)
(* after the other while they change.  It keeps its value when the last     *)
(* session is gone.  The exception is a session that went before            *)
(* SessionRemoved was connected.                                            *)
IsActiveCurrent ==
  SettledDown /\ gap = {} /\ known # {} => (IsActive <=> known \cap activeOnes \cap OnSeat # {})

(* The sessions known are the user's sessions that there are, unless they   *)
(* came or went between ListSessions and the connection of the signals.     *)
SessionsKnown == SettledDown => known \ gap = (Mine \cap there) \ gap

(* The watcher knows the sessions and whether one of them is active.       *)
WatcherCurrent == SessionsKnown /\ IsActiveCurrent
=============================================================================
