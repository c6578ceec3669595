--------------------------- MODULE BluetoothAgents ---------------------------
(***************************************************************************)
(* The agents of the users in the system bluetooth service                 *)
(* (src/system/bluetooth/agent.go, bluetooth.go, bluetooth_ifc.go).  The   *)
(* session daemon of a user registers an agent; a pairing request of bluez *)
(* is passed to the agent of the user whose session is active.  Calls of   *)
(* RegisterAgent are goroutines; signals of logind and of the bus are      *)
(* handled one after the other by the signal loop.  userAgentMap has a     *)
(* lock, and each of its methods is one step.  A user has one session.     *)
(***************************************************************************)
EXTENDS Integers, Sequences

CONSTANTS
  Uid,
  MaxConn,   \* bound: connections of session daemons, numbered as they are made
  MaxEvents  \* bound: logins, logouts and switches of the active session

NoUid == "nobody"
NoConn == 0

ASSUME AgentsAssumption == {MaxConn, MaxEvents} \subseteq Nat /\ NoUid \notin Uid

VARIABLES
  loggedIn,      \* users that have a session (logind)
  activeSession, \* the user whose session is active (logind)
  agentConn,     \* the connection of each user's session daemon
  conns, loginEvents,
  queue,         \* signals that the loop has not handled
  register,      \* the call of RegisterAgent of each connection
  users,         \* keys of userAgentMap.m
  nilSessions,   \* items made by addAgent, which have no map of sessions
  sessions,      \* users whose session is in item.sessions, and watched
  agents,        \* item.agents[SessionAgentPath]: its connection
  activeUid,
  panicked,
  stale,         \* history: users whose daemon was gone when addAgent was called
  removed,       \* history: users removed between addUser and addAgent
  staleRead,     \* history: watchSession used a value of Active that had changed
  unregistered   \* users whose daemon has called UnregisterAgent

logindVars == <<loggedIn, activeSession, agentConn, conns, loginEvents>>
agentMapVars == <<users, nilSessions, sessions, agents, activeUid, panicked>>
agentVars == <<loggedIn, activeSession, agentConn, conns, loginEvents, queue, register, users,
               nilSessions, sessions, agents, activeUid, panicked, stale, removed,
               staleRead, unregistered>>

NoCall == [pc |-> "none", uid |-> NoUid, active |-> FALSE]
AgentConn == 1..MaxConn
UidOf(c) == register[c].uid

AgentsInit ==
  /\ loggedIn = {} /\ activeSession = NoUid
  /\ agentConn = [u \in Uid |-> NoConn] /\ conns = 0 /\ loginEvents = 0
  /\ queue = <<>>
  /\ register = [c \in AgentConn |-> NoCall]
  /\ users = {} /\ nilSessions = {} /\ sessions = {}
  /\ agents = [u \in Uid |-> NoConn]
  /\ activeUid = NoUid
  /\ panicked = FALSE
  /\ stale = {} /\ removed = {} /\ staleRead = FALSE /\ unregistered = {}

-----------------------------------------------------------------------------
\* logind, and the session daemons
LoginSignal(kind, arg) == [kind |-> kind, arg |-> arg]
IfWatched(u) == IF u \in sessions THEN <<LoginSignal("active", u)>> ELSE <<>>
Lost(u) == IF agentConn[u] = NoConn THEN <<>> ELSE <<LoginSignal("nameLost", agentConn[u])>>

LogIn(u) ==
  /\ u \notin loggedIn /\ loginEvents < MaxEvents
  /\ loggedIn' = loggedIn \cup {u}
  /\ activeSession' = u
  /\ loginEvents' = loginEvents + 1
  /\ queue' = Append(queue, LoginSignal("sessionNew", u))
  /\ UNCHANGED <<agentConn, conns, register, agentMapVars, stale, removed, staleRead,
                 unregistered>>

SwitchTo(u) ==
  /\ u \in loggedIn \ {activeSession} /\ loginEvents < MaxEvents
  /\ activeSession' = u
  /\ loginEvents' = loginEvents + 1
  /\ queue' = queue \o IfWatched(u)
  /\ UNCHANGED <<loggedIn, agentConn, conns, register, agentMapVars, stale, removed,
                 staleRead, unregistered>>

LogOut(u) ==
  /\ u \in loggedIn /\ loginEvents < MaxEvents
  /\ loggedIn' = loggedIn \ {u}
  /\ activeSession' = IF activeSession = u THEN NoUid ELSE activeSession
  /\ loginEvents' = loginEvents + 1
  /\ agentConn' = [agentConn EXCEPT ![u] = NoConn]
  /\ queue' = queue \o Lost(u) \o <<LoginSignal("sessionRemoved", u), LoginSignal("userRemoved", u)>>
  /\ unregistered' = unregistered \ {u}
  /\ UNCHANGED <<conns, register, agentMapVars, stale, removed, staleRead>>

\* The session daemon of u starts and calls RegisterAgent; what it calls first
\* is addUser.
StartDaemon(u) ==
  /\ u \in loggedIn /\ agentConn[u] = NoConn /\ conns < MaxConn
  /\ conns' = conns + 1
  /\ agentConn' = [agentConn EXCEPT ![u] = conns + 1]
  /\ register' = [register EXCEPT ![conns + 1] = [NoCall EXCEPT !.pc = "addUser", !.uid = u]]
  /\ unregistered' = unregistered \ {u}
  /\ UNCHANGED <<loggedIn, activeSession, loginEvents, queue, agentMapVars, stale,
                 removed, staleRead>>

StopDaemon(u) ==
  /\ agentConn[u] # NoConn
  /\ agentConn' = [agentConn EXCEPT ![u] = NoConn]
  /\ queue' = queue \o Lost(u)
  /\ UNCHANGED <<loggedIn, activeSession, conns, loginEvents, register, agentMapVars, stale,
                 removed, staleRead, unregistered>>

-----------------------------------------------------------------------------
\* addSession: false for an unknown user or a session that is there; a map that
\* was never made cannot be written to.
CanAdd(u) == u \in users /\ u \notin sessions
AddSession(u) ==
  IF CanAdd(u) /\ u \in nilSessions
    THEN panicked' = TRUE /\ UNCHANGED sessions
    ELSE /\ sessions' = IF CanAdd(u) THEN sessions \cup {u} ELSE sessions
         /\ UNCHANGED panicked

SetActiveUid(u, active) == activeUid' = IF active THEN u ELSE activeUid

\* What a session said about itself is used while the loop still has signals of
\* other sessions, or after it has changed.
UseRead(u, active) ==
  /\ SetActiveUid(u, active)
  /\ staleRead' = (staleRead \/ (active /\ (\/ activeSession # u
       \/ \E i \in DOMAIN queue : queue[i].kind = "active" /\ queue[i].arg # u)))

\* RegisterAgent, step by step
Step(c, from, to) == register[c].pc = from /\ register' = [register EXCEPT ![c].pc = to]

AddUser(c) ==
  /\ Step(c, "addUser", "addSession")
  /\ users' = users \cup {UidOf(c)}
  /\ UNCHANGED <<logindVars, queue, nilSessions, sessions, agents, activeUid, panicked,
                 stale, removed, staleRead, unregistered>>

\* ListSessions, addSession, and ConnectChanged of watchSession
RegisterSession(c) ==
  LET u == UidOf(c) IN
  /\ Step(c, "addSession", IF u \in loggedIn /\ CanAdd(u) THEN "read" ELSE "addAgent")
  /\ IF u \in loggedIn THEN AddSession(u) ELSE UNCHANGED <<sessions, panicked>>
  /\ UNCHANGED <<logindVars, queue, users, nilSessions, agents, activeUid, stale, removed, staleRead,
                 unregistered>>

ReadActive(c) ==
  /\ register[c].pc = "read"
  /\ register' = [register EXCEPT ![c].pc = "set", ![c].active = (activeSession = UidOf(c))]
  /\ UNCHANGED <<logindVars, queue, agentMapVars, stale, removed, staleRead,
                 unregistered>>

SetActive(c) ==
  LET u == UidOf(c) IN
  /\ Step(c, "set", "addAgent")
  /\ UseRead(u, register[c].active)
  /\ UNCHANGED <<logindVars, queue, users, nilSessions, sessions, agents, panicked, stale, removed,
                 unregistered>>

\* addAgent makes an item when there is none.
AddAgent(c) ==
  LET u == UidOf(c) IN
  /\ Step(c, "addAgent", "over")
  /\ agents' = [agents EXCEPT ![u] = c]
  /\ users' = users \cup {u}
  /\ nilSessions' = IF u \in users THEN nilSessions ELSE nilSessions \cup {u}
  /\ stale' = IF agentConn[u] # c THEN stale \cup {u} ELSE stale
  /\ removed' = IF u \in users THEN removed ELSE removed \cup {u}
  /\ UNCHANGED <<logindVars, queue, sessions, activeUid, panicked, staleRead,
                 unregistered>>

\* UnregisterAgent: removeAgent refuses the path that is registered.
UnregisterAgent(u) ==
  /\ agentConn[u] # NoConn /\ register[agentConn[u]].pc = "over" /\ u \notin unregistered
  /\ unregistered' = unregistered \cup {u}
  /\ UNCHANGED <<logindVars, queue, register, agentMapVars, stale, removed, staleRead>>

-----------------------------------------------------------------------------
\* The signal loop.  watchSession in handleSessionNew is not interrupted by
\* signals: it reads Active and sets activeUid at once.
HandleSessionNew(u) ==
  /\ IF u \in loggedIn THEN AddSession(u) ELSE UNCHANGED <<sessions, panicked>>
  /\ UseRead(u, u \in loggedIn /\ CanAdd(u) /\ activeSession = u)
  /\ UNCHANGED <<users, nilSessions, agents>>

HandleActive(u) ==
  /\ SetActiveUid(u, u \in sessions)
  /\ UNCHANGED <<users, nilSessions, sessions, agents, panicked, staleRead>>

RemoveSession(u) ==
  /\ sessions' = sessions \ {u}
  /\ UNCHANGED <<users, nilSessions, agents, activeUid, panicked, staleRead>>

RemoveUser(u) ==
  /\ users' = users \ {u} /\ nilSessions' = nilSessions \ {u}
  /\ sessions' = sessions \ {u}
  /\ agents' = [agents EXCEPT ![u] = NoConn]
  /\ UNCHANGED <<activeUid, panicked, staleRead>>

\* Mutant: the agents of the active user only are looked through.
HandleNameLostActive(c) ==
  /\ agents' = [u \in Uid |-> IF agents[u] = c /\ u = activeUid THEN NoConn ELSE agents[u]]
  /\ UNCHANGED <<users, nilSessions, sessions, activeUid, panicked, staleRead>>

HandleNameLost(c) ==
  /\ agents' = [u \in Uid |-> IF agents[u] = c THEN NoConn ELSE agents[u]]
  /\ UNCHANGED <<users, nilSessions, sessions, activeUid, panicked, staleRead>>

HandleLoginSignal ==
  LET s == Head(queue) IN
  /\ queue # <<>> /\ queue' = Tail(queue)
  /\ \/ s.kind = "sessionNew" /\ HandleSessionNew(s.arg)
     \/ s.kind = "active" /\ HandleActive(s.arg)
     \/ s.kind = "sessionRemoved" /\ RemoveSession(s.arg)
     \/ s.kind = "userRemoved" /\ RemoveUser(s.arg)
     \/ s.kind = "nameLost" /\ HandleNameLost(s.arg)
  /\ UNCHANGED <<logindVars, register, stale, removed, unregistered>>

AgentsNext ==
  /\ ~panicked
  /\ \/ \E u \in Uid : LogIn(u) \/ SwitchTo(u) \/ LogOut(u) \/ StartDaemon(u) \/ StopDaemon(u)
                       \/ UnregisterAgent(u)
     \/ \E c \in AgentConn : AddUser(c) \/ RegisterSession(c) \/ ReadActive(c) \/ SetActive(c)
                        \/ AddAgent(c)
     \/ HandleLoginSignal

AgentsSpec == AgentsInit /\ [][AgentsNext]_agentVars

-----------------------------------------------------------------------------
Settled == queue = <<>> /\ \A c \in AgentConn : register[c].pc \in {"none", "over"}

(* Requests of bluez go to the user who sits at the screen: when every     *)
(* signal and call is handled, the active user is the one whose session is *)
(* active, if its daemon has registered.  The exception is watchSession    *)
(* using what it read from the session while signals of other sessions are *)
(* still to be handled, or after the session has changed again.            *)
ActiveUidCurrent ==
  Settled /\ ~staleRead /\ activeSession \in sessions => activeUid = activeSession

(* The agent of a user is that of the daemon that runs, so that no request *)
(* waits for a daemon that is gone.  The exception is a daemon that died   *)
(* while its call of RegisterAgent was under way.                          *)
AgentAlive ==
  Settled => \A u \in Uid \ stale : agents[u] # NoConn => agents[u] = agentConn[u]

(* The map of sessions is written only where it was made, unless a user    *)
(* was removed during RegisterAgent: addAgent then makes an item without.  *)
SessionsMade == panicked => removed # {}

(* The table of agents is that of the users and daemons there are.         *)
AgentsCurrent == ActiveUidCurrent /\ AgentAlive /\ SessionsMade
=============================================================================
