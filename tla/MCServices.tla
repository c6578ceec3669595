----------------------------- MODULE MCServices -----------------------------
(***************************************************************************)
(* Services that keep a table of what others asked for, or a picture of    *)
(* what others do, and must keep it right: the sort of the dependency      *)
(* graph, the screen saver, the airplane mode, the event monitor, the      *)
(* priorities of audio ports, the session watcher, the pairing agents, the *)
(* lid switch with the ambient light and the secret agent.  They share     *)
(* nothing, so one of them (focus) moves while the others stay as they     *)
(* begin; MCProgress says why this is enough.                              *)
(***************************************************************************)
EXTENDS TopologicalDag, ScreenSaver, AirplaneMode, XEventMonitor, AudioPriority,
        SessionWatcher, BluetoothAgents, LidSwitch, SecretAgent, TLC

CONSTANTS a, b, c, d, MaxEdges

VARIABLE focus

Component == {"dag", "screensaver", "airplane", "events", "audio", "watcher", "agents", "lid",
              "secrets"}

serviceVars == <<focus, topoVars, ssVars, airVars, xevVars, audioVars, watchVars, agentVars,
                 lidSwitchVars, secretVars>>

\* SecretAgent: secrets that the agent keeps itself
AllOwned == ("psk" :> "agentOwned") @@ ("pin" :> "agentOwned")

\* A component that does not move begins in one state.
ServicesInit ==
  /\ focus \in Component
  /\ TopoInit /\ (focus # "dag" => edge = {})
  /\ ScreenSaverInit
  /\ AirplaneInit /\ (focus # "airplane" => present = {})
  /\ XEventInit
  /\ AudioInit /\ (focus # "audio" => plugged = {} /\ prioFile = NoFile)
  /\ WatcherInit /\ (focus # "watcher" => there = {})
  /\ AgentsInit
  /\ LidInit
  /\ SecretInit /\ nm["work"] = AllOwned /\ (focus # "secrets" => nm["home"] = AllOwned)

\* Component k moves, the others do not.
Only(k) ==
  /\ focus = k /\ focus' = k
  /\ k # "dag" => UNCHANGED topoVars
  /\ k # "screensaver" => UNCHANGED ssVars
  /\ k # "airplane" => UNCHANGED airVars
  /\ k # "events" => UNCHANGED xevVars
  /\ k # "audio" => UNCHANGED audioVars
  /\ k # "watcher" => UNCHANGED watchVars
  /\ k # "agents" => UNCHANGED agentVars
  /\ k # "lid" => UNCHANGED lidSwitchVars
  /\ k # "secrets" => UNCHANGED secretVars

ServicesNext ==
  \/ Only("dag") /\ TopoNext
  \/ Only("screensaver") /\ ScreenSaverNext
  \/ Only("airplane") /\ AirplaneNext
  \/ Only("events") /\ XEventNext
  \/ Only("audio") /\ AudioNext
  \/ Only("watcher") /\ WatcherNext
  \/ Only("agents") /\ AgentsNext
  \/ Only("lid") /\ LidNext
  \/ Only("secrets") /\ SecretNext

ServicesSpec == ServicesInit /\ [][ServicesNext]_serviceVars

-----------------------------------------------------------------------------
\* TopologicalDag: every graph on four nodes with at most MaxEdges edges,
\* self-loops included; with four edges, every cycle and the diamond.
SmallGraphs == UNION {kSubset(k, Node \X Node) : k \in 0..MaxEdges}

\* AirplaneMode: two radios of one type, and one that has no property of its
\* own.
Types == <<"bt", "wwan", "bt">>

\* XEventMonitor: two registrations that overlap
MCCovers == (a :> {1}) @@ (b :> {1, 2})
MCFlags  == (a :> {"motion", "button"}) @@ (b :> {"key"})

\* AudioPriority: two ports of one type; files that lack a type, one of them
\* with a list of ports
MCPortType == ("bt" :> 0) @@ ("jack" :> 1) @@ ("jack2" :> 1) @@ ("usb" :> 2)
MCOldFiles == {NoFile, Priorities(<<1, 0>>, <<"jack", "bt">>), Priorities(<<0, 1>>, <<>>)}

\* What PrioritiesAlwaysKept (DesktopProofs) asks of the files holds here.
ASSUME FilesInOrder == OldFilesInOrder

\* SecretAgent: where the secrets of a connection are kept
MCSecretFlags == {AllOwned,
                  ("psk" :> "none") @@ ("pin" :> "agentOwned"),
                  ("psk" :> "ask") @@ ("pin" :> "none")}
=============================================================================
