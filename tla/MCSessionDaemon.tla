--------------------------- MODULE MCSessionDaemon ---------------------------
(***************************************************************************)
(* SessionDaemon with modules of the shipped graph: eventlog depends on    *)
(* dock, power on screensaver, and all are enabled by default.             *)
(***************************************************************************)
EXTENDS SessionDaemon, TLC

CONSTANTS dock, eventlog, screensaver, power, part1, part2

NoFlags == [c \in Call |-> {}]
NoDebug == [c \in Call |-> FALSE]
AllOn   == [n \in Name |-> TRUE]

EventlogDep  == (dock :> {}) @@ (eventlog :> {dock}) @@ (screensaver :> {}) @@ (power :> {screensaver})
EventlogPart == (part1 :> {dock}) @@ (part2 :> {eventlog, screensaver, power})
============================================================================
