----------------------------- MODULE StartOrder -----------------------------
(***************************************************************************)
(* What the module loader (src/loader) promises to its callers, without    *)
(* goroutines, WaitGroups, flags or locks: items come up one at a time, an *)
(* item only after all that it needs, and a client is answered only when   *)
(* all that it wants is up.  Nothing that is up goes away and no answer is *)
(* taken back.  Loader is shown to implement this specification.           *)
(***************************************************************************)
CONSTANTS
  Items,
  Needs,    \* Needs[i]: what has to be up before i
  Clients,
  Wants     \* Wants[c]: what has to be up when c is answered

VARIABLES up, answered

orderVars == <<up, answered>>

OrderInit == up = {} /\ answered = {}

StartItem(i) ==
  /\ Needs[i] \subseteq up
  /\ up' = up \cup {i}
  /\ UNCHANGED answered

Answer(c) ==
  /\ Wants[c] \subseteq up
  /\ answered' = answered \cup {c}
  /\ UNCHANGED up

OrderNext ==
  \/ \E i \in Items : StartItem(i)
  \/ \E c \in Clients : Answer(c)

StartOrderSpec == OrderInit /\ [][OrderNext]_orderVars
=============================================================================
