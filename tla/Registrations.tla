---------------------------- MODULE Registrations ----------------------------
(***************************************************************************)
(* What the event monitor (src/x_event_monitor) promises to its clients,   *)
(* without counts of references, flags or entries that outlive their use:  *)
(* clients hold topics.  The service listens exactly while one is held,    *)
(* speaks only of topics that somebody holds, and says into only of one    *)
(* that is outside and out only of one that is inside.  A topic that its   *)
(* last client gives up is outside.  XEventMonitor is shown to implement   *)
(* this specification.                                                     *)
(***************************************************************************)
CONSTANTS Clients, Topics

VARIABLES
  held,       \* the topics of each client
  inside,     \* topics of which into was said, and not out
  listening,
  heard       \* what the last step said: records of a name and an id

tableVars == <<held, inside, listening, heard>>

TableInit ==
  /\ held = [c \in Clients |-> {}]
  /\ inside = {} /\ listening = FALSE /\ heard = {}

Used(h) == {t \in Topics : \E c \in Clients : t \in h[c]}
Said(name, S) == {t \in Topics : [name |-> name, id |-> t] \in S}

Join(c, t) ==
  /\ t \notin held[c]
  /\ held' = [held EXCEPT ![c] = @ \cup {t}]
  /\ listening' = TRUE
  /\ heard' = {}
  /\ UNCHANGED inside

Leave(c, t) ==
  /\ t \in held[c]
  /\ held' = [held EXCEPT ![c] = @ \ {t}]
  /\ inside' = inside \cap Used(held')
  /\ listening' = (Used(held') # {})
  /\ heard' = {}

Tell ==
  /\ {s.id : s \in heard'} \subseteq Used(held)
  /\ Said("CursorInto", heard') \cap inside = {}
  /\ Said("CursorOut", heard') \subseteq inside
  /\ inside' = (inside \cup Said("CursorInto", heard')) \ Said("CursorOut", heard')
  /\ UNCHANGED <<held, listening>>

TableNext ==
  \/ \E c \in Clients, t \in Topics : Join(c, t) \/ Leave(c, t)
  \/ Tell

RegistrationsSpec == TableInit /\ [][TableNext]_tableVars
=============================================================================
