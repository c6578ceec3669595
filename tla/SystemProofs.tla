---------------------------- MODULE SystemProofs ----------------------------
(***************************************************************************)
(* Proofs about services of the whole system.  The lock service closes     *)
(* each channel once, leaves none without a reader and does not block for  *)
(* ever, for all clients and numbers of conversations; airplane mode knows *)
(* the state of the radios, for every set of them; and the bluetooth       *)
(* service knows the agents of the users, for all users and connections.   *)
(***************************************************************************)
EXTENDS LockService, AirplaneMode, BluetoothAgents, FiniteSetTheorems, SequenceTheorems, TLAPS

TalkPc == {"none", "pam", "lookup", "receive", "received", "finish", "over", "panic"}
TalkRec == [pc : TalkPc, client : Client \cup {"none"}, password : BOOLEAN,
            chan : Talk \cup {NoChan}, prompts : Nat]

Begun == {t \in Talk : talk[t].pc # "none"}
Waiting(t) == talk[t].pc \in {"receive", "received"}

LockTypes ==
  /\ talk \in [Talk -> TalkRec]
  /\ authUserTable \in [Client -> Talk \cup {NoChan}]
  /\ closed \subseteq Begun
  /\ \A t \in Begun : talk[t].client \in Client

(* A channel belongs to the client of the conversation it was made for: in *)
(* the table, and for the conversation that waits for it.                  *)
TableOwn ==
  \A c \in Client : authUserTable[c] # NoChan =>
     authUserTable[c] \in Begun /\ talk[authUserTable[c]].client = c

WaitsOwn ==
  \A t \in Talk : Waiting(t) =>
     talk[t].chan \in Begun /\ talk[talk[t].chan].client = talk[t].client

(* A client that never had two conversations at a time has at most one     *)
(* now; it waits for the channel of the table, which is open, and has not  *)
(* panicked.                                                               *)
OneTalk ==
  \A t, u \in Talk : /\ talk[t].client \notin crossed2 /\ talk[t].client = talk[u].client
                     /\ talk[t].pc \notin {"none", "over"} /\ talk[u].pc \notin {"none", "over"}
                     => t = u

WaitsForTable ==
  \A t \in Talk : Waiting(t) /\ talk[t].client \notin crossed2 =>
     talk[t].chan = authUserTable[talk[t].client]

TableOpen ==
  \A c \in Client \ crossed2 : authUserTable[c] # NoChan => authUserTable[c] \notin closed

TableRead ==
  \A c \in Client \ (crossed2 \cup unstarted) : authUserTable[c] # NoChan =>
     talk[authUserTable[c]].pc # "over"

LockInv ==
  /\ LockTypes /\ TableOwn /\ WaitsOwn /\ OneTalk /\ WaitsForTable /\ TableOpen /\ TableRead
  /\ ClosedOnce

-----------------------------------------------------------------------------
LEMMA TalkFacts == NoChan \notin Talk /\ \A t \in Talk : t \in Nat
<1>1. Talk = 1..Cardinality(Talk) /\ Cardinality(Talk) \in Nat
  BY LockServiceAssumption, FS_CardinalityType
<1> QED
  BY <1>1 DEF NoChan

LEMMA LockInvInit == LockInit => LockInv
<1> SUFFICES ASSUME LockInit PROVE LockInv
  OBVIOUS
<1>1. \A t \in Talk : talk[t] = NoTalk
  BY DEF LockInit
<1>2. NoTalk \in TalkRec
  BY DEF NoTalk, TalkRec, TalkPc
<1>3. LockTypes
  BY <1>1, <1>2 DEF LockTypes, LockInit, Begun, NoTalk
<1> QED
  BY <1>1, <1>3 DEF LockInv, LockInit, TableOwn, WaitsOwn, OneTalk, WaitsForTable, TableOpen,
     TableRead, ClosedOnce, TalkAt, Waiting, NoTalk

(* A new conversation of a client.                                         *)
Begins(t, c) ==
  /\ t \in Talk /\ t \notin Begun
  /\ talk' \in [Talk -> TalkRec]
  /\ talk'[t].pc = "pam" /\ talk'[t].client = c
  /\ \A u \in Talk : u # t => talk'[u] = talk[u]
  /\ Begun' = Begun \cup {t}
  /\ crossed2 \subseteq crossed2'
  /\ \A d \in Client : d # c => (d \in crossed2' <=> d \in crossed2)
  /\ c \notin crossed2' => \A u \in Talk : talk[u].client = c => talk[u].pc \in {"none", "over"}

LEMMA DoAuthenticateFacts ==
  ASSUME LockInv, NEW t, NEW c \in Client, NEW p \in BOOLEAN, DoAuthenticate(t, c, p)
  PROVE  Begins(t, c)
<1> DEFINE r == [NoTalk EXCEPT !.pc = "pam", !.client = c, !.password = p]
<1>1. r \in TalkRec /\ r.pc = "pam" /\ r.client = c
  <2> DEFINE q == [NoTalk EXCEPT !.pc = "pam", !.client = c]
  <2>1. q \in TalkRec /\ q.pc = "pam" /\ q.client = c
    BY DEF NoTalk, TalkRec, TalkPc
  <2>2. r = [q EXCEPT !.password = p]
    BY DEF NoTalk
  <2> HIDE DEF q, r
  <2>3. CASE p = TRUE
    BY <2>1, <2>2, <2>3 DEF TalkRec
  <2>4. CASE p = FALSE
    BY <2>1, <2>2, <2>4 DEF TalkRec
  <2> QED
    BY <2>3, <2>4
<1>2. t \in Talk /\ talk[t].pc = "none" /\ talk' = [talk EXCEPT ![t] = r]
  BY DEF DoAuthenticate, Fresh
<1>3. talk \in [Talk -> TalkRec]
  BY DEF LockInv, LockTypes
<1> HIDE DEF r
<1>4. talk' \in [Talk -> TalkRec] /\ talk'[t] = r /\ \A u \in Talk : u # t => talk'[u] = talk[u]
  BY <1>1, <1>2, <1>3
<1>5. Begun' = Begun \cup {t} /\ t \notin Begun
  BY <1>1, <1>2, <1>4 DEF Begun
<1>6. /\ crossed2 \subseteq crossed2'
      /\ \A d \in Client : d # c => (d \in crossed2' <=> d \in crossed2)
      /\ c \notin crossed2' => Running(c) = {}
  BY DEF DoAuthenticate
<1> QED
  BY <1>1, <1>2, <1>4, <1>5, <1>6 DEF Running, Begins

(* What remains when a new conversation, whose channel may be in the       *)
(* table, begins.                                                          *)
LEMMA NewTalkKeeps ==
  ASSUME LockInv, NEW t, NEW c \in Client, NEW p \in BOOLEAN, DoAuthenticate(t, c, p),
         authUserTable[c] = NoChan,
         authUserTable' \in {authUserTable, [authUserTable EXCEPT ![c] = t]},
         UNCHANGED <<closed, unstarted>>
  PROVE  LockInv'
<1>0. Begins(t, c)
  BY DoAuthenticateFacts
<1>1. /\ t \in Talk /\ t \notin Begun
      /\ talk' \in [Talk -> TalkRec]
      /\ talk'[t].pc = "pam" /\ talk'[t].client = c
      /\ \A u \in Talk : u # t => talk'[u] = talk[u]
      /\ Begun' = Begun \cup {t}
      /\ crossed2 \subseteq crossed2'
      /\ \A d \in Client : d # c => (d \in crossed2' <=> d \in crossed2)
      /\ c \notin crossed2' => \A u \in Talk : talk[u].client = c => talk[u].pc \in {"none", "over"}
  BY <1>0 DEF Begins
<1>2. /\ authUserTable' \in [Client -> Talk \cup {NoChan}]
      /\ authUserTable'[c] \in {NoChan, t}
      /\ \A d \in Client : d # c => authUserTable'[d] = authUserTable[d]
  BY <1>1 DEF LockInv, LockTypes
<1>3. \A u \in Begun : u # t
  BY <1>1
<1>4. LockTypes'
  BY <1>1, <1>2, <1>3 DEF LockInv, LockTypes, Begun
<1>5. TableOwn'
  BY <1>1, <1>2, <1>3 DEF LockInv, TableOwn, Begun
<1>6. WaitsOwn'
  BY <1>1, <1>3 DEF LockInv, WaitsOwn, Waiting, Begun
<1>7. OneTalk'
  BY <1>1 DEF LockInv, LockTypes, OneTalk
<1>8. WaitsForTable'
  BY <1>1, <1>2, <1>3 DEF LockInv, LockTypes, WaitsForTable, Waiting, Begun
<1>9. TableOpen'
  BY <1>1, <1>2 DEF LockInv, LockTypes, TableOpen
<1>10. TableRead'
  BY <1>1, <1>2, <1>3 DEF LockInv, TableRead, TableOwn
<1>11. ClosedOnce'
  BY <1>1 DEF LockInv, ClosedOnce, TalkAt
<1> QED
  BY <1>4, <1>5, <1>6, <1>7, <1>8, <1>9, <1>10, <1>11 DEF LockInv

-----------------------------------------------------------------------------
(* A step of a conversation: it goes from one place to another and stays   *)
(* the conversation of its client, and the others do not move.             *)
Moves(t, from, to) ==
  /\ talk[t].pc = from /\ from # "none" /\ to # "none"
  /\ talk' \in [Talk -> TalkRec]
  /\ talk'[t].pc = to /\ talk'[t].client = talk[t].client
  /\ \A u \in Talk : u # t => talk'[u] = talk[u]
  /\ Begun' = Begun /\ t \in Begun

LEMMA GoMoves ==
  ASSUME LockInv, NEW t \in Talk, NEW from \in TalkPc, NEW to \in TalkPc,
         from # "none", to # "none", TalkAt(t, from), Go(t, to)
  PROVE  Moves(t, from, to) /\ talk'[t].chan = talk[t].chan
<1>1. talk \in [Talk -> TalkRec] /\ talk[t].pc = from /\ talk' = [talk EXCEPT ![t].pc = to]
  BY DEF LockInv, LockTypes, TalkAt, Go
<1>2. [talk[t] EXCEPT !.pc = to] \in TalkRec
  BY <1>1 DEF TalkRec
<1>3. /\ talk' \in [Talk -> TalkRec]
      /\ talk'[t].pc = to /\ talk'[t].client = talk[t].client /\ talk'[t].chan = talk[t].chan
      /\ \A u \in Talk : u # t => talk'[u] = talk[u]
  BY <1>1, <1>2 DEF TalkRec
<1>4. Begun' = Begun /\ t \in Begun
  BY <1>1, <1>3 DEF Begun
<1> QED
  BY <1>1, <1>3, <1>4 DEF Moves

LEMMA MovesTypes ==
  ASSUME LockInv, NEW t \in Talk, NEW from, NEW to, Moves(t, from, to),
         authUserTable' \in [Client -> Talk \cup {NoChan}], closed' \subseteq Begun
  PROVE  LockTypes'
<1>1. \A u \in Begun : u \in Talk /\ talk'[u].client \in Client
  BY DEF LockInv, LockTypes, Moves, Begun
<1> QED
  BY <1>1 DEF LockTypes, Moves

(* A step that leaves the table and the channels alone, does not wait for  *)
(* a channel and does not end the conversation.                            *)
LEMMA QuietStep ==
  ASSUME LockInv, NEW t \in Talk, NEW from, NEW to, Moves(t, from, to),
         from # "over", to \notin {"receive", "received", "over", "panic"},
         UNCHANGED <<authUserTable, closed, crossed2, unstarted>>
  PROVE  LockInv'
<1>1. LockTypes'
  BY MovesTypes DEF LockInv, LockTypes
<1>2. TableOwn'
  BY DEF LockInv, TableOwn, Moves, Begun
<1>3. WaitsOwn'
  BY DEF LockInv, WaitsOwn, Waiting, Moves, Begun
<1>4. OneTalk'
  BY DEF LockInv, OneTalk, Moves
<1>5. WaitsForTable'
  BY DEF LockInv, WaitsForTable, Waiting, Moves
<1>6. TableOpen'
  BY DEF LockInv, TableOpen
<1>7. TableRead'
  BY DEF LockInv, LockTypes, TableRead, Moves
<1>8. ClosedOnce'
  BY DEF LockInv, ClosedOnce, TalkAt, Moves
<1> QED
  BY <1>1, <1>2, <1>3, <1>4, <1>5, <1>6, <1>7, <1>8 DEF LockInv

LEMMA PromptKeeps == ASSUME LockInv, NEW t \in Talk, Prompt(t) PROVE LockInv'
<1> DEFINE to == IF talk[t].password THEN "pam" ELSE "lookup"
<1>1. talk \in [Talk -> TalkRec] /\ talk[t].pc = "pam"
  BY DEF LockInv, LockTypes, Prompt, TalkAt
<1>2. to \in {"pam", "lookup"}
  OBVIOUS
<1>3. talk' = [talk EXCEPT ![t].prompts = talk[t].prompts + 1, ![t].password = FALSE, ![t].pc = to]
  BY <1>1 DEF Prompt
<1> HIDE DEF to
<1>4. Moves(t, "pam", to)
  <2>1. /\ talk' \in [Talk -> TalkRec]
        /\ talk'[t].pc = to /\ talk'[t].client = talk[t].client
        /\ \A u \in Talk : u # t => talk'[u] = talk[u]
    <3> DEFINE r == [talk[t] EXCEPT !.prompts = talk[t].prompts + 1, !.password = FALSE, !.pc = to]
    <3>1. talk' = [talk EXCEPT ![t] = r]
      BY <1>1, <1>3
    <3>2. r \in TalkRec /\ r.pc = to /\ r.client = talk[t].client
      <4>1. talk[t].prompts + 1 \in Nat /\ talk[t] \in TalkRec /\ to \in TalkPc
        BY <1>1, <1>2 DEF TalkRec, TalkPc
      <4>2. ASSUME NEW n \in Nat, NEW q \in TalkRec, NEW k \in TalkPc
            PROVE  [q EXCEPT !.prompts = n, !.password = FALSE, !.pc = k] \in TalkRec
        BY <4>2, Zenon DEF TalkRec
      <4>3. r \in TalkRec
        BY <4>1, <4>2, Zenon
      <4>4. r.pc = to /\ r.client = talk[t].client
        BY <4>1 DEF TalkRec
      <4> QED
        BY <4>3, <4>4
    <3> HIDE DEF r
    <3> QED
      BY <1>1, <3>1, <3>2
  <2>2. Begun' = Begun /\ t \in Begun
    BY <1>1, <1>2, <2>1 DEF Begun
  <2> QED
    BY <1>1, <1>2, <2>1, <2>2 DEF Moves
<1> QED
  BY <1>2, <1>4, QuietStep DEF Prompt

LEMMA LookUpKeeps == ASSUME LockInv, NEW t \in Talk, LookUp(t) PROVE LockInv'
<1> DEFINE ch == authUserTable[talk[t].client]
           to == IF ch = NoChan THEN "finish" ELSE "receive"
<1>1. talk \in [Talk -> TalkRec] /\ talk[t].pc = "lookup" /\ t \in Begun /\ talk[t].client \in Client
  BY DEF LockInv, LockTypes, LookUp, TalkAt, Begun
<1>2. ch \in Talk \cup {NoChan} /\ to \in {"finish", "receive"}
  BY <1>1 DEF LockInv, LockTypes
<1>3. talk' = [talk EXCEPT ![t].chan = ch, ![t].pc = to]
  BY DEF LookUp
<1>4. to = "receive" => ch # NoChan
  OBVIOUS
<1>5. ch # NoChan => ch \in Begun /\ talk[ch].client = talk[t].client
  BY <1>1 DEF LockInv, TableOwn
<1>6. UNCHANGED <<authUserTable, closed, crossed2, unstarted>>
  BY DEF LookUp
<1>7. authUserTable'[talk[t].client] = ch
  BY <1>6
<1> HIDE DEF ch, to
<1>8. Moves(t, "lookup", to) /\ talk'[t].chan = ch
  <2>1. /\ talk' \in [Talk -> TalkRec]
        /\ talk'[t].pc = to /\ talk'[t].client = talk[t].client /\ talk'[t].chan = ch
        /\ \A u \in Talk : u # t => talk'[u] = talk[u]
    BY <1>1, <1>2, <1>3 DEF TalkRec, TalkPc
  <2>2. Begun' = Begun
    BY <1>1, <1>2, <2>1 DEF Begun
  <2> QED
    BY <1>1, <1>2, <2>1, <2>2 DEF Moves
<1>9. CASE to = "finish"
  BY <1>6, <1>8, <1>9, QuietStep
<1>10. CASE to = "receive"
  <2>1. LockTypes'
    BY <1>6, <1>8, MovesTypes DEF LockInv, LockTypes
  <2>2. TableOwn'
    BY <1>6, <1>8 DEF LockInv, TableOwn, Moves, Begun
  <2>3. WaitsOwn'
    BY <1>4, <1>5, <1>8, <1>10 DEF LockInv, WaitsOwn, Waiting, Moves, Begun
  <2>4. OneTalk'
    BY <1>6, <1>8 DEF LockInv, OneTalk, Moves
  <2>5. WaitsForTable'
    BY <1>6, <1>7, <1>8 DEF LockInv, WaitsForTable, Waiting, Moves
  <2>6. TableOpen' /\ TableRead' /\ ClosedOnce'
    BY <1>6, <1>8, <1>10 DEF LockInv, LockTypes, TableOpen, TableRead, ClosedOnce, TalkAt, Moves
  <2> QED
    BY <2>1, <2>2, <2>3, <2>4, <2>5, <2>6 DEF LockInv
<1> QED
  BY <1>2, <1>9, <1>10

LEMMA ReceiveKeeps == ASSUME LockInv, NEW t \in Talk, Receive(t) PROVE LockInv'
<1> DEFINE to == IF talk[t].chan \in buffer THEN "received" ELSE "pam"
<1>1. Moves(t, "receive", to) /\ talk'[t].chan = talk[t].chan
  BY GoMoves DEF Receive, TalkPc
<1>2. UNCHANGED <<authUserTable, closed, crossed2, unstarted>> /\ to \in {"received", "pam"}
  BY DEF Receive
<1> HIDE DEF to
<1>3. CASE to = "pam"
  BY <1>1, <1>2, <1>3, QuietStep
<1>4. CASE to = "received"
  <2>1. LockTypes'
    BY <1>1, <1>2, MovesTypes DEF LockInv, LockTypes
  <2>2. TableOwn'
    BY <1>1, <1>2 DEF LockInv, TableOwn, Moves, Begun
  <2>3. WaitsOwn'
    BY <1>1, <1>2 DEF LockInv, WaitsOwn, Waiting, Moves, Begun
  <2>4. OneTalk'
    BY <1>1, <1>2 DEF LockInv, OneTalk, Moves
  <2>5. WaitsForTable'
    BY <1>1, <1>2 DEF LockInv, WaitsForTable, Waiting, Moves
  <2>6. TableOpen' /\ TableRead' /\ ClosedOnce'
    BY <1>1, <1>2, <1>4 DEF LockInv, LockTypes, TableOpen, TableRead, ClosedOnce, TalkAt, Moves
  <2> QED
    BY <2>1, <2>2, <2>3, <2>4, <2>5, <2>6 DEF LockInv
<1> QED
  BY <1>2, <1>3, <1>4

(* delete and close by the conversation that has read its password.        *)
LEMMA ReceivedKeeps == ASSUME LockInv, NEW t \in Talk, Received(t) PROVE LockInv'
<1> DEFINE c == talk[t].client
           ch == talk[t].chan
           to == IF ch \in closed THEN "panic" ELSE "pam"
<1>1. Moves(t, "received", to)
  BY GoMoves DEF Received, TalkPc
<1>2. /\ Waiting(t) /\ t \in Begun /\ c \in Client
      /\ ch \in Begun /\ talk[ch].client = c
      /\ c \notin crossed2 => ch = authUserTable[c]
  BY DEF LockInv, LockTypes, WaitsOwn, WaitsForTable, Waiting, Received, TalkAt, Begun
<1>3. /\ authUserTable' = [authUserTable EXCEPT ![c] = NoChan]
      /\ closed' = closed \cup {ch}
      /\ UNCHANGED <<crossed2, unstarted>>
  BY DEF Received
<1>4. /\ authUserTable' \in [Client -> Talk \cup {NoChan}]
      /\ authUserTable'[c] = NoChan
      /\ \A d \in Client : d # c => authUserTable'[d] = authUserTable[d]
  BY <1>2, <1>3 DEF LockInv, LockTypes
<1>5. to \in {"panic", "pam"} /\ (to = "panic" => ch \in closed)
  OBVIOUS
<1>6. \A d \in Client : d # c => authUserTable[d] # ch
  BY <1>2, TalkFacts DEF LockInv, TableOwn, Begun
<1>7. c \notin crossed2 => ch \notin closed
  BY <1>2, TalkFacts DEF LockInv, TableOpen, Begun
<1>8. \A u \in Talk : u # t /\ Waiting(u) /\ talk[u].client \notin crossed2 => talk[u].client # c
  BY <1>2 DEF LockInv, OneTalk, Waiting
<1>9. \A u \in Talk : Waiting(u) => talk[u].client \in Client
  BY DEF LockInv, LockTypes, Waiting, Begun
<1>10. talk'[t].client = c
  BY <1>1 DEF Moves
<1> HIDE DEF c, ch, to
<1>11. LockTypes'
  BY <1>1, <1>2, <1>3, <1>4, MovesTypes DEF LockInv, LockTypes
<1>12. TableOwn'
  BY <1>1, <1>4 DEF LockInv, TableOwn, Moves, Begun
<1>13. WaitsOwn'
  BY <1>1, <1>5 DEF LockInv, WaitsOwn, Waiting, Moves, Begun
<1>14. OneTalk'
  BY <1>1, <1>3 DEF LockInv, OneTalk, Moves
<1>15. WaitsForTable'
  BY <1>1, <1>3, <1>4, <1>5, <1>8, <1>9 DEF LockInv, WaitsForTable, Waiting, Moves
<1>16. TableOpen'
  BY <1>3, <1>4, <1>6 DEF LockInv, TableOpen
<1>17. TableRead'
  BY <1>1, <1>3, <1>4, <1>5 DEF LockInv, LockTypes, TableRead, Moves
<1>18. ClosedOnce'
  BY <1>1, <1>3, <1>5, <1>7, <1>10 DEF LockInv, ClosedOnce, TalkAt, Moves
<1> QED
  BY <1>11, <1>12, <1>13, <1>14, <1>15, <1>16, <1>17, <1>18 DEF LockInv

LEMMA PamStartFailsKeeps == ASSUME LockInv, NEW t \in Talk, PamStartFails(t) PROVE LockInv'
<1>1. Moves(t, "pam", "over")
  BY GoMoves DEF PamStartFails, TalkPc
<1>2. UNCHANGED <<authUserTable, closed, crossed2>> /\ unstarted' = unstarted \cup {talk[t].client}
  BY DEF PamStartFails
<1>3. \A c \in Client : authUserTable[c] = t => c = talk[t].client
  BY TalkFacts DEF LockInv, TableOwn
<1>4. LockTypes'
  BY <1>1, <1>2, MovesTypes DEF LockInv, LockTypes
<1>5. TableOwn'
  BY <1>1, <1>2 DEF LockInv, TableOwn, Moves, Begun
<1>6. WaitsOwn'
  BY <1>1 DEF LockInv, WaitsOwn, Waiting, Moves, Begun
<1>7. OneTalk'
  BY <1>1, <1>2 DEF LockInv, OneTalk, Moves
<1>8. WaitsForTable'
  BY <1>1, <1>2 DEF LockInv, WaitsForTable, Waiting, Moves
<1>9. TableOpen'
  BY <1>2 DEF LockInv, TableOpen
<1>10. TableRead'
  BY <1>1, <1>2, <1>3 DEF LockInv, LockTypes, TableRead, Moves
<1>11. ClosedOnce'
  BY <1>1, <1>2 DEF LockInv, ClosedOnce, TalkAt, Moves
<1> QED
  BY <1>4, <1>5, <1>6, <1>7, <1>8, <1>9, <1>10, <1>11 DEF LockInv

(* The end of a conversation removes and closes the channel of its client. *)
LEMMA FinishTalkKeeps == ASSUME LockInv, NEW t \in Talk, FinishTalk(t) PROVE LockInv'
<1> DEFINE c == talk[t].client
           ch == authUserTable[c]
           to == IF ch \in closed THEN "panic" ELSE "over"
<1>1. Moves(t, "finish", to)
  BY GoMoves DEF FinishTalk, TalkPc
<1>2. t \in Begun /\ c \in Client /\ talk[t].pc = "finish"
  BY DEF LockInv, LockTypes, FinishTalk, TalkAt, Begun
<1>3. /\ authUserTable' = [authUserTable EXCEPT ![c] = NoChan]
      /\ closed' = IF ch = NoChan THEN closed ELSE closed \cup {ch}
      /\ UNCHANGED <<crossed2, unstarted>>
  BY DEF FinishTalk
<1>4. /\ authUserTable' \in [Client -> Talk \cup {NoChan}]
      /\ authUserTable'[c] = NoChan
      /\ \A d \in Client : d # c => authUserTable'[d] = authUserTable[d]
  BY <1>2, <1>3 DEF LockInv, LockTypes
<1>5. to \in {"panic", "over"} /\ (to = "panic" => ch \in closed)
  OBVIOUS
<1>6. \A d \in Client : d # c /\ ch # NoChan => authUserTable[d] # ch
  BY <1>2 DEF LockInv, TableOwn
<1>7. ch # NoChan => ch \in Begun
  BY <1>2 DEF LockInv, TableOwn
<1>8. c \notin crossed2 => ch \notin closed
  BY <1>2, TalkFacts DEF LockInv, LockTypes, TableOpen, Begun
<1>9. \A u \in Talk : u # t /\ Waiting(u) /\ talk[u].client \notin crossed2 => talk[u].client # c
  BY <1>2 DEF LockInv, OneTalk, Waiting
<1>10. \A u \in Talk : Waiting(u) => talk[u].client \in Client
  BY DEF LockInv, LockTypes, Waiting, Begun
<1>11. talk'[t].client = c
  BY <1>1 DEF Moves
<1>12. \A d \in Client : authUserTable[d] = t => d = c
  BY TalkFacts DEF LockInv, TableOwn
<1> HIDE DEF c, ch, to
<1>13. LockTypes'
  BY <1>1, <1>3, <1>4, <1>7, MovesTypes DEF LockInv, LockTypes
<1>14. TableOwn'
  BY <1>1, <1>4 DEF LockInv, TableOwn, Moves, Begun
<1>15. WaitsOwn'
  BY <1>1, <1>5 DEF LockInv, WaitsOwn, Waiting, Moves, Begun
<1>16. OneTalk'
  BY <1>1, <1>3 DEF LockInv, OneTalk, Moves
<1>17. WaitsForTable'
  BY <1>1, <1>3, <1>4, <1>5, <1>9, <1>10 DEF LockInv, WaitsForTable, Waiting, Moves
<1>18. TableOpen'
  BY <1>3, <1>4, <1>6 DEF LockInv, TableOpen
<1>19. TableRead'
  BY <1>1, <1>3, <1>4, <1>12 DEF LockInv, LockTypes, TableRead, Moves
<1>20. ClosedOnce'
  BY <1>1, <1>3, <1>5, <1>8, <1>11 DEF LockInv, ClosedOnce, TalkAt, Moves
<1> QED
  BY <1>13, <1>14, <1>15, <1>16, <1>17, <1>18, <1>19, <1>20 DEF LockInv

LEMMA LockStep == LockInv /\ [LockNext]_lockServiceVars => LockInv'
<1> SUFFICES ASSUME LockInv, [LockNext]_lockServiceVars PROVE LockInv'
  OBVIOUS
<1>1. ASSUME UNCHANGED <<authUserTable, closed, talk, crossed2, unstarted>> PROVE LockInv'
  BY <1>1 DEF LockInv, LockTypes, TableOwn, WaitsOwn, OneTalk, WaitsForTable, TableOpen, TableRead,
     ClosedOnce, TalkAt, Waiting, Begun
<1>2. CASE AuthenticateNoPid
  BY <1>1, <1>2 DEF AuthenticateNoPid
<1>3. ASSUME NEW c \in Client, AuthenticateUser(c) PROVE LockInv'
  <2>1. PICK t \in Talk : /\ DoAuthenticate(t, c, FALSE)
                          /\ authUserTable' = [authUserTable EXCEPT ![c] = t]
    BY <1>3 DEF AuthenticateUser
  <2>2. authUserTable[c] = NoChan /\ UNCHANGED <<closed, unstarted>>
    BY <1>3 DEF AuthenticateUser
  <2> QED
    BY <2>1, <2>2, NewTalkKeeps
<1>4. ASSUME NEW c \in Client, UnlockCheck(c) PROVE LockInv'
  <2>1. UNCHANGED <<authUserTable, closed, unstarted>>
    BY <1>4 DEF UnlockCheck
  <2>2. CASE authUserTable[c] # NoChan
    <3>1. UNCHANGED <<talk, crossed2>>
      BY <1>4, <2>2 DEF UnlockCheck
    <3> QED
      BY <1>1, <2>1, <3>1
  <2>3. CASE authUserTable[c] = NoChan
    <3>1. PICK t \in Talk : DoAuthenticate(t, c, TRUE)
      BY <1>4, <2>3 DEF UnlockCheck
    <3> QED
      BY <2>1, <2>3, <3>1, NewTalkKeeps
  <2> QED
    BY <2>2, <2>3
<1>5. ASSUME NEW c \in Client, SendPassword(c) PROVE LockInv'
  BY <1>1, <1>5 DEF SendPassword
<1>6. ASSUME NEW t \in Talk, TalkStep(t) PROVE LockInv'
  <2>1. CASE PamEnds(t)
    <3>1. Moves(t, "pam", "finish") /\ UNCHANGED <<authUserTable, closed, crossed2, unstarted>>
      BY <2>1, GoMoves DEF PamEnds, TalkPc
    <3> QED
      BY <3>1, QuietStep
  <2> QED
    BY <1>6, <2>1, PromptKeeps, LookUpKeeps, ReceiveKeeps, ReceivedKeeps, PamStartFailsKeeps,
       FinishTalkKeeps DEF TalkStep
<1>7. CASE UNCHANGED lockServiceVars
  BY <1>1, <1>7 DEF lockServiceVars
<1> QED
  BY <1>2, <1>3, <1>4, <1>5, <1>6, <1>7 DEF LockNext

(* ChannelsInOrder (bin/dde-lockservice/manager.go): whatever the calls of *)
(* the clients and the progress of PAM, a channel of authUserTable has a   *)
(* conversation that reads it and is open, and no channel is closed twice, *)
(* as long as a client has one conversation at a time.                     *)
THEOREM ChannelsAlwaysInOrder == LockSpec => []ChannelsInOrder
<1>1. LockInv => ChannelsInOrder
  <2> SUFFICES ASSUME LockInv PROVE ChannelHasReader
    BY DEF LockInv, ChannelsInOrder
  <2> QED
    BY TalkFacts DEF LockInv, LockTypes, TableOwn, TableOpen, TableRead, ChannelHasReader, Running,
       Begun
<1> QED
  BY <1>1, LockInvInit, LockStep, PTL DEF LockSpec

-----------------------------------------------------------------------------
(* Whoever has authLocker gives it back, as long as callers are found and  *)
(* no password comes before its time: the send that keeps the lock can     *)
(* end, and no conversation that could make room for it needs the lock.    *)

\* The send has room, or a conversation that reads makes room.
SendCanEnd(c) ==
  /\ authUserTable[c] # NoChan
  /\ authUserTable[c] \notin buffer \/ \E t \in Talk : Reads(t, authUserTable[c])

ConversationCanGoOn ==
  noPids = 0 /\ ~jammed => locker = "free" \/ \E c \in Client : locker = c /\ SendCanEnd(c)

LockerInv ==
  /\ noPids \in Nat /\ jammed \in BOOLEAN
  /\ locker \in Client \cup {"free", "lost"}
  /\ locker = "lost" => noPids > 0
  /\ ~jammed => \A c \in Client : locker = c => SendCanEnd(c)

LEMMA LockerInit == LockInit => LockerInv
<1> SUFFICES ASSUME LockInit PROVE LockerInv
  OBVIOUS
<1>1. locker = "free" /\ "free" \notin Client /\ noPids = 0 /\ jammed = FALSE
  BY LockServiceAssumption DEF LockInit
<1> QED
  BY <1>1 DEF LockerInv

\* As long as the lock is kept the table stays, and a conversation that does
\* not receive leaves the readers and the channels alone.
LEMMA OthersRead ==
  ASSUME LockerInv, NEW t \in Talk, talk[t].pc # "receive",
         \A u \in Talk \ {t} : talk'[u] = talk[u],
         locker = "free" \/ authUserTable' = authUserTable,
         UNCHANGED <<buffer, locker, noPids, jammed>>
  PROVE  LockerInv'
<1>1. ASSUME NEW c \in Client, locker' = c, ~jammed' PROVE SendCanEnd(c)'
  <2>1. SendCanEnd(c) /\ UNCHANGED <<authUserTable, buffer>>
    BY <1>1, LockServiceAssumption DEF LockerInv
  <2> QED
    BY <2>1 DEF SendCanEnd, Reads
<1> QED
  BY <1>1 DEF LockerInv

LEMMA TalkLocker ==
  ASSUME LockInv, LockerInv, NEW t \in Talk, TalkStep(t)
  PROVE  LockerInv'
<1>0. talk \in [Talk -> TalkRec]
  BY DEF LockInv, LockTypes
<1>1. CASE ~Receive(t)
  <2>1. talk[t].pc # "receive" /\ (locker = "free" \/ authUserTable' = authUserTable)
    BY <1>1 DEF TalkStep, PamStartFails, PamEnds, Prompt, LookUp, Received, FinishTalk, TalkAt
  <2>2. UNCHANGED <<buffer, locker, noPids, jammed>>
    BY <1>1 DEF TalkStep, PamStartFails, PamEnds, Prompt, LookUp, Received, FinishTalk
  <2>3. \A u \in Talk \ {t} : talk'[u] = talk[u]
    BY <1>0, <1>1 DEF TalkStep, PamStartFails, PamEnds, Prompt, LookUp, Received, FinishTalk, Go
  <2> QED
    BY <2>1, <2>2, <2>3, OthersRead
<1>2. CASE Receive(t)
  <2>1. \A u \in Talk \ {t} : talk'[u] = talk[u]
    BY <1>0, <1>2 DEF Receive, Go
  <2>2. ASSUME NEW c \in Client, locker' = c, ~jammed' PROVE SendCanEnd(c)'
    <3>1. SendCanEnd(c) /\ buffer' = buffer \ {talk[t].chan} /\ UNCHANGED authUserTable
      BY <1>2, <2>2 DEF Receive, LockerInv
    <3>2. CASE authUserTable[c] = talk[t].chan
      BY <3>1, <3>2 DEF SendCanEnd
    <3>3. CASE authUserTable[c] # talk[t].chan
      BY <3>1, <3>3, <2>1 DEF SendCanEnd, Reads
    <3> QED
      BY <3>2, <3>3
  <2> QED
    BY <1>2, <2>2 DEF Receive, LockerInv
<1> QED
  BY <1>1, <1>2

LEMMA LockerStep == LockInv /\ LockerInv /\ [LockNext]_lockServiceVars => LockerInv'
<1> SUFFICES ASSUME LockInv, LockerInv, [LockNext]_lockServiceVars PROVE LockerInv'
  OBVIOUS
<1>1. CASE UNCHANGED lockServiceVars
  BY <1>1 DEF lockServiceVars, LockerInv, SendCanEnd, Reads
<1>2. CASE AuthenticateNoPid
  BY <1>2, LockServiceAssumption DEF AuthenticateNoPid, LockerInv
<1>3. ASSUME NEW c \in Client, AuthenticateUser(c) PROVE LockerInv'
  BY <1>3, LockServiceAssumption DEF AuthenticateUser, LockerInv
<1>4. ASSUME NEW c \in Client, UnlockCheck(c) PROVE LockerInv'
  <2>1. locker = "free" /\ UNCHANGED <<authUserTable, noPids>>
    BY <1>4 DEF UnlockCheck
  <2>2. CASE locker' = locker /\ jammed' \in BOOLEAN
    BY <2>1, <2>2, LockServiceAssumption DEF LockerInv
  <2>3. CASE authUserTable[c] # NoChan /\ authUserTable[c] \in buffer
    <3>1. /\ locker' = c /\ UNCHANGED <<buffer, talk>>
          /\ jammed' = (jammed \/ ~\E t \in Talk : Reads(t, authUserTable[c]))
      BY <1>4, <2>3 DEF UnlockCheck
    <3>2. ~jammed' => SendCanEnd(c)'
      BY <2>1, <2>3, <3>1 DEF SendCanEnd, Reads
    <3> QED
      BY <2>1, <3>1, <3>2, LockServiceAssumption DEF LockerInv
  <2> QED
    BY <1>4, <2>2, <2>3 DEF UnlockCheck, LockerInv
<1>5. ASSUME NEW c \in Client, SendPassword(c) PROVE LockerInv'
  BY <1>5, LockServiceAssumption DEF SendPassword, LockerInv
<1> QED
  BY <1>1, <1>2, <1>3, <1>4, <1>5, TalkLocker DEF LockNext

(* A conversation that needs authLocker can have it, or it waits for a     *)
(* password whose send can end without the lock, for every set of clients  *)
(* and conversations: UnlockCheck sends with the lock held, and the        *)
(* conversations take it around the channel.  Excepted are a caller that   *)
(* was not found and a password that nobody was going to read.             *)
THEOREM ConversationsCanAlwaysGoOn == LockSpec => []ConversationCanGoOn
<1>1. LockerInv => ConversationCanGoOn
  BY DEF LockerInv, ConversationCanGoOn
<1> QED
  BY <1>1, LockInvInit, LockStep, LockerInit, LockerStep, PTL DEF LockSpec

-----------------------------------------------------------------------------
(* Airplane mode.  What an event says, and what a queue of events says: of *)
(* each radio, what its last event says.                                   *)
RfEvent == [op : {"add", "change", "del"}, index : Device, soft : BOOLEAN, hard : BOOLEAN]

Tells(e, p, s, h) ==
  /\ e.op # "del" <=> e.index \in p
  /\ e.soft <=> e.index \in s
  /\ e.hard <=> e.index \in h

LastOf(q, i) == \A j \in 1..Len(q) : j > i => q[j].index # q[i].index
QueueTells(q, p, s, h) == \A i \in 1..Len(q) : LastOf(q, i) => Tells(q[i], p, s, h)

(* The radios the queue says nothing of are as the daemon knows them.      *)
Agree(d, S, T) == d \in S <=> d \in T
Silent(q, d) == \A i \in 1..Len(q) : q[i].index # d
RestKnown(q, p, s, h, D, S, H) ==
  \A d \in Device : Silent(q, d) => Agree(d, D, p) /\ Agree(d, S, s) /\ Agree(d, H, h)

AirTypes ==
  /\ present \subseteq Device /\ soft \subseteq present /\ hard \subseteq present
  /\ events \in Seq(RfEvent)
  /\ devices \subseteq Device /\ dsoft \subseteq devices /\ dhard \subseteq devices
  /\ heard \subseteq RfkillType
  /\ prop \in [Published -> BOOLEAN]
  /\ config \in [RfkillType -> BOOLEAN] /\ file \in [RfkillType -> BOOLEAN]
  /\ fails \in Nat

(* A daemon that does not listen knows nothing.                            *)
NotListening == pc # "run" => events = <<>> /\ devices = {} /\ heard = {}

EventsKnown ==
  pc = "run" => /\ QueueTells(events, present, soft, hard)
                /\ RestKnown(events, present, soft, hard, devices, dsoft, dhard)

(* The properties and the saved state tell what the daemon knows.          *)
PropsKnown == \A t \in Published \cap heard : prop[t] = AllIn(OfType(devices, t), dsoft \cup dhard)
ConfigKnown == \A t \in heard : config[t] = AllIn(OfType(devices, t), dsoft)
FileKnown == fails = 0 => \A t \in heard : file[t] = config[t]

AirInv == AirTypes /\ NotListening /\ EventsKnown /\ PropsKnown /\ ConfigKnown /\ FileKnown

-----------------------------------------------------------------------------
(* The radios of a set have different ranks, so each is at its rank.       *)
LEMMA OrderedFacts ==
  ASSUME NEW S, S \subseteq Device
  PROVE  /\ Cardinality(S) \in Nat
         /\ \A i \in 1..Cardinality(S) : Ordered(S)[i] \in S
         /\ \A d \in S : \E i \in 1..Cardinality(S) : Ordered(S)[i] = d
<1> DEFINE n == Cardinality(S)
           low(d) == {e \in S : e <= d}
           rank == [d \in S |-> Cardinality(low(d))]
<1>1. IsFiniteSet(S) /\ n \in Nat /\ S \subseteq Nat
  BY AirplaneAssumption, FS_Subset, FS_CardinalityType
<1>2. \A d \in S : /\ IsFiniteSet(low(d)) /\ Cardinality(low(d)) \in 1..n
                   /\ low(d) \in SUBSET S /\ d \in low(d)
  <2> SUFFICES ASSUME NEW d \in S
               PROVE /\ IsFiniteSet(low(d)) /\ Cardinality(low(d)) \in 1..n
                     /\ low(d) \in SUBSET S /\ d \in low(d)
    OBVIOUS
  <2>1. low(d) \in SUBSET S /\ d \in low(d)
    BY <1>1
  <2> HIDE DEF low
  <2>2. IsFiniteSet(low(d)) /\ Cardinality(low(d)) <= n
    BY <1>1, <2>1, FS_Subset
  <2>3. Cardinality(low(d)) \in Nat /\ Cardinality(low(d)) # 0
    BY <2>1, <2>2, FS_CardinalityType, FS_EmptySet
  <2> QED
    BY <1>1, <2>1, <2>2, <2>3
<1>3. \A d, e \in S : Cardinality(low(d)) = Cardinality(low(e)) => d = e
  <2>1. ASSUME NEW d \in S, NEW e \in S, d < e, Cardinality(low(d)) = Cardinality(low(e))
        PROVE  FALSE
    <3>1. low(d) \in SUBSET low(e) /\ e \notin low(d)
      <4>1. d \in Nat /\ e \in Nat /\ ~(e <= d)
        BY <1>1, <2>1
      <4>2. \A x \in low(d) : x \in S /\ x \in Nat /\ x <= e
        BY <1>1, <2>1, <4>1
      <4> QED
        BY <4>1, <4>2
    <3>2. IsFiniteSet(low(e)) /\ e \in low(e)
      BY <1>2
    <3> HIDE DEF low
    <3> QED
      BY <2>1, <3>1, <3>2, FS_Subset
  <2> HIDE DEF low
  <2> QED
    BY <1>1, <2>1
<1> HIDE DEF low
<1>4. rank \in Injection(S, 1..n)
  <2>1. rank \in [S -> 1..n]
    BY <1>2
  <2>2. \A d, e \in S : rank[d] = rank[e] => d = e
    BY <1>3
  <2> QED
    BY <2>1, <2>2 DEF Injection, IsInjective
<1>5. IsFiniteSet(1..n) /\ Cardinality(1..n) = n
  BY <1>1, FS_Interval
<1> HIDE DEF rank
<1>6. rank \in Surjection(S, 1..n)
  BY <1>4, <1>5, FS_Injection
<1>7. \A i \in 1..n : \E d \in S : Cardinality(low(d)) = i
  BY <1>6 DEF Surjection, rank
<1>8. \A i \in 1..n : Ordered(S)[i] = CHOOSE d \in S : Cardinality(low(d)) = i
  BY DEF Ordered, low
<1>9. \A i \in 1..n : Ordered(S)[i] \in S /\ Cardinality(low(Ordered(S)[i])) = i
  BY <1>7, <1>8
<1>10. \A d \in S : Ordered(S)[Cardinality(low(d))] = d
  BY <1>2, <1>3, <1>9
<1> QED
  BY <1>1, <1>2, <1>9, <1>10

LEMMA EventFacts ==
  ASSUME NEW op \in {"add", "change", "del"}, NEW d \in Device, NEW s, NEW h
  PROVE  /\ Event(op, d, s, h) \in RfEvent
         /\ Event(op, d, s, h).op = op /\ Event(op, d, s, h).index = d
         /\ Event(op, d, s, h).soft <=> d \in s
         /\ Event(op, d, s, h).hard <=> d \in h
<1>1. (d \in s) \in BOOLEAN /\ (d \in h) \in BOOLEAN
  OBVIOUS
<1>2. ASSUME NEW x \in BOOLEAN, NEW y \in BOOLEAN
      PROVE  [op |-> op, index |-> d, soft |-> x, hard |-> y] \in RfEvent
  BY <1>2, Zenon DEF RfEvent
<1> QED
  BY <1>1, <1>2, Zenon DEF Event

Reports(q, op, S, s, h) ==
  /\ q \in Seq(RfEvent)
  /\ \A i \in 1..Len(q) : /\ q[i].op = op /\ q[i].index \in S
                          /\ q[i].soft <=> q[i].index \in s
                          /\ q[i].hard <=> q[i].index \in h
  /\ \A d \in S : \E i \in 1..Len(q) : q[i].index = d

LEMMA EventsOfFacts ==
  ASSUME NEW op \in {"add", "change", "del"}, NEW S, S \subseteq Device, NEW s, NEW h, NEW q,
         q = EventsOf(op, S, s, h)
  PROVE  Reports(q, op, S, s, h)
<1>1. /\ Cardinality(S) \in Nat
      /\ \A i \in 1..Cardinality(S) : Ordered(S)[i] \in S
      /\ \A d \in S : \E i \in 1..Cardinality(S) : Ordered(S)[i] = d
  BY OrderedFacts
<1>2. /\ q = [i \in 1..Cardinality(S) |-> Event(op, Ordered(S)[i], s, h)]
      /\ \A i \in 1..Cardinality(S) : q[i] = Event(op, Ordered(S)[i], s, h)
  BY DEF EventsOf
<1>3. \A i \in 1..Cardinality(S) : /\ q[i] \in RfEvent
                                   /\ q[i].op = op /\ q[i].index = Ordered(S)[i]
                                   /\ q[i].soft <=> q[i].index \in s
                                   /\ q[i].hard <=> q[i].index \in h
  BY <1>1, <1>2, EventFacts
<1>4. q \in Seq(RfEvent) /\ Len(q) = Cardinality(S)
  BY <1>1, <1>2, <1>3
<1> QED
  BY <1>1, <1>3, <1>4 DEF Reports

(* Events about the radios of S are put behind the queue when those radios *)
(* change.                                                                 *)
LEMMA ReportTells ==
  ASSUME NEW q \in Seq(RfEvent), NEW r \in Seq(RfEvent), NEW S, S \subseteq Device,
         NEW p, NEW s, NEW h, NEW p2, NEW s2, NEW h2, NEW D, NEW B, NEW H,
         \A i \in 1..Len(r) : r[i].index \in S /\ Tells(r[i], p2, s2, h2),
         \A d \in S : \E i \in 1..Len(r) : r[i].index = d,
         \A d \in Device \ S : Agree(d, p2, p) /\ Agree(d, s2, s) /\ Agree(d, h2, h),
         QueueTells(q, p, s, h), RestKnown(q, p, s, h, D, B, H)
  PROVE  /\ q \o r \in Seq(RfEvent)
         /\ QueueTells(q \o r, p2, s2, h2)
         /\ RestKnown(q \o r, p2, s2, h2, D, B, H)
<1> DEFINE qr == q \o r
<1>1. /\ qr \in Seq(RfEvent) /\ Len(qr) = Len(q) + Len(r)
      /\ \A i \in 1..Len(q) : qr[i] = q[i]
      /\ \A i \in 1..Len(r) : qr[Len(q) + i] = r[i]
      /\ \A i \in 1..Len(qr) : i > Len(q) => i - Len(q) \in 1..Len(r) /\ qr[i] = r[i - Len(q)]
  OBVIOUS
<1>2. Len(q) \in Nat /\ Len(r) \in Nat /\ \A i \in 1..Len(q) : q[i].index \in Device
  <2>1. \A i \in 1..Len(q) : q[i] \in RfEvent
    OBVIOUS
  <2>2. \A e \in RfEvent : e.index \in Device
    BY Zenon DEF RfEvent
  <2> QED
    BY <2>1, <2>2
<1> HIDE DEF qr
<1>3. ASSUME NEW d \in S PROVE \E j \in 1..Len(qr) : j > Len(q) /\ qr[j].index = d
  <2>1. PICK i \in 1..Len(r) : r[i].index = d
    OBVIOUS
  <2>2. Len(q) + i \in 1..Len(qr) /\ Len(q) + i > Len(q)
    BY <1>1, <1>2
  <2> QED
    BY <1>1, <2>1, <2>2
<1>4. QueueTells(qr, p2, s2, h2)
  <2> SUFFICES ASSUME NEW i \in 1..Len(qr), LastOf(qr, i) PROVE Tells(qr[i], p2, s2, h2)
    BY DEF QueueTells
  <2>1. CASE i > Len(q)
    BY <1>1, <2>1
  <2>2. CASE ~(i > Len(q))
    <3>1. i \in 1..Len(q) /\ qr[i] = q[i]
      BY <1>1, <1>2, <2>2
    <3>2. q[i].index \in Device \ S
      <4>1. ASSUME q[i].index \in S PROVE FALSE
        <5>1. PICK j \in 1..Len(qr) : j > Len(q) /\ qr[j].index = q[i].index
          BY <1>3, <4>1
        <5>2. j > i
          BY <1>2, <3>1, <5>1
        <5> QED
          BY <3>1, <5>1, <5>2 DEF LastOf
      <4> QED
        BY <1>2, <3>1, <4>1
    <3>3. LastOf(q, i)
      <4> SUFFICES ASSUME NEW j \in 1..Len(q), j > i PROVE q[j].index # q[i].index
        BY DEF LastOf
      <4>1. j \in 1..Len(qr) /\ qr[j] = q[j]
        BY <1>1, <1>2
      <4> QED
        BY <3>1, <4>1 DEF LastOf
    <3>4. Tells(q[i], p, s, h)
      BY <3>1, <3>3 DEF QueueTells
    <3>5. Agree(q[i].index, p2, p) /\ Agree(q[i].index, s2, s) /\ Agree(q[i].index, h2, h)
      BY <3>2
    <3> QED
      BY <3>1, <3>4, <3>5 DEF Tells, Agree
  <2> QED
    BY <2>1, <2>2
<1>5. RestKnown(qr, p2, s2, h2, D, B, H)
  <2> SUFFICES ASSUME NEW d \in Device, Silent(qr, d)
               PROVE  Agree(d, D, p2) /\ Agree(d, B, s2) /\ Agree(d, H, h2)
    BY DEF RestKnown
  <2>1. d \notin S
    BY <1>3 DEF Silent
  <2>2. Silent(q, d)
    <3>1. \A j \in 1..Len(q) : j \in 1..Len(qr) /\ qr[j] = q[j]
      BY <1>1, <1>2
    <3> QED
      BY <3>1 DEF Silent
  <2>3. Agree(d, D, p) /\ Agree(d, B, s) /\ Agree(d, H, h)
    BY <2>2 DEF RestKnown
  <2>4. Agree(d, p2, p) /\ Agree(d, s2, s) /\ Agree(d, h2, h)
    BY <2>1
  <2> QED
    BY <2>3, <2>4 DEF Agree
<1> QED
  BY <1>1, <1>4, <1>5 DEF qr

(* The first event is read.                                                *)
LEMMA ReadTells ==
  ASSUME NEW q \in Seq(RfEvent), q # <<>>, NEW p, NEW s, NEW h,
         NEW D, NEW B, NEW H, NEW D2, NEW B2, NEW H2,
         QueueTells(q, p, s, h), RestKnown(q, p, s, h, D, B, H),
         Head(q).index \in D2 <=> Head(q).op # "del",
         Head(q).index \in B2 <=> Head(q).op # "del" /\ Head(q).soft,
         Head(q).index \in H2 <=> Head(q).op # "del" /\ Head(q).hard,
         s \subseteq p, h \subseteq p,
         \A d \in Device : d # Head(q).index => Agree(d, D2, D) /\ Agree(d, B2, B) /\ Agree(d, H2, H)
  PROVE  /\ Tail(q) \in Seq(RfEvent)
         /\ QueueTells(Tail(q), p, s, h)
         /\ RestKnown(Tail(q), p, s, h, D2, B2, H2)
<1> DEFINE r == Tail(q)
<1>1. /\ r \in Seq(RfEvent) /\ Len(q) \in Nat /\ Len(q) = Len(r) + 1 /\ Len(r) \in Nat
      /\ Head(q) = q[1]
      /\ \A i \in 1..Len(r) : r[i] = q[i + 1] /\ i + 1 \in 1..Len(q)
      /\ \A i \in 1..Len(q) : i > 1 => i - 1 \in 1..Len(r) /\ r[i - 1] = q[i]
  OBVIOUS
<1> HIDE DEF r
<1>2. QueueTells(r, p, s, h)
  <2> SUFFICES ASSUME NEW i \in 1..Len(r), LastOf(r, i) PROVE Tells(r[i], p, s, h)
    BY DEF QueueTells
  <2>1. LastOf(q, i + 1)
    <3> SUFFICES ASSUME NEW j \in 1..Len(q), j > i + 1 PROVE q[j].index # q[i + 1].index
      BY DEF LastOf
    <3>1. j - 1 \in 1..Len(r) /\ r[j - 1] = q[j] /\ j - 1 > i
      BY <1>1
    <3>2. r[j - 1].index # r[i].index
      BY <3>1 DEF LastOf
    <3> QED
      BY <1>1, <3>1, <3>2
  <2> QED
    BY <1>1, <2>1 DEF QueueTells
<1>3. RestKnown(r, p, s, h, D2, B2, H2)
  <2> SUFFICES ASSUME NEW d \in Device, Silent(r, d)
               PROVE  Agree(d, D2, p) /\ Agree(d, B2, s) /\ Agree(d, H2, h)
    BY DEF RestKnown
  <2>1. \A i \in 1..Len(q) : i > 1 => q[i].index # d
    BY <1>1 DEF Silent
  <2>2. CASE d = q[1].index
    <3>1. LastOf(q, 1) /\ 1 \in 1..Len(q)
      BY <1>1, <2>1, <2>2 DEF LastOf
    <3>2. Tells(q[1], p, s, h)
      BY <3>1 DEF QueueTells
    <3> QED
      BY <1>1, <2>2, <3>2 DEF Tells, Agree
  <2>3. CASE d # q[1].index
    <3>1. Silent(q, d)
      BY <1>1, <2>1, <2>3 DEF Silent
    <3>2. Agree(d, D, p) /\ Agree(d, B, s) /\ Agree(d, H, h)
      BY <3>1 DEF RestKnown
    <3>3. Agree(d, D2, D) /\ Agree(d, B2, B) /\ Agree(d, H2, H)
      BY <1>1, <2>3
    <3> QED
      BY <3>2, <3>3 DEF Agree
  <2> QED
    BY <2>2, <2>3
<1> QED
  BY <1>1, <1>2, <1>3 DEF r

-----------------------------------------------------------------------------
LEMMA AirInvInit == AirplaneInit => AirInv
<1> SUFFICES ASSUME AirplaneInit PROVE AirInv
  OBVIOUS
<1>1. AirTypes
  BY DEF AirplaneInit, AirTypes, AllFalse, Published, RfkillType, RadioType
<1> QED
  BY <1>1 DEF AirplaneInit, AirInv, NotListening, EventsKnown, PropsKnown, ConfigKnown, FileKnown

(* A change in the kernel: of the radios of S, which are reported.         *)
LEMMA KernelStep ==
  ASSUME AirInv, NEW op \in {"add", "change", "del"}, NEW S, S \subseteq Device, NEW s, NEW h,
         Report(op, S, s, h),
         present' \subseteq Device, s \subseteq present', h \subseteq present',
         \A d \in S : op # "del" <=> d \in present',
         \A d \in Device \ S : Agree(d, present', present) /\ Agree(d, s, soft) /\ Agree(d, h, hard),
         UNCHANGED <<devices, dsoft, dhard, config, file, heard>>,
         pc' = "run" <=> pc = "run",
         prop' \in [Published -> BOOLEAN], heard = {} \/ prop' = prop,
         fails' \in Nat, fails' = 0 => fails = 0
  PROVE  AirInv'
<1>1. soft' = s /\ hard' = h
  BY DEF Report
<1>2. PropsKnown' /\ ConfigKnown' /\ FileKnown'
  BY DEF AirInv, PropsKnown, ConfigKnown, FileKnown
<1>3. CASE pc # "run"
  <2>1. events' = events
    BY <1>3 DEF Report
  <2> QED
    BY <1>1, <1>2, <1>3, <2>1 DEF AirInv, AirTypes, NotListening, EventsKnown
<1>4. CASE pc = "run"
  <2> DEFINE r == EventsOf(op, S, s, h)
  <2>1. events' = events \o r
    BY <1>4 DEF Report
  <2>0. r = EventsOf(op, S, s, h)
    OBVIOUS
  <2> HIDE DEF r
  <2>2. /\ r \in Seq(RfEvent)
        /\ \A i \in 1..Len(r) : /\ r[i].op = op /\ r[i].index \in S
                                /\ r[i].soft <=> r[i].index \in s
                                /\ r[i].hard <=> r[i].index \in h
        /\ \A d \in S : \E i \in 1..Len(r) : r[i].index = d
    <3>1. Reports(r, op, S, s, h)
      BY <2>0, EventsOfFacts
    <3> QED
      BY <3>1 DEF Reports
  <2>3. \A i \in 1..Len(r) : r[i].index \in S /\ Tells(r[i], present', s, h)
    BY <2>2 DEF Tells
  <2>4. /\ events \in Seq(RfEvent)
        /\ QueueTells(events, present, soft, hard)
        /\ RestKnown(events, present, soft, hard, devices, dsoft, dhard)
    BY <1>4 DEF AirInv, AirTypes, EventsKnown
  <2>5. /\ events \o r \in Seq(RfEvent)
        /\ QueueTells(events \o r, present', s, h)
        /\ RestKnown(events \o r, present', s, h, devices, dsoft, dhard)
    BY <2>2, <2>3, <2>4, ReportTells
  <2>6. EventsKnown'
    BY <1>1, <2>1, <2>5 DEF EventsKnown
  <2>7. AirTypes'
    BY <1>1, <2>1, <2>5 DEF AirInv, AirTypes
  <2>8. NotListening'
    BY <1>4 DEF NotListening
  <2> QED
    BY <1>2, <2>6, <2>7, <2>8 DEF AirInv
<1> QED
  BY <1>3, <1>4

LEMMA ChangeAllStep ==
  ASSUME AirInv, NEW t \in Published, NEW b \in BOOLEAN, ChangeAll(t, b),
         UNCHANGED <<devices, dsoft, dhard, config, file, heard>>,
         pc' = "run" <=> pc = "run",
         prop' \in [Published -> BOOLEAN], heard = {} \/ prop' = prop,
         fails' \in Nat, fails' = 0 => fails = 0
  PROVE  AirInv'
<1>1. PICK S, s : /\ S \subseteq present /\ Report("change", S, s, hard)
                  /\ (s = soft \cup S \/ s = soft \ S) /\ present' = present
  <2>1. CASE b = TRUE
    BY <2>1 DEF ChangeAll, OfType
  <2>2. CASE b = FALSE
    BY <2>2 DEF ChangeAll, OfType
  <2> QED
    BY <2>1, <2>2
<1>2. present \subseteq Device /\ soft \subseteq present /\ hard \subseteq present
  BY DEF AirInv, AirTypes
<1>3. /\ S \subseteq Device /\ present' \subseteq Device /\ s \subseteq present'
      /\ hard \subseteq present'
      /\ \A d \in S : "change" # "del" <=> d \in present'
      /\ \A d \in Device \ S : Agree(d, present', present) /\ Agree(d, s, soft) /\ Agree(d, hard, hard)
  BY <1>1, <1>2 DEF Agree
<1> QED
  BY <1>1, <1>3, KernelStep

LEMMA AirKernelSteps ==
  ASSUME AirInv, NEW d \in Device, HardSwitch(d) \/ Plug(d) \/ Unplug(d)
  PROVE  AirInv'
<1>1. /\ UNCHANGED <<devices, dsoft, dhard, prop, config, file, pc, fails, heard>>
      /\ prop \in [Published -> BOOLEAN] /\ fails \in Nat
      /\ present \subseteq Device /\ soft \subseteq present /\ hard \subseteq present
  BY DEF AirInv, AirTypes, HardSwitch, Plug, Unplug, daemonVars
<1>2. CASE HardSwitch(d)
  <2>1. PICK h : /\ Report("change", {d}, soft, h) /\ h \in {hard \ {d}, hard \cup {d}}
                 /\ d \in present /\ present' = present
    BY <1>2 DEF HardSwitch
  <2>2. /\ {d} \subseteq Device /\ present' \subseteq Device /\ soft \subseteq present'
        /\ h \subseteq present'
        /\ \A e \in {d} : "change" # "del" <=> e \in present'
        /\ \A e \in Device \ {d} : Agree(e, present', present) /\ Agree(e, soft, soft)
                                   /\ Agree(e, h, hard)
    BY <1>1, <2>1 DEF Agree
  <2> QED
    BY <1>1, <2>1, <2>2, KernelStep
<1>3. CASE Plug(d)
  <2>1. Report("add", {d}, soft, hard) /\ present' = present \cup {d}
    BY <1>3 DEF Plug
  <2>2. /\ {d} \subseteq Device /\ present' \subseteq Device /\ soft \subseteq present'
        /\ hard \subseteq present'
        /\ \A e \in {d} : "add" # "del" <=> e \in present'
        /\ \A e \in Device \ {d} : Agree(e, present', present) /\ Agree(e, soft, soft)
                                   /\ Agree(e, hard, hard)
    BY <1>1, <2>1 DEF Agree
  <2> QED
    BY <1>1, <2>1, <2>2, KernelStep
<1>4. CASE Unplug(d)
  <2>1. Report("del", {d}, soft \ {d}, hard \ {d}) /\ present' = present \ {d}
    BY <1>4 DEF Unplug
  <2>2. /\ {d} \subseteq Device /\ present' \subseteq Device /\ soft \ {d} \subseteq present'
        /\ hard \ {d} \subseteq present'
        /\ \A e \in {d} : "del" # "del" <=> e \in present'
        /\ \A e \in Device \ {d} : Agree(e, present', present) /\ Agree(e, soft \ {d}, soft)
                                   /\ Agree(e, hard \ {d}, hard)
    BY <1>1, <2>1 DEF Agree
  <2> QED
    BY <1>1, <2>1, <2>2, KernelStep
<1> QED
  BY <1>2, <1>3, <1>4

(* Opening /dev/rfkill.                                                    *)
LEMMA ListenStep == ASSUME AirInv, ListenRfkill PROVE AirInv'
<1> DEFINE r == EventsOf("add", present, soft, hard)
<1>0. r = EventsOf("add", present, soft, hard)
  OBVIOUS
<1>1. /\ pc = "listen" /\ pc' = "run" /\ events' = r
      /\ UNCHANGED <<present, soft, hard, devices, dsoft, dhard, prop, config, file, fails, heard>>
  BY DEF ListenRfkill, daemonVars
<1>2. /\ present \subseteq Device /\ soft \subseteq present /\ hard \subseteq present
      /\ devices = {} /\ dsoft = {} /\ dhard = {}
  BY <1>1 DEF AirInv, AirTypes, NotListening
<1> HIDE DEF r
<1>3. /\ r \in Seq(RfEvent)
      /\ \A i \in 1..Len(r) : /\ r[i].op = "add" /\ r[i].index \in present
                              /\ r[i].soft <=> r[i].index \in soft
                              /\ r[i].hard <=> r[i].index \in hard
      /\ \A d \in present : \E i \in 1..Len(r) : r[i].index = d
  <2>1. Reports(r, "add", present, soft, hard)
    BY <1>0, <1>2, EventsOfFacts
  <2> QED
    BY <2>1 DEF Reports
<1>4. QueueTells(r, present, soft, hard)
  BY <1>3 DEF QueueTells, Tells
<1>5. RestKnown(r, present, soft, hard, devices, dsoft, dhard)
  BY <1>2, <1>3 DEF RestKnown, Silent, Agree
<1> QED
  BY <1>1, <1>3, <1>4, <1>5 DEF AirInv, AirTypes, NotListening, EventsKnown, PropsKnown,
     ConfigKnown, FileKnown

(* An event is read: the daemon knows the radio as the event tells it, and *)
(* what it computes from the radios it knows is right for the types that   *)
(* the radio can be of.                                                    *)
LEMMA HandleStep == ASSUME AirInv, NEW ok \in BOOLEAN, HandleRfkillEvent(ok) PROVE AirInv'
<1> DEFINE e == Head(events)
           k == Type[e.index]
<1>1. /\ pc = "run" /\ events # <<>> /\ events' = Tail(events) /\ UpdateDevices(e)
      /\ UNCHANGED <<present, soft, hard, pc>>
      /\ heard' = heard \cup {k, "all"}
  BY DEF HandleRfkillEvent
<1>2. e \in RfEvent /\ events \in Seq(RfEvent) /\ e.index \in Device
  <2>1. events \in Seq(RfEvent)
    BY DEF AirInv, AirTypes
  <2>2. e \in RfEvent
    BY <1>1, <2>1
  <2>3. \A x \in RfEvent : x.index \in Device
    BY Zenon DEF RfEvent
  <2> QED
    BY <2>1, <2>2, <2>3
<1>3. k \in RadioType
  BY <1>2, AirplaneAssumption
<1>4. /\ devices \subseteq Device /\ dsoft \subseteq devices /\ dhard \subseteq devices
      /\ heard \subseteq RfkillType
      /\ prop \in [Published -> BOOLEAN]
      /\ config \in [RfkillType -> BOOLEAN] /\ file \in [RfkillType -> BOOLEAN]
      /\ fails \in Nat
      /\ present \subseteq Device /\ soft \subseteq present /\ hard \subseteq present
  BY DEF AirInv, AirTypes
<1>5. /\ e.index \in devices' <=> e.op # "del"
      /\ e.index \in dsoft' <=> e.op # "del" /\ e.soft
      /\ e.index \in dhard' <=> e.op # "del" /\ e.hard
      /\ \A d : d # e.index => (d \in devices' <=> d \in devices) /\ (d \in dsoft' <=> d \in dsoft)
                               /\ (d \in dhard' <=> d \in dhard)
  BY <1>1 DEF UpdateDevices, With
<1>6. prop' = [u \in Published |->
                 IF u = "all" THEN AllIn(devices', dsoft' \cup dhard')
                 ELSE IF u = k THEN AllIn(OfType(devices', k), dsoft' \cup dhard') ELSE prop[u]]
  BY DEF HandleRfkillEvent
<1>7. config' = [config EXCEPT !["all"] = AllIn(devices', dsoft'),
                               ![k] = AllIn(OfType(devices', k), dsoft')]
  BY DEF HandleRfkillEvent, SavedState
<1>8. fails' \in Nat /\ (fails' = 0 => file' = config') /\ file' \in {file, config'}
  <2>1. CASE ok = TRUE
    BY <1>4, <2>1 DEF HandleRfkillEvent, SaveConfig
  <2>2. CASE ok = FALSE
    BY <1>4, <2>2 DEF HandleRfkillEvent, SaveConfig
  <2> QED
    BY <2>1, <2>2
<1>9. \A S, B : AllIn(S, B) \in BOOLEAN
  BY DEF AllIn
<1> HIDE DEF e, k
<1>10. prop' \in [Published -> BOOLEAN] /\ config' \in [RfkillType -> BOOLEAN]
  BY <1>3, <1>4, <1>6, <1>7, <1>9 DEF RfkillType, Published
<1>11. OfType(devices', "all") = devices'
  BY DEF OfType
<1>12. \A u \in RadioType : u # k =>
         /\ OfType(devices', u) = OfType(devices, u)
         /\ \A d \in OfType(devices, u) : Agree(d, dsoft', dsoft) /\ Agree(d, dhard', dhard)
  BY <1>5 DEF OfType, RadioType, k, Agree
<1>13. \A u \in RadioType : u # k =>
         /\ AllIn(OfType(devices', u), dsoft') = AllIn(OfType(devices, u), dsoft)
         /\ AllIn(OfType(devices', u), dsoft' \cup dhard') = AllIn(OfType(devices, u), dsoft \cup dhard)
  BY <1>12 DEF AllIn, Agree
<1>14. PropsKnown'
  <2> SUFFICES ASSUME NEW t \in Published, t \in heard'
               PROVE  prop'[t] = AllIn(OfType(devices', t), dsoft' \cup dhard')
    BY DEF PropsKnown
  <2>1. CASE t = "all"
    BY <1>6, <1>11, <2>1
  <2>2. CASE t # "all" /\ t = k
    BY <1>6, <2>2
  <2>3. CASE t # "all" /\ t # k
    <3>1. t \in heard /\ t \in RadioType /\ prop'[t] = prop[t]
      BY <1>1, <1>6, <2>3 DEF Published, RadioType
    <3> QED
      BY <1>13, <2>3, <3>1 DEF AirInv, PropsKnown
  <2> QED
    BY <2>1, <2>2, <2>3
<1>15. ConfigKnown'
  <2> SUFFICES ASSUME NEW t \in heard'
               PROVE  config'[t] = AllIn(OfType(devices', t), dsoft')
    BY DEF ConfigKnown
  <2>0. k # "all" /\ k \in RfkillType /\ "all" \in RfkillType
    BY <1>3 DEF RadioType, RfkillType
  <2>1. CASE t = "all"
    BY <1>4, <1>7, <1>11, <2>0, <2>1
  <2>2. CASE t # "all" /\ t = k
    BY <1>4, <1>7, <2>0, <2>2
  <2>3. CASE t # "all" /\ t # k
    <3>1. t \in heard /\ t \in RadioType
      BY <1>1, <1>4, <2>3 DEF RfkillType
    <3>2. config'[t] = config[t]
      BY <1>4, <1>7, <2>3, <3>1
    <3> QED
      BY <1>13, <2>3, <3>1, <3>2 DEF AirInv, ConfigKnown
  <2> QED
    BY <2>1, <2>2, <2>3
<1>16. FileKnown'
  BY <1>8 DEF FileKnown
<1>17. AirTypes' /\ EventsKnown'
  <2>1. /\ QueueTells(events, present, soft, hard)
        /\ RestKnown(events, present, soft, hard, devices, dsoft, dhard)
    BY <1>1 DEF AirInv, EventsKnown
  <2>2. \A d \in Device : d # e.index =>
          Agree(d, devices', devices) /\ Agree(d, dsoft', dsoft) /\ Agree(d, dhard', dhard)
    BY <1>5 DEF Agree
  <2>3. /\ Tail(events) \in Seq(RfEvent)
        /\ QueueTells(Tail(events), present, soft, hard)
        /\ RestKnown(Tail(events), present, soft, hard, devices', dsoft', dhard')
    BY <1>1, <1>2, <1>4, <1>5, <2>1, <2>2, ReadTells DEF e
  <2>4. EventsKnown'
    BY <1>1, <2>3 DEF EventsKnown
  <2>5. devices' \subseteq Device /\ dsoft' \subseteq devices' /\ dhard' \subseteq devices'
    BY <1>2, <1>4, <1>5
  <2>6. heard' \subseteq RfkillType
    BY <1>1, <1>3, <1>4 DEF RfkillType
  <2> QED
    BY <1>1, <1>4, <1>8, <1>10, <2>3, <2>4, <2>5, <2>6 DEF AirTypes
<1> QED
  BY <1>1, <1>14, <1>15, <1>16, <1>17 DEF AirInv, NotListening

LEMMA AirStep == AirInv /\ [AirplaneNext]_airVars => AirInv'
<1> SUFFICES ASSUME AirInv, [AirplaneNext]_airVars PROVE AirInv'
  OBVIOUS
<1>0. prop \in [Published -> BOOLEAN] /\ fails \in Nat /\ config \in [RfkillType -> BOOLEAN]
  BY DEF AirInv, AirTypes
<1>1. ASSUME NEW t \in Published, NEW b \in BOOLEAN, Block(t, b) PROVE AirInv'
  <2>1. /\ ChangeAll(t, b)
        /\ UNCHANGED <<devices, dsoft, dhard, prop, config, file, heard, pc, fails>>
    BY <1>1 DEF Block, daemonVars
  <2> QED
    BY <1>0, <2>1, ChangeAllStep
<1>2. CASE LoadConfig
  <2>1. /\ UNCHANGED <<present, soft, hard, events, devices, dsoft, dhard, prop, file, fails, heard>>
        /\ pc = "down" /\ pc' = "bt" /\ config' = file
    BY <1>2 DEF LoadConfig, kernelVars
  <2> QED
    BY <2>1 DEF AirInv, AirTypes, NotListening, EventsKnown, PropsKnown, ConfigKnown, FileKnown
<1>3. ASSUME NEW t \in Published, NEW ok \in BOOLEAN, Recover(t, ok) PROVE AirInv'
  <2>1. /\ pc # "run" /\ pc' # "run"
        /\ UNCHANGED <<devices, dsoft, dhard, config, file, heard>>
    BY <1>3 DEF Recover, Published, After
  <2>2. heard = {}
    BY <2>1 DEF AirInv, NotListening
  <2>3. prop' = [prop EXCEPT ![t] = config[t]]
    BY <1>3 DEF Recover
  <2>4. config[t] \in BOOLEAN
    BY <1>0 DEF Published, RfkillType, RadioType
  <2>5. prop' \in [Published -> BOOLEAN]
    BY <1>0, <2>3, <2>4
  <2>6. CASE ok = TRUE
    <3>1. ChangeAll(t, config[t]) /\ fails' = fails
      BY <1>3, <2>6 DEF Recover
    <3>2. ASSUME NEW b \in BOOLEAN, ChangeAll(t, b) PROVE AirInv'
      BY <1>0, <2>1, <2>2, <2>5, <3>1, <3>2, ChangeAllStep
    <3> QED
      BY <2>4, <3>1, <3>2
  <2>7. CASE ok = FALSE
    <3>1. UNCHANGED <<present, soft, hard, events>> /\ fails' = fails + 1
      BY <1>3, <2>7 DEF Recover, kernelVars
    <3> QED
      BY <1>0, <2>1, <2>2, <2>5, <3>1 DEF AirInv, AirTypes, NotListening, EventsKnown, PropsKnown,
         ConfigKnown, FileKnown
  <2> QED
    BY <2>6, <2>7
<1>4. CASE Crash
  <2>1. /\ pc' = "down" /\ events' = <<>> /\ devices' = {} /\ dsoft' = {} /\ dhard' = {}
        /\ heard' = {} /\ UNCHANGED <<present, soft, hard, file, fails>>
        /\ prop' = AllFalse(Published) /\ config' = AllFalse(RfkillType)
    BY <1>4 DEF Crash
  <2>2. AirTypes'
    BY <2>1 DEF AirInv, AirTypes, AllFalse
  <2> QED
    BY <2>1, <2>2 DEF AirInv, NotListening, EventsKnown, PropsKnown, ConfigKnown, FileKnown
<1>5. CASE UNCHANGED airVars
  BY <1>5 DEF airVars, kernelVars, daemonVars, AirInv, AirTypes, NotListening, EventsKnown,
     PropsKnown, ConfigKnown, FileKnown
<1> QED
  BY <1>1, <1>2, <1>3, <1>4, <1>5, AirKernelSteps, ListenStep, HandleStep DEF AirplaneNext

(* RadioStateKnown (system/airplane_mode/rfkill.go): once the daemon has   *)
(* read all the events, its properties and, if no write failed, its file   *)
(* tell the state of the radios, for every type it has heard of, whatever  *)
(* is plugged, unplugged, switched and written while events are under way. *)
THEOREM RadioStateAlwaysKnown == AirplaneSpec => []RadioStateKnown
<1>1. AirInv => RadioStateKnown
  <2> SUFFICES ASSUME AirInv, Drained PROVE /\ PropertiesCurrent
                                            /\ SavedIsSoftBlock
    BY DEF RadioStateKnown, PropertiesCurrent, SavedIsSoftBlock
  <2>1. \A d \in Device : Agree(d, devices, present) /\ Agree(d, dsoft, soft) /\ Agree(d, dhard, hard)
    <3>1. RestKnown(<<>>, present, soft, hard, devices, dsoft, dhard)
      BY DEF Drained, AirInv, EventsKnown
    <3>2. \A d \in Device : Silent(<<>>, d)
      BY DEF Silent
    <3> QED
      BY <3>1, <3>2 DEF RestKnown
  <2>2. devices = present /\ dsoft = soft /\ dhard = hard
    BY <2>1 DEF AirInv, AirTypes, Agree
  <2>3. PropertiesCurrent
    BY <2>2 DEF PropertiesCurrent, AirInv, PropsKnown
  <2>4. SavedIsSoftBlock
    BY <2>2 DEF SavedIsSoftBlock, AirInv, ConfigKnown, FileKnown
  <2> QED
    BY <2>3, <2>4
<1> QED
  BY <1>1, AirInvInit, AirStep, PTL DEF AirplaneSpec

-----------------------------------------------------------------------------
(* The agents of the users.  What the queue of signals holds.              *)
SignalKind == {"sessionNew", "active", "sessionRemoved", "userRemoved", "nameLost"}
LoginSignals == [kind : SignalKind, arg : Uid \cup (0..MaxConn)]

HasSignal(q, kind, arg) == \E i \in 1..Len(q) : q[i].kind = kind /\ q[i].arg = arg
NoActiveIn(q) == \A i \in 1..Len(q) : q[i].kind # "active"
OnlyActiveOf(q, u) == \A i \in 1..Len(q) : q[i].kind = "active" => q[i].arg = u
LastActiveIs(q, u) ==
  \E i \in 1..Len(q) : /\ q[i].kind = "active" /\ q[i].arg = u
                       /\ \A j \in 1..Len(q) : j > i /\ q[j].kind = "active" => q[j].arg = u

CallPc == {"none", "addUser", "addSession", "read", "set", "addAgent", "over"}
CallRec == [pc : CallPc, uid : Uid \cup {NoUid}, active : BOOLEAN]

AgentTypes ==
  /\ loggedIn \subseteq Uid /\ activeSession \in Uid \cup {NoUid}
  /\ sessions \subseteq Uid
  /\ conns \in 0..MaxConn
  /\ agentConn \in [Uid -> 0..MaxConn] /\ agents \in [Uid -> 0..MaxConn]
  /\ queue \in Seq(LoginSignals)
  /\ register \in [AgentConn -> CallRec]
  /\ \A c \in AgentConn : c > conns => register[c].pc = "none"

NilMeansRemoved == nilSessions # {} \/ panicked => removed # {}

(* An agent is that of the daemon that runs, or its end is in the queue.   *)
AgentsFollowed ==
  \A u \in Uid \ stale : agents[u] # NoConn =>
     agents[u] = agentConn[u] \/ HasSignal(queue, "nameLost", agents[u])

(* A session whose user is gone will be removed.                           *)
SessionsFollowed ==
  \A u \in sessions : u \notin loggedIn => HasSignal(queue, "sessionRemoved", u)

(* The active session is the active user's, or will be: by the last signal *)
(* of the queue that is about it, by a call that is about to look, or when *)
(* it has been entered again.                                              *)
WillLook(c) == register[c].pc = "read" \/ (register[c].pc = "set" /\ register[c].active)
ActiveFollowed ==
  ~staleRead /\ activeSession \in sessions =>
     \/ activeUid = activeSession /\ NoActiveIn(queue)
     \/ LastActiveIs(queue, activeSession)
     \/ HasSignal(queue, "sessionRemoved", activeSession)
     \/ \E c \in AgentConn : UidOf(c) = activeSession /\ WillLook(c)

AgentsInv ==
  AgentTypes /\ NilMeansRemoved /\ AgentsFollowed /\ SessionsFollowed /\ ActiveFollowed

-----------------------------------------------------------------------------
LEMMA OnlyOrNone ==
  ASSUME NEW q, NEW u, OnlyActiveOf(q, u) PROVE NoActiveIn(q) \/ LastActiveIs(q, u)
BY DEF OnlyActiveOf, NoActiveIn, LastActiveIs

(* Signals r are put behind the queue q.                                   *)
LEMMA BehindFacts ==
  ASSUME NEW q \in Seq(LoginSignals), NEW r \in Seq(LoginSignals)
  PROVE  /\ q \o r \in Seq(LoginSignals)
         /\ \A k, a : HasSignal(q, k, a) \/ HasSignal(r, k, a) => HasSignal(q \o r, k, a)
         /\ NoActiveIn(r) /\ NoActiveIn(q) => NoActiveIn(q \o r)
         /\ \A u : NoActiveIn(r) /\ LastActiveIs(q, u) => LastActiveIs(q \o r, u)
         /\ \A u : OnlyActiveOf(r, u) /\ ~NoActiveIn(r) => LastActiveIs(q \o r, u)
<1> DEFINE b == q \o r
<1>1. /\ b \in Seq(LoginSignals) /\ Len(q) \in Nat /\ Len(r) \in Nat /\ Len(b) = Len(q) + Len(r)
      /\ \A i \in 1..Len(q) : b[i] = q[i] /\ i \in 1..Len(b)
      /\ \A i \in 1..Len(r) : b[Len(q) + i] = r[i] /\ Len(q) + i \in 1..Len(b)
      /\ \A i \in 1..Len(b) : \/ i \in 1..Len(q) /\ b[i] = q[i]
                              \/ i - Len(q) \in 1..Len(r) /\ b[i] = r[i - Len(q)]
  OBVIOUS
<1> HIDE DEF b
<1>2. \A k, a : HasSignal(q, k, a) \/ HasSignal(r, k, a) => HasSignal(b, k, a)
  BY <1>1 DEF HasSignal
<1>3. NoActiveIn(r) /\ NoActiveIn(q) => NoActiveIn(b)
  BY <1>1, ZenonT(30) DEF NoActiveIn
<1>4. ASSUME NEW u, NoActiveIn(r), LastActiveIs(q, u) PROVE LastActiveIs(b, u)
  <2>1. PICK i \in 1..Len(q) : /\ q[i].kind = "active" /\ q[i].arg = u
                               /\ \A j \in 1..Len(q) : j > i /\ q[j].kind = "active" => q[j].arg = u
    BY <1>4 DEF LastActiveIs
  <2>2. \A j \in 1..Len(b) : j > i /\ b[j].kind = "active" => b[j].arg = u
    BY <1>1, <1>4, <2>1, ZenonT(30) DEF NoActiveIn
  <2> QED
    BY <1>1, <2>1, <2>2 DEF LastActiveIs
<1>5. ASSUME NEW u, OnlyActiveOf(r, u), ~NoActiveIn(r) PROVE LastActiveIs(b, u)
  <2>1. PICK i \in 1..Len(r) : r[i].kind = "active" /\ r[i].arg = u
    BY <1>5 DEF OnlyActiveOf, NoActiveIn
  <2>2. Len(q) + i \in 1..Len(b) /\ b[Len(q) + i] = r[i]
    BY <1>1
  <2>3. \A j \in 1..Len(b) : j > Len(q) + i /\ b[j].kind = "active" => b[j].arg = u
    <3> SUFFICES ASSUME NEW j \in 1..Len(b), j > Len(q) + i, b[j].kind = "active" PROVE b[j].arg = u
      OBVIOUS
    <3>1. j \notin 1..Len(q)
      BY <1>1
    <3>2. j - Len(q) \in 1..Len(r) /\ b[j] = r[j - Len(q)]
      BY <1>1, <3>1
    <3> QED
      BY <1>5, <3>2 DEF OnlyActiveOf
  <2> QED
    BY <2>1, <2>2, <2>3 DEF LastActiveIs
<1> QED
  BY <1>1, <1>2, <1>3, <1>4, <1>5 DEF b

(* The first signal is taken from the queue.                               *)
LEMMA TakenFacts ==
  ASSUME NEW q \in Seq(LoginSignals), q # <<>>
  PROVE  /\ Tail(q) \in Seq(LoginSignals)
         /\ \A k, a : HasSignal(q, k, a) => \/ HasSignal(Tail(q), k, a)
                                            \/ Head(q).kind = k /\ Head(q).arg = a
         /\ NoActiveIn(q) => NoActiveIn(Tail(q))
         /\ \A u : OnlyActiveOf(q, u) => OnlyActiveOf(Tail(q), u)
         /\ \A u : LastActiveIs(q, u) => \/ LastActiveIs(Tail(q), u)
                                         \/ /\ Head(q).kind = "active" /\ Head(q).arg = u
                                            /\ NoActiveIn(Tail(q))
<1> DEFINE r == Tail(q)
<1>1. /\ r \in Seq(LoginSignals) /\ Len(q) \in Nat /\ Len(r) \in Nat /\ Len(q) = Len(r) + 1
      /\ Head(q) = q[1]
      /\ \A i \in 1..Len(r) : r[i] = q[i + 1] /\ i + 1 \in 1..Len(q)
      /\ \A i \in 1..Len(q) : i = 1 \/ (i - 1 \in 1..Len(r) /\ r[i - 1] = q[i])
  OBVIOUS
<1> HIDE DEF r
<1>2. \A k, a : HasSignal(q, k, a) => HasSignal(r, k, a) \/ (Head(q).kind = k /\ Head(q).arg = a)
  BY <1>1 DEF HasSignal
<1>3. NoActiveIn(q) => NoActiveIn(r)
  BY <1>1 DEF NoActiveIn
<1>4. \A u : OnlyActiveOf(q, u) => OnlyActiveOf(r, u)
  BY <1>1 DEF OnlyActiveOf
<1>5. ASSUME NEW u, LastActiveIs(q, u)
      PROVE  LastActiveIs(r, u) \/ (Head(q).kind = "active" /\ Head(q).arg = u /\ NoActiveIn(r))
  <2>1. PICK i \in 1..Len(q) : /\ q[i].kind = "active" /\ q[i].arg = u
                               /\ \A j \in 1..Len(q) : j > i /\ q[j].kind = "active" => q[j].arg = u
    BY <1>5 DEF LastActiveIs
  <2>2. CASE i = 1
    <3>1. OnlyActiveOf(r, u)
      BY <1>1, <2>1, <2>2 DEF OnlyActiveOf
    <3> QED
      BY <1>1, <2>1, <2>2, <3>1, OnlyOrNone
  <2>3. CASE i # 1
    <3>1. i - 1 \in 1..Len(r) /\ r[i - 1] = q[i]
      BY <1>1, <2>3
    <3>2. \A j \in 1..Len(r) : j > i - 1 /\ r[j].kind = "active" => r[j].arg = u
      BY <1>1, <2>1, <3>1
    <3> QED
      BY <2>1, <3>1, <3>2 DEF LastActiveIs
  <2> QED
    BY <2>2, <2>3
<1> QED
  BY <1>1, <1>2, <1>3, <1>4, <1>5 DEF r

-----------------------------------------------------------------------------
LEMMA AgentsInvInit == AgentsInit => AgentsInv
<1> SUFFICES ASSUME AgentsInit PROVE AgentsInv
  OBVIOUS
<1>1. NoCall \in CallRec /\ NoCall.pc = "none" /\ MaxConn \in Nat
  BY AgentsAssumption DEF NoCall, CallRec, CallPc
<1>2. AgentTypes
  BY <1>1 DEF AgentsInit, AgentTypes, NoConn
<1> QED
  BY <1>2 DEF AgentsInit, AgentsInv, NilMeansRemoved, AgentsFollowed, SessionsFollowed, ActiveFollowed

(* A step of logind, of a daemon, or of a call that leaves the table of    *)
(* agents and sessions alone: signals r are sent.                          *)
LEMMA OutsideStep ==
  ASSUME AgentsInv, AgentTypes', NEW r \in Seq(LoginSignals), queue' = queue \o r,
         UNCHANGED <<sessions, agents, activeUid, nilSessions, panicked, removed, stale>>,
         staleRead => staleRead',
         \A u \in Uid : \/ agentConn'[u] = agentConn[u] \/ agentConn[u] = NoConn
                        \/ HasSignal(r, "nameLost", agentConn[u]),
         \A u \in loggedIn : u \in loggedIn' \/ HasSignal(r, "sessionRemoved", u),
         \A c \in AgentConn : UidOf(c) = activeSession /\ WillLook(c) =>
                                register'[c].uid = register[c].uid /\ WillLook(c)',
         \/ activeSession' = activeSession /\ NoActiveIn(r)
         \/ activeSession' \notin sessions
         \/ activeSession' \notin loggedIn
         \/ OnlyActiveOf(r, activeSession') /\ ~NoActiveIn(r)
  PROVE  AgentsInv'
<1> DEFINE q == queue \o r
<1>0. queue \in Seq(LoginSignals) /\ queue' = q
  BY DEF AgentsInv, AgentTypes
<1>1. /\ \A k, a : HasSignal(queue, k, a) \/ HasSignal(r, k, a) => HasSignal(q, k, a)
      /\ NoActiveIn(r) /\ NoActiveIn(queue) => NoActiveIn(q)
      /\ \A u : NoActiveIn(r) /\ LastActiveIs(queue, u) => LastActiveIs(q, u)
      /\ \A u : OnlyActiveOf(r, u) /\ ~NoActiveIn(r) => LastActiveIs(q, u)
  BY <1>0, BehindFacts
<1> HIDE DEF q
<1>2. NilMeansRemoved'
  BY DEF AgentsInv, NilMeansRemoved
<1>3. AgentsFollowed'
  BY <1>0, <1>1 DEF AgentsInv, AgentsFollowed
<1>4. SessionsFollowed'
  BY <1>0, <1>1 DEF AgentsInv, AgentTypes, SessionsFollowed
<1>5. ActiveFollowed'
  <2> SUFFICES ASSUME ~staleRead, activeSession' \in sessions
               PROVE  \/ activeUid = activeSession' /\ NoActiveIn(q)
                      \/ LastActiveIs(q, activeSession')
                      \/ HasSignal(q, "sessionRemoved", activeSession')
                      \/ \E c \in AgentConn : UidOf(c)' = activeSession' /\ WillLook(c)'
    BY <1>0 DEF ActiveFollowed
  <2>1. CASE activeSession' = activeSession /\ NoActiveIn(r)
    <3>1. \A c \in AgentConn : UidOf(c) = activeSession /\ WillLook(c) =>
            UidOf(c)' = activeSession' /\ WillLook(c)'
      BY <2>1 DEF UidOf
    <3> QED
      BY <1>1, <2>1, <3>1 DEF AgentsInv, ActiveFollowed
  <2>2. CASE activeSession' \notin loggedIn
    BY <1>1, <2>2 DEF AgentsInv, SessionsFollowed
  <2>3. CASE OnlyActiveOf(r, activeSession') /\ ~NoActiveIn(r)
    BY <1>1, <2>3
  <2> QED
    BY <2>1, <2>2, <2>3
<1> QED
  BY <1>2, <1>3, <1>4, <1>5 DEF AgentsInv

LEMMA OneSignal ==
  ASSUME NEW k \in SignalKind, NEW a \in Uid \cup (0..MaxConn)
  PROVE  /\ <<LoginSignal(k, a)>> \in Seq(LoginSignals)
         /\ HasSignal(<<LoginSignal(k, a)>>, k, a)
         /\ OnlyActiveOf(<<LoginSignal(k, a)>>, a)
         /\ NoActiveIn(<<LoginSignal(k, a)>>) <=> k # "active"
<1> DEFINE q == <<LoginSignal(k, a)>>
<1>1. LoginSignal(k, a) \in LoginSignals
  BY DEF LoginSignal, LoginSignals
<1>2. q \in Seq(LoginSignals) /\ Len(q) = 1 /\ q[1].kind = k /\ q[1].arg = a
  BY <1>1 DEF LoginSignal
<1> HIDE DEF q
<1>3. HasSignal(q, k, a) /\ OnlyActiveOf(q, a) /\ (NoActiveIn(q) <=> k # "active")
  BY <1>2 DEF HasSignal, OnlyActiveOf, NoActiveIn
<1> QED
  BY <1>2, <1>3 DEF q

LEMMA NoSignal == <<>> \in Seq(LoginSignals) /\ NoActiveIn(<<>>)
BY DEF NoActiveIn

(* What ends with the daemon of u.                                         *)
LEMMA LostFacts ==
  ASSUME AgentsInv, NEW u \in Uid
  PROVE  /\ Lost(u) \in Seq(LoginSignals) /\ NoActiveIn(Lost(u))
         /\ agentConn[u] # NoConn => HasSignal(Lost(u), "nameLost", agentConn[u])
<1>1. agentConn[u] \in 0..MaxConn
  BY DEF AgentsInv, AgentTypes
<1>2. CASE agentConn[u] = NoConn
  BY <1>2, NoSignal DEF Lost
<1>3. CASE agentConn[u] # NoConn
  <2>1. Lost(u) = <<LoginSignal("nameLost", agentConn[u])>>
    BY <1>3 DEF Lost
  <2> QED
    BY <1>1, <2>1, OneSignal DEF SignalKind
<1> QED
  BY <1>2, <1>3

LEMMA LogInKeeps == ASSUME AgentsInv, NEW u \in Uid, LogIn(u) PROVE AgentsInv'
<1> DEFINE r == <<LoginSignal("sessionNew", u)>>
<1>1. r \in Seq(LoginSignals) /\ NoActiveIn(r)
  BY OneSignal DEF SignalKind
<1>2. queue' = queue \o r
  <2> DEFINE s == LoginSignal("sessionNew", u)
  <2>1. s \in LoginSignals /\ queue \in Seq(LoginSignals) /\ queue' = Append(queue, s) /\ r = <<s>>
    BY DEF LogIn, AgentsInv, AgentTypes, LoginSignal, LoginSignals, SignalKind
  <2> HIDE DEF s, r
  <2> QED
    BY <2>1, AppendIsConcat
<1>3. queue \o r \in Seq(LoginSignals)
  BY <1>1, BehindFacts DEF AgentsInv, AgentTypes
<1>4. /\ u \notin loggedIn /\ loggedIn' = loggedIn \cup {u} /\ activeSession' = u
      /\ UNCHANGED <<agentConn, conns, register, sessions, agents, activeUid, nilSessions, panicked,
                     removed, stale, staleRead>>
  BY DEF LogIn, agentMapVars
<1> HIDE DEF r
<1>5. AgentTypes'
  BY <1>2, <1>3, <1>4 DEF AgentsInv, AgentTypes
<1> QED
  BY <1>1, <1>2, <1>4, <1>5, OutsideStep DEF WillLook

LEMMA SwitchToKeeps == ASSUME AgentsInv, NEW u \in Uid, SwitchTo(u) PROVE AgentsInv'
<1> DEFINE r == IfWatched(u)
<1>1. /\ r \in Seq(LoginSignals)
      /\ u \in sessions => OnlyActiveOf(r, u) /\ ~NoActiveIn(r)
  <2>1. CASE u \in sessions
    BY <2>1, OneSignal DEF SignalKind, IfWatched
  <2>2. CASE u \notin sessions
    BY <2>2, NoSignal DEF IfWatched
  <2> QED
    BY <2>1, <2>2
<1>2. queue' = queue \o r
  BY DEF SwitchTo
<1>3. queue \o r \in Seq(LoginSignals)
  BY <1>1, BehindFacts DEF AgentsInv, AgentTypes
<1>4. /\ activeSession' = u
      /\ UNCHANGED <<loggedIn, agentConn, conns, register, sessions, agents, activeUid, nilSessions,
                     panicked, removed, stale, staleRead>>
  BY DEF SwitchTo, agentMapVars
<1> HIDE DEF r
<1>5. AgentTypes'
  BY <1>2, <1>3, <1>4 DEF AgentsInv, AgentTypes
<1> QED
  BY <1>1, <1>2, <1>4, <1>5, OutsideStep DEF WillLook

LEMMA LogOutKeeps == ASSUME AgentsInv, NEW u \in Uid, LogOut(u) PROVE AgentsInv'
<1> DEFINE a == LoginSignal("sessionRemoved", u)
           b == LoginSignal("userRemoved", u)
           r == Lost(u) \o <<a, b>>
<1>1. /\ Lost(u) \in Seq(LoginSignals) /\ NoActiveIn(Lost(u))
      /\ agentConn[u] # NoConn => HasSignal(Lost(u), "nameLost", agentConn[u])
  BY LostFacts
<1>2. /\ <<a, b>> \in Seq(LoginSignals) /\ NoActiveIn(<<a, b>>)
      /\ HasSignal(<<a, b>>, "sessionRemoved", u)
  <2> DEFINE q == <<a, b>>
  <2>1. a \in LoginSignals /\ b \in LoginSignals
    BY DEF LoginSignal, LoginSignals, SignalKind
  <2>2. /\ q \in Seq(LoginSignals) /\ Len(q) = 2
        /\ q[1].kind = "sessionRemoved" /\ q[1].arg = u /\ q[2].kind = "userRemoved"
    BY <2>1 DEF LoginSignal
  <2> HIDE DEF q
  <2>3. NoActiveIn(q) /\ HasSignal(q, "sessionRemoved", u)
    BY <2>2 DEF NoActiveIn, HasSignal
  <2> QED
    BY <2>2, <2>3 DEF q
<1>3. /\ r \in Seq(LoginSignals) /\ NoActiveIn(r) /\ HasSignal(r, "sessionRemoved", u)
      /\ agentConn[u] # NoConn => HasSignal(r, "nameLost", agentConn[u])
  <2> HIDE DEF a, b
  <2> QED
    BY <1>1, <1>2, BehindFacts
<1>4. queue' = queue \o r /\ queue \in Seq(LoginSignals)
  <2>1. queue \in Seq(LoginSignals) /\ queue' = (queue \o Lost(u)) \o <<a, b>>
    BY DEF LogOut, AgentsInv, AgentTypes
  <2> QED
    <3> HIDE DEF a, b
    <3>1. (queue \o Lost(u)) \o <<a, b>> = queue \o (Lost(u) \o <<a, b>>)
      BY <1>1, <1>2, <2>1, ConcatAssociative
    <3> QED
      BY <2>1, <3>1
<1>5. queue \o r \in Seq(LoginSignals)
  BY <1>3, <1>4, BehindFacts
<1>6. /\ loggedIn' = loggedIn \ {u} /\ agentConn' = [agentConn EXCEPT ![u] = NoConn]
      /\ activeSession' = IF activeSession = u THEN NoUid ELSE activeSession
      /\ UNCHANGED <<conns, register, sessions, agents, activeUid, nilSessions, panicked, removed,
                     stale, staleRead>>
  BY DEF LogOut, agentMapVars
<1> HIDE DEF r
<1>7. activeSession' = activeSession \/ activeSession' \notin sessions
  BY <1>6, AgentsAssumption DEF AgentsInv, AgentTypes
<1>8. agentConn' \in [Uid -> 0..MaxConn] /\ \A x \in Uid : x # u => agentConn'[x] = agentConn[x]
  BY <1>6, AgentsAssumption DEF AgentsInv, AgentTypes, NoConn
<1>9. AgentTypes'
  BY <1>4, <1>5, <1>6, <1>8 DEF AgentsInv, AgentTypes
<1>10. \A x \in Uid : \/ agentConn'[x] = agentConn[x] \/ agentConn[x] = NoConn
                      \/ HasSignal(r, "nameLost", agentConn[x])
  BY <1>3, <1>8
<1> QED
  BY <1>3, <1>4, <1>6, <1>7, <1>9, <1>10, OutsideStep DEF WillLook

LEMMA StopDaemonKeeps == ASSUME AgentsInv, NEW u \in Uid, StopDaemon(u) PROVE AgentsInv'
<1> DEFINE r == Lost(u)
<1>1. /\ r \in Seq(LoginSignals) /\ NoActiveIn(r)
      /\ agentConn[u] # NoConn => HasSignal(r, "nameLost", agentConn[u])
  BY LostFacts
<1>2. queue' = queue \o r /\ queue \o r \in Seq(LoginSignals)
  BY <1>1, BehindFacts DEF StopDaemon, AgentsInv, AgentTypes
<1>3. /\ agentConn' = [agentConn EXCEPT ![u] = NoConn]
      /\ UNCHANGED <<loggedIn, activeSession, conns, register, sessions, agents, activeUid,
                     nilSessions, panicked, removed, stale, staleRead>>
  BY DEF StopDaemon, agentMapVars
<1> HIDE DEF r
<1>4. agentConn' \in [Uid -> 0..MaxConn] /\ \A x \in Uid : x # u => agentConn'[x] = agentConn[x]
  BY <1>3, AgentsAssumption DEF AgentsInv, AgentTypes, NoConn
<1>5. AgentTypes'
  BY <1>2, <1>3, <1>4 DEF AgentsInv, AgentTypes
<1>6. \A x \in Uid : \/ agentConn'[x] = agentConn[x] \/ agentConn[x] = NoConn
                     \/ HasSignal(r, "nameLost", agentConn[x])
  BY <1>1, <1>4
<1> QED
  BY <1>1, <1>2, <1>3, <1>5, <1>6, OutsideStep DEF WillLook

LEMMA StartDaemonKeeps == ASSUME AgentsInv, NEW u \in Uid, StartDaemon(u) PROVE AgentsInv'
<1> DEFINE n == conns + 1
           call == [NoCall EXCEPT !.pc = "addUser", !.uid = u]
<1>1. n \in AgentConn /\ n \in 0..MaxConn /\ conns' = n /\ agentConn[u] = NoConn
  BY AgentsAssumption DEF StartDaemon, AgentsInv, AgentTypes, AgentConn
<1>2. call \in CallRec /\ call.pc = "addUser"
  BY DEF NoCall, CallRec, CallPc
<1>3. /\ agentConn' = [agentConn EXCEPT ![u] = n] /\ register' = [register EXCEPT ![n] = call]
      /\ UNCHANGED <<loggedIn, activeSession, queue, sessions, agents, activeUid, nilSessions, panicked,
                     removed, stale, staleRead>>
  BY DEF StartDaemon, agentMapVars
<1>4. \A c \in AgentConn : c > n => c > conns /\ c # n
  BY DEF AgentConn, AgentsInv, AgentTypes
<1>5. register[n].pc = "none"
  BY <1>1 DEF AgentsInv, AgentTypes, AgentConn
<1> HIDE DEF call, n
<1>6. /\ register' \in [AgentConn -> CallRec]
      /\ \A c \in AgentConn : c # n => register'[c] = register[c]
  BY <1>1, <1>2, <1>3 DEF AgentsInv, AgentTypes
<1>7. agentConn' \in [Uid -> 0..MaxConn] /\ \A x \in Uid : x # u => agentConn'[x] = agentConn[x]
  BY <1>1, <1>3 DEF AgentsInv, AgentTypes
<1>8. AgentTypes'
  BY <1>1, <1>3, <1>4, <1>6, <1>7 DEF AgentsInv, AgentTypes
<1>9. \A c \in AgentConn : WillLook(c) => register'[c].uid = register[c].uid /\ WillLook(c)'
  BY <1>5, <1>6 DEF WillLook
<1>10. queue' = queue \o <<>>
  BY <1>3 DEF AgentsInv, AgentTypes
<1> QED
  BY <1>1, <1>3, <1>7, <1>8, <1>9, <1>10, NoSignal, OutsideStep

LEMMA UnregisterAgentKeeps == ASSUME AgentsInv, NEW u \in Uid, UnregisterAgent(u) PROVE AgentsInv'
<1>1. UNCHANGED <<loggedIn, activeSession, agentConn, conns, queue, register, sessions, agents,
                  activeUid, nilSessions, panicked, removed, stale, staleRead>>
  BY DEF UnregisterAgent, logindVars, agentMapVars
<1>2. AgentTypes' /\ queue' = queue \o <<>>
  BY <1>1 DEF AgentsInv, AgentTypes
<1> QED
  BY <1>1, <1>2, NoSignal, OutsideStep DEF WillLook

(* A call goes on: nothing else of the table of calls changes.             *)
CallFacts(c, to) ==
  /\ register' \in [AgentConn -> CallRec] /\ register'[c].pc = to
  /\ register'[c].uid = register[c].uid /\ register'[c].active = register[c].active
  /\ \A d \in AgentConn : d # c => register'[d] = register[d]
  /\ c <= conns

LEMMA StepFacts ==
  ASSUME AgentsInv, NEW c \in AgentConn, NEW from \in CallPc \ {"none"}, NEW to \in CallPc, Step(c, from, to)
  PROVE  CallFacts(c, to)
<1>1. register \in [AgentConn -> CallRec] /\ register[c] \in CallRec
  BY DEF AgentsInv, AgentTypes
<1>2. register' = [register EXCEPT ![c].pc = to] /\ register[c].pc = from
  BY DEF Step
<1>3. [register[c] EXCEPT !.pc = to] \in CallRec
  BY <1>1 DEF CallRec
<1>4. c <= conns
  BY <1>2 DEF AgentsInv, AgentTypes, AgentConn
<1> QED
  BY <1>1, <1>2, <1>3, <1>4 DEF CallRec, CallFacts

LEMMA CallTypes ==
  ASSUME AgentsInv, NEW c \in AgentConn, NEW to, CallFacts(c, to), UNCHANGED logindVars,
         UNCHANGED queue, sessions' \subseteq Uid, agents' \in [Uid -> 0..MaxConn]
  PROVE  AgentTypes'
<1>1. \A d \in AgentConn : d > conns => d # c
  BY DEF AgentsInv, AgentTypes, AgentConn, CallFacts
<1> QED
  BY <1>1 DEF AgentsInv, AgentTypes, logindVars, CallFacts

LEMMA AddUserKeeps == ASSUME AgentsInv, NEW c \in AgentConn, AddUser(c) PROVE AgentsInv'
<1>1. CallFacts(c, "addSession") /\ register[c].pc = "addUser"
  BY StepFacts DEF AddUser, Step, CallPc
<1>2. UNCHANGED <<logindVars, queue, sessions, agents, activeUid, nilSessions, panicked, removed,
                  stale, staleRead>>
  BY DEF AddUser
<1>3. AgentTypes'
  BY <1>1, <1>2, CallTypes DEF AgentsInv, AgentTypes
<1>4. queue' = queue \o <<>>
  BY <1>2 DEF AgentsInv, AgentTypes
<1>5. \A d \in AgentConn : WillLook(d) => register'[d].uid = register[d].uid /\ WillLook(d)'
  BY <1>1 DEF WillLook, CallFacts
<1> QED
  BY <1>2, <1>3, <1>4, <1>5, NoSignal, OutsideStep DEF logindVars

LEMMA ReadActiveKeeps == ASSUME AgentsInv, NEW c \in AgentConn, ReadActive(c) PROVE AgentsInv'
<1> DEFINE new == [register[c] EXCEPT !.pc = "set", !.active = (activeSession = register[c].uid)]
<1>1. register \in [AgentConn -> CallRec] /\ register[c] \in CallRec /\ register[c].pc = "read"
  BY DEF AgentsInv, AgentTypes, ReadActive
<1>2. register' = [register EXCEPT ![c] = new]
  BY <1>1 DEF ReadActive, UidOf
<1>3. new \in CallRec /\ new.pc = "set" /\ new.uid = register[c].uid
  <2>1. ASSUME NEW b \in BOOLEAN PROVE [register[c] EXCEPT !.pc = "set", !.active = b] \in CallRec
    BY <1>1 DEF CallRec, CallPc
  <2>2. (activeSession = register[c].uid) \in BOOLEAN
    OBVIOUS
  <2>3. new \in CallRec
    BY <2>1, <2>2, Zenon
  <2> QED
    BY <1>1, <2>3 DEF CallRec
<1>4. register[c].uid = activeSession => new.active
  BY <1>1 DEF CallRec
<1> HIDE DEF new
<1>5. /\ register' \in [AgentConn -> CallRec] /\ register'[c] = new
      /\ \A d \in AgentConn : d # c => register'[d] = register[d]
  BY <1>1, <1>2, <1>3
<1>6. UNCHANGED <<loggedIn, activeSession, agentConn, conns, queue, sessions, agents, activeUid,
                  nilSessions, panicked, removed, stale, staleRead>>
  BY DEF ReadActive, logindVars, agentMapVars
<1>7. AgentTypes' /\ queue' = queue \o <<>>
  <2>1. \A d \in AgentConn : d > conns => d # c
    BY <1>1 DEF AgentsInv, AgentTypes
  <2> QED
    BY <1>5, <1>6, <2>1 DEF AgentsInv, AgentTypes
<1>8. \A d \in AgentConn : UidOf(d) = activeSession /\ WillLook(d) =>
                             register'[d].uid = register[d].uid /\ WillLook(d)'
  BY <1>3, <1>4, <1>5 DEF WillLook, UidOf
<1> QED
  BY <1>6, <1>7, <1>8, NoSignal, OutsideStep

LEMMA SetActiveKeeps == ASSUME AgentsInv, NEW c \in AgentConn, SetActive(c) PROVE AgentsInv'
<1>1. CallFacts(c, "addAgent") /\ register[c].pc = "set"
  BY StepFacts DEF SetActive, Step, CallPc
<1>2. UNCHANGED <<logindVars, queue, sessions, agents, nilSessions, panicked, removed, stale>>
  BY DEF SetActive
<1>3. AgentTypes'
  BY <1>1, <1>2, CallTypes DEF AgentsInv, AgentTypes
<1>4. queue' = queue \o <<>> /\ queue \in Seq(LoginSignals) /\ register[c].active \in BOOLEAN
  BY <1>2 DEF AgentsInv, AgentTypes, CallRec
<1>5. CASE register[c].active = TRUE
  <2>1. activeUid' = UidOf(c)
    BY <1>5 DEF SetActive, UseRead, SetActiveUid
  <2>2. staleRead' \/ (activeSession = UidOf(c) /\ OnlyActiveOf(queue, UidOf(c)))
    <3>1. staleRead' = (staleRead \/ (activeSession # UidOf(c)
             \/ \E i \in DOMAIN queue : queue[i].kind = "active" /\ queue[i].arg # UidOf(c)))
      BY <1>5 DEF SetActive, UseRead
    <3>2. DOMAIN queue = 1..Len(queue)
      BY <1>4
    <3> QED
      BY <3>1, <3>2 DEF OnlyActiveOf
  <2>3. ActiveFollowed'
    BY <1>2, <2>1, <2>2, OnlyOrNone DEF ActiveFollowed, logindVars
  <2> QED
    BY <1>2, <1>3, <2>3 DEF AgentsInv, NilMeansRemoved, AgentsFollowed, SessionsFollowed, logindVars
<1>6. CASE register[c].active = FALSE
  <2>1. activeUid' = activeUid /\ staleRead' = (staleRead \/ FALSE)
    BY <1>6 DEF SetActive, UseRead, SetActiveUid
  <2>2. \A d \in AgentConn : WillLook(d) => register'[d].uid = register[d].uid /\ WillLook(d)'
    BY <1>1, <1>6 DEF WillLook, CallFacts
  <2> QED
    BY <1>2, <1>3, <1>4, <2>1, <2>2, NoSignal, OutsideStep DEF logindVars
<1> QED
  BY <1>4, <1>5, <1>6

(* A session is entered, or the map cannot be written to.                  *)
LEMMA AddSessionFacts ==
  ASSUME AgentsInv, NEW u, u \in loggedIn, AddSession(u), UNCHANGED <<nilSessions, removed>>
  PROVE  /\ sessions' \subseteq Uid /\ NilMeansRemoved'
         /\ sessions' = sessions \/ (CanAdd(u) /\ sessions' = sessions \cup {u})
<1>1. CASE CanAdd(u) /\ u \in nilSessions
  BY <1>1 DEF AddSession, AgentsInv, AgentTypes, NilMeansRemoved
<1>2. CASE ~(CanAdd(u) /\ u \in nilSessions)
  BY <1>2 DEF AddSession, AgentsInv, AgentTypes, NilMeansRemoved
<1> QED
  BY <1>1, <1>2

LEMMA RegisterSessionKeeps == ASSUME AgentsInv, NEW c \in AgentConn, RegisterSession(c) PROVE AgentsInv'
<1> DEFINE u == UidOf(c)
           to == IF u \in loggedIn /\ CanAdd(u) THEN "read" ELSE "addAgent"
<1>1. /\ UNCHANGED <<logindVars, queue, agents, activeUid, nilSessions, removed, stale, staleRead>>
      /\ Step(c, "addSession", to)
      /\ IF u \in loggedIn THEN AddSession(u) ELSE UNCHANGED <<sessions, panicked>>
  BY DEF RegisterSession
<1>2. CallFacts(c, to) /\ register[c].pc = "addSession"
  BY <1>1, StepFacts DEF Step, CallPc
<1>3. /\ sessions' \subseteq Uid /\ NilMeansRemoved'
      /\ sessions' = sessions \/ (u \in loggedIn /\ to = "read" /\ sessions' = sessions \cup {u})
  <2>1. CASE u \in loggedIn
    BY <1>1, <2>1, AddSessionFacts
  <2>2. CASE u \notin loggedIn
    BY <1>1, <2>2 DEF AgentsInv, AgentTypes, NilMeansRemoved
  <2> QED
    BY <2>1, <2>2
<1> HIDE DEF to
<1>4. AgentTypes'
  BY <1>1, <1>2, <1>3, CallTypes DEF AgentsInv, AgentTypes
<1>5. AgentsFollowed' /\ SessionsFollowed'
  BY <1>1, <1>3 DEF AgentsInv, AgentsFollowed, SessionsFollowed, logindVars
<1>6. \A d \in AgentConn : WillLook(d) => UidOf(d)' = UidOf(d) /\ WillLook(d)'
  BY <1>2 DEF WillLook, CallFacts, UidOf
<1>7. to = "read" => WillLook(c)' /\ UidOf(c)' = u
  BY <1>2 DEF WillLook, CallFacts, UidOf
<1>8. ActiveFollowed'
  BY <1>1, <1>3, <1>6, <1>7 DEF AgentsInv, ActiveFollowed, logindVars
<1> QED
  BY <1>3, <1>4, <1>5, <1>8 DEF AgentsInv

LEMMA AddAgentKeeps == ASSUME AgentsInv, NEW c \in AgentConn, AddAgent(c) PROVE AgentsInv'
<1> DEFINE u == UidOf(c)
<1>1. /\ UNCHANGED <<logindVars, queue, sessions, activeUid, panicked, staleRead>>
      /\ agents' = [agents EXCEPT ![u] = c]
      /\ stale' = IF agentConn[u] # c THEN stale \cup {u} ELSE stale
      /\ nilSessions' = IF u \in users THEN nilSessions ELSE nilSessions \cup {u}
      /\ removed' = IF u \in users THEN removed ELSE removed \cup {u}
  BY DEF AddAgent
<1>2. CallFacts(c, "over") /\ register[c].pc = "addAgent"
  BY StepFacts DEF AddAgent, Step, CallPc
<1>3. /\ agents' \in [Uid -> 0..MaxConn]
      /\ \A x \in Uid : agents'[x] = IF x = u THEN c ELSE agents[x]
  <2>1. c \in 0..MaxConn
    BY AgentsAssumption DEF AgentConn
  <2> QED
    BY <1>1, <2>1 DEF AgentsInv, AgentTypes
<1>4. AgentTypes'
  BY <1>1, <1>2, <1>3, CallTypes DEF AgentsInv, AgentTypes
<1>5. NilMeansRemoved'
  BY <1>1 DEF AgentsInv, NilMeansRemoved
<1>6. AgentsFollowed'
  BY <1>1, <1>3 DEF AgentsInv, AgentsFollowed, logindVars
<1>7. SessionsFollowed'
  BY <1>1 DEF AgentsInv, SessionsFollowed, logindVars
<1>8. \A d \in AgentConn : WillLook(d) => UidOf(d)' = UidOf(d) /\ WillLook(d)'
  BY <1>2 DEF WillLook, CallFacts, UidOf
<1>9. ActiveFollowed'
  BY <1>1, <1>8 DEF AgentsInv, ActiveFollowed, logindVars
<1> QED
  BY <1>4, <1>5, <1>6, <1>7, <1>9 DEF AgentsInv

LEMMA HandleKeeps == ASSUME AgentsInv, HandleLoginSignal PROVE AgentsInv'
<1> DEFINE s == Head(queue)
           t == Tail(queue)
<1>1. /\ queue \in Seq(LoginSignals) /\ queue # <<>> /\ queue' = t
      /\ UNCHANGED <<loggedIn, activeSession, agentConn, conns, register, stale, removed>>
  BY DEF HandleLoginSignal, logindVars, AgentsInv, AgentTypes
<1>2. /\ t \in Seq(LoginSignals)
      /\ \A k, a : HasSignal(queue, k, a) => HasSignal(t, k, a) \/ (s.kind = k /\ s.arg = a)
      /\ NoActiveIn(queue) => NoActiveIn(t)
      /\ \A u : OnlyActiveOf(queue, u) => OnlyActiveOf(t, u)
      /\ \A u : LastActiveIs(queue, u) =>
           LastActiveIs(t, u) \/ (s.kind = "active" /\ s.arg = u /\ NoActiveIn(t))
  BY <1>1, TakenFacts
<1>3. s.kind = "active" => ~NoActiveIn(queue)
  BY <1>1 DEF NoActiveIn
<1>4. \/ s.kind = "sessionNew" /\ HandleSessionNew(s.arg)
      \/ s.kind = "active" /\ HandleActive(s.arg)
      \/ s.kind = "sessionRemoved" /\ RemoveSession(s.arg)
      \/ s.kind = "userRemoved" /\ RemoveUser(s.arg)
      \/ s.kind = "nameLost" /\ HandleNameLost(s.arg)
  BY DEF HandleLoginSignal
<1>5. DOMAIN queue = 1..Len(queue)
  BY <1>1
<1>6. \A c \in AgentConn : WillLook(c) => UidOf(c)' = UidOf(c) /\ WillLook(c)'
  BY <1>1 DEF WillLook, UidOf
<1> HIDE DEF s, t
<1>7. ASSUME sessions' \subseteq Uid, agents' \in [Uid -> 0..MaxConn] PROVE AgentTypes'
  BY <1>1, <1>2, <1>7 DEF AgentsInv, AgentTypes
<1>8. ASSUME activeUid' = activeUid, staleRead => staleRead', s.kind # "active",
             activeSession \in sessions' => activeSession \in sessions,
             s.kind = "sessionRemoved" => s.arg \notin sessions'
      PROVE  ActiveFollowed'
  BY <1>1, <1>2, <1>6, <1>8 DEF AgentsInv, ActiveFollowed
<1>9. CASE s.kind = "sessionNew" /\ HandleSessionNew(s.arg)
  <2> DEFINE u == s.arg
             now == u \in loggedIn /\ CanAdd(u) /\ activeSession = u
  <2>1. /\ IF u \in loggedIn THEN AddSession(u) ELSE UNCHANGED <<sessions, panicked>>
        /\ UseRead(u, now) /\ UNCHANGED <<users, nilSessions, agents>>
    BY <1>9 DEF HandleSessionNew
  <2>2. /\ sessions' \subseteq Uid /\ NilMeansRemoved'
        /\ sessions' = sessions \/ (u \in loggedIn /\ CanAdd(u) /\ sessions' = sessions \cup {u})
    <3>1. CASE u \in loggedIn
      BY <1>1, <2>1, <3>1, AddSessionFacts
    <3>2. CASE u \notin loggedIn
      BY <1>1, <2>1, <3>2 DEF AgentsInv, AgentTypes, NilMeansRemoved
    <3> QED
      BY <3>1, <3>2
  <2>3. AgentTypes' /\ AgentsFollowed' /\ SessionsFollowed'
    BY <1>1, <1>2, <1>7, <1>9, <2>1, <2>2 DEF AgentsInv, AgentTypes, AgentsFollowed, SessionsFollowed
  <2>4. ActiveFollowed'
    <3>1. CASE now
      <4>1. activeUid' = u /\ activeSession = u
        BY <2>1, <3>1 DEF UseRead, SetActiveUid
      <4>2. staleRead' \/ OnlyActiveOf(queue, u)
        BY <1>5, <2>1, <3>1 DEF UseRead, OnlyActiveOf
      <4> QED
        BY <1>1, <1>2, <4>1, <4>2, OnlyOrNone DEF ActiveFollowed
    <3>2. CASE ~now
      <4>1. activeUid' = activeUid /\ (staleRead => staleRead')
        BY <2>1, <3>2 DEF UseRead, SetActiveUid
      <4>2. activeSession \in sessions' => activeSession \in sessions
        BY <2>2, <3>2
      <4> QED
        BY <1>8, <1>9, <4>1, <4>2
    <3> QED
      BY <3>1, <3>2
  <2> QED
    BY <2>2, <2>3, <2>4 DEF AgentsInv
<1>10. CASE s.kind = "active" /\ HandleActive(s.arg)
  <2>1. /\ UNCHANGED <<nilSessions, sessions, agents, panicked, staleRead>>
        /\ activeUid' = IF s.arg \in sessions THEN s.arg ELSE activeUid
    BY <1>10 DEF HandleActive, SetActiveUid
  <2>2. AgentTypes' /\ NilMeansRemoved' /\ AgentsFollowed' /\ SessionsFollowed'
    BY <1>1, <1>2, <1>7, <1>10, <2>1
       DEF AgentsInv, AgentTypes, NilMeansRemoved, AgentsFollowed, SessionsFollowed
  <2>3. ActiveFollowed'
    BY <1>1, <1>2, <1>3, <1>6, <1>10, <2>1 DEF AgentsInv, ActiveFollowed
  <2> QED
    BY <2>2, <2>3 DEF AgentsInv
<1>11. CASE s.kind = "sessionRemoved" /\ RemoveSession(s.arg)
  <2>1. sessions' = sessions \ {s.arg} /\ UNCHANGED <<nilSessions, agents, activeUid, panicked, staleRead>>
    BY <1>11 DEF RemoveSession
  <2>2. AgentTypes' /\ NilMeansRemoved' /\ AgentsFollowed' /\ SessionsFollowed'
    BY <1>1, <1>2, <1>7, <1>11, <2>1
       DEF AgentsInv, AgentTypes, NilMeansRemoved, AgentsFollowed, SessionsFollowed
  <2> QED
    BY <1>8, <1>11, <2>1, <2>2 DEF AgentsInv
<1>12. CASE s.kind = "userRemoved" /\ RemoveUser(s.arg)
  <2>1. /\ nilSessions' = nilSessions \ {s.arg} /\ sessions' = sessions \ {s.arg}
        /\ agents' = [agents EXCEPT ![s.arg] = NoConn] /\ UNCHANGED <<activeUid, panicked, staleRead>>
    BY <1>12 DEF RemoveUser
  <2>2. /\ agents' \in [Uid -> 0..MaxConn]
        /\ \A x \in Uid : agents'[x] = IF x = s.arg THEN NoConn ELSE agents[x]
    <3>1. NoConn \in 0..MaxConn /\ agents \in [Uid -> 0..MaxConn]
      BY AgentsAssumption DEF AgentsInv, AgentTypes, NoConn
    <3> QED
      BY <2>1, <3>1
  <2>3. AgentTypes' /\ NilMeansRemoved' /\ AgentsFollowed' /\ SessionsFollowed'
    BY <1>1, <1>2, <1>7, <1>12, <2>1, <2>2
       DEF AgentsInv, AgentTypes, NilMeansRemoved, AgentsFollowed, SessionsFollowed
  <2> QED
    BY <1>8, <1>12, <2>1, <2>3 DEF AgentsInv
<1>13. CASE s.kind = "nameLost" /\ HandleNameLost(s.arg)
  <2>1. /\ agents' = [u \in Uid |-> IF agents[u] = s.arg THEN NoConn ELSE agents[u]]
        /\ UNCHANGED <<nilSessions, sessions, activeUid, panicked, staleRead>>
    BY <1>13 DEF HandleNameLost
  <2>2. agents' \in [Uid -> 0..MaxConn]
    BY <2>1, AgentsAssumption DEF AgentsInv, AgentTypes, NoConn
  <2>3. AgentTypes' /\ NilMeansRemoved' /\ AgentsFollowed' /\ SessionsFollowed'
    BY <1>1, <1>2, <1>7, <1>13, <2>1, <2>2
       DEF AgentsInv, AgentTypes, NilMeansRemoved, AgentsFollowed, SessionsFollowed
  <2> QED
    BY <1>8, <1>13, <2>1, <2>3 DEF AgentsInv
<1> QED
  BY <1>4, <1>9, <1>10, <1>11, <1>12, <1>13

LEMMA AgentsStep == AgentsInv /\ [AgentsNext]_agentVars => AgentsInv'
<1> SUFFICES ASSUME AgentsInv, [AgentsNext]_agentVars PROVE AgentsInv'
  OBVIOUS
<1>1. CASE UNCHANGED agentVars
  BY <1>1 DEF agentVars, AgentsInv, AgentTypes, NilMeansRemoved, AgentsFollowed, SessionsFollowed,
              ActiveFollowed, WillLook, UidOf
<1>2. CASE AgentsNext
  BY <1>2, LogInKeeps, SwitchToKeeps, LogOutKeeps, StartDaemonKeeps, StopDaemonKeeps,
     UnregisterAgentKeeps, AddUserKeeps, RegisterSessionKeeps, ReadActiveKeeps, SetActiveKeeps,
     AddAgentKeeps, HandleKeeps DEF AgentsNext
<1> QED
  BY <1>1, <1>2

(* Whatever users log in, switch and log out and whatever daemons start    *)
(* and stop while RegisterAgent is under way: once the signals and calls   *)
(* are handled, requests of bluez go to the user at the screen and to a    *)
(* daemon that runs, and no map that was never made is written to, but for *)
(* the three races that agent.go leaves open.                              *)
THEOREM AgentsAlwaysCurrent == AgentsSpec => []AgentsCurrent
<1>1. AgentsInv => AgentsCurrent
  <2> SUFFICES ASSUME AgentsInv PROVE AgentsCurrent
    OBVIOUS
  <2>1. ASSUME Settled
        PROVE  /\ \A k, a : ~HasSignal(queue, k, a)
               /\ \A u : ~LastActiveIs(queue, u)
               /\ \A c \in AgentConn : ~WillLook(c)
    <3>1. queue = <<>> /\ \A c \in AgentConn : register[c].pc \in {"none", "over"}
      BY <2>1 DEF Settled
    <3>2. Len(queue) = 0
      BY <3>1
    <3> QED
      BY <3>1, <3>2 DEF HasSignal, LastActiveIs, WillLook
  <2>2. ActiveUidCurrent
    BY <2>1 DEF AgentsInv, ActiveFollowed, ActiveUidCurrent
  <2>3. AgentAlive
    BY <2>1 DEF AgentsInv, AgentsFollowed, AgentAlive
  <2>4. SessionsMade
    BY DEF AgentsInv, NilMeansRemoved, SessionsMade
  <2> QED
    BY <2>2, <2>3, <2>4 DEF AgentsCurrent
<1> QED
  BY <1>1, AgentsInvInit, AgentsStep, PTL DEF AgentsSpec
=============================================================================
