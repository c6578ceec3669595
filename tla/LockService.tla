----------------------------- MODULE LockService -----------------------------
(***************************************************************************)
(* The lock service (src/bin/dde-lockservice/manager.go).                  *)
(* AuthenticateUser starts a PAM conversation whose prompts are answered   *)
(* through a channel of authUserTable, by UnlockCheck; UnlockCheck without *)
(* a conversation starts one that has the password.  Every method call and *)
(* every conversation is a goroutine; authLocker protects the table.  The  *)
(* key, pid and user, is one Client.                                       *)
(***************************************************************************)
EXTENDS Integers, FiniteSets

CONSTANTS
  Client,
  Talk,        \* bound: conversations, numbered in the order they start
  MaxPrompts,  \* bound: prompts of a conversation
  MaxNoPid     \* bound: callers whose pid is not found

ASSUME LockServiceAssumption ==
  /\ IsFiniteSet(Talk) /\ Talk = 1..Cardinality(Talk)
  /\ {MaxPrompts, MaxNoPid} \subseteq Nat
  /\ {"free", "lost"} \cap Client = {}

NoChan == 0

VARIABLES
  authUserTable, \* the channel of each client; channels have the number of the
                 \* conversation they were made for
  buffer,        \* channels that hold a password
  closed,        \* channels that are closed
  locker,        \* who holds authLocker: "free", a client whose send blocks, "lost"
  talk,          \* the conversations
  noPids,
  crossed2,      \* history: clients that had two conversations at a time
  unstarted,     \* history: clients for whom PAM could not be started
  jammed         \* history: a second password came while nobody read the first

lockServiceVars == <<authUserTable, buffer, closed, locker, talk, noPids, crossed2, unstarted,
                     jammed>>

NoTalk == [pc |-> "none", client |-> "none", password |-> FALSE, chan |-> NoChan, prompts |-> 0]

LockInit ==
  /\ authUserTable = [c \in Client |-> NoChan]
  /\ buffer = {} /\ closed = {}
  /\ locker = "free"
  /\ talk = [t \in Talk |-> NoTalk]
  /\ noPids = 0 /\ crossed2 = {} /\ unstarted = {} /\ jammed = FALSE

-----------------------------------------------------------------------------
Running(c) == {t \in Talk : talk[t].client = c /\ talk[t].pc \notin {"none", "over"}}
Fresh == {t \in Talk : talk[t].pc = "none"}

\* go doAuthenticate
DoAuthenticate(t, c, password) ==
  /\ t \in Fresh /\ \A u \in Fresh : t <= u
  /\ talk' = [talk EXCEPT ![t] = [NoTalk EXCEPT !.pc = "pam", !.client = c, !.password = password]]
  /\ crossed2' = IF Running(c) = {} THEN crossed2 ELSE crossed2 \cup {c}

AuthenticateUser(c) ==
  /\ locker = "free" /\ authUserTable[c] = NoChan
  /\ \E t \in Talk : /\ DoAuthenticate(t, c, FALSE)
                     /\ authUserTable' = [authUserTable EXCEPT ![c] = t]
  /\ UNCHANGED <<buffer, closed, locker, noPids, unstarted, jammed>>

\* The caller is gone: AuthenticateUser returns with the lock held.
AuthenticateNoPid ==
  /\ locker = "free" /\ noPids < MaxNoPid
  /\ noPids' = noPids + 1
  /\ locker' = "lost"
  /\ UNCHANGED <<authUserTable, buffer, closed, talk, crossed2, unstarted, jammed>>

Reads(t, ch) == talk[t].pc = "receive" /\ talk[t].chan = ch

\* Mutant: the branch that sends does not give the lock back.
UnlockCheckHolds(c) ==
  LET ch == authUserTable[c] IN
  /\ locker = "free"
  /\ IF ch # NoChan
       THEN /\ locker' = "lost" /\ buffer' = buffer \cup {ch}
            /\ UNCHANGED <<talk, crossed2, jammed>>
       ELSE /\ \E t \in Talk : DoAuthenticate(t, c, TRUE)
            /\ UNCHANGED <<buffer, locker, jammed>>
  /\ UNCHANGED <<authUserTable, closed, noPids, unstarted>>

\* UnlockCheck: the password goes to the channel, with the lock held until there
\* is room for it.
UnlockCheck(c) ==
  LET ch == authUserTable[c] IN
  /\ locker = "free"
  /\ IF ch # NoChan
       THEN /\ IF ch \in buffer THEN locker' = c /\ UNCHANGED buffer
                                ELSE buffer' = buffer \cup {ch} /\ UNCHANGED locker
            /\ jammed' = (jammed \/ (ch \in buffer /\ ~\E t \in Talk : Reads(t, ch)))
            /\ UNCHANGED <<talk, crossed2>>
       ELSE /\ \E t \in Talk : DoAuthenticate(t, c, TRUE)
            /\ UNCHANGED <<buffer, locker, jammed>>
  /\ UNCHANGED <<authUserTable, closed, noPids, unstarted>>

\* There is room: the send ends.
SendPassword(c) ==
  /\ locker = c /\ authUserTable[c] \notin buffer
  /\ buffer' = buffer \cup {authUserTable[c]}
  /\ locker' = "free"
  /\ UNCHANGED <<authUserTable, closed, talk, noPids, crossed2, unstarted, jammed>>

-----------------------------------------------------------------------------
\* The conversation t.  PAM prompts or is finished.
TalkAt(t, pc) == talk[t].pc = pc
Go(t, pc) == talk' = [talk EXCEPT ![t].pc = pc]

Prompt(t) ==
  /\ TalkAt(t, "pam") /\ talk[t].prompts < MaxPrompts
  /\ talk' = [talk EXCEPT ![t].prompts = @ + 1, ![t].password = FALSE,
                          ![t].pc = IF talk[t].password THEN "pam" ELSE "lookup"]
  /\ UNCHANGED <<authUserTable, buffer, closed, locker, noPids, crossed2, unstarted, jammed>>

LookUp(t) ==
  /\ TalkAt(t, "lookup") /\ locker = "free"
  /\ talk' = [talk EXCEPT ![t].chan = authUserTable[talk[t].client],
                          ![t].pc = IF authUserTable[talk[t].client] = NoChan
                                      THEN "finish" ELSE "receive"]
  /\ UNCHANGED <<authUserTable, buffer, closed, locker, noPids, crossed2, unstarted, jammed>>

\* A closed channel that is empty answers with the empty string.
Receive(t) ==
  LET ch == talk[t].chan IN
  /\ TalkAt(t, "receive") /\ ch \in buffer \cup closed
  /\ Go(t, IF ch \in buffer THEN "received" ELSE "pam")
  /\ buffer' = buffer \ {ch}
  /\ UNCHANGED <<authUserTable, closed, locker, noPids, crossed2, unstarted, jammed>>

\* delete, close: closing twice is a panic
Received(t) ==
  /\ TalkAt(t, "received") /\ locker = "free"
  /\ authUserTable' = [authUserTable EXCEPT ![talk[t].client] = NoChan]
  /\ closed' = closed \cup {talk[t].chan}
  /\ Go(t, IF talk[t].chan \in closed THEN "panic" ELSE "pam")
  /\ UNCHANGED <<buffer, locker, noPids, crossed2, unstarted, jammed>>

\* pam.StartFunc fails: doAuthenticate returns and leaves the channel behind.
PamStartFails(t) ==
  /\ TalkAt(t, "pam") /\ talk[t].prompts = 0
  /\ Go(t, "over")
  /\ unstarted' = unstarted \cup {talk[t].client}
  /\ UNCHANGED <<authUserTable, buffer, closed, locker, noPids, crossed2, jammed>>

PamEnds(t) ==
  /\ TalkAt(t, "pam")
  /\ Go(t, "finish")
  /\ UNCHANGED <<authUserTable, buffer, closed, locker, noPids, crossed2, unstarted, jammed>>

\* Mutant: a channel nobody read is left in the table.
FinishKeeps(t) ==
  /\ TalkAt(t, "finish") /\ locker = "free"
  /\ Go(t, "over")
  /\ UNCHANGED <<authUserTable, buffer, closed, locker, noPids, crossed2, unstarted, jammed>>

\* The end of doAuthenticate: the channel of the client, whoever made it
FinishTalk(t) ==
  LET ch == authUserTable[talk[t].client] IN
  /\ TalkAt(t, "finish") /\ locker = "free"
  /\ closed' = IF ch = NoChan THEN closed ELSE closed \cup {ch}
  /\ authUserTable' = [authUserTable EXCEPT ![talk[t].client] = NoChan]
  /\ Go(t, IF ch \in closed THEN "panic" ELSE "over")
  /\ UNCHANGED <<buffer, locker, noPids, crossed2, unstarted, jammed>>

TalkStep(t) ==
  \/ PamStartFails(t) \/ Prompt(t) \/ LookUp(t) \/ Receive(t) \/ Received(t)
  \/ PamEnds(t) \/ FinishTalk(t)

\* A panic ends the service.
LockNext ==
  /\ \A t \in Talk : ~TalkAt(t, "panic")
  /\ \/ AuthenticateNoPid
     \/ \E c \in Client : AuthenticateUser(c) \/ UnlockCheck(c) \/ SendPassword(c)
     \/ \E t \in Talk : TalkStep(t)

\* Goroutines run; PAM comes to an end.
LockProgress ==
  \/ \E c \in Client : SendPassword(c)
  \/ \E t \in Talk : TalkStep(t)

LockFairness == WF_lockServiceVars(LockProgress)

LockSpec == LockInit /\ [][LockNext]_lockServiceVars /\ LockFairness

-----------------------------------------------------------------------------
(* As long as a client has one conversation at a time and PAM starts: a    *)
(* channel of the table is open and belongs to a conversation that is not  *)
(* over, so that no password is left where nobody reads it,                *)
(* AuthenticateUser never refuses a client because of a conversation that  *)
(* has ended, and no send or close finds a closed channel.                 *)
ChannelHasReader ==
  \A c \in Client \ (crossed2 \cup unstarted) : authUserTable[c] # NoChan =>
     /\ authUserTable[c] \notin closed
     /\ authUserTable[c] \in Running(c)

(* A channel is closed once; only when a client has two conversations at a *)
(* time can one close the channel that the other is about to close.        *)
ClosedOnce == \A t \in Talk : TalkAt(t, "panic") => talk[t].client \in crossed2

(* A conversation that needs the lock gets it, and so goes on until it     *)
(* waits for its client or is over.  It does not when a caller's pid was   *)
(* not found, which leaves the lock taken, or when a second password comes *)
(* before the conversation waits for the first: the sender then has the    *)
(* lock and waits for the conversation, which waits for the lock.          *)
ConversationGoesOn ==
  \A t \in Talk : []<>(\/ talk[t].pc \notin {"lookup", "received", "finish"}
                       \/ noPids > 0 \/ jammed)

(* The channels of the table have readers and are closed once.             *)
ChannelsInOrder == ChannelHasReader /\ ClosedOnce
=============================================================================
