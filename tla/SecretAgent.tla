---------------------------- MODULE SecretAgent ----------------------------
(***************************************************************************)
(* The agent that keeps NetworkManager's secrets in the user's keyring and *)
(* asks the user for the missing ones (src/network/secret_agent.go).  Each *)
(* D-Bus call runs in a goroutine of its own.  A call that needs the       *)
(* keyring unlocks it first, one at a time, through a prompt of the secret *)
(* service; the answer comes in the signal loop, over a channel without a  *)
(* buffer.  GetSecrets starts a dialog process and waits for it.           *)
(*                                                                         *)
(* A connection has one setting with secrets; the secrets of VPNs, which   *)
(* have a branch of their own in the code, are not modelled.               *)
(***************************************************************************)
EXTENDS Naturals

CONSTANTS
  Conn,        \* connections
  Secret,      \* the secret keys of a setting
  Must,        \* those for which isMustAsk holds
  SecretFlags, \* the flags a connection may have, [Secret -> SecretFlag]
  Request,     \* the D-Bus calls
  MaxService   \* bound: exits of the secret service and errors of its items

SecretFlag == {"none", "agentOwned", "ask"}

NoRequest == "nobody"

ASSUME SecretAssumption ==
  /\ Must \subseteq Secret /\ SecretFlags \subseteq [Secret -> SecretFlag]
  /\ NoRequest \notin Request

VARIABLES
  nm,         \* NetworkManager: the flags of each connection; {} when deleted
  keyring,    \* the secrets of each connection that the keyring holds
  lockedRing, \* the keyring is locked
  unlockMu,   \* the call that has tryUnlockColMu and waits for its prompt
  loopStuck,  \* the signal loop is blocked in a handler for ever
  req,        \* the calls
  dialog,     \* the calls whose dialog process runs
  secretTask, \* saveSecretsTasks: whose process is recorded for a connection
  saHist      \* history: faults of the service, overlapped and failed calls, ...

secretVars == <<nm, keyring, lockedRing, unlockMu, loopStuck, req, dialog, secretTask, saHist>>

NoReq == [pc |-> "idle", c |-> CHOOSE c \in Conn : TRUE, snap |-> [k \in Secret |-> "none"],
          new |-> FALSE, sub |-> "want", ask |-> {}, got |-> {}, result |-> "none"]

SecretInit ==
  /\ nm \in [Conn -> SecretFlags]
  /\ keyring = [c \in Conn |-> {}]
  /\ lockedRing = TRUE
  /\ unlockMu = NoRequest
  /\ loopStuck = FALSE
  /\ req = [r \in Request |-> NoReq]
  /\ dialog = {}
  /\ secretTask = [c \in Conn |-> NoRequest]
  /\ saHist = [faults |-> 0, overlap |-> {}, failed |-> {}, skipped |-> {},
               partly |-> {}, deleted |-> {}]

Owned(f) == {k \in Secret : f[k] = "agentOwned"}
Busy(r) == req[r].pc \notin {"idle", "end"}

-----------------------------------------------------------------------------
(* NetworkManager calls.  A call that begins while another for the same    *)
(* connection runs is recorded as an overlap.                              *)

Begin(r, c, pc, new) ==
  /\ req[r].pc = "idle" /\ c \notin saHist.deleted
  /\ saHist' = [saHist EXCEPT
                  !.overlap = @ \cup {x \in {c} : \E s \in Request : Busy(s) /\ req[s].c = c},
                  !.deleted = @ \cup (IF pc = "wipe" THEN {c} ELSE {})]
  /\ req' = [req EXCEPT ![r] = [NoReq EXCEPT !.pc = pc, !.c = c, !.new = new, !.snap = nm'[c]]]
  /\ UNCHANGED <<keyring, lockedRing, unlockMu, loopStuck, dialog, secretTask>>

\* GetSecrets with interaction allowed; a secret that is not kept by an
\* agent has no value in the connection's data.  The keyring is looked at
\* for the keys that are agent-owned, unless new secrets are requested.
GetSecrets(r, c, new) ==
  /\ UNCHANGED nm
  /\ Begin(r, c, IF Owned(nm[c]) # {} /\ ~new THEN "probe" ELSE "collect", new)

\* SaveSecrets with new data of the connection, all its secrets included.
SaveSecrets(r, c, f) ==
  /\ nm' = [nm EXCEPT ![c] = f]
  /\ Begin(r, c, IF Owned(f) # {} THEN "save" ELSE "purge", FALSE)

DeleteSecrets(r, c) == UNCHANGED nm /\ Begin(r, c, "wipe", FALSE)

\* CancelGetSecrets kills the process that is recorded for the connection.
CancelGetSecrets(c) ==
  LET r == secretTask[c]
  IN /\ r # NoRequest /\ r \in dialog
     /\ dialog' = dialog \ {r}
     /\ req' = [req EXCEPT ![r].result = "killed"]
     /\ UNCHANGED <<nm, keyring, lockedRing, unlockMu, loopStuck, secretTask, saHist>>

-----------------------------------------------------------------------------
(* tryUnlockCollection.                                                    *)

Opens(r, pcs) == req[r].pc \in pcs /\ req[r].sub = "open"
RingPhase == {"probe", "store", "read", "save", "purge", "wipe"}

Unlocked(r) ==
  /\ req[r].pc \in RingPhase /\ req[r].sub = "want" /\ unlockMu = NoRequest
  /\ ~lockedRing
  /\ req' = [req EXCEPT ![r].sub = "open"]
  /\ UNCHANGED <<nm, keyring, lockedRing, unlockMu, loopStuck, dialog, secretTask,
                 saHist>>

\* Unlock either opens the keyring without a password or makes a prompt.
CallUnlock(r, auto) ==
  /\ req[r].pc \in RingPhase /\ req[r].sub = "want" /\ unlockMu = NoRequest
  /\ lockedRing
  /\ lockedRing' = ~auto
  /\ unlockMu' = IF auto THEN NoRequest ELSE r
  /\ req' = [req EXCEPT ![r].sub = IF auto THEN "open" ELSE "prompt"]
  /\ UNCHANGED <<nm, keyring, loopStuck, dialog, secretTask, saHist>>

\* The signal Completed: the keyring is open, or the user has dismissed it.
Completed(r, dismissed) ==
  /\ ~loopStuck /\ req[r].sub = "prompt"
  /\ lockedRing' = dismissed
  /\ req' = [req EXCEPT ![r].sub = IF dismissed THEN "refused" ELSE "granted"]
  /\ UNCHANGED <<nm, keyring, unlockMu, loopStuck, dialog, secretTask, saHist>>

\* A call that leaves secrets in the keyring when it fails
Cleans(r) == req[r].pc \in {"save", "purge", "wipe"}
Failed(r, h) == IF Cleans(r) THEN [h EXCEPT !.failed = @ \cup {req[r].c}] ELSE h

\* NameOwnerChanged: the secret service is gone.  The handler sends to the
\* call that waits; when the call already has its answer and has not
\* removed the handler yet, nobody receives.
ServiceExits ==
  /\ ~loopStuck /\ saHist.faults < MaxService
  /\ saHist' = [saHist EXCEPT !.faults = @ + 1]
  /\ lockedRing' = TRUE
  /\ req' = [r \in Request |-> IF req[r].sub = "prompt" THEN [req[r] EXCEPT !.sub = "refused"]
                               ELSE req[r]]
  /\ loopStuck' = \E r \in Request : req[r].sub \in {"granted", "refused"}
  /\ UNCHANGED <<nm, keyring, unlockMu, dialog, secretTask>>

\* An error ends the call, except that GetSecrets ignores a failure to store.
Fails(q) == [q EXCEPT !.pc = "end", !.sub = "want", !.result = "error"]
Refused(q) ==
  IF q.pc = "store" THEN [q EXCEPT !.pc = "read", !.sub = "want"] ELSE Fails(q)

\* A call to the secret service fails before there is a prompt.
UnlockFails(r) ==
  /\ req[r].pc \in RingPhase /\ req[r].sub = "want" /\ unlockMu = NoRequest
  /\ req' = [req EXCEPT ![r] = Refused(@)]
  /\ saHist' = Failed(r, saHist)
  /\ UNCHANGED <<nm, keyring, lockedRing, unlockMu, loopStuck, dialog, secretTask>>

\* The deferred functions: handlers removed, mutex unlocked.
UnlockReturns(r) ==
  /\ req[r].sub \in {"granted", "refused"}
  /\ unlockMu' = NoRequest
  /\ req' = [req EXCEPT ![r] = IF @.sub = "granted" THEN [@ EXCEPT !.sub = "open"]
                                                  ELSE Refused(@)]
  /\ saHist' = IF req[r].sub = "refused" THEN Failed(r, saHist) ELSE saHist
  /\ UNCHANGED <<nm, keyring, lockedRing, loopStuck, dialog, secretTask>>

-----------------------------------------------------------------------------
(* GetSecrets.                                                             *)

Goes(r, pc) == req' = [req EXCEPT ![r].pc = pc, ![r].sub = "want"]

\* Mutant: a secret that has no owner is not asked for.
AskItemsFlagged(r, ring) ==
  {k \in Must : \/ req[r].snap[k] = "ask"
                \/ req[r].snap[k] = "agentOwned" /\ (req[r].new \/ ring = {})}

\* What has to be asked.  ring is what getAll returned: one secret of the
\* setting in it is enough for none to be asked.
AskItems(r, ring) ==
  {k \in Must : \/ req[r].snap[k] \in {"none", "ask"}
                \/ req[r].snap[k] = "agentOwned" /\ (req[r].new \/ ring = {})}

Collect(r) ==
  LET ask == AskItems(r, keyring[req[r].c])
  IN /\ Opens(r, {"probe"}) \/ req[r].pc = "collect"
     /\ req' = [req EXCEPT ![r].pc = IF ask = {} THEN "read" ELSE "check",
                           ![r].sub = "want", ![r].ask = ask]
     /\ saHist' = [saHist EXCEPT !.partly = IF keyring[req[r].c] = {} THEN @ ELSE @ \cup {r}]
     /\ UNCHANGED <<nm, keyring, lockedRing, unlockMu, loopStuck, dialog, secretTask>>

\* isSecretDialogExist: with another dialog on the screen nothing is asked,
\* and that is not an error.
DialogExists(r) ==
  /\ req[r].pc = "check"
  /\ IF dialog # {}
     THEN Goes(r, "read") /\ saHist' = [saHist EXCEPT !.skipped = @ \cup {r}]
     ELSE Goes(r, "spawn") /\ UNCHANGED saHist
  /\ UNCHANGED <<nm, keyring, lockedRing, unlockMu, loopStuck, dialog, secretTask>>

\* cmd.Start, which may fail (the user has cancelled, for the caller).
StartDialog(r, started) ==
  /\ req[r].pc = "spawn"
  /\ IF started THEN Goes(r, "started") /\ dialog' = dialog \cup {r}
     ELSE req' = [req EXCEPT ![r] = Fails(@)] /\ UNCHANGED dialog
  /\ UNCHANGED <<nm, keyring, lockedRing, unlockMu, loopStuck, secretTask, saHist>>

AddSaveSecretsTask(r) ==
  /\ req[r].pc = "started"
  /\ Goes(r, "dialog")
  /\ secretTask' = [secretTask EXCEPT ![req[r].c] = r]
  /\ UNCHANGED <<nm, keyring, lockedRing, unlockMu, loopStuck, dialog, saHist>>

\* The dialog ends by itself, with or without what was asked.
DialogEnds(r, answered) ==
  /\ r \in dialog
  /\ dialog' = dialog \ {r}
  /\ req' = [req EXCEPT ![r].result = IF answered THEN "answered" ELSE "closed"]
  /\ UNCHANGED <<nm, keyring, lockedRing, unlockMu, loopStuck, secretTask, saHist>>

\* cmd.Wait returns and the record is removed.  Without an answer the call
\* fails with UserCanceled; the answers of agent-owned keys are stored.
WaitReturns(r) ==
  LET answered == req[r].result = "answered"
  IN /\ req[r].pc = "dialog" /\ r \notin dialog
     /\ secretTask' = [secretTask EXCEPT ![req[r].c] = NoRequest]
     /\ req' = [req EXCEPT ![r].pc = IF ~answered THEN "end"
                                     ELSE IF req[r].ask \cap Owned(req[r].snap) # {}
                                     THEN "store" ELSE "read",
                           ![r].got = IF answered THEN req[r].ask ELSE {}]
     /\ UNCHANGED <<nm, keyring, lockedRing, unlockMu, loopStuck, dialog, saHist>>

\* The set or delete of an item fails.
ItemError(r) ==
  /\ saHist.faults < MaxService
  /\ saHist' = Failed(r, [saHist EXCEPT !.faults = @ + 1])

\* The answers S are stored; an error is ignored.
Store(r, S) ==
  LET answers == req[r].ask \cap Owned(req[r].snap)
  IN /\ Opens(r, {"store"}) /\ S \subseteq answers
     /\ keyring' = [keyring EXCEPT ![req[r].c] = @ \cup S]
     /\ Goes(r, "read")
     /\ IF S = answers THEN UNCHANGED saHist ELSE ItemError(r)
     /\ UNCHANGED <<nm, lockedRing, unlockMu, loopStuck, dialog, secretTask>>

\* The last getAll, and the answer to NetworkManager.
ReadSaved(r) ==
  /\ Opens(r, {"read"})
  /\ req' = [req EXCEPT ![r].pc = "end", ![r].sub = "want", ![r].result = "ok",
                        ![r].got = @ \cup (keyring[req[r].c] \cap Owned(req[r].snap))]
  /\ UNCHANGED <<nm, keyring, lockedRing, unlockMu, loopStuck, dialog, secretTask,
                 saHist>>

-----------------------------------------------------------------------------
(* SaveSecrets sets the agent-owned secrets and then deletes the others,   *)
(* and ends with the first error; DeleteSecrets deletes all, and an error  *)
(* is only logged.  S is what is set or deleted.                           *)

\* Each is set twice: an error may come when all are set.
SetOwned(r, S) ==
  /\ Opens(r, {"save"}) /\ S \subseteq Owned(req[r].snap)
  /\ keyring' = [keyring EXCEPT ![req[r].c] = @ \cup S]
  /\ \/ S = Owned(req[r].snap) /\ Goes(r, "purge") /\ UNCHANGED saHist
     \/ req' = [req EXCEPT ![r] = Fails(@)] /\ ItemError(r)
  /\ UNCHANGED <<nm, lockedRing, unlockMu, loopStuck, dialog, secretTask>>

DeleteOthers(r, S) ==
  LET others == Secret \ Owned(req[r].snap)
  IN /\ Opens(r, {"purge"}) /\ S \subseteq others
     /\ keyring' = [keyring EXCEPT ![req[r].c] = @ \ S]
     /\ IF S = others THEN Goes(r, "end") /\ UNCHANGED saHist
        ELSE req' = [req EXCEPT ![r] = Fails(@)] /\ ItemError(r)
     /\ UNCHANGED <<nm, lockedRing, unlockMu, loopStuck, dialog, secretTask>>

DeleteAll(r, S) ==
  /\ Opens(r, {"wipe"})
  /\ keyring' = [keyring EXCEPT ![req[r].c] = @ \ S]
  /\ Goes(r, "end")
  /\ IF S = Secret THEN UNCHANGED saHist ELSE ItemError(r)
  /\ UNCHANGED <<nm, lockedRing, unlockMu, loopStuck, dialog, secretTask>>

-----------------------------------------------------------------------------
SecretStep(r) ==
  \/ Unlocked(r) \/ \E b \in BOOLEAN : CallUnlock(r, b) \/ Completed(r, b)
  \/ UnlockFails(r) \/ UnlockReturns(r)
  \/ Collect(r) \/ DialogExists(r) \/ AddSaveSecretsTask(r)
  \/ \E b \in BOOLEAN : StartDialog(r, b) \/ DialogEnds(r, b)
  \/ WaitReturns(r) \/ ReadSaved(r)
  \/ \E S \in SUBSET Secret :
       Store(r, S) \/ SetOwned(r, S) \/ DeleteOthers(r, S) \/ DeleteAll(r, S)

SecretNext ==
  \/ \E r \in Request, c \in Conn :
        \/ \E new \in BOOLEAN : GetSecrets(r, c, new)
        \/ \E f \in SecretFlags : SaveSecrets(r, c, f)
        \/ DeleteSecrets(r, c)
  \/ \E c \in Conn : CancelGetSecrets(c)
  \/ ServiceExits
  \/ \E r \in Request : SecretStep(r)

SecretSpec == SecretInit /\ [][SecretNext]_secretVars

-----------------------------------------------------------------------------
(* The keyring holds a secret only of a connection that is there and wants *)
(* it kept, once the calls for it are over, unless two of them overlapped  *)
(* or a SaveSecrets or DeleteSecrets failed at the keyring, which leaves   *)
(* secrets there (DeleteSecrets without saying so): a dialog's answer is   *)
(* not stored for a connection whose secrets were deleted meanwhile.       *)
NoForeignSecret ==
  \A c \in Conn \ (saHist.overlap \cup saHist.failed) :
     (\A r \in Request : Busy(r) => req[r].c # c) =>
       keyring[c] \subseteq (IF c \in saHist.deleted THEN {} ELSE Owned(nm[c]))

(* The process recorded for a connection is one that runs or is about to   *)
(* be reaped, and every dialog can be cancelled once its process is        *)
(* recorded, unless two calls for the connection overlapped:               *)
(* CancelGetSecrets kills nothing else.                                    *)
DialogsCancellable ==
  \A c \in Conn \ saHist.overlap, r \in Request :
     /\ secretTask[c] = r => req[r].pc = "dialog" /\ req[r].c = c
     /\ r \in dialog /\ req[r].pc = "dialog" /\ req[r].c = c => secretTask[c] = r

(* A GetSecrets that ends well gives every secret that must be there,      *)
(* unless the dialog of another call was on the screen, calls overlapped,  *)
(* or the keyring had another secret of the setting and not this one.      *)
AnsweredInFull ==
  \A r \in Request \ saHist.skipped :
     req[r].result = "ok" /\ req[r].c \notin saHist.overlap =>
       \A k \in Must : \/ k \in req[r].got
                       \/ req[r].snap[k] = "agentOwned" /\ ~req[r].new /\ r \in saHist.partly

(* Calls get the secrets they need, dialogs can be cancelled, and nothing  *)
(* is stored that is not wanted.                                           *)
SecretsServed == AnsweredInFull /\ DialogsCancellable /\ NoForeignSecret
=============================================================================
