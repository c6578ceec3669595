---------------------------- MODULE ObexTransfer ----------------------------
(***************************************************************************)
(* Files sent and received over bluetooth: sendFiles, doSendFiles and      *)
(* CancelTransferSession (src/bluetooth/bluetooth.go, bluetooth_ifc.go)    *)
(* and the agent that is asked whether to receive (obex_agent.go).  They   *)
(* share the property Transportable.  Each has a signal loop of its own,   *)
(* in which a handler that waits keeps the later signals waiting.  obexd   *)
(* is external: a session sends its files one after the other, and every   *)
(* transfer ends.  Sizes, progress and the texts of notifications are left *)
(* out.  Of the channel of the user's answers only the first value is read *)
(* and ten fit, so the others are left out.                                *)
(***************************************************************************)
EXTENDS Integers, Sequences, FiniteSets, Functions

CONSTANTS
  Outgoing,    \* sessions of SendFiles
  Incoming,    \* sessions of other devices that push files
  Canceller,   \* calls of CancelTransferSession
  MaxFile,     \* bound: files sent in a session
  MaxObexCalls, \* bound: calls of SendFiles, CancelTransferSession and AuthorizePush
  MaxClicks    \* bound: clicks on "cancel" while receiving

Nobody == "nobody"

ASSUME ObexAssumption ==
  /\ {MaxFile, MaxObexCalls, MaxClicks} \subseteq Nat
  /\ Nobody \notin Incoming

VARIABLES
  transportable,  \* Bluetooth.Transportable
  send,           \* doSendFiles of each outgoing session: where it is, which file
  sendStatus,     \* the transfer of its file: "none", "active", "signalled" (the
                  \* signal of its end is on its way), "over"
  sendLoop,       \* the session whose status handler b.sigLoop runs
  cancelChs,      \* sessionCancelChMap
  cancelMu,       \* who holds sessionCancelChMapMu
  cancel,         \* the calls of CancelTransferSession
  push,           \* AuthorizePush and the transfer of each incoming session
  acceptedMu,     \* who holds acceptedSessionsMu
  accepted,       \* acceptedSessions
  answer,         \* requestNotifyCh: "nil", "none" yet, "receive" or "decline"
  tokens,         \* number of values in receiveCh
  ended,          \* signals that a transfer of the session has ended
  recvLoop,       \* the session whose status handler the agent's loop runs
  receiveMu,      \* this handler holds recevieChMu and sends on receiveCh
  settling,       \* timers that will lower acceptedSessions, after one second
  button,         \* handlers of "cancel": "off", on a.notify, or on an older object
  gone,           \* sessions whose transfer ended before its handlers were connected
  obexCalls, clicks,
  overlap,        \* history: a session was accepted while another was receiving
  missed,         \* history: handlers were connected to a transfer that was over
  aborted         \* history: AuthorizePush returned when the end had been handled or missed

sendVars == <<send, sendStatus, sendLoop, cancelChs, cancelMu, cancel>>
obexHist == <<overlap, missed, aborted>>
recvVars == <<push, acceptedMu, accepted, answer, tokens, ended, recvLoop,
              receiveMu, settling, button, gone, clicks, obexHist>>
obexVars == <<obexCalls, transportable, sendVars, recvVars>>

ObexInit ==
  /\ transportable = TRUE
  /\ send = [s \in Outgoing |-> [pc |-> "idle", file |-> 0]]
  /\ sendStatus = [s \in Outgoing |-> "none"]
  /\ sendLoop = Nobody /\ cancelChs = {} /\ cancelMu = Nobody
  /\ cancel = [c \in Canceller |-> [pc |-> "idle", session |-> Nobody]]
  /\ push = [r \in Incoming |-> "idle"]
  /\ acceptedMu = Nobody /\ accepted = <<>> /\ answer = "nil" /\ tokens = 0
  /\ ended = [r \in Incoming |-> 0]
  /\ recvLoop = Nobody /\ receiveMu = FALSE
  /\ settling = [r \in Incoming |-> 0]
  /\ button = [r \in Incoming |-> "off"]
  /\ gone = {} /\ obexCalls = 0 /\ clicks = 0
  /\ overlap = FALSE /\ missed = FALSE /\ aborted = FALSE

-----------------------------------------------------------------------------
(* Sending.                                                                *)
Called == obexCalls < MaxObexCalls /\ obexCalls' = obexCalls + 1

At(s, pc) == send[s].pc = pc
Goto(s, pc) == send' = [send EXCEPT ![s].pc = pc]

\* CreateSession has succeeded (a failure changes nothing).
SendFiles(s) ==
  /\ Called /\ At(s, "idle")
  /\ Goto(s, "start")
  /\ transportable' = FALSE
  /\ UNCHANGED <<sendStatus, sendLoop, cancelChs, cancelMu, cancel, recvVars>>

DoSendFiles(s) ==
  /\ At(s, "start") /\ cancelMu = Nobody
  /\ cancelChs' = cancelChs \cup {s}
  /\ send' = [send EXCEPT ![s] = [pc |-> "file", file |-> 1]]
  /\ UNCHANGED <<obexCalls, transportable, sendStatus, sendLoop, cancelMu, cancel, recvVars>>

\* SendFile succeeds, or fails and the loop goes on with the next file, or
\* the file is gone and the loop ends.
SendFile(s) ==
  /\ At(s, "file") /\ send[s].file <= MaxFile
  /\ \/ Goto(s, "connect") /\ sendStatus' = [sendStatus EXCEPT ![s] = "active"]
     \/ send' = [send EXCEPT ![s].file = @ + 1] /\ UNCHANGED sendStatus
     \/ Goto(s, "finish") /\ UNCHANGED sendStatus
  /\ UNCHANGED <<obexCalls, transportable, sendLoop, cancelChs, cancelMu, cancel, recvVars>>

LastFileSent(s) ==
  /\ At(s, "file") /\ send[s].file > MaxFile
  /\ Goto(s, "finish")
  /\ UNCHANGED <<obexCalls, transportable, sendStatus, sendLoop, cancelChs, cancelMu, cancel,
                 recvVars>>

ConnectStatus(s) ==
  /\ At(s, "connect")
  /\ Goto(s, "select")
  /\ UNCHANGED <<obexCalls, transportable, sendStatus, sendLoop, cancelChs, cancelMu, cancel,
                 recvVars>>

HandlersConnected(s) == send[s].pc \in {"select", "cancelled", "cancelTransfer", "removeHandlers"}

\* obexd: the end is signalled to the handlers there are.
SendEnds(s) ==
  /\ sendStatus[s] = "active"
  /\ sendStatus' = [sendStatus EXCEPT ![s] = IF HandlersConnected(s) THEN "signalled" ELSE "over"]
  /\ UNCHANGED <<obexCalls, transportable, send, sendLoop, cancelChs, cancelMu, cancel, recvVars>>

\* The handler wants to send on ch, which has no buffer.
StatusChanged(s) ==
  /\ sendLoop = Nobody /\ sendStatus[s] = "signalled"
  /\ sendStatus' = [sendStatus EXCEPT ![s] = "over"]
  /\ sendLoop' = s
  /\ UNCHANGED <<obexCalls, transportable, send, cancelChs, cancelMu, cancel, recvVars>>

\* case res = <-ch, RemoveAllHandlers; the loop goes on unless the file is gone.
TransferDone(s) ==
  /\ At(s, "select") /\ sendLoop = s
  /\ sendLoop' = Nobody
  /\ \/ send' = [send EXCEPT ![s] = [pc |-> "file", file |-> @.file + 1]]
     \/ Goto(s, "finish")
  /\ UNCHANGED <<obexCalls, transportable, sendStatus, cancelChs, cancelMu, cancel, recvVars>>

\* case <-cancelCh
CancelReceived(s, c) ==
  /\ At(s, "select") /\ cancel[c] = [pc |-> "send", session |-> s]
  /\ Goto(s, "cancelled")
  /\ cancel' = [cancel EXCEPT ![c].pc = "sent"]
  /\ UNCHANGED <<obexCalls, transportable, sendStatus, sendLoop, cancelChs, cancelMu, recvVars>>

CancelDelete(s) ==
  /\ At(s, "cancelled") /\ cancelMu = Nobody
  /\ cancelChs' = cancelChs \ {s}
  /\ Goto(s, "cancelTransfer")
  /\ UNCHANGED <<obexCalls, transportable, sendStatus, sendLoop, cancelMu, cancel, recvVars>>

\* transfer.Cancel: obexd ends the transfer with an error.
CancelTransfer(s) ==
  /\ At(s, "cancelTransfer")
  /\ Goto(s, "removeHandlers")
  /\ sendStatus' = [sendStatus EXCEPT ![s] = IF @ = "active" THEN "signalled" ELSE @]
  /\ UNCHANGED <<obexCalls, transportable, sendLoop, cancelChs, cancelMu, cancel, recvVars>>

RemoveHandlers(s) ==
  /\ At(s, "removeHandlers")
  /\ Goto(s, "finish")
  /\ sendStatus' = [sendStatus EXCEPT ![s] = "over"]
  /\ UNCHANGED <<obexCalls, transportable, sendLoop, cancelChs, cancelMu, cancel, recvVars>>

\* Mutant: Transportable is not set again.
SendFinishedKeeps(s) ==
  /\ At(s, "finish") /\ cancelMu = Nobody
  /\ cancelChs' = cancelChs \ {s}
  /\ Goto(s, "end")
  /\ UNCHANGED <<obexCalls, transportable, sendStatus, sendLoop, cancelMu, cancel, recvVars>>

SendFinished(s) ==
  /\ At(s, "finish") /\ cancelMu = Nobody
  /\ cancelChs' = cancelChs \ {s}
  /\ transportable' = TRUE
  /\ Goto(s, "end")
  /\ UNCHANGED <<obexCalls, sendStatus, sendLoop, cancelMu, cancel, recvVars>>

\* The user asks for a session that has been announced; the call sleeps.
CancelTransferSession(c, s) ==
  /\ Called /\ cancel[c].pc = "idle" /\ send[s].pc # "idle"
  /\ cancel' = [cancel EXCEPT ![c] = [pc |-> "sleep", session |-> s]]
  /\ UNCHANGED <<transportable, send, sendStatus, sendLoop, cancelChs, cancelMu, recvVars>>

\* With the lock held, the call sends to whoever selects.
CancelLock(c) ==
  /\ cancel[c].pc = "sleep" /\ cancelMu = Nobody
  /\ IF cancel[c].session \in cancelChs
       THEN cancelMu' = c /\ cancel' = [cancel EXCEPT ![c].pc = "send"]
       ELSE UNCHANGED cancelMu /\ cancel' = [cancel EXCEPT ![c].pc = "end"]
  /\ UNCHANGED <<obexCalls, transportable, send, sendStatus, sendLoop, cancelChs, recvVars>>

CancelReturn(c) ==
  /\ cancel[c].pc = "sent"
  /\ cancelMu' = Nobody
  /\ cancel' = [cancel EXCEPT ![c].pc = "end"]
  /\ UNCHANGED <<obexCalls, transportable, send, sendStatus, sendLoop, cancelChs, recvVars>>

-----------------------------------------------------------------------------
(* Receiving.  The methods and handlers of the agent share few variables,  *)
(* so the rest is left unchanged by name.                                  *)
PushTo(r, pc) == push' = [push EXCEPT ![r] = pc]

AuthorizePush(r) ==
  /\ Called /\ push[r] = "idle"
  /\ PushTo(r, "called")
  /\ UNCHANGED <<transportable, sendVars, acceptedMu, accepted, answer, tokens, ended, recvLoop,
                 receiveMu, settling, button, gone, clicks, obexHist>>

\* isSessionAccepted takes the lock, and keeps it while it waits for the file
\* before this one or for the user; the notification may not be shown.
IsSessionAccepted(r) ==
  /\ push[r] = "called" /\ acceptedMu = Nobody
  /\ \/ /\ r \in DOMAIN accepted
        /\ acceptedMu' = r /\ PushTo(r, "token") /\ UNCHANGED <<answer, gone>>
     \/ /\ r \notin DOMAIN accepted /\ transportable
        /\ acceptedMu' = r /\ PushTo(r, "asking") /\ answer' = "none" /\ UNCHANGED gone
     \/ /\ r \notin DOMAIN accepted
        /\ PushTo(r, "idle") /\ gone' = gone \ {r} /\ UNCHANGED <<acceptedMu, answer>>
  /\ UNCHANGED <<obexCalls, transportable, sendVars, accepted, tokens, ended, recvLoop, receiveMu,
                 settling, button, clicks, obexHist>>

\* The user answers, in the agent's signal loop, or obexd calls Cancel.
Answer(a) ==
  /\ answer = "none"
  /\ a = "receive" => recvLoop = Nobody
  /\ answer' = a
  /\ UNCHANGED <<obexCalls, transportable, sendVars, push, acceptedMu, accepted, tokens, ended,
                 recvLoop, receiveMu, settling, button, gone, clicks, obexHist>>

\* The session's file is, or may be, on its way.
Underway(r) == push[r] \in {"accepted", "aborted", "receiving"} \/ ended[r] > 0 \/ recvLoop = r

\* requestReceive returns true.
Agree(r) ==
  /\ push[r] = "asking" /\ answer = "receive"
  /\ PushTo(r, "agreed") /\ answer' = "nil"
  /\ UNCHANGED <<obexCalls, transportable, sendVars, acceptedMu, accepted, tokens, ended, recvLoop,
                 receiveMu, settling, button, gone, clicks, obexHist>>

\* receiveCh and a.notify are replaced.  The session is counted here, though
\* the code raises the count after receiveProgress: both under the lock.
Accept(r) ==
  /\ push[r] = "agreed" /\ ~receiveMu
  /\ PushTo(r, "connecting")
  /\ tokens' = 0
  /\ accepted' = [x \in DOMAIN accepted \cup {r} |-> IF x = r THEN 1 ELSE accepted[x]]
  /\ button' = [x \in Incoming |-> IF button[x] = "on" THEN "old" ELSE button[x]]
  /\ overlap' = (overlap \/ \E x \in Incoming \ {r} : Underway(x))
  /\ UNCHANGED <<obexCalls, transportable, sendVars, acceptedMu, answer, ended, recvLoop, receiveMu,
                 settling, gone, clicks, missed, aborted>>

\* Mutant: the question has no timeout.
DeclineAnswered(r) ==
  /\ push[r] = "asking" /\ answer = "decline"
  /\ PushTo(r, "idle")
  /\ acceptedMu' = Nobody /\ answer' = "nil"
  /\ transportable' = TRUE /\ gone' = gone \ {r}
  /\ UNCHANGED <<obexCalls, sendVars, accepted, tokens, ended, recvLoop, receiveMu, settling,
                 button, clicks, obexHist>>

\* "decline", Cancel, or 40 seconds are over
Decline(r) ==
  /\ push[r] = "asking"
  /\ PushTo(r, "idle")
  /\ acceptedMu' = Nobody /\ answer' = "nil"
  /\ transportable' = TRUE /\ gone' = gone \ {r}
  /\ UNCHANGED <<obexCalls, sendVars, accepted, tokens, ended, recvLoop, receiveMu, settling,
                 button, clicks, obexHist>>

\* A further file of an accepted session, after the end of the one before
NextFile(r) ==
  /\ push[r] = "token" /\ tokens > 0
  /\ tokens' = tokens - 1
  /\ PushTo(r, "connecting")
  /\ accepted' = [accepted EXCEPT ![r] = @ + 1]
  /\ UNCHANGED <<obexCalls, transportable, sendVars, acceptedMu, answer, ended, recvLoop, receiveMu,
                 settling, button, gone, clicks, obexHist>>

\* receiveProgress connects the handlers, whatever has become of the transfer,
\* and the lock is given back.
ReceiveProgress(r) ==
  /\ push[r] = "connecting"
  /\ PushTo(r, IF r \in gone THEN "aborted" ELSE "accepted")
  /\ acceptedMu' = Nobody
  /\ button' = [button EXCEPT ![r] = "on"]
  /\ gone' = gone \ {r} /\ missed' = (missed \/ r \in gone)
  /\ UNCHANGED <<obexCalls, transportable, sendVars, accepted, answer, tokens, ended, recvLoop,
                 receiveMu, settling, clicks, overlap, aborted>>

\* obexd: the other side gives up before AuthorizePush has returned; the end
\* is signalled to the handlers there are.
Abort(r) ==
  /\ \/ /\ push[r] \in {"called", "asking", "agreed", "token", "connecting"}
        /\ gone' = gone \cup {r} /\ UNCHANGED <<push, ended>>
     \/ /\ push[r] = "accepted"
        /\ PushTo(r, "aborted") /\ ended' = [ended EXCEPT ![r] = @ + 1] /\ UNCHANGED gone
  /\ UNCHANGED <<obexCalls, transportable, sendVars, acceptedMu, accepted, answer, tokens,
                 recvLoop, receiveMu, settling, button, clicks, obexHist>>

\* AuthorizePush returns the name of the file.
Authorized(r) ==
  /\ push[r] \in {"accepted", "aborted"}
  /\ transportable' = FALSE
  /\ PushTo(r, IF push[r] = "accepted" THEN "receiving" ELSE "idle")
  /\ aborted' = (aborted \/ (push[r] = "aborted" /\ ended[r] = 0))
  /\ UNCHANGED <<obexCalls, sendVars, acceptedMu, accepted, answer, tokens, ended, recvLoop,
                 receiveMu, settling, button, gone, clicks, overlap, missed>>

TransfersEnd(R) ==
  /\ push' = [r \in Incoming |-> IF r \in R THEN "idle" ELSE push[r]]
  /\ ended' = [r \in Incoming |-> IF r \in R THEN ended[r] + 1 ELSE ended[r]]

\* obexd: the file has arrived, or the connection is lost.
ReceiveEnds(r) ==
  /\ push[r] = "receiving"
  /\ TransfersEnd({r})
  /\ UNCHANGED <<obexCalls, transportable, sendVars, acceptedMu, accepted, answer, tokens,
                 recvLoop, receiveMu, settling, button, gone, clicks, obexHist>>

\* A click on "cancel": all transfers share one notification, and every
\* handler that is still connected cancels its own.
CancelClicked ==
  LET R == {r \in Incoming : push[r] = "receiving" /\ button[r] # "off"} IN
  /\ clicks < MaxClicks /\ recvLoop = Nobody /\ R # {}
  /\ clicks' = clicks + 1
  /\ transportable' = TRUE
  /\ TransfersEnd(R)
  /\ UNCHANGED <<obexCalls, sendVars, acceptedMu, accepted, answer, tokens, recvLoop, receiveMu,
                 settling, button, gone, obexHist>>

\* The status handler: a.notify.RemoveAllHandlers takes the handlers of all
\* who connected to the current object.
ReceiveStatusChanged(r) ==
  /\ recvLoop = Nobody /\ ended[r] > 0
  /\ ended' = [ended EXCEPT ![r] = @ - 1]
  /\ recvLoop' = r
  /\ transportable' = TRUE
  /\ button' = [x \in Incoming |-> IF button[x] = "on" THEN "off" ELSE button[x]]
  /\ UNCHANGED <<obexCalls, sendVars, push, acceptedMu, accepted, answer, tokens, receiveMu,
                 settling, gone, clicks, obexHist>>

LockReceive ==
  /\ recvLoop # Nobody /\ ~receiveMu
  /\ receiveMu' = TRUE
  /\ UNCHANGED <<obexCalls, transportable, sendVars, push, acceptedMu, accepted, answer, tokens,
                 ended, recvLoop, settling, button, gone, clicks, obexHist>>

\* receiveCh has room for one value; a timer lowers acceptedSessions later.
SendToken ==
  /\ receiveMu /\ tokens = 0
  /\ tokens' = 1 /\ receiveMu' = FALSE /\ recvLoop' = Nobody
  /\ settling' = [settling EXCEPT ![recvLoop] = @ + 1]
  /\ UNCHANGED <<obexCalls, transportable, sendVars, push, acceptedMu, accepted, answer, ended,
                 button, gone, clicks, obexHist>>

Settle(r) ==
  /\ settling[r] > 0 /\ acceptedMu = Nobody
  /\ settling' = [settling EXCEPT ![r] = @ - 1]
  /\ accepted' = IF accepted[r] = 1 THEN Restrict(accepted, DOMAIN accepted \ {r})
                                    ELSE [accepted EXCEPT ![r] = @ - 1]
  /\ UNCHANGED <<obexCalls, transportable, sendVars, push, acceptedMu, answer, tokens, ended,
                 recvLoop, receiveMu, button, gone, clicks, obexHist>>

-----------------------------------------------------------------------------
Sending(s) ==
  \/ DoSendFiles(s) \/ SendFile(s) \/ LastFileSent(s) \/ ConnectStatus(s)
  \/ TransferDone(s) \/ CancelDelete(s) \/ CancelTransfer(s) \/ RemoveHandlers(s) \/ SendFinished(s)
  \/ SendEnds(s) \/ StatusChanged(s)
  \/ \E c \in Canceller : CancelReceived(s, c)

Pushing(r) ==
  \/ IsSessionAccepted(r) \/ Agree(r) \/ Accept(r) \/ Decline(r) \/ NextFile(r)
  \/ ReceiveProgress(r) \/ Authorized(r) \/ ReceiveEnds(r) \/ ReceiveStatusChanged(r) \/ Settle(r)

\* What goroutines, loops, timers and obexd do by themselves.
ObexProgress ==
  \/ \E s \in Outgoing : Sending(s)
  \/ \E c \in Canceller : CancelLock(c) \/ CancelReturn(c)
  \/ \E r \in Incoming : Pushing(r)
  \/ LockReceive \/ SendToken

ObexNext ==
  \/ ObexProgress
  \/ \E s \in Outgoing : SendFiles(s) \/ \E c \in Canceller : CancelTransferSession(c, s)
  \/ \E r \in Incoming : AuthorizePush(r) \/ Abort(r)
  \/ \E a \in {"receive", "decline"} : Answer(a)
  \/ CancelClicked

ObexSpec == ObexInit /\ [][ObexNext]_obexVars /\ WF_obexVars(ObexProgress)

-----------------------------------------------------------------------------
(* Nothing is sent, received or asked about.                               *)
TransfersQuiet ==
  /\ \A s \in Outgoing : send[s].pc \in {"idle", "end"}
  /\ \A r \in Incoming : push[r] = "idle" /\ ended[r] = 0
  /\ recvLoop = Nobody

(* Whoever takes Transportable away gives it back: however sending,        *)
(* receiving, declining and cancelling interleave, files can be received   *)
(* again when all of it is over.  Excepted is an AuthorizePush that        *)
(* returns when the end of its transfer has been handled, or missed by     *)
(* handlers connected too late: it clears the property for good.           *)
TransportableAgain == TransfersQuiet /\ ~aborted => transportable

(* AuthorizePush is always answered, although it waits for the user and    *)
(* for the file before with acceptedSessionsMu held, and the handler that  *)
(* ends the wait needs a place in receiveCh.  Excepted are behaviours in   *)
(* which a session was accepted while another was under way: both send to  *)
(* one channel of capacity one, and the loop may stop for good; and those  *)
(* in which a transfer ended before its handlers were connected: nothing   *)
(* is put into receiveCh for it, and the next file waits for ever.         *)
PushAnswered ==
  []<>(\/ overlap \/ missed
       \/ \A r \in Incoming :
            push[r] \notin {"called", "asking", "agreed", "token", "connecting"})

(* CancelTransferSession (bluetooth_ifc.go) sleeps first, "to make sure    *)
(* the session path is removed and prevent a deadlock": a call returns.    *)
CancelReturns == \A c \in Canceller : cancel[c].pc = "sleep" ~> cancel[c].pc = "end"
=============================================================================
