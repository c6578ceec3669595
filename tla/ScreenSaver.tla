----------------------------- MODULE ScreenSaver -----------------------------
(***************************************************************************)
(* org.freedesktop.ScreenSaver (src/screensaver) in an X11 session: the    *)
(* programs that inhibit the idle timer, the timeout of the X server while *)
(* it is inhibited, and the timeout to go back to.  Every method holds     *)
(* ss.mu throughout, so it is one step; so is the handler of the signal    *)
(* NameOwnerChanged that takes away an inhibitor of a program that died.   *)
(***************************************************************************)
EXTENDS Integers, FiniteSets

CONSTANTS
  Sender,     \* unique bus names
  Seconds,    \* timeouts that SetTimeout is called with (uint32)
  Intervals,  \* intervals that SetTimeout is called with, within 16 bits
  MaxCookie   \* bound: calls of Inhibit, far below the range of uint32

ASSUME ScreenSaverAssumption ==
  /\ Seconds \subseteq Nat
  /\ Intervals \subseteq Nat /\ \A i \in Intervals : i <= 32767
  /\ MaxCookie \in Nat

VARIABLES
  inhibitors,   \* cookies in use
  owner,        \* sender of each cookie given out
  counter,
  idleTime, idleInterval,
  lastVals,     \* nil, or what SetTimeout asked for while inhibited
  x,            \* the X server's timeout and interval
  conn,         \* connection of each sender; "closing": the signal is on its way
  requested     \* history: the values of the last SetTimeout

ssVars == <<inhibitors, owner, counter, idleTime, idleInterval, lastVals, x, conn, requested>>

XDefault == 600

Vals(s, i) == [seconds |-> s, interval |-> i]
Nil == Vals(-1, -1)
Cookie == 1..MaxCookie

ScreenSaverInit ==
  /\ inhibitors = {}
  /\ owner = [k \in Cookie |-> "nobody"]
  /\ counter = 0
  /\ idleTime = 0 /\ idleInterval = 0
  /\ lastVals = Nil
  /\ x = Vals(XDefault, XDefault)
  /\ conn = [s \in Sender |-> "on"]
  /\ requested = Nil

-----------------------------------------------------------------------------
\* int16(seconds)
Int16(n) == IF n % 65536 < 32768 THEN n % 65536 ELSE (n % 65536) - 65536

\* setTimeout.  The X server takes its default for -1 and refuses a
\* smaller number; the error is logged.
SetXTimeout(s, i) ==
  x' = IF Int16(s) < -1 THEN x
       ELSE Vals(IF Int16(s) = -1 THEN XDefault ELSE Int16(s), i)

Inhibit(s) ==
  /\ conn[s] # "off" /\ counter < MaxCookie
  /\ counter' = counter + 1
  /\ inhibitors' = inhibitors \cup {counter + 1}
  /\ owner' = [owner EXCEPT ![counter + 1] = s]
  /\ IF inhibitors = {} THEN SetXTimeout(0, 0) ELSE UNCHANGED x
  /\ UNCHANGED <<idleTime, idleInterval, lastVals, conn, requested>>

\* Mutant: the values asked for during the inhibition are not kept.
RemoveInhibitorForgets(k) ==
  /\ inhibitors' = inhibitors \ {k}
  /\ IF inhibitors \ {k} # {}
       THEN UNCHANGED <<idleTime, lastVals, x>>
       ELSE IF lastVals # Nil
              THEN /\ SetXTimeout(lastVals.seconds, lastVals.interval)
                   /\ lastVals' = Nil
                   /\ UNCHANGED idleTime
              ELSE /\ SetXTimeout(idleTime, idleInterval)
                   /\ UNCHANGED <<idleTime, lastVals>>
  /\ UNCHANGED <<owner, counter, idleInterval, requested>>

\* unInhibit: after the last inhibitor, back to what was asked for in the
\* meantime or else to the values before.
RemoveInhibitor(k) ==
  /\ inhibitors' = inhibitors \ {k}
  /\ IF inhibitors \ {k} # {}
       THEN UNCHANGED <<idleTime, lastVals, x>>
       ELSE IF lastVals # Nil
              THEN /\ SetXTimeout(lastVals.seconds, lastVals.interval)
                   /\ idleTime' = lastVals.seconds
                   /\ lastVals' = Nil
              ELSE /\ SetXTimeout(idleTime, idleInterval)
                   /\ UNCHANGED <<idleTime, lastVals>>
  /\ UNCHANGED <<owner, counter, idleInterval, requested>>

\* The sender of an inhibitor gives its cookie back; other cookies and other
\* senders are refused.
UnInhibit(s, k) ==
  /\ conn[s] # "off"
  /\ k \in inhibitors /\ owner[k] = s
  /\ RemoveInhibitor(k)
  /\ UNCHANGED conn

\* Mutant: the inhibitors are not looked at.
SetTimeoutAlways(s, i) ==
  /\ requested' = Vals(s, i)
  /\ SetXTimeout(s, i)
  /\ idleTime' = s /\ idleInterval' = i
  /\ UNCHANGED <<inhibitors, owner, counter, lastVals, conn>>

SetTimeout(s, i) ==
  /\ requested' = Vals(s, i)
  /\ IF inhibitors # {}
       THEN /\ lastVals' = Vals(s, i)
            /\ UNCHANGED <<idleTime, idleInterval, x>>
       ELSE /\ SetXTimeout(s, i)
            /\ idleTime' = s /\ idleInterval' = i
            /\ UNCHANGED lastVals
  /\ UNCHANGED <<inhibitors, owner, counter, conn>>

\* A program leaves the bus.
Disconnect(s) ==
  /\ conn[s] = "on"
  /\ conn' = [conn EXCEPT ![s] = "closing"]
  /\ UNCHANGED <<inhibitors, owner, counter, idleTime, idleInterval, lastVals, x, requested>>

OwnedBy(s) == {k \in inhibitors : owner[k] = s}

\* The handler of NameOwnerChanged stops at the first inhibitor it finds.
NameOwnerChanged(s) ==
  /\ conn[s] = "closing"
  /\ conn' = [conn EXCEPT ![s] = "off"]
  /\ IF OwnedBy(s) = {}
       THEN UNCHANGED <<inhibitors, owner, counter, idleTime, idleInterval, lastVals, x, requested>>
       ELSE \E k \in OwnedBy(s) : RemoveInhibitor(k)

ScreenSaverNext ==
  \/ \E s \in Sender : Inhibit(s) \/ Disconnect(s) \/ NameOwnerChanged(s)
  \/ \E s \in Sender, k \in Cookie : UnInhibit(s, k)
  \/ \E s \in Seconds, i \in Intervals : SetTimeout(s, i)

ScreenSaverSpec == ScreenSaverInit /\ [][ScreenSaverNext]_ssVars

-----------------------------------------------------------------------------
(* While a program inhibits the idle timer, the X server does not count,   *)
(* whatever SetTimeout is called with.                                     *)
InhibitedMeansOff == inhibitors # {} => x.seconds = 0

Fits(v) == v.seconds <= 32767

(* When nobody inhibits the timer, the X server counts to the timeout that *)
(* was asked for last, during an inhibition or not, as long as the number  *)
(* fits into 16 bits.                                                      *)
SecondsRestored ==
  inhibitors = {} /\ requested # Nil /\ Fits(requested) =>
     x.seconds = requested.seconds
=============================================================================
