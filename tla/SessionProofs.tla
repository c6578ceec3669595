---------------------------- MODULE SessionProofs ----------------------------
(***************************************************************************)
(* Proofs about components of the session daemon that follow what others   *)
(* do, for any number of events: the lid switch and the ambient light      *)
(* sensor, the session watcher, the transfer of files over bluetooth, and  *)
(* the agent that serves the secrets of network connections.               *)
(***************************************************************************)
EXTENDS LidSwitch, SessionWatcher, ObexTransfer, SecretAgent, TLAPS

-----------------------------------------------------------------------------
(* The lid.                                                                *)

LidPC  == {"none", "new", "listen", "light", "operate", "end"}
LidRec == [pc : LidPC, open : BOOLEAN, on : Nat]
LidPast == [light : Nat, fails : Nat, lateStart : BOOLEAN, overlap : BOOLEAN, early : BOOLEAN,
            together : BOOLEAN]

LidTypes ==
  /\ cookie \in 0..MaxLid
  /\ lidOp \in [Gen -> LidRec]
  /\ timers \in Seq(Gen)
  /\ isLidOpenLast \in BOOLEAN
  /\ lidHist \in LidPast

\* Exactly the events that have come have a goroutine.
NotYet == \A g \in Gen : g > cookie <=> lidOp[g].pc = "none"

\* A goroutine that listens has a timer, and only those that have listened.
ListenersTimed ==
  /\ \A g \in Gen : Ready(g) => \E i \in DOMAIN timers : timers[i] = g
  /\ \A i \in DOMAIN timers : lidOp[timers[i]].pc \notin {"none", "new"}

\* Goroutines that are scheduled before the next event listen to their own
\* cookie, and their timers are in the order of the events.
OwnCookie == \A g \in Gen : Ready(g) => lidOp[g].on = g
InOrder ==
  /\ \A i, j \in DOMAIN timers : i < j => timers[i] < timers[j]
  /\ \A i \in DOMAIN timers : timers[i] <= cookie

\* The last event's operation is the last of all.
LastDecides ==
  \A g \in Gen : g = cookie /\ lidOp[g].pc \in {"light", "operate", "end"} =>
    isLidOpenLast = lidOp[g].open /\ \A h \in Gen : ~Ready(h)

Operating(g) == lidOp[g].pc \in {"light", "operate"}

\* Operations that do not overlap are for the state that was remembered, and
\* an open lid is black only while its operation is under way.
OperatesLast == \A g \in Gen : Operating(g) => lidOp[g].open = isLidOpenLast
BlackMeansClosed ==
  screenBlack => ~isLidOpenLast \/ \E g \in Gen : Operating(g) /\ lidOp[g].open

LidInv ==
  /\ LidTypes /\ NotYet /\ ListenersTimed
  /\ ~lidHist.lateStart => OwnCookie /\ InOrder /\ LastDecides
  /\ ~lidHist.together => OperatesLast /\ BlackMeansClosed

-----------------------------------------------------------------------------
(* The light sensor.                                                       *)

LightRec == [sensor : BOOLEAN, auto : BOOLEAN, active : BOOLEAN, lidClosed : BOOLEAN,
             claimed : BOOLEAN]
System == <<"system", 0>>

LightTypes ==
  /\ light \in LightRec
  /\ lightTodo \subseteq LightThread
  /\ decided \in [LightThread -> {"no", "claim", "release"}]
  /\ proxy \in BOOLEAN

\* The goroutine of a lid event decides once, in the middle of its operation.
LidDecides == \A g \in Gen : decided[<<"lid", g>>] # "no" => lidOp[g].pc = "light"

\* A decision is still to come.
DecisionDue ==
  \/ lightTodo # {}
  \/ \E g \in Gen : lidOp[g].pc = "light" /\ decided[<<"lid", g>>] = "no"

\* Decisions that do not overlap: there is one at a time, ...
OneDecides == \A t, u \in LightThread : decided[t] # "no" /\ decided[u] # "no" => t = u

\* ... it is the one for the state as it is, unless another is to come, ...
DecidesRight ==
  \A t \in LightThread : decided[t] # "no" => DecisionDue \/ ((decided[t] = "claim") = ShouldClaim)

\* ... and without one what is claimed is right.
ClaimedRight ==
  DecisionDue \/ light.claimed = ShouldClaim \/ \E t \in LightThread : decided[t] # "no"

\* The service and the daemon disagree only after a restart of the service.
ProxyAgrees == proxy = light.claimed \/ (System \in lightTodo /\ ~proxy)

LightInv ==
  /\ LightTypes /\ LidDecides
  /\ ~lidHist.overlap /\ lidHist.fails = 0 /\ ~lidHist.early =>
       OneDecides /\ DecidesRight /\ ClaimedRight /\ ProxyAgrees

-----------------------------------------------------------------------------
LEMMA LightThreads ==
  /\ \A g \in Gen : <<"lid", g>> \in LightThread
  /\ System \in LightThread
  /\ \A t \in LightThread : /\ t[1] = "lid" => t[2] \in Gen /\ t = <<"lid", t[2]>>
                            /\ t[1] = "system" => t = System
                            /\ t[1] \in {"lid", "session", "system", "settings"}
BY DEF LightThread, System

LEMMA LidInitInv == LidInit => LidInv /\ LightInv
<1> SUFFICES ASSUME LidInit PROVE LidInv /\ LightInv
  OBVIOUS
<1>1. /\ cookie = 0 /\ lidOp = [g \in Gen |-> NoOp] /\ timers = <<>>
      /\ isLidOpenLast = TRUE /\ screenBlack = FALSE /\ proxy = TRUE
      /\ light = [sensor |-> TRUE, auto |-> TRUE, active |-> TRUE, lidClosed |-> FALSE,
                  claimed |-> TRUE]
      /\ lightTodo = {} /\ decided = [t \in LightThread |-> "no"]
      /\ lidHist = [light |-> 0, fails |-> 0, lateStart |-> FALSE, overlap |-> FALSE,
                    early |-> FALSE, together |-> FALSE]
  BY DEF LidInit
<1>2. NoOp \in LidRec /\ NoOp.pc = "none"
  BY DEF NoOp, LidRec, LidPC
<1>3. lidHist \in LidPast
  BY <1>1 DEF LidPast
<1>4. light \in LightRec
  BY <1>1 DEF LightRec
<1>5. isLidOpenLast \in BOOLEAN /\ proxy \in BOOLEAN
  BY <1>1, Zenon
<1>6. LidTypes
  BY <1>1, <1>2, <1>3, <1>5, LidAssumption DEF LidTypes
<1>7. \A g \in Gen : lidOp[g].pc = "none"
  BY <1>1, <1>2
<1>8. LidInv
  <2>0. NotYet
    BY <1>1, <1>7, LidAssumption DEF NotYet, Gen
  <2>1. ListenersTimed
    BY <1>1, <1>7 DEF ListenersTimed, Ready
  <2>2. OwnCookie /\ LastDecides
    BY <1>7 DEF OwnCookie, LastDecides, Ready
  <2>4. InOrder
    BY <1>1 DEF InOrder
  <2>3. OperatesLast /\ BlackMeansClosed
    BY <1>1, <1>7 DEF OperatesLast, BlackMeansClosed, Operating
  <2> QED
    BY <1>6, <2>0, <2>1, <2>2, <2>3, <2>4 DEF LidInv
<1>9. LightTypes /\ LidDecides
  BY <1>1, <1>4, <1>5, LightThreads DEF LightTypes, LidDecides
<1>10. ShouldClaim = TRUE /\ light.claimed = TRUE
  BY <1>1 DEF ShouldClaim
<1>11. OneDecides /\ DecidesRight /\ ClaimedRight /\ ProxyAgrees
  BY <1>1, <1>10 DEF OneDecides, DecidesRight, ClaimedRight, ProxyAgrees
<1> QED
  BY <1>8, <1>9, <1>11 DEF LightInv

LEMMA LidEventKeeps ==
  ASSUME LidInv, LightInv, LidEvent
  PROVE  LidInv' /\ LightInv'
<1> DEFINE n == cookie + 1
           op == [pc |-> "new", open |-> (cookie > 0 /\ ~lidOp[cookie].open), on |-> 0]
<1>1. /\ cookie < MaxLid /\ cookie' = n /\ lidOp' = [lidOp EXCEPT ![n] = op]
      /\ UNCHANGED <<timers, isLidOpenLast, screenBlack, light, lightTodo, decided, proxy, lidHist>>
  BY DEF LidEvent, lightVars
<1>2. /\ cookie \in 0..MaxLid /\ lidOp \in [Gen -> LidRec] /\ timers \in Seq(Gen)
      /\ n \in Gen /\ MaxLid \in Nat /\ n \in 0..MaxLid
  BY <1>1, LidAssumption DEF LidInv, LidTypes, Gen
<1>3. op \in LidRec /\ op.pc = "new"
  <2>1. (cookie > 0 /\ ~lidOp[cookie].open) \in BOOLEAN
    OBVIOUS
  <2>2. ASSUME NEW b \in BOOLEAN PROVE [pc |-> "new", open |-> b, on |-> 0] \in LidRec
    BY DEF LidRec, LidPC
  <2> QED
    BY <2>1, <2>2, Zenon
<1> HIDE DEF op
<1>4. /\ lidOp' \in [Gen -> LidRec] /\ lidOp'[n] = op
      /\ \A g \in Gen : g # n => lidOp'[g] = lidOp[g]
  BY <1>1, <1>2, <1>3
<1>5. LidTypes'
  BY <1>1, <1>2, <1>4 DEF LidInv, LidTypes
<1>6. NotYet' /\ ListenersTimed'
  <2>1. NotYet'
    BY <1>1, <1>2, <1>3, <1>4 DEF LidInv, NotYet, Gen
  <2>2. lidOp[n].pc = "none" /\ \A i \in DOMAIN timers : timers[i] \in Gen
    BY <1>2 DEF LidInv, NotYet
  <2> QED
    BY <2>1, <2>2, <1>1, <1>3, <1>4 DEF LidInv, ListenersTimed, Ready
<1>7. OwnCookie /\ InOrder /\ LastDecides => (OwnCookie /\ InOrder /\ LastDecides)'
  BY <1>1, <1>2, <1>3, <1>4 DEF OwnCookie, InOrder, LastDecides, Ready, Gen
<1>8. lidOp[n].pc = "none"
  BY <1>2 DEF LidInv, NotYet
<1>9. OperatesLast /\ BlackMeansClosed => (OperatesLast /\ BlackMeansClosed)'
  BY <1>1, <1>2, <1>3, <1>4, <1>8 DEF OperatesLast, BlackMeansClosed, Operating
<1>10. LidInv'
  BY <1>1, <1>5, <1>6, <1>7, <1>9 DEF LidInv
<1>11. LightTypes' /\ LidDecides'
  BY <1>1, <1>3, <1>4, <1>8 DEF LightInv, LightTypes, LidDecides
<1>12. DecisionDue => DecisionDue'
  BY <1>1, <1>3, <1>4, <1>8 DEF DecisionDue
<1>13. LightInv'
  BY <1>1, <1>11, <1>12 DEF LightInv, OneDecides, DecidesRight, ClaimedRight, ProxyAgrees,
     ShouldClaim
<1> QED
  BY <1>10, <1>13

LEMMA ListenKeeps ==
  ASSUME LidInv, LightInv, NEW g \in Gen, Listen(g)
  PROVE  LidInv' /\ LightInv'
<1>1. /\ lidOp[g].pc = "new"
      /\ lidOp' = [lidOp EXCEPT ![g].pc = "listen", ![g].on = cookie]
      /\ timers' = Append(timers, g)
      /\ lidHist' = [lidHist EXCEPT !.lateStart = @ \/ cookie # g]
      /\ UNCHANGED <<cookie, isLidOpenLast, screenBlack, light, lightTodo, decided, proxy>>
  BY DEF Listen, lightVars
<1>2. /\ cookie \in 0..MaxLid /\ lidOp \in [Gen -> LidRec] /\ timers \in Seq(Gen)
      /\ lidHist \in LidPast /\ MaxLid \in Nat /\ Gen \subseteq Nat
  BY LidAssumption DEF LidInv, LidTypes, Gen
<1>3. /\ lidOp' \in [Gen -> LidRec] /\ lidOp'[g].pc = "listen" /\ lidOp'[g].on = cookie
      /\ lidOp'[g].open = lidOp[g].open
      /\ \A h \in Gen : h # g => lidOp'[h] = lidOp[h]
  <2>0. cookie \in Nat /\ "listen" \in LidPC /\ lidOp[g] \in LidRec
    BY <1>2 DEF LidPC
  <2>1. [lidOp[g] EXCEPT !.pc = "listen", !.on = cookie] \in LidRec
    BY <2>0 DEF LidRec
  <2>2. lidOp'[g] = [lidOp[g] EXCEPT !.pc = "listen", !.on = cookie]
    BY <1>1, <1>2
  <2>3. \A h \in Gen : h # g => lidOp'[h] = lidOp[h]
    BY <1>1, <1>2
  <2>4. lidOp' = [h \in Gen |-> lidOp'[h]]
    BY <1>1, <1>2
  <2>5. lidOp' \in [Gen -> LidRec]
    BY <2>1, <2>2, <2>3, <2>4, <1>2
  <2> QED
    BY <2>2, <2>3, <2>5, <1>2 DEF LidRec
<1>4. /\ timers' \in Seq(Gen) /\ Len(timers') = Len(timers) + 1 /\ Len(timers) \in Nat
      /\ DOMAIN timers' = 1..(Len(timers) + 1) /\ DOMAIN timers = 1..Len(timers)
      /\ \A i \in DOMAIN timers : timers'[i] = timers[i] /\ timers[i] \in Gen
      /\ timers'[Len(timers) + 1] = g
  BY <1>1, <1>2
<1>5. lidHist' \in LidPast
  <2>1. (lidHist.lateStart \/ cookie # g) \in BOOLEAN
    OBVIOUS
  <2>2. ASSUME NEW b \in BOOLEAN PROVE [lidHist EXCEPT !.lateStart = b] \in LidPast
    BY <1>2 DEF LidPast
  <2> QED
    BY <1>1, <2>1, <2>2, Zenon
<1>6. /\ lidHist'.lateStart <=> lidHist.lateStart \/ cookie # g
      /\ lidHist'.together = lidHist.together /\ lidHist'.overlap = lidHist.overlap
      /\ lidHist'.fails = lidHist.fails /\ lidHist'.early = lidHist.early
  BY <1>1, <1>2 DEF LidPast
<1>7. LidTypes'
  BY <1>1, <1>2, <1>3, <1>4, <1>5 DEF LidInv, LidTypes
<1>8. NotYet'
  BY <1>1, <1>2, <1>3 DEF LidInv, NotYet
<1>9. ListenersTimed'
  BY <1>1, <1>3, <1>4 DEF LidInv, ListenersTimed, Ready
<1>10. ASSUME ~lidHist'.lateStart PROVE (OwnCookie /\ InOrder /\ LastDecides)'
  <2>1. cookie = g /\ OwnCookie /\ InOrder /\ LastDecides
    BY <1>6, <1>10 DEF LidInv
  <2>2. OwnCookie'
    BY <1>3, <2>1 DEF OwnCookie, Ready
  <2>3. LastDecides'
    BY <1>1, <1>3, <2>1 DEF LastDecides, Ready
  <2>4. \A i \in DOMAIN timers : timers[i] # g
    BY <1>1, <2>1 DEF LidInv, ListenersTimed, Ready
  <2> QED
    BY <1>1, <1>2, <1>4, <2>1, <2>2, <2>3, <2>4 DEF InOrder
<1>11. OperatesLast /\ BlackMeansClosed => (OperatesLast /\ BlackMeansClosed)'
  BY <1>1, <1>3 DEF OperatesLast, BlackMeansClosed, Operating
<1>12. LidInv'
  BY <1>6, <1>7, <1>8, <1>9, <1>10, <1>11 DEF LidInv
<1>13. LightTypes' /\ LidDecides'
  BY <1>1, <1>3 DEF LightInv, LightTypes, LidDecides
<1>14. DecisionDue => DecisionDue'
  BY <1>1, <1>3 DEF DecisionDue
<1>15. LightInv'
  BY <1>1, <1>6, <1>13, <1>14 DEF LightInv, OneDecides, DecidesRight, ClaimedRight, ProxyAgrees,
     ShouldClaim
<1> QED
  BY <1>12, <1>15

LEMMA LidPcMove ==
  ASSUME lidOp \in [Gen -> LidRec], NEW g \in Gen, NEW to \in LidPC,
         lidOp' = [lidOp EXCEPT ![g].pc = to]
  PROVE  /\ lidOp' \in [Gen -> LidRec] /\ lidOp'[g].pc = to
         /\ \A h \in Gen : /\ h # g => lidOp'[h] = lidOp[h]
                           /\ lidOp'[h].open = lidOp[h].open /\ lidOp'[h].on = lidOp[h].on
BY DEF LidRec

LEMMA LidCancelledKeeps ==
  ASSUME LidInv, LightInv, NEW g \in Gen, LidCancelled(g)
  PROVE  LidInv' /\ LightInv'
<1>1. /\ lidOp[g].pc = "listen" /\ lidOp[g].on < cookie
      /\ lidOp' = [lidOp EXCEPT ![g].pc = "end"]
      /\ UNCHANGED <<cookie, timers, isLidOpenLast, screenBlack, light, lightTodo, decided, proxy,
                     lidHist>>
  BY DEF LidCancelled, Ready, lightVars
<1>2. /\ lidOp \in [Gen -> LidRec] /\ "end" \in LidPC /\ cookie \in Nat
      /\ \A i \in DOMAIN timers : timers[i] \in Gen
  BY LidAssumption DEF LidInv, LidTypes, LidPC
<1>3. /\ lidOp' \in [Gen -> LidRec] /\ lidOp'[g].pc = "end"
      /\ \A h \in Gen : /\ h # g => lidOp'[h] = lidOp[h]
                        /\ lidOp'[h].open = lidOp[h].open /\ lidOp'[h].on = lidOp[h].on
  BY <1>1, <1>2, LidPcMove
<1>4. LidTypes' /\ NotYet' /\ ListenersTimed'
  BY <1>1, <1>2, <1>3 DEF LidInv, LidTypes, NotYet, ListenersTimed, Ready
<1>5. OwnCookie /\ InOrder /\ LastDecides => (OwnCookie /\ InOrder /\ LastDecides)'
  <2> SUFFICES ASSUME OwnCookie, InOrder, LastDecides PROVE (OwnCookie /\ InOrder /\ LastDecides)'
    OBVIOUS
  <2>1. g < cookie
    BY <1>1 DEF OwnCookie, Ready
  <2> QED
    BY <2>1, <1>1, <1>2, <1>3 DEF OwnCookie, InOrder, LastDecides, Ready, Gen
<1>6. OperatesLast /\ BlackMeansClosed => (OperatesLast /\ BlackMeansClosed)'
  BY <1>1, <1>3 DEF OperatesLast, BlackMeansClosed, Operating
<1>7. LightTypes' /\ LidDecides'
  BY <1>1, <1>3 DEF LightInv, LightTypes, LidDecides
<1>8. DecisionDue => DecisionDue'
  BY <1>1, <1>3 DEF DecisionDue
<1>9. LightInv'
  BY <1>1, <1>7, <1>8 DEF LightInv, OneDecides, DecidesRight, ClaimedRight, ProxyAgrees, ShouldClaim
<1> QED
  BY <1>1, <1>4, <1>5, <1>6, <1>9 DEF LidInv

LEMMA DoLidKeeps ==
  ASSUME LidInv, LightInv, NEW g \in Gen, DoLidStateChanged(g)
  PROVE  LidInv' /\ LightInv'
<1> DEFINE to == IF isLidOpenLast = lidOp[g].open THEN "end" ELSE "light"
           both == lidHist.together \/ \E h \in Gen : lidOp[h].pc \in {"light", "operate"}
<1>1. /\ lidOp[g].pc = "listen" /\ RunsOut(g)
      /\ lidOp' = [lidOp EXCEPT ![g].pc = to]
      /\ lidHist' = [lidHist EXCEPT !.together = both]
      /\ UNCHANGED <<cookie, timers, screenBlack, lightTodo, decided, proxy>>
  BY DEF DoLidStateChanged, Ready
<1>2. /\ lidOp \in [Gen -> LidRec] /\ to \in LidPC /\ cookie \in Nat /\ Gen \subseteq Nat
      /\ timers \in Seq(Gen) /\ (\A i \in DOMAIN timers : timers[i] \in Gen)
      /\ isLidOpenLast \in BOOLEAN /\ lidOp[g].open \in BOOLEAN /\ lidHist \in LidPast
      /\ light \in LightRec
  BY LidAssumption DEF LidInv, LidTypes, LidPC, LidRec, Gen, LightInv, LightTypes
<1>3. /\ lidOp' \in [Gen -> LidRec] /\ lidOp'[g].pc = to
      /\ \A h \in Gen : /\ h # g => lidOp'[h] = lidOp[h]
                        /\ lidOp'[h].open = lidOp[h].open /\ lidOp'[h].on = lidOp[h].on
  <2> HIDE DEF to
  <2> QED
    BY <1>1, <1>2, LidPcMove
<1>4. isLidOpenLast' = lidOp[g].open
  BY DEF DoLidStateChanged
<1>5. to = "end" \/ to = "light"
  OBVIOUS
<1>6. to = "end" => isLidOpenLast = lidOp[g].open /\ light' = light
  BY DEF DoLidStateChanged
<1>7. to = "light" => light' = [light EXCEPT !.lidClosed = TRUE]
  BY DEF DoLidStateChanged
<1> HIDE DEF to
<1>8. lidHist' \in LidPast
  <2>1. both \in BOOLEAN
    OBVIOUS
  <2>2. ASSUME NEW b \in BOOLEAN PROVE [lidHist EXCEPT !.together = b] \in LidPast
    BY <1>2 DEF LidPast
  <2> QED
    BY <1>1, <2>1, <2>2, Zenon
<1>9. /\ lidHist'.together = both /\ lidHist'.lateStart = lidHist.lateStart
      /\ lidHist'.overlap = lidHist.overlap /\ lidHist'.early = lidHist.early
      /\ lidHist'.fails = lidHist.fails
  BY <1>1, <1>2 DEF LidPast
<1>10. LidTypes'
  BY <1>1, <1>2, <1>3, <1>4, <1>8 DEF LidInv, LidTypes
<1>11. NotYet' /\ ListenersTimed'
  BY <1>1, <1>2, <1>3, <1>5 DEF LidInv, NotYet, ListenersTimed, Ready
<1>12. ASSUME OwnCookie, InOrder, LastDecides PROVE (OwnCookie /\ InOrder /\ LastDecides)'
  <2>1. PICK i \in DOMAIN timers : timers[i] = g /\ \A j \in 1..(i - 1) : ~Ready(timers[j])
    BY <1>1 DEF RunsOut
  <2>2. DOMAIN timers = 1..Len(timers) /\ Len(timers) \in Nat
    BY <1>2
  <2>3. ASSUME NEW h \in Gen, Ready(h), h # g PROVE g < h
    <3>1. PICK j \in DOMAIN timers : timers[j] = h
      BY <2>3 DEF LidInv, ListenersTimed
    <3>2. j \notin 1..(i - 1)
      BY <3>1, <2>1, <2>3
    <3> QED
      BY <3>1, <3>2, <2>1, <2>2, <2>3, <1>12 DEF InOrder
  <2>4. \A h \in Gen : Ready(h) => h <= cookie
    BY <1>2 DEF LidInv, NotYet, Ready
  <2>5. OwnCookie' /\ InOrder'
    BY <1>1, <1>3, <1>5, <1>12 DEF OwnCookie, InOrder, Ready
  <2>6. CASE g = cookie
    <3>1. \A h \in Gen : ~Ready(h)'
      BY <2>3, <2>4, <2>6, <1>2, <1>3, <1>5, SMTT(20) DEF Ready
    <3> QED
      BY <3>1, <2>5, <2>6, <1>1, <1>3, <1>4 DEF LastDecides
  <2>7. CASE g # cookie
    <3>1. \A h \in Gen : h = cookie => lidOp'[h] = lidOp[h]
      BY <2>7, <1>3
    <3>2. \A h \in Gen : h = cookie => lidOp[h].pc \notin {"light", "operate", "end"}
      BY <1>1, <1>12 DEF LastDecides, Ready
    <3> QED
      BY <3>1, <3>2, <2>5, <1>1 DEF LastDecides
  <2> QED
    BY <2>6, <2>7
<1>13. ASSUME ~both PROVE (OperatesLast /\ BlackMeansClosed)'
  <2>1. /\ \A h \in Gen : lidOp[h].pc \notin {"light", "operate"}
        /\ screenBlack => ~isLidOpenLast
    BY <1>13 DEF LidInv, BlackMeansClosed, Operating
  <2>2. OperatesLast'
    BY <2>1, <1>3, <1>4, <1>5 DEF OperatesLast, Operating
  <2>3. BlackMeansClosed'
    BY <2>1, <1>1, <1>3, <1>4, <1>5, <1>6, <1>2 DEF BlackMeansClosed, Operating
  <2> QED
    BY <2>2, <2>3
<1>14. LidInv'
  BY <1>9, <1>10, <1>11, <1>12, <1>13 DEF LidInv
<1>15. LightTypes' /\ LidDecides' /\ light'.claimed = light.claimed
  <2>1. light' \in LightRec /\ light'.claimed = light.claimed
    <3>1. ASSUME NEW b \in BOOLEAN PROVE [light EXCEPT !.lidClosed = b] \in LightRec
      BY <1>2 DEF LightRec
    <3>2. TRUE \in BOOLEAN
      OBVIOUS
    <3>3. [light EXCEPT !.lidClosed = TRUE] \in LightRec
      BY <3>1, <3>2, Zenon
    <3>4. [light EXCEPT !.lidClosed = TRUE].claimed = light.claimed
      BY <1>2 DEF LightRec
    <3> QED
      BY <3>3, <3>4, <1>5, <1>6, <1>7, <1>2
  <2> QED
    BY <2>1, <1>1, <1>3, <1>2 DEF LightInv, LightTypes, LidDecides
<1>16. DecisionDue => DecisionDue'
  BY <1>1, <1>3 DEF DecisionDue
<1>17. to = "light" => DecisionDue'
  BY <1>1, <1>3 DEF DecisionDue, LightInv, LidDecides
<1>18. to = "end" => ShouldClaim' = ShouldClaim
  BY <1>6 DEF ShouldClaim
<1>19. OneDecides => OneDecides'
  BY <1>1 DEF OneDecides
<1>20. DecidesRight => DecidesRight'
  BY <1>1, <1>5, <1>16, <1>17, <1>18 DEF DecidesRight
<1>21. ClaimedRight => ClaimedRight'
  BY <1>1, <1>5, <1>15, <1>16, <1>17, <1>18 DEF ClaimedRight
<1>22. ProxyAgrees => ProxyAgrees'
  BY <1>1, <1>15 DEF ProxyAgrees
<1> QED
  BY <1>9, <1>14, <1>15, <1>19, <1>20, <1>21, <1>22 DEF LightInv

LEMMA OperateKeeps ==
  ASSUME LidInv, LightInv, NEW g \in Gen, NEW black \in BOOLEAN, OperateLid(g, black)
  PROVE  LidInv' /\ LightInv'
<1>1. /\ lidOp[g].pc = "operate" /\ lidOp' = [lidOp EXCEPT ![g].pc = "end"]
      /\ screenBlack' = (~lidOp[g].open /\ (screenBlack \/ black))
      /\ UNCHANGED <<cookie, timers, isLidOpenLast, light, lightTodo, decided, proxy, lidHist>>
  BY DEF OperateLid, lightVars
<1>2. /\ lidOp \in [Gen -> LidRec] /\ "end" \in LidPC
      /\ \A i \in DOMAIN timers : timers[i] \in Gen
  BY DEF LidInv, LidTypes, LidPC
<1>3. /\ lidOp' \in [Gen -> LidRec] /\ lidOp'[g].pc = "end"
      /\ \A h \in Gen : /\ h # g => lidOp'[h] = lidOp[h]
                        /\ lidOp'[h].open = lidOp[h].open /\ lidOp'[h].on = lidOp[h].on
  BY <1>1, <1>2, LidPcMove
<1>4. LidTypes' /\ NotYet' /\ ListenersTimed'
  BY <1>1, <1>2, <1>3 DEF LidInv, LidTypes, NotYet, ListenersTimed, Ready
<1>5. OwnCookie /\ InOrder /\ LastDecides => (OwnCookie /\ InOrder /\ LastDecides)'
  BY <1>1, <1>2, <1>3 DEF OwnCookie, InOrder, LastDecides, Ready
<1>6. OperatesLast /\ BlackMeansClosed => (OperatesLast /\ BlackMeansClosed)'
  BY <1>1, <1>3 DEF OperatesLast, BlackMeansClosed, Operating
<1>7. LightTypes' /\ LidDecides'
  BY <1>1, <1>3 DEF LightInv, LightTypes, LidDecides
<1>8. DecisionDue => DecisionDue'
  BY <1>1, <1>3 DEF DecisionDue
<1>9. LightInv'
  BY <1>1, <1>7, <1>8 DEF LightInv, OneDecides, DecidesRight, ClaimedRight, ProxyAgrees, ShouldClaim
<1> QED
  BY <1>1, <1>4, <1>5, <1>6, <1>9 DEF LidInv

\* The lid's part when only its history counts an event of the light.
LEMMA LidAlone ==
  ASSUME LidInv, UNCHANGED <<cookie, lidOp, timers, isLidOpenLast, screenBlack>>,
         lidHist' \in LidPast, lidHist'.lateStart = lidHist.lateStart,
         lidHist'.together = lidHist.together
  PROVE  LidInv'
BY DEF LidInv, LidTypes, NotYet, ListenersTimed, OwnCookie, InOrder, LastDecides, OperatesLast,
       BlackMeansClosed, Ready, Operating

LEMMA LightEventKeeps ==
  ASSUME LidInv, LightInv, WriteAuto \/ SessionEvent \/ ProxyRestarts
  PROVE  LidInv' /\ LightInv'
<1>0. light \in LightRec /\ lidHist \in LidPast /\ proxy \in BOOLEAN
  BY DEF LidInv, LidTypes, LightInv, LightTypes
<1>1. PICK t \in LightThread, new \in LightRec :
        /\ LightEvent(t, new) /\ new.claimed = light.claimed
        /\ UNCHANGED proxy \/ (t = System /\ proxy' = FALSE)
  <2>1. ASSUME WriteAuto
        PROVE  \E t \in LightThread, new \in LightRec :
                 LightEvent(t, new) /\ new.claimed = light.claimed /\ UNCHANGED proxy
    <3> DEFINE new == [light EXCEPT !.auto = ~@]
    <3>1. LightEvent(<<"settings", 0>>, new) /\ UNCHANGED proxy
      BY <2>1 DEF WriteAuto
    <3>2. (~light.auto) \in BOOLEAN
      OBVIOUS
    <3>3. ASSUME NEW b \in BOOLEAN
          PROVE  [light EXCEPT !.auto = b] \in LightRec
                 /\ [light EXCEPT !.auto = b].claimed = light.claimed
      BY <1>0 DEF LightRec
    <3>4. new \in LightRec /\ new.claimed = light.claimed
      BY <3>2, <3>3, Zenon
    <3>5. <<"settings", 0>> \in LightThread
      BY DEF LightThread
    <3> HIDE DEF new
    <3> QED
      BY <3>1, <3>4, <3>5, Zenon
  <2>2. <<"session", 0>> \in LightThread /\ System \in LightThread
    BY DEF LightThread, System
  <2>3. SessionEvent => LightEvent(<<"session", 0>>, light) /\ UNCHANGED proxy
    BY DEF SessionEvent
  <2>4. ProxyRestarts => LightEvent(System, light) /\ proxy' = FALSE
    BY DEF ProxyRestarts, System
  <2> QED
    BY <2>1, <2>2, <2>3, <2>4, <1>0
<1>2. /\ lightTodo' = lightTodo \cup {t} /\ light' = new
      /\ lidHist' = [lidHist EXCEPT !.light = @ + 1]
      /\ UNCHANGED <<cookie, lidOp, timers, isLidOpenLast, screenBlack, decided>>
  BY <1>1 DEF LightEvent, lidVars
<1>3. lidHist' \in LidPast
  BY <1>2, <1>0 DEF LidPast
<1>4. /\ lidHist'.lateStart = lidHist.lateStart /\ lidHist'.together = lidHist.together
      /\ lidHist'.overlap = lidHist.overlap /\ lidHist'.early = lidHist.early
      /\ lidHist'.fails = lidHist.fails
  BY <1>2, <1>0 DEF LidPast
<1>5. proxy' \in BOOLEAN
  BY <1>1, <1>0, Zenon
<1>6. LightTypes' /\ LidDecides' /\ DecisionDue'
  BY <1>1, <1>2, <1>5 DEF LightInv, LightTypes, LidDecides, DecisionDue
<1>7. ProxyAgrees => ProxyAgrees'
  BY <1>1, <1>2 DEF ProxyAgrees
<1>8. LightInv'
  BY <1>2, <1>4, <1>6, <1>7 DEF LightInv, OneDecides, DecidesRight, ClaimedRight
<1> QED
  BY <1>2, <1>3, <1>4, <1>8, LidAlone

LEMMA DecideKeeps ==
  ASSUME LidInv, LightInv, NEW t \in LightThread, NEW has \in BOOLEAN, Decide(t, has)
  PROVE  LidInv' /\ LightInv'
<1> DEFINE both == lidHist.overlap \/ \E u \in LightThread : decided[u] # "no"
           early == lidHist.early \/ (t[1] = "system" /\ proxy)
           d == IF light'.sensor /\ light'.auto /\ light'.active /\ ~light'.lidClosed
                THEN "claim" ELSE "release"
<1>0. /\ light \in LightRec /\ lidHist \in LidPast /\ proxy \in BOOLEAN
      /\ decided \in [LightThread -> {"no", "claim", "release"}]
  BY DEF LidInv, LidTypes, LightInv, LightTypes
<1>1. /\ decided[t] = "no" /\ light' = Handled(t, has) /\ decided' = [decided EXCEPT ![t] = d]
      /\ lidHist' = [lidHist EXCEPT !.overlap = both, !.early = early]
      /\ UNCHANGED <<cookie, lidOp, timers, isLidOpenLast, screenBlack, proxy>>
      /\ IF t[1] = "lid" THEN lidOp[t[2]].pc = "light" /\ UNCHANGED lightTodo
         ELSE t \in lightTodo /\ lightTodo' = lightTodo \ {t}
  BY DEF Decide, lidVars
<1>2. lidHist' \in LidPast
  <2>1. both \in BOOLEAN /\ early \in BOOLEAN
    OBVIOUS
  <2>2. ASSUME NEW b \in BOOLEAN, NEW c \in BOOLEAN
        PROVE  [lidHist EXCEPT !.overlap = b, !.early = c] \in LidPast
    BY <1>0 DEF LidPast
  <2> QED
    BY <1>1, <2>1, <2>2, Zenon
<1>3. /\ lidHist'.lateStart = lidHist.lateStart /\ lidHist'.together = lidHist.together
      /\ lidHist'.overlap = both /\ lidHist'.early = early
      /\ lidHist'.fails = lidHist.fails
  BY <1>1, <1>0 DEF LidPast
<1>4. /\ light' \in LightRec
      /\ t[1] = "system" => light'.claimed = FALSE
      /\ t[1] # "system" => light'.claimed = light.claimed
  <2>1. t[1] = "session" => Handled(t, has) = [light EXCEPT !.active = ~@]
    BY DEF Handled
  <2>2. t[1] = "system" => Handled(t, has) = [light EXCEPT !.claimed = FALSE, !.sensor = has]
    BY DEF Handled
  <2>3. t[1] \notin {"session", "system"} => Handled(t, has) = light
    BY DEF Handled
  <2>4. ASSUME NEW b \in BOOLEAN
        PROVE  /\ [light EXCEPT !.active = b] \in LightRec
               /\ [light EXCEPT !.active = b].claimed = light.claimed
               /\ [light EXCEPT !.claimed = FALSE, !.sensor = b] \in LightRec
               /\ [light EXCEPT !.claimed = FALSE, !.sensor = b].claimed = FALSE
    BY <1>0 DEF LightRec
  <2>5. (~light.active) \in BOOLEAN /\ FALSE \in BOOLEAN
    OBVIOUS
  <2>6. /\ [light EXCEPT !.active = ~@] \in LightRec
        /\ [light EXCEPT !.active = ~@].claimed = light.claimed
        /\ [light EXCEPT !.claimed = FALSE, !.sensor = has] \in LightRec
        /\ [light EXCEPT !.claimed = FALSE, !.sensor = has].claimed = FALSE
    BY <2>4, <2>5, Zenon
  <2> QED
    BY <2>1, <2>2, <2>3, <2>6, <1>0, <1>1
<1>5. d \in {"claim", "release"} /\ ((d = "claim") = ShouldClaim')
  BY DEF ShouldClaim
<1> HIDE DEF d
<1>6. decided' \in [LightThread -> {"no", "claim", "release"}] /\ decided'[t] = d
      /\ \A u \in LightThread : u # t => decided'[u] = decided[u]
  BY <1>0, <1>1, <1>5
<1>7. LightTypes'
  BY <1>0, <1>1, <1>4, <1>6 DEF LightInv, LightTypes
<1>8. LidDecides'
  <2> SUFFICES ASSUME NEW g \in Gen, decided'[<<"lid", g>>] # "no" PROVE lidOp'[g].pc = "light"
    BY DEF LidDecides
  <2>1. <<"lid", g>> \in LightThread
    BY LightThreads
  <2>2. CASE t = <<"lid", g>>
    BY <2>2, <1>1
  <2>3. CASE t # <<"lid", g>>
    BY <2>1, <2>3, <1>1, <1>6 DEF LightInv, LidDecides
  <2> QED
    BY <2>2, <2>3
<1>9. ASSUME ~both, ~early, lidHist.fails = 0
      PROVE  (OneDecides /\ DecidesRight /\ ClaimedRight /\ ProxyAgrees)'
  <2>1. /\ OneDecides /\ DecidesRight /\ ClaimedRight /\ ProxyAgrees
        /\ \A u \in LightThread : decided[u] = "no"
    BY <1>9 DEF LightInv
  <2>2. OneDecides' /\ DecidesRight' /\ ClaimedRight'
    BY <2>1, <1>5, <1>6 DEF OneDecides, DecidesRight, ClaimedRight
  <2>3. ProxyAgrees'
    <3>1. CASE t[1] = "system"
      BY <3>1, <1>9, <1>1, <1>4, <1>0 DEF ProxyAgrees
    <3>2. CASE t[1] # "system"
      <4>1. System \in lightTodo => System \in lightTodo'
        BY <3>2, <1>1, LightThreads DEF System
      <4> QED
        BY <4>1, <3>2, <2>1, <1>1, <1>4 DEF ProxyAgrees
    <3> QED
      BY <3>1, <3>2
  <2> QED
    BY <2>2, <2>3
<1>10. LightInv'
  BY <1>3, <1>7, <1>8, <1>9 DEF LightInv
<1> QED
  BY <1>1, <1>2, <1>3, <1>10, LidAlone

LEMMA ApplyKeeps ==
  ASSUME LidInv, LightInv, NEW t \in LightThread, NEW fails \in BOOLEAN, Apply(t, fails)
  PROVE  LidInv' /\ LightInv'
<1> DEFINE claim == decided[t] = "claim"
           call  == claim # light.claimed
           got   == IF fails THEN light.claimed ELSE claim
<1>0. /\ light \in LightRec /\ lidHist \in LidPast /\ proxy \in BOOLEAN
      /\ decided \in [LightThread -> {"no", "claim", "release"}]
      /\ lidOp \in [Gen -> LidRec] /\ "operate" \in LidPC
      /\ \A i \in DOMAIN timers : timers[i] \in Gen
  BY DEF LidInv, LidTypes, LightInv, LightTypes, LidPC
<1>1. /\ decided[t] # "no" /\ decided' = [decided EXCEPT ![t] = "no"]
      /\ fails => call
      /\ light' = [light EXCEPT !.claimed = got]
      /\ proxy' = IF call /\ ~fails THEN claim ELSE proxy
      /\ lidOp' = IF t[1] = "lid" THEN [lidOp EXCEPT ![t[2]].pc = "operate"] ELSE lidOp
      /\ lidHist' = [lidHist EXCEPT !.fails = IF fails THEN @ + 1 ELSE @]
      /\ UNCHANGED <<cookie, timers, isLidOpenLast, screenBlack, lightTodo>>
  BY DEF Apply
<1>2. lidHist' \in LidPast
  BY <1>0, <1>1 DEF LidPast
<1>3. /\ lidHist'.lateStart = lidHist.lateStart /\ lidHist'.together = lidHist.together
      /\ lidHist'.overlap = lidHist.overlap /\ lidHist'.early = lidHist.early
      /\ lidHist'.fails = 0 => lidHist.fails = 0 /\ ~fails
  BY <1>1, <1>0 DEF LidPast
<1>4. claim \in BOOLEAN /\ got \in BOOLEAN
  BY <1>0 DEF LightRec
<1>5. /\ light' \in LightRec /\ light'.claimed = got /\ ShouldClaim' = ShouldClaim
  <2> HIDE DEF got
  <2> QED
    BY <1>0, <1>1, <1>4 DEF LightRec, ShouldClaim
<1>6. proxy' \in BOOLEAN
  BY <1>0, <1>1, <1>4
<1>7. /\ decided' \in [LightThread -> {"no", "claim", "release"}] /\ decided'[t] = "no"
      /\ \A u \in LightThread : u # t => decided'[u] = decided[u]
  BY <1>0, <1>1
<1>8. /\ lidOp' \in [Gen -> LidRec]
      /\ \A h \in Gen : /\ lidOp'[h].open = lidOp[h].open /\ lidOp'[h].on = lidOp[h].on
                        /\ \/ lidOp'[h].pc = lidOp[h].pc
                           \/ /\ t = <<"lid", h>> /\ lidOp[h].pc = "light"
                              /\ lidOp'[h].pc = "operate"
      /\ \A h \in Gen : t = <<"lid", h>> => lidOp'[h].pc = "operate"
  <2>1. CASE t[1] = "lid"
    <3>1. t[2] \in Gen /\ t = <<"lid", t[2]>>
      BY <2>1, LightThreads
    <3>2. lidOp[t[2]].pc = "light"
      BY <3>1, <1>1 DEF LightInv, LidDecides
    <3>3. lidOp' = [lidOp EXCEPT ![t[2]].pc = "operate"]
      BY <2>1, <1>1
    <3>4. /\ lidOp' \in [Gen -> LidRec] /\ lidOp'[t[2]].pc = "operate"
          /\ \A h \in Gen : /\ h # t[2] => lidOp'[h] = lidOp[h]
                            /\ lidOp'[h].open = lidOp[h].open /\ lidOp'[h].on = lidOp[h].on
      BY <3>1, <3>3, <1>0, LidPcMove
    <3> QED
      BY <3>1, <3>2, <3>4
  <2>2. CASE t[1] # "lid"
    BY <2>2, <1>0, <1>1
  <2> QED
    BY <2>1, <2>2
<1>9. LidTypes' /\ NotYet' /\ ListenersTimed'
  BY <1>0, <1>1, <1>2, <1>8 DEF LidInv, LidTypes, NotYet, ListenersTimed, Ready
<1>10. OwnCookie /\ InOrder /\ LastDecides => (OwnCookie /\ InOrder /\ LastDecides)'
  BY <1>1, <1>8 DEF OwnCookie, InOrder, LastDecides, Ready
<1>11. OperatesLast /\ BlackMeansClosed => (OperatesLast /\ BlackMeansClosed)'
  BY <1>1, <1>8 DEF OperatesLast, BlackMeansClosed, Operating
<1>12. LidInv'
  BY <1>3, <1>9, <1>10, <1>11 DEF LidInv
<1>13. LightTypes'
  BY <1>1, <1>5, <1>6, <1>7 DEF LightInv, LightTypes
<1>14. LidDecides'
  BY <1>7, <1>8, LightThreads DEF LightInv, LidDecides
<1>15. DecisionDue => DecisionDue'
  BY <1>1, <1>7, <1>8, LightThreads DEF DecisionDue
<1>16. ASSUME OneDecides, DecidesRight, ClaimedRight, ProxyAgrees, ~fails
       PROVE  (OneDecides /\ DecidesRight /\ ClaimedRight /\ ProxyAgrees)'
  <2>1. OneDecides' /\ DecidesRight'
    BY <1>16, <1>7, <1>5, <1>15 DEF OneDecides, DecidesRight
  <2>2. ClaimedRight'
    BY <1>16, <1>1, <1>5, <1>15 DEF DecidesRight, ClaimedRight
  <2>3. ProxyAgrees'
    BY <1>16, <1>0, <1>1, <1>5, <1>4 DEF ProxyAgrees, LightRec
  <2> QED
    BY <2>1, <2>2, <2>3
<1>17. LightInv'
  BY <1>3, <1>13, <1>14, <1>16 DEF LightInv
<1> QED
  BY <1>12, <1>17

LEMMA LidInvariant == LidSpec => [](LidInv /\ LightInv)
<1>1. LidInv /\ LightInv /\ [LidNext]_lidSwitchVars => (LidInv /\ LightInv)'
  <2> SUFFICES ASSUME LidInv, LightInv, [LidNext]_lidSwitchVars PROVE (LidInv /\ LightInv)'
    OBVIOUS
  <2>1. CASE UNCHANGED lidSwitchVars
    <3>1. /\ UNCHANGED <<cookie, lidOp, timers, isLidOpenLast, screenBlack, lidHist>>
          /\ UNCHANGED <<light, lightTodo, decided, proxy>>
      BY <2>1 DEF lidSwitchVars, lidVars, lightVars
    <3>2. LidInv'
      BY <3>1, LidAlone DEF LidInv, LidTypes
    <3>3. LightInv'
      BY <3>1, ZenonT(30) DEF LightInv, LightTypes, LidDecides, DecisionDue, OneDecides, DecidesRight,
         ClaimedRight, ProxyAgrees, ShouldClaim
    <3> QED
      BY <3>2, <3>3
  <2> QED
    BY <2>1, LidEventKeeps, ListenKeeps, LidCancelledKeeps, DoLidKeeps, OperateKeeps,
       LightEventKeeps, DecideKeeps, ApplyKeeps DEF LidNext
<1> QED
  BY <1>1, LidInitInv, PTL DEF LidSpec

(* However fast the lid is opened and closed, when all the operations of   *)
(* onLidDelayOperate are over the last one was for the lid as it is, and   *)
(* the screen of an open lid is not left black: for any number of events,  *)
(* with the exceptions that LidObeyed names.                               *)
THEOREM LidAlwaysObeyed == LidSpec => []LidObeyed
<1>1. LidInv => LidFollowed
  <2> SUFFICES ASSUME LidInv, LidSettled, cookie > 0, ~lidHist.lateStart
               PROVE  isLidOpenLast = lidOp[cookie].open
    BY DEF LidFollowed
  <2>1. cookie \in Gen
    BY LidAssumption DEF LidInv, LidTypes, Gen
  <2>2. lidOp[cookie].pc \in {"none", "end"}
    BY <2>1 DEF LidSettled
  <2> QED
    BY <2>1, <2>2, LidAssumption DEF LidInv, LidTypes, LastDecides, NotYet
<1>2. LidInv => OpenNotBlack
  BY DEF LidInv, BlackMeansClosed, Operating, OpenNotBlack, LidSettled
<1> QED
  BY <1>1, <1>2, LidInvariant, PTL DEF LidObeyed

(* When every handler has returned the sensor service has our claim        *)
(* exactly when claimOrReleaseAmbientLight would claim it now, for any     *)
(* number of lid events, switches of the session, changes of the setting   *)
(* and restarts of the service, with the exceptions that SensorClaimed     *)
(* names.                                                                  *)
THEOREM SensorAlwaysClaimed == LidSpec => []SensorClaimed
<1>1. LightInv => SensorClaimed
  BY DEF LightInv, ClaimedRight, ProxyAgrees, DecisionDue, SensorClaimed, System
<1> QED
  BY <1>1, LidInvariant, PTL

-----------------------------------------------------------------------------
(* The session watcher: the signals that are not handled.                  *)

Signal == [kind : {"new", "removed", "active"}, session : Session]

OnlyActive(q) == \A i \in 1..Len(q) : q[i].kind = "active"

\* Neither "new" nor "removed" of session s; the last of them is k.
NoneOf(q, s) == \A i \in 1..Len(q) : q[i].kind # "active" => q[i].session # s
LastOf(q, s, k) ==
  \A i \in 1..Len(q) :
    /\ q[i].kind # "active" /\ q[i].session = s
    /\ \A j \in (i + 1)..Len(q) : q[j].kind = "active" \/ q[j].session # s
    => q[i].kind = k

\* A signal after which the sessions in K are asked again.
Asks(q, K) == \E i \in 1..Len(q) : q[i].kind # "active" \/ q[i].session \in K

LEMMA AppendSignal ==
  ASSUME NEW q \in Seq(Signal), NEW m \in Signal, m.kind # "active"
  PROVE  LET r == Append(q, m)
         IN /\ r \in Seq(Signal) /\ (\A K : Asks(r, K))
            /\ LastOf(r, m.session, m.kind) /\ ~NoneOf(r, m.session)
            /\ \A s, k : s # m.session => /\ NoneOf(r, s) => NoneOf(q, s)
                                          /\ LastOf(q, s, k) => LastOf(r, s, k)
<1> DEFINE r == Append(q, m)
<1>1. /\ r \in Seq(Signal) /\ Len(r) = Len(q) + 1 /\ Len(q) \in Nat
      /\ \A i \in 1..Len(q) : r[i] = q[i]
      /\ r[Len(q) + 1] = m
  OBVIOUS
<1> HIDE DEF r
<1>2. \A K : Asks(r, K)
  BY <1>1 DEF Asks
<1>3. LastOf(r, m.session, m.kind) /\ ~NoneOf(r, m.session)
  BY <1>1 DEF LastOf, NoneOf
<1>4. ASSUME NEW s, s # m.session PROVE NoneOf(r, s) => NoneOf(q, s)
  BY <1>1 DEF NoneOf
<1>5. ASSUME NEW s, NEW k, s # m.session PROVE LastOf(q, s, k) => LastOf(r, s, k)
  BY <1>1, <1>5 DEF LastOf
<1> QED
  BY <1>1, <1>2, <1>3, <1>4, <1>5 DEF r

LEMMA AppendActive ==
  ASSUME NEW q \in Seq(Signal), NEW r \in Seq(Signal), OnlyActive(r)
  PROVE  /\ q \o r \in Seq(Signal)
         /\ OnlyActive(q) => OnlyActive(q \o r)
         /\ \A K : Asks(q, K) \/ Asks(r, K) => Asks(q \o r, K)
         /\ \A s : NoneOf(q \o r, s) => NoneOf(q, s)
         /\ \A s, k : LastOf(q, s, k) => LastOf(q \o r, s, k)
<1> DEFINE c == q \o r
<1>1. /\ c \in Seq(Signal) /\ Len(c) = Len(q) + Len(r) /\ Len(q) \in Nat /\ Len(r) \in Nat
      /\ \A i \in 1..Len(q) : c[i] = q[i]
      /\ \A i \in 1..Len(r) : c[Len(q) + i] = r[i]
  OBVIOUS
<1> HIDE DEF c
<1>2. \A i \in 1..Len(c) : i \notin 1..Len(q) => i - Len(q) \in 1..Len(r) /\ c[i] = r[i - Len(q)]
  <2> SUFFICES ASSUME NEW i \in 1..Len(c), i \notin 1..Len(q)
               PROVE  i - Len(q) \in 1..Len(r) /\ c[i] = r[i - Len(q)]
    OBVIOUS
  <2>1. i - Len(q) \in 1..Len(r) /\ Len(q) + (i - Len(q)) = i
    BY <1>1
  <2> QED
    BY <2>1, <1>1
<1>3. \A i \in 1..Len(c) : i \notin 1..Len(q) => c[i].kind = "active"
  BY <1>2 DEF OnlyActive
<1>4. OnlyActive(q) => OnlyActive(c)
  BY <1>1, <1>3 DEF OnlyActive
<1>5. ASSUME NEW K, Asks(q, K) \/ Asks(r, K) PROVE Asks(c, K)
  <2>1. CASE Asks(q, K)
    BY <2>1, <1>1 DEF Asks
  <2>2. CASE Asks(r, K)
    <3>1. PICK i \in 1..Len(r) : r[i].kind # "active" \/ r[i].session \in K
      BY <2>2 DEF Asks
    <3>2. Len(q) + i \in 1..Len(c) /\ c[Len(q) + i] = r[i]
      BY <1>1
    <3> QED
      BY <3>1, <3>2 DEF Asks
  <2> QED
    BY <1>5, <2>1, <2>2
<1>6. \A s : NoneOf(c, s) => NoneOf(q, s)
  BY <1>1 DEF NoneOf
<1>7. ASSUME NEW s, NEW k, LastOf(q, s, k) PROVE LastOf(c, s, k)
  <2> SUFFICES ASSUME NEW i \in 1..Len(c), c[i].kind # "active", c[i].session = s,
                      \A j \in (i + 1)..Len(c) : c[j].kind = "active" \/ c[j].session # s
               PROVE  c[i].kind = k
    BY DEF LastOf
  <2>1. i \in 1..Len(q) /\ c[i] = q[i]
    BY <1>1, <1>3
  <2>2. \A j \in (i + 1)..Len(q) : q[j].kind = "active" \/ q[j].session # s
    BY <1>1, <2>1
  <2> QED
    BY <2>1, <2>2, <1>7 DEF LastOf
<1> QED
  BY <1>1, <1>4, <1>5, <1>6, <1>7 DEF c

LEMMA TailSignal ==
  ASSUME NEW q \in Seq(Signal), q # <<>>
  PROVE  /\ Head(q) \in Signal /\ Tail(q) \in Seq(Signal)
         /\ OnlyActive(q) => Head(q).kind = "active" /\ OnlyActive(Tail(q))
         /\ \A K : Asks(q, K) => \/ Asks(Tail(q), K)
                                 \/ Head(q).kind # "active" \/ Head(q).session \in K
         /\ \A s, k : LastOf(q, s, k) => LastOf(Tail(q), s, k)
         /\ \A s : (Head(q).kind = "active" \/ Head(q).session # s) /\ NoneOf(Tail(q), s)
                     => NoneOf(q, s)
         /\ \A s, k : Head(q).kind # "active" /\ Head(q).session = s /\ NoneOf(Tail(q), s)
                        /\ LastOf(q, s, k) => Head(q).kind = k
<1> DEFINE r == Tail(q)
<1>1. /\ r \in Seq(Signal) /\ Len(r) = Len(q) - 1 /\ Len(q) \in Nat /\ Len(q) > 0
      /\ \A i \in 1..Len(r) : r[i] = q[i + 1]
      /\ Head(q) = q[1] /\ q[1] \in Signal
  OBVIOUS
<1> HIDE DEF r
<1>2. \A i \in 2..Len(q) : i - 1 \in 1..Len(r) /\ q[i] = r[i - 1]
  BY <1>1
<1>3. OnlyActive(q) => Head(q).kind = "active" /\ OnlyActive(r)
  BY <1>1 DEF OnlyActive
<1>4. ASSUME NEW K, Asks(q, K)
      PROVE  Asks(r, K) \/ Head(q).kind # "active" \/ Head(q).session \in K
  <2>1. PICK i \in 1..Len(q) : q[i].kind # "active" \/ q[i].session \in K
    BY <1>4 DEF Asks
  <2>2. CASE i = 1
    BY <2>1, <2>2, <1>1
  <2>3. CASE i # 1
    <3>1. i \in 2..Len(q)
      BY <2>3, <1>1
    <3> QED
      BY <3>1, <2>1, <1>2 DEF Asks
  <2> QED
    BY <2>2, <2>3
<1>5. ASSUME NEW s, NEW k, LastOf(q, s, k) PROVE LastOf(r, s, k)
  <2> SUFFICES ASSUME NEW i \in 1..Len(r), r[i].kind # "active", r[i].session = s,
                      \A j \in (i + 1)..Len(r) : r[j].kind = "active" \/ r[j].session # s
               PROVE  r[i].kind = k
    BY DEF LastOf
  <2>1. i + 1 \in 1..Len(q) /\ q[i + 1] = r[i]
    BY <1>1
  <2>2. \A j \in (i + 2)..Len(q) : q[j].kind = "active" \/ q[j].session # s
    BY <1>1, <1>2
  <2> QED
    BY <2>1, <2>2, <1>1, <1>5 DEF LastOf
<1>6. ASSUME NEW s, Head(q).kind = "active" \/ Head(q).session # s, NoneOf(r, s)
      PROVE  NoneOf(q, s)
  <2> SUFFICES ASSUME NEW i \in 1..Len(q), q[i].kind # "active" PROVE q[i].session # s
    BY DEF NoneOf
  <2>1. CASE i = 1
    BY <2>1, <1>1, <1>6
  <2>2. CASE i # 1
    <3>1. i - 1 \in 1..Len(r) /\ q[i] = r[i - 1]
      BY <2>2, <1>1, <1>2
    <3> QED
      BY <3>1, <1>6 DEF NoneOf
  <2> QED
    BY <2>1, <2>2
<1>7. ASSUME NEW s, NEW k, Head(q).kind # "active", Head(q).session = s, NoneOf(r, s),
             LastOf(q, s, k)
      PROVE  Head(q).kind = k
  <2>1. \A j \in 2..Len(q) : q[j].kind = "active" \/ q[j].session # s
    BY <1>2, <1>7 DEF NoneOf
  <2> QED
    BY <2>1, <1>1, <1>7 DEF LastOf
<1> QED
  BY <1>1, <1>3, <1>4, <1>5, <1>6, <1>7 DEF r

-----------------------------------------------------------------------------
(* The session watcher: what it knows.                                     *)

Pass == [by : {"none", "loop", "start"}, left : SUBSET Session, active : BOOLEAN]

WatchTypes ==
  /\ there \subseteq Session
  /\ activeOnes \subseteq Session /\ (\A x, y \in activeOnes : x = y)
  /\ signals \in Seq(Signal)
  /\ starting \in {"list", "add", "connect", "new", "removed", "done"}
  /\ known \subseteq Mine /\ handlers \subseteq Session
  /\ IsActive \in BOOLEAN
  /\ pass \in Pass /\ pass.left \subseteq known
  /\ pass.by = "none" => pass = NoPass

Listed == starting \in {"new", "removed", "done"}

\* What is connected, and what can have been signalled.
Connected ==
  /\ matches = CASE starting = "done" -> {"new", "removed"}
                 [] starting = "removed" -> {"new"}
                 [] OTHER -> {}
  /\ starting \notin {"removed", "done"} => OnlyActive(signals)
  /\ starting = "list" => known = {}
  /\ starting # "connect" => handlers = known

\* A session that came and went only while the watcher could see it: the
\* list has it, and later the last signal about it says what it is.
ListRight ==
  starting \in {"add", "connect"} => \A s \in Session \ gap :
    /\ s \in toAdd => s \in there
    /\ s \in Mine \cap there <=> s \in known \/ s \in Mine \cap toAdd
SignalsRight ==
  Listed => \A s \in Session \ gap :
    /\ LastOf(signals, s, IF s \in there THEN "new" ELSE "removed")
    /\ NoneOf(signals, s) => (s \in known <=> s \in Mine \cap there)

\* IsActive is right, or the sessions are asked again, or they are being
\* asked and none of those asked so far has changed.
Hit == known \cap activeOnes \cap OnSeat # {}
PassRight ==
  IF pass.active THEN Hit ELSE (known \ pass.left) \cap activeOnes \cap OnSeat = {}
ActiveRight ==
  Listed /\ gap = {} /\ known # {} =>
    \/ Asks(signals, known)
    \/ Free /\ (IsActive <=> Hit)
    \/ ~Free /\ PassRight

WatchInv == WatchTypes /\ Connected /\ ListRight /\ SignalsRight /\ ActiveRight

LEMMA WatchInit == WatcherInit => WatchInv
<1> SUFFICES ASSUME WatcherInit PROVE WatchInv
  OBVIOUS
<1>1. /\ there \subseteq Session /\ activeOnes \subseteq there /\ (\A x, y \in activeOnes : x = y)
      /\ signals = <<>> /\ starting = "list" /\ matches = {} /\ known = {} /\ handlers = {}
      /\ IsActive = TRUE /\ pass = NoPass /\ gap = {}
  BY DEF WatcherInit
<1>2. IsActive \in BOOLEAN
  BY <1>1, Zenon
<1>3. NoPass \in Pass /\ NoPass.left = {}
  BY DEF NoPass, Pass
<1>4. WatchTypes
  BY <1>1, <1>2, <1>3 DEF WatchTypes
<1>5. Connected
  BY <1>1 DEF Connected, OnlyActive
<1>6. ListRight /\ SignalsRight /\ ActiveRight
  BY <1>1 DEF ListRight, SignalsRight, ActiveRight, Listed
<1> QED
  BY <1>4, <1>5, <1>6 DEF WatchInv

LEMMA NewSessionKeeps ==
  ASSUME WatchInv, NEW s \in Session, NewSession(s)
  PROVE  WatchInv'
<1> DEFINE m == [kind |-> "new", session |-> s]
<1>1. /\ s \notin there /\ there' = there \cup {s}
      /\ signals' = IF "new" \in matches THEN Append(signals, m) ELSE signals
      /\ gap' = IF starting = "list" \/ "new" \in matches THEN gap ELSE gap \cup {s}
      /\ UNCHANGED <<activeOnes, starting, toAdd, matches, known, handlers, IsActive, pass>>
  BY DEF NewSession, Emit, Watcher
<1>2. m \in Signal /\ m.kind = "new" /\ m.session = s
  BY DEF Signal
<1>3. signals \in Seq(Signal)
  BY DEF WatchInv, WatchTypes
<1> HIDE DEF m
<1>4. CASE "new" \in matches
  <2>1. starting \in {"removed", "done"}
    BY <1>4 DEF WatchInv, Connected, WatchTypes
  <2>2. /\ signals' \in Seq(Signal) /\ (\A K : Asks(signals', K))
        /\ LastOf(signals', s, "new") /\ ~NoneOf(signals', s)
        /\ \A t, k : t # s => /\ NoneOf(signals', t) => NoneOf(signals, t)
                              /\ LastOf(signals, t, k) => LastOf(signals', t, k)
    BY <1>1, <1>2, <1>3, <1>4, AppendSignal
  <2>3. WatchTypes'
    BY <2>2, <1>1 DEF WatchInv, WatchTypes
  <2>4. Connected' /\ ListRight'
    BY <2>1, <1>1 DEF WatchInv, Connected, ListRight
  <2>5. SignalsRight'
    BY <2>1, <2>2, <1>1, <1>4 DEF WatchInv, SignalsRight, Listed
  <2>6. ActiveRight'
    BY <2>2 DEF ActiveRight
  <2> QED
    BY <2>3, <2>4, <2>5, <2>6 DEF WatchInv
<1>5. CASE "new" \notin matches
  <2>1. WatchTypes' /\ Connected'
    BY <1>1, <1>5 DEF WatchInv, WatchTypes, Connected
  <2>2. ListRight' /\ SignalsRight'
    BY <1>1, <1>5 DEF WatchInv, ListRight, SignalsRight, Listed
  <2>3. ActiveRight'
    BY <1>1, <1>5 DEF WatchInv, ActiveRight, Listed, Free, Hit, PassRight
  <2> QED
    BY <2>1, <2>2, <2>3 DEF WatchInv
<1> QED
  BY <1>4, <1>5

LEMMA EndSessionKeeps ==
  ASSUME WatchInv, NEW s \in Session, EndSession(s)
  PROVE  WatchInv'
<1> DEFINE m == [kind |-> "removed", session |-> s]
<1>1. /\ s \in there /\ there' = there \ {s} /\ activeOnes' = activeOnes \ {s}
      /\ signals' = IF "removed" \in matches THEN Append(signals, m) ELSE signals
      /\ gap' = IF starting = "list" \/ "removed" \in matches THEN gap ELSE gap \cup {s}
      /\ UNCHANGED <<starting, toAdd, matches, known, handlers, IsActive, pass>>
  BY DEF EndSession, Emit, Watcher
<1>2. m \in Signal /\ m.kind = "removed" /\ m.session = s
  BY DEF Signal
<1>3. signals \in Seq(Signal)
  BY DEF WatchInv, WatchTypes
<1> HIDE DEF m
<1>4. CASE "removed" \in matches
  <2>1. starting = "done"
    BY <1>4 DEF WatchInv, Connected, WatchTypes
  <2>2. /\ signals' \in Seq(Signal) /\ (\A K : Asks(signals', K))
        /\ LastOf(signals', s, "removed") /\ ~NoneOf(signals', s)
        /\ \A t, k : t # s => /\ NoneOf(signals', t) => NoneOf(signals, t)
                              /\ LastOf(signals, t, k) => LastOf(signals', t, k)
    BY <1>1, <1>2, <1>3, <1>4, AppendSignal
  <2>3. WatchTypes'
    BY <2>2, <1>1 DEF WatchInv, WatchTypes
  <2>4. Connected' /\ ListRight'
    BY <2>1, <1>1 DEF WatchInv, Connected, ListRight
  <2>5. SignalsRight'
    BY <2>1, <2>2, <1>1, <1>4 DEF WatchInv, SignalsRight, Listed
  <2>6. ActiveRight'
    BY <2>2 DEF ActiveRight
  <2> QED
    BY <2>3, <2>4, <2>5, <2>6 DEF WatchInv
<1>5. CASE "removed" \notin matches
  <2>1. WatchTypes' /\ Connected'
    BY <1>1, <1>5 DEF WatchInv, WatchTypes, Connected
  <2>2. ListRight' /\ SignalsRight'
    BY <1>1, <1>5 DEF WatchInv, ListRight, SignalsRight, Listed
  <2>3. ActiveRight'
    BY <1>1, <1>5 DEF WatchInv, ActiveRight, Listed
  <2> QED
    BY <2>1, <2>2, <2>3 DEF WatchInv
<1> QED
  BY <1>4, <1>5

\* What ActiveChanged sends.
LEMMA ActiveChangedIs ==
  ASSUME WatchInv, NEW S, S \subseteq Session, \A x, y \in S : x = y
  PROVE  /\ ActiveChanged(S) \in Seq(Signal) /\ OnlyActive(ActiveChanged(S))
         /\ S \cap handlers # {} => Asks(ActiveChanged(S), handlers)
<1>1. CASE S \cap handlers = {}
  <2>1. ActiveChanged(S) = <<>>
    BY <1>1 DEF ActiveChanged
  <2> QED
    BY <2>1, <1>1 DEF OnlyActive
<1>2. CASE S \cap handlers # {}
  <2> DEFINE x == CHOOSE s \in S : TRUE
             m == [kind |-> "active", session |-> x]
  <2>1. PICK y \in S : y \in handlers
    BY <1>2
  <2>2. x \in S
    BY <2>1
  <2>3. x = y
    BY <2>2
  <2>4. ActiveChanged(S) = <<m>>
    BY <1>2 DEF ActiveChanged
  <2> HIDE DEF x
  <2>5. m \in Signal /\ m.kind = "active" /\ m.session = x
    BY <2>2 DEF Signal
  <2> HIDE DEF m
  <2>6. <<m>> \in Seq(Signal) /\ Len(<<m>>) = 1 /\ <<m>>[1] = m
    BY <2>5
  <2> QED
    BY <2>1, <2>3, <2>4, <2>5, <2>6 DEF OnlyActive, Asks
<1> QED
  BY <1>1, <1>2

\* A change of the active session is signalled for the sessions with handlers.
LEMMA ActiveKeeps ==
  ASSUME WatchInv, NEW r \in Seq(Signal), OnlyActive(r), signals' = signals \o r,
         activeOnes' \subseteq Session, \A x, y \in activeOnes' : x = y,
         Asks(r, handlers) \/ activeOnes' \cap handlers = activeOnes \cap handlers,
         UNCHANGED <<there, starting, toAdd, matches, known, handlers, IsActive, pass, gap>>
  PROVE  WatchInv'
<1>0. signals \in Seq(Signal)
  BY DEF WatchInv, WatchTypes
<1>1. /\ signals' \in Seq(Signal)
      /\ OnlyActive(signals) => OnlyActive(signals')
      /\ \A K : Asks(signals, K) \/ Asks(r, K) => Asks(signals', K)
      /\ \A s : NoneOf(signals', s) => NoneOf(signals, s)
      /\ \A s, k : LastOf(signals, s, k) => LastOf(signals', s, k)
  BY <1>0, AppendActive
<1>2. WatchTypes' /\ Connected' /\ ListRight'
  BY <1>1 DEF WatchInv, WatchTypes, Connected, ListRight
<1>3. SignalsRight'
  BY <1>1 DEF WatchInv, SignalsRight, Listed
<1>4. ActiveRight'
  <2> SUFFICES ASSUME Listed, gap = {}, known # {}, ~Asks(signals', known)
               PROVE  (Free /\ (IsActive <=> Hit))' \/ (~Free /\ PassRight)'
    BY DEF ActiveRight, Listed
  <2>1. handlers = known
    BY DEF Listed, WatchInv, Connected
  <2>2. known \cap activeOnes' = known \cap activeOnes
    BY <1>1, <2>1
  <2>3. (Free /\ (IsActive <=> Hit)) \/ (~Free /\ PassRight)
    BY <1>1 DEF WatchInv, ActiveRight
  <2> QED
    BY <2>2, <2>3 DEF Free, Hit, PassRight
<1> QED
  BY <1>2, <1>3, <1>4 DEF WatchInv

LEMMA ActivateKeeps ==
  ASSUME WatchInv, NEW s \in Session, Activate(s) \/ Deactivate(s)
  PROVE  WatchInv'
<1>0. activeOnes \subseteq Session /\ (\A x, y \in activeOnes : x = y) /\ signals \in Seq(Signal)
  BY DEF WatchInv, WatchTypes
<1> DEFINE a == ActiveChanged(activeOnes)
           b == ActiveChanged({s})
<1>1. /\ a \in Seq(Signal) /\ OnlyActive(a) /\ (activeOnes \cap handlers # {} => Asks(a, handlers))
      /\ b \in Seq(Signal) /\ OnlyActive(b) /\ ({s} \cap handlers # {} => Asks(b, handlers))
  BY <1>0, ActiveChangedIs
<1>2. CASE Activate(s)
  <2>1. /\ activeOnes' = {s} /\ signals' = signals \o a \o b
        /\ UNCHANGED <<there, starting, toAdd, matches, known, handlers, IsActive, pass, gap>>
    BY <1>2 DEF Activate, Watcher
  <2> HIDE DEF a, b
  <2>2. signals \o a \o b = signals \o (a \o b)
    BY <1>0, <1>1
  <2>3. /\ a \o b \in Seq(Signal) /\ OnlyActive(a \o b)
        /\ \A K : Asks(a, K) \/ Asks(b, K) => Asks(a \o b, K)
    BY <1>1, AppendActive
  <2>4. Asks(a \o b, handlers) \/ activeOnes' \cap handlers = activeOnes \cap handlers
    BY <1>1, <2>1, <2>3
  <2> QED
    BY <2>1, <2>2, <2>3, <2>4, ActiveKeeps
<1>3. CASE Deactivate(s)
  <2>1. /\ activeOnes' = {} /\ signals' = signals \o b /\ s \in activeOnes
        /\ UNCHANGED <<there, starting, toAdd, matches, known, handlers, IsActive, pass, gap>>
    BY <1>3 DEF Deactivate, Watcher
  <2> HIDE DEF a, b
  <2>2. activeOnes = {s}
    BY <2>1, <1>0
  <2>3. Asks(b, handlers) \/ activeOnes' \cap handlers = activeOnes \cap handlers
    BY <1>1, <2>1, <2>2
  <2> QED
    BY <1>1, <2>1, <2>3, ActiveKeeps
<1> QED
  BY <1>2, <1>3

\* The sessions are asked, one after the other.
LEMMA AskKeeps ==
  ASSUME WatchInv, (\E s \in Session : AskSession(s)) \/ SetIsActive
  PROVE  WatchInv'
<1>0. pass \in Pass /\ pass.left \subseteq known /\ (pass.by = "none" => pass = NoPass)
  BY DEF WatchInv, WatchTypes
<1>1. CASE \E s \in Session : AskSession(s)
  <2>1. PICK s \in Session : AskSession(s)
    BY <1>1
  <2> DEFINE b == s \in activeOnes \cap OnSeat
  <2>2. /\ s \in pass.left /\ ~pass.active
        /\ pass' = [pass EXCEPT !.left = @ \ {s}, !.active = b]
        /\ UNCHANGED <<there, activeOnes, signals, starting, toAdd, matches, known, handlers,
                       IsActive, gap>>
    BY <2>1 DEF AskSession
  <2>3. pass.by # "none"
    BY <2>2, <1>0 DEF NoPass
  <2>4. b \in BOOLEAN
    OBVIOUS
  <2>5. /\ pass' \in Pass /\ pass'.left = pass.left \ {s} /\ pass'.active = b
        /\ pass'.by = pass.by
    <3> HIDE DEF b
    <3> QED
      BY <2>2, <2>4, <1>0 DEF Pass
  <2>6. ~Free /\ ~Free'
    BY <2>3, <2>5 DEF Free, NoPass
  <2>7. WatchTypes' /\ Connected' /\ ListRight' /\ SignalsRight'
    BY <1>0, <2>2, <2>3, <2>5 DEF WatchInv, WatchTypes, Connected, ListRight, SignalsRight, Listed
  <2>8. ActiveRight'
    BY <1>0, <2>2, <2>5, <2>6 DEF WatchInv, ActiveRight, Listed, PassRight, Hit
  <2> QED
    BY <2>7, <2>8 DEF WatchInv
<1>2. CASE SetIsActive
  <2>1. /\ ~Free /\ (pass.left = {} \/ pass.active) /\ IsActive' = pass.active /\ pass' = NoPass
        /\ UNCHANGED <<there, activeOnes, signals, starting, toAdd, matches, known, handlers, gap>>
    BY <1>2 DEF SetIsActive
  <2>2. NoPass \in Pass /\ NoPass.left = {}
    BY DEF NoPass, Pass
  <2>3. IsActive' \in BOOLEAN
    BY <1>0, <2>1 DEF Pass
  <2>4. WatchTypes' /\ Connected' /\ ListRight' /\ SignalsRight'
    BY <2>1, <2>2, <2>3 DEF WatchInv, WatchTypes, Connected, ListRight, SignalsRight, Listed
  <2>5. ActiveRight'
    BY <2>1 DEF WatchInv, ActiveRight, Listed, PassRight, Hit, Free
  <2> QED
    BY <2>4, <2>5 DEF WatchInv
<1> QED
  BY <1>1, <1>2

LEMMA SignalKeeps ==
  ASSUME WatchInv, HandleSessionSignal
  PROVE  WatchInv'
<1> DEFINE h == Head(signals)
           s == h.session
           next == [by |-> "loop", left |-> known', active |-> FALSE]
<1>1. /\ signals # <<>> /\ Free /\ signals' = Tail(signals)
      /\ UNCHANGED <<there, activeOnes, starting, toAdd, matches, IsActive, gap>>
      /\ \/ /\ h.kind = "new"
            /\ known' = IF Adds(s) THEN known \cup {s} ELSE known
            /\ handlers' = IF Adds(s) THEN handlers \cup {s} ELSE handlers
         \/ h.kind = "removed" /\ known' = known \ {s} /\ handlers' = handlers \ {s}
         \/ h.kind = "active" /\ UNCHANGED <<known, handlers>>
      /\ pass' = IF known' = {} \/ (h.kind = "active" /\ s \notin handlers) THEN NoPass ELSE next
  BY DEF HandleSessionSignal
<1>2. signals \in Seq(Signal) /\ known \subseteq Mine /\ handlers \subseteq Session
      /\ Mine \subseteq Session
  BY WatcherAssumption DEF WatchInv, WatchTypes
<1>3. /\ h \in Signal /\ signals' \in Seq(Signal)
      /\ OnlyActive(signals) => h.kind = "active" /\ OnlyActive(signals')
      /\ \A K : Asks(signals, K) => Asks(signals', K) \/ h.kind # "active" \/ s \in K
      /\ \A t, k : LastOf(signals, t, k) => LastOf(signals', t, k)
      /\ \A t : (h.kind = "active" \/ s # t) /\ NoneOf(signals', t) => NoneOf(signals, t)
      /\ \A t, k : h.kind # "active" /\ s = t /\ NoneOf(signals', t) /\ LastOf(signals, t, k)
                     => h.kind = k
  BY <1>1, <1>2, TailSignal
<1> HIDE DEF h
<1>4. s \in Session
  BY <1>3 DEF Signal
<1>5. known' \subseteq Mine /\ handlers' \subseteq Session
  BY <1>1, <1>2, <1>4 DEF Adds
<1>6. /\ pass' \in Pass /\ pass'.left \subseteq known' /\ (pass'.by = "none" => pass' = NoPass)
      /\ pass' = next \/ pass' = NoPass
  <2>1. NoPass \in Pass /\ NoPass.left = {}
    BY DEF NoPass, Pass
  <2>2. next \in Pass /\ next.left = known' /\ next.by = "loop"
    BY <1>2, <1>5 DEF Pass
  <2> HIDE DEF next
  <2> QED
    BY <1>1, <2>1, <2>2
<1>7. WatchTypes'
  BY <1>1, <1>3, <1>5, <1>6 DEF WatchInv, WatchTypes
<1>8. Connected' /\ ListRight'
  BY <1>1, <1>3 DEF WatchInv, Connected, ListRight, WatchTypes
<1>9. SignalsRight'
  <2> SUFFICES ASSUME Listed, NEW t \in Session \ gap
               PROVE  /\ LastOf(signals', t, IF t \in there THEN "new" ELSE "removed")
                      /\ NoneOf(signals', t) => (t \in known' <=> t \in Mine \cap there)
    BY <1>1 DEF SignalsRight, Listed
  <2>1. /\ LastOf(signals, t, IF t \in there THEN "new" ELSE "removed")
        /\ NoneOf(signals, t) => (t \in known <=> t \in Mine \cap there)
    BY DEF WatchInv, SignalsRight
  <2>2. CASE h.kind = "active" \/ s # t
    BY <2>1, <2>2, <1>1, <1>3 DEF Adds
  <2>3. CASE h.kind # "active" /\ s = t
    BY <2>1, <2>3, <1>1, <1>2, <1>3 DEF Adds
  <2> QED
    BY <2>2, <2>3
<1>10. ActiveRight'
  <2> SUFFICES ASSUME Listed, gap = {}, known' # {}, ~Asks(signals', known')
               PROVE  (Free /\ (IsActive <=> Hit))' \/ (~Free /\ PassRight)'
    BY <1>1 DEF ActiveRight, Listed
  <2>1. CASE h.kind = "active" /\ s \notin handlers
    <3>1. handlers = known /\ known' = known /\ pass' = NoPass
      BY <2>1, <1>1 DEF WatchInv, Connected, Listed
    <3>2. ~Asks(signals, known)
      BY <3>1, <2>1, <1>3
    <3>3. Free' /\ (IsActive <=> Hit)
      BY <3>1, <3>2, <1>1 DEF WatchInv, ActiveRight, Free
    <3> QED
      BY <3>1, <3>3, <1>1 DEF Hit
  <2>2. CASE ~(h.kind = "active" /\ s \notin handlers)
    <3>1. pass' = next
      BY <2>2, <1>1
    <3>2. ~Free'
      BY <3>1 DEF Free, NoPass
    <3>3. PassRight'
      BY <3>1 DEF PassRight
    <3> QED
      BY <3>2, <3>3
  <2> QED
    BY <2>1, <2>2
<1> QED
  BY <1>7, <1>8, <1>9, <1>10 DEF WatchInv

LEMMA StartKeeps ==
  ASSUME WatchInv, \/ ListSessions \/ ConnectChanged \/ StartPass \/ ConnectManager
                   \/ \E s \in Session : ManagerAddSession(s)
  PROVE  WatchInv'
<1>0. NoPass \in Pass /\ NoPass.left = {}
  BY DEF NoPass, Pass
<1>1. CASE ListSessions
  <2>1. /\ starting = "list" /\ starting' = "add" /\ toAdd' = there
        /\ UNCHANGED <<there, activeOnes, signals, matches, known, handlers, IsActive, pass, gap>>
    BY <1>1 DEF ListSessions
  <2> QED
    BY <2>1 DEF WatchInv, WatchTypes, Connected, ListRight, SignalsRight, ActiveRight, Listed
<1>2. CASE ConnectChanged
  <2>1. /\ starting = "connect" /\ starting' = "add" /\ handlers' = known
        /\ UNCHANGED <<there, activeOnes, signals, toAdd, matches, known, IsActive, pass, gap>>
    BY <1>2 DEF ConnectChanged
  <2> QED
    BY <2>1, WatcherAssumption
       DEF WatchInv, WatchTypes, Connected, ListRight, SignalsRight, ActiveRight, Listed
<1>3. CASE StartPass
  <2>1. /\ starting = "add" /\ toAdd = {} /\ Free /\ starting' = "new"
        /\ pass' = IF known = {} THEN NoPass
                   ELSE [by |-> "start", left |-> known, active |-> FALSE]
        /\ UNCHANGED <<there, activeOnes, signals, toAdd, matches, known, handlers, IsActive, gap>>
    BY <1>3 DEF StartPass, BeginUpdate
  <2>2. /\ pass' \in Pass /\ pass'.left = known /\ (pass'.by = "none" => pass' = NoPass)
        /\ known # {} => ~pass'.active /\ pass' # NoPass
    BY <2>1, <1>0, WatcherAssumption DEF Pass, NoPass, WatchInv, WatchTypes
  <2>3. WatchTypes' /\ Connected' /\ ListRight'
    BY <2>1, <2>2 DEF WatchInv, WatchTypes, Connected, ListRight
  <2>4. SignalsRight'
    BY <2>1 DEF WatchInv, Connected, ListRight, SignalsRight, OnlyActive, NoneOf, LastOf
  <2>5. ActiveRight'
    BY <2>1, <2>2 DEF ActiveRight, Free, PassRight
  <2> QED
    BY <2>3, <2>4, <2>5 DEF WatchInv
<1>4. CASE ConnectManager
  <2>1. /\ \/ starting = "new" /\ matches' = {"new"} /\ starting' = "removed"
           \/ starting = "removed" /\ matches' = {"new", "removed"} /\ starting' = "done"
        /\ UNCHANGED <<there, activeOnes, signals, toAdd, known, handlers, IsActive, pass, gap>>
    BY <1>4 DEF ConnectManager
  <2>2. WatchTypes' /\ Connected' /\ ListRight'
    BY <2>1 DEF WatchInv, WatchTypes, Connected, ListRight
  <2>3. SignalsRight'
    BY <2>1 DEF WatchInv, SignalsRight, Listed
  <2>4. ActiveRight'
    BY <2>1 DEF WatchInv, ActiveRight, Listed, Free, PassRight, Hit
  <2> QED
    BY <2>2, <2>3, <2>4 DEF WatchInv
<1>5. CASE \E s \in Session : ManagerAddSession(s)
  <2>1. PICK s \in Session : ManagerAddSession(s)
    BY <1>5
  <2>2. /\ starting = "add" /\ s \in toAdd /\ Free
        /\ known' = IF Adds(s) THEN known \cup {s} ELSE known
        /\ toAdd' = toAdd \ {s}
        /\ starting' = IF Adds(s) THEN "connect" ELSE "add"
        /\ UNCHANGED <<there, activeOnes, signals, matches, handlers, IsActive, pass, gap>>
    BY <2>1 DEF ManagerAddSession
  <2>3. pass.left = {}
    BY <2>2, <1>0 DEF Free
  <2>4. WatchTypes' /\ Connected'
    BY <2>2, <2>3 DEF WatchInv, WatchTypes, Connected, Adds
  <2>5. ListRight'
    BY <2>2 DEF WatchInv, ListRight, Adds
  <2>6. SignalsRight' /\ ActiveRight'
    BY <2>2 DEF SignalsRight, ActiveRight, Listed
  <2> QED
    BY <2>4, <2>5, <2>6 DEF WatchInv
<1> QED
  BY <1>1, <1>2, <1>3, <1>4, <1>5

(* When every signal is handled the watcher knows the user's sessions that *)
(* there are, and IsActive says whether one of them is active on a seat:   *)
(* for any sessions and any number of changes, although it lists, connects *)
(* and asks them one by one while they come, go and change.                *)
THEOREM WatcherAlwaysCurrent == WatcherSpec => []WatcherCurrent
<1>1. WatchInv /\ [WatcherNext]_watchVars => WatchInv'
  <2> SUFFICES ASSUME WatchInv, [WatcherNext]_watchVars PROVE WatchInv'
    OBVIOUS
  <2>1. CASE UNCHANGED watchVars
    <3>1. UNCHANGED <<there, activeOnes, signals, starting, toAdd, matches, known, handlers,
                      IsActive, pass, gap>>
      BY <2>1 DEF watchVars
    <3> QED
      BY <3>1 DEF WatchInv, WatchTypes, Connected, ListRight, SignalsRight, ActiveRight, Listed,
                  Free, PassRight, Hit
  <2> QED
    BY <2>1, NewSessionKeeps, EndSessionKeeps, ActivateKeeps, AskKeeps, SignalKeeps, StartKeeps
       DEF WatcherNext
<1>2. WatchInv => WatcherCurrent
  <2> SUFFICES ASSUME WatchInv, SettledDown PROVE WatcherCurrent
    BY DEF WatcherCurrent, SessionsKnown, IsActiveCurrent
  <2>1. /\ \A s : NoneOf(signals, s)
        /\ \A K : ~Asks(signals, K)
    BY DEF SettledDown, NoneOf, Asks
  <2>2. known \ gap = (Mine \cap there) \ gap
    BY <2>1, WatcherAssumption DEF WatchInv, WatchTypes, SignalsRight, Listed, SettledDown
  <2>3. gap = {} /\ known # {} => (IsActive <=> Hit)
    BY <2>1 DEF WatchInv, ActiveRight, Listed, SettledDown
  <2> QED
    BY <2>2, <2>3 DEF WatcherCurrent, SessionsKnown, IsActiveCurrent, Hit
<1> QED
  BY <1>1, <1>2, WatchInit, PTL DEF WatcherSpec

-----------------------------------------------------------------------------
(* File transfer (ObexTransfer).                                           *)

SendPc == {"idle", "start", "file", "connect", "select", "cancelled", "cancelTransfer",
           "removeHandlers", "finish", "end"}
PushPc == {"idle", "called", "token", "asking", "agreed", "connecting", "accepted", "aborted",
           "receiving"}
SendRec == [pc : SendPc, file : Int]

ObexTypes ==
  /\ send \in [Outgoing -> SendRec]
  /\ push \in [Incoming -> PushPc]
  /\ ended \in [Incoming -> Nat]

\* Who has taken Transportable away and has not yet come to giving it back
SenderOwes(s) == send[s].pc \notin {"idle", "end"}
ReceiverOwes(r) == push[r] = "receiving" \/ ended[r] > 0

ObexInv ==
  /\ ObexTypes
  /\ transportable \/ aborted \/ (\E s \in Outgoing : SenderOwes(s))
                              \/ \E r \in Incoming : ReceiverOwes(r)

LEMMA ObexInvInit == ObexInit => ObexInv
BY DEF ObexInit, ObexInv, ObexTypes, SendRec, SendPc, PushPc

(* A step of a session that sends and goes on, or gives the property back. *)
LEMMA SenderMoves ==
  ASSUME ObexInv, NEW s \in Outgoing, send' \in [Outgoing -> SendRec],
         \A x \in Outgoing : x # s => send'[x] = send[x],
         send'[s].pc \notin {"idle", "end"} \/ transportable',
         UNCHANGED <<push, ended, aborted>>
  PROVE  ObexInv'
BY DEF ObexInv, ObexTypes, SenderOwes, ReceiverOwes

LEMMA SendingKeeps == ASSUME ObexInv, NEW s \in Outgoing, Sending(s) \/ SendFiles(s) PROVE ObexInv'
<1>1. /\ UNCHANGED <<push, ended, aborted>>
      /\ send \in [Outgoing -> SendRec]
  BY DEF ObexInv, ObexTypes, obexHist, Sending, SendFiles, DoSendFiles, SendFile, LastFileSent, ConnectStatus,
     TransferDone, CancelDelete, CancelTransfer, RemoveHandlers, SendFinished, SendEnds,
     StatusChanged, CancelReceived, recvVars
<1>2. ASSUME UNCHANGED <<send, transportable>> PROVE ObexInv'
  BY <1>1, <1>2 DEF ObexInv, ObexTypes, SenderOwes, ReceiverOwes
<1>3. ASSUME NEW p \in SendPc, send' = [send EXCEPT ![s].pc = p],
             p \notin {"idle", "end"} \/ transportable'
      PROVE  ObexInv'
  <2>1. /\ send' \in [Outgoing -> SendRec] /\ send'[s].pc = p
        /\ \A x \in Outgoing : x # s => send'[x] = send[x]
    BY <1>1, <1>3 DEF SendRec
  <2> QED
    BY <1>1, <1>3, <2>1, SenderMoves
<1>4. ASSUME NEW n \in Int, send' = [send EXCEPT ![s] = [pc |-> "file", file |-> n]] PROVE ObexInv'
  <2>1. /\ send' \in [Outgoing -> SendRec] /\ send'[s].pc = "file"
        /\ \A x \in Outgoing : x # s => send'[x] = send[x]
    BY <1>1, <1>4 DEF SendRec, SendPc
  <2> QED
    BY <1>1, <2>1, SenderMoves
<1>5. send[s].file + 1 \in Int
  BY <1>1 DEF SendRec
<1>6. CASE SendFile(s)
  <2>1. CASE send' = [send EXCEPT ![s].file = @ + 1]
    <3>1. send'[s].pc = "file" /\ send' \in [Outgoing -> SendRec]
          /\ \A x \in Outgoing : x # s => send'[x] = send[x]
      BY <1>1, <1>5, <1>6, <2>1 DEF SendFile, At, SendRec
    <3> QED
      BY <1>1, <3>1, SenderMoves
  <2> QED
    BY <1>3, <1>6, <2>1 DEF SendFile, Goto, SendPc
<1>7. CASE TransferDone(s)
  <2>1. \/ send' = [send EXCEPT ![s] = [pc |-> "file", file |-> send[s].file + 1]]
        \/ send' = [send EXCEPT ![s].pc = "finish"]
    BY <1>1, <1>7 DEF TransferDone, Goto
  <2> QED
    BY <1>3, <1>4, <1>5, <2>1 DEF SendPc
<1>8. CASE DoSendFiles(s)
  <2>1. send' = [send EXCEPT ![s] = [pc |-> "file", file |-> 1]] /\ 1 \in Int
    BY <1>8 DEF DoSendFiles
  <2> QED
    BY <1>4, <2>1, Zenon
<1>9. CASE SendEnds(s) \/ StatusChanged(s)
  BY <1>2, <1>9 DEF SendEnds, StatusChanged
<1>10. CASE SendFinished(s)
  BY <1>3, <1>10 DEF SendFinished, Goto, SendPc
<1> QED
  BY <1>3, <1>6, <1>7, <1>8, <1>9, <1>10 DEF Sending, SendFiles, LastFileSent, ConnectStatus,
     CancelDelete, CancelTransfer, RemoveHandlers, CancelReceived, Goto, SendPc

(* A step of a session that receives: what it owed it still owes, or the   *)
(* property is given back.                                                 *)
LEMMA ReceiverMoves ==
  ASSUME ObexInv, push' \in [Incoming -> PushPc], ended' \in [Incoming -> Nat], UNCHANGED send,
         aborted => aborted',
         \/ transportable' \/ aborted'
         \/ transportable' = transportable /\ \A r \in Incoming : ReceiverOwes(r) => ReceiverOwes(r)'
         \/ \E r \in Incoming : ReceiverOwes(r)'
  PROVE  ObexInv'
BY DEF ObexInv, ObexTypes, SenderOwes

LEMMA ReceivingKeeps ==
  ASSUME ObexInv, NEW r \in Incoming, Pushing(r) \/ AuthorizePush(r) \/ Abort(r)
  PROVE  ObexInv'
<1>1. push \in [Incoming -> PushPc] /\ ended \in [Incoming -> Nat] /\ UNCHANGED send
  BY DEF ObexInv, ObexTypes, Pushing, AuthorizePush, Abort, IsSessionAccepted, Agree, Accept, Decline,
     NextFile, ReceiveProgress, Authorized, ReceiveEnds, ReceiveStatusChanged, Settle, sendVars
<1>2. ASSUME NEW p \in PushPc, PushTo(r, p), push[r] # "receiving",
             UNCHANGED <<ended, aborted>>, transportable' \/ transportable' = transportable
      PROVE  ObexInv'
  <2>1. /\ push' \in [Incoming -> PushPc] /\ push'[r] = p
        /\ \A x \in Incoming : x # r => push'[x] = push[x]
    BY <1>1, <1>2 DEF PushTo
  <2> QED
    BY <1>1, <1>2, <2>1, ReceiverMoves DEF ReceiverOwes
<1>3. ASSUME UNCHANGED <<push, ended, aborted, transportable>> PROVE ObexInv'
  BY <1>1, <1>3, ReceiverMoves DEF ReceiverOwes
<1>4. CASE Abort(r)
  <2>1. CASE push[r] = "accepted" /\ PushTo(r, "aborted") /\ ended' = [ended EXCEPT ![r] = @ + 1]
    <3>1. /\ push' \in [Incoming -> PushPc] /\ ended' \in [Incoming -> Nat] /\ ended'[r] > 0
      BY <1>1, <2>1 DEF PushTo, PushPc
    <3> QED
      BY <1>1, <1>4, <3>1, ReceiverMoves DEF ReceiverOwes, Abort, obexHist
  <2> QED
    BY <1>3, <1>4, <2>1 DEF Abort, obexHist
<1>5. CASE Authorized(r)
  <2>1. UNCHANGED ended /\ (aborted => aborted')
    BY <1>5 DEF Authorized
  <2>2. CASE push[r] = "accepted"
    <3>1. push' = [push EXCEPT ![r] = "receiving"]
      BY <1>5, <2>2 DEF Authorized, PushTo
    <3>2. /\ push' \in [Incoming -> PushPc] /\ push'[r] = "receiving"
          /\ \A x \in Incoming : x # r => push'[x] = push[x]
      BY <1>1, <3>1 DEF PushPc
    <3>3. ReceiverOwes(r)'
      BY <3>2 DEF ReceiverOwes
    <3> QED
      BY <1>1, <2>1, <3>2, <3>3, ReceiverMoves
  <2>3. CASE push[r] = "aborted"
    <3>1. push' = [push EXCEPT ![r] = "idle"] /\ (aborted' \/ ended[r] # 0)
      BY <1>5, <2>3 DEF Authorized, PushTo
    <3>2. push' \in [Incoming -> PushPc]
      BY <1>1, <3>1 DEF PushPc
    <3>3. aborted' \/ ReceiverOwes(r)'
      BY <1>1, <2>1, <3>1 DEF ReceiverOwes
    <3> QED
      BY <1>1, <2>1, <3>2, <3>3, ReceiverMoves
  <2> QED
    BY <1>5, <2>2, <2>3 DEF Authorized
<1>6. CASE ReceiveEnds(r)
  <2>1. /\ push' \in [Incoming -> PushPc] /\ ended' \in [Incoming -> Nat]
        /\ push'[r] = "idle" /\ ended'[r] > 0
        /\ \A x \in Incoming : x # r => push'[x] = push[x]
        /\ UNCHANGED aborted
    BY <1>1, <1>6 DEF ReceiveEnds, TransfersEnd, PushPc, obexHist
  <2>2. ReceiverOwes(r)'
    BY <2>1 DEF ReceiverOwes
  <2> QED
    BY <1>1, <2>1, <2>2, ReceiverMoves
<1>7. CASE ReceiveStatusChanged(r)
  <2>1. ended' \in [Incoming -> Nat] /\ transportable' /\ UNCHANGED <<push, aborted>>
    BY <1>1, <1>7 DEF ReceiveStatusChanged, obexHist
  <2> QED
    BY <1>1, <2>1, ReceiverMoves
<1>8. CASE AuthorizePush(r)
  BY <1>2, <1>8 DEF AuthorizePush, PushPc, obexHist
<1>9. CASE IsSessionAccepted(r)
  BY <1>2, <1>9 DEF IsSessionAccepted, PushTo, PushPc, obexHist
<1>10. CASE Agree(r) \/ Accept(r) \/ Decline(r) \/ NextFile(r)
  BY <1>2, <1>10 DEF Agree, Accept, Decline, NextFile, PushPc, obexHist
<1>11. CASE Settle(r)
  BY <1>3, <1>11 DEF Settle, obexHist
<1>12. CASE ReceiveProgress(r)
  BY <1>2, <1>12 DEF ReceiveProgress, PushPc
<1> QED
  BY <1>4, <1>5, <1>6, <1>7, <1>8, <1>9, <1>10, <1>11, <1>12 DEF Pushing

LEMMA ObexStep == ObexInv /\ [ObexNext]_obexVars => ObexInv'
<1> SUFFICES ASSUME ObexInv, [ObexNext]_obexVars PROVE ObexInv'
  OBVIOUS
<1>1. ASSUME UNCHANGED <<send, push, ended, transportable, aborted>> PROVE ObexInv'
  BY <1>1 DEF ObexInv, ObexTypes, SenderOwes, ReceiverOwes
<1>2. ASSUME NEW c \in Canceller, CancelLock(c) \/ CancelReturn(c) PROVE ObexInv'
  BY <1>1, <1>2 DEF CancelLock, CancelReturn, recvVars, obexHist
<1>3. CASE LockReceive \/ SendToken
  BY <1>1, <1>3 DEF LockReceive, SendToken, sendVars, obexHist
<1>4. ASSUME NEW s \in Outgoing, NEW c \in Canceller, CancelTransferSession(c, s) PROVE ObexInv'
  BY <1>1, <1>4 DEF CancelTransferSession, recvVars, obexHist
<1>5. ASSUME NEW a, Answer(a) PROVE ObexInv'
  BY <1>1, <1>5 DEF Answer, sendVars, obexHist
<1>6. CASE CancelClicked
  <2> DEFINE R == {r \in Incoming : push[r] = "receiving" /\ button[r] # "off"}
  <2>1. transportable' /\ TransfersEnd(R) /\ UNCHANGED <<send, aborted>>
    BY <1>6 DEF CancelClicked, sendVars, obexHist
  <2> HIDE DEF R
  <2>2. push \in [Incoming -> PushPc] /\ ended \in [Incoming -> Nat]
    BY DEF ObexInv, ObexTypes
  <2>3. push' \in [Incoming -> PushPc] /\ ended' \in [Incoming -> Nat]
    BY <2>1, <2>2 DEF TransfersEnd, PushPc
  <2> QED
    BY <2>1, <2>3, ReceiverMoves
<1>7. CASE UNCHANGED obexVars
  BY <1>1, <1>7 DEF obexVars, sendVars, recvVars, obexHist
<1> QED
  BY <1>2, <1>3, <1>4, <1>5, <1>6, <1>7, SendingKeeps, ReceivingKeeps DEF ObexNext, ObexProgress

(* TransportableAgain (bluetooth/bluetooth.go, obex_agent.go): for any     *)
(* number of sessions that send, receive and are cancelled at a time,      *)
(* Transportable is true again when all of them are over, unless an        *)
(* AuthorizePush returned when the end of its transfer had been handled or *)
(* missed.                                                                 *)
THEOREM AlwaysTransportableAgain == ObexSpec => []TransportableAgain
<1>1. ObexInv => TransportableAgain
  BY DEF ObexInv, ObexTypes, TransportableAgain, TransfersQuiet, SenderOwes, ReceiverOwes
<1> QED
  BY <1>1, ObexInvInit, ObexStep, PTL DEF ObexSpec

-----------------------------------------------------------------------------
(* AuthorizePush is not left waiting: it keeps acceptedSessionsMu while it *)
(* waits for the user, for receiveCh, or for the file before.              *)

\* The transfers of a session that have been let in and have not put their
\* value into receiveCh.
Live(r) == push[r] \in {"connecting", "accepted", "receiving"}
Carried(r) == ended[r] + (IF Live(r) THEN 1 ELSE 0) + (IF recvLoop = r THEN 1 ELSE 0)

\* receiveCh has a value, or a transfer that will put one there can move.
TokenCanCome ==
  \/ tokens > 0
  \/ recvLoop # Nobody /\ (~receiveMu \/ tokens = 0)
  \/ \E x \in Incoming : \/ push[x] \in {"accepted", "receiving"}
                         \/ recvLoop = Nobody /\ ended[x] > 0

\* Where AuthorizePush keeps acceptedSessionsMu
Holding == {"asking", "agreed", "token", "connecting"}

\* Whoever holds acceptedSessionsMu: the question has a timeout, the handler
\* gives recevieChMu back, and the value comes.
HolderCanMove(r) ==
  \/ push[r] \in {"asking", "connecting"}
  \/ push[r] = "agreed" /\ (~receiveMu \/ tokens = 0)
  \/ push[r] = "token" /\ TokenCanCome

PushCanBeAnswered ==
  ~overlap /\ ~missed => \A r \in Incoming :
     /\ push[r] = "called" => acceptedMu = Nobody \/ HolderCanMove(acceptedMu)
     /\ push[r] \in Holding => HolderCanMove(r)

\* The inductive invariant: acceptedSessions counts the transfers that are
\* carried and those whose timer runs (and the ones that were over before
\* their handlers were connected), and as long as no session was let in beside
\* another and no end was missed there is one value in receiveCh or one
\* transfer for it.
PushTypes ==
  /\ push \in [Incoming -> PushPc]
  /\ ended \in [Incoming -> Nat] /\ settling \in [Incoming -> Nat]
  /\ tokens \in {0, 1} /\ receiveMu \in BOOLEAN /\ overlap \in BOOLEAN /\ missed \in BOOLEAN
  /\ recvLoop \in Incoming \cup {Nobody} /\ acceptedMu \in Incoming \cup {Nobody}
  /\ DOMAIN accepted \subseteq Incoming /\ accepted \in [DOMAIN accepted -> Nat]
  /\ receiveMu => recvLoop # Nobody

MuHeld ==
  \A r \in Incoming :
     /\ acceptedMu = r <=> push[r] \in Holding
     /\ push[r] \in {"asking", "agreed"} => r \notin DOMAIN accepted
     /\ push[r] = "token" => r \in DOMAIN accepted

SessionsCounted ==
  \A r \in Incoming :
     /\ r \in DOMAIN accepted => accepted[r] > 0 /\ accepted[r] >= Carried(r) + settling[r]
     /\ r \notin DOMAIN accepted => Carried(r) = 0 /\ settling[r] = 0

OneToken ==
  ~overlap /\ ~missed =>
     /\ \A x \in Incoming : Carried(x) <= 1
     /\ \A x, y \in Incoming : Carried(x) > 0 /\ Carried(y) > 0 => x = y
     /\ tokens = 1 => \A x \in Incoming : Carried(x) = 0
     /\ DOMAIN accepted # {} => tokens = 1 \/ \E x \in Incoming : Carried(x) > 0

PushInv == PushTypes /\ MuHeld /\ SessionsCounted /\ OneToken

LEMMA CarriedType ==
  ASSUME PushTypes, NEW r \in Incoming
  PROVE  /\ Carried(r) \in Nat /\ ended[r] \in Nat /\ settling[r] \in Nat /\ push[r] \in PushPc
         /\ Live(r) \/ ended[r] > 0 \/ recvLoop = r <=> Carried(r) > 0
BY DEF PushTypes, Carried, Live

LEMMA PushInvInit == ObexInit => PushInv
<1> SUFFICES ASSUME ObexInit PROVE PushInv
  OBVIOUS
<1>1. /\ push = [r \in Incoming |-> "idle"] /\ ended = [r \in Incoming |-> 0]
      /\ settling = [r \in Incoming |-> 0] /\ acceptedMu = Nobody /\ recvLoop = Nobody
      /\ tokens = 0 /\ receiveMu = FALSE /\ overlap = FALSE /\ accepted = <<>>
      /\ missed = FALSE
  BY DEF ObexInit
<1>2. DOMAIN accepted = {} /\ accepted \in [DOMAIN accepted -> Nat]
  BY <1>1
<1>3. PushTypes
  BY <1>1, <1>2 DEF PushTypes, PushPc
<1>4. \A r \in Incoming : Carried(r) = 0
  BY <1>1, ObexAssumption DEF Carried, Live
<1> QED
  BY <1>1, <1>2, <1>3, <1>4, ObexAssumption DEF PushInv, MuHeld, Holding, SessionsCounted, OneToken

\* A step that lets nothing in and puts nothing into the channel.
LEMMA CarriedStays ==
  ASSUME PushInv, PushTypes', MuHeld', \A r \in Incoming : Carried(r)' = Carried(r),
         UNCHANGED <<tokens, accepted, settling, overlap, missed>>
  PROVE  PushInv'
BY DEF PushInv, SessionsCounted, OneToken

\* A session that moves, with the lock or without.
LEMMA PushMoves ==
  ASSUME PushInv, NEW r \in Incoming, NEW p \in PushPc, PushTo(r, p)
  PROVE  /\ push' \in [Incoming -> PushPc] /\ push'[r] = p
         /\ \A x \in Incoming \ {r} : push'[x] = push[x]
BY DEF PushInv, PushTypes, PushTo

\* From one place to another, neither of them of a transfer.
LEMMA AskingKeeps ==
  ASSUME PushInv, NEW r \in Incoming,
         AuthorizePush(r) \/ IsSessionAccepted(r) \/ Agree(r) \/ Decline(r)
  PROVE  PushInv'
<1>1. /\ UNCHANGED <<ended, settling, tokens, receiveMu, overlap, missed, recvLoop, accepted>>
      /\ PushTypes /\ MuHeld
  BY DEF obexHist, AuthorizePush, IsSessionAccepted, Agree, Decline, PushInv
<1>2. PICK p \in PushPc : /\ PushTo(r, p)
                          /\ p \in {"idle", "called", "asking", "agreed", "token"}
                          /\ push[r] \in {"idle", "called", "asking"}
                          /\ acceptedMu' = IF p \in {"asking", "agreed", "token"} THEN r
                                           ELSE IF push[r] = "asking" THEN Nobody ELSE acceptedMu
                          /\ p \in {"asking", "token"} => acceptedMu = Nobody
                          /\ p = "agreed" => push[r] = "asking"
                          /\ p = "asking" => r \notin DOMAIN accepted
                          /\ p = "token" => r \in DOMAIN accepted
  <2>1. CASE AuthorizePush(r)
    <3>1. push[r] = "idle" /\ PushTo(r, "called") /\ acceptedMu' = acceptedMu
      BY <2>1 DEF AuthorizePush
    <3> QED
      BY <3>1 DEF PushPc
  <2>2. CASE IsSessionAccepted(r)
    <3>1. \/ acceptedMu' = r /\ PushTo(r, "token") /\ r \in DOMAIN accepted
          \/ acceptedMu' = r /\ PushTo(r, "asking") /\ r \notin DOMAIN accepted
          \/ UNCHANGED acceptedMu /\ PushTo(r, "idle")
      BY <2>2 DEF IsSessionAccepted
    <3>2. push[r] = "called" /\ acceptedMu = Nobody
      BY <2>2 DEF IsSessionAccepted
    <3> QED
      BY <3>1, <3>2 DEF PushPc
  <2>3. CASE Agree(r)
    <3>1. push[r] = "asking" /\ PushTo(r, "agreed") /\ acceptedMu' = acceptedMu /\ acceptedMu = r
      BY <2>3, <1>1 DEF Agree, MuHeld, Holding
    <3> QED
      BY <3>1 DEF PushPc
  <2>4. CASE Decline(r)
    <3>1. push[r] = "asking" /\ PushTo(r, "idle") /\ acceptedMu' = Nobody
      BY <2>4 DEF Decline
    <3> QED
      BY <3>1 DEF PushPc
  <2> QED
    BY <2>1, <2>2, <2>3, <2>4
<1>3. /\ push' \in [Incoming -> PushPc] /\ push'[r] = p
      /\ \A x \in Incoming \ {r} : push'[x] = push[x]
  BY <1>2, PushMoves
<1>4. PushTypes'
  BY <1>1, <1>2, <1>3 DEF PushTypes
<1>5. MuHeld'
  <2> SUFFICES ASSUME NEW x \in Incoming
               PROVE  /\ acceptedMu' = x <=> push'[x] \in Holding
                      /\ push'[x] \in {"asking", "agreed"} => x \notin DOMAIN accepted
                      /\ push'[x] = "token" => x \in DOMAIN accepted
    BY <1>1 DEF MuHeld
  <2>1. /\ acceptedMu = r <=> push[r] \in Holding
        /\ acceptedMu = x <=> push[x] \in Holding
        /\ push[r] \in {"asking", "agreed"} => r \notin DOMAIN accepted
        /\ push[x] \in {"asking", "agreed"} => x \notin DOMAIN accepted
        /\ push[x] = "token" => x \in DOMAIN accepted
        /\ x # Nobody /\ r # Nobody
    BY <1>1, ObexAssumption DEF MuHeld
  <2>2. CASE x = r
    BY <1>2, <1>3, <2>1, <2>2 DEF Holding
  <2>3. CASE x # r
    BY <1>2, <1>3, <2>1, <2>3 DEF Holding
  <2> QED
    BY <2>2, <2>3
<1>6. \A x \in Incoming : Carried(x)' = Carried(x)
  BY <1>1, <1>2, <1>3 DEF Carried, Live
<1> QED
  BY <1>1, <1>4, <1>5, <1>6, CarriedStays

\* Transfers that begin, end and are noticed.
LEMMA TransferKeeps ==
  ASSUME PushInv, NEW R \in SUBSET Incoming, NEW r,
         \/ TransfersEnd(R) /\ (\A x \in R : push[x] = "receiving") /\ UNCHANGED recvLoop
         \/ r \in Incoming /\ (Abort(r) \/ Authorized(r) \/ ReceiveStatusChanged(r)),
         UNCHANGED <<acceptedMu, settling, tokens, receiveMu, overlap, missed, accepted>>
  PROVE  PushInv'
<1>0. PushTypes /\ MuHeld
  BY DEF PushInv
<1>1. ASSUME push' \in [Incoming -> PushPc], ended' \in [Incoming -> Nat],
             recvLoop' \in Incoming \cup {Nobody}, recvLoop = Nobody \/ UNCHANGED recvLoop,
             \A x \in Incoming : \/ push'[x] = push[x]
                                 \/ /\ push[x] \in {"accepted", "aborted", "receiving"}
                                    /\ push'[x] \in {"idle", "aborted", "receiving"},
             \A x \in Incoming : Carried(x)' = Carried(x)
      PROVE  PushInv'
  <2>1. PushTypes'
    BY <1>0, <1>1 DEF PushTypes
  <2>2. MuHeld'
    BY <1>0, <1>1 DEF MuHeld, Holding
  <2> QED
    BY <1>1, <2>1, <2>2, CarriedStays
<1>2. CASE TransfersEnd(R) /\ (\A x \in R : push[x] = "receiving") /\ UNCHANGED recvLoop
  <2>1. \A x \in Incoming : /\ push'[x] = IF x \in R THEN "idle" ELSE push[x]
                            /\ ended'[x] = IF x \in R THEN ended[x] + 1 ELSE ended[x]
    BY <1>2 DEF TransfersEnd
  <2>2. push' \in [Incoming -> PushPc] /\ ended' \in [Incoming -> Nat]
    BY <1>0, <1>2 DEF TransfersEnd, PushTypes, PushPc
  <2>3. ASSUME NEW x \in Incoming PROVE Carried(x)' = Carried(x)
    BY <1>0, <1>2, <2>1 DEF Carried, Live, PushTypes
  <2> QED
    BY <1>0, <1>1, <1>2, <2>1, <2>2, <2>3 DEF PushTypes
<1>3. CASE r \in Incoming /\ Abort(r)
  <2>1. UNCHANGED recvLoop
    BY <1>3 DEF Abort
  <2>2. CASE push[r] = "accepted" /\ PushTo(r, "aborted") /\ ended' = [ended EXCEPT ![r] = @ + 1]
    <3>1. /\ push' \in [Incoming -> PushPc] /\ push'[r] = "aborted"
          /\ \A x \in Incoming \ {r} : push'[x] = push[x]
      BY <1>3, <2>2, PushMoves DEF PushPc
    <3>2. ended' \in [Incoming -> Nat] /\ \A x \in Incoming : Carried(x)' = Carried(x)
      BY <1>0, <1>3, <2>1, <2>2, <3>1 DEF Carried, Live, PushTypes
    <3> QED
      BY <1>0, <1>1, <1>3, <2>1, <2>2, <3>1, <3>2 DEF PushTypes
  <2>3. CASE UNCHANGED <<push, ended>>
    BY <1>0, <1>1, <2>1, <2>3 DEF PushTypes, Carried, Live
  <2> QED
    BY <1>3, <2>2, <2>3 DEF Abort
<1>4. CASE r \in Incoming /\ Authorized(r)
  <2>1. PICK p \in PushPc : /\ PushTo(r, p) /\ UNCHANGED <<recvLoop, ended>>
                            /\ \/ push[r] = "accepted" /\ p = "receiving"
                               \/ push[r] = "aborted" /\ p = "idle"
    BY <1>4 DEF Authorized, PushPc
  <2>2. /\ push' \in [Incoming -> PushPc] /\ push'[r] = p
        /\ \A x \in Incoming \ {r} : push'[x] = push[x]
    BY <1>4, <2>1, PushMoves
  <2>3. \A x \in Incoming : Carried(x)' = Carried(x)
    BY <2>1, <2>2 DEF Carried, Live
  <2> QED
    BY <1>0, <1>1, <1>4, <2>1, <2>2, <2>3 DEF PushTypes
<1>5. CASE r \in Incoming /\ ReceiveStatusChanged(r)
  <2>1. /\ recvLoop = Nobody /\ recvLoop' = r /\ ended[r] > 0 /\ UNCHANGED push
        /\ ended' = [ended EXCEPT ![r] = @ - 1]
    BY <1>5 DEF ReceiveStatusChanged
  <2>2. ended' \in [Incoming -> Nat] /\ \A x \in Incoming : Carried(x)' = Carried(x)
    BY <1>0, <1>5, <2>1, ObexAssumption DEF Carried, Live, PushTypes
  <2> QED
    BY <1>0, <1>1, <1>5, <2>1, <2>2 DEF PushTypes
<1> QED
  BY <1>2, <1>3, <1>4, <1>5

\* A first file: the channel is new, and nothing else is under way, or the
\* overlap is noted.
LEMMA AcceptKeeps == ASSUME PushInv, NEW r \in Incoming, Accept(r) PROVE PushInv'
<1>0. PushTypes /\ MuHeld /\ SessionsCounted /\ OneToken
  BY DEF PushInv
<1>1. /\ push[r] = "agreed" /\ tokens' = 0
      /\ accepted' = [x \in DOMAIN accepted \cup {r} |-> IF x = r THEN 1 ELSE accepted[x]]
      /\ overlap' = (overlap \/ \E x \in Incoming \ {r} : Underway(x))
      /\ UNCHANGED <<acceptedMu, ended, recvLoop, receiveMu, settling, missed>>
  BY DEF Accept
<1>2. /\ push' \in [Incoming -> PushPc] /\ push'[r] = "connecting"
      /\ \A x \in Incoming \ {r} : push'[x] = push[x]
  BY PushMoves DEF Accept, PushPc
<1>3. acceptedMu = r /\ r \notin DOMAIN accepted /\ Carried(r) = 0 /\ settling[r] = 0
  BY <1>0, <1>1 DEF MuHeld, SessionsCounted, Holding
<1>4. /\ DOMAIN accepted' = DOMAIN accepted \cup {r} /\ accepted'[r] = 1
      /\ \A x \in DOMAIN accepted : x # r /\ accepted'[x] = accepted[x]
      /\ accepted' \in [DOMAIN accepted' -> Nat]
  BY <1>0, <1>1, <1>3 DEF PushTypes
<1>5. Carried(r)' = 1 /\ \A x \in Incoming \ {r} : Carried(x)' = Carried(x)
  BY <1>0, <1>1, <1>2, <1>3 DEF Carried, Live, PushTypes
<1>6. PushTypes'
  BY <1>0, <1>1, <1>2, <1>4 DEF PushTypes
<1>7. MuHeld'
  BY <1>0, <1>1, <1>2, <1>3, <1>4, ObexAssumption DEF MuHeld, Holding
<1>8. SessionsCounted'
  BY <1>0, <1>1, <1>3, <1>4, <1>5 DEF SessionsCounted
<1>9. ~overlap' => \A x \in Incoming \ {r} : Carried(x) = 0
  <2> SUFFICES ASSUME ~overlap', NEW x \in Incoming \ {r} PROVE Carried(x) = 0
    OBVIOUS
  <2>1. ~Underway(x)
    BY <1>1
  <2>2. push[x] # "connecting"
    BY <1>0, <1>3 DEF MuHeld, Holding
  <2> QED
    BY <1>0, <2>1, <2>2, CarriedType DEF Underway, Live
<1>10. OneToken'
  BY <1>1, <1>5, <1>9 DEF OneToken
<1> QED
  BY <1>6, <1>7, <1>8, <1>10 DEF PushInv

\* A further file takes the value that the one before has left.
LEMMA NextFileKeeps == ASSUME PushInv, NEW r \in Incoming, NextFile(r) PROVE PushInv'
<1>0. PushTypes /\ MuHeld /\ SessionsCounted /\ OneToken
  BY DEF PushInv
<1>1. /\ push[r] = "token" /\ tokens = 1 /\ tokens' = 0
      /\ accepted' = [accepted EXCEPT ![r] = @ + 1]
      /\ UNCHANGED <<acceptedMu, ended, recvLoop, receiveMu, settling, overlap, missed>>
  BY <1>0 DEF NextFile, PushTypes, obexHist
<1>2. /\ push' \in [Incoming -> PushPc] /\ push'[r] = "connecting"
      /\ \A x \in Incoming \ {r} : push'[x] = push[x]
  BY PushMoves DEF NextFile, PushPc
<1>3. acceptedMu = r /\ r \in DOMAIN accepted
  BY <1>0, <1>1 DEF MuHeld, Holding
<1>4. /\ DOMAIN accepted' = DOMAIN accepted /\ accepted'[r] = accepted[r] + 1
      /\ \A x \in DOMAIN accepted \ {r} : accepted'[x] = accepted[x]
      /\ accepted' \in [DOMAIN accepted' -> Nat]
  BY <1>0, <1>1, <1>3 DEF PushTypes
<1>5. Carried(r)' = Carried(r) + 1 /\ \A x \in Incoming \ {r} : Carried(x)' = Carried(x)
  BY <1>0, <1>1, <1>2 DEF Carried, Live, PushTypes
<1>6. PushTypes'
  BY <1>0, <1>1, <1>2, <1>4 DEF PushTypes
<1>7. MuHeld'
  BY <1>0, <1>1, <1>2, <1>3, <1>4, ObexAssumption DEF MuHeld, Holding
<1>8. SessionsCounted'
  <2> SUFFICES ASSUME NEW x \in Incoming
               PROVE  /\ x \in DOMAIN accepted =>
                         accepted'[x] > 0 /\ accepted'[x] >= Carried(x)' + settling[x]
                      /\ x \notin DOMAIN accepted => Carried(x)' = 0 /\ settling[x] = 0
    BY <1>1, <1>4 DEF SessionsCounted
  <2>1. /\ x \in DOMAIN accepted => accepted[x] > 0 /\ accepted[x] >= Carried(x) + settling[x]
        /\ x \notin DOMAIN accepted => Carried(x) = 0 /\ settling[x] = 0
        /\ Carried(x) \in Nat /\ settling[x] \in Nat
    BY <1>0, CarriedType DEF SessionsCounted
  <2>2. x \in DOMAIN accepted => accepted[x] \in Nat
    BY <1>0 DEF PushTypes
  <2> QED
    BY <1>3, <1>4, <1>5, <2>1, <2>2
<1>9. OneToken'
  BY <1>0, <1>1, <1>5 DEF OneToken
<1> QED
  BY <1>6, <1>7, <1>8, <1>9 DEF PushInv

\* The handlers are connected to the transfer, or to one that is over.
LEMMA ReceiveProgressKeeps == ASSUME PushInv, NEW r \in Incoming, ReceiveProgress(r) PROVE PushInv'
<1>0. PushTypes /\ MuHeld /\ SessionsCounted /\ OneToken
  BY DEF PushInv
<1>1. /\ push[r] = "connecting" /\ acceptedMu' = Nobody /\ missed' = (missed \/ r \in gone)
      /\ UNCHANGED <<accepted, tokens, ended, recvLoop, receiveMu, settling, overlap>>
  BY DEF ReceiveProgress
<1>2. PICK p \in PushPc : PushTo(r, p) /\ p = IF r \in gone THEN "aborted" ELSE "accepted"
  BY DEF ReceiveProgress, PushPc
<1>3. /\ push' \in [Incoming -> PushPc] /\ push'[r] = p
      /\ \A x \in Incoming \ {r} : push'[x] = push[x]
  BY <1>2, PushMoves
<1>4. acceptedMu = r
  BY <1>0, <1>1 DEF MuHeld, Holding
<1>5. PushTypes'
  BY <1>0, <1>1, <1>3 DEF PushTypes
<1>6. MuHeld'
  BY <1>0, <1>1, <1>2, <1>3, <1>4, ObexAssumption DEF MuHeld, Holding
<1>7. \A x \in Incoming : /\ Carried(x)' \in Nat /\ Carried(x)' <= Carried(x)
                          /\ r \notin gone => Carried(x)' = Carried(x)
  BY <1>0, <1>1, <1>2, <1>3 DEF Carried, Live, PushTypes
<1>8. SessionsCounted'
  <2> SUFFICES ASSUME NEW x \in Incoming
               PROVE  /\ x \in DOMAIN accepted =>
                         accepted[x] > 0 /\ accepted[x] >= Carried(x)' + settling[x]
                      /\ x \notin DOMAIN accepted => Carried(x)' = 0 /\ settling[x] = 0
    BY <1>1 DEF SessionsCounted
  <2>1. /\ x \in DOMAIN accepted => accepted[x] > 0 /\ accepted[x] >= Carried(x) + settling[x]
        /\ x \notin DOMAIN accepted => Carried(x) = 0 /\ settling[x] = 0
        /\ Carried(x) \in Nat /\ settling[x] \in Nat
    BY <1>0, CarriedType DEF SessionsCounted
  <2>2. x \in DOMAIN accepted => accepted[x] \in Nat
    BY <1>0 DEF PushTypes
  <2> QED
    BY <1>7, <2>1, <2>2
<1>9. OneToken'
  BY <1>0, <1>1, <1>7 DEF OneToken
<1> QED
  BY <1>5, <1>6, <1>8, <1>9 DEF PushInv

\* The handler puts a value into the channel, and its timer starts.
LEMMA SendTokenKeeps == ASSUME PushInv, SendToken PROVE PushInv'
<1>0. PushTypes /\ MuHeld /\ SessionsCounted /\ OneToken
  BY DEF PushInv
<1>1. /\ receiveMu /\ tokens' = 1 /\ receiveMu' = FALSE /\ recvLoop' = Nobody
      /\ settling' = [settling EXCEPT ![recvLoop] = @ + 1]
      /\ UNCHANGED <<push, acceptedMu, accepted, ended, overlap, missed>>
  BY DEF SendToken, obexHist
<1>2. PICK h \in Incoming : recvLoop = h
  BY <1>0, <1>1 DEF PushTypes
<1>3. /\ settling' \in [Incoming -> Nat] /\ settling'[h] = settling[h] + 1
      /\ \A x \in Incoming \ {h} : settling'[x] = settling[x]
  BY <1>0, <1>1, <1>2 DEF PushTypes
<1>4. PushTypes'
  BY <1>0, <1>1, <1>3 DEF PushTypes
<1>5. /\ Carried(h) = Carried(h)' + 1 /\ Carried(h)' \in Nat
      /\ \A x \in Incoming \ {h} : Carried(x)' = Carried(x)
  BY <1>0, <1>1, <1>2, <1>4, ObexAssumption DEF Carried, Live, PushTypes
<1>6. MuHeld'
  BY <1>0, <1>1 DEF MuHeld
<1>7. SessionsCounted'
  <2> SUFFICES ASSUME NEW x \in Incoming
               PROVE  /\ x \in DOMAIN accepted =>
                         accepted[x] > 0 /\ accepted[x] >= Carried(x)' + settling'[x]
                      /\ x \notin DOMAIN accepted => Carried(x)' = 0 /\ settling'[x] = 0
    BY <1>1 DEF SessionsCounted
  <2>1. /\ x \in DOMAIN accepted => accepted[x] > 0 /\ accepted[x] >= Carried(x) + settling[x]
        /\ x \notin DOMAIN accepted => Carried(x) = 0 /\ settling[x] = 0
        /\ Carried(x) \in Nat /\ settling[x] \in Nat
    BY <1>0, CarriedType DEF SessionsCounted
  <2> QED
    BY <1>3, <1>5, <2>1
<1>8. OneToken'
  <2> SUFFICES ASSUME ~overlap, ~missed PROVE \A x \in Incoming : Carried(x)' = 0
    BY <1>1 DEF OneToken
  <2>1. /\ \A x \in Incoming : Carried(x) <= 1 /\ Carried(x) \in Nat
        /\ \A x, y \in Incoming : Carried(x) > 0 /\ Carried(y) > 0 => x = y
    BY <1>0, CarriedType DEF OneToken
  <2> QED
    BY <1>5, <2>1
<1> QED
  BY <1>4, <1>6, <1>7, <1>8 DEF PushInv

\* The timer lowers the count of a session.
LEMMA SettleKeeps == ASSUME PushInv, NEW r \in Incoming, Settle(r) PROVE PushInv'
<1>0. PushTypes /\ MuHeld /\ SessionsCounted /\ OneToken
  BY DEF PushInv
<1>1. /\ settling[r] > 0 /\ acceptedMu = Nobody
      /\ settling' = [settling EXCEPT ![r] = @ - 1]
      /\ accepted' = IF accepted[r] = 1 THEN Restrict(accepted, DOMAIN accepted \ {r})
                                        ELSE [accepted EXCEPT ![r] = @ - 1]
      /\ UNCHANGED <<push, acceptedMu, tokens, ended, recvLoop, receiveMu, overlap, missed>>
  BY DEF Settle, obexHist
<1>2. /\ r \in DOMAIN accepted /\ accepted[r] >= Carried(r) + settling[r]
      /\ Carried(r) \in Nat /\ settling[r] \in Nat
  BY <1>0, <1>1, CarriedType DEF SessionsCounted
<1>3. \A x \in Incoming : Carried(x)' = Carried(x)
  BY <1>1 DEF Carried, Live
<1>4. /\ settling' \in [Incoming -> Nat] /\ settling'[r] = settling[r] - 1
      /\ \A x \in Incoming \ {r} : settling'[x] = settling[x]
  BY <1>0, <1>1, <1>2 DEF PushTypes
<1>5. /\ DOMAIN accepted' = IF accepted[r] = 1 THEN DOMAIN accepted \ {r} ELSE DOMAIN accepted
      /\ \A x \in DOMAIN accepted \ {r} : accepted'[x] = accepted[x]
      /\ accepted[r] # 1 => accepted'[r] = accepted[r] - 1
      /\ accepted' \in [DOMAIN accepted' -> Nat]
  <2>1. CASE accepted[r] = 1
    BY <1>0, <1>1, <2>1 DEF PushTypes, Restrict
  <2>2. CASE accepted[r] # 1
    BY <1>0, <1>1, <1>2, <2>2 DEF PushTypes
  <2> QED
    BY <2>1, <2>2
<1>6. PushTypes'
  BY <1>0, <1>1, <1>4, <1>5 DEF PushTypes
<1>7. MuHeld'
  <2>1. r \notin DOMAIN accepted' => push[r] # "token"
    BY <1>0, <1>1, ObexAssumption DEF MuHeld, Holding
  <2> QED
    BY <1>0, <1>1, <1>5, <2>1, ObexAssumption DEF MuHeld, Holding
<1>8. SessionsCounted'
  <2> SUFFICES ASSUME NEW x \in Incoming
               PROVE  /\ x \in DOMAIN accepted' =>
                         accepted'[x] > 0 /\ accepted'[x] >= Carried(x) + settling'[x]
                      /\ x \notin DOMAIN accepted' => Carried(x) = 0 /\ settling'[x] = 0
    BY <1>3 DEF SessionsCounted
  <2>1. /\ x \in DOMAIN accepted => accepted[x] > 0 /\ accepted[x] >= Carried(x) + settling[x]
        /\ x \notin DOMAIN accepted => Carried(x) = 0 /\ settling[x] = 0
        /\ Carried(x) \in Nat /\ settling[x] \in Nat
    BY <1>0, CarriedType DEF SessionsCounted
  <2>2. CASE x = r
    <3>1. accepted[r] \in Nat
      BY <1>0, <1>2 DEF PushTypes
    <3>2. CASE accepted[r] = 1
      BY <1>1, <1>2, <1>4, <1>5, <2>1, <2>2, <3>2
    <3>3. CASE accepted[r] # 1
      BY <1>1, <1>2, <1>4, <1>5, <2>1, <2>2, <3>1, <3>3
    <3> QED
      BY <3>2, <3>3
  <2>3. CASE x # r
    BY <1>4, <1>5, <2>1, <2>3
  <2> QED
    BY <2>2, <2>3
<1>9. OneToken'
  <2>1. DOMAIN accepted' # {} => DOMAIN accepted # {}
    BY <1>2
  <2> QED
    BY <1>0, <1>1, <1>3, <2>1 DEF OneToken
<1> QED
  BY <1>6, <1>7, <1>8, <1>9 DEF PushInv

LEMMA PushStep == PushInv /\ [ObexNext]_obexVars => PushInv'
<1> SUFFICES ASSUME PushInv, [ObexNext]_obexVars PROVE PushInv'
  OBVIOUS
<1>1. ASSUME UNCHANGED <<push, ended, settling, tokens, overlap, missed, recvLoop, acceptedMu,
                         accepted>>,
             receiveMu' = receiveMu \/ (receiveMu' = TRUE /\ recvLoop # Nobody)
      PROVE  PushInv'
  <2>0. receiveMu' \in BOOLEAN /\ (receiveMu' => recvLoop # Nobody)
    <3>1. receiveMu \in BOOLEAN /\ (receiveMu => recvLoop # Nobody)
      BY DEF PushInv, PushTypes
    <3>2. CASE receiveMu' = receiveMu
      BY <3>1, <3>2
    <3>3. CASE receiveMu' = TRUE /\ recvLoop # Nobody
      BY <3>3
    <3> QED
      BY <1>1, <3>2, <3>3
  <2>1. PushTypes' /\ MuHeld'
    <3>1. PushTypes'
      BY <1>1, <2>0 DEF PushInv, PushTypes
    <3>2. MuHeld'
      BY <1>1 DEF PushInv, MuHeld
    <3> QED
      BY <3>1, <3>2
  <2>2. \A x \in Incoming : Carried(x)' = Carried(x)
    BY <1>1 DEF Carried, Live
  <2> QED
    BY <1>1, <2>1, <2>2, CarriedStays
<1>2. CASE \/ \E s \in Outgoing : Sending(s) \/ SendFiles(s)
           \/ \E c \in Canceller : CancelLock(c) \/ CancelReturn(c)
           \/ \E s \in Outgoing, c \in Canceller : CancelTransferSession(c, s)
  <2>1. UNCHANGED recvVars
    BY <1>2 DEF Sending, SendFiles, DoSendFiles, SendFile, LastFileSent, ConnectStatus,
       TransferDone, CancelDelete, CancelTransfer, RemoveHandlers, SendFinished, SendEnds,
       StatusChanged, CancelReceived, CancelLock, CancelReturn, CancelTransferSession
  <2> QED
    BY <1>1, <2>1 DEF recvVars, obexHist
<1>3. CASE LockReceive \/ \E a \in {"receive", "decline"} : Answer(a)
  BY <1>1, <1>3 DEF LockReceive, Answer, obexHist
<1>4. CASE CancelClicked
  <2> DEFINE R == {r \in Incoming : push[r] = "receiving" /\ button[r] # "off"}
  <2>1. /\ TransfersEnd(R)
        /\ UNCHANGED <<acceptedMu, settling, tokens, receiveMu, overlap, missed, accepted, recvLoop>>
    BY <1>4 DEF CancelClicked, obexHist
  <2>2. R \in SUBSET Incoming /\ \A x \in R : push[x] = "receiving"
    OBVIOUS
  <2> QED
    BY <2>1, <2>2, TransferKeeps
<1>5. ASSUME NEW r \in Incoming, ReceiveEnds(r) PROVE PushInv'
  <2>1. /\ TransfersEnd({r}) /\ push[r] = "receiving"
        /\ UNCHANGED <<acceptedMu, settling, tokens, receiveMu, overlap, missed, accepted, recvLoop>>
    BY <1>5 DEF ReceiveEnds, obexHist
  <2>2. {r} \in SUBSET Incoming /\ \A x \in {r} : push[x] = "receiving"
    BY <2>1
  <2> QED
    BY <2>1, <2>2, TransferKeeps
<1>6. ASSUME NEW r \in Incoming, Abort(r) \/ Authorized(r) \/ ReceiveStatusChanged(r)
      PROVE  PushInv'
  <2>1. UNCHANGED <<acceptedMu, settling, tokens, receiveMu, overlap, missed, accepted>>
    BY <1>6 DEF Abort, Authorized, ReceiveStatusChanged, obexHist
  <2> QED
    BY <1>6, <2>1, TransferKeeps
<1>7. CASE UNCHANGED obexVars
  BY <1>1, <1>7 DEF obexVars, recvVars, obexHist
<1>8. ASSUME NEW r \in Incoming, Pushing(r) \/ AuthorizePush(r) \/ Abort(r) PROVE PushInv'
  BY <1>5, <1>6, <1>8, AskingKeeps, AcceptKeeps, NextFileKeeps, ReceiveProgressKeeps,
     SettleKeeps DEF Pushing
<1> QED
  BY <1>2, <1>3, <1>4, <1>7, <1>8, SendTokenKeeps DEF ObexNext, ObexProgress

(* AuthorizePush (bluetooth/obex_agent.go) is never left without anything  *)
(* that can move, for any number of sessions, files, calls and clicks,     *)
(* although it waits for the user and for the file before with             *)
(* acceptedSessionsMu held and the handler that ends the wait needs a      *)
(* place in receiveCh; excepted are sessions that were let in at a time    *)
(* and transfers that were over when their handlers were connected.        *)
THEOREM PushesCanAlwaysBeAnswered == ObexSpec => []PushCanBeAnswered
<1>1. PushInv => PushCanBeAnswered
  <2> SUFFICES ASSUME PushInv, ~overlap, ~missed PROVE PushCanBeAnswered
    BY DEF PushCanBeAnswered
  <2>0. PushTypes /\ MuHeld /\ OneToken
    BY DEF PushInv
  <2>1. receiveMu => tokens = 0
    <3> SUFFICES ASSUME receiveMu PROVE tokens = 0
      OBVIOUS
    <3>1. PICK h \in Incoming : recvLoop = h
      BY <2>0 DEF PushTypes
    <3>2. Carried(h) > 0
      BY <2>0, <3>1, CarriedType
    <3> QED
      BY <2>0, <3>2 DEF OneToken, PushTypes
  <2>2. ASSUME NEW r \in Incoming, push[r] = "token" PROVE TokenCanCome
    <3>1. DOMAIN accepted # {} /\ \A x \in Incoming : push[x] # "connecting"
      BY <2>0, <2>2 DEF MuHeld, Holding
    <3>2. CASE tokens = 1
      BY <3>2 DEF TokenCanCome
    <3>3. CASE \E x \in Incoming : Carried(x) > 0
      <4>1. PICK x \in Incoming : Live(x) \/ ended[x] > 0 \/ recvLoop = x
        BY <2>0, <3>3, CarriedType
      <4>2. CASE recvLoop # Nobody
        BY <2>1, <4>2 DEF TokenCanCome
      <4>3. CASE recvLoop = Nobody
        BY <3>1, <4>1, <4>3, ObexAssumption DEF TokenCanCome, Live
      <4> QED
        BY <4>2, <4>3
    <3> QED
      BY <2>0, <3>1, <3>2, <3>3 DEF OneToken
  <2>3. ASSUME NEW r \in Incoming, push[r] \in Holding PROVE HolderCanMove(r)
    BY <2>1, <2>2, <2>3 DEF HolderCanMove, Holding
  <2>4. acceptedMu # Nobody => HolderCanMove(acceptedMu)
    BY <2>0, <2>3 DEF PushTypes, MuHeld
  <2> QED
    BY <2>3, <2>4 DEF PushCanBeAnswered
<1> QED
  BY <1>1, PushInvInit, PushStep, PTL DEF ObexSpec

-----------------------------------------------------------------------------
(* The secret agent (SecretAgent).                                         *)

ReqPc == {"idle", "probe", "collect", "check", "spawn", "started", "dialog", "store", "read",
          "save", "purge", "wipe", "end"}
ReqConn == Conn \cup {NoReq.c}
ReqRec == [pc : ReqPc, c : ReqConn, snap : [Secret -> SecretFlag], new : BOOLEAN,
           sub : {"want", "prompt", "granted", "refused", "open"},
           ask : SUBSET Secret, got : SUBSET Secret,
           result : {"none", "error", "killed", "answered", "closed", "ok"}]
SecHist == [faults : Nat, overlap : SUBSET Conn, failed : SUBSET ReqConn, skipped : SUBSET Request,
            partly : SUBSET Request, deleted : SUBSET Conn]

SecTypes ==
  /\ nm \in [Conn -> SecretFlags]
  /\ keyring \in [Conn -> SUBSET Secret]
  /\ req \in [Request -> ReqRec]
  /\ secretTask \in [Conn -> Request \cup {NoRequest}]
  /\ saHist \in SecHist
  /\ dialog \subseteq Request

\* Where a call can be: only a call at the keyring waits for it, a process
\* runs for a call that waits for it, and a call that went well is over.
CallsRight ==
  \A r \in Request :
     /\ req[r].pc # "idle" => req[r].c \in Conn
     /\ req[r].sub # "want" => req[r].pc \in RingPhase
     /\ r \in dialog => req[r].pc \in {"started", "dialog"}
     /\ req[r].result = "ok" => req[r].pc = "end"

\* The secrets that must be there are asked for, then there, or excused.
Excused(r, k) == req[r].snap[k] = "agentOwned" /\ ~req[r].new /\ r \in saHist.partly
AnswerRight(r) ==
  /\ req[r].pc \in {"check", "spawn", "started", "dialog"} =>
        \A k \in Must : k \in req[r].ask \/ Excused(r, k)
  /\ (req[r].pc \in {"store", "read"} \/ req[r].result = "ok") /\ r \notin saHist.skipped =>
        \A k \in Must : k \in req[r].got \/ Excused(r, k)

\* Of a connection whose calls did not overlap: one call at a time, ...
OneCall ==
  \A r, s \in Request :
     Busy(r) /\ Busy(s) /\ req[r].c = req[s].c /\ req[r].c \notin saHist.overlap => r = s

\* ... which is the one with the dialog, ...
TaskRight ==
  \A c \in Conn \ saHist.overlap, r \in Request :
     /\ secretTask[c] = r => req[r].pc = "dialog" /\ req[r].c = c
     /\ r \in dialog /\ req[r].pc = "dialog" /\ req[r].c = c => secretTask[c] = r

\* ... and has the connection's data as they are, unless it deletes it.
SnapRight ==
  \A r \in Request : Busy(r) /\ req[r].c \notin saHist.overlap =>
     /\ req[r].pc = "wipe" <=> req[r].c \in saHist.deleted
     /\ req[r].pc # "wipe" => req[r].snap = nm[req[r].c]

\* The keyring is right unless the call that will make it right runs.
Wanted(c) == IF c \in saHist.deleted THEN {} ELSE Owned(nm[c])
RingRight ==
  \A c \in Conn \ (saHist.overlap \cup saHist.failed) :
     (\E r \in Request : req[r].c = c /\ Cleans(r)) \/ keyring[c] \subseteq Wanted(c)

SecInv ==
  /\ SecTypes /\ CallsRight /\ (\A r \in Request : AnswerRight(r)) /\ OneCall /\ TaskRight
  /\ SnapRight /\ RingRight

LEMMA SecInvInit == SecretInit => SecInv
<1> SUFFICES ASSUME SecretInit PROVE SecInv
  OBVIOUS
<1>1. NoReq \in ReqRec /\ NoReq.pc = "idle" /\ NoReq.sub = "want" /\ NoReq.result = "none"
  <2>1. NoReq.c \in ReqConn
    BY DEF ReqConn
  <2> QED
    BY <2>1 DEF NoReq, ReqRec, ReqPc, SecretFlag
<1>2. \A r \in Request : req[r] = NoReq
  BY DEF SecretInit
<1>3. saHist \in SecHist
  BY DEF SecretInit, SecHist
<1>4. SecTypes
  BY <1>1, <1>3 DEF SecretInit, SecTypes
<1>5. CallsRight
  BY <1>1, <1>2 DEF SecretInit, CallsRight
<1>7. \A r \in Request : AnswerRight(r)
  BY <1>1, <1>2 DEF AnswerRight
<1>8. OneCall /\ SnapRight
  BY <1>1, <1>2 DEF OneCall, SnapRight, Busy
<1>6. TaskRight /\ RingRight
  BY SecretAssumption DEF SecretInit, TaskRight, RingRight
<1> QED
  BY <1>4, <1>5, <1>6, <1>7, <1>8 DEF SecInv

(* A call goes on: it stays a call for its connection with the data it     *)
(* had, and nothing else happens to the calls.                             *)
SameCall(r) ==
  /\ req' \in [Request -> ReqRec]
  /\ \A x \in Request : x # r => req'[x] = req[x]
  /\ req'[r].c = req[r].c /\ req'[r].snap = req[r].snap /\ req'[r].new = req[r].new

HistoryGrows ==
  /\ saHist' \in SecHist
  /\ saHist'.overlap = saHist.overlap /\ saHist'.deleted = saHist.deleted
  /\ saHist.failed \subseteq saHist'.failed
  /\ saHist.skipped \subseteq saHist'.skipped
  /\ saHist.partly \subseteq saHist'.partly

\* Only the keyring of its connection changes, and it is right afterwards or
\* the call goes on cleaning.
RingOk(r) ==
  /\ keyring' \in [Conn -> SUBSET Secret]
  /\ \A c \in Conn : c # req[r].c => keyring'[c] = keyring[c]
  /\ req[r].c \notin saHist.overlap \cup saHist'.failed =>
        Cleans(r)' \/ keyring'[req[r].c] \subseteq Wanted(req[r].c)

LEMMA ExcusedStays ==
  ASSUME NEW r \in Request, SameCall(r), HistoryGrows, NEW x \in Request, NEW k, Excused(x, k)
  PROVE  Excused(x, k)'
<1>1. x \in saHist'.partly
  BY DEF HistoryGrows, Excused
<1>2. req'[x].snap = req[x].snap /\ req'[x].new = req[x].new
  BY DEF SameCall
<1> QED
  BY <1>1, <1>2 DEF Excused

(* A step of a call, except for what it does about its dialog.             *)
LEMMA CallGoesOn ==
  ASSUME SecInv, NEW r \in Request, Busy(r), SameCall(r), HistoryGrows, RingOk(r),
         UNCHANGED nm, dialog' \subseteq Request,
         secretTask' \in [Conn -> Request \cup {NoRequest}],
         req'[r].pc # "idle",
         req[r].pc = "wipe" <=> (req'[r].pc = "wipe" \/ (req[r].pc = "wipe" /\ req'[r].pc = "end")),
         CallsRight', AnswerRight(r)', TaskRight'
  PROVE  SecInv'
<1>1. SecTypes'
  BY DEF SecInv, SecTypes, SameCall, HistoryGrows, RingOk
<1>2. \A x \in Request : AnswerRight(x)'
  <2> SUFFICES ASSUME NEW x \in Request, x # r PROVE AnswerRight(x)'
    OBVIOUS
  <2>1. req'[x] = req[x] /\ AnswerRight(x) /\ (x \notin saHist'.skipped => x \notin saHist.skipped)
    BY DEF SameCall, HistoryGrows, SecInv
  <2>2. \A k \in Must : Excused(x, k) => Excused(x, k)'
    BY ExcusedStays
  <2> QED
    BY <2>1, <2>2 DEF AnswerRight
<1>3. \A x \in Request : (Busy(x)' => Busy(x)) /\ req'[x].c = req[x].c
  BY DEF Busy, SameCall
<1>4. OneCall'
  BY <1>3 DEF SecInv, OneCall, HistoryGrows
<1>5. SnapRight'
  BY <1>3 DEF SecInv, SnapRight, HistoryGrows, SameCall, Busy
<1>6. RingRight'
  <2> SUFFICES ASSUME NEW c \in Conn, c \notin saHist'.overlap, c \notin saHist'.failed
               PROVE  (\E x \in Request : req[x].c = c /\ Cleans(x))' \/ (keyring[c] \subseteq Wanted(c))'
    BY DEF RingRight
  <2>1. Wanted(c)' = Wanted(c) /\ c \notin saHist.overlap \cup saHist.failed
    BY DEF Wanted, HistoryGrows
  <2>2. CASE c = req[r].c
    BY <1>3, <2>1, <2>2 DEF RingOk
  <2>3. CASE c # req[r].c
    <3>1. keyring'[c] = keyring[c]
      BY <2>3 DEF RingOk
    <3>2. ASSUME NEW x \in Request, req[x].c = c, Cleans(x) PROVE req'[x].c = c /\ Cleans(x)'
      BY <2>3, <3>2 DEF SameCall, Cleans
    <3> QED
      BY <2>1, <3>1, <3>2 DEF SecInv, RingRight
  <2> QED
    BY <2>2, <2>3
<1> QED
  BY <1>1, <1>2, <1>4, <1>5, <1>6 DEF SecInv

(* The keyring stays, and a call that cleans goes on or has failed.        *)
LEMMA RingStays ==
  ASSUME SecInv, NEW r \in Request, Busy(r), HistoryGrows, UNCHANGED keyring,
         Cleans(r) => Cleans(r)' \/ req[r].c \in saHist'.failed
  PROVE  RingOk(r)
<1>1. keyring \in [Conn -> SUBSET Secret] /\ req[r].c \in Conn
  BY DEF SecInv, SecTypes, CallsRight, Busy
<1>2. ASSUME req[r].c \notin saHist.overlap \cup saHist'.failed
      PROVE  Cleans(r)' \/ keyring[req[r].c] \subseteq Wanted(req[r].c)
  <2>1. req[r].c \notin saHist.overlap \cup saHist.failed
    BY <1>2 DEF HistoryGrows
  <2>2. ASSUME NEW x \in Request, req[x].c = req[r].c, Cleans(x) PROVE x = r
    BY <1>2, <2>2 DEF SecInv, OneCall, Busy, Cleans
  <2> QED
    BY <1>1, <1>2, <2>1, <2>2 DEF SecInv, RingRight
<1> QED
  BY <1>1, <1>2 DEF RingOk

(* A step of a call that has no dialog and gets none.                      *)
LEMMA NoDialogStep ==
  ASSUME SecInv, NEW r \in Request, Busy(r), SameCall(r), HistoryGrows, RingOk(r),
         UNCHANGED <<nm, dialog, secretTask>>,
         req[r].pc \notin {"started", "dialog"}, req'[r].pc \notin {"idle", "started", "dialog"},
         req[r].pc = "wipe" <=> (req'[r].pc = "wipe" \/ (req[r].pc = "wipe" /\ req'[r].pc = "end")),
         req'[r].sub # "want" => req'[r].pc \in RingPhase,
         req'[r].result = "ok" => req'[r].pc = "end",
         AnswerRight(r)'
  PROVE  SecInv'
<1>1. CallsRight'
  BY DEF SecInv, CallsRight, SameCall, Busy
<1>2. TaskRight'
  BY DEF SecInv, TaskRight, CallsRight, SameCall, HistoryGrows
<1>3. dialog' \subseteq Request /\ secretTask' \in [Conn -> Request \cup {NoRequest}]
  BY DEF SecInv, SecTypes
<1> QED
  BY <1>1, <1>2, <1>3, CallGoesOn

(* Only the progress of unlocking changes.                                 *)
LEMMA SubStep ==
  ASSUME SecInv, req' \in [Request -> ReqRec],
         \A r \in Request : /\ req'[r].pc = req[r].pc /\ req'[r].c = req[r].c
                            /\ req'[r].snap = req[r].snap /\ req'[r].new = req[r].new
                            /\ req'[r].ask = req[r].ask /\ req'[r].got = req[r].got
                            /\ req'[r].result = req[r].result
                            /\ req'[r].sub # "want" => req[r].pc \in RingPhase,
         UNCHANGED <<nm, keyring, dialog, secretTask>>, HistoryGrows,
         UNCHANGED <<saHist.skipped, saHist.partly, saHist.failed>>
  PROVE  SecInv'
<1>1. SecTypes' /\ CallsRight'
  BY DEF SecInv, SecTypes, CallsRight, HistoryGrows
<1>2. \A r \in Request : AnswerRight(r)'
  BY DEF SecInv, AnswerRight, Excused
<1>3. OneCall' /\ TaskRight' /\ SnapRight'
  BY DEF SecInv, OneCall, TaskRight, SnapRight, Busy, HistoryGrows
<1>4. RingRight'
  BY DEF SecInv, RingRight, Cleans, Wanted, HistoryGrows
<1> QED
  BY <1>1, <1>2, <1>3, <1>4 DEF SecInv

-----------------------------------------------------------------------------
LEMMA ReqSet ==
  ASSUME SecInv, NEW r \in Request, NEW q \in ReqRec, req' = [req EXCEPT ![r] = q],
         q.c = req[r].c, q.snap = req[r].snap, q.new = req[r].new
  PROVE  SameCall(r) /\ req'[r] = q
BY DEF SecInv, SecTypes, SameCall

(* Goes: a call moves on.                                                  *)
LEMMA GoesFacts ==
  ASSUME SecInv, NEW r \in Request, NEW p \in ReqPc, Goes(r, p)
  PROVE  /\ SameCall(r)
         /\ req'[r].pc = p /\ req'[r].sub = "want" /\ req'[r].ask = req[r].ask
         /\ req'[r].got = req[r].got /\ req'[r].result = req[r].result
<1> DEFINE q == [req[r] EXCEPT !.pc = p, !.sub = "want"]
<1>1. req[r] \in ReqRec /\ req \in [Request -> ReqRec]
  BY DEF SecInv, SecTypes
<1>2. req' = [req EXCEPT ![r] = q]
  BY <1>1 DEF Goes
<1>3. /\ q \in ReqRec /\ q.c = req[r].c /\ q.snap = req[r].snap /\ q.new = req[r].new
      /\ q.pc = p /\ q.sub = "want" /\ q.ask = req[r].ask /\ q.got = req[r].got
      /\ q.result = req[r].result
  BY <1>1 DEF ReqRec
<1> HIDE DEF q
<1> QED
  BY <1>2, <1>3, ReqSet

LEMMA HistoryStays == ASSUME SecInv, UNCHANGED saHist PROVE HistoryGrows
BY DEF SecInv, SecTypes, HistoryGrows

LEMMA HistoryFailed ==
  ASSUME SecInv, NEW r \in Request, saHist' = Failed(r, saHist) \/ ItemError(r)
  PROVE  HistoryGrows /\ (Cleans(r) => req[r].c \in saHist'.failed)
<1>1. saHist \in SecHist /\ req[r].c \in ReqConn
  BY DEF SecInv, SecTypes, ReqRec
<1>2. \A h \in SecHist : /\ Failed(r, h) \in SecHist
                         /\ Cleans(r) => req[r].c \in Failed(r, h).failed
                         /\ Failed(r, h).overlap = h.overlap /\ Failed(r, h).deleted = h.deleted
                         /\ h.failed \subseteq Failed(r, h).failed
                         /\ Failed(r, h).skipped = h.skipped /\ Failed(r, h).partly = h.partly
  BY <1>1 DEF SecHist, Failed
<1>3. CASE saHist' = Failed(r, saHist)
  BY <1>1, <1>2, <1>3 DEF HistoryGrows
<1>4. CASE ItemError(r)
  <2> DEFINE h == [saHist EXCEPT !.faults = saHist.faults + 1]
  <2>1. /\ h \in SecHist /\ h.overlap = saHist.overlap /\ h.deleted = saHist.deleted
        /\ h.failed = saHist.failed /\ h.skipped = saHist.skipped /\ h.partly = saHist.partly
    BY <1>1 DEF SecHist
  <2>2. saHist' = Failed(r, h)
    BY <1>4 DEF ItemError
  <2> HIDE DEF h
  <2> QED
    BY <1>2, <2>1, <2>2 DEF HistoryGrows
<1> QED
  BY <1>3, <1>4

LEMMA UnlockingKeeps ==
  ASSUME SecInv, NEW r \in Request, NEW b \in BOOLEAN,
         Unlocked(r) \/ CallUnlock(r, b) \/ Completed(r, b)
  PROVE  SecInv'
<1>1. PICK u \in {"open", "prompt", "refused", "granted"} :
        req' = [req EXCEPT ![r].sub = u] /\ req[r].pc \in RingPhase
  <2>1. req[r].pc \in RingPhase
    BY DEF SecInv, CallsRight, Unlocked, CallUnlock, Completed
  <2>2. CASE b = TRUE
    BY <2>1, <2>2 DEF Unlocked, CallUnlock, Completed
  <2>3. CASE b = FALSE
    BY <2>1, <2>3 DEF Unlocked, CallUnlock, Completed
  <2> QED
    BY <2>2, <2>3
<1>2. UNCHANGED <<nm, keyring, dialog, secretTask, saHist>>
  BY DEF Unlocked, CallUnlock, Completed
<1>3. req \in [Request -> ReqRec]
  BY DEF SecInv, SecTypes
<1>4. req' \in [Request -> ReqRec]
  BY <1>1, <1>3 DEF ReqRec
<1>5. \A x \in Request :
         /\ req'[x].pc = req[x].pc /\ req'[x].c = req[x].c
         /\ req'[x].snap = req[x].snap /\ req'[x].new = req[x].new
         /\ req'[x].ask = req[x].ask /\ req'[x].got = req[x].got
         /\ req'[x].result = req[x].result
         /\ req'[x].sub # "want" => req[x].pc \in RingPhase
  BY <1>1, <1>3 DEF ReqRec, SecInv, CallsRight
<1> QED
  BY <1>2, <1>4, <1>5, SubStep, HistoryStays

LEMMA ServiceExitsKeeps == ASSUME SecInv, ServiceExits PROVE SecInv'
<1>1. req \in [Request -> ReqRec] /\ saHist \in SecHist
  BY DEF SecInv, SecTypes
<1>2. \A x \in Request : req'[x] = IF req[x].sub = "prompt" THEN [req[x] EXCEPT !.sub = "refused"]
                                   ELSE req[x]
  BY DEF ServiceExits
<1>3. req' \in [Request -> ReqRec]
  <2>1. \A x \in Request : [req[x] EXCEPT !.sub = "refused"] \in ReqRec
    BY <1>1 DEF ReqRec
  <2> QED
    BY <1>1, <2>1 DEF ServiceExits
<1>4. \A x \in Request :
         /\ req'[x].pc = req[x].pc /\ req'[x].c = req[x].c
         /\ req'[x].snap = req[x].snap /\ req'[x].new = req[x].new
         /\ req'[x].ask = req[x].ask /\ req'[x].got = req[x].got
         /\ req'[x].result = req[x].result
         /\ req'[x].sub # "want" => req[x].pc \in RingPhase
  BY <1>1, <1>2 DEF ReqRec, SecInv, CallsRight
<1>5. HistoryGrows /\ UNCHANGED <<saHist.skipped, saHist.partly, saHist.failed>>
  <2>1. saHist' = [saHist EXCEPT !.faults = saHist.faults + 1] /\ saHist.faults + 1 \in Nat
    BY <1>1 DEF ServiceExits, SecHist
  <2> QED
    BY <1>1, <2>1 DEF SecHist, HistoryGrows
<1>6. UNCHANGED <<nm, keyring, dialog, secretTask>>
  BY DEF ServiceExits
<1> QED
  BY <1>3, <1>4, <1>5, <1>6, SubStep

(* An error of unlocking.                                                  *)
LEMMA RefusedKeeps ==
  ASSUME SecInv, NEW r \in Request, req[r].pc \in RingPhase,
         req' = [req EXCEPT ![r] = Refused(req[r])],
         saHist' = Failed(r, saHist),
         UNCHANGED <<nm, keyring, dialog, secretTask>>
  PROVE  SecInv'
<1> DEFINE q == Refused(req[r])
<1>1. req[r] \in ReqRec
  BY DEF SecInv, SecTypes
<1>2. /\ q \in ReqRec /\ q.c = req[r].c /\ q.snap = req[r].snap /\ q.new = req[r].new
      /\ q.sub = "want" /\ q.got = req[r].got
      /\ \/ req[r].pc = "store" /\ q.pc = "read" /\ q.result = req[r].result
         \/ req[r].pc # "store" /\ q.pc = "end" /\ q.result = "error"
  <2>1. CASE req[r].pc = "store"
    BY <1>1, <2>1 DEF Refused, ReqRec, ReqPc
  <2>2. CASE req[r].pc # "store"
    BY <1>1, <2>2 DEF Refused, Fails, ReqRec, ReqPc
  <2> QED
    BY <2>1, <2>2
<1> HIDE DEF q
<1>3. SameCall(r) /\ req'[r] = q
  BY <1>2, ReqSet DEF q
<1>4. HistoryGrows /\ (Cleans(r) => req[r].c \in saHist'.failed)
  BY HistoryFailed
<1>5. Busy(r) /\ req[r].pc \notin {"started", "dialog"}
  BY DEF Busy, RingPhase
<1>6. RingOk(r)
  BY <1>4, <1>5, RingStays
<1>7. AnswerRight(r)'
  <2>1. \A k \in Must : Excused(r, k) => Excused(r, k)'
    BY <1>3, <1>4, ExcusedStays
  <2>2. r \notin saHist'.skipped => r \notin saHist.skipped
    BY <1>4 DEF HistoryGrows
  <2>3. AnswerRight(r) /\ (req[r].result = "ok" => req[r].pc = "end")
    BY DEF SecInv, CallsRight
  <2> QED
    BY <1>2, <1>3, <2>1, <2>2, <2>3 DEF AnswerRight
<1>8. req[r].result = "ok" => req[r].pc = "end"
  BY DEF SecInv, CallsRight
<1> QED
  BY <1>2, <1>3, <1>4, <1>5, <1>6, <1>7, <1>8, NoDialogStep DEF RingPhase

LEMMA UnlockEnds == ASSUME SecInv, NEW r \in Request, UnlockFails(r) \/ UnlockReturns(r) PROVE SecInv'
<1>1. req[r].pc \in RingPhase /\ UNCHANGED <<nm, keyring, dialog, secretTask>>
  BY DEF UnlockFails, UnlockReturns, SecInv, CallsRight
<1>2. CASE UnlockFails(r)
  <2>1. /\ req' = [req EXCEPT ![r] = Refused(req[r])]
        /\ saHist' = Failed(r, saHist)
    BY <1>2 DEF UnlockFails, SecInv, SecTypes
  <2> QED
    BY <1>1, <2>1, RefusedKeeps
<1>3. CASE UnlockReturns(r) /\ req[r].sub = "refused"
  <2>1. /\ req' = [req EXCEPT ![r] = Refused(req[r])]
        /\ saHist' = Failed(r, saHist)
    BY <1>3 DEF UnlockReturns, SecInv, SecTypes
  <2> QED
    BY <1>1, <2>1, RefusedKeeps
<1>4. CASE UnlockReturns(r) /\ req[r].sub = "granted"
  <2>1. req' = [req EXCEPT ![r].sub = "open"] /\ req \in [Request -> ReqRec]
    BY <1>4 DEF UnlockReturns, SecInv, SecTypes
  <2>2. saHist' = saHist
    BY <1>4 DEF UnlockReturns
  <2>3. req' \in [Request -> ReqRec]
    BY <2>1, SMTT(20) DEF ReqRec
  <2>4. \A x \in Request :
           /\ req'[x].pc = req[x].pc /\ req'[x].c = req[x].c
           /\ req'[x].snap = req[x].snap /\ req'[x].new = req[x].new
           /\ req'[x].ask = req[x].ask /\ req'[x].got = req[x].got
           /\ req'[x].result = req[x].result
           /\ req'[x].sub # "want" => req[x].pc \in RingPhase
    BY <1>1, <2>1 DEF ReqRec, SecInv, CallsRight
  <2> QED
    BY <1>1, <2>2, <2>3, <2>4, SubStep, HistoryStays
<1> QED
  BY <1>2, <1>3, <1>4 DEF UnlockReturns

-----------------------------------------------------------------------------
LEMMA CollectKeeps == ASSUME SecInv, NEW r \in Request, Collect(r) PROVE SecInv'
<1> DEFINE ring == keyring[req[r].c]
           ask == AskItems(r, ring)
           p == IF ask = {} THEN "read" ELSE "check"
           q == [req[r] EXCEPT !.pc = p, !.sub = "want", !.ask = ask]
<1>1. req[r] \in ReqRec /\ req \in [Request -> ReqRec] /\ saHist \in SecHist
  BY DEF SecInv, SecTypes
<1>2. req[r].pc \in {"probe", "collect"} /\ UNCHANGED <<nm, keyring, dialog, secretTask>>
  BY DEF Collect, Opens
<1>3. req' = [req EXCEPT ![r] = q]
  BY <1>1 DEF Collect
<1>4. /\ saHist' = [saHist EXCEPT !.partly = saHist.partly \cup (IF ring = {} THEN {} ELSE {r})]
      /\ ring # {} => r \in saHist'.partly
  <2>1. CASE ring = {}
    BY <1>1, <2>1 DEF Collect, SecHist
  <2>2. CASE ring # {}
    BY <1>1, <2>2 DEF Collect, SecHist
  <2> QED
    BY <2>1, <2>2
<1>5. HistoryGrows /\ saHist'.skipped = saHist.skipped
  <2> DEFINE P == saHist.partly \cup (IF ring = {} THEN {} ELSE {r})
  <2>1. P \in SUBSET Request /\ saHist.partly \subseteq P
    BY <1>1 DEF SecHist
  <2>2. saHist' = [saHist EXCEPT !.partly = P]
    BY <1>4
  <2> HIDE DEF P
  <2> QED
    BY <1>1, <2>1, <2>2 DEF HistoryGrows, SecHist
<1>6. \A k \in Must : k \in ask \/ (req[r].snap[k] = "agentOwned" /\ ~req[r].new /\ ring # {})
  <2>1. \A k \in Must : req[r].snap[k] \in SecretFlag
    BY <1>1, SecretAssumption DEF ReqRec
  <2> QED
    BY <2>1 DEF AskItems, SecretFlag
<1>7. ask \in SUBSET Secret /\ p \in {"read", "check"} /\ (p = "read" => ask = {})
  BY SecretAssumption DEF AskItems
<1> HIDE DEF ask, p, ring
<1>8. /\ q \in ReqRec /\ q.c = req[r].c /\ q.snap = req[r].snap /\ q.new = req[r].new
      /\ q.pc = p /\ q.sub = "want" /\ q.ask = ask /\ q.result = req[r].result
  BY <1>1, <1>7 DEF ReqRec, ReqPc
<1> HIDE DEF q
<1>9. SameCall(r) /\ req'[r] = q
  BY <1>3, <1>8, ReqSet
<1>10. Busy(r) /\ req[r].result # "ok"
  BY <1>2 DEF SecInv, CallsRight, Busy
<1>11. AnswerRight(r)'
  <2>1. \A k \in Must : k \in ask \/ Excused(r, k)'
    BY <1>4, <1>6, <1>8, <1>9 DEF Excused
  <2> QED
    BY <1>7, <1>8, <1>9, <1>10, <2>1 DEF AnswerRight
<1>12. RingOk(r)
  BY <1>2, <1>5, <1>10, RingStays DEF Cleans
<1> QED
  BY <1>2, <1>5, <1>7, <1>8, <1>9, <1>10, <1>11, <1>12, NoDialogStep

LEMMA DialogExistsKeeps == ASSUME SecInv, NEW r \in Request, DialogExists(r) PROVE SecInv'
<1>1. /\ req[r].pc = "check" /\ UNCHANGED <<nm, keyring, dialog, secretTask>>
      /\ saHist \in SecHist
  BY DEF DialogExists, SecInv, SecTypes
<1>2. Busy(r) /\ req[r].result # "ok"
  BY <1>1 DEF SecInv, CallsRight, Busy
<1>3. ASSUME NEW p \in {"read", "spawn"}, Goes(r, p), HistoryGrows,
             p = "read" => r \in saHist'.skipped
      PROVE  SecInv'
  <2>1. /\ SameCall(r)
        /\ req'[r].pc = p /\ req'[r].sub = "want" /\ req'[r].ask = req[r].ask
        /\ req'[r].got = req[r].got /\ req'[r].result = req[r].result
    BY <1>3, GoesFacts DEF ReqPc
  <2>2. \A k \in Must : Excused(r, k) => Excused(r, k)'
    BY <1>3, <2>1, ExcusedStays
  <2>3. AnswerRight(r)'
    <3>1. AnswerRight(r)
      BY DEF SecInv
    <3> QED
      BY <1>1, <1>2, <1>3, <2>1, <2>2, <3>1 DEF AnswerRight
  <2>4. RingOk(r)
    BY <1>1, <1>2, <1>3, RingStays DEF Cleans
  <2> QED
    BY <1>1, <1>2, <1>3, <2>1, <2>3, <2>4, NoDialogStep
<1>4. CASE dialog # {}
  <2>1. Goes(r, "read") /\ saHist' = [saHist EXCEPT !.skipped = @ \cup {r}]
    BY <1>4 DEF DialogExists
  <2>2. HistoryGrows /\ r \in saHist'.skipped
    BY <1>1, <2>1 DEF HistoryGrows, SecHist
  <2> QED
    BY <1>3, <2>1, <2>2
<1>5. CASE dialog = {}
  <2>1. Goes(r, "spawn") /\ saHist' = saHist
    BY <1>5 DEF DialogExists
  <2> QED
    BY <1>3, <2>1, HistoryStays
<1> QED
  BY <1>4, <1>5

\* A call that fails is over.
LEMMA FailsFacts ==
  ASSUME SecInv, NEW r \in Request, req' = [req EXCEPT ![r] = Fails(req[r])]
  PROVE  /\ SameCall(r)
         /\ req'[r].pc = "end" /\ req'[r].sub = "want" /\ req'[r].result = "error"
<1>1. req[r] \in ReqRec
  BY DEF SecInv, SecTypes
<1>2. /\ Fails(req[r]) \in ReqRec /\ Fails(req[r]).c = req[r].c
      /\ Fails(req[r]).snap = req[r].snap /\ Fails(req[r]).new = req[r].new
      /\ Fails(req[r]).pc = "end" /\ Fails(req[r]).sub = "want" /\ Fails(req[r]).result = "error"
  BY <1>1 DEF ReqRec, ReqPc, Fails
<1> QED
  BY <1>2, ReqSet

LEMMA StartDialogKeeps ==
  ASSUME SecInv, NEW r \in Request, NEW started \in BOOLEAN, StartDialog(r, started)
  PROVE  SecInv'
<1>1. /\ req[r].pc = "spawn" /\ UNCHANGED <<nm, keyring, secretTask, saHist>>
      /\ req \in [Request -> ReqRec]
  BY DEF StartDialog, SecInv, SecTypes
<1>2. Busy(r) /\ req[r].result # "ok" /\ req[r].c \in Conn
  BY <1>1 DEF SecInv, CallsRight, Busy
<1>3. HistoryGrows
  BY <1>1, HistoryStays
<1>4. RingOk(r)
  BY <1>1, <1>2, <1>3, RingStays DEF Cleans
<1>5. CASE started
  <2>1. Goes(r, "started") /\ dialog' = dialog \cup {r}
    BY <1>5 DEF StartDialog
  <2>2. /\ SameCall(r)
        /\ req'[r].pc = "started" /\ req'[r].sub = "want" /\ req'[r].ask = req[r].ask
        /\ req'[r].got = req[r].got /\ req'[r].result = req[r].result
    BY <2>1, GoesFacts DEF ReqPc
  <2>3. AnswerRight(r)'
    <3>1. \A k \in Must : Excused(r, k) => Excused(r, k)'
      BY <1>3, <2>2, ExcusedStays
    <3>2. AnswerRight(r)
      BY DEF SecInv
    <3> QED
      BY <1>1, <1>2, <2>2, <3>1, <3>2 DEF AnswerRight
  <2>4. CallsRight'
    BY <1>1, <1>2, <2>1, <2>2 DEF SecInv, CallsRight, SameCall
  <2>5. TaskRight'
    BY <1>1, <2>1, <2>2 DEF SecInv, TaskRight, SameCall
  <2>6. dialog' \subseteq Request /\ secretTask' \in [Conn -> Request \cup {NoRequest}]
    BY <1>1, <2>1 DEF SecInv, SecTypes
  <2> QED
    BY <1>1, <1>2, <1>3, <1>4, <2>2, <2>3, <2>4, <2>5, <2>6, CallGoesOn
<1>6. CASE ~started
  <2>1. req' = [req EXCEPT ![r] = Fails(req[r])] /\ dialog' = dialog
    BY <1>1, <1>6 DEF StartDialog
  <2>2. /\ SameCall(r)
        /\ req'[r].pc = "end" /\ req'[r].sub = "want" /\ req'[r].result = "error"
    BY <2>1, FailsFacts
  <2>3. AnswerRight(r)'
    BY <2>2 DEF AnswerRight
  <2> QED
    BY <1>1, <1>2, <1>3, <1>4, <2>1, <2>2, <2>3, NoDialogStep
<1> QED
  BY <1>5, <1>6

LEMMA AddTaskKeeps == ASSUME SecInv, NEW r \in Request, AddSaveSecretsTask(r) PROVE SecInv'
<1>1. /\ req[r].pc = "started" /\ Goes(r, "dialog")
      /\ secretTask' = [secretTask EXCEPT ![req[r].c] = r]
      /\ UNCHANGED <<nm, keyring, dialog, saHist>>
  BY DEF AddSaveSecretsTask
<1>2. Busy(r) /\ req[r].result # "ok" /\ req[r].c \in Conn
  BY <1>1 DEF SecInv, CallsRight, Busy
<1>3. /\ SameCall(r)
      /\ req'[r].pc = "dialog" /\ req'[r].sub = "want" /\ req'[r].ask = req[r].ask
      /\ req'[r].got = req[r].got /\ req'[r].result = req[r].result
  BY <1>1, GoesFacts DEF ReqPc
<1>4. HistoryGrows
  BY <1>1, HistoryStays
<1>5. AnswerRight(r)'
  <2>1. \A k \in Must : Excused(r, k) => Excused(r, k)'
    BY <1>3, <1>4, ExcusedStays
  <2>2. AnswerRight(r)
    BY DEF SecInv
  <2> QED
    BY <1>1, <1>2, <1>3, <2>1, <2>2 DEF AnswerRight
<1>6. RingOk(r)
  BY <1>1, <1>2, <1>4, RingStays DEF Cleans
<1>7. CallsRight'
  BY <1>1, <1>2, <1>3 DEF SecInv, CallsRight, SameCall
<1>8. /\ secretTask' \in [Conn -> Request \cup {NoRequest}] /\ secretTask'[req[r].c] = r
      /\ \A c \in Conn : c # req[r].c => secretTask'[c] = secretTask[c]
      /\ dialog' \subseteq Request
  BY <1>1, <1>2 DEF SecInv, SecTypes
<1>9. TaskRight'
  <2> SUFFICES ASSUME NEW c \in Conn, c \notin saHist.overlap, NEW x \in Request
               PROVE  /\ secretTask'[c] = x => req'[x].pc = "dialog" /\ req'[x].c = c
                      /\ x \in dialog' /\ req'[x].pc = "dialog" /\ req'[x].c = c => secretTask'[c] = x
    BY <1>1 DEF TaskRight
  <2>1. CASE x = r
    BY <1>1, <1>3, <1>8, <2>1 DEF SecInv, TaskRight, SameCall
  <2>2. CASE x # r
    <3>1. req'[x] = req[x] /\ (x \in dialog' => x \in dialog)
      BY <1>1, <1>3, <2>2 DEF SameCall
    <3>2. c = req[r].c => ~(x \in dialog /\ req[x].c = c)
      BY <1>2, <2>2 DEF SecInv, OneCall, CallsRight, Busy
    <3> QED
      BY <1>8, <2>2, <3>1, <3>2 DEF SecInv, TaskRight
  <2> QED
    BY <2>1, <2>2
<1> QED
  BY <1>1, <1>2, <1>3, <1>4, <1>5, <1>6, <1>7, <1>8, <1>9, CallGoesOn

(* A dialog ends, by itself or killed.                                     *)
LEMMA DialogOver ==
  ASSUME SecInv, NEW r \in Request, r \in dialog, dialog' = dialog \ {r},
         NEW a \in {"answered", "closed", "killed"}, req' = [req EXCEPT ![r].result = a],
         UNCHANGED <<nm, keyring, secretTask, saHist>>
  PROVE  SecInv'
<1> DEFINE q == [req[r] EXCEPT !.result = a]
<1>1. req[r] \in ReqRec /\ req \in [Request -> ReqRec]
      /\ req[r].pc \in {"started", "dialog"}
  BY DEF SecInv, SecTypes, CallsRight
<1>2. req' = [req EXCEPT ![r] = q]
  BY <1>1
<1>3. /\ q \in ReqRec /\ q.c = req[r].c /\ q.snap = req[r].snap /\ q.new = req[r].new
      /\ q.pc = req[r].pc /\ q.sub = req[r].sub /\ q.ask = req[r].ask /\ q.result = a
  BY <1>1 DEF ReqRec
<1> HIDE DEF q
<1>4. SameCall(r) /\ req'[r] = q /\ HistoryGrows
  BY <1>2, <1>3, ReqSet, HistoryStays
<1>5. Busy(r)
  BY <1>1 DEF Busy
<1>6. RingOk(r)
  BY <1>1, <1>4, <1>5, RingStays DEF Cleans
<1>7. AnswerRight(r)'
  <2>1. \A k \in Must : Excused(r, k) => Excused(r, k)'
    BY <1>4, ExcusedStays
  <2>2. AnswerRight(r)
    BY DEF SecInv
  <2> QED
    BY <1>1, <1>3, <1>4, <2>1, <2>2 DEF AnswerRight
<1>8. CallsRight'
  BY <1>1, <1>3, <1>4 DEF SecInv, CallsRight, SameCall
<1>9. TaskRight'
  BY <1>1, <1>3, <1>4 DEF SecInv, TaskRight, SameCall
<1>10. dialog' \subseteq Request /\ secretTask' \in [Conn -> Request \cup {NoRequest}]
  BY DEF SecInv, SecTypes
<1> QED
  BY <1>1, <1>3, <1>4, <1>5, <1>6, <1>7, <1>8, <1>9, <1>10, CallGoesOn

LEMMA WaitReturnsKeeps == ASSUME SecInv, NEW r \in Request, WaitReturns(r) PROVE SecInv'
<1> DEFINE answered == req[r].result = "answered"
           p == IF ~answered THEN "end"
                ELSE IF req[r].ask \cap Owned(req[r].snap) # {} THEN "store" ELSE "read"
           g == IF answered THEN req[r].ask ELSE {}
           q == [req[r] EXCEPT !.pc = p, !.got = g]
<1>1. req[r] \in ReqRec /\ req \in [Request -> ReqRec]
  BY DEF SecInv, SecTypes
<1>2. /\ req[r].pc = "dialog" /\ r \notin dialog
      /\ secretTask' = [secretTask EXCEPT ![req[r].c] = NoRequest]
      /\ UNCHANGED <<nm, keyring, dialog, saHist>>
  BY DEF WaitReturns
<1>3. req' = [req EXCEPT ![r] = q]
  BY <1>1 DEF WaitReturns
<1>4. /\ p \in {"end", "store", "read"} /\ g \in SUBSET Secret
      /\ p # "end" => g = req[r].ask
  BY <1>1 DEF ReqRec
<1> HIDE DEF p, g, answered
<1>5. /\ q \in ReqRec /\ q.c = req[r].c /\ q.snap = req[r].snap /\ q.new = req[r].new
      /\ q.pc = p /\ q.sub = req[r].sub /\ q.got = g /\ q.result = req[r].result
  BY <1>1, <1>4 DEF ReqRec, ReqPc
<1> HIDE DEF q
<1>6. SameCall(r) /\ req'[r] = q /\ HistoryGrows
  BY <1>2, <1>3, <1>5, ReqSet, HistoryStays
<1>7. Busy(r) /\ req[r].c \in Conn /\ req[r].result # "ok" /\ req[r].sub = "want"
  BY <1>2 DEF Busy, SecInv, CallsRight, RingPhase
<1>8. RingOk(r)
  BY <1>2, <1>6, <1>7, RingStays DEF Cleans
<1>9. AnswerRight(r)'
  <2>1. \A k \in Must : Excused(r, k) => Excused(r, k)'
    BY <1>6, ExcusedStays
  <2>2. AnswerRight(r)
    BY DEF SecInv
  <2> QED
    BY <1>2, <1>4, <1>5, <1>6, <1>7, <2>1, <2>2 DEF AnswerRight
<1>10. CallsRight'
  BY <1>2, <1>4, <1>5, <1>6, <1>7 DEF SecInv, CallsRight, SameCall
<1>11. /\ secretTask' \in [Conn -> Request \cup {NoRequest}] /\ secretTask'[req[r].c] = NoRequest
       /\ \A c \in Conn : c # req[r].c => secretTask'[c] = secretTask[c]
       /\ dialog' \subseteq Request
  BY <1>2, <1>7 DEF SecInv, SecTypes
<1>12. TaskRight'
  <2> SUFFICES ASSUME NEW c \in Conn, c \notin saHist.overlap, NEW x \in Request
               PROVE  /\ secretTask'[c] = x => req'[x].pc = "dialog" /\ req'[x].c = c
                      /\ x \in dialog' /\ req'[x].pc = "dialog" /\ req'[x].c = c => secretTask'[c] = x
    BY <1>2 DEF TaskRight
  <2>1. CASE x = r
    <3>1. secretTask'[c] # r
      BY <1>11, SecretAssumption DEF SecInv, TaskRight
    <3> QED
      BY <1>2, <2>1, <3>1
  <2>2. CASE x # r
    <3>1. req'[x] = req[x] /\ x # NoRequest
      BY <1>6, <2>2, SecretAssumption DEF SameCall
    <3>2. c = req[r].c => ~(x \in dialog /\ req[x].c = c)
      BY <1>7, <2>2 DEF SecInv, OneCall, CallsRight, Busy
    <3> QED
      BY <1>2, <1>11, <2>2, <3>1, <3>2 DEF SecInv, TaskRight
  <2> QED
    BY <2>1, <2>2
<1> QED
  BY <1>2, <1>4, <1>5, <1>6, <1>7, <1>8, <1>9, <1>10, <1>11, <1>12, CallGoesOn

-----------------------------------------------------------------------------
(* The keyring is changed for the connection of the call.                  *)
LEMMA RingSet ==
  ASSUME SecInv, NEW r \in Request, Busy(r), HistoryGrows, NEW K \in SUBSET Secret,
         keyring' = [keyring EXCEPT ![req[r].c] = K],
         \/ Cleans(r)'
         \/ req[r].c \notin saHist.overlap \cup saHist.failed => K \subseteq Wanted(req[r].c)
  PROVE  RingOk(r)
<1>1. keyring \in [Conn -> SUBSET Secret] /\ req[r].c \in Conn
  BY DEF SecInv, SecTypes, CallsRight, Busy
<1>2. /\ keyring' \in [Conn -> SUBSET Secret] /\ keyring'[req[r].c] = K
      /\ \A c \in Conn : c # req[r].c => keyring'[c] = keyring[c]
  BY <1>1
<1>3. saHist.failed \subseteq saHist'.failed
  BY DEF HistoryGrows
<1> QED
  BY <1>2, <1>3 DEF RingOk

LEMMA StoreKeeps ==
  ASSUME SecInv, NEW r \in Request, NEW S \in SUBSET Secret, Store(r, S)
  PROVE  SecInv'
<1> DEFINE K == keyring[req[r].c] \cup S
<1>1. /\ req[r].pc = "store" /\ Goes(r, "read")
      /\ UNCHANGED <<nm, dialog, secretTask>> /\ S \subseteq Owned(req[r].snap)
      /\ saHist' = saHist \/ ItemError(r)
  BY DEF Store, Opens
<1>2. Busy(r) /\ req[r].c \in Conn /\ req[r].result # "ok"
  BY <1>1 DEF Busy, SecInv, CallsRight
<1>3. keyring' = [keyring EXCEPT ![req[r].c] = K] /\ K \in SUBSET Secret
  BY <1>2 DEF Store, SecInv, SecTypes
<1>4. /\ SameCall(r)
      /\ req'[r].pc = "read" /\ req'[r].sub = "want"
      /\ req'[r].got = req[r].got /\ req'[r].result = req[r].result
  BY <1>1, GoesFacts DEF ReqPc
<1>5. HistoryGrows
  BY <1>1, HistoryStays, HistoryFailed
<1>6. req[r].c \notin saHist.overlap \cup saHist.failed => K \subseteq Wanted(req[r].c)
  <2> SUFFICES ASSUME req[r].c \notin saHist.overlap, req[r].c \notin saHist.failed
               PROVE  K \subseteq Wanted(req[r].c)
    OBVIOUS
  <2>1. req[r].c \notin saHist.deleted /\ req[r].snap = nm[req[r].c]
    BY <1>1, <1>2 DEF SecInv, SnapRight
  <2>2. \A x \in Request : req[x].c = req[r].c /\ Cleans(x) => x = r
    BY <1>2 DEF SecInv, OneCall, Cleans, Busy
  <2>3. keyring[req[r].c] \subseteq Wanted(req[r].c)
    BY <1>1, <1>2, <2>2 DEF SecInv, RingRight, Cleans
  <2> QED
    BY <1>1, <2>1, <2>3 DEF Wanted
<1> HIDE DEF K
<1>7. RingOk(r)
  BY <1>2, <1>3, <1>5, <1>6, RingSet
<1>8. AnswerRight(r)'
  <2>1. \A k \in Must : Excused(r, k) => Excused(r, k)'
    BY <1>4, <1>5, ExcusedStays
  <2>2. AnswerRight(r)
    BY DEF SecInv
  <2> QED
    BY <1>1, <1>4, <1>5, <2>1, <2>2 DEF AnswerRight, HistoryGrows
<1> QED
  BY <1>1, <1>2, <1>4, <1>5, <1>7, <1>8, NoDialogStep

LEMMA ReadSavedKeeps == ASSUME SecInv, NEW r \in Request, ReadSaved(r) PROVE SecInv'
<1> DEFINE g == req[r].got \cup (keyring[req[r].c] \cap Owned(req[r].snap))
           q == [req[r] EXCEPT !.pc = "end", !.sub = "want", !.result = "ok", !.got = g]
<1>1. /\ req[r].pc = "read" /\ UNCHANGED <<nm, keyring, dialog, secretTask, saHist>>
      /\ req[r] \in ReqRec /\ req \in [Request -> ReqRec]
  BY DEF ReadSaved, Opens, SecInv, SecTypes
<1>2. req' = [req EXCEPT ![r] = q]
  BY <1>1 DEF ReadSaved
<1>3. g \in SUBSET Secret /\ req[r].got \subseteq g
  BY <1>1 DEF ReqRec, Owned
<1> HIDE DEF g
<1>4. /\ q \in ReqRec /\ q.c = req[r].c /\ q.snap = req[r].snap /\ q.new = req[r].new
      /\ q.pc = "end" /\ q.sub = "want" /\ q.got = g
  BY <1>1, <1>3 DEF ReqRec, ReqPc
<1> HIDE DEF q
<1>5. SameCall(r) /\ req'[r] = q /\ HistoryGrows
  BY <1>1, <1>2, <1>4, ReqSet, HistoryStays
<1>6. Busy(r)
  BY <1>1 DEF Busy
<1>7. RingOk(r)
  BY <1>1, <1>5, <1>6, RingStays DEF Cleans
<1>8. AnswerRight(r)'
  <2>1. \A k \in Must : Excused(r, k) => Excused(r, k)'
    BY <1>5, ExcusedStays
  <2>2. AnswerRight(r)
    BY DEF SecInv
  <2> QED
    BY <1>1, <1>3, <1>4, <1>5, <2>1, <2>2 DEF AnswerRight
<1> QED
  BY <1>1, <1>4, <1>5, <1>6, <1>7, <1>8, NoDialogStep

(* SaveSecrets and DeleteSecrets.                                          *)
LEMMA CleaningKeeps ==
  ASSUME SecInv, NEW r \in Request, NEW S \in SUBSET Secret,
         SetOwned(r, S) \/ DeleteOthers(r, S) \/ DeleteAll(r, S)
  PROVE  SecInv'
<1>1. req[r].pc \in {"save", "purge", "wipe"} /\ UNCHANGED <<nm, dialog, secretTask>>
  BY DEF SetOwned, DeleteOthers, DeleteAll, Opens
<1>2. Busy(r) /\ req[r].c \in Conn /\ req[r].result # "ok" /\ Cleans(r)
  BY <1>1 DEF Busy, SecInv, CallsRight, Cleans
<1>3. keyring[req[r].c] \in SUBSET Secret /\ req \in [Request -> ReqRec]
  BY <1>2 DEF SecInv, SecTypes
<1>4. ASSUME NEW p \in {"purge", "end"}, SameCall(r), HistoryGrows,
             req'[r].pc = p, req'[r].sub = "want", req'[r].result # "ok",
             NEW K \in SUBSET Secret, req[r].pc = "wipe" => p = "end",
             keyring' = [keyring EXCEPT ![req[r].c] = K],
             \/ p = "purge" \/ req[r].c \in saHist'.failed
             \/ req[r].c \notin saHist.overlap => K \subseteq Wanted(req[r].c)
      PROVE  SecInv'
  <2>1. RingOk(r)
    <3>1. CASE req[r].c \in saHist'.failed
      BY <1>2, <1>3, <1>4, <3>1 DEF RingOk, SecInv, SecTypes
    <3>2. CASE req[r].c \notin saHist'.failed
      BY <1>2, <1>4, <3>2, RingSet DEF Cleans
    <3> QED
      BY <3>1, <3>2
  <2>2. AnswerRight(r)'
    BY <1>4 DEF AnswerRight
  <2> QED
    BY <1>1, <1>2, <1>4, <2>1, <2>2, NoDialogStep
<1>5. ASSUME NEW p \in {"purge", "end"}, Goes(r, p)
      PROVE  SameCall(r) /\ req'[r].pc = p /\ req'[r].sub = "want" /\ req'[r].result # "ok"
  BY <1>2, <1>5, GoesFacts DEF ReqPc
<1>6. ASSUME ItemError(r) PROVE HistoryGrows /\ req[r].c \in saHist'.failed
  BY <1>2, <1>6, HistoryFailed
<1>7. ASSUME saHist' = saHist PROVE HistoryGrows
  BY <1>7, HistoryStays
<1>8. CASE SetOwned(r, S)
  <2> DEFINE K == keyring[req[r].c] \cup S
  <2>1. keyring' = [keyring EXCEPT ![req[r].c] = K] /\ K \in SUBSET Secret /\ req[r].pc = "save"
    BY <1>3, <1>8 DEF SetOwned, Opens
  <2> HIDE DEF K
  <2>2. CASE Goes(r, "purge") /\ UNCHANGED saHist
    BY <1>4, <1>5, <1>7, <2>1, <2>2
  <2>3. CASE req' = [req EXCEPT ![r] = Fails(req[r])] /\ ItemError(r)
    BY <1>4, <1>6, <2>1, <2>3, FailsFacts
  <2> QED
    BY <1>3, <1>8, <2>2, <2>3 DEF SetOwned
<1>9. CASE DeleteOthers(r, S)
  <2> DEFINE K == keyring[req[r].c] \ S
  <2>1. keyring' = [keyring EXCEPT ![req[r].c] = K] /\ K \in SUBSET Secret /\ req[r].pc = "purge"
    BY <1>3, <1>9 DEF DeleteOthers, Opens
  <2>2. CASE S = Secret \ Owned(req[r].snap)
    <3>1. Goes(r, "end") /\ UNCHANGED saHist
      BY <1>9, <2>2 DEF DeleteOthers
    <3>2. req[r].c \notin saHist.overlap => K \subseteq Wanted(req[r].c)
      BY <1>2, <1>3, <2>1, <2>2 DEF SecInv, SnapRight, Wanted
    <3> HIDE DEF K
    <3> QED
      BY <1>4, <1>5, <1>7, <2>1, <3>1, <3>2
  <2>3. CASE S # Secret \ Owned(req[r].snap)
    <3>1. req' = [req EXCEPT ![r] = Fails(req[r])] /\ ItemError(r)
      BY <1>3, <1>9, <2>3 DEF DeleteOthers
    <3> HIDE DEF K
    <3> QED
      BY <1>4, <1>6, <2>1, <3>1, FailsFacts
  <2> QED
    BY <2>2, <2>3
<1>10. CASE DeleteAll(r, S)
  <2> DEFINE K == keyring[req[r].c] \ S
  <2>1. keyring' = [keyring EXCEPT ![req[r].c] = K] /\ K \in SUBSET Secret /\ Goes(r, "end")
    BY <1>3, <1>10 DEF DeleteAll, Opens
  <2>2. CASE S = Secret
    <3>1. UNCHANGED saHist /\ K \subseteq Wanted(req[r].c)
      BY <1>3, <1>10, <2>2 DEF DeleteAll
    <3> HIDE DEF K
    <3> QED
      BY <1>4, <1>5, <1>7, <2>1, <3>1
  <2>3. CASE S # Secret
    <3>1. ItemError(r)
      BY <1>10, <2>3 DEF DeleteAll
    <3> HIDE DEF K
    <3> QED
      BY <1>4, <1>5, <1>6, <2>1, <3>1
  <2> QED
    BY <2>2, <2>3
<1> QED
  BY <1>8, <1>9, <1>10

-----------------------------------------------------------------------------
(* A call begins.                                                          *)
LEMMA BeginKeeps ==
  ASSUME SecInv, NEW r \in Request, NEW c \in Conn, NEW new \in BOOLEAN,
         NEW p \in {"probe", "collect", "save", "purge", "wipe"}, Begin(r, c, p, new),
         nm' \in [Conn -> SecretFlags],
         \A x \in Conn : x # c => nm'[x] = nm[x],
         p \in {"save", "purge"} \/ nm' = nm
  PROVE  SecInv'
<1> DEFINE q == [NoReq EXCEPT !.pc = p, !.c = c, !.new = new, !.snap = nm'[c]]
           over == {x \in {c} : \E s \in Request : Busy(s) /\ req[s].c = c}
           wiped == IF p = "wipe" THEN {c} ELSE {}
<1>1. /\ req \in [Request -> ReqRec] /\ saHist \in SecHist
      /\ req[r].pc = "idle" /\ c \notin saHist.deleted
      /\ req' = [req EXCEPT ![r] = q]
      /\ saHist' = [saHist EXCEPT !.overlap = saHist.overlap \cup over,
                                  !.deleted = saHist.deleted \cup wiped]
      /\ UNCHANGED <<keyring, dialog, secretTask>>
  BY DEF Begin, SecInv, SecTypes
<1>2. /\ q \in ReqRec
      /\ q.pc = p /\ q.c = c /\ q.snap = nm'[c] /\ q.sub = "want" /\ q.result = "none"
  <2> DEFINE q1 == [NoReq EXCEPT !.pc = p, !.c = c, !.snap = nm'[c]]
  <2>1. NoReq.c \in ReqConn /\ c \in ReqConn /\ nm'[c] \in [Secret -> SecretFlag]
    BY SecretAssumption DEF ReqConn
  <2>2. NoReq \in ReqRec /\ NoReq.sub = "want" /\ NoReq.result = "none"
    BY <2>1 DEF NoReq, ReqRec, ReqPc, SecretFlag
  <2>3. /\ q1 \in ReqRec
        /\ q1.pc = p /\ q1.c = c /\ q1.snap = nm'[c] /\ q1.sub = "want" /\ q1.result = "none"
    BY <2>1, <2>2 DEF ReqRec, ReqPc
  <2>4. q = [q1 EXCEPT !.new = new]
    BY <2>2 DEF ReqRec
  <2> HIDE DEF q, q1
  <2>5. CASE new = TRUE
    BY <2>3, <2>4, <2>5 DEF ReqRec
  <2>6. CASE new = FALSE
    BY <2>3, <2>4, <2>6 DEF ReqRec
  <2> QED
    BY <2>5, <2>6
<1>3. /\ over \subseteq {c} /\ wiped \subseteq {c} /\ (c \in wiped <=> p = "wipe")
      /\ c \notin over => \A s \in Request : Busy(s) => req[s].c # c
  OBVIOUS
<1> HIDE DEF q, over, wiped
<1>4. /\ saHist' \in SecHist
      /\ saHist'.overlap = saHist.overlap \cup over /\ saHist'.deleted = saHist.deleted \cup wiped
      /\ saHist'.failed = saHist.failed /\ saHist'.skipped = saHist.skipped
      /\ saHist'.partly = saHist.partly
  BY <1>1, <1>3 DEF SecHist
<1>5. /\ req' \in [Request -> ReqRec] /\ req'[r] = q
      /\ \A x \in Request : x # r => req'[x] = req[x]
  BY <1>1, <1>2
<1>6. \A x \in Request : x # r => (Busy(x)' <=> Busy(x))
  BY <1>5 DEF Busy
<1>7. SecTypes'
  BY <1>1, <1>4, <1>5 DEF SecInv, SecTypes
<1>8. CallsRight'
  BY <1>1, <1>2, <1>5 DEF SecInv, CallsRight
<1>9. ASSUME NEW x \in Request PROVE AnswerRight(x)'
  <2>1. CASE x = r
    BY <1>2, <1>5, <2>1 DEF AnswerRight
  <2>2. CASE x # r
    <3>1. req'[x] = req[x] /\ AnswerRight(x)
      BY <1>5, <2>2 DEF SecInv
    <3> QED
      BY <1>4, <3>1 DEF AnswerRight, Excused
  <2> QED
    BY <2>1, <2>2
<1>10. OneCall'
  BY <1>2, <1>3, <1>4, <1>5, <1>6 DEF SecInv, OneCall
<1>11. TaskRight'
  BY <1>1, <1>2, <1>4, <1>5 DEF SecInv, TaskRight, CallsRight
<1>12. SnapRight'
  <2> SUFFICES ASSUME NEW x \in Request, Busy(x)', req'[x].c \notin saHist'.overlap
               PROVE  /\ req'[x].pc = "wipe" <=> req'[x].c \in saHist'.deleted
                      /\ req'[x].pc # "wipe" => req'[x].snap = nm'[req'[x].c]
    BY DEF SnapRight
  <2>1. CASE x = r
    BY <1>1, <1>2, <1>3, <1>4, <1>5, <2>1
  <2>2. CASE x # r
    <3>1. Busy(x) /\ req'[x] = req[x] /\ req[x].c \notin saHist.overlap /\ req[x].c \in Conn
      BY <1>4, <1>5, <1>6, <2>2 DEF SecInv, CallsRight, Busy
    <3>2. req[x].c # c
      BY <1>3, <1>4, <3>1
    <3> QED
      BY <1>3, <1>4, <3>1, <3>2 DEF SecInv, SnapRight
  <2> QED
    BY <2>1, <2>2
<1>13. RingRight'
  <2> SUFFICES ASSUME NEW x \in Conn, x \notin saHist'.overlap, x \notin saHist'.failed
               PROVE  (\E y \in Request : req[y].c = x /\ Cleans(y))' \/ (keyring[x] \subseteq Wanted(x))'
    BY DEF RingRight
  <2>0. x \notin saHist.overlap \cup saHist.failed
    BY <1>4
  <2>1. CASE x = c /\ p \in {"save", "purge", "wipe"}
    <3>1. req'[r].c = x /\ Cleans(r)'
      BY <1>2, <1>5, <2>1 DEF Cleans
    <3> QED
      BY <3>1
  <2>2. CASE x = c /\ p \notin {"save", "purge", "wipe"}
    <3>1. \A y \in Request : Cleans(y) => req[y].c # c
      BY <1>3, <1>4, <2>2 DEF Cleans, Busy
    <3>2. keyring[x] \subseteq Wanted(x)
      BY <2>0, <2>2, <3>1 DEF SecInv, RingRight
    <3>3. Wanted(x)' = Wanted(x)
      BY <1>3, <1>4, <2>2 DEF Wanted
    <3> QED
      BY <1>1, <3>2, <3>3
  <2>3. CASE x # c
    <3>1. Wanted(x)' = Wanted(x)
      BY <1>3, <1>4, <2>3 DEF Wanted
    <3>2. ASSUME NEW y \in Request, req[y].c = x, Cleans(y) PROVE req'[y].c = x /\ Cleans(y)'
      <4>1. y # r
        BY <1>1, <3>2 DEF Cleans
      <4> QED
        BY <1>5, <3>2, <4>1 DEF Cleans
    <3> QED
      BY <1>1, <2>0, <3>1, <3>2 DEF SecInv, RingRight
  <2> QED
    BY <2>1, <2>2, <2>3
<1> QED
  BY <1>7, <1>8, <1>9, <1>10, <1>11, <1>12, <1>13 DEF SecInv

LEMMA SecStep == SecInv /\ [SecretNext]_secretVars => SecInv'
<1> SUFFICES ASSUME SecInv, [SecretNext]_secretVars PROVE SecInv'
  OBVIOUS
<1>0. nm \in [Conn -> SecretFlags]
  BY DEF SecInv, SecTypes
<1>1. ASSUME NEW r \in Request, NEW c \in Conn, NEW new \in BOOLEAN, GetSecrets(r, c, new)
      PROVE  SecInv'
  <2>1. PICK p \in {"probe", "collect"} : Begin(r, c, p, new) /\ nm' = nm
    BY <1>1 DEF GetSecrets
  <2> QED
    BY <1>0, <2>1, BeginKeeps
<1>2. ASSUME NEW r \in Request, NEW c \in Conn, NEW f \in SecretFlags, SaveSecrets(r, c, f)
      PROVE  SecInv'
  <2>1. PICK p \in {"save", "purge"} : Begin(r, c, p, FALSE) /\ nm' = [nm EXCEPT ![c] = f]
    BY <1>2 DEF SaveSecrets
  <2>2. nm' \in [Conn -> SecretFlags] /\ \A x \in Conn : x # c => nm'[x] = nm[x]
    BY <1>0, <2>1
  <2> QED
    BY <2>1, <2>2, BeginKeeps
<1>3. ASSUME NEW r \in Request, NEW c \in Conn, DeleteSecrets(r, c) PROVE SecInv'
  <2>1. Begin(r, c, "wipe", FALSE) /\ nm' = nm
    BY <1>3 DEF DeleteSecrets
  <2> QED
    BY <1>0, <2>1, BeginKeeps
<1>4. ASSUME NEW c \in Conn, CancelGetSecrets(c) PROVE SecInv'
  <2> DEFINE r == secretTask[c]
  <2>1. /\ r \in dialog /\ dialog' = dialog \ {r} /\ req' = [req EXCEPT ![r].result = "killed"]
        /\ UNCHANGED <<nm, keyring, secretTask, saHist>>
    BY <1>4 DEF CancelGetSecrets
  <2>2. r \in Request
    BY <2>1 DEF SecInv, SecTypes
  <2> HIDE DEF r
  <2> QED
    BY <2>1, <2>2, DialogOver
<1>5. ASSUME NEW r \in Request, NEW b \in BOOLEAN, DialogEnds(r, b) PROVE SecInv'
  <2>1. PICK a \in {"answered", "closed"} : req' = [req EXCEPT ![r].result = a]
    BY <1>5 DEF DialogEnds
  <2>2. r \in dialog /\ dialog' = dialog \ {r} /\ UNCHANGED <<nm, keyring, secretTask, saHist>>
    BY <1>5 DEF DialogEnds
  <2> QED
    BY <2>1, <2>2, DialogOver
<1>6. ASSUME NEW r \in Request, SecretStep(r) PROVE SecInv'
  <2>1. CASE Unlocked(r) \/ \E b \in BOOLEAN : CallUnlock(r, b) \/ Completed(r, b)
    <3>1. CASE Unlocked(r)
      BY <3>1, UnlockingKeeps
    <3> QED
      BY <2>1, <3>1, UnlockingKeeps
  <2> QED
    BY <1>5, <1>6, <2>1, UnlockEnds, CollectKeeps, DialogExistsKeeps, StartDialogKeeps,
       AddTaskKeeps, WaitReturnsKeeps, StoreKeeps, ReadSavedKeeps, CleaningKeeps DEF SecretStep
<1>7. CASE UNCHANGED secretVars
  BY <1>7 DEF secretVars, SecInv, SecTypes, CallsRight, AnswerRight, Excused, OneCall, TaskRight,
     SnapRight, RingRight, Cleans, Wanted, Busy
<1> QED
  BY <1>1, <1>2, <1>3, <1>4, <1>6, <1>7, ServiceExitsKeeps DEF SecretNext

(* SecretsServed (network/secret_agent.go): whatever the order of calls,   *)
(* prompts, dialogs, errors and exits of the secret service, and for any   *)
(* number of connections, secrets and calls, a call that ends well has its *)
(* secrets, the dialog of a call can be cancelled, and the keyring holds   *)
(* only what its connection wants kept, with the exceptions the property   *)
(* names.                                                                  *)
THEOREM SecretsAlwaysServed == SecretSpec => []SecretsServed
<1>1. SecInv => SecretsServed
  <2> SUFFICES ASSUME SecInv PROVE SecretsServed
    OBVIOUS
  <2>1. AnsweredInFull
    BY DEF SecInv, AnswerRight, Excused, AnsweredInFull
  <2>2. DialogsCancellable
    BY DEF SecInv, TaskRight, DialogsCancellable
  <2>3. NoForeignSecret
    BY DEF SecInv, RingRight, Cleans, Wanted, Busy, NoForeignSecret
  <2> QED
    BY <2>1, <2>2, <2>3 DEF SecretsServed
<1> QED
  BY <1>1, SecInvInit, SecStep, PTL DEF SecretSpec
=============================================================================
