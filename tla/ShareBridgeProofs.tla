-------------------------- MODULE ShareBridgeProofs --------------------------
(***************************************************************************)
(* What ShareBridge's monitor and session numbers guarantee, for any       *)
(* number of start and stop calls.                                         *)
(***************************************************************************)
EXTENDS ShareBridge, TLAPS

\* The places of a start call inside synchronized(this).
Inside == {"bindSocks", "bindHttp", "publish"}

\* At most the call that owns the monitor is inside startSync.
Exclusive == \A i \in Starts : startPc[i] \in Inside => monitor = i

\* Inside, the listeners are the ones this call has opened so far.
OwnListeners ==
  \A i \in Starts :
    /\ startPc[i] = "bindSocks" => socksServer = 0 /\ httpServer = 0
    /\ startPc[i] = "bindHttp"  => socksServer \in {0, session} /\ httpServer = 0
    /\ startPc[i] = "publish"   => /\ socksServer \in {0, session}
                                   /\ httpServer \in {0, session}

\* A session number belongs to one stop or one start, never to both: while a
\* start is inside, the number is its own, and no listener carries a stop's.
OwnNumber ==
  /\ monitor # 0 => session > 0 /\ \A j \in Stops : stopSession[j] < session
  /\ \A j \in Stops : stopPc[j] \in {"closing", "done"} => stopSession[j] > 0
  /\ \A j \in Stops : stopSession[j] # 0 => /\ socksServer # stopSession[j]
                                            /\ httpServer # stopSession[j]

ShareInv == TypeOK /\ Exclusive /\ OwnListeners /\ OwnNumber /\ BothOrNone

USE DEF Starts, Stops

\* The invariant holds before the first call.
LEMMA InitShare == Init => ShareInv
<1> SUFFICES ASSUME Init PROVE ShareInv  OBVIOUS
<1>1. active \in BOOLEAN  BY DEF Init
<1>2. TypeOK  BY <1>1, ShareConstantsOK DEF Init, TypeOK, StartPCs, StopPCs
<1>3. Exclusive /\ OwnListeners /\ OwnNumber /\ BothOrNone
  BY DEF Init, Exclusive, OwnListeners, OwnNumber, BothOrNone, Inside
<1> QED  BY <1>2, <1>3 DEF ShareInv

\* Calling start changes no listener.
LEMMA CallStartShare ==
  ASSUME ShareInv, NEW i \in Starts, CallStart(i)
  PROVE  ShareInv'
<1> USE DEF ShareInv, CallStart, stopVars
<1>1. TypeOK'  BY DEF TypeOK, StartPCs
<1>2. Exclusive' /\ OwnListeners'
  BY DEF Exclusive, OwnListeners, Inside, TypeOK
<1>3. OwnNumber' /\ BothOrNone'  BY DEF OwnNumber, BothOrNone
<1> QED  BY <1>1, <1>2, <1>3

\* Entering the monitor: the early return, or a new session with no listener.
LEMMA EnterShare ==
  ASSUME ShareInv, NEW i \in Starts, Enter(i)
  PROVE  ShareInv'
<1> USE DEF ShareInv, Enter, stopVars
<1>1. CASE active /\ (socksServer # 0 \/ httpServer # 0)
  <2> USE <1>1 DEF Leave
  <2>1. TypeOK'  BY DEF TypeOK, StartPCs
  <2>2. Exclusive' /\ OwnListeners'
    BY DEF Exclusive, OwnListeners, Inside, TypeOK
  <2>3. OwnNumber' /\ BothOrNone'  BY DEF OwnNumber, BothOrNone, TypeOK
  <2> QED  BY <2>1, <2>2, <2>3
<1>2. CASE ~(active /\ (socksServer # 0 \/ httpServer # 0))
  <2>0. /\ startPc[i] = "called" /\ monitor = 0 /\ monitor' = i
        /\ session' = session + 1 /\ socksServer' = 0 /\ httpServer' = 0
        /\ startPc' = [startPc EXCEPT ![i] = "bindSocks"]
        /\ UNCHANGED <<active, stopPc, stopSession>>
    BY <1>2 DEF closeServers
  <2> HIDE DEF Enter
  <2>1. TypeOK'  BY <2>0 DEF TypeOK, StartPCs
  <2>2. Exclusive' /\ OwnListeners'
    BY <2>0 DEF Exclusive, OwnListeners, Inside, TypeOK
  <2>3. OwnNumber' /\ BothOrNone'  BY <2>0 DEF OwnNumber, BothOrNone, TypeOK
  <2> QED  BY <2>1, <2>2, <2>3
<1> QED  BY <1>1, <1>2

\* Binding, or failing to bind, the SOCKS5 listener.
LEMMA BindSocksShare ==
  ASSUME ShareInv, NEW i \in Starts, BindSocks(i)
  PROVE  ShareInv'
<1> USE DEF ShareInv, BindSocks, stopVars
<1>0. socksServer' \in {0, session}  OBVIOUS
<1>1. TypeOK'  BY <1>0 DEF TypeOK, StartPCs
<1>2. monitor = i  BY DEF Exclusive, Inside
<1>3. Exclusive' /\ OwnListeners'
  BY <1>0, <1>2 DEF Exclusive, OwnListeners, Inside, TypeOK
<1>4. OwnNumber' /\ BothOrNone'
  BY <1>0, <1>2 DEF OwnNumber, BothOrNone, TypeOK
<1> QED  BY <1>1, <1>3, <1>4

\* Binding, or failing to bind, the HTTP listener.
LEMMA BindHttpShare ==
  ASSUME ShareInv, NEW i \in Starts, BindHttp(i)
  PROVE  ShareInv'
<1> USE DEF ShareInv, BindHttp, stopVars
<1>0. httpServer' \in {0, session}  OBVIOUS
<1>1. TypeOK'  BY <1>0 DEF TypeOK, StartPCs
<1>2. monitor = i  BY DEF Exclusive, Inside
<1>3. Exclusive' /\ OwnListeners'
  BY <1>0, <1>2 DEF Exclusive, OwnListeners, Inside, TypeOK
<1>4. OwnNumber' /\ BothOrNone'
  BY <1>0, <1>2 DEF OwnNumber, BothOrNone, TypeOK
<1> QED  BY <1>1, <1>3, <1>4

\* Leaving the monitor with both listeners of this session, or with none.
LEMMA PublishShare ==
  ASSUME ShareInv, NEW i \in Starts, Publish(i)
  PROVE  ShareInv'
<1> USE DEF ShareInv, Publish, Leave, stopVars, Listening, closeServers
<1>0. active' \in BOOLEAN  OBVIOUS
<1>1. TypeOK'
  <2>1. startPc' = [startPc EXCEPT ![i] = "done"] /\ monitor' = 0  OBVIOUS
  <2>2. UNCHANGED <<session, stopPc, stopSession>>  OBVIOUS
  <2>3. socksServer' \in 0 .. session' /\ httpServer' \in 0 .. session'
    BY DEF TypeOK
  <2> HIDE DEF Publish
  <2> QED  BY <1>0, <2>1, <2>2, <2>3, ShareConstantsOK DEF TypeOK, StartPCs
<1>2. monitor = i  BY DEF Exclusive, Inside
<1>3. Exclusive' /\ OwnListeners'
  BY <1>2 DEF Exclusive, OwnListeners, Inside, TypeOK
<1>4. OwnNumber'  BY <1>2 DEF OwnNumber, TypeOK
<1>5. BothOrNone'  BY DEF BothOrNone, OwnListeners
<1> QED  BY <1>1, <1>3, <1>4, <1>5

\* stop() clears the flag only.
LEMMA CallStopShare ==
  ASSUME ShareInv, NEW j \in Stops, CallStop(j)
  PROVE  ShareInv'
<1> USE DEF ShareInv, CallStop
<1>1. TypeOK'  BY DEF TypeOK, StopPCs
<1>2. Exclusive' /\ OwnListeners'  BY DEF Exclusive, OwnListeners
<1>3. OwnNumber' /\ BothOrNone'  BY DEF OwnNumber, BothOrNone, TypeOK
<1> QED  BY <1>1, <1>2, <1>3

\* stop() takes a number larger than every one handed out so far.
LEMMA TakeSessionShare ==
  ASSUME ShareInv, NEW j \in Stops, TakeSession(j)
  PROVE  ShareInv'
<1> USE DEF ShareInv, TakeSession
<1>1. TypeOK'
  <2>1. \A k \in Stops : stopSession[k] \in 0 .. session  BY DEF TypeOK
  <2>2. stopSession' \in [Stops -> 0 .. session']  BY <2>1 DEF TypeOK
  <2>3. \A k, l \in Stops :
          stopSession'[k] = stopSession'[l] => k = l \/ stopSession'[k] = 0
    BY <2>1 DEF TypeOK
  <2> QED  BY <2>2, <2>3 DEF TypeOK, StopPCs
<1>2. Exclusive' /\ OwnListeners'
  BY DEF Exclusive, OwnListeners, Inside, TypeOK
<1>3. OwnNumber' /\ BothOrNone'  BY DEF OwnNumber, BothOrNone, TypeOK
<1> QED  BY <1>1, <1>2, <1>3

\* The share-stop thread closes both listeners or neither.
LEMMA CloseShare ==
  ASSUME ShareInv, NEW j \in Stops, Close(j)
  PROVE  ShareInv'
<1> USE DEF ShareInv, Close, closeServers
<1>1. TypeOK'  BY DEF TypeOK, StopPCs
<1>2. Exclusive' /\ OwnListeners'
  BY DEF Exclusive, OwnListeners, Inside, TypeOK
<1>3. OwnNumber' /\ BothOrNone'  BY DEF OwnNumber, BothOrNone, TypeOK
<1> QED  BY <1>1, <1>2, <1>3

\* Every step of ShareBridge keeps the invariant.
LEMMA NextShare == ShareInv /\ [Next]_vars => ShareInv'
<1> SUFFICES ASSUME ShareInv, [Next]_vars PROVE ShareInv'  OBVIOUS
<1>1. CASE \E i \in Starts : \/ CallStart(i) \/ Enter(i) \/ BindSocks(i)
                             \/ BindHttp(i) \/ Publish(i)
  BY <1>1, CallStartShare, EnterShare, BindSocksShare, BindHttpShare,
     PublishShare
<1>2. CASE \E j \in Stops : CallStop(j) \/ TakeSession(j) \/ Close(j)
  BY <1>2, CallStopShare, TakeSessionShare, CloseShare
<1>3. CASE UNCHANGED vars
  BY <1>3 DEF vars, stopVars, ShareInv, TypeOK, Exclusive,
     OwnListeners, OwnNumber, BothOrNone
<1> QED  BY <1>1, <1>2, <1>3 DEF Next

\* startSync and the share-stop thread leave the monitor with both listeners of
\* one session open, or with none.
THEOREM BothOrNoneCorrect == Spec => []BothOrNone
<1>1. ShareInv => BothOrNone  BY DEF ShareInv
<1> QED  BY <1>1, InitShare, NextShare, PTL DEF Spec

\* A share-stop thread that runs late closes only listeners bound before its
\* stop() took its session number.
THEOREM StopSparesNewerCorrect == Spec => StopSparesNewer
<1>1. ASSUME ShareInv, [Next]_vars, NEW j \in Stops, stopPc[j] = "closing",
             stopPc'[j] = "done", socksServer' # socksServer
      PROVE  socksServer < stopSession[j] /\ httpServer < stopSession[j]
  <2>1. stopPc' # stopPc  BY <1>1
  <2>2. PICK k \in Stops : CallStop(k) \/ TakeSession(k) \/ Close(k)
    BY <1>1, <2>1 DEF Next, vars, stopVars, CallStart, Enter, BindSocks,
       BindHttp, Publish
  <2>3. Close(k)  BY <1>1, <2>2 DEF CallStop, TakeSession
  <2>4. session = stopSession[k]  BY <1>1, <2>3 DEF Close
  <2>5. k = j  BY <1>1, <2>3 DEF Close, ShareInv, TypeOK
  <2> QED  BY <1>1, <2>4, <2>5 DEF ShareInv, OwnNumber, TypeOK
<1>2. ShareInv /\ [Next]_vars =>
        [\A j \in Stops :
           stopPc[j] = "closing" /\ stopPc'[j] = "done"
             /\ socksServer' # socksServer
             => socksServer < stopSession[j] /\ httpServer < stopSession[j]]_vars
  BY <1>1
<1> QED  BY <1>2, InitShare, NextShare, PTL DEF Spec, StopSparesNewer

=============================================================================
