----------------------------- MODULE ShareBridge -----------------------------
(***************************************************************************)
(* The listener life cycle of ShareBridge (app/.../core/ShareBridge.kt),   *)
(* which exposes the tunnel as a SOCKS5 and an HTTP proxy.                 *)
(*                                                                         *)
(* startSync runs under the object's monitor, on the caller's thread or on *)
(* a "share-start" thread.  stop clears _active without the monitor, takes *)
(* a session number under it, and leaves the closing to a "share-stop"     *)
(* thread that gives up when the session number has moved on.              *)
(***************************************************************************)
EXTENDS Naturals

CONSTANTS
  MaxStarts,  \* bound: calls of start / startSync
  MaxStops,   \* bound: calls of stop
  BindFails   \* whether a fixed port can be held by another app

ASSUME ShareConstantsOK ==
  MaxStarts \in Nat /\ MaxStops \in Nat /\ BindFails \in BOOLEAN

Starts == 1 .. MaxStarts
Stops  == 1 .. MaxStops

VARIABLES
  active,       \* _active
  session,      \* the monotonic session number
  socksServer,  \* number of the session that bound the listener, 0 for null
  httpServer,
  monitor,      \* the start call inside synchronized(this), 0 for nobody
  startPc,      \* where each start call is
  stopPc,       \* where each stop call, and then its thread, is
  stopSession   \* the session number it has taken

stopVars  == <<stopPc, stopSession>>
vars == <<active, session, socksServer, httpServer, monitor, startPc,
          stopVars>>

StartPCs == {"idle", "called", "bindSocks", "bindHttp", "publish", "done"}
StopPCs  == {"idle", "cleared", "closing", "done"}

Listening == socksServer # 0 /\ httpServer # 0

-----------------------------------------------------------------------------
\* Mutant: the HTTP listener is forgotten.
closeSocksOnly == socksServer' = 0 /\ UNCHANGED httpServer

closeServers == socksServer' = 0 /\ httpServer' = 0

Leave(i) == monitor' = 0 /\ startPc' = [startPc EXCEPT ![i] = "done"]

\* A caller of startSync, or the thread start() has launched, waits for the
\* monitor.
CallStart(i) ==
  /\ startPc[i] = "idle"
  /\ startPc' = [startPc EXCEPT ![i] = "called"]
  /\ UNCHANGED <<active, session, socksServer, httpServer, monitor, stopVars>>

\* "Already up with a healthy listener? Nothing to do."  Otherwise a new
\* session begins with both listeners closed.
Enter(i) ==
  /\ startPc[i] = "called" /\ monitor = 0
  /\ IF active /\ (socksServer # 0 \/ httpServer # 0)
     THEN Leave(i) /\ UNCHANGED <<session, socksServer, httpServer>>
     ELSE /\ session' = session + 1
          /\ closeServers
          /\ monitor' = i
          /\ startPc' = [startPc EXCEPT ![i] = "bindSocks"]
  /\ UNCHANGED <<active, stopVars>>

\* bindWithRetry: the port opens, or ten attempts are not enough.
BindSocks(i) ==
  /\ startPc[i] = "bindSocks"
  /\ socksServer' \in {session} \cup (IF BindFails THEN {0} ELSE {})
  /\ startPc' = [startPc EXCEPT ![i] = "bindHttp"]
  /\ UNCHANGED <<active, session, httpServer, monitor, stopVars>>

BindHttp(i) ==
  /\ startPc[i] = "bindHttp"
  /\ httpServer' \in {session} \cup (IF BindFails THEN {0} ELSE {})
  /\ startPc' = [startPc EXCEPT ![i] = "publish"]
  /\ UNCHANGED <<active, session, socksServer, monitor, stopVars>>

\* Either listener missing: both are closed and sharing is off.
Publish(i) ==
  /\ startPc[i] = "publish"
  /\ IF Listening
     THEN UNCHANGED <<socksServer, httpServer>>
     ELSE closeServers
  /\ active' = Listening
  /\ Leave(i)
  /\ UNCHANGED <<session, stopVars>>

\* stop(): _active is cleared before, and outside, the monitor.
CallStop(j) ==
  /\ stopPc[j] = "idle"
  /\ active' = FALSE
  /\ stopPc' = [stopPc EXCEPT ![j] = "cleared"]
  /\ UNCHANGED <<session, socksServer, httpServer, monitor, startPc,
                 stopSession>>

TakeSession(j) ==
  /\ stopPc[j] = "cleared" /\ monitor = 0
  /\ session' = session + 1
  /\ stopSession' = [stopSession EXCEPT ![j] = session + 1]
  /\ stopPc' = [stopPc EXCEPT ![j] = "closing"]
  /\ UNCHANGED <<active, socksServer, httpServer, monitor, startPc>>

\* Mutant: the share-stop thread does not look at the session number.
CloseAlways(j) ==
  /\ stopPc[j] = "closing" /\ monitor = 0
  /\ closeServers
  /\ stopPc' = [stopPc EXCEPT ![j] = "done"]
  /\ UNCHANGED <<active, session, monitor, startPc, stopSession>>

\* The share-stop thread.
Close(j) ==
  /\ stopPc[j] = "closing" /\ monitor = 0
  /\ IF session = stopSession[j]
     THEN closeServers
     ELSE UNCHANGED <<socksServer, httpServer>>
  /\ stopPc' = [stopPc EXCEPT ![j] = "done"]
  /\ UNCHANGED <<active, session, monitor, startPc, stopSession>>

-----------------------------------------------------------------------------
Init ==
  /\ active = FALSE /\ session = 0 /\ socksServer = 0 /\ httpServer = 0
  /\ monitor = 0
  /\ startPc = [i \in Starts |-> "idle"]
  /\ stopPc = [j \in Stops |-> "idle"]
  /\ stopSession = [j \in Stops |-> 0]

Next ==
  \/ \E i \in Starts : \/ CallStart(i) \/ Enter(i) \/ BindSocks(i)
                       \/ BindHttp(i) \/ Publish(i)
  \/ \E j \in Stops : CallStop(j) \/ TakeSession(j) \/ Close(j)

Spec == Init /\ [][Next]_vars

-----------------------------------------------------------------------------
\* Every variable has its type; a session number is never handed out twice.
TypeOK ==
  /\ active \in BOOLEAN /\ session \in Nat
  /\ socksServer \in 0 .. session /\ httpServer \in 0 .. session
  /\ monitor \in 0 .. MaxStarts
  /\ startPc \in [Starts -> StartPCs]
  /\ stopPc \in [Stops -> StopPCs]
  /\ stopSession \in [Stops -> 0 .. session]
  /\ \A i, j \in Stops :
       stopSession[i] = stopSession[j] => i = j \/ stopSession[i] = 0

\* The monitor is never left with one listener open, and the two listeners
\* always belong to the same session.
BothOrNone == monitor = 0 => socksServer = httpServer

\* "a stale asynchronous stop can never close the listeners of a NEWER
\* session": what a share-stop thread closes was bound before its stop took its
\* session number.
StopSparesNewer ==
  [][\A j \in Stops :
       stopPc[j] = "closing" /\ stopPc'[j] = "done" /\ socksServer' # socksServer
         => socksServer < stopSession[j] /\ httpServer < stopSession[j]]_vars

=============================================================================
