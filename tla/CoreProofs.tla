----------------------------- MODULE CoreProofs -----------------------------
(***************************************************************************)
(* Theorems about four parts of the core that share no state: the MASQUE    *)
(* tunnel (MasqueTunnel), the WireGuard tunnel (WgTunnel), the tasks of a   *)
(* tunnel and the port they pass on (TunnelTasks) and the registries behind *)
(* the ids of the job interface (CoreFfi).                                  *)
(***************************************************************************)
EXTENDS MasqueTunnel, WgTunnel, TunnelTasks, CoreFfi, TLAPS

-----------------------------------------------------------------------------
(* The MASQUE tunnel. *)

\* The locals of the task: answers are counted on a connection that is open and
\* not yet ready, and never past the number that makes it ready; the window over
\* HTTP/2 is never overrun, and its loop is reached only over an open connection.
MasqueTask ==
  [transport : {"h3", "h2"}, ech : {"none", "given", "retry"},
   pc : {"top", "select", "dialling", "blocked", "ended"},
   established : BOOLEAN, retried : BOOLEAN, ready : BOOLEAN,
   successes : 0 .. Required, validate : {"none", "set", "passed"},
   pong : {"none", "sent", "passed"}, window : 0 .. Window]

TaskSound(r) ==
  /\ r \in MasqueTask
  /\ r.ready => r.established /\ (DataCheck => r.successes = Required)
  /\ ~r.ready => r.successes < Required
  /\ r.transport = "h2" /\ r.pc \in {"top", "select", "blocked"} => r.established

MasqueInv == TaskSound(mq) /\ edge \in EdgeModes /\ asked \in BOOLEAN

LEMMA MasqueInitInv == MasqueInit => MasqueInv
<1> SUFFICES ASSUME NEW transport \in {"h3", "h2"}, NEW ech \in {"none", "given"},
                    MasqueStart(transport, ech)
             PROVE  MasqueInv
  BY DEF MasqueInit
<1> DEFINE pc == IF transport = "h3" THEN "top" ELSE "dialling"
<1>1. pc \in {"top", "dialling"} /\ (transport = "h2" => pc = "dialling")  OBVIOUS
<1>2. mq = [transport |-> transport, ech |-> ech, pc |-> pc,
            established |-> FALSE, retried |-> FALSE, ready |-> FALSE,
            successes |-> 0, validate |-> "none", pong |-> "none", window |-> Window]
      /\ edge = "answers" /\ asked = FALSE
  BY DEF MasqueStart
<1> HIDE DEF pc
<1>3. mq \in MasqueTask  BY <1>1, <1>2, MasqueConstants DEF MasqueTask
<1>4. ~mq.ready /\ mq.successes < Required  BY <1>2, MasqueConstants
<1>5. mq.transport = "h2" => mq.pc = "dialling"  BY <1>1, <1>2
<1> QED  BY <1>2, <1>3, <1>4, <1>5 DEF MasqueInv, TaskSound, EdgeModes

\* The task goes to another place.
LEMMA TaskGoes ==
  ASSUME NEW r, TaskSound(r), NEW pc \in {"top", "select", "dialling", "blocked", "ended"},
         r.transport = "h2" /\ pc \in {"top", "select", "blocked"} => r.established
  PROVE  TaskSound([r EXCEPT !.pc = pc])
<1> DEFINE q == [r EXCEPT !.pc = pc]
<1>1. q \in MasqueTask  BY DEF TaskSound, MasqueTask
<1>2. /\ q.pc = pc /\ q.transport = r.transport /\ q.established = r.established
      /\ q.ready = r.ready /\ q.successes = r.successes
  BY DEF TaskSound, MasqueTask
<1> HIDE DEF q
<1>3. TaskSound(q)  BY <1>1, <1>2 DEF TaskSound
<1> QED  BY <1>3 DEF q

LEMMA TaskEnds ==
  ASSUME NEW r, TaskSound(r)
  PROVE  TaskSound(Ended(r))
BY TaskGoes DEF Ended

\* A field that TaskSound does not speak of.
LEMMA TaskKeeps ==
  ASSUME NEW r, TaskSound(r), NEW q \in MasqueTask,
         q.transport = r.transport, q.pc = r.pc, q.established = r.established,
         q.ready = r.ready, q.successes = r.successes
  PROVE  TaskSound(q)
BY DEF TaskSound

LEMMA TaskOpens ==
  ASSUME NEW r, TaskSound(r)
  PROVE  TaskSound(Open(r)) /\ Open(r).established /\ Open(r).transport = r.transport
<1> DEFINE q == Open(r)
<1>1. q \in MasqueTask  BY DEF Open, TaskSound, MasqueTask
<1>2. q.established /\ q.transport = r.transport  BY DEF Open, TaskSound, MasqueTask
<1>3. CASE DataCheck
  <2>1. q.ready = r.ready /\ q.successes = r.successes
    BY <1>3 DEF Open, TaskSound, MasqueTask
  <2> HIDE DEF q
  <2>2. TaskSound(q)  BY <1>1, <1>2, <2>1 DEF TaskSound
  <2> QED  BY <2>2, <1>2 DEF q
<1>4. CASE ~DataCheck
  <2>1. q.ready  BY <1>4 DEF Open, TaskSound, MasqueTask
  <2> HIDE DEF q
  <2>2. TaskSound(q)  BY <1>1, <1>2, <1>4, <2>1 DEF TaskSound
  <2> QED  BY <2>2, <1>2 DEF q
<1> QED  BY <1>3, <1>4

LEMMA TaskConfirms ==
  ASSUME NEW r, TaskSound(r), r.established
  PROVE  TaskSound(Confirmed(r)) /\ Confirmed(r).established
         /\ Confirmed(r).transport = r.transport
<1>0. r \in MasqueTask /\ r.successes \in Nat /\ Required \in Nat /\ r.ready \in BOOLEAN
  BY MasqueConstants DEF TaskSound, MasqueTask
<1>1. CASE r.ready  BY <1>1 DEF Confirmed
<1>2. CASE ~r.ready /\ r.successes + 1 < Required
  <2> DEFINE q == [r EXCEPT !.successes = r.successes + 1]
  <2>1. Confirmed(r) = q  BY <1>2 DEF Confirmed
  <2>2. r.successes + 1 \in 0 .. Required  BY <1>0, <1>2
  <2>3. q \in MasqueTask  BY <1>0, <2>2 DEF MasqueTask
  <2>4. /\ ~q.ready /\ q.successes = r.successes + 1 /\ q.established
        /\ q.transport = r.transport
    BY <1>0, <1>2 DEF MasqueTask
  <2> HIDE DEF q
  <2>5. TaskSound(q)  BY <1>2, <2>3, <2>4 DEF TaskSound
  <2> QED  BY <2>1, <2>4, <2>5
<1>3. CASE ~r.ready /\ ~(r.successes + 1 < Required)
  <2> DEFINE q == [r EXCEPT !.successes = r.successes + 1, !.ready = TRUE, !.validate = "none"]
  <2>1. Confirmed(r) = q  BY <1>3 DEF Confirmed
  <2>2. r.successes + 1 = Required  BY <1>0, <1>3 DEF TaskSound
  <2>3. q \in MasqueTask
    <3>1. Required \in 0 .. Required  BY <1>0
    <3>2. q = [r EXCEPT !.successes = Required, !.ready = TRUE, !.validate = "none"]
      BY <2>2
    <3> QED  BY <1>0, <3>1, <3>2 DEF MasqueTask
  <2>4. /\ q.ready /\ q.successes = Required /\ q.established /\ q.transport = r.transport
    BY <1>0, <2>2 DEF MasqueTask
  <2> HIDE DEF q
  <2>5. TaskSound(q)  BY <2>3, <2>4 DEF TaskSound
  <2> QED  BY <2>1, <2>4, <2>5
<1> QED  BY <1>1, <1>2, <1>3

LEMMA TaskSends ==
  ASSUME NEW r, TaskSound(r), r.established, NEW out \in BOOLEAN, SendCapsule(r, out)
  PROVE  TaskSound(mq') /\ asked' \in BOOLEAN
<1>1. asked' \in BOOLEAN  BY DEF SendCapsule
<1>2. CASE r.window = 0  BY <1>1, <1>2, TaskGoes DEF SendCapsule
<1>3. CASE r.window # 0
  <2> DEFINE q == [r EXCEPT !.window = r.window - 1]
  <2>1. r.window - 1 \in 0 .. Window  BY <1>3, MasqueConstants DEF TaskSound, MasqueTask
  <2>2. q \in MasqueTask  BY <2>1 DEF TaskSound, MasqueTask
  <2>3. /\ q.transport = r.transport /\ q.pc = r.pc /\ q.established = r.established
        /\ q.ready = r.ready /\ q.successes = r.successes
    BY DEF TaskSound, MasqueTask
  <2>4. mq' = [q EXCEPT !.pc = "top"]  BY <1>3 DEF SendCapsule, TaskSound, MasqueTask
  <2> HIDE DEF q
  <2>5. TaskSound(q)  BY <2>2, <2>3, TaskKeeps
  <2> QED  BY <1>1, <2>3, <2>4, <2>5, TaskGoes
<1> QED  BY <1>2, <1>3

LEMMA MasqueStep == MasqueInv /\ [MasqueNext]_mqVars => MasqueInv'
<1> SUFFICES ASSUME MasqueInv, [MasqueNext]_mqVars PROVE MasqueInv'
  OBVIOUS
<1>0. /\ TaskSound(mq) /\ edge \in EdgeModes /\ asked \in BOOLEAN /\ mq \in MasqueTask
      /\ mq.established \in BOOLEAN
  BY DEF MasqueInv, TaskSound, MasqueTask
<1> USE DEF MasqueInv
<1>1. CASE Top
  <2>1. mq.transport = "h2" => mq.established  BY <1>0, <1>1 DEF Top, TaskSound
  <2> QED  BY <1>0, <1>1, <2>1, TaskEnds, TaskGoes DEF Top
<1>2. CASE H3Keepalive  BY <1>0, <1>2, TaskGoes DEF H3Keepalive, At
<1>3. CASE H3Sends  BY <1>0, <1>3, TaskGoes DEF H3Sends, At
<1>4. CASE H3Established  BY <1>0, <1>4, TaskOpens, TaskGoes DEF H3Established, At
<1>5. CASE EchRejected
  <2>1. CASE mq.retried  BY <1>0, <1>5, <2>1, TaskEnds DEF EchRejected
  <2>2. CASE ~mq.retried
    <3> DEFINE q == [mq EXCEPT !.ech = "retry", !.retried = TRUE]
    <3>1. q \in MasqueTask  BY <1>0 DEF MasqueTask
    <3>2. /\ q.transport = mq.transport /\ q.pc = mq.pc /\ q.established = mq.established
          /\ q.ready = mq.ready /\ q.successes = mq.successes
      BY <1>0 DEF MasqueTask
    <3>3. mq' = [q EXCEPT !.pc = "top"]
      BY <1>0, <1>5, <2>2 DEF EchRejected, MasqueTask
    <3> HIDE DEF q
    <3>4. TaskSound(q)  BY <1>0, <3>1, <3>2, TaskKeeps
    <3>5. q.transport = "h3" /\ UNCHANGED <<edge, asked>>  BY <1>5, <3>2 DEF EchRejected, At
    <3> QED  BY <1>0, <3>3, <3>4, <3>5, TaskGoes
  <2> QED  BY <2>1, <2>2
<1>6. CASE H3Answer  BY <1>0, <1>6, TaskConfirms, TaskGoes DEF H3Answer, At
<1>7. CASE H3Closed  BY <1>0, <1>7, TaskEnds DEF H3Closed
<1>8. CASE H2Dialled
  <2>1. CASE mq' = Ended(mq) /\ UNCHANGED asked
    BY <1>0, <1>8, <2>1, TaskEnds DEF H2Dialled
  <2>2. CASE SendCapsule(Open(mq), FALSE)
    BY <1>0, <1>8, <2>2, TaskOpens, TaskSends DEF H2Dialled
  <2>3. CASE mq' = [Open(mq) EXCEPT !.pc = "top"] /\ UNCHANGED asked
    BY <1>0, <1>8, <2>3, TaskOpens, TaskGoes DEF H2Dialled
  <2> QED  BY <1>8, <2>1, <2>2, <2>3 DEF H2Dialled
<1>9. CASE H2Ping
  <2> DEFINE q == [mq EXCEPT !.pong = "sent"]
  <2>1. q \in MasqueTask  BY <1>0 DEF MasqueTask
  <2>2. /\ q.transport = mq.transport /\ q.pc = mq.pc /\ q.established = mq.established
        /\ q.ready = mq.ready /\ q.successes = mq.successes
    BY <1>0 DEF MasqueTask
  <2>3. mq' = [q EXCEPT !.pc = "top"]  BY <1>0, <1>9 DEF H2Ping, MasqueTask
  <2>4. mq.established /\ UNCHANGED <<edge, asked>>  BY <1>0, <1>9 DEF H2Ping, At, TaskSound
  <2> HIDE DEF q
  <2>5. TaskSound(q)  BY <1>0, <2>1, <2>2, TaskKeeps
  <2> QED  BY <1>0, <2>2, <2>3, <2>4, <2>5, TaskGoes
<1>10. CASE H2Pong
  <2> DEFINE q == [mq EXCEPT !.pong = "none"]
  <2>1. q \in MasqueTask  BY <1>0 DEF MasqueTask
  <2>2. /\ q.transport = mq.transport /\ q.pc = mq.pc /\ q.established = mq.established
        /\ q.ready = mq.ready /\ q.successes = mq.successes
    BY <1>0 DEF MasqueTask
  <2>3. mq' = [q EXCEPT !.pc = "top"]  BY <1>0, <1>10 DEF H2Pong, MasqueTask
  <2>4. mq.established /\ UNCHANGED <<edge, asked>>  BY <1>0, <1>10 DEF H2Pong, At, TaskSound
  <2> HIDE DEF q
  <2>5. TaskSound(q)  BY <1>0, <2>1, <2>2, TaskKeeps
  <2> QED  BY <1>0, <2>2, <2>3, <2>4, <2>5, TaskGoes
<1>11. CASE H2Sends
  <2>1. mq.established  BY <1>0, <1>11 DEF H2Sends, At, TaskSound
  <2> QED  BY <1>0, <1>11, <2>1, TaskSends DEF H2Sends
<1>12. CASE H2Answer
  <2>1. mq.established  BY <1>0, <1>12 DEF H2Answer, At, TaskSound
  <2>2. TaskSound(Confirmed(mq)) /\ Confirmed(mq).established  BY <1>0, <2>1, TaskConfirms
  <2>3. CASE mq' = [Confirmed(mq) EXCEPT !.pc = "top"] /\ asked' = FALSE
    BY <1>0, <1>12, <2>2, <2>3, TaskGoes DEF H2Answer
  <2>4. CASE SendCapsule(Confirmed(mq), FALSE)
    BY <1>0, <1>12, <2>2, <2>4, TaskSends DEF H2Answer
  <2> QED  BY <1>12, <2>3, <2>4 DEF H2Answer
<1>13. CASE H2Window
  <2> DEFINE q == [mq EXCEPT !.window = Window]
             pc == IF mq.pc = "blocked" THEN "top" ELSE mq.pc
  <2>1. q \in MasqueTask  BY <1>0, MasqueConstants DEF MasqueTask
  <2>2. /\ q.transport = mq.transport /\ q.pc = mq.pc /\ q.established = mq.established
        /\ q.ready = mq.ready /\ q.successes = mq.successes
    BY <1>0 DEF MasqueTask
  <2>3. mq' = [q EXCEPT !.pc = pc]  BY <1>0, <1>13 DEF H2Window, MasqueTask
  <2>4. mq.established /\ pc \in {"top", "select"} /\ UNCHANGED <<edge, asked>>
    BY <1>0, <1>13 DEF H2Window, TaskSound
  <2> HIDE DEF q, pc
  <2>5. TaskSound(q)  BY <1>0, <2>1, <2>2, TaskKeeps
  <2> QED  BY <1>0, <2>2, <2>3, <2>4, <2>5, TaskGoes
<1>14. CASE H2Closed  BY <1>0, <1>14, TaskEnds DEF H2Closed
<1>15. CASE MasqueClosed  BY <1>0, <1>15, TaskEnds DEF MasqueClosed
<1>16. CASE ValidatePasses
  <2>1. mq' \in MasqueTask /\ UNCHANGED <<edge, asked>>
    BY <1>0, <1>16 DEF ValidatePasses, MasqueTask
  <2>2. /\ mq'.transport = mq.transport /\ mq'.pc = mq.pc /\ mq'.established = mq.established
        /\ mq'.ready = mq.ready /\ mq'.successes = mq.successes
    BY <1>0, <1>16 DEF ValidatePasses, MasqueTask
  <2> QED  BY <1>0, <2>1, <2>2, TaskKeeps
<1>17. CASE PongPasses
  <2>1. mq' \in MasqueTask /\ UNCHANGED <<edge, asked>>
    BY <1>0, <1>17 DEF PongPasses, MasqueTask
  <2>2. /\ mq'.transport = mq.transport /\ mq'.pc = mq.pc /\ mq'.established = mq.established
        /\ mq'.ready = mq.ready /\ mq'.successes = mq.successes
    BY <1>0, <1>17 DEF PongPasses, MasqueTask
  <2> QED  BY <1>0, <2>1, <2>2, TaskKeeps
<1>18. CASE StartupTimeout  BY <1>0, <1>18, TaskEnds DEF StartupTimeout
<1>19. CASE EdgeChanges  BY <1>0, <1>19 DEF EdgeChanges, TaskSound
<1>20. CASE UNCHANGED mqVars  BY <1>0, <1>20 DEF mqVars, TaskSound
<1> QED  BY <1>1, <1>2, <1>3, <1>4, <1>5, <1>6, <1>7, <1>8, <1>9, <1>10,
         <1>11, <1>12, <1>13, <1>14, <1>15, <1>16, <1>17, <1>18, <1>19, <1>20
         DEF MasqueNext, H3, H2

\* quic::run and masque_h2::run call a tunnel ready only when the connection is
\* there and, unless the check is off, DATA_PROBE_REQUIRED_SUCCESSES packets of
\* the edge have come through it; send_capsule never overruns the window.  It is
\* the safety half of HandshakeResolves.
THEOREM MasqueReadyConfirmed == MasqueSpec => []MasqueTypeOK
<1>1. MasqueInv => MasqueTypeOK  BY DEF MasqueInv, TaskSound, MasqueTask, MasqueTypeOK
<1> QED  BY <1>1, MasqueInitInv, MasqueStep, PTL DEF MasqueSpec

-----------------------------------------------------------------------------
(* The WireGuard tunnel. *)

\* What has come and was valid has been heard, or waits in the socket.
WgInv ==
  /\ StaleOnlyIfSilent
  /\ wg = "handshake" => confirmed = 0
  /\ wg = "data" => confirmed < WgRequired
  /\ wg # "ended" => wgWhy = "none" /\ errors <= MaxTransient
  /\ answer \notin Valid => quiet >= idle

LEMMA WgInitInv == WgInit => WgInv
BY WgConstants DEF WgInit, WgInv, StaleOnlyIfSilent, WgTypeOK, Answers, Valid

LEMMA WgStep == WgInv /\ [WgNext]_wgVars => WgInv'
<1> SUFFICES ASSUME WgInv, [WgNext]_wgVars PROVE WgInv'
  OBVIOUS
<1> USE WgConstants DEF WgInv, StaleOnlyIfSilent, WgTypeOK, Answers, Valid, session
<1>1. CASE Handshake  BY <1>1 DEF Handshake
<1>2. CASE DataConfirmed  BY <1>2 DEF DataConfirmed
<1>3. CASE VerifyFails  BY <1>3 DEF VerifyFails
<1>4. CASE Recv  BY <1>4 DEF Recv
<1>5. CASE RecvDelivers  BY <1>5 DEF RecvDelivers
<1>6. CASE RecvError  BY <1>6 DEF RecvError, WgEnds
<1>7. CASE RecvFails  BY <1>7 DEF RecvFails, WgEnds
<1>8. CASE SendEnds  BY <1>8 DEF SendEnds, WgEnds
<1>9. CASE StackTakes  BY <1>9 DEF StackTakes
<1>10. CASE HealthTick  BY <1>10 DEF HealthTick, WgEnds
<1>11. CASE HealthLocks  BY <1>11 DEF HealthLocks
<1>12. CASE HealthSends  BY <1>12 DEF HealthSends
<1>13. CASE EdgeSends  BY <1>13 DEF EdgeSends
<1>14. CASE TimePasses  BY <1>14 DEF TimePasses, Later
<1>15. CASE RecvAgain  BY <1>15 DEF RecvAgain
<1>16. CASE UNCHANGED wgVars  BY <1>16 DEF wgVars
<1> QED  BY <1>1, <1>2, <1>3, <1>4, <1>5, <1>6, <1>7, <1>8, <1>9, <1>10, <1>11, <1>12, <1>13,
            <1>14, <1>15, <1>16
         DEF WgNext, WgVerify, WgRun, WgReceives, WgProbes

\* WgTunnel::run ends a tunnel as stale only when nothing valid has come from
\* the edge for wg_stale_timeout, or when what has come waits in the socket,
\* whatever the tasks wait for and however long they do.
THEOREM StaleOnlyIfSilentAlways == WgSpec => []StaleOnlyIfSilent
<1>1. WgInv => StaleOnlyIfSilent  BY DEF WgInv
<1> QED  BY <1>1, WgInitInv, WgStep, PTL DEF WgSpec

-----------------------------------------------------------------------------
(* The tasks of a tunnel. *)

HasSocks(a) == "socks" \in tasks[a]

\* Attempts follow each other: the ones before one that was made are over.
InTurn ==
  \A a, b \in Attempts : main[a] # "none" /\ b < a => Over(b)

\* Which of the three an attempt is tells the places where its future can be.
KindFits ==
  \A a \in Attempts : /\ main[a] = "none" <=> kind[a] = "none"
                      /\ main[a] \in {"forwarding", "inner"} => kind[a] = "gool"
                      /\ main[a] = "joining" => kind[a] \in {"wireguard", "gool"}

\* There is a listener from the validation on.  When the future returns it is
\* gone or, of MASQUE, told to go; a listener of warp-in-warp goes with the
\* inner tunnel.
ListenerFits ==
  \A a \in Attempts :
    /\ main[a] \in {"none", "validating", "forwarding", "inner"} => ~HasSocks(a)
    /\ main[a] = "returned" /\ HasSocks(a) => kind[a] = "masque" /\ "socks" \in aborting[a]
    /\ kind[a] = "gool" /\ main[a] \in {"validating", "forwarding", "inner", "returned"} =>
         "inner" \notin tasks[a]
    /\ main[a] = "none" => tasks[a] = {}

Tidy ==
  /\ tasks \in [Attempts -> SUBSET TaskNames] /\ aborting \in [Attempts -> SUBSET TaskNames]
  /\ TasksTypeOK /\ InTurn /\ KindFits /\ ListenerFits

TasksInv == Tidy /\ RefusedOnlyIfNotAwaited

\* Why a listener may have been refused.
Excused(a) ==
  \/ main[a] = "dropped" \/ port = Foreign
  \/ \E b \in Attempts : b < a /\ (kind[b] = "masque" \/ main[b] = "dropped")

LEMMA AttemptNumbers ==
  0 \notin Attempts /\ Foreign \notin Attempts /\ Foreign # 0 /\ Attempts \subseteq Nat
BY TunnelTasksConstants DEF Attempts, Foreign

LEMMA TasksInitInv == TasksInit => TasksInv
<1> SUFFICES ASSUME NEW p \in {0, Foreign}, TasksStart(p) PROVE TasksInv
  BY DEF TasksInit
<1> QED  BY AttemptNumbers DEF TasksStart, TasksInv, Tidy, TasksTypeOK, InTurn, KindFits,
            ListenerFits, HasSocks, RefusedOnlyIfNotAwaited, TaskNames

\* What excused a listener excuses it ever after.
LEMMA ExcuseStays ==
  ASSUME NEW a \in Attempts, Excused(a),
         \A b \in Attempts : /\ main[b] = "dropped" => main'[b] = "dropped"
                             /\ kind[b] = "masque" => kind'[b] = "masque",
         port = Foreign => port' = Foreign
  PROVE  Excused(a)'
BY DEF Excused, Foreign

LEMMA RefusedStays ==
  ASSUME TasksInv, UNCHANGED refused,
         \A b \in Attempts : /\ main[b] = "dropped" => main'[b] = "dropped"
                             /\ kind[b] = "masque" => kind'[b] = "masque",
         port = Foreign => port' = Foreign
  PROVE  RefusedOnlyIfNotAwaited'
<1> SUFFICES ASSUME NEW a \in refused PROVE Excused(a)'
  BY DEF RefusedOnlyIfNotAwaited, Excused
<1>1. a \in Attempts /\ Excused(a)
  BY DEF TasksInv, Tidy, TasksTypeOK, RefusedOnlyIfNotAwaited, Excused
<1> QED  BY <1>1, ExcuseStays

\* A future that goes on, spawning tasks and aborting others.
LEMMA GoInv ==
  ASSUME TasksInv, NEW a \in Attempts, NEW pc, NEW new \in SUBSET TaskNames, NEW end,
         Go(a, pc, new, end), UNCHANGED <<kind, port, refused>>,
         main[a] # "none" /\ ~Over(a),
         pc \in {"forwarding", "inner", "up", "joining", "returned", "dropped"},
         pc \in {"forwarding", "inner"} =>
           kind[a] = "gool" /\ {"socks", "inner"} \intersect (tasks[a] \union new) = {},
         pc = "joining" => kind[a] \in {"wireguard", "gool"},
         pc = "returned" =>
           /\ "socks" \in tasks[a] \union new => kind[a] = "masque" /\ "socks" \in end
           /\ kind[a] = "gool" => "inner" \notin tasks[a] \union new
  PROVE  TasksInv'
<1>1. /\ \A b \in Attempts : main'[b] = IF b = a THEN pc ELSE main[b]
      /\ \A b \in Attempts : tasks'[b] = IF b = a THEN tasks[a] \union new ELSE tasks[b]
      /\ \A b \in Attempts : aborting'[b] =
           IF b = a THEN aborting[a] \union (end \intersect (tasks[a] \union new)) ELSE aborting[b]
      /\ UNCHANGED <<kind, port, refused>>
  BY DEF Go, TasksInv, Tidy, TasksTypeOK
<1>2. TasksTypeOK'
      /\ tasks' \in [Attempts -> SUBSET TaskNames] /\ aborting' \in [Attempts -> SUBSET TaskNames]
  <2>1. tasks' \in [Attempts -> SUBSET TaskNames]  BY DEF Go, TasksInv, Tidy
  <2>2. tasks[a] \subseteq TaskNames  BY DEF TasksInv, Tidy
  <2>3. aborting' \in [Attempts -> SUBSET TaskNames]  BY <2>2 DEF Go, TasksInv, Tidy
  <2>4. main' \in [Attempts -> {"none", "validating", "forwarding", "inner", "up",
                               "joining", "returned", "dropped"}]
    BY DEF Go, TasksInv, Tidy, TasksTypeOK
  <2>5. \A b \in Attempts : aborting'[b] \subseteq tasks'[b] /\ tasks'[b] \subseteq TaskNames
    BY <1>1, <2>2 DEF TasksInv, Tidy, TasksTypeOK
  <2>6. port' \in Attempts => "socks" \in tasks'[port']
    BY <1>1 DEF TasksInv, Tidy, TasksTypeOK
  <2> QED  BY <1>1, <2>1, <2>3, <2>4, <2>5, <2>6 DEF TasksInv, Tidy, TasksTypeOK, Foreign
<1>3. InTurn'
  <2>1. \A b \in Attempts : (Over(b) => Over(b)') /\ (main'[b] # "none" => main[b] # "none")
    BY <1>1 DEF Over
  <2> QED  BY <2>1 DEF InTurn, TasksInv, Tidy
<1>4. KindFits'  BY <1>1 DEF KindFits, TasksInv, Tidy
<1>5. ListenerFits'
  <2> SUFFICES ASSUME NEW b \in Attempts
               PROVE  (/\ main[b] \in {"none", "validating", "forwarding", "inner"} => ~HasSocks(b)
                       /\ main[b] = "returned" /\ HasSocks(b) =>
                            kind[b] = "masque" /\ "socks" \in aborting[b]
                       /\ kind[b] = "gool"
                          /\ main[b] \in {"validating", "forwarding", "inner", "returned"} =>
                            "inner" \notin tasks[b]
                       /\ main[b] = "none" => tasks[b] = {})'
    BY DEF ListenerFits
  <2>1. CASE b = a  BY <1>1, <2>1 DEF HasSocks
  <2>2. CASE b # a  BY <1>1, <2>2 DEF HasSocks, ListenerFits, TasksInv, Tidy
  <2> QED  BY <2>1, <2>2
<1>6. RefusedOnlyIfNotAwaited'  BY <1>1, RefusedStays DEF Over
<1> QED  BY <1>2, <1>3, <1>4, <1>5, <1>6 DEF TasksInv, Tidy

LEMMA BeginTunnelInv ==
  ASSUME TasksInv, NEW a \in Attempts, BeginTunnel(a) PROVE TasksInv'
<1>1. PICK k \in TunnelKinds :
        /\ kind' = [kind EXCEPT ![a] = k]
        /\ Go(a, "validating", IF k = "masque" THEN {"stack", "bridge", "tunnel"} ELSE {}, {})
  BY TunnelTasksConstants DEF BeginTunnel
<1>2. UNCHANGED <<port, refused>> /\ main[a] = "none" /\ tasks[a] = {}
      /\ \A b \in Attempts : b < a => Over(b)
  BY DEF BeginTunnel, TasksInv, Tidy, ListenerFits
<1> DEFINE new == IF k = "masque" THEN {"stack", "bridge", "tunnel"} ELSE {}
<1>3. new \subseteq TaskNames /\ "socks" \notin new /\ "inner" \notin new
      /\ k \in {"masque", "wireguard", "gool"}
  BY DEF TaskNames, TunnelKinds
<1>4. /\ main' = [main EXCEPT ![a] = "validating"] /\ tasks' = [tasks EXCEPT ![a] = new]
      /\ UNCHANGED aborting
  <2>1. aborting[a] \union ({} \intersect (tasks[a] \union new)) = aborting[a]
        /\ tasks[a] \union new = new
    BY <1>2
  <2>2. aborting' = [aborting EXCEPT ![a] = aborting[a]]  BY <1>1, <2>1 DEF Go
  <2> QED  BY <1>1, <2>1, <2>2 DEF Go, TasksInv, Tidy
<1> HIDE DEF new
<1>5. TasksTypeOK' /\ tasks' \in [Attempts -> SUBSET TaskNames]
      /\ aborting' \in [Attempts -> SUBSET TaskNames]
  <2>1. port' \in Attempts => "socks" \in tasks'[port']
    BY <1>2, <1>4 DEF TasksInv, Tidy, TasksTypeOK
  <2>2. \A b \in Attempts : aborting'[b] \subseteq tasks'[b] /\ tasks'[b] \subseteq TaskNames
    BY <1>2, <1>3, <1>4 DEF TasksInv, Tidy, TasksTypeOK
  <2> QED  BY <1>1, <1>2, <1>3, <1>4, <2>1, <2>2 DEF TasksInv, Tidy, TasksTypeOK, Foreign
<1>6. InTurn'
  <2> SUFFICES ASSUME NEW c \in Attempts, NEW b \in Attempts, main'[c] # "none", b < c
               PROVE  Over(b)'
    BY DEF InTurn
  <2>1. main' = [main EXCEPT ![a] = "validating"] /\ ~Over(a)  BY <1>2, <1>4 DEF Over
  <2>2. Over(b)
    <3>1. CASE c = a  BY <1>2, <3>1
    <3>2. CASE c # a  BY <2>1, <3>2 DEF InTurn, TasksInv, Tidy
    <3> QED  BY <3>1, <3>2
  <2> QED  BY <2>1, <2>2 DEF Over
<1>7. KindFits'  BY <1>1, <1>3, <1>4 DEF KindFits, TasksInv, Tidy, TasksTypeOK
<1>8. ListenerFits'
  BY <1>1, <1>3, <1>4 DEF ListenerFits, HasSocks, TasksInv, Tidy, TasksTypeOK
<1>9. RefusedOnlyIfNotAwaited'
  <2>1. kind[a] = "none"  BY <1>2 DEF TasksInv, Tidy, KindFits
  <2> QED  BY <1>1, <1>2, <1>4, <2>1, RefusedStays DEF TasksInv, Tidy, TasksTypeOK
<1> QED  BY <1>5, <1>6, <1>7, <1>8, <1>9 DEF TasksInv, Tidy

\* Tasks that end take the port with them.
LEMMA EndTidy ==
  ASSUME Tidy, NEW a \in Attempts, NEW ts, End(a, ts), refused' \subseteq Attempts
  PROVE  Tidy' /\ (port = Foreign => port' = Foreign)
<1>1. /\ \A b \in Attempts : tasks'[b] = IF b = a THEN tasks[a] \ ts ELSE tasks[b]
      /\ \A b \in Attempts : aborting'[b] = IF b = a THEN aborting[a] \ ts ELSE aborting[b]
      /\ tasks' \in [Attempts -> SUBSET TaskNames] /\ aborting' \in [Attempts -> SUBSET TaskNames]
      /\ port' = (IF "socks" \in ts /\ port = a THEN 0 ELSE port)
      /\ UNCHANGED <<kind, main>>
  BY DEF End, Tidy
<1>2. TasksTypeOK'
  <2>1. port' \in Attempts => "socks" \in tasks'[port']
    BY <1>1, AttemptNumbers DEF Tidy, TasksTypeOK
  <2>2. \A b \in Attempts : aborting'[b] \subseteq tasks'[b] /\ tasks'[b] \subseteq TaskNames
    BY <1>1 DEF Tidy, TasksTypeOK
  <2> QED  BY <1>1, <2>1, <2>2 DEF Tidy, TasksTypeOK, Foreign
<1>3. InTurn' /\ KindFits'  BY <1>1 DEF Tidy, InTurn, Over, KindFits
<1>4. ListenerFits'  BY <1>1 DEF Tidy, ListenerFits, HasSocks
<1>5. port = Foreign => port' = Foreign  BY <1>1, AttemptNumbers
<1> QED  BY <1>1, <1>2, <1>3, <1>4, <1>5 DEF Tidy

LEMMA EndInv ==
  ASSUME TasksInv, NEW a \in Attempts, NEW ts, End(a, ts), UNCHANGED refused
  PROVE  TasksInv'
<1>1. Tidy' /\ (port = Foreign => port' = Foreign)
  BY EndTidy DEF TasksInv, Tidy, TasksTypeOK
<1>2. RefusedOnlyIfNotAwaited'  BY <1>1, RefusedStays DEF End
<1> QED  BY <1>1, <1>2 DEF TasksInv

\* Who has the port when a listener that was not told to end wants it: another
\* program, a later attempt, so that this one was dropped, or an earlier one
\* whose listener nobody awaited.
LEMMA BindInv == ASSUME TasksInv, NEW a \in Attempts, Bind(a) PROVE TasksInv'
<1>1. CASE port = 0
  <2>1. port' = a /\ UNCHANGED <<kind, main, tasks, aborting, refused>> /\ "socks" \in tasks[a]
    BY <1>1 DEF Bind
  <2>2. Tidy'
    BY <2>1 DEF TasksInv, Tidy, TasksTypeOK, InTurn, Over, KindFits, ListenerFits, HasSocks,
       Foreign
  <2>3. RefusedOnlyIfNotAwaited'  BY <1>1, <2>1, AttemptNumbers, RefusedStays
  <2> QED  BY <2>2, <2>3 DEF TasksInv
<1>2. CASE port # 0
  <2>1. End(a, {"socks"}) /\ refused' = refused \union {a} /\ port # a
        /\ "socks" \in tasks[a] /\ "socks" \notin aborting[a]
    BY <1>2 DEF Bind, Ends
  <2>2. Tidy' /\ (port = Foreign => port' = Foreign) /\ UNCHANGED <<kind, main>>
    <3>1. Tidy /\ refused' \subseteq Attempts  BY <2>1 DEF TasksInv, Tidy, TasksTypeOK
    <3>2. UNCHANGED <<kind, main>>  BY <2>1 DEF End
    <3> QED  BY <2>1, <3>1, <3>2, EndTidy
  <2>3. Excused(a)
    <3>1. port \in Attempts \union {Foreign}  BY <1>2 DEF TasksInv, Tidy, TasksTypeOK
    <3>2. CASE port = Foreign  BY <3>2 DEF Excused
    <3>3. CASE port \in Attempts
      <4>1. HasSocks(port) /\ HasSocks(a) /\ main[port] # "none" /\ main[a] # "none"
        BY <2>1, <3>3 DEF TasksInv, Tidy, TasksTypeOK, HasSocks, ListenerFits
      <4>2. port < a \/ a < port  BY <2>1, <3>3, AttemptNumbers
      <4>3. CASE a < port
        <5>1. Over(a)  BY <3>3, <4>1, <4>3 DEF TasksInv, Tidy, InTurn
        <5>2. main[a] # "returned"  BY <2>1, <4>1 DEF TasksInv, Tidy, ListenerFits
        <5> QED  BY <5>1, <5>2 DEF Over, Excused
      <4>4. CASE port < a
        <5>1. Over(port)  BY <3>3, <4>1, <4>4 DEF TasksInv, Tidy, InTurn
        <5>2. main[port] = "returned" => kind[port] = "masque"
          BY <3>3, <4>1 DEF TasksInv, Tidy, ListenerFits
        <5> QED  BY <3>3, <4>4, <5>1, <5>2 DEF Over, Excused
      <4> QED  BY <4>2, <4>3, <4>4
    <3> QED  BY <3>1, <3>2, <3>3
  <2>4. ASSUME NEW c \in refused' PROVE Excused(c)'
    <3>1. c \in Attempts /\ Excused(c)
      BY <2>1, <2>3 DEF TasksInv, Tidy, TasksTypeOK, RefusedOnlyIfNotAwaited, Excused
    <3> QED  BY <2>2, <3>1, ExcuseStays
  <2>5. RefusedOnlyIfNotAwaited'  BY <2>4 DEF RefusedOnlyIfNotAwaited, Excused
  <2> QED  BY <2>2, <2>5 DEF TasksInv
<1> QED  BY <1>1, <1>2

\* The steps of an attempt's future, one by one.
LEMMA FutureInv ==
  ASSUME TasksInv, NEW a \in Attempts,
         \/ Validated(a) \/ NotValidated(a) \/ Forward(a) \/ InnerValidated(a) \/ InnerFails(a)
         \/ MasqueEnds(a) \/ WireguardEnds(a) \/ WireguardReturns(a)
         \/ GoolEnds(a) \/ GoolReturns(a) \/ Drop(a)
  PROVE  TasksInv'
<1>1. /\ main[a] # "none" => kind[a] \in {"masque", "wireguard", "gool"}
      /\ main[a] \in {"validating", "forwarding", "inner"} => "socks" \notin tasks[a]
      /\ main[a] \in {"validating", "forwarding", "inner"} /\ kind[a] = "gool" =>
           "inner" \notin tasks[a]
      /\ main[a] \in {"forwarding", "inner"} => kind[a] = "gool"
  BY DEF TasksInv, Tidy, KindFits, ListenerFits, HasSocks, TasksTypeOK, TunnelKinds
<1>2. HttpProxy(a) \subseteq {"http"}  BY DEF HttpProxy
<1>3. {} \in SUBSET TaskNames  OBVIOUS
<1>4. CASE Validated(a)
  <2>1. main[a] = "validating" /\ UNCHANGED <<kind, port, refused>>  BY <1>4 DEF Validated
  <2>2. ~Over(a)  BY <2>1 DEF Over
  <2>3. CASE kind[a] = "masque"
    <3>1. Go(a, "up", {"socks"} \union HttpProxy(a), {})  BY <1>4, <2>3 DEF Validated
    <3>2. {"socks"} \union HttpProxy(a) \in SUBSET TaskNames  BY <1>2 DEF TaskNames
    <3> QED  BY <2>1, <2>2, <3>1, <3>2, GoInv
  <2>4. CASE kind[a] = "wireguard"
    <3>1. Go(a, "up", {"stack", "socks"} \union HttpProxy(a), {})  BY <1>4, <2>4 DEF Validated
    <3>2. {"stack", "socks"} \union HttpProxy(a) \in SUBSET TaskNames  BY <1>2 DEF TaskNames
    <3> QED  BY <2>1, <2>2, <3>1, <3>2, GoInv
  <2>5. CASE kind[a] = "gool"
    <3>1. Go(a, "forwarding", {"outer", "outerStack"}, {})  BY <1>4, <2>5 DEF Validated
    <3>2. {"outer", "outerStack"} \in SUBSET TaskNames  BY DEF TaskNames
    <3>3. {"socks", "inner"} \intersect (tasks[a] \union {"outer", "outerStack"}) = {}
      BY <1>1, <2>1, <2>5
    <3> QED  BY <2>1, <2>2, <2>5, <3>1, <3>2, <3>3, GoInv
  <2> QED  BY <1>1, <2>1, <2>3, <2>4, <2>5
\* A return, with what the guard aborts.
<1>5. ASSUME main[a] # "none", ~Over(a), Go(a, "returned", {}, Guarded(a)),
             UNCHANGED <<kind, port, refused>>,
             "socks" \in tasks[a] => kind[a] = "masque",
             kind[a] = "gool" => "inner" \notin tasks[a]
      PROVE  TasksInv'
  <2>1. "socks" \in tasks[a] => "socks" \in Guarded(a)  BY <1>5 DEF Guarded
  <2> QED  BY <1>3, <1>5, <2>1, GoInv
<1>6. CASE NotValidated(a)  BY <1>1, <1>5, <1>6 DEF NotValidated, Over
<1>7. CASE Forward(a)
  <2>1. CASE "outerStack" \in tasks[a]
    <3>1. {"forwarder"} \in SUBSET TaskNames  BY DEF TaskNames
    <3>2. Go(a, "inner", {"forwarder"}, {}) /\ UNCHANGED <<kind, port, refused>>
          /\ main[a] = "forwarding" /\ ~Over(a)
      BY <1>7, <2>1 DEF Forward, Over
    <3>3. kind[a] = "gool" /\ {"socks", "inner"} \intersect (tasks[a] \union {"forwarder"}) = {}
      BY <1>1, <3>2
    <3> QED  BY <3>1, <3>2, <3>3, GoInv
  <2>2. CASE "outerStack" \notin tasks[a]  BY <1>1, <1>5, <1>7, <2>2 DEF Forward, Over
  <2> QED  BY <2>1, <2>2
<1>8. CASE InnerValidated(a)
  <2>1. {"inner", "innerStack", "socks"} \union HttpProxy(a) \in SUBSET TaskNames
    BY <1>2 DEF TaskNames
  <2>2. main[a] = "inner" /\ ~Over(a) /\ UNCHANGED <<kind, port, refused>>
        /\ Go(a, "up", {"inner", "innerStack", "socks"} \union HttpProxy(a), {})
    BY <1>8 DEF InnerValidated, Over
  <2> QED  BY <2>1, <2>2, GoInv
<1>9. CASE InnerFails(a)  BY <1>1, <1>5, <1>9 DEF InnerFails, Over
<1>10. CASE MasqueEnds(a)  BY <1>5, <1>10 DEF MasqueEnds, Over
<1>11. CASE WireguardEnds(a)
  <2>1. main[a] = "up" /\ ~Over(a) /\ UNCHANGED <<kind, port, refused>>
        /\ kind[a] = "wireguard" /\ Go(a, "joining", {}, {"http", "socks"})
    BY <1>11 DEF WireguardEnds, Over
  <2> QED  BY <1>3, <2>1, GoInv
<1>12. CASE WireguardReturns(a)  BY <1>5, <1>12 DEF WireguardReturns, Over
<1>13. CASE GoolEnds(a)
  <2>1. main[a] = "up" /\ ~Over(a) /\ UNCHANGED <<kind, port, refused>>
        /\ kind[a] = "gool" /\ Go(a, "joining", {}, GoolHandles \union {"http"})
    BY <1>13 DEF GoolEnds, Over
  <2> QED  BY <1>3, <2>1, GoInv
<1>14. CASE GoolReturns(a)
  <2>1. "socks" \notin tasks[a] /\ "inner" \notin tasks[a]
    BY <1>14 DEF GoolReturns, GoolHandles
  <2> QED  BY <1>5, <1>14, <2>1 DEF GoolReturns, Over
<1>15. CASE Drop(a)
  <2>1. main[a] # "none" /\ ~Over(a) /\ UNCHANGED <<kind, port, refused>>
        /\ Go(a, "dropped", {}, Guarded(a))
    BY <1>15 DEF Drop, Over
  <2> QED  BY <1>3, <2>1, GoInv
<1> QED  BY <1>4, <1>6, <1>7, <1>8, <1>9, <1>10, <1>11, <1>12, <1>13, <1>14, <1>15

\* A client's task is none of those that matter here.
LEMMA SpawnInv ==
  ASSUME TasksInv, NEW a \in Attempts, HttpAccepts(a) \/ HttpOpens(a)  PROVE TasksInv'
<1>1. PICK t \in {"inside", "outside"} : Spawn(a, t)  BY DEF HttpAccepts, HttpOpens
<1>2. tasks[a] # {} /\ tasks[a] \subseteq TaskNames
  BY DEF HttpAccepts, HttpOpens, TasksInv, Tidy
<1>3. /\ UNCHANGED <<kind, main, aborting, port, refused>>
      /\ \A b \in Attempts : tasks'[b] = IF b = a THEN tasks[a] \union {t} ELSE tasks[b]
  BY <1>1 DEF Spawn, TasksInv, Tidy
<1>4. tasks' \in [Attempts -> SUBSET TaskNames]
  <2>1. tasks[a] \union {t} \in SUBSET TaskNames  BY <1>2 DEF TaskNames
  <2> QED  BY <1>1, <2>1 DEF Spawn, TasksInv, Tidy
<1>5. TasksTypeOK'  BY <1>3, <1>4 DEF TasksInv, Tidy, TasksTypeOK, Foreign
<1>6. InTurn' /\ KindFits'  BY <1>3 DEF TasksInv, Tidy, InTurn, Over, KindFits
<1>7. ListenerFits'
  BY <1>2, <1>3 DEF TasksInv, Tidy, ListenerFits, HasSocks
<1>8. RefusedOnlyIfNotAwaited'  BY <1>3, RefusedStays
<1> QED  BY <1>3, <1>4, <1>5, <1>6, <1>7, <1>8 DEF TasksInv, Tidy

LEMMA TasksStep == TasksInv /\ [TasksNext]_taskVars => TasksInv'
<1> SUFFICES ASSUME TasksInv, [TasksNext]_taskVars PROVE TasksInv'
  OBVIOUS
<1>1. CASE UNCHANGED taskVars
  BY <1>1 DEF taskVars, TasksInv, Tidy, TasksTypeOK, InTurn, Over, KindFits, ListenerFits, HasSocks,
     RefusedOnlyIfNotAwaited, Foreign
<1>2. ASSUME NEW a \in Attempts, BeginTunnel(a) PROVE TasksInv'
  BY <1>2, BeginTunnelInv
<1>3. ASSUME NEW a \in Attempts,
             \/ Validated(a) \/ NotValidated(a) \/ InnerValidated(a) \/ InnerFails(a)
             \/ WireguardEnds(a) \/ Drop(a) \/ Continues(a)
      PROVE  TasksInv'
  BY <1>3, FutureInv DEF Continues
<1>4. ASSUME NEW a \in Attempts, Runtime(a) \/ \E t \in TaskNames : Fails(a, t)
      PROVE  TasksInv'
  <2>1. CASE Bind(a)  BY <2>1, BindInv
  <2>2. CASE ~Bind(a)
    <3>1. PICK ts : End(a, ts) /\ UNCHANGED refused
      BY <1>4, <2>2 DEF Runtime, StackGone, StackEnds, Aborted, BridgeEnds, ForwarderEnds,
         HttpCut, Fails, Ends
    <3> QED  BY <3>1, EndInv
  <2> QED  BY <2>1, <2>2
<1> QED  BY <1>1, <1>2, <1>3, <1>4, SpawnInv DEF TasksNext

\* The SOCKS port passes from an attempt to the next: a listener is refused only
\* when it meets one that nobody awaited (of a MASQUE attempt, or of one that
\* was dropped) or another program, and a warp-in-warp attempt that returns has
\* neither a listener nor an inner tunnel left.
THEOREM PortHandedOnAlways == TasksSpec => []PortHandedOn
<1>1. TasksInv => PortHandedOn
  BY DEF TasksInv, Tidy, PortHandedOn, GoolReturnsWhole, ListenerFits, HasSocks
<1> QED  BY <1>1, TasksInitInv, TasksStep, PTL DEF TasksSpec

-----------------------------------------------------------------------------
(* The registries. *)

Kept == identities \union sessions

\* A cell answers when its task is over, and a job the caller let go of without
\* its answer is remembered as abandoned.
JobFits(j) ==
  /\ ffiTask[j] = "none" <=> ffiJob[j].kind = "none"
  /\ ffiTask[j] = "gone" <=> ffiJob[j].state = "Done"
  /\ ffiTask[j] # "none" /\ ffiJob[j].state # "Done" =>
       ffiJob[j].registered \/ j \in abandoned

\* What is in a registry was put there by its job, which has said so or will.
KeptFits(j) ==
  /\ j \in Kept => ffiTask[j] \in {"kept", "gone"}
  /\ j \in Kept /\ ffiTask[j] = "gone" => ffiJob[j].reply = "id"

\* A session's lock names the job that is inside it, and the other way round.
LockFits ==
  /\ \A s \in Ids : sessionLock[s] # 0 =>
       ffiTask[sessionLock[s]] = "inside" /\ ffiJob[sessionLock[s]].of = s
  /\ \A j \in Jobs : ffiTask[j] = "inside" => sessionLock[ffiJob[j].of] = j

FfiInv ==
  /\ FfiTypeOK /\ 0 \in learned /\ LockFits /\ OnlyAbandonedLeak
  /\ \A j \in Jobs : JobFits(j) /\ KeptFits(j)

JobCells == [kind : FfiKinds \union {"none"}, of : Ids, registered : BOOLEAN, cancelled : BOOLEAN,
             changed : BOOLEAN, state : {"Running", "Done"}, reply : {"none", "id", "value"}]
TaskPlaces == {"none", "ech", "subscribe", "check", "wait", "stopped", "ended", "lock", "inside",
               "work", "kept", "gone"}

LEMMA JobNumbers == Jobs \subseteq Ids /\ 0 \in Ids /\ 0 \notin Jobs /\ Ids = Jobs \union {0}
BY CoreFfiConstants DEF Jobs, Ids

LEMMA FfiInitInv == FfiInit => FfiInv
BY JobNumbers DEF FfiInit, FfiInv, FfiTypeOK, LockFits, OnlyAbandonedLeak, JobFits, KeptFits, Kept,
   NoJob, FfiKinds

\* A step of one job that leaves its session and the registries alone.
LEMMA CellStep ==
  ASSUME FfiInv, NEW j \in Jobs, UNCHANGED <<identities, sessions, sessionLock>>,
         ffiJob' \in [Jobs -> JobCells], ffiTask' \in [Jobs -> TaskPlaces],
         abandoned \subseteq abandoned', abandoned' \subseteq Jobs,
         learned \subseteq learned', learned' \subseteq Ids,
         \A k \in Jobs \ {j} : ffiJob'[k] = ffiJob[k] /\ ffiTask'[k] = ffiTask[k],
         \/ ffiTask'[j] # "inside" /\ ffiTask[j] # "inside"
         \/ ffiTask'[j] = ffiTask[j] /\ ffiJob'[j].of = ffiJob[j].of,
         JobFits(j)', KeptFits(j)',
         j \in Kept => j \in learned' \/ j \in abandoned' \/ ffiJob'[j].registered
  PROVE  FfiInv'
<1>1. Kept' = Kept  BY DEF Kept
<1>2. LockFits'
  <2>1. ASSUME NEW s \in Ids, sessionLock[s] # 0
        PROVE  ffiTask'[sessionLock[s]] = "inside" /\ ffiJob'[sessionLock[s]].of = s
    <3>1. sessionLock[s] \in Jobs /\ ffiTask[sessionLock[s]] = "inside"
          /\ ffiJob[sessionLock[s]].of = s
      BY <2>1, JobNumbers DEF FfiInv, FfiTypeOK, LockFits
    <3> QED  BY <3>1
  <2>2. ASSUME NEW k \in Jobs, ffiTask'[k] = "inside" PROVE sessionLock[ffiJob'[k].of] = k
    BY <2>2 DEF FfiInv, LockFits
  <2> QED  BY <2>1, <2>2 DEF LockFits
<1>3. FfiTypeOK'
  <2>1. \A s \in Ids : sessionLock'[s] # 0 => ffiTask'[sessionLock'[s]] = "inside"
    BY <1>2 DEF LockFits
  <2> QED  BY <2>1 DEF FfiInv, FfiTypeOK, JobCells, TaskPlaces
<1>4. ASSUME NEW k \in Jobs PROVE JobFits(k)' /\ KeptFits(k)'
  <2>1. CASE k = j  BY <2>1
  <2>2. CASE k # j
    <3>1. ffiJob'[k] = ffiJob[k] /\ ffiTask'[k] = ffiTask[k] /\ JobFits(k) /\ KeptFits(k)
      BY <2>2 DEF FfiInv
    <3> QED  BY <1>1, <3>1 DEF JobFits, KeptFits
  <2> QED  BY <2>1, <2>2
<1>5. OnlyAbandonedLeak'
  <2> SUFFICES ASSUME NEW i \in Kept
               PROVE  i \in learned' \/ i \in abandoned'
                      \/ (ffiJob'[i].registered /\ (ffiJob'[i].state = "Done" => ffiJob'[i].reply = "id"))
    BY DEF OnlyAbandonedLeak, Kept
  <2>1. i \in Ids  BY DEF Kept, FfiInv, FfiTypeOK
  <2>2. CASE i = 0  BY <2>2 DEF FfiInv
  <2>3. CASE i = j
    BY <1>1, <2>3 DEF JobFits, KeptFits
  <2>4. CASE i \in Jobs \ {j}
    BY <2>4 DEF FfiInv, OnlyAbandonedLeak, Kept
  <2> QED  BY <2>1, <2>2, <2>3, <2>4, JobNumbers
<1>6. 0 \in learned'  BY DEF FfiInv
<1> QED  BY <1>2, <1>3, <1>4, <1>5, <1>6 DEF FfiInv

\* What a step finds.
LEMMA FfiFacts ==
  ASSUME FfiInv, NEW j \in Jobs
  PROVE  /\ ffiJob \in [Jobs -> JobCells] /\ ffiTask \in [Jobs -> TaskPlaces]
         /\ abandoned \subseteq Jobs /\ learned \subseteq Ids
         /\ JobFits(j) /\ KeptFits(j) /\ j \in Ids
         /\ j \in Kept => j \in learned \/ j \in abandoned \/ ffiJob[j].registered
BY JobNumbers DEF FfiInv, FfiTypeOK, JobCells, TaskPlaces, OnlyAbandonedLeak, Kept

LEMMA StartInv ==
  ASSUME FfiInv, NEW j \in Jobs, NEW k \in FfiKinds, NEW i \in Ids, Start(j, k, i)
  PROVE  FfiInv'
<1>1. PICK pc \in FirstSteps(k) : ffiTask' = [ffiTask EXCEPT ![j] = pc]  BY DEF Start
<1>2. pc \in TaskPlaces \ {"none", "inside", "kept", "gone"}  BY DEF FirstSteps, TaskPlaces
<1>3. ffiJob' = [ffiJob EXCEPT ![j].kind = k, ![j].of = i, ![j].registered = TRUE]
      /\ ffiJob[j].kind = "none" /\ UNCHANGED <<identities, sessions, sessionLock, learned, abandoned>>
  BY DEF Start
<1>4. ffiTask[j] = "none" /\ ffiJob[j].state = "Running" /\ j \notin Kept
  BY <1>3, FfiFacts DEF JobFits, KeptFits, JobCells
<1>0. ffiJob \in [Jobs -> JobCells] /\ ffiTask \in [Jobs -> TaskPlaces]
      /\ abandoned \subseteq Jobs /\ learned \subseteq Ids
  BY FfiFacts
<1>5. ffiJob' \in [Jobs -> JobCells] /\ ffiTask' \in [Jobs -> TaskPlaces]
  <2>1. [ffiJob[j] EXCEPT !.kind = k, !.of = i, !.registered = TRUE] \in JobCells
    BY <1>0 DEF JobCells
  <2> QED  BY <1>0, <1>1, <1>2, <1>3, <2>1
<1>6. ffiJob'[j].kind = k /\ ffiJob'[j].registered /\ ffiJob'[j].state = "Running"
      /\ ffiTask'[j] = pc /\ k # "none"
  BY <1>1, <1>3, <1>4, FfiFacts DEF JobCells, FfiKinds
<1>7. JobFits(j)' /\ KeptFits(j)'  BY <1>2, <1>3, <1>4, <1>6 DEF JobFits, KeptFits, Kept
<1>8. \A m \in Jobs \ {j} : ffiJob'[m] = ffiJob[m] /\ ffiTask'[m] = ffiTask[m]
  BY <1>1, <1>3, FfiFacts
<1>9. ffiTask'[j] # "inside" /\ ffiTask[j] # "inside"  BY <1>2, <1>4, <1>6
<1> QED  BY <1>0, <1>3, <1>4, <1>5, <1>7, <1>8, <1>9, CellStep

LEMMA PollInv == ASSUME FfiInv, NEW j \in Jobs, Poll(j) PROVE FfiInv'
<1>1. UNCHANGED <<ffiJob, ffiTask, identities, sessions, sessionLock, abandoned>>
      /\ learned' = learned \union {j}
  BY DEF Poll
<1>2. JobFits(j)' /\ KeptFits(j)'  BY <1>1, FfiFacts DEF JobFits, KeptFits, Kept
<1> QED  BY <1>1, <1>2, CellStep, FfiFacts

LEMMA JobCancelInv == ASSUME FfiInv, NEW j \in Jobs, JobCancel(j) PROVE FfiInv'
<1>1. UNCHANGED <<ffiTask, identities, sessions, sessionLock, learned, abandoned>>
      /\ ffiJob' = [ffiJob EXCEPT ![j] = [ffiJob[j] EXCEPT !.cancelled = TRUE, !.changed = TRUE]]
  BY DEF JobCancel, Cancelled
<1>2. ffiJob' \in [Jobs -> JobCells]
  <2>1. ffiJob \in [Jobs -> JobCells]  BY FfiFacts
  <2>2. [ffiJob[j] EXCEPT !.cancelled = TRUE, !.changed = TRUE] \in JobCells
    BY <2>1 DEF JobCells
  <2> QED  BY <1>1, <2>1, <2>2
<1>3. ffiJob'[j].kind = ffiJob[j].kind /\ ffiJob'[j].registered = ffiJob[j].registered
      /\ ffiJob'[j].state = ffiJob[j].state /\ ffiJob'[j].of = ffiJob[j].of
      /\ ffiJob'[j].reply = ffiJob[j].reply
  BY <1>1, FfiFacts DEF JobCells
<1>4. JobFits(j)' /\ KeptFits(j)'  BY <1>1, <1>3, FfiFacts DEF JobFits, KeptFits, Kept
<1>5. \A m \in Jobs \ {j} : ffiJob'[m] = ffiJob[m]  BY <1>1, FfiFacts
<1> QED  BY <1>1, <1>2, <1>3, <1>4, <1>5, CellStep, FfiFacts

\* A job that is freed with its answer unread is abandoned; one whose answer is
\* an id the caller has leaves nothing unknown behind.
LEMMA JobFreeInv == ASSUME FfiInv, NEW j \in Jobs, JobFree(j) PROVE FfiInv'
<1>1. UNCHANGED <<ffiTask, identities, sessions, sessionLock, learned>>
      /\ ffiJob' = [ffiJob EXCEPT ![j] =
           [ffiJob[j] EXCEPT !.cancelled = TRUE, !.changed = TRUE, !.registered = FALSE]]
  BY FfiFacts DEF JobFree, Cancelled, JobCells
<1>2. abandoned' = IF ffiJob[j].state = "Done" /\ (ffiJob[j].reply = "id" => j \in learned)
                   THEN abandoned ELSE abandoned \union {j}
  BY DEF JobFree
<1>3. ffiJob' \in [Jobs -> JobCells]
  <2>1. ffiJob \in [Jobs -> JobCells]  BY FfiFacts
  <2>2. [ffiJob[j] EXCEPT !.cancelled = TRUE, !.changed = TRUE, !.registered = FALSE] \in JobCells
    BY <2>1 DEF JobCells
  <2> QED  BY <1>1, <2>1, <2>2
<1>4. ffiJob'[j].kind = ffiJob[j].kind /\ ffiJob'[j].state = ffiJob[j].state
      /\ ffiJob'[j].of = ffiJob[j].of /\ ffiJob'[j].reply = ffiJob[j].reply
  BY <1>1, FfiFacts DEF JobCells
<1>5. JobFits(j)' /\ KeptFits(j)'  BY <1>1, <1>2, <1>4, FfiFacts DEF JobFits, KeptFits, Kept
<1>6. j \in Kept => j \in learned' \/ j \in abandoned'
  BY <1>1, <1>2, FfiFacts DEF JobFits, KeptFits
<1>7. \A m \in Jobs \ {j} : ffiJob'[m] = ffiJob[m]  BY <1>1, FfiFacts
<1>8. abandoned \subseteq abandoned' /\ abandoned' \subseteq Jobs  BY <1>2, FfiFacts
<1> QED  BY <1>1, <1>3, <1>4, <1>5, <1>6, <1>7, <1>8, CellStep, FfiFacts

LEMMA ForgetInv == ASSUME FfiInv, NEW i \in Ids, Forget(i) PROVE FfiInv'
BY DEF FfiInv, Forget, FfiTypeOK, LockFits, OnlyAbandonedLeak, JobFits, KeptFits, Kept

\* A step of a task between its places, with no mark in its cell but `changed`.
LEMMA MoveInv ==
  ASSUME FfiInv, NEW j \in Jobs, NEW to \in TaskPlaces \ {"none", "inside", "kept", "gone"},
         ffiTask[j] \notin {"none", "inside", "kept", "gone"},
         ffiTask' = [ffiTask EXCEPT ![j] = to],
         ffiJob' = ffiJob \/ ffiJob' = [ffiJob EXCEPT ![j].changed = FALSE],
         UNCHANGED <<identities, sessions, sessionLock, learned, abandoned>>
  PROVE  FfiInv'
<1>0. ffiJob \in [Jobs -> JobCells] /\ ffiTask \in [Jobs -> TaskPlaces]
      /\ abandoned \subseteq Jobs /\ learned \subseteq Ids
      /\ (j \in Kept => j \in learned \/ j \in abandoned \/ ffiJob[j].registered)
  BY FfiFacts
<1>1. ffiJob' \in [Jobs -> JobCells] /\ ffiTask' \in [Jobs -> TaskPlaces]
  <2>0. ffiJob[j] \in JobCells  BY <1>0
  <2>1. [ffiJob[j] EXCEPT !.changed = FALSE] \in JobCells  BY <2>0 DEF JobCells
  <2> QED  BY <1>0, <2>1
<1>2. ffiJob'[j].kind = ffiJob[j].kind /\ ffiJob'[j].registered = ffiJob[j].registered
      /\ ffiJob'[j].state = ffiJob[j].state /\ ffiJob'[j].reply = ffiJob[j].reply
      /\ ffiTask'[j] = to
  BY FfiFacts DEF JobCells
<1>3. JobFits(j)' /\ KeptFits(j)'  BY <1>2, FfiFacts DEF JobFits, KeptFits, Kept
<1>4. \A m \in Jobs \ {j} : ffiJob'[m] = ffiJob[m] /\ ffiTask'[m] = ffiTask[m]
  BY FfiFacts
<1>5. ffiTask'[j] # "inside" /\ ffiTask[j] # "inside"  BY <1>2
<1> QED  BY <1>0, <1>1, <1>2, <1>3, <1>4, <1>5, CellStep

LEMMA GuardInv ==
  ASSUME FfiInv, NEW j \in Jobs, FetchEch(j) \/ Subscribe(j) \/ Check(j) \/ WorkEnds(j)
  PROVE  FfiInv'
<1>1. {"subscribe", "check", "stopped", "wait", "ended"} \subseteq
        TaskPlaces \ {"none", "inside", "kept", "gone"}
  BY DEF TaskPlaces
<1>2. CASE FetchEch(j) \/ Subscribe(j) \/ WorkEnds(j)
  BY <1>1, <1>2, MoveInv DEF FetchEch, Subscribe, WorkEnds, Move
<1>3. CASE Check(j)
  <2>1. PICK to \in {"stopped", "wait"} : ffiTask' = [ffiTask EXCEPT ![j] = to]
    BY <1>3 DEF Check
  <2>2. ffiTask[j] \notin {"none", "inside", "kept", "gone"}
        /\ ffiJob' = [ffiJob EXCEPT ![j].changed = FALSE]
        /\ UNCHANGED <<identities, sessions, sessionLock, learned, abandoned>>
    BY <1>3 DEF Check
  <2> QED  BY <1>1, <2>1, <2>2, MoveInv
<1> QED  BY <1>2, <1>3

\* A job enters the session it is for only when nobody is in it.
LEMMA SessionInv ==
  ASSUME FfiInv, NEW j \in Jobs, EnterSession(j) \/ LeaveSession(j) PROVE FfiInv'
<1> DEFINE s == ffiJob[j].of
<1>1. ffiTask \in [Jobs -> TaskPlaces] /\ s \in Ids /\ sessionLock \in [Ids -> Ids]
      /\ j \in Ids /\ j # 0
  BY JobNumbers, FfiFacts DEF FfiInv, FfiTypeOK, JobCells
<1>2. UNCHANGED <<ffiJob, identities, sessions, learned, abandoned>>
  BY DEF EnterSession, LeaveSession
<1>3. ffiTask[j] \in {"lock", "inside"} /\ \E p \in {"inside", "ended"} :
        ffiTask' = [ffiTask EXCEPT ![j] = p]
  BY DEF EnterSession, LeaveSession, Move
<1>4. ffiTask' \in [Jobs -> TaskPlaces] /\ ffiTask'[j] \in {"inside", "ended"}
      /\ \A m \in Jobs \ {j} : ffiTask'[m] = ffiTask[m]
  BY <1>1, <1>3 DEF TaskPlaces
<1>5. LockFits'
  <2>1. CASE EnterSession(j)
    <3>1. ffiTask' = [ffiTask EXCEPT ![j] = "inside"] /\ ffiTask[j] = "lock"
          /\ sessionLock[s] = 0 /\ sessionLock' = [sessionLock EXCEPT ![s] = j]
      BY <2>1 DEF EnterSession, Move
    <3>2. ASSUME NEW t \in Ids, sessionLock'[t] # 0
          PROVE  ffiTask'[sessionLock'[t]] = "inside" /\ ffiJob[sessionLock'[t]].of = t
      <4>1. CASE t = s  BY <1>1, <3>1, <4>1
      <4>2. CASE t # s
        <5>1. sessionLock'[t] = sessionLock[t] /\ sessionLock[t] \in Jobs \ {j}
              /\ ffiTask[sessionLock[t]] = "inside" /\ ffiJob[sessionLock[t]].of = t
          BY <1>1, <3>1, <3>2, <4>2, JobNumbers DEF FfiInv, LockFits
        <5> QED  BY <1>4, <5>1
      <4> QED  BY <4>1, <4>2
    <3>3. ASSUME NEW m \in Jobs, ffiTask'[m] = "inside" PROVE sessionLock'[ffiJob[m].of] = m
      <4>1. CASE m = j  BY <1>1, <3>1, <4>1
      <4>2. CASE m # j
        <5>1. ffiTask[m] = "inside" /\ sessionLock[ffiJob[m].of] = m /\ ffiJob[m].of \in Ids
              /\ m # 0
          BY <1>4, <3>3, <4>2, FfiFacts, JobNumbers DEF FfiInv, LockFits, JobCells
        <5> QED  BY <1>1, <3>1, <5>1
      <4> QED  BY <4>1, <4>2
    <3> QED  BY <1>2, <3>2, <3>3 DEF LockFits
  <2>2. CASE LeaveSession(j)
    <3>1. ffiTask' = [ffiTask EXCEPT ![j] = "ended"] /\ ffiTask[j] = "inside"
          /\ sessionLock[s] = j /\ sessionLock' = [sessionLock EXCEPT ![s] = 0]
      BY <2>2 DEF LeaveSession, Move, FfiInv, LockFits
    <3>2. ASSUME NEW t \in Ids, sessionLock'[t] # 0
          PROVE  ffiTask'[sessionLock'[t]] = "inside" /\ ffiJob[sessionLock'[t]].of = t
      <4>1. t # s  BY <1>1, <3>1, <3>2
      <4>2. sessionLock'[t] = sessionLock[t] /\ sessionLock[t] \in Jobs
            /\ ffiTask[sessionLock[t]] = "inside" /\ ffiJob[sessionLock[t]].of = t
        BY <1>1, <3>1, <3>2, <4>1, JobNumbers DEF FfiInv, LockFits
      <4> QED  BY <1>4, <4>1, <4>2
    <3>3. ASSUME NEW m \in Jobs, ffiTask'[m] = "inside" PROVE sessionLock'[ffiJob[m].of] = m
      <4>1. m # j  BY <1>1, <3>1, <3>3
      <4>2. ffiTask[m] = "inside" /\ sessionLock[ffiJob[m].of] = m /\ ffiJob[m].of \in Ids
        BY <1>4, <3>3, <4>1, FfiFacts DEF FfiInv, LockFits, JobCells
      <4> QED  BY <1>1, <3>1, <4>1, <4>2
    <3> QED  BY <1>2, <3>2, <3>3 DEF LockFits
  <2> QED  BY <2>1, <2>2
<1>6. FfiTypeOK'
  <2>1. sessionLock' \in [Ids -> Ids]
    BY <1>1, JobNumbers DEF EnterSession, LeaveSession
  <2>2. \A t \in Ids : sessionLock'[t] # 0 => ffiTask'[sessionLock'[t]] = "inside"
    BY <1>5 DEF LockFits
  <2> QED  BY <1>2, <1>4, <2>1, <2>2 DEF FfiInv, FfiTypeOK, TaskPlaces
<1>7. ASSUME NEW m \in Jobs PROVE JobFits(m)' /\ KeptFits(m)'
  <2>1. JobFits(m) /\ KeptFits(m)  BY DEF FfiInv
  <2> QED  BY <1>2, <1>3, <1>4, <2>1 DEF JobFits, KeptFits, Kept
<1>8. OnlyAbandonedLeak' /\ 0 \in learned'  BY <1>2 DEF FfiInv, OnlyAbandonedLeak
<1> QED  BY <1>5, <1>6, <1>7, <1>8 DEF FfiInv

\* What a job makes is registered while the job's cell still is, or its caller
\* has let go of it unread.
LEMMA KeepInv == ASSUME FfiInv, NEW j \in Jobs, Keep(j) PROVE FfiInv'
<1>1. ffiTask[j] = "work" /\ UNCHANGED <<ffiJob, sessionLock, learned, abandoned>>
  BY DEF Keep, Move
<1>2. CASE UNCHANGED <<identities, sessions>> /\ ffiTask' = [ffiTask EXCEPT ![j] = "ended"]
  <2>1. "ended" \in TaskPlaces \ {"none", "inside", "kept", "gone"}  BY DEF TaskPlaces
  <2> QED  BY <1>1, <1>2, <2>1, MoveInv
<1>3. CASE /\ ffiTask' = [ffiTask EXCEPT ![j] = "kept"]
           /\ \/ identities' = identities \union {j} /\ UNCHANGED sessions
              \/ sessions' = sessions \union {j} /\ UNCHANGED identities
  <2>1. Kept' = Kept \union {j}  BY <1>3 DEF Kept
  <2>2. ffiTask \in [Jobs -> TaskPlaces] /\ j \in Ids  BY FfiFacts
  <2>3. ffiTask' \in [Jobs -> TaskPlaces] /\ ffiTask'[j] = "kept"
        /\ \A m \in Jobs \ {j} : ffiTask'[m] = ffiTask[m]
    BY <1>3, <2>2 DEF TaskPlaces
  <2>4. LockFits'
    <3>1. \A m \in Jobs : ffiTask'[m] = "inside" <=> ffiTask[m] = "inside"  BY <1>1, <2>3
    <3>2. \A s \in Ids : sessionLock[s] # 0 => sessionLock[s] \in Jobs
      BY JobNumbers DEF FfiInv, FfiTypeOK
    <3> QED  BY <1>1, <3>1, <3>2 DEF FfiInv, LockFits
  <2>5. FfiTypeOK'
    <3>1. identities' \subseteq Ids /\ sessions' \subseteq Ids
      BY <1>3, <2>2 DEF FfiInv, FfiTypeOK
    <3>2. \A s \in Ids : sessionLock'[s] # 0 => ffiTask'[sessionLock'[s]] = "inside"
      BY <2>4 DEF LockFits
    <3> QED  BY <1>1, <2>3, <3>1, <3>2 DEF FfiInv, FfiTypeOK, TaskPlaces
  <2>6. ASSUME NEW m \in Jobs PROVE JobFits(m)' /\ KeptFits(m)'
    <3>1. JobFits(m) /\ KeptFits(m)  BY DEF FfiInv
    <3>2. CASE m = j  BY <1>1, <2>1, <2>3, <3>1, <3>2 DEF JobFits, KeptFits
    <3>3. CASE m # j  BY <1>1, <2>1, <2>3, <3>1, <3>3 DEF JobFits, KeptFits
    <3> QED  BY <3>2, <3>3
  <2>7. OnlyAbandonedLeak'
    <3>1. ffiJob[j].state # "Done" /\ (ffiJob[j].registered \/ j \in abandoned)
      BY <1>1, FfiFacts DEF JobFits
    <3> QED  BY <1>1, <2>1, <3>1 DEF FfiInv, OnlyAbandonedLeak, Kept
  <2> QED  BY <1>1, <2>4, <2>5, <2>6, <2>7 DEF FfiInv
<1> QED  BY <1>2, <1>3 DEF Keep, Move

LEMMA PublishInv == ASSUME FfiInv, NEW j \in Jobs, Publish(j) PROVE FfiInv'
<1> DEFINE reply == IF ffiTask[j] = "kept" THEN "id" ELSE "value"
<1>1. ffiTask[j] \in {"kept", "stopped", "ended"}
      /\ ffiTask' = [ffiTask EXCEPT ![j] = "gone"]
      /\ ffiJob' = [ffiJob EXCEPT ![j].state = "Done", ![j].reply = reply]
      /\ UNCHANGED <<identities, sessions, sessionLock, learned, abandoned>>
  BY DEF Publish
<1>2. ffiJob \in [Jobs -> JobCells] /\ ffiTask \in [Jobs -> TaskPlaces]
      /\ abandoned \subseteq Jobs /\ learned \subseteq Ids
      /\ (j \in Kept => j \in learned \/ j \in abandoned \/ ffiJob[j].registered)
  BY FfiFacts
<1>3. ffiJob' \in [Jobs -> JobCells] /\ ffiTask' \in [Jobs -> TaskPlaces]
  <2>1. [ffiJob[j] EXCEPT !.state = "Done", !.reply = reply] \in JobCells  BY <1>2 DEF JobCells
  <2>2. "gone" \in TaskPlaces  BY DEF TaskPlaces
  <2> QED  BY <1>1, <1>2, <2>1, <2>2
<1>4. ffiJob'[j].kind = ffiJob[j].kind /\ ffiJob'[j].registered = ffiJob[j].registered
      /\ ffiJob'[j].state = "Done" /\ ffiJob'[j].reply = reply /\ ffiTask'[j] = "gone"
  BY <1>1, <1>2 DEF JobCells
<1>5. \A m \in Jobs \ {j} : ffiJob'[m] = ffiJob[m] /\ ffiTask'[m] = ffiTask[m]
  BY <1>1, <1>2
<1>6. JobFits(j)' /\ KeptFits(j)'  BY <1>1, <1>4, FfiFacts DEF JobFits, KeptFits, Kept
<1>7. ffiTask'[j] # "inside" /\ ffiTask[j] # "inside"  BY <1>1, <1>4
<1> QED  BY <1>1, <1>2, <1>3, <1>4, <1>5, <1>6, <1>7, CellStep

LEMMA FfiStep == FfiInv /\ [FfiNext]_ffiVars => FfiInv'
<1> SUFFICES ASSUME FfiInv, [FfiNext]_ffiVars PROVE FfiInv'
  OBVIOUS
<1>1. CASE UNCHANGED ffiVars
  BY <1>1 DEF ffiVars, FfiInv, FfiTypeOK, LockFits, OnlyAbandonedLeak, JobFits, KeptFits, Kept
<1>2. CASE Caller  BY <1>2, PollInv, JobCancelInv, JobFreeInv, StartInv, ForgetInv DEF Caller
<1>3. ASSUME NEW j \in Jobs, Task(j) \/ WorkEnds(j) PROVE FfiInv'
  BY <1>3, GuardInv, SessionInv, KeepInv, PublishInv DEF Task
<1> QED  BY <1>1, <1>2, <1>3 DEF FfiNext

\* However a caller mixes starting, polling, cancelling and freeing, an identity
\* or a session is out of its reach only when it freed the job unread, and a
\* sign-in session serves one call at a time.
THEOREM RegistriesSoundAlways == FfiSpec => []RegistriesSound
<1>1. FfiInv => RegistriesSound
  <2> SUFFICES ASSUME FfiInv PROVE RegistriesSound
    OBVIOUS
  <2>1. SessionExclusive
    <3> SUFFICES ASSUME NEW j \in Jobs, NEW k \in Jobs, ffiTask[j] = "inside",
                        ffiTask[k] = "inside", ffiJob[j].of = ffiJob[k].of
                 PROVE  j = k
      BY DEF SessionExclusive
    <3> QED  BY DEF FfiInv, LockFits
  <2> QED  BY <2>1 DEF FfiInv, RegistriesSound
<1> QED  BY <1>1, FfiInitInv, FfiStep, PTL DEF FfiSpec

-----------------------------------------------------------------------------
(* No cancel is lost: the safety half of CancelledJobEnds. *)

\* A cancel that finds the waiter asleep has changed the value it sleeps on, so
\* that it looks again; and a job the caller has freed is cancelled.
Woken(j) ==
  /\ ffiTask[j] = "wait" /\ ffiJob[j].cancelled => ffiJob[j].changed
  /\ ffiJob[j].kind # "none" /\ ~ffiJob[j].registered => ffiJob[j].cancelled

\* The task of a cancelled or freed job is over, or goes on: it is not asleep
\* without a change to wake it, and when it waits for a session, the job that
\* holds the session is inside, not waiting.
CancelHeard ==
  \A j \in Jobs :
    /\ ffiJob[j].kind # "none" /\ (ffiJob[j].cancelled \/ ~ffiJob[j].registered) =>
         ffiTask[j] # "none" /\ (ffiTask[j] = "wait" => ffiJob[j].changed)
    /\ ffiTask[j] = "lock" /\ sessionLock[ffiJob[j].of] # 0 =>
         ffiTask[sessionLock[ffiJob[j].of]] = "inside"

\* One job at a time: the step of another leaves cell and task alone.
LEMMA WokenStep ==
  ASSUME FfiInv, \A j \in Jobs : Woken(j), [FfiNext]_ffiVars, NEW m \in Jobs
  PROVE  Woken(m)'
<1>0. /\ ffiJob \in [Jobs -> JobCells] /\ ffiTask \in [Jobs -> TaskPlaces]
      /\ Woken(m) /\ JobFits(m)
  BY FfiFacts
<1>1. CASE ffiJob'[m] = ffiJob[m] /\ (ffiTask'[m] = "wait" => ffiTask[m] = "wait")
  BY <1>0, <1>1 DEF Woken
<1>2. ASSUME NEW k \in FfiKinds, NEW i \in Ids, Start(m, k, i)
      PROVE  Woken(m)'
  <2>1. ffiJob'[m].registered /\ ffiTask'[m] # "wait"
    <3>1. PICK pc \in FirstSteps(k) : ffiTask' = [ffiTask EXCEPT ![m] = pc]
      BY <1>2 DEF Start
    <3>2. pc # "wait"  BY DEF FirstSteps
    <3>3. ffiJob' = [ffiJob EXCEPT ![m].kind = k, ![m].of = i, ![m].registered = TRUE]
      BY <1>2 DEF Start
    <3> QED  BY <1>0, <3>1, <3>2, <3>3 DEF JobCells
  <2> QED  BY <2>1 DEF Woken
<1>3. CASE JobCancel(m) \/ JobFree(m)
  <2>0. ffiJob[m] \in JobCells  BY <1>0
  <2> DEFINE c == Cancelled(ffiJob[m])
             f == [c EXCEPT !.registered = FALSE]
  <2>1. c \in JobCells /\ c.cancelled /\ c.changed  BY <2>0 DEF Cancelled, JobCells
  <2>2. f.cancelled /\ f.changed
    <3> HIDE DEF c
    <3> QED  BY <2>1 DEF JobCells
  <2>3. ffiJob' = [ffiJob EXCEPT ![m] = c] \/ ffiJob' = [ffiJob EXCEPT ![m] = f]
    BY <1>3 DEF JobCancel, JobFree
  <2>4. ffiJob'[m] = c \/ ffiJob'[m] = f
    <3> HIDE DEF c, f
    <3> QED  BY <1>0, <2>3
  <2>5. ffiJob'[m].cancelled /\ ffiJob'[m].changed
    <3> HIDE DEF c, f
    <3> QED  BY <2>1, <2>2, <2>4
  <2> QED  BY <2>5 DEF Woken
<1>4. CASE Subscribe(m) \/ Check(m)
  <2>1. /\ ffiJob' = [ffiJob EXCEPT ![m].changed = FALSE]
        /\ ffiTask'[m] = "wait" => ~ffiJob[m].cancelled
    BY <1>0, <1>4 DEF Subscribe, Check, Move
  <2>2. /\ ffiJob'[m].kind = ffiJob[m].kind
        /\ ffiJob'[m].registered = ffiJob[m].registered
        /\ ffiJob'[m].cancelled = ffiJob[m].cancelled
    BY <1>0, <2>1 DEF JobCells
  <2> QED  BY <1>0, <2>1, <2>2 DEF Woken
<1>5. CASE Publish(m)
  <2>1. /\ ffiJob'[m].kind = ffiJob[m].kind
        /\ ffiJob'[m].registered = ffiJob[m].registered
        /\ ffiJob'[m].cancelled = ffiJob[m].cancelled
        /\ ffiTask'[m] = "gone"
    BY <1>0, <1>5 DEF Publish, JobCells
  <2> QED  BY <1>0, <2>1 DEF Woken
<1>6. ASSUME NEW j \in Jobs,
             \/ \E k \in FfiKinds, i \in Ids : Start(j, k, i)
             \/ JobCancel(j) \/ JobFree(j) \/ Subscribe(j) \/ Check(j) \/ Publish(j),
             j # m
      PROVE  Woken(m)'
  <2>1. ffiJob'[m] = ffiJob[m] /\ ffiTask'[m] = ffiTask[m]
    BY <1>0, <1>6 DEF Start, JobCancel, JobFree, Subscribe, Check, Publish, Move
  <2> QED  BY <1>1, <2>1
<1>7. ASSUME NEW j \in Jobs,
             \/ Poll(j) \/ FetchEch(j) \/ EnterSession(j) \/ LeaveSession(j)
             \/ Keep(j) \/ WorkEnds(j)
      PROVE  Woken(m)'
  <2>1. ffiJob'[m] = ffiJob[m] /\ (ffiTask'[m] = "wait" => ffiTask[m] = "wait")
    BY <1>0, <1>7 DEF Poll, FetchEch, EnterSession, LeaveSession, Keep, WorkEnds, Move
  <2> QED  BY <1>1, <2>1
<1>8. CASE \E i \in Ids : Forget(i)  BY <1>1, <1>8 DEF Forget
<1>9. CASE UNCHANGED ffiVars  BY <1>1, <1>9 DEF ffiVars
<1> QED
  BY <1>2, <1>3, <1>4, <1>5, <1>6, <1>7, <1>8, <1>9 DEF FfiNext, Caller, Task

\* In every interleaving of a cancel with the waiter's subscription, its look at
\* the value and its sleep (api.rs Cancel::wait), the waiter hears of it.
THEOREM CancelHeardAlways == FfiSpec => []CancelHeard
<1> DEFINE AllWoken == \A j \in Jobs : Woken(j)
<1>1. FfiInit => AllWoken  BY DEF FfiInit, Woken, NoJob
<1>2. FfiInv /\ AllWoken /\ [FfiNext]_ffiVars => AllWoken'  BY WokenStep
<1>3. FfiInv /\ AllWoken => CancelHeard
  <2> SUFFICES ASSUME FfiInv, AllWoken, NEW j \in Jobs
               PROVE  /\ ffiJob[j].kind # "none"
                         /\ (ffiJob[j].cancelled \/ ~ffiJob[j].registered) =>
                           ffiTask[j] # "none" /\ (ffiTask[j] = "wait" => ffiJob[j].changed)
                      /\ ffiTask[j] = "lock" /\ sessionLock[ffiJob[j].of] # 0 =>
                           ffiTask[sessionLock[ffiJob[j].of]] = "inside"
    BY DEF CancelHeard
  <2>1. JobFits(j) /\ Woken(j) /\ ffiJob[j].of \in Ids
    BY FfiFacts DEF JobCells
  <2> QED  BY <2>1 DEF JobFits, Woken, FfiInv, LockFits
<1> QED  BY <1>1, <1>2, <1>3, FfiInitInv, FfiStep, PTL DEF FfiSpec
=============================================================================
