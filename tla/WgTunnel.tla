------------------------------ MODULE WgTunnel ------------------------------
(***************************************************************************)
(* The WireGuard tunnel (wireguard.rs): verify_endpoint_keep_session, with  *)
(* or without the data-plane check, and the tasks of WgTunnel::run on the   *)
(* session it leaves.                                                       *)
(*                                                                          *)
(* boringtun and the edge are external: the edge sends data, a message of   *)
(* the protocol alone or something that does not decrypt, or nothing; of    *)
(* what waits in the socket the first packet is kept.  Time is the clock's, *)
(* in units that divide wg_stale_timeout; a task that can go on does so     *)
(* before the next unit.  send_task and timer_task give the mutex back      *)
(* before they wait for anything, so only the health task keeps it.         *)
(***************************************************************************)
EXTENDS Naturals

CONSTANTS
  WgDataChecks,   \* {FALSE} when AETHER_WG_NO_DATA_CHECK is set, {TRUE}, or both
  WgRequired,     \* DATAPLANE_REQUIRED_SUCCESSES
  Stale,          \* wg_stale_timeout
  MaxTransient,   \* MAX_TRANSIENT_RECV_ERRORS
  InboundSize     \* channel_capacity, of the channel to the stack

ASSUME WgConstants ==
  /\ WgDataChecks \subseteq BOOLEAN
  /\ WgRequired \in Nat \ {0} /\ Stale \in Nat \ {0}
  /\ MaxTransient \in Nat /\ InboundSize \in Nat \ {0}

VARIABLES
  wg,        \* "handshake", "data", "run", "failed" or "ended"
  wgWhy,     \* why the tunnel ended
  confirmed, \* successes of verify_dataplane
  answer,    \* the packet that waits in the socket
  recvTask,  \* "recv", "backoff", or "deliver", which waits for room in the channel
  errors,    \* transient_errors
  inbound,   \* packets in the channel to the stack
  health,    \* the health task: "tick", "lock" or "send"
  lock,      \* the task that has the mutex of the Tunn
  idle,      \* the time since last_valid_rx
  quiet      \* history: the time since the edge's last valid packet came

wgVars == <<wg, wgWhy, confirmed, answer, recvTask, errors, inbound, health,
            lock, idle, quiet>>

Valid == {"data", "protocol"}
Answers == {"none", "invalid"} \cup Valid

session == <<recvTask, errors, inbound, health, lock, idle, quiet>>

WgInit ==
  /\ wg = "handshake" /\ wgWhy = "none" /\ confirmed = 0 /\ answer = "none"
  /\ recvTask = "recv" /\ errors = 0 /\ inbound = 0
  /\ health = "tick" /\ lock = "free" /\ idle = 0 /\ quiet = 0

-----------------------------------------------------------------------------
(* Verification. *)

\* The initiation, or a retransmission of it, is answered.  Without the check
\* of the data plane the session is handed over as it is.
Handshake ==
  /\ wg = "handshake"
  /\ \E check \in WgDataChecks : wg' = IF check THEN "data" ELSE "run"
  /\ UNCHANGED <<wgWhy, confirmed, answer, session>>

\* A packet of the tunnel arrives; the last one asked for hands the session
\* over to WgTunnel.
DataConfirmed ==
  /\ wg = "data"
  /\ confirmed' = confirmed + 1
  /\ wg' = IF confirmed' >= WgRequired THEN "run" ELSE "data"
  /\ UNCHANGED <<wgWhy, answer, session>>

\* The deadline, and any receive error: unlike run, the check does not
\* distinguish the transient ones.
VerifyFails ==
  /\ wg \in {"handshake", "data"} /\ wg' = "failed"
  /\ UNCHANGED <<wgWhy, confirmed, answer, session>>

-----------------------------------------------------------------------------
(* The edge and the clock. *)

EdgeSends ==
  /\ wg = "run" /\ answer = "none"
  /\ answer' \in Answers \ {"none"}
  /\ quiet' = IF answer' \in Valid THEN 0 ELSE quiet
  /\ UNCHANGED <<wg, wgWhy, confirmed, recvTask, errors, inbound, health, lock, idle>>

\* Past wg_stale_timeout nothing depends on how long it has been.
Later(n) == IF n < Stale THEN n + 1 ELSE n

RecvCanGoOn == \/ recvTask = "recv" /\ answer # "none" /\ lock = "free"
               \/ recvTask = "deliver" /\ inbound < InboundSize

\* Time passes whatever the tasks wait for: the mutex, the socket, the stack.
TimePasses ==
  /\ wg = "run" /\ ~RecvCanGoOn
  /\ idle' = Later(idle) /\ quiet' = Later(quiet)
  /\ UNCHANGED <<wg, wgWhy, confirmed, answer, recvTask, errors, inbound, health, lock>>

-----------------------------------------------------------------------------
(* The tasks of run.  The select returns when the first of them ends, and   *)
(* the guard aborts the others.                                             *)

WgEnds(why) == wg' = "ended" /\ wgWhy' = why

\* Mutant: only packets for the stack count as a sign of life.
RecvCountsData ==
  /\ wg = "run" /\ recvTask = "recv" /\ lock = "free" /\ answer # "none"
  /\ answer' = "none" /\ errors' = 0
  /\ idle' = IF answer = "data" THEN 0 ELSE idle
  /\ recvTask' = IF answer = "data" THEN "deliver" ELSE "recv"
  /\ UNCHANGED <<wg, wgWhy, confirmed, inbound, health, lock, quiet>>

\* recv_task has a packet, takes the mutex, decapsulates and lets it go.  What
\* does not decrypt ends a row of errors and is no sign of life.
Recv ==
  /\ wg = "run" /\ recvTask = "recv" /\ lock = "free" /\ answer # "none"
  /\ answer' = "none" /\ errors' = 0
  /\ idle' = IF answer \in Valid THEN 0 ELSE idle
  /\ recvTask' = IF answer = "data" THEN "deliver" ELSE "recv"
  /\ UNCHANGED <<wg, wgWhy, confirmed, inbound, health, lock, quiet>>

\* inbound_tx.send waits for room, without the mutex.
RecvDelivers ==
  /\ wg = "run" /\ recvTask = "deliver" /\ inbound < InboundSize
  /\ inbound' = inbound + 1 /\ recvTask' = "recv"
  /\ UNCHANGED <<wg, wgWhy, confirmed, answer, errors, health, lock, idle, quiet>>

\* An ICMP error, an interface that is gone for a moment: tolerated in bursts.
RecvError ==
  /\ wg = "run" /\ recvTask = "recv"
  /\ errors' = errors + 1
  /\ IF errors' > MaxTransient THEN WgEnds("errors") /\ UNCHANGED recvTask
     ELSE recvTask' = "backoff" /\ UNCHANGED <<wg, wgWhy>>
  /\ UNCHANGED <<confirmed, answer, inbound, health, lock, idle, quiet>>

RecvAgain ==
  /\ wg = "run" /\ recvTask = "backoff" /\ recvTask' = "recv"
  /\ UNCHANGED <<wg, wgWhy, confirmed, answer, errors, inbound, health, lock, idle, quiet>>

\* An error that is not transient.
RecvFails ==
  /\ wg = "run" /\ recvTask = "recv" /\ WgEnds("socket")
  /\ UNCHANGED <<confirmed, answer, session>>

\* send_task: the stack has gone and its channel is closed.
SendEnds ==
  /\ wg = "run" /\ WgEnds("stack")
  /\ UNCHANGED <<confirmed, answer, session>>

\* The stack takes a packet.
StackTakes ==
  /\ wg = "run" /\ inbound > 0 /\ inbound' = inbound - 1
  /\ UNCHANGED <<wg, wgWhy, confirmed, answer, recvTask, errors, health, lock, idle, quiet>>

\* A tick of the interval (a tick that was missed comes at once): the clock is
\* looked at, whatever the receive task waits for.
HealthTick ==
  /\ wg = "run" /\ health = "tick"
  /\ IF idle >= Stale
     THEN WgEnds("stale") /\ UNCHANGED health
     ELSE health' = "lock" /\ UNCHANGED <<wg, wgWhy>>
  /\ UNCHANGED <<confirmed, answer, recvTask, errors, inbound, lock, idle, quiet>>

HealthLocks ==
  /\ wg = "run" /\ health = "lock" /\ lock = "free"
  /\ health' = "send" /\ lock' = "health"
  /\ UNCHANGED <<wg, wgWhy, confirmed, answer, recvTask, errors, inbound, idle, quiet>>

\* Mutant: the mutex is not given back when the probe could not be sent.
HealthKeepsLock ==
  /\ wg = "run" /\ health = "send"
  /\ health' = "tick" /\ lock' \in {lock, "free"}
  /\ UNCHANGED <<wg, wgWhy, confirmed, answer, recvTask, errors, inbound, idle, quiet>>

\* The probe is sent, or fails to be, with the mutex held.
HealthSends ==
  /\ wg = "run" /\ health = "send"
  /\ health' = "tick" /\ lock' = "free"
  /\ UNCHANGED <<wg, wgWhy, confirmed, answer, recvTask, errors, inbound, idle, quiet>>

-----------------------------------------------------------------------------
WgVerify == Handshake \/ DataConfirmed \/ VerifyFails
WgReceives == Recv \/ RecvDelivers \/ RecvAgain
WgProbes == HealthTick \/ HealthLocks \/ HealthSends
WgRun == \/ EdgeSends \/ TimePasses \/ WgReceives \/ WgProbes
         \/ RecvError \/ RecvFails \/ SendEnds \/ StackTakes

WgNext == WgVerify \/ WgRun

(* Fairness: the tasks run, the socket takes what is sent, the stack empties *)
(* its channel (it reads it first in every round), the deadline of the       *)
(* verification passes, and time does, however often packets come.           *)
WgSpec == /\ WgInit /\ [][WgNext]_wgVars
          /\ WF_wgVars(WgReceives) /\ WF_wgVars(StackTakes) /\ WF_wgVars(WgProbes)
          /\ SF_wgVars(TimePasses) /\ WF_wgVars(VerifyFails)

-----------------------------------------------------------------------------
(* Properties. *)

\* The types; a session is used after as many packets as are asked for, or
\* without the check after none.
WgTypeOK ==
  /\ wg \in {"handshake", "data", "run", "failed", "ended"}
  /\ wgWhy \in {"none", "errors", "socket", "stack", "stale"}
  /\ confirmed \in 0 .. WgRequired /\ answer \in Answers
  /\ recvTask \in {"recv", "backoff", "deliver"} /\ inbound \in 0 .. InboundSize
  /\ health \in {"tick", "lock", "send"} /\ lock \in {"free", "health"}
  /\ errors \in 0 .. MaxTransient + 1 /\ idle \in 0 .. Stale /\ quiet \in 0 .. Stale
  /\ wg \in {"run", "ended"} => confirmed \in {0, WgRequired}

\* "no valid data from peer": the tunnel is called stale only when nothing valid
\* has come for wg_stale_timeout, data or not (wireguard.rs:175, 286), or when
\* it has come and waits in the socket: behind a stack that takes nothing, a
\* slow probe or a backoff, the edge is given up although it answers.
StaleOnlyIfSilent ==
  WgTypeOK /\ (wgWhy = "stale" => quiet >= Stale \/ answer \in Valid)

\* An edge that stops answering ends the tunnel, or is heard again: no task
\* waits for the mutex or for the stack for ever.
DeadEdgeEnds == wg = "run" /\ idle > 0 ~> wg = "ended" \/ idle = 0
=============================================================================
