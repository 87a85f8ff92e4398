---------------------------- MODULE MasqueTunnel ----------------------------
(***************************************************************************)
(* The MASQUE tunnel: quic::run over HTTP/3 and masque_h2::run over HTTP/2. *)
(*                                                                          *)
(* Both are one loop around a select.  The deadlines are looked at only at  *)
(* the top of the loop, so a deadline that passes while the select has      *)
(* nothing to do, or while a branch waits, is seen when the loop turns      *)
(* again.  An IP packet is a question to the edge and its answer; a clock   *)
(* is the event that it has passed a deadline that is set.                  *)
(*                                                                          *)
(* The edge is external.  It answers; it does "control" only (it keeps the  *)
(* connection and drops the traffic); it is "frozen" (its host acknowledges *)
(* what TCP sends and no more comes); or it is "silent".                    *)
(***************************************************************************)
EXTENDS Naturals

CONSTANTS
  DataCheck,   \* AETHER_MASQUE_NO_DATA_CHECK is not set
  Required,    \* DATA_PROBE_REQUIRED_SUCCESSES
  Window       \* packets the HTTP/2 flow control lets out unacknowledged

ASSUME MasqueConstants ==
  DataCheck \in BOOLEAN /\ Required \in Nat \ {0} /\ Window \in Nat \ {0}

VARIABLES
  mq,      \* the task: its locals
  edge,    \* what the edge does
  asked    \* a packet is out that an edge that answers will answer

mqVars == <<mq, edge, asked>>

EdgeModes == {"answers", "control", "frozen", "silent"}
Reached == edge \in {"answers", "control"}

\* transport: fixed.  ech: "none", the config of the start, or the server's.
MasqueStart(transport, ech) ==
  /\ mq = [transport |-> transport, ech |-> ech,
           pc |-> IF transport = "h3" THEN "top" ELSE "dialling",
           established |-> FALSE, retried |-> FALSE, ready |-> FALSE,
           successes |-> 0, validate |-> "none", pong |-> "none", window |-> Window]
  /\ edge = "answers" /\ asked = FALSE

MasqueInit == \E transport \in {"h3", "h2"}, ech \in {"none", "given"} :
                MasqueStart(transport, ech)

Ended(r) == [r EXCEPT !.pc = "ended"]

\* The connection is there and CONNECT-IP is asked for.
Open(r) ==
  IF DataCheck THEN [r EXCEPT !.established = TRUE, !.validate = "set"]
  ELSE [r EXCEPT !.established = TRUE, !.ready = TRUE]

\* A packet of the edge has reached the stack.
Confirmed(r) ==
  IF r.ready THEN r
  ELSE IF r.successes + 1 < Required THEN [r EXCEPT !.successes = @ + 1]
  ELSE [r EXCEPT !.successes = @ + 1, !.ready = TRUE, !.validate = "none"]

-----------------------------------------------------------------------------
(* The loop. *)

\* The checks at the top; the second is HTTP/2's.
Top ==
  /\ mq.pc = "top"
  /\ mq' = IF (~mq.ready /\ mq.validate = "passed") \/ mq.pong = "passed"
           THEN Ended(mq) ELSE [mq EXCEPT !.pc = "select"]
  /\ UNCHANGED <<edge, asked>>

At(transport) == mq.pc = "select" /\ mq.transport = transport

\* Branches of quic::run.
H3Keepalive ==
  /\ At("h3")
  /\ mq' = [mq EXCEPT !.pc = "top"]
  /\ UNCHANGED <<edge, asked>>

\* A probe, or a packet of the stack, becomes a datagram if the request is out.
H3Sends ==
  /\ At("h3")
  /\ asked' = (asked \/ mq.established)
  /\ mq' = [mq EXCEPT !.pc = "top"]
  /\ UNCHANGED edge

\* The handshake is over.
H3Established ==
  /\ At("h3") /\ ~mq.established /\ Reached
  /\ mq' = [Open(mq) EXCEPT !.pc = "top"]
  /\ UNCHANGED <<edge, asked>>

\* Mutant: a second rejection is answered by a third handshake.
EchRejectedAgain ==
  /\ At("h3") /\ ~mq.established /\ Reached /\ mq.ech # "none"
  /\ mq' = [mq EXCEPT !.ech = "retry", !.pc = "top"]
  /\ UNCHANGED <<edge, asked>>

\* The edge does not know our ECH config, and sends its own: once, the
\* handshake is tried again with that.
EchRejected ==
  /\ At("h3") /\ ~mq.established /\ Reached /\ mq.ech # "none"
  /\ mq' = IF mq.retried THEN Ended(mq)
           ELSE [mq EXCEPT !.ech = "retry", !.retried = TRUE, !.pc = "top"]
  /\ UNCHANGED <<edge, asked>>

H3Answer ==
  /\ At("h3") /\ mq.established /\ asked /\ edge = "answers"
  /\ mq' = [Confirmed(mq) EXCEPT !.pc = "top"]
  /\ asked' = FALSE /\ UNCHANGED edge

\* Mutant: the loop does not wait for conn.timeout().
H3ClosedByEdge ==
  /\ At("h3") /\ Reached
  /\ mq' = Ended(mq)
  /\ UNCHANGED <<edge, asked>>

\* The idle timeout of the connection, or a close by the edge.
H3Closed ==
  /\ At("h3")
  /\ mq' = Ended(mq)
  /\ UNCHANGED <<edge, asked>>

\* send_capsule: with the window used up it waits, and the loop with it.  `out`
\* says whether a packet is out already.
SendCapsule(r, out) ==
  /\ mq' = IF r.window = 0 THEN [r EXCEPT !.pc = "blocked"]
           ELSE [r EXCEPT !.window = @ - 1, !.pc = "top"]
  /\ asked' = (out \/ r.window # 0)

\* Branches of masque_h2::run.  TCP, TLS and the request come first, then the
\* first probe.
H2Dialled ==
  /\ mq.pc = "dialling" /\ mq.transport = "h2"
  /\ \/ /\ Reached
        /\ IF DataCheck THEN SendCapsule(Open(mq), FALSE)
           ELSE mq' = [Open(mq) EXCEPT !.pc = "top"] /\ UNCHANGED asked
     \/ mq' = Ended(mq) /\ UNCHANGED asked
  /\ UNCHANGED edge

H2Ping ==
  /\ At("h2") /\ mq.ready /\ mq.pong = "none"
  /\ mq' = [mq EXCEPT !.pong = "sent", !.pc = "top"]
  /\ UNCHANGED <<edge, asked>>

H2Pong ==
  /\ At("h2") /\ mq.pong # "none" /\ Reached
  /\ mq' = [mq EXCEPT !.pong = "none", !.pc = "top"]
  /\ UNCHANGED <<edge, asked>>

\* A probe while the edge is validated, and the stack's packets.
H2Sends == At("h2") /\ SendCapsule(mq, asked) /\ UNCHANGED edge

\* A packet of the edge; one that is not yet enough is followed by a probe.
H2Answer ==
  /\ At("h2") /\ asked /\ edge = "answers"
  /\ IF Confirmed(mq).ready
     THEN mq' = [Confirmed(mq) EXCEPT !.pc = "top"] /\ asked' = FALSE
     ELSE SendCapsule(Confirmed(mq), FALSE)
  /\ UNCHANGED edge

\* The edge has read what was sent.
H2Window ==
  /\ mq.transport = "h2" /\ mq.pc \in {"select", "blocked"} /\ Reached
  /\ mq.window < Window
  /\ mq' = [mq EXCEPT !.window = Window,
                      !.pc = IF @ = "blocked" THEN "top" ELSE @]
  /\ UNCHANGED <<edge, asked>>

\* The edge ends the stream, or TCP gives up a host that is silent: every
\* branch that waits for the connection fails.
H2Closed ==
  /\ mq.transport = "h2" /\ mq.pc \in {"select", "blocked"}
  /\ Reached \/ edge = "silent"
  /\ mq' = Ended(mq)
  /\ UNCHANGED <<edge, asked>>

\* The stack or the caller has closed its channel; HTTP/3 says goodbye first.
MasqueClosed ==
  /\ mq.pc = "select"
  /\ mq' = Ended(mq)
  /\ UNCHANGED <<edge, asked>>

-----------------------------------------------------------------------------
\* A deadline passes.
ValidatePasses ==
  /\ mq.pc # "ended" /\ mq.validate = "set"
  /\ mq' = [mq EXCEPT !.validate = "passed"]
  /\ UNCHANGED <<edge, asked>>

PongPasses ==
  /\ mq.pc # "ended" /\ mq.pong = "sent"
  /\ mq' = [mq EXCEPT !.pong = "passed"]
  /\ UNCHANGED <<edge, asked>>

\* run_masque_tunnel has waited for ready_rx long enough and aborts the task.
StartupTimeout ==
  /\ ~mq.ready /\ mq.pc # "ended"
  /\ mq' = Ended(mq)
  /\ UNCHANGED <<edge, asked>>

EdgeChanges ==
  /\ mq.pc # "ended"
  /\ edge' \in EdgeModes \ {edge}
  /\ UNCHANGED <<mq, asked>>

H3 == H3Keepalive \/ H3Sends \/ H3Established \/ EchRejected \/ H3Answer \/ H3Closed
H2 == H2Dialled \/ H2Ping \/ H2Pong \/ H2Sends \/ H2Answer \/ H2Window \/ H2Closed

MasqueNext == \/ Top \/ H3 \/ H2 \/ MasqueClosed \/ ValidatePasses \/ PongPasses
              \/ StartupTimeout \/ EdgeChanges

(* Fairness: clocks run and intervals tick; an idle QUIC connection and a    *)
(* TCP connection to a silent host are given up in the end; an edge that is   *)
(* reached goes on with the handshake, one way or the other.  Nothing is      *)
(* assumed of what the stack sends.  Of the two transports only HTTP/2 needs  *)
(* the caller's startup timeout.                                             *)
MasqueClocks == ValidatePasses \/ PongPasses
MasqueTicks == Top \/ H3Keepalive \/ H2Ping
MasqueGivesUp ==
  \/ H3Closed /\ ~Reached
  \/ H2Closed /\ edge = "silent"
  \/ mq.transport = "h2" /\ StartupTimeout

MasqueHandshake == H3Established \/ EchRejected

MasqueSpec ==
  /\ MasqueInit /\ [][MasqueNext]_mqVars
  /\ WF_mqVars(MasqueClocks) /\ WF_mqVars(MasqueTicks)
  /\ SF_mqVars(MasqueGivesUp) /\ SF_mqVars(MasqueHandshake)

-----------------------------------------------------------------------------
(* Properties. *)

\* The types, and that a tunnel is called ready after as many answers as the
\* code asks for, all of them to this connection.
MasqueTypeOK ==
  /\ mq \in [transport : {"h3", "h2"}, ech : {"none", "given", "retry"},
             pc : {"top", "select", "dialling", "blocked", "ended"},
             established : BOOLEAN, retried : BOOLEAN, ready : BOOLEAN,
             successes : 0 .. Required, validate : {"none", "set", "passed"},
             pong : {"none", "sent", "passed"}, window : 0 .. Window]
  /\ edge \in EdgeModes /\ asked \in BOOLEAN
  /\ mq.ready => mq.established /\ (DataCheck => mq.successes = Required)

\* An attempt over HTTP/3 that was answered, with a rejection of its ECH config
\* or with a connection, becomes ready or ends by its own deadlines, unless the
\* edge goes silent in the handshake: one that rejects the config it sent itself
\* is not asked a third time (quic.rs:358), one that accepts control and drops
\* the traffic is given up (quic.rs:246), neither by the caller's timeout.
AttemptResolves ==
  mq.transport = "h3" /\ (mq.ech = "retry" \/ mq.validate = "set")
  ~> mq.ready \/ mq.pc = "ended" \/ (~mq.established /\ ~Reached)

\* An attempt over HTTP/3 that has begun resolves itself, whatever the edge does
\* with its ECH config, its handshakes and its traffic, and is ready only once
\* its traffic was confirmed.
HandshakeResolves == []MasqueTypeOK /\ AttemptResolves

\* The two places in which an HTTP/2 tunnel may rest for ever, on an edge whose
\* host goes on acknowledging: in send_capsule with the window used up, and,
\* with no packet to send, in the select after the PING deadline has passed,
\* which is looked at only when the loop turns and for which the select has no
\* arm (masque_h2.rs:402).
RestsOnFrozenEdge ==
  /\ mq.transport = "h2" /\ edge = "frozen"
  /\ mq.pc = "blocked" \/ (mq.pc = "select" /\ mq.pong = "passed")

\* A tunnel whose edge has stopped answering ends, so that the outer loop may
\* connect again; only those two rests keep it from that.
SilentEdgeNoticed ==
  mq.ready /\ ~Reached ~> Reached \/ mq.pc = "ended" \/ []RestsOnFrozenEdge
=============================================================================
