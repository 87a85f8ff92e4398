--------------------------- MODULE SocksTunBridge ---------------------------
(***************************************************************************)
(* One TCP flow through SocksTunBridge (app/.../core/SocksTunBridge.kt),   *)
(* the userspace bridge between the VPN interface and the engine's SOCKS   *)
(* port.  Three kinds of threads share a TcpSession: the TUN reader, which *)
(* handles what the application's TCP stack sends, the session's worker    *)
(* (run), and its download thread (readFromSocks); close() may come from   *)
(* any of them, and from stop().                                           *)
(*                                                                         *)
(* The routing rules are empty in this build (AetherVpnService passes an   *)
(* empty list), so every flow is tunnelled.  Segments have length one.     *)
(***************************************************************************)
EXTENDS Integers, Sequences

CONSTANTS
  MaxSessions,  \* bound: sessions created for this flow key
  MaxSegments,  \* bound: data segments the application sends
  MaxChunks,    \* bound: segments the server sends back
  QueueSize,    \* capacity of a session's upload queue (8192 in the code)
  Overflow,     \* bound: whether tunOutputQueue is ever full
  WebPort,      \* whether the flow goes to port 80 or 443
  SeqSpace,     \* size of the sequence number space (2^32 in the code)
  InitialSeq    \* sequence number of the application's SYN

ASSUME BridgeConstantsOK ==
  /\ MaxSessions \in Nat /\ MaxSegments \in Nat /\ MaxChunks \in Nat
  /\ QueueSize \in Nat \ {0} /\ Overflow \in BOOLEAN
  /\ WebPort \in BOOLEAN
  /\ SeqSpace \in Nat /\ SeqSpace > MaxSegments + 2
  /\ InitialSeq \in 0 .. SeqSpace - 1

Sessions == 1 .. MaxSessions

VARIABLES
  \* the application's TCP stack
  client,     \* "new", "syn" (SYN sent) or "est"
  sent,       \* data segments sent
  fin,        \* "no", "bare" (after the last segment) or "data" (on it)
  rst,        \* whether a RST was sent
  conn,       \* session whose SYN-ACK it accepted, 0 for none
  got,        \* next sequence offset it expects from the server
  \* the bridge
  isRunning,
  table,      \* tcpSessions[key], 0 for none
  created,    \* sessions created so far
  reader,     \* TUN reader: "idle", or the packet it handles
  tun,        \* tunOutputQueue: this flow's numbered packets in it
  dropped,    \* history: tunOutputQueue was full and a packet was lost
  \* fields of the sessions
  pc,         \* worker
  rpc,        \* download thread
  sock,       \* "none", "open", "closed"
  isClosed, connected, clientClosed, outputShutdown, synAckSent,
  myAck,      \* next sequence number expected from the application
  mySeq,      \* next sequence offset towards the application
  queue,      \* upload queue, as indices of segments
  written     \* history: segments written to the engine

app     == <<client, sent, fin, rst, conn, got>>
flags   == <<clientClosed, outputShutdown, synAckSent>>
upload  == <<myAck, queue, written>>
vars    == <<app, isRunning, table, created, reader, tun, dropped, pc, rpc,
             sock, isClosed, connected, flags, upload, mySeq>>

WorkerPCs == {"unborn", "start", "sniff", "dial", "connect", "check",
              "answer", "poll", "drained", "finally", "remove", "done"}
DownloadPCs == {"unborn", "read", "finally", "remove", "done"}

SeqOf(i) == (InitialSeq + i) % SeqSpace
Goto(s, l) == pc' = [pc EXCEPT ![s] = l]

\* Packets that carry sequence numbers; a pure ACK carries none of its own.
Packet(s, n, what) == [from |-> s, seq |-> n, kind |-> what]
Kinds == {"synAck", "data", "fin"}

-----------------------------------------------------------------------------
(* enqueueTun and close. *)

\* tunOutputQueue is shared by every flow, so it can be full at any moment,
\* and the packet a full queue evicts may be this flow's oldest or another's.
Evicted == IF Overflow /\ tun # <<>> THEN {tun, Tail(tun)} ELSE {tun}

\* The queue with or without the packet.
Offered(q, p) == {Append(q, p)} \cup (IF Overflow THEN {q} ELSE {})

\* A critical packet evicts the oldest one from a full queue; it is lost when
\* another thread takes the place it has freed.
EnqueueCritical(p) ==
  /\ \E rest \in Evicted : tun' \in Offered(rest, p)
  /\ dropped' = (dropped \/ tun' # Append(tun, p))

\* Any other is lost when the queue is full.
Enqueue(p) ==
  /\ tun' \in Offered(tun, p)
  /\ dropped' = (dropped \/ tun' # Append(tun, p))

\* sendAck, a critical packet too: the ACK itself is not kept.
sendAck ==
  /\ tun' \in Evicted
  /\ dropped' = (dropped \/ tun' # tun)

\* Only the first close() does anything, and it closes only a socket that is
\* already there and that the calling thread sees (the field is a plain var).
close(s, seen) ==
  IF isClosed[s] THEN UNCHANGED <<isClosed, sock>>
  ELSE /\ isClosed' = [isClosed EXCEPT ![s] = TRUE]
       /\ sock' = IF seen /\ sock[s] = "open"
                  THEN [sock EXCEPT ![s] = "closed"] ELSE sock

\* Mutant: the table entry is removed whatever session it holds.
removeAny(s) == table' = 0

\* tcpSessions.remove(key, session), the last step of close().
remove(s) == table' = IF table = s THEN 0 ELSE table

\* close() on the TUN reader or in stop(), which have not synchronised with the
\* worker.  One step: only the TUN reader adds to the table.
closeForeign(s) ==
  /\ \E seen \in BOOLEAN : close(s, seen)
  /\ remove(s)

-----------------------------------------------------------------------------
(* The application's TCP stack, and the TUN writer that feeds it.          *)

SendSyn ==
  /\ client = "new"
  /\ client' = "syn"
  /\ UNCHANGED <<sent, fin, rst, conn, got, isRunning, table, created, reader,
                 tun, dropped, pc, rpc, sock, isClosed, connected, flags,
                 upload, mySeq>>

SendSegment ==
  /\ client = "est" /\ fin = "no" /\ sent < MaxSegments
  /\ sent' = sent + 1
  /\ UNCHANGED <<client, fin, rst, conn, got, isRunning, table, created,
                 reader, tun, dropped, pc, rpc, sock, isClosed, connected,
                 flags, upload, mySeq>>

\* The FIN follows the last segment, or rides on it.
SendFin ==
  /\ client = "est" /\ fin = "no"
  /\ \/ fin' = "bare" /\ UNCHANGED sent
     \/ sent < MaxSegments /\ sent' = sent + 1 /\ fin' = "data"
  /\ UNCHANGED <<client, rst, conn, got, isRunning, table, created, reader,
                 tun, dropped, pc, rpc, sock, isClosed, connected, flags,
                 upload, mySeq>>

SendRst ==
  /\ client # "new" /\ ~rst
  /\ rst' = TRUE
  /\ UNCHANGED <<client, sent, fin, conn, got, isRunning, table, created,
                 reader, tun, dropped, pc, rpc, sock, isClosed, connected,
                 flags, upload, mySeq>>

\* writeThread: the application takes the first SYN-ACK, and after it what has
\* the sequence number it expects.
Deliver ==
  /\ isRunning /\ tun # <<>>
  /\ tun' = Tail(tun)
  /\ LET p == Head(tun) IN
       IF client = "syn" /\ p.kind = "synAck"
       THEN client' = "est" /\ conn' = p.from /\ got' = p.seq + 1
       ELSE /\ got' = IF p.from = conn /\ p.seq = got THEN got + 1 ELSE got
            /\ UNCHANGED <<client, conn>>
  /\ UNCHANGED <<sent, fin, rst, isRunning, table, created, reader, dropped,
                 pc, rpc, sock, isClosed, connected, flags, upload, mySeq>>

-----------------------------------------------------------------------------
(* readThread: processIpv4 / processIpv6 and TcpSession.handleFromTun.     *)

\* What can be in the interface: everything the application has sent, any
\* number of times and in any order.
InFlight ==
  (IF client # "new" THEN {<<"syn", 0>>} ELSE {})
  \cup {<<"data", i>> : i \in 1 .. (IF fin = "data" THEN sent - 1 ELSE sent)}
  \cup (IF fin = "bare" THEN {<<"fin", sent + 1>>} ELSE {})
  \cup (IF fin = "data" THEN {<<"fin", sent>>} ELSE {})
  \cup (IF rst THEN {<<"rst", 0>>} ELSE {})

Read(p) ==
  /\ isRunning /\ reader = <<"idle", 0>>
  /\ reader' = p
  /\ UNCHANGED <<app, isRunning, table, created, tun, dropped, pc, rpc, sock,
                 isClosed, connected, flags, upload, mySeq>>

\* The sessions handleFromTun does not turn away.
Open == {s \in Sessions : ~isClosed[s]}

readerRest == <<app, isRunning, pc, rpc, connected, outputShutdown,
                synAckSent, written, mySeq>>

\* A SYN for a session that is still dialling is dropped until a second has
\* passed; then the session is given up for a new one.
SynKnown ==
  /\ reader[1] = "syn" /\ table # 0 /\ ~connected[table]
  /\ reader' \in {<<"idle", 0>>, <<"replace", table>>}
  /\ UNCHANGED <<readerRest, table, created, tun, dropped, sock, isClosed,
                 clientClosed, myAck, queue>>

SynReplace ==
  /\ reader[1] = "replace"
  /\ closeForeign(reader[2])
  /\ reader' = <<"create", 0>>
  /\ UNCHANGED <<readerRest, created, tun, dropped, clientClosed, myAck, queue>>

SynNew ==
  /\ reader[1] = "syn" /\ table = 0
  /\ reader' = <<"create", 0>>
  /\ UNCHANGED <<readerRest, table, created, tun, dropped, sock, isClosed,
                 clientClosed, myAck, queue>>

\* The flow belongs to a blocked application: its SYN is answered with a RST.
Refuse ==
  /\ reader[1] = "create"
  /\ sendAck
  /\ reader' = <<"idle", 0>>
  /\ UNCHANGED <<readerRest, table, created, sock, isClosed, clientClosed,
                 myAck, queue>>

\* The application has been blocked since the session was created.
Blocked ==
  /\ reader[1] \in {"syn", "data", "fin", "rst"} /\ table # 0
  /\ reader[1] = "syn" => connected[table]
  /\ closeForeign(table)
  /\ reader' = <<"idle", 0>>
  /\ UNCHANGED <<readerRest, created, tun, dropped, clientClosed, myAck, queue>>

\* A new session enters the table and is handed to the executor, which refuses
\* it after shutdownNow.
Create ==
  /\ reader[1] = "create" /\ created < MaxSessions
  /\ created' = created + 1
  /\ table' = created + 1
  /\ \/ pc' = [pc EXCEPT ![created + 1] = "start"]
     \/ ~isRunning /\ UNCHANGED pc
  /\ myAck' = [myAck EXCEPT ![created + 1] = SeqOf(1)]
  /\ reader' = <<"idle", 0>>
  /\ UNCHANGED <<app, isRunning, tun, dropped, rpc, sock, isClosed, connected,
                 flags, queue, written, mySeq>>

\* A segment for no session, or for one that is closed.
Ignore ==
  /\ reader[1] \in {"data", "fin", "rst"}
  /\ table \notin Open
  /\ reader' = <<"idle", 0>>
  /\ UNCHANGED <<readerRest, table, created, tun, dropped, sock, isClosed,
                 clientClosed, myAck, queue>>

\* A SYN for a connected session reaches handleFromTun, which does nothing
\* with it: it has no payload.
SynConnected ==
  /\ reader[1] = "syn" /\ table # 0 /\ connected[table]
  /\ reader' = <<"idle", 0>>
  /\ UNCHANGED <<readerRest, table, created, tun, dropped, sock, isClosed,
                 clientClosed, myAck, queue>>

\* RST, or FIN before the session is connected.
Abort ==
  /\ table \in Open
  /\ reader[1] = "rst" \/ (reader[1] = "fin" /\ ~connected[table])
  /\ closeForeign(table)
  /\ reader' = <<"idle", 0>>
  /\ UNCHANGED <<readerRest, created, tun, dropped, clientClosed, myAck, queue>>

\* Payload that arrives before the session is connected is dropped.
Early ==
  /\ reader[1] = "data" /\ table \in Open /\ ~connected[table]
  /\ reader' = <<"idle", 0>>
  /\ UNCHANGED <<readerRest, table, created, tun, dropped, sock, isClosed,
                 clientClosed, myAck, queue>>

\* FIN: the payload of the segment that carries it is not looked at.
Fin ==
  /\ reader[1] = "fin" /\ table \in Open /\ connected[table]
  /\ IF SeqOf(reader[2]) = myAck[table]
     THEN /\ myAck' = [myAck EXCEPT ![table] = SeqOf(reader[2] + 1)]
          /\ clientClosed' = [clientClosed EXCEPT ![table] = TRUE]
     ELSE UNCHANGED <<myAck, clientClosed>>
  /\ sendAck
  /\ reader' = <<"idle", 0>>
  /\ UNCHANGED <<readerRest, table, created, sock, isClosed, queue>>

\* The expected segment is queued and acknowledged, or neither when the queue
\* is full; any other segment is answered with the present ACK.
Data ==
  /\ reader[1] = "data" /\ table \in Open /\ connected[table]
  /\ IF SeqOf(reader[2]) # myAck[table]
     THEN sendAck /\ UNCHANGED <<myAck, queue>>
     ELSE IF Len(queue[table]) < QueueSize
     THEN /\ queue' = [queue EXCEPT ![table] = Append(@, reader[2])]
          /\ myAck' = [myAck EXCEPT ![table] = SeqOf(reader[2] + 1)]
          /\ sendAck
     ELSE UNCHANGED <<myAck, queue, tun, dropped>>
  /\ reader' = <<"idle", 0>>
  /\ UNCHANGED <<readerRest, table, created, sock, isClosed, clientClosed>>

Handle ==
  \/ SynKnown \/ SynReplace \/ SynNew \/ Create \/ Refuse \/ Blocked
  \/ Ignore \/ SynConnected \/ Abort \/ Early \/ Fin \/ Data

-----------------------------------------------------------------------------
(* The worker: TcpSession.run. *)

workerRest == <<app, isRunning, created, reader, clientClosed, myAck>>

SynAck(s) ==
  /\ EnqueueCritical(Packet(s, mySeq[s], "synAck"))
  /\ mySeq' = [mySeq EXCEPT ![s] = @ + 1]

\* A flow to port 80 or 443 whose domain is unknown is answered at once, in
\* the hope to read the name off its first packet.
Start(s) ==
  /\ pc[s] = "start"
  /\ \/ /\ WebPort
        /\ SynAck(s)
        /\ synAckSent' = [synAckSent EXCEPT ![s] = TRUE]
        /\ Goto(s, "sniff")
     \/ Goto(s, "dial") /\ UNCHANGED <<tun, dropped, mySeq, synAckSent>>
  /\ UNCHANGED <<workerRest, table, rpc, sock, isClosed, connected,
                 outputShutdown, queue, written>>

\* queue.poll for a second; a packet found is put back at the front.
Sniff(s) ==
  /\ pc[s] = "sniff"
  /\ Goto(s, "dial")
  /\ UNCHANGED <<workerRest, table, tun, dropped, rpc, sock, isClosed,
                 connected, outputShutdown, synAckSent, queue, written, mySeq>>

Dial(s) ==
  /\ pc[s] = "dial"
  /\ sock' = [sock EXCEPT ![s] = "open"]
  /\ Goto(s, "connect")
  /\ UNCHANGED <<workerRest, table, tun, dropped, rpc, isClosed, connected,
                 outputShutdown, synAckSent, queue, written, mySeq>>

\* connect, socksHandshake and readSocksReply succeed, or one of them does not.
ConnectSocks(s) ==
  /\ pc[s] = "connect"
  /\ \/ /\ sock[s] = "open"
        /\ connected' = [connected EXCEPT ![s] = TRUE]
        /\ Goto(s, "check")
     \/ Goto(s, "finally") /\ UNCHANGED connected
  /\ UNCHANGED <<workerRest, table, tun, dropped, rpc, sock, isClosed,
                 outputShutdown, synAckSent, queue, written, mySeq>>

Check(s) ==
  /\ pc[s] = "check"
  /\ Goto(s, IF isClosed[s] THEN "finally" ELSE "answer")
  /\ UNCHANGED <<workerRest, table, tun, dropped, rpc, sock, isClosed,
                 connected, outputShutdown, synAckSent, queue, written, mySeq>>

\* The SYN-ACK, unless it went out early, and the download thread, which the
\* executor refuses after shutdownNow.
Answer(s) ==
  /\ pc[s] = "answer"
  /\ IF synAckSent[s] THEN UNCHANGED <<tun, dropped, mySeq>> ELSE SynAck(s)
  /\ \/ Goto(s, "poll") /\ rpc' = [rpc EXCEPT ![s] = "read"]
     \/ ~isRunning /\ Goto(s, "finally") /\ UNCHANGED rpc
  /\ UNCHANGED <<workerRest, table, sock, isClosed, connected, outputShutdown,
                 synAckSent, queue, written>>

\* What is queued is written and flushed, as far as the drain gets; a write to
\* a closed socket throws.
Write(s) ==
  /\ pc[s] = "poll" /\ ~isClosed[s] /\ isRunning /\ queue[s] # <<>>
  /\ \E n \in 1 .. Len(queue[s]) :
       /\ queue' = [queue EXCEPT ![s] = SubSeq(@, n + 1, Len(@))]
       /\ IF sock[s] = "open"
          THEN /\ written' = [written EXCEPT ![s] =
                                @ \o SubSeq(queue[s], 1, n)]
               /\ Goto(s, "drained")
          ELSE Goto(s, "finally") /\ UNCHANGED written
  /\ UNCHANGED <<workerRest, table, tun, dropped, rpc, sock, isClosed,
                 connected, outputShutdown, synAckSent, mySeq>>

\* Mutant: the half-close is forwarded while segments are still queued.
HalfCloseEarly(s) ==
  outputShutdown' = IF clientClosed[s]
                    THEN [outputShutdown EXCEPT ![s] = TRUE]
                    ELSE outputShutdown

HalfClose(s) ==
  outputShutdown' = IF clientClosed[s] /\ queue[s] = <<>>
                    THEN [outputShutdown EXCEPT ![s] = TRUE]
                    ELSE outputShutdown

Drained(s) ==
  /\ pc[s] = "drained"
  /\ HalfClose(s)
  /\ Goto(s, "poll")
  /\ UNCHANGED <<workerRest, table, tun, dropped, rpc, sock, isClosed,
                 connected, synAckSent, queue, written, mySeq>>

\* Mutant: the half-close is only looked at after a write.
IdleIgnoresFin(s) ==
  /\ pc[s] = "poll" /\ ~isClosed[s] /\ isRunning /\ queue[s] = <<>>
  /\ UNCHANGED <<workerRest, table, tun, dropped, pc, rpc, sock, isClosed,
                 connected, flags, upload, mySeq>>

\* Two seconds without data.
Idle(s) ==
  /\ pc[s] = "poll" /\ ~isClosed[s] /\ isRunning /\ queue[s] = <<>>
  /\ HalfClose(s)
  /\ UNCHANGED <<workerRest, table, tun, dropped, pc, rpc, sock, isClosed,
                 connected, synAckSent, queue, written, mySeq>>

\* Five minutes without activity, or the loop's condition has become false.
Leave(s) ==
  /\ pc[s] = "poll"
  /\ Goto(s, "finally")
  /\ UNCHANGED <<workerRest, table, tun, dropped, rpc, sock, isClosed,
                 connected, outputShutdown, synAckSent, queue, written, mySeq>>

Finally(s) ==
  /\ pc[s] = "finally"
  /\ close(s, TRUE)
  /\ Goto(s, IF isClosed[s] THEN "done" ELSE "remove")
  /\ UNCHANGED <<workerRest, table, tun, dropped, rpc, connected,
                 outputShutdown, synAckSent, queue, written, mySeq>>

\* The TUN reader may have replaced the session meanwhile.
Remove(s) ==
  /\ pc[s] = "remove"
  /\ remove(s)
  /\ Goto(s, "done")
  /\ UNCHANGED <<workerRest, tun, dropped, rpc, sock, isClosed, connected,
                 outputShutdown, synAckSent, queue, written, mySeq>>

Worker(s) ==
  \/ Start(s) \/ Sniff(s) \/ Dial(s) \/ ConnectSocks(s) \/ Check(s)
  \/ Answer(s) \/ Write(s) \/ Drained(s) \/ Idle(s) \/ Finally(s)
  \/ Remove(s)

-----------------------------------------------------------------------------
(* The download thread: readFromSocks. *)

downloadRest == <<app, isRunning, created, reader, pc, connected, flags,
                  upload>>

\* Mutant: data is numbered from the SYN-ACK's own number.
ChunkReuses(s) ==
  /\ rpc[s] = "read" /\ sock[s] = "open" /\ mySeq[s] <= MaxChunks
  /\ Enqueue(Packet(s, mySeq[s] - 1, "data"))
  /\ mySeq' = [mySeq EXCEPT ![s] = @ + 1]
  /\ UNCHANGED <<downloadRest, table, rpc, sock, isClosed>>

\* The sequence number advances whether or not the packet found room.
Chunk(s) ==
  /\ rpc[s] = "read" /\ sock[s] = "open" /\ mySeq[s] <= MaxChunks
  /\ Enqueue(Packet(s, mySeq[s], "data"))
  /\ mySeq' = [mySeq EXCEPT ![s] = @ + 1]
  /\ UNCHANGED <<downloadRest, table, rpc, sock, isClosed>>

Eof(s) ==
  /\ rpc[s] = "read" /\ sock[s] = "open"
  /\ EnqueueCritical(Packet(s, mySeq[s], "fin"))
  /\ mySeq' = [mySeq EXCEPT ![s] = @ + 1]
  /\ rpc' = [rpc EXCEPT ![s] = "finally"]
  /\ UNCHANGED <<downloadRest, table, sock, isClosed>>

\* A read fails, or the loop's condition has become false.
ReadEnds(s) ==
  /\ rpc[s] = "read"
  /\ rpc' = [rpc EXCEPT ![s] = "finally"]
  /\ UNCHANGED <<downloadRest, table, tun, dropped, sock, isClosed, mySeq>>

DownloadFinally(s) ==
  /\ rpc[s] = "finally"
  /\ close(s, TRUE)
  /\ rpc' = [rpc EXCEPT ![s] = IF isClosed[s] THEN "done" ELSE "remove"]
  /\ UNCHANGED <<downloadRest, table, tun, dropped, mySeq>>

DownloadRemove(s) ==
  /\ rpc[s] = "remove"
  /\ remove(s)
  /\ rpc' = [rpc EXCEPT ![s] = "done"]
  /\ UNCHANGED <<downloadRest, tun, dropped, sock, isClosed, mySeq>>

Download(s) ==
  \/ Chunk(s) \/ Eof(s) \/ ReadEnds(s) \/ DownloadFinally(s)
  \/ DownloadRemove(s)

-----------------------------------------------------------------------------
\* stop(): every session in the table is closed and the executor refuses work;
\* the reader may still be inside a packet.
Stop ==
  /\ isRunning
  /\ isRunning' = FALSE
  /\ IF table # 0 THEN closeForeign(table)
     ELSE UNCHANGED <<isClosed, sock, table>>
  /\ UNCHANGED <<app, created, reader, tun, dropped, pc, rpc, connected, flags,
                 upload, mySeq>>

Init ==
  /\ client = "new" /\ sent = 0 /\ fin = "no" /\ rst = FALSE
  /\ conn = 0 /\ got = 0
  /\ isRunning = TRUE /\ table = 0 /\ created = 0 /\ reader = <<"idle", 0>>
  /\ tun = <<>> /\ dropped = FALSE
  /\ pc = [s \in Sessions |-> "unborn"] /\ rpc = [s \in Sessions |-> "unborn"]
  /\ sock = [s \in Sessions |-> "none"]
  /\ isClosed = [s \in Sessions |-> FALSE]
  /\ connected = [s \in Sessions |-> FALSE]
  /\ clientClosed = [s \in Sessions |-> FALSE]
  /\ outputShutdown = [s \in Sessions |-> FALSE]
  /\ synAckSent = [s \in Sessions |-> FALSE]
  /\ myAck = [s \in Sessions |-> 0] /\ mySeq = [s \in Sessions |-> 0]
  /\ queue = [s \in Sessions |-> <<>>] /\ written = [s \in Sessions |-> <<>>]

Next ==
  \/ SendSyn \/ SendSegment \/ SendFin \/ SendRst \/ Deliver
  \/ \E p \in InFlight : Read(p)
  \/ Handle
  \/ \E s \in Sessions : Worker(s) \/ Leave(s) \/ Download(s)
  \/ Stop

\* Threads of the cached pool keep running, the waits of the worker on its queue
\* are bounded and the engine keeps reading its socket; nothing is assumed of
\* the application, the server or the reader.
Fairness == \A s \in Sessions : WF_vars(Worker(s))

Spec == Init /\ [][Next]_vars
FairSpec == Spec /\ Fairness

-----------------------------------------------------------------------------
\* Types of the fields: the upload queue keeps its capacity and myAck its width.
TypeOK ==
  /\ client \in {"new", "syn", "est"} /\ sent \in 0 .. MaxSegments
  /\ fin \in {"no", "bare", "data"} /\ rst \in BOOLEAN
  /\ conn \in 0 .. created /\ got \in Nat
  /\ isRunning \in BOOLEAN /\ created \in 0 .. MaxSessions
  /\ table \in 0 .. created /\ dropped \in BOOLEAN
  /\ reader[2] \in Nat
  /\ \A i \in DOMAIN tun : tun[i].from \in 1 .. created /\ tun[i].kind \in Kinds
  /\ pc \in [Sessions -> WorkerPCs] /\ rpc \in [Sessions -> DownloadPCs]
  /\ sock \in [Sessions -> {"none", "open", "closed"}]
  /\ isClosed \in [Sessions -> BOOLEAN] /\ connected \in [Sessions -> BOOLEAN]
  /\ myAck \in [Sessions -> 0 .. SeqSpace - 1] /\ mySeq \in [Sessions -> Nat]
  /\ \A s \in Sessions : Len(queue[s]) <= QueueSize

\* handleFromTun: what a session has acknowledged is queued or written, once
\* and in the order of the application, across retransmissions, reordering, a
\* full queue and the wrap of the sequence numbers.  The exception is a FIN
\* that rides on data: its payload is dropped.
AckedOnceInOrder ==
  \A s \in Sessions :
    pc[s] \notin {"unborn", "finally", "remove", "done"} /\ fin # "data" =>
      LET kept == written[s] \o queue[s] IN
        /\ kept = [i \in 1 .. Len(kept) |-> i]
        /\ myAck[s] = SeqOf(Len(kept) + (IF clientClosed[s] THEN 2 ELSE 1))

\* The engine is told that the upload has ended only after all of it has been
\* written.
HalfCloseLast ==
  \A s \in Sessions :
    outputShutdown[s] /\ fin # "data" => Len(written[s]) = sent

\* While the bridge runs, packets of the flow reach its newest session as long
\* as it is not closed: a late close() of the session it replaced leaves the
\* table alone.
NewestReachable ==
  isRunning /\ created > 0 => (isClosed[created] \/ table = created)

\* Every session but the newest is closed, so that at most one of them takes
\* the flow's segments.
OlderClosed == \A s \in Sessions : s < created => isClosed[s]

\* The wait for a first packet in run() never finds one, because handleFromTun
\* drops payload until the session is connected.
SniffFindsNothing == \A s \in Sessions : pc[s] = "sniff" => queue[s] = <<>>

\* Every sequence number given out to the application is in the queue or has
\* reached it, in order, unless the queue overflowed.
DownloadContiguous ==
  conn # 0 /\ ~dropped =>
    LET mine == {i \in DOMAIN tun : tun[i].from = conn} IN
      /\ {tun[i].seq : i \in mine} = got .. mySeq[conn] - 1
      /\ \A i, j \in mine : i < j => tun[i].seq < tun[j].seq

\* A FIN the session has taken note of reaches the engine, or the session ends.
FinPropagates ==
  \A s \in Sessions :
    clientClosed[s] ~> outputShutdown[s] \/ isClosed[s] \/ pc[s] = "finally"

\* The upload through a session: what was acknowledged is kept once and in
\* order, the engine is told of its end last, and nothing comes before the
\* connection (SocksTunBridge.kt handleFromTun and the worker).
UploadInOrder ==
  TypeOK /\ AckedOnceInOrder /\ HalfCloseLast /\ SniffFindsNothing

\* Replacing a flow's session: packets reach the newest one, and it alone takes
\* them (SocksTunBridge.kt:227, 352 and TcpSession.close).
Replacement == NewestReachable /\ OlderClosed
=============================================================================
