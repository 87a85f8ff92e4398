------------------------------ MODULE NetStack ------------------------------
(***************************************************************************)
(* The user-space network stack of the core (netstack.rs) and the TCP relay *)
(* that the SOCKS server runs over it (socks.rs, handle_connect).           *)
(*                                                                          *)
(* One task runs the stack.  A round of its loop polls smoltcp, services    *)
(* every connection, retries what was deferred and then takes one thing     *)
(* from its channels.  A relay has an upload task, which feeds the data_in  *)
(* channel all relays share, and a download loop, which empties a channel   *)
(* of its own.  Bytes are counted, not named: every buffer is first in,     *)
(* first out, so a stream is known by how many of its bytes are where.      *)
(*                                                                          *)
(* smoltcp's sockets and the network are external.  A segment that is lost, *)
(* or that flush_tx drops because the tunnel is slow, is retransmitted, so  *)
(* the network only delays.  A socket changes when iface.poll runs, which   *)
(* is at the start of a round; the network therefore acts between rounds.   *)
(***************************************************************************)
EXTENDS Naturals, Sequences, SequencesExt

CONSTANTS
  Conns,        \* connections, numbered as handle_cmd numbers them
  UpBytes,      \* UpBytes[c]: what the client of c has to send
  DownBytes,    \* DownBytes[c]: what the server of c has to send
  MaxRead,      \* the largest read of the upload task (16384 bytes)
  QueueSize,    \* capacity of data_in and of each to_app (app_queue)
  MaxPending,   \* max_tcp_pending
  TcpBuf,       \* tcp_buf, the size of a socket's buffers
  Rough         \* connections whose client or server may fail

ASSUME NetStackConstants ==
  /\ IsFiniteSet(Conns)
  /\ UpBytes \in [Conns -> Nat] /\ DownBytes \in [Conns -> Nat]
  /\ MaxRead \in Nat \ {0} /\ QueueSize \in Nat \ {0}
  /\ MaxPending \in Nat \ {0} /\ TcpBuf \in Nat \ {0} /\ Rough \subseteq Conns

VARIABLES
  stack,      \* the task: "select", "drain", "opened" or "ended"
  conn,       \* conn[c]: TcpState and its smoltcp socket
  dataIn,     \* the data_in channel
  deferred,   \* what try_handle_data gave back: at most one message
  handler,    \* handler[c]: the task of handle_connect
  up,         \* up[c]: its upload task
  held,       \* held[c]: bytes the upload task has read and not yet sent
  unread,     \* unread[c]: bytes the client has yet to hand over
  client,     \* client[c]: "open", "eof" once it half-closed, "gone"
  got,        \* got[c]: bytes written to the client
  server      \* server[c]: what the far end sent and received

netVars == <<stack, conn, dataIn, deferred, handler, up, held, unread,
             client, got, server>>

relay == <<handler, up, held, unread, client, got>>

SockStates == {"none", "SynSent", "Established", "FinWait1", "FinWait2",
               "Closing", "TimeWait", "CloseWait", "LastAck", "Closed"}

NewConn == [sock |-> "none", entry |-> FALSE, established |-> FALSE,
            half |-> FALSE, pending |-> 0, tx |-> 0, rx |-> 0, at |-> 0,
            toApp |-> <<>>, answer |-> "none", cut |-> FALSE]

DataMsg(c, n) == [kind |-> "data", id |-> c, size |-> n]
CloseMsg(c) == [kind |-> "close", id |-> c, size |-> 0]

Least(a, b) == IF a < b THEN a ELSE b

NetInit ==
  /\ stack = "select"
  /\ conn = [c \in Conns |-> NewConn]
  /\ dataIn = <<>> /\ deferred = <<>>
  /\ handler = [c \in Conns |-> "opening"] /\ up = [c \in Conns |-> "none"]
  /\ held = [c \in Conns |-> 0] /\ unread = UpBytes
  /\ client = [c \in Conns |-> "open"] /\ got = [c \in Conns |-> 0]
  /\ server = [c \in Conns |->
                 [sent |-> 0, recv |-> 0, fin |-> FALSE, sawFin |-> FALSE]]

-----------------------------------------------------------------------------
(* smoltcp's sockets, as service_tcp uses them. *)

\* tcp::Socket::close
Closing(r) ==
  [r EXCEPT !.sock = CASE @ = "SynSent" -> "Closed"
                       [] @ = "Established" -> "FinWait1"
                       [] @ = "CloseWait" -> "LastAck"
                       [] OTHER -> @]

CanSend(r) == r.sock \in {"Established", "CloseWait"}
MayReceive(r) == r.sock \in {"Established", "FinWait1", "FinWait2"}

\* The server answers the SYN.
Accepted(c) ==
  /\ stack = "select" /\ conn[c].sock = "SynSent"
  /\ \E s \in {"Established"} \cup IF c \in Rough THEN {"Closed"} ELSE {} :
       conn' = [conn EXCEPT ![c].sock = s]
  /\ UNCHANGED <<stack, dataIn, deferred, relay, server>>

\* Bytes, then the FIN, leave the socket and are acknowledged.
Delivered(c) ==
  /\ stack = "select" /\ conn[c].tx > 0
  /\ conn[c].sock \in {"Established", "CloseWait", "FinWait1", "Closing",
                       "LastAck"}
  /\ conn' = [conn EXCEPT ![c].tx = 0]
  /\ server' = [server EXCEPT ![c].recv = @ + conn[c].tx]
  /\ UNCHANGED <<stack, dataIn, deferred, relay>>

FinAcked(c) ==
  /\ stack = "select" /\ conn[c].tx = 0
  /\ conn[c].sock \in {"FinWait1", "Closing", "LastAck"}
  /\ conn' = [conn EXCEPT ![c].sock =
                CASE @ = "FinWait1" -> "FinWait2"
                  [] @ = "Closing" -> "TimeWait"
                  [] @ = "LastAck" -> "Closed"]
  /\ server' = [server EXCEPT ![c].sawFin = TRUE]
  /\ UNCHANGED <<stack, dataIn, deferred, relay>>

\* The handshake's last segment leaves in flush_tx, after service_tcp, so the
\* server's first byte finds the connection announced.
ServerSends(c) ==
  /\ stack = "select" /\ MayReceive(conn[c]) /\ conn[c].established
  /\ ~server[c].fin
  /\ conn[c].rx < TcpBuf /\ server[c].sent < DownBytes[c]
  /\ conn' = [conn EXCEPT ![c].rx = @ + 1]
  /\ server' = [server EXCEPT ![c].sent = @ + 1]
  /\ UNCHANGED <<stack, dataIn, deferred, relay>>

ServerFin(c) ==
  /\ stack = "select" /\ MayReceive(conn[c]) /\ conn[c].established
  /\ ~server[c].fin
  /\ conn' = [conn EXCEPT ![c].sock =
                CASE @ = "Established" -> "CloseWait"
                  [] @ = "FinWait1" -> "Closing"
                  [] @ = "FinWait2" -> "TimeWait"]
  /\ server' = [server EXCEPT ![c].fin = TRUE]
  /\ UNCHANGED <<stack, dataIn, deferred, relay>>

ServerResets(c) ==
  /\ stack = "select" /\ c \in Rough
  /\ conn[c].sock \in SockStates \ {"none", "SynSent", "TimeWait", "Closed"}
  /\ conn' = [conn EXCEPT ![c].sock = "Closed"]
  /\ UNCHANGED <<stack, dataIn, deferred, relay, server>>

-----------------------------------------------------------------------------
(* service_tcp: one connection of a round, block by block.  `listens` says  *)
(* whether the receiving half of to_app still exists; until the connection  *)
(* is announced TcpState itself keeps it.                                   *)

Listens(c) == handler[c] \in {"opening", "relay"}

\* The connection is up: the caller of open_tcp gets it.
Announce(r) ==
  IF ~r.established /\ r.sock = "Established"
  THEN [r EXCEPT !.established = TRUE,
                 !.answer = IF @ = "waiting" THEN "ok" ELSE @]
  ELSE r

\* It never came up: the caller is told and nothing is kept.
Refused(r) == ~r.established /\ r.sock \in {"Closed", "TimeWait"}
Refuse(r) == [r EXCEPT !.answer = IF @ = "waiting" THEN "refused" ELSE @,
                       !.entry = FALSE]

Push(r) ==
  LET sent == Least(TcpBuf - r.tx, r.pending)
  IN  IF CanSend(r)
      THEN [r EXCEPT !.tx = @ + sent, !.pending = @ - sent] ELSE r

HalfClose(r) == IF r.half /\ r.pending = 0 THEN Closing(r) ELSE r

\* What one recv hands over: the socket's buffer is a ring, read from `at`, and
\* recv stops at its end.
Contiguous(r) == Least(r.rx, TcpBuf - r.at)

Received(r, n) ==
  [r EXCEPT !.rx = @ - n, !.at = IF @ + n = TcpBuf THEN 0 ELSE @ + n]

\* Mutant: room in to_app is not asked for, and a full channel loses the chunk.
TakeSliceUnreserved(r, listens) ==
  LET n == Contiguous(r)
  IN  IF listens /\ r.rx > 0
      THEN [Received(r, n) EXCEPT
              !.toApp = IF Len(@) < QueueSize THEN Append(@, n) ELSE @]
      ELSE r

\* One turn of the loop: a chunk, if to_app has a place for it.
TakeSlice(r, listens) ==
  LET n == Contiguous(r)
  IN  IF listens /\ Len(r.toApp) < QueueSize /\ r.rx > 0
      THEN [Received(r, n) EXCEPT !.toApp = Append(@, n)] ELSE r

\* The loop: nothing arrives meanwhile, so the second turn empties the socket
\* (MAX_RECV_CHUNKS is 128), unless to_app is full before.
Deliver(r, listens) == TakeSlice(TakeSlice(r, listens), listens)

\* Mutant: a connection whose application has gone is left alone.
AppGoneIgnored(r, listens) == r

AppGone(r, listens) == IF listens THEN r ELSE Closing(r)

\* The last block, on the state the socket has after AppGone.  What the
\* socket still held for the application is cut off.
Reap(r) ==
  CASE r.sock = "CloseWait" -> Closing(r)
    [] r.sock \in {"Closed", "TimeWait"} /\ r.established ->
         [r EXCEPT !.entry = FALSE, !.pending = 0, !.tx = 0,
                   !.cut = r.rx > 0, !.rx = 0]
    [] OTHER -> r

\* Mutant: a socket that is over is removed before it is read.
ServicedReapFirst(r, listens) ==
  LET a == Announce(r)
      l == listens \/ ~a.established
  IN  IF Refused(a) THEN Refuse(a)
      ELSE AppGone(Deliver(Reap(HalfClose(Push(a))), l), l)

Serviced(r, listens) ==
  LET a == Announce(r)
      l == listens \/ ~a.established
  IN  IF Refused(a) THEN Refuse(a)
      ELSE Reap(AppGone(Deliver(HalfClose(Push(a)), l), l))

\* A dropped sender tries to say TcpClose.
TrySend(q, m) == IF Len(q) < QueueSize THEN Append(q, m) ELSE q

\* The connections announced to nobody in the step from conn to after.
Dropped(after) ==
  {c \in Conns : ~conn[c].established /\ after[c].established /\ ~Listens(c)}

TrySendAll(q, ms) == LET all == q \o ms
                     IN  SubSeq(all, 1, Least(Len(all), QueueSize))

service_tcp ==
  [c \in Conns |-> IF conn[c].entry THEN Serviced(conn[c], Listens(c))
                   ELSE conn[c]]

-----------------------------------------------------------------------------
(* try_handle_data and the rest of the loop. *)

\* What becomes of connection r and of the message m for it.
Handle(r, m) ==
  IF ~r.entry THEN [r |-> r, back |-> <<>>]
  ELSE IF m.kind = "close" THEN [r |-> [r EXCEPT !.half = TRUE], back |-> <<>>]
  ELSE LET n == Least(m.size, MaxPending - r.pending)
       IN  [r |-> [r EXCEPT !.pending = @ + n],
            back |-> IF n = m.size THEN <<>> ELSE <<DataMsg(m.id, m.size - n)>>]

\* A round of the loop, up to its select: poll and service every connection,
\* then try the deferred message again.
Round ==
  /\ \/ stack = "select" /\ \E c \in Conns : conn[c].entry
     \/ stack = "drain" /\ (deferred # <<>> \/ dataIn = <<>>)
     \/ stack = "opened"
  /\ stack' = "select"
  /\ IF deferred = <<>>
     THEN conn' = service_tcp /\ UNCHANGED deferred
     ELSE LET m == Head(deferred)
              h == Handle(service_tcp[m.id], m)
          IN  /\ conn' = [service_tcp EXCEPT ![m.id] = h.r]
              /\ deferred' = h.back
  /\ dataIn' = TrySendAll(dataIn,
                   SetToSeq({CloseMsg(c) : c \in Dropped(service_tcp)}))
  /\ UNCHANGED <<relay, server>>

\* select: data_in, which is read until it is empty or something is deferred.
TakeData ==
  /\ stack \in {"select", "drain"} /\ deferred = <<>> /\ dataIn # <<>>
  /\ LET m == Head(dataIn)
         h == Handle(conn[m.id], m)
     IN  conn' = [conn EXCEPT ![m.id] = h.r] /\ deferred' = h.back
  /\ dataIn' = Tail(dataIn)
  /\ stack' = "drain"
  /\ UNCHANGED <<relay, server>>

\* select: Cmd::OpenTcp, also of a caller that has given up meanwhile; connect
\* fails when the address cannot be routed.
OpenTcp(c) ==
  /\ stack = "select" /\ handler[c] \in {"opening", "failed"}
  /\ conn[c].answer = "none"
  /\ \/ c \in Rough /\ conn' = [conn EXCEPT ![c].answer = "refused"]
     \/ conn' = [conn EXCEPT ![c] = [@ EXCEPT !.sock = "SynSent",
                                              !.entry = TRUE,
                                              !.answer = "waiting"]]
  /\ stack' = "opened"
  /\ UNCHANGED <<dataIn, deferred, relay, server>>

\* The tunnel has closed its side: run returns and drops what it owns.
RunReturns ==
  /\ stack = "select"
  /\ stack' = "ended"
  /\ conn' = [c \in Conns |->
                [conn[c] EXCEPT !.entry = FALSE, !.pending = 0, !.tx = 0,
                   !.rx = 0, !.cut = @ \/ conn[c].entry,
                   !.sock = IF @ = "none" THEN @ ELSE "Closed",
                   !.answer = IF @ \in {"none", "waiting"} THEN "dropped"
                              ELSE @]]
  /\ dataIn' = <<>> /\ deferred' = <<>>
  /\ UNCHANGED <<relay, server>>

-----------------------------------------------------------------------------
(* handle_connect: the relay of one client. *)

Opened(c) ==
  /\ handler[c] = "opening" /\ conn[c].answer = "ok"
  /\ handler' = [handler EXCEPT ![c] = "relay"]
  /\ up' = [up EXCEPT ![c] = "read"]
  /\ UNCHANGED <<stack, conn, dataIn, deferred, held, unread, client,
                 got, server>>

NotOpened(c) ==
  /\ handler[c] = "opening" /\ conn[c].answer \in {"refused", "dropped"}
  /\ handler' = [handler EXCEPT ![c] = "failed"]
  /\ UNCHANGED <<stack, conn, dataIn, deferred, up, held, unread, client,
                 got, server>>

\* open_through_gateway gives up; the answer, if it came, is dropped with it.
GivesUp(c) ==
  /\ handler[c] = "opening" /\ c \in Rough
  /\ handler' = [handler EXCEPT ![c] = "failed"]
  /\ dataIn' = IF conn[c].answer = "ok" /\ stack # "ended"
               THEN TrySend(dataIn, CloseMsg(c)) ELSE dataIn
  /\ UNCHANGED <<stack, conn, deferred, up, held, unread, client, got,
                 server>>

UpRead(c) ==
  /\ up[c] = "read"
  /\ \/ /\ client[c] # "gone" /\ unread[c] > 0
        /\ \E n \in 1 .. Least(MaxRead, unread[c]) :
             /\ unread' = [unread EXCEPT ![c] = @ - n]
             /\ held' = [held EXCEPT ![c] = n]
        /\ up' = [up EXCEPT ![c] = "send"]
     \/ /\ client[c] = "gone" \/ (client[c] = "eof" /\ unread[c] = 0)
        /\ up' = [up EXCEPT ![c] = "close"]
        /\ UNCHANGED <<unread, held>>
  /\ UNCHANGED <<stack, conn, dataIn, deferred, handler, client, got,
                 server>>

UpSend(c) ==
  /\ up[c] = "send"
  /\ IF stack = "ended"
     THEN up' = [up EXCEPT ![c] = "done"] /\ UNCHANGED dataIn
     ELSE /\ Len(dataIn) < QueueSize
          /\ dataIn' = Append(dataIn, DataMsg(c, held[c]))
          /\ up' = [up EXCEPT ![c] = "read"]
  /\ held' = [held EXCEPT ![c] = 0]
  /\ UNCHANGED <<stack, conn, deferred, handler, unread, client, got,
                 server>>

\* close().await, then the drop of the sender, which tries once more.
UpClose(c) ==
  /\ up[c] = "close"
  /\ IF stack = "ended" THEN UNCHANGED dataIn
     ELSE /\ Len(dataIn) < QueueSize
          /\ dataIn' = TrySend(Append(dataIn, CloseMsg(c)), CloseMsg(c))
  /\ up' = [up EXCEPT ![c] = "done"]
  /\ UNCHANGED <<stack, conn, deferred, handler, held, unread, client,
                 got, server>>

\* A chunk is written to the client.
DownWrite(c) ==
  /\ handler[c] = "relay" /\ client[c] # "gone" /\ conn[c].toApp # <<>>
  /\ got' = [got EXCEPT ![c] = @ + Head(conn[c].toApp)]
  /\ conn' = [conn EXCEPT ![c].toApp = Tail(@)]
  /\ UNCHANGED <<stack, dataIn, deferred, handler, up, held, unread,
                 client, server>>

\* The channel is over, or the client cannot be written to: the relay ends,
\* its upload task is aborted and both halves are dropped.
DownEnds(c) ==
  /\ handler[c] = "relay"
  /\ \/ conn[c].toApp = <<>> /\ ~conn[c].entry
     \/ conn[c].toApp # <<>> /\ client[c] = "gone"
  /\ handler' = [handler EXCEPT ![c] = "done"]
  /\ up' = [up EXCEPT ![c] = "done"]
  /\ held' = [held EXCEPT ![c] = 0]
  /\ dataIn' = IF up[c] # "done" /\ stack # "ended"
               THEN TrySend(dataIn, CloseMsg(c)) ELSE dataIn
  /\ UNCHANGED <<stack, conn, deferred, unread, client, got, server>>

\* The client half-closes, or goes away.
ClientEnds(c) ==
  /\ client[c] # "gone" /\ handler[c] = "relay"
  /\ \E s \in {"eof"} \cup IF c \in Rough THEN {"gone"} ELSE {} :
       s # client[c] /\ client' = [client EXCEPT ![c] = s]
  /\ UNCHANGED <<stack, conn, dataIn, deferred, handler, up, held,
                 unread, got, server>>

-----------------------------------------------------------------------------
Network(c) == \/ Accepted(c) \/ Delivered(c) \/ FinAcked(c) \/ ServerSends(c)
              \/ ServerFin(c) \/ ServerResets(c)

Relay(c) == \/ Opened(c) \/ NotOpened(c) \/ GivesUp(c)
            \/ UpRead(c) \/ UpSend(c) \/ UpClose(c) \/ DownWrite(c)
            \/ DownEnds(c) \/ ClientEnds(c)

Loop == Round \/ TakeData \/ RunReturns \/ \E c \in Conns : OpenTcp(c)

NetNext == Loop \/ \E c \in Conns : Network(c) \/ Relay(c)

NetSpec == NetInit /\ [][NetNext]_netVars

(* Fairness: the tasks run, and inbound packets do not come so fast that    *)
(* the biased select never gets past them; clients read.  Nothing is        *)
(* assumed of the network or of a server: no time-out is set on a socket,   *)
(* so one whose SYN or FIN stays unanswered stays in the table.             *)
RelayUploads(c) == UpRead(c) \/ UpSend(c) \/ UpClose(c)
RelayOther(c) == Opened(c) \/ NotOpened(c) \/ DownWrite(c) \/ DownEnds(c)

NetFairness ==
  /\ WF_netVars(Round)
  /\ SF_netVars(TakeData \/ \E c \in Conns : OpenTcp(c))
  /\ \A c \in Conns :
       SF_netVars(RelayUploads(c)) /\ WF_netVars(RelayOther(c))

NetFairSpec == NetSpec /\ NetFairness

-----------------------------------------------------------------------------
(* Properties. *)

ConnType ==
  [sock : SockStates, entry : BOOLEAN, established : BOOLEAN, half : BOOLEAN,
   pending : 0 .. MaxPending, tx : 0 .. TcpBuf, rx : 0 .. TcpBuf,
   at : 0 .. TcpBuf - 1, toApp : Seq(1 .. TcpBuf),
   answer : {"none", "waiting", "ok", "refused", "dropped"}, cut : BOOLEAN]

Message == [kind : {"data", "close"}, id : Conns, size : 0 .. MaxRead]

\* Every buffer stays within its size: data_in and to_app within the channel's
\* capacity, pending within max_tcp_pending, and one message is deferred.
NetTypeOK ==
  /\ stack \in {"select", "drain", "opened", "ended"}
  /\ conn \in [Conns -> ConnType]
  /\ \A c \in Conns : Len(conn[c].toApp) <= QueueSize
  /\ dataIn \in Seq(Message) /\ Len(dataIn) <= QueueSize
  /\ deferred \in Seq(Message) /\ Len(deferred) <= 1
  /\ handler \in [Conns -> {"opening", "relay", "failed", "done"}]
  /\ up \in [Conns -> {"none", "read", "send", "close", "done"}]
  /\ held \in [Conns -> 0 .. MaxRead] /\ unread \in [Conns -> Nat]
  /\ client \in [Conns -> {"open", "eof", "gone"}] /\ got \in [Conns -> Nat]
  /\ server \in [Conns -> [sent : Nat, recv : Nat, fin : BOOLEAN,
                           sawFin : BOOLEAN]]

\* A server that sees our FIN, and has not itself closed first, has every byte
\* of a client that half-closed: the FIN passes nothing on its way through
\* data_in, the deferred message, pending and the socket (netstack.rs:748).
UploadComplete ==
  \A c \in Conns :
    /\ server[c].sawFin /\ ~server[c].fin
    /\ handler[c] = "relay" /\ client[c] = "eof"
    => server[c].recv = UpBytes[c]

\* A client that sees the end of a download has every byte the server sent,
\* unless service_tcp removed the socket with bytes left in it.
DownloadComplete ==
  \A c \in Conns :
    handler[c] = "done" /\ client[c] # "gone" /\ ~conn[c].cut
    => got[c] = server[c].sent

\* service_tcp cuts a download off only for a client so slow that its channel is
\* full (perhaps of this round's own chunks), one that has gone, or at the end of
\* the tunnel (netstack.rs:803).
CutOnlyWhenFull ==
  [][\A c \in Conns :
       conn'[c].cut /\ ~conn[c].cut
       => \/ stack' = "ended" \/ ~Listens(c)
          \/ Len(conn'[c].toApp) = QueueSize]_netVars

\* The upload of a client that half-closed arrives, through data_in, the deferred
\* slot, pending and the socket, although together they hold less of it, if the
\* server goes on taking what is sent.
UploadArrives ==
  \A c \in Conns :
    SF_netVars(Delivered(c)) =>
      (client[c] = "eof" ~> \/ server[c].recv = UpBytes[c]
                            \/ server[c].fin \/ ~conn[c].entry
                            \/ client[c] = "gone")

\* Only the far end can move the socket on.
AwaitsPeer(c) ==
  conn[c].sock \in {"SynSent", "FinWait1", "FinWait2", "Closing", "LastAck"}

\* "the netstack never closed the socket after the app went away, so it leaks":
\* it always does, even when Drop could not say TcpClose because data_in was
\* full (netstack.rs:185, 789), and forgets it once the far end has answered.
AppGoneFreesSocket ==
  \A c \in Conns :
    handler[c] \in {"done", "failed"} /\ ~AwaitsPeer(c)
      ~> ~conn[c].entry \/ AwaitsPeer(c)

\* Neither direction of a relay is cut short: an end that was seen is the end of
\* what was sent, although every queue on the way is smaller.
StreamsComplete == NetTypeOK /\ UploadComplete /\ DownloadComplete

\* The stack does its part of every relay: what was uploaded arrives, and the
\* socket of one that is over is closed and freed.
RelaysResolve == UploadArrives /\ AppGoneFreesSocket
=============================================================================
