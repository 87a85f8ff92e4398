---------------------------- MODULE StreamProofs ----------------------------
(***************************************************************************)
(* The data plane of the core, for any number of connections and any sizes *)
(* of its queues and buffers: neither direction of a relay over the stack  *)
(* (NetStack) is cut short, and the capsules of a stream (Capsules) are    *)
(* read alike however the stream is cut into chunks.                       *)
(***************************************************************************)
EXTENDS NetStack, Capsules, SequenceTheorems, FiniteSetTheorems, WellFoundedInduction, TLAPS

-----------------------------------------------------------------------------
(* Bytes in a queue.  A sum over a queue would be a recursive definition;  *)
(* instead `at` tells, for every place of the queue, how many bytes of the *)
(* stream have gone past it.                                               *)

\* q carries the bytes of a stream from number f up to number t.
Carries(q, f, t) ==
  \E at \in [0 .. Len(q) -> 0 .. t] :
    /\ at[0] = f /\ at[Len(q)] = t
    /\ \A i \in 1 .. Len(q) : at[i] = at[i - 1] + q[i]

IsClose(c, m) == m.id = c /\ m.kind = "close"
IsData(c, m) == m.id = c /\ m.kind = "data"

\* The bytes of connection c in message m.
SizeFor(c, m) == IF m.id = c THEN m.size ELSE 0

\* The same for the bytes of connection c in a queue of messages; a close of c
\* comes after the last of them.
Tally(c, q, f, t) ==
  \E at \in [0 .. Len(q) -> 0 .. t] :
    /\ at[0] = f /\ at[Len(q)] = t
    /\ \A i \in 1 .. Len(q) : at[i] = at[i - 1] + SizeFor(c, q[i])
    /\ \A i \in 1 .. Len(q) : IsClose(c, q[i]) => at[i] = t

LEMMA CarriesNone == ASSUME NEW n \in Nat PROVE Carries(<<>>, n, n)
<1> DEFINE at == [i \in 0 .. 0 |-> n]
<1>1. at \in [0 .. Len(<<>>) -> 0 .. n] /\ at[0] = n /\ at[Len(<<>>)] = n  OBVIOUS
<1>2. 1 .. Len(<<>>) = {}  OBVIOUS
<1> QED  BY <1>1, <1>2 DEF Carries

LEMMA CarriesEmpty ==
  ASSUME NEW f \in Nat, NEW t \in Nat, NEW q, q = <<>>, Carries(q, f, t)  PROVE f = t
BY DEF Carries

LEMMA CarriesAppend ==
  ASSUME NEW q \in Seq(Nat), NEW f \in Nat, NEW t \in Nat, NEW n \in Nat, Carries(q, f, t)
  PROVE  Carries(Append(q, n), f, t + n)
<1>1. PICK at \in [0 .. Len(q) -> 0 .. t] :
        /\ at[0] = f /\ at[Len(q)] = t
        /\ \A i \in 1 .. Len(q) : at[i] = at[i - 1] + q[i]
  BY DEF Carries
<1> DEFINE L == Len(q)
           p == Append(q, n)
           new == [i \in 0 .. L + 1 |-> IF i <= L THEN at[i] ELSE t + n]
<1>2. L \in Nat /\ Len(p) = L + 1 /\ p[L + 1] = n /\ \A i \in 1 .. L : p[i] = q[i]
  OBVIOUS
<1>3. new \in [0 .. Len(p) -> 0 .. t + n]
  <2>1. \A i \in 0 .. L : at[i] \in 0 .. t  BY <1>2
  <2> HIDE DEF L, p
  <2>2. \A i \in 0 .. L + 1 : (IF i <= L THEN at[i] ELSE t + n) \in 0 .. t + n
    BY <2>1, <1>2
  <2> QED  BY <2>2, <1>2
<1> HIDE DEF p
<1>4. new[0] = f /\ new[Len(p)] = t + n  BY <1>1, <1>2
<1>5. ASSUME NEW i \in 1 .. Len(p)  PROVE new[i] = new[i - 1] + p[i]
  <2>1. CASE i <= L  BY <2>1, <1>1, <1>2
  <2>2. CASE i = L + 1  BY <2>2, <1>1, <1>2
  <2> QED  BY <2>1, <2>2, <1>2
<1>6. Carries(p, f, t + n)
  <2> HIDE DEF new
  <2> QED  BY <1>3, <1>4, <1>5 DEF Carries
<1> QED  BY <1>6 DEF p

LEMMA CarriesTail ==
  ASSUME NEW q \in Seq(Nat), q # <<>>, NEW f \in Nat, NEW t \in Nat, Carries(q, f, t)
  PROVE  Carries(Tail(q), f + Head(q), t)
<1>1. PICK at \in [0 .. Len(q) -> 0 .. t] :
        /\ at[0] = f /\ at[Len(q)] = t
        /\ \A i \in 1 .. Len(q) : at[i] = at[i - 1] + q[i]
  BY DEF Carries
<1> DEFINE L == Len(q)
           p == Tail(q)
           new == [i \in 0 .. L - 1 |-> at[i + 1]]
<1>2. L \in Nat \ {0} /\ Len(p) = L - 1 /\ Head(q) = q[1]
      /\ \A i \in 1 .. L - 1 : p[i] = q[i + 1]
  OBVIOUS
<1>3. new \in [0 .. Len(p) -> 0 .. t]  BY <1>2
<1> HIDE DEF p
<1>4. new[0] = f + Head(q)  BY <1>1, <1>2
<1>5. new[Len(p)] = t  BY <1>1, <1>2
<1>6. ASSUME NEW i \in 1 .. Len(p)  PROVE new[i] = new[i - 1] + p[i]
  <2>1. i + 1 \in 1 .. L /\ i \in 0 .. L - 1 /\ i - 1 \in 0 .. L - 1  BY <1>2
  <2>2. at[i + 1] = at[(i + 1) - 1] + q[i + 1]  BY <1>1, <2>1
  <2> QED  BY <2>1, <2>2, <1>2
<1>7. Carries(p, f + Head(q), t)
  <2> HIDE DEF new
  <2> QED  BY <1>3, <1>4, <1>5, <1>6 DEF Carries
<1> QED  BY <1>7 DEF p

\* p is q with some of the x bytes that wait behind it; y of them are left.
Fed(q, x, p, y) ==
  /\ y \in 0 .. x
  /\ \A f, t \in Nat : Carries(q, f, t) => Carries(p, f, t + (x - y))

LEMMA FedNone == ASSUME NEW q, NEW x \in Nat PROVE Fed(q, x, q, x)
<1>1. x - x = 0 /\ \A t \in Nat : t + 0 = t  OBVIOUS
<1> QED  BY <1>1 DEF Fed

LEMMA FedSlice ==
  ASSUME NEW q \in Seq(Nat), NEW x \in Nat, NEW n \in 0 .. x
  PROVE  Fed(q, x, Append(q, n), x - n)
<1>1. n \in Nat /\ x - n \in 0 .. x /\ x - (x - n) = n  OBVIOUS
<1>2. ASSUME NEW f \in Nat, NEW t \in Nat, Carries(q, f, t)
      PROVE  Carries(Append(q, n), f, t + n)
  BY <1>1, <1>2, CarriesAppend
<1> QED  BY <1>1, <1>2 DEF Fed

LEMMA FedTwice ==
  ASSUME NEW q, NEW p, NEW o, NEW x \in Nat, NEW y, NEW z, Fed(q, x, p, y), Fed(p, y, o, z)
  PROVE  Fed(q, x, o, z)
<1>1. y \in 0 .. x /\ z \in 0 .. y  BY DEF Fed
<1>2. z \in 0 .. x  BY <1>1
<1>3. ASSUME NEW f \in Nat, NEW t \in Nat, Carries(q, f, t)
      PROVE  Carries(o, f, t + (x - z))
  <2>1. Carries(p, f, t + (x - y))  BY <1>3 DEF Fed
  <2>2. t + (x - y) \in Nat  BY <1>1
  <2>3. Carries(o, f, (t + (x - y)) + (y - z))  BY <2>1, <2>2 DEF Fed
  <2>4. (t + (x - y)) + (y - z) = t + (x - z)  BY <1>1
  <2> QED  BY <2>3, <2>4
<1> QED  BY <1>2, <1>3 DEF Fed

LEMMA TallyNone == ASSUME NEW c, NEW n \in Nat PROVE Tally(c, <<>>, n, n)
<1> DEFINE at == [i \in 0 .. 0 |-> n]
<1>1. at \in [0 .. Len(<<>>) -> 0 .. n] /\ at[0] = n /\ at[Len(<<>>)] = n  OBVIOUS
<1>2. 1 .. Len(<<>>) = {}  OBVIOUS
<1> QED  BY <1>1, <1>2 DEF Tally

\* Messages without bytes of c leave its tally as it is.
LEMMA TallyExtended ==
  ASSUME NEW c \in Conns, NEW q \in Seq(Message), NEW p \in Seq(Message),
         NEW f \in Nat, NEW t \in Nat, Tally(c, q, f, t), Len(q) <= Len(p),
         \A i \in 1 .. Len(q) : p[i] = q[i],
         \A i \in 1 .. Len(p) : i > Len(q) => SizeFor(c, p[i]) = 0
  PROVE  Tally(c, p, f, t)
<1>1. PICK at \in [0 .. Len(q) -> 0 .. t] :
        /\ at[0] = f /\ at[Len(q)] = t
        /\ \A i \in 1 .. Len(q) : at[i] = at[i - 1] + SizeFor(c, q[i])
        /\ \A i \in 1 .. Len(q) : IsClose(c, q[i]) => at[i] = t
  BY DEF Tally
<1> DEFINE L == Len(q)
           M == Len(p)
           new == [i \in 0 .. M |-> IF i <= L THEN at[i] ELSE t]
<1>2. L \in Nat /\ M \in Nat /\ L <= M  OBVIOUS
<1>3. new \in [0 .. M -> 0 .. t]
  <2>1. \A i \in 0 .. L : at[i] \in 0 .. t  BY <1>2
  <2> HIDE DEF L, M
  <2> QED  BY <2>1, <1>2
<1>4. new[0] = f /\ new[M] = t
  <2>1. \A i \in 0 .. M : new[i] = IF i <= L THEN at[i] ELSE t  OBVIOUS
  <2>2. at[0] = f /\ at[L] = t  BY <1>1
  <2> HIDE DEF L, M, new
  <2>3. 0 \in 0 .. M /\ M \in 0 .. M /\ 0 <= L  BY <1>2
  <2>4. new[0] = f  BY <2>1, <2>2, <2>3
  <2>5. CASE M <= L  BY <2>5, <2>1, <2>2, <2>3, <1>2
  <2>6. CASE ~(M <= L)  BY <2>6, <2>1, <2>3, <2>4
  <2> QED  BY <2>4, <2>5, <2>6
<1>5. ASSUME NEW i \in 1 .. M
      PROVE  /\ new[i] = new[i - 1] + SizeFor(c, p[i])
             /\ IsClose(c, p[i]) => new[i] = t
  <2>1. CASE i <= L
    <3>1. i \in 1 .. L /\ p[i] = q[i]  BY <2>1, <1>2
    <3>2. new[i] = at[i] /\ new[i - 1] = at[i - 1]  BY <2>1, <1>2
    <3> QED  BY <3>1, <3>2, <1>1
  <2>2. CASE i > L
    <3>1. SizeFor(c, p[i]) = 0  BY <2>2
    <3>2. new[i] = t /\ new[i - 1] = t  BY <2>2, <1>1, <1>2
    <3> QED  BY <3>1, <3>2
  <2> QED  BY <2>1, <2>2, <1>2
<1> HIDE DEF new
<1> QED  BY <1>3, <1>4, <1>5 DEF Tally

\* More bytes of c, as long as none of its closes is on the way.
LEMMA TallyData ==
  ASSUME NEW c \in Conns, NEW q \in Seq(Message), NEW n \in 0 .. MaxRead,
         NEW f \in Nat, NEW t \in Nat, Tally(c, q, f, t),
         \A i \in 1 .. Len(q) : ~IsClose(c, q[i])
  PROVE  Tally(c, Append(q, DataMsg(c, n)), f, t + n)
<1>1. PICK at \in [0 .. Len(q) -> 0 .. t] :
        /\ at[0] = f /\ at[Len(q)] = t
        /\ \A i \in 1 .. Len(q) : at[i] = at[i - 1] + SizeFor(c, q[i])
  BY DEF Tally
<1> DEFINE L == Len(q)
           p == Append(q, DataMsg(c, n))
           new == [i \in 0 .. L + 1 |-> IF i <= L THEN at[i] ELSE t + n]
<1>2. L \in Nat /\ Len(p) = L + 1 /\ p[L + 1] = DataMsg(c, n)
      /\ \A i \in 1 .. L : p[i] = q[i]
  BY DEF DataMsg
<1>3. SizeFor(c, DataMsg(c, n)) = n /\ ~IsClose(c, DataMsg(c, n)) /\ n \in Nat
  BY NetStackConstants DEF DataMsg, SizeFor, IsClose
<1>4. new \in [0 .. L + 1 -> 0 .. t + n]
  <2>1. \A i \in 0 .. L : at[i] \in 0 .. t  BY <1>2
  <2> HIDE DEF L, p
  <2>2. \A i \in 0 .. L + 1 : (IF i <= L THEN at[i] ELSE t + n) \in 0 .. t + n
    BY <2>1, <1>2, <1>3
  <2> QED  BY <2>2
<1> HIDE DEF p
<1>5. new[0] = f /\ new[L + 1] = t + n  BY <1>1, <1>2
<1>6. ASSUME NEW i \in 1 .. L + 1
      PROVE  new[i] = new[i - 1] + SizeFor(c, p[i]) /\ ~IsClose(c, p[i])
  <2>1. CASE i <= L
    <3>1. i \in 1 .. L /\ p[i] = q[i]  BY <2>1, <1>2
    <3>2. new[i] = at[i] /\ new[i - 1] = at[i - 1]  BY <2>1, <1>2
    <3> QED  BY <3>1, <3>2, <1>1
  <2>2. CASE i = L + 1
    <3>1. new[i] = t + n /\ new[i - 1] = t  BY <2>2, <1>1, <1>2
    <3> QED  BY <2>2, <3>1, <1>2, <1>3
  <2> QED  BY <2>1, <2>2, <1>2
<1>7. Tally(c, p, f, t + n)
  <2> HIDE DEF new
  <2> QED  BY <1>2, <1>4, <1>5, <1>6 DEF Tally
<1> QED  BY <1>7 DEF p

\* The head is taken; if it is a close of c, all the bytes were taken before.
LEMMA TallyTail ==
  ASSUME NEW c \in Conns, NEW q \in Seq(Message), q # <<>>, NEW f \in Nat, NEW t \in Nat,
         Tally(c, q, f, t)
  PROVE  /\ Tally(c, Tail(q), f + SizeFor(c, Head(q)), t)
         /\ IsClose(c, Head(q)) => f + SizeFor(c, Head(q)) = t
<1>1. PICK at \in [0 .. Len(q) -> 0 .. t] :
        /\ at[0] = f /\ at[Len(q)] = t
        /\ \A i \in 1 .. Len(q) : at[i] = at[i - 1] + SizeFor(c, q[i])
        /\ \A i \in 1 .. Len(q) : IsClose(c, q[i]) => at[i] = t
  BY DEF Tally
<1> DEFINE L == Len(q)
           p == Tail(q)
           new == [i \in 0 .. L - 1 |-> at[i + 1]]
<1>2. L \in Nat \ {0} /\ Len(p) = L - 1 /\ Head(q) = q[1]
      /\ \A i \in 1 .. L - 1 : p[i] = q[i + 1]
  OBVIOUS
<1>3. new \in [0 .. Len(p) -> 0 .. t]  BY <1>2
<1>4. at[1] = f + SizeFor(c, Head(q))
  <2>1. 1 \in 1 .. Len(q)  BY <1>2
  <2>2. at[1] = at[1 - 1] + SizeFor(c, q[1])  BY <1>1, <2>1
  <2> QED  BY <2>2, <1>1, <1>2
<1> HIDE DEF p
<1>5. new[0] = f + SizeFor(c, Head(q)) /\ new[Len(p)] = t  BY <1>1, <1>2, <1>4
<1>6. ASSUME NEW i \in 1 .. Len(p)
      PROVE  /\ new[i] = new[i - 1] + SizeFor(c, p[i])
             /\ IsClose(c, p[i]) => new[i] = t
  <2>1. i + 1 \in 1 .. L /\ i \in 0 .. L - 1 /\ i - 1 \in 0 .. L - 1  BY <1>2
  <2>2. at[i + 1] = at[(i + 1) - 1] + SizeFor(c, q[i + 1])  BY <1>1, <2>1
  <2>3. IsClose(c, q[i + 1]) => at[i + 1] = t  BY <1>1, <2>1
  <2>4. p[i] = q[i + 1] /\ new[i] = at[i + 1] /\ new[i - 1] = at[i]  BY <1>2, <2>1
  <2> QED  BY <2>2, <2>3, <2>4
<1>7. Tally(c, p, f + SizeFor(c, Head(q)), t)
  <2> HIDE DEF new
  <2> QED  BY <1>3, <1>5, <1>6 DEF Tally
<1>8. IsClose(c, Head(q)) => f + SizeFor(c, Head(q)) = t
  <2>1. 1 \in 1 .. Len(q)  BY <1>2
  <2> QED  BY <1>1, <1>2, <1>4, <2>1
<1> QED  BY <1>7, <1>8 DEF p
-----------------------------------------------------------------------------
(* The invariant of the relays. *)

\* Only data is put off, and a close carries nothing.
Messages ==
  /\ deferred # <<>> => deferred[1].kind = "data"
  /\ \A i \in 1 .. Len(dataIn) : dataIn[i].kind = "close" => dataIn[i].size = 0

DeferredSize(c) == IF deferred = <<>> THEN 0 ELSE SizeFor(c, deferred[1])

\* A connection without an entry has no live socket and nothing left to read.
EntryOrder(c) ==
  /\ stack = "ended" => ~conn[c].entry
  /\ ~conn[c].entry => conn[c].rx = 0 /\ conn[c].sock \in {"none", "Closed", "TimeWait"}
  /\ ~conn[c].established => conn[c].rx = 0
  /\ conn[c].cut => ~conn[c].entry
  /\ conn[c].answer = "none" => ~conn[c].entry /\ ~conn[c].cut

\* Until its relay is there, nothing of the upload has moved, and only the server
\* can have ended the connection.
Fresh(c) ==
  handler[c] = "opening" =>
    /\ up[c] = "none" /\ held[c] = 0 /\ unread[c] = UpBytes[c] /\ client[c] = "open"
    /\ ~conn[c].half /\ conn[c].pending = 0 /\ conn[c].tx = 0 /\ server[c].recv = 0
    /\ deferred # <<>> => deferred[1].id # c
    /\ \A i \in 1 .. Len(dataIn) : dataIn[i].id # c
    /\ ~server[c].fin => /\ ~server[c].sawFin
                         /\ conn[c].sock \in {"none", "SynSent", "Established", "Closed"}

Relaying(c) == handler[c] = "relay" /\ client[c] # "gone"

\* The upload task says close only once everything has been read and sent.
UploadTask(c) ==
  Relaying(c) =>
    /\ up[c] # "none" /\ (up[c] # "send" => held[c] = 0)
    /\ unread[c] + held[c] <= UpBytes[c]
    /\ up[c] = "close" => client[c] = "eof" /\ unread[c] = 0
    /\ up[c] = "done" /\ conn[c].entry => client[c] = "eof" /\ unread[c] = 0

\* No byte of the upload is lost or passed by the close on its way.
UploadKept(c) ==
  Relaying(c) /\ conn[c].entry =>
    /\ Tally(c, dataIn,
             server[c].recv + conn[c].tx + conn[c].pending + DeferredSize(c),
             UpBytes[c] - unread[c] - held[c])
    /\ \A i \in 1 .. Len(dataIn) : IsClose(c, dataIn[i]) =>
         /\ up[c] = "done"
         /\ \A j \in 1 .. Len(dataIn) : j > i => ~IsData(c, dataIn[j])
    /\ conn[c].half =>
         /\ up[c] = "done"
         /\ server[c].recv + conn[c].tx + conn[c].pending = UpBytes[c]
         /\ deferred # <<>> => deferred[1].id # c
         /\ \A i \in 1 .. Len(dataIn) : ~IsData(c, dataIn[i])

\* A FIN that is not an answer to the server's leaves after the last byte.
FinLast(c) ==
  Relaying(c) /\ ~server[c].fin =>
    /\ conn[c].sock \in {"none", "SynSent", "Established", "FinWait1", "FinWait2", "Closed"}
    /\ conn[c].sock = "FinWait1" => conn[c].half /\ conn[c].pending = 0
    /\ server[c].sawFin => /\ client[c] = "eof" /\ server[c].recv = UpBytes[c]
                           /\ conn[c].sock \in {"FinWait2", "Closed"}

\* No byte of the download is lost before it is cut off.
DownloadKept(c) ==
  /\ ~conn[c].cut => /\ conn[c].rx <= server[c].sent
                     /\ Carries(conn[c].toApp, got[c], server[c].sent - conn[c].rx)
  /\ handler[c] = "done" /\ client[c] # "gone" => conn[c].toApp = <<>> /\ ~conn[c].entry

RelayInv(c) == /\ EntryOrder(c) /\ Fresh(c) /\ UploadTask(c) /\ UploadKept(c)
               /\ FinLast(c) /\ DownloadKept(c)

NetInv == NetTypeOK /\ Messages /\ \A c \in Conns : RelayInv(c)

-----------------------------------------------------------------------------
(* What service_tcp makes of a connection, block by block. *)

LEMMA AnnounceFacts ==
  ASSUME NEW r \in ConnType
  PROVE  /\ Announce(r) \in ConnType
         /\ Announce(r).sock = r.sock /\ Announce(r).entry = r.entry
         /\ Announce(r).half = r.half /\ Announce(r).pending = r.pending
         /\ Announce(r).tx = r.tx /\ Announce(r).rx = r.rx
         /\ Announce(r).toApp = r.toApp /\ Announce(r).cut = r.cut
         /\ r.established => Announce(r).established
         /\ r.answer # "none" => Announce(r).answer # "none"
BY DEF Announce, ConnType

LEMMA RefuseFacts ==
  ASSUME NEW r \in ConnType
  PROVE  /\ Refuse(r) \in ConnType /\ ~Refuse(r).entry
         /\ Refuse(r).sock = r.sock /\ Refuse(r).half = r.half
         /\ Refuse(r).pending = r.pending
         /\ Refuse(r).tx = r.tx /\ Refuse(r).rx = r.rx
         /\ Refuse(r).toApp = r.toApp /\ Refuse(r).cut = r.cut
         /\ Refuse(r).established = r.established
         /\ r.answer # "none" => Refuse(r).answer # "none"
BY DEF Refuse, ConnType

LEMMA LeastFacts ==
  ASSUME NEW a \in Nat, NEW b \in Nat
  PROVE  Least(a, b) \in Nat /\ Least(a, b) <= a /\ Least(a, b) <= b
BY DEF Least

LEMMA PushFacts ==
  ASSUME NEW r \in ConnType
  PROVE  /\ Push(r) \in ConnType
         /\ Push(r).sock = r.sock /\ Push(r).entry = r.entry
         /\ Push(r).half = r.half /\ Push(r).rx = r.rx
         /\ Push(r).toApp = r.toApp /\ Push(r).cut = r.cut
         /\ Push(r).established = r.established /\ Push(r).answer = r.answer
         /\ Push(r).tx + Push(r).pending = r.tx + r.pending
         /\ Push(r).pending <= r.pending
<1> DEFINE n == Least(TcpBuf - r.tx, r.pending)
<1>1. r.tx \in 0 .. TcpBuf /\ r.pending \in 0 .. MaxPending  BY DEF ConnType
<1>2. n \in Nat /\ n <= TcpBuf - r.tx /\ n <= r.pending
  <2>1. TcpBuf - r.tx \in Nat /\ r.pending \in Nat  BY <1>1, NetStackConstants
  <2> QED  BY <2>1, LeastFacts
<1> HIDE DEF n
<1>3. r.tx + n \in 0 .. TcpBuf /\ r.pending - n \in 0 .. MaxPending
  BY <1>1, <1>2, NetStackConstants
<1>4. Push(r) = IF CanSend(r) THEN [r EXCEPT !.tx = r.tx + n, !.pending = r.pending - n]
                ELSE r
  BY DEF Push, n
<1>5. CASE CanSend(r)
  <2>1. Push(r) = [r EXCEPT !.tx = r.tx + n, !.pending = r.pending - n]  BY <1>4, <1>5
  <2>2. Push(r).tx = r.tx + n /\ Push(r).pending = r.pending - n  BY <2>1 DEF ConnType
  <2>3. Push(r) \in ConnType  BY <2>1, <1>3 DEF ConnType
  <2>4. Push(r).tx + Push(r).pending = r.tx + r.pending /\ Push(r).pending <= r.pending
    BY <2>2, <1>1, <1>2, NetStackConstants
  <2> QED  BY <2>1, <2>3, <2>4 DEF ConnType
<1>6. CASE ~CanSend(r)  BY <1>4, <1>6, <1>1, NetStackConstants
<1> QED  BY <1>5, <1>6

LEMMA ClosingFacts ==
  ASSUME NEW r \in ConnType
  PROVE  /\ Closing(r) \in ConnType
         /\ Closing(r).entry = r.entry
         /\ Closing(r).half = r.half /\ Closing(r).rx = r.rx
         /\ Closing(r).pending = r.pending /\ Closing(r).tx = r.tx
         /\ Closing(r).toApp = r.toApp /\ Closing(r).cut = r.cut
         /\ Closing(r).established = r.established /\ Closing(r).answer = r.answer
         /\ \/ Closing(r).sock = r.sock
            \/ r.sock = "SynSent" /\ Closing(r).sock = "Closed"
            \/ r.sock = "Established" /\ Closing(r).sock = "FinWait1"
            \/ r.sock = "CloseWait" /\ Closing(r).sock = "LastAck"
BY DEF Closing, ConnType, SockStates

LEMMA TakeSliceFacts ==
  ASSUME NEW r \in ConnType, NEW l \in BOOLEAN, Len(r.toApp) <= QueueSize
  PROVE  LET s == TakeSlice(r, l) IN
         /\ s \in ConnType /\ Len(s.toApp) <= QueueSize
         /\ s.sock = r.sock /\ s.entry = r.entry /\ s.half = r.half /\ s.cut = r.cut
         /\ s.pending = r.pending /\ s.tx = r.tx /\ s.established = r.established
         /\ s.answer = r.answer
         /\ Fed(r.toApp, r.rx, s.toApp, s.rx)
         /\ l /\ s.rx > 0 => Len(s.toApp) = QueueSize \/ (s.at = 0 /\ r.at # 0)
<1> DEFINE w == Len(r.toApp)
           n == Contiguous(r)
           s == TakeSlice(r, l)
<1>1. /\ r.rx \in 0 .. TcpBuf /\ r.at \in 0 .. TcpBuf - 1 /\ r.toApp \in Seq(1 .. TcpBuf)
      /\ w \in Nat
  BY DEF ConnType
<1>s. r.toApp \in Seq(Nat) /\ r.rx \in Nat /\ TcpBuf \in Nat
  BY <1>1, NetStackConstants
<1>2. CASE l /\ w < QueueSize /\ r.rx > 0
  <2>1. n \in 1 .. TcpBuf /\ n \in 0 .. r.rx /\ n <= TcpBuf - r.at /\ (n = r.rx \/ n = TcpBuf - r.at)
    BY <1>1, <1>2, NetStackConstants DEF Contiguous, Least
  <2> DEFINE x == r.rx - n
             a == IF r.at + n = TcpBuf THEN 0 ELSE r.at + n
             q == Append(r.toApp, n)
  <2>2. s = [r EXCEPT !.rx = x, !.at = a, !.toApp = q]
    BY <1>2 DEF TakeSlice, Received, ConnType
  <2> HIDE DEF n
  <2>n. r.at \in Nat /\ r.at < TcpBuf /\ n \in Nat /\ n >= 1 /\ r.rx <= TcpBuf
    BY <1>1, <2>1, <1>s
  <2>3. x \in 0 .. TcpBuf /\ a \in 0 .. TcpBuf - 1
    <3>1. x \in 0 .. TcpBuf  BY <2>1, <2>n, <1>s
    <3>2. r.at + n \in 0 .. TcpBuf  BY <2>1, <2>n, <1>s
    <3>3. a \in 0 .. TcpBuf - 1
      <4>1. CASE r.at + n = TcpBuf  BY <4>1, <2>n, <1>s
      <4>2. CASE r.at + n # TcpBuf  BY <4>2, <3>2, <1>s
      <4> QED  BY <4>1, <4>2
    <3> QED  BY <3>1, <3>3
  <2>4. x > 0 => a = 0 /\ r.at # 0
    <3> SUFFICES ASSUME x > 0  PROVE a = 0 /\ r.at # 0  OBVIOUS
    <3>1. n # r.rx  BY <2>n, <1>s
    <3>2. n = TcpBuf - r.at  BY <3>1, <2>1
    <3>3. r.at + n = TcpBuf  BY <3>2, <2>n, <1>s
    <3>4. r.at # 0  BY <3>1, <3>2, <2>1, <2>n, <1>s
    <3> QED  BY <3>3, <3>4
  <2>5. q \in Seq(1 .. TcpBuf) /\ Len(q) = w + 1  BY <1>1, <2>1
  <2>6. w + 1 <= QueueSize  BY <1>1, <1>2, NetStackConstants
  <2>7. Fed(r.toApp, r.rx, q, x)  BY <1>s, <2>1, FedSlice
  <2> HIDE DEF w, x, a, q, s
  <2>8. s \in ConnType  BY <2>2, <2>3, <2>5 DEF ConnType
  <2>9. /\ s.rx = x /\ s.at = a /\ s.toApp = q
        /\ s.sock = r.sock /\ s.entry = r.entry /\ s.half = r.half /\ s.cut = r.cut
        /\ s.pending = r.pending /\ s.tx = r.tx /\ s.established = r.established
        /\ s.answer = r.answer
    BY <2>2 DEF ConnType
  <2> QED  BY <2>4, <2>5, <2>6, <2>7, <2>8, <2>9 DEF s
<1>3. CASE ~(l /\ w < QueueSize /\ r.rx > 0)
  <2>1. s = r  BY <1>3 DEF TakeSlice
  <2>2. l /\ r.rx > 0 => w = QueueSize  BY <1>3, <1>1, NetStackConstants
  <2>3. Fed(r.toApp, r.rx, r.toApp, r.rx)  BY <1>s, FedNone
  <2> HIDE DEF s
  <2> QED  BY <2>1, <2>2, <2>3 DEF s
<1> QED  BY <1>2, <1>3

LEMMA DeliverFacts ==
  ASSUME NEW r \in ConnType, NEW l \in BOOLEAN, Len(r.toApp) <= QueueSize
  PROVE  /\ Deliver(r, l) \in ConnType /\ Len(Deliver(r, l).toApp) <= QueueSize
         /\ Deliver(r, l).sock = r.sock /\ Deliver(r, l).entry = r.entry
         /\ Deliver(r, l).half = r.half /\ Deliver(r, l).cut = r.cut
         /\ Deliver(r, l).pending = r.pending /\ Deliver(r, l).tx = r.tx
         /\ Deliver(r, l).established = r.established
         /\ Deliver(r, l).answer = r.answer
         /\ Fed(r.toApp, r.rx, Deliver(r, l).toApp, Deliver(r, l).rx)
         /\ l /\ Deliver(r, l).rx > 0 => Len(Deliver(r, l).toApp) = QueueSize
<1> DEFINE s == TakeSlice(r, l)
           d == TakeSlice(s, l)
<1>1. /\ s \in ConnType /\ Len(s.toApp) <= QueueSize
      /\ s.sock = r.sock /\ s.entry = r.entry /\ s.half = r.half /\ s.cut = r.cut
      /\ s.pending = r.pending /\ s.tx = r.tx /\ s.established = r.established
      /\ s.answer = r.answer
      /\ Fed(r.toApp, r.rx, s.toApp, s.rx)
      /\ l /\ s.rx > 0 => Len(s.toApp) = QueueSize \/ (s.at = 0 /\ r.at # 0)
  BY TakeSliceFacts
<1> HIDE DEF s
<1>2. /\ d \in ConnType /\ Len(d.toApp) <= QueueSize
      /\ d.sock = s.sock /\ d.entry = s.entry /\ d.half = s.half /\ d.cut = s.cut
      /\ d.pending = s.pending /\ d.tx = s.tx /\ d.established = s.established
      /\ d.answer = s.answer
      /\ Fed(s.toApp, s.rx, d.toApp, d.rx)
      /\ l /\ d.rx > 0 => Len(d.toApp) = QueueSize \/ (d.at = 0 /\ s.at # 0)
  BY <1>1, TakeSliceFacts
<1>3. l /\ d.rx > 0 => Len(d.toApp) = QueueSize
  <2> SUFFICES ASSUME l, d.rx > 0  PROVE Len(d.toApp) = QueueSize  OBVIOUS
  <2>1. s.rx > 0
    <3> HIDE DEF d
    <3>1. s.rx \in Nat /\ d.rx \in Nat  BY <1>1, <1>2, NetStackConstants DEF ConnType
    <3>2. d.rx \in 0 .. s.rx  BY <1>2 DEF Fed
    <3> QED  BY <3>1, <3>2
  <2>2. CASE Len(s.toApp) = QueueSize
    <3>1. d = s  BY <2>2, NetStackConstants DEF TakeSlice
    <3> QED  BY <2>2, <3>1
  <2>3. CASE s.at = 0  BY <1>2, <2>3
  <2> QED  BY <1>1, <2>1, <2>2, <2>3
<1> HIDE DEF d
<1>4. Deliver(r, l) = d  BY DEF Deliver, d, s
<1>5. r.rx \in Nat  BY NetStackConstants DEF ConnType
<1>6. Fed(r.toApp, r.rx, d.toApp, d.rx)  BY <1>1, <1>2, <1>5, FedTwice
<1> QED  BY <1>1, <1>2, <1>3, <1>4, <1>6

LEMMA ReapFacts ==
  ASSUME NEW r \in ConnType, ~r.cut
  PROVE  /\ Reap(r) \in ConnType /\ Reap(r).toApp = r.toApp
         /\ Reap(r).half = r.half /\ Reap(r).answer = r.answer
         /\ Reap(r).established = r.established
         /\ \/ /\ Reap(r).entry = r.entry /\ Reap(r).rx = r.rx /\ ~Reap(r).cut
               /\ Reap(r).pending = r.pending /\ Reap(r).tx = r.tx
               /\ \/ Reap(r).sock = r.sock
                  \/ r.sock = "CloseWait" /\ Reap(r).sock = "LastAck"
            \/ /\ ~Reap(r).entry /\ r.sock \in {"Closed", "TimeWait"}
               /\ r.established
               /\ Reap(r).sock = r.sock /\ Reap(r).rx = 0 /\ (Reap(r).cut <=> r.rx > 0)
               /\ Reap(r).pending = 0 /\ Reap(r).tx = 0
<1>1. CASE r.sock = "CloseWait"
  <2>1. Reap(r) = Closing(r)  BY <1>1 DEF Reap
  <2> QED  BY <1>1, <2>1, ClosingFacts
<1>2. CASE r.sock \in {"Closed", "TimeWait"} /\ r.established
  <2>1. Reap(r) = [r EXCEPT !.entry = FALSE, !.pending = 0, !.tx = 0,
                            !.cut = r.rx > 0, !.rx = 0]
    BY <1>2 DEF Reap
  <2>2. 0 \in 0 .. MaxPending /\ 0 \in 0 .. TcpBuf  BY NetStackConstants
  <2>3. Reap(r) \in ConnType
    <3> DEFINE b == r.rx > 0
    <3>1. b \in BOOLEAN  OBVIOUS
    <3>2. Reap(r) = [r EXCEPT !.entry = FALSE, !.pending = 0, !.tx = 0, !.cut = b, !.rx = 0]
      BY <2>1
    <3> HIDE DEF b
    <3> QED  BY <3>1, <3>2, <2>2 DEF ConnType
  <2> QED  BY <1>2, <2>1, <2>3 DEF ConnType
<1>3. CASE r.sock # "CloseWait" /\ ~(r.sock \in {"Closed", "TimeWait"} /\ r.established)
  <2>1. Reap(r) = r  BY <1>3 DEF Reap
  <2> QED  BY <2>1
<1> QED  BY <1>1, <1>2, <1>3

LEMMA ServicedFacts ==
  ASSUME NEW r \in ConnType, NEW listens \in BOOLEAN, Len(r.toApp) <= QueueSize,
         r.entry, ~r.cut, ~r.established => r.rx = 0, r.answer # "none"
  PROVE  LET s == Serviced(r, listens) IN
         /\ s \in ConnType /\ Len(s.toApp) <= QueueSize
         /\ s.half = r.half /\ s.answer # "none"
         /\ s.entry => s.tx + s.pending = r.tx + r.pending /\ s.pending <= r.pending
         /\ ~s.entry => s.rx = 0 /\ s.sock \in {"Closed", "TimeWait"}
         /\ ~s.established => s.rx = 0
         /\ s.cut => ~s.entry
         /\ s.cut /\ listens => Len(s.toApp) = QueueSize
         /\ s.cut \/ Fed(r.toApp, r.rx, s.toApp, s.rx)
         /\ r.pending = 0 /\ r.tx = 0 => s.pending = 0 /\ s.tx = 0
         /\ listens => \/ s.sock = r.sock
                       \/ r.sock = "SynSent" /\ s.sock = "Closed"
                       \/ r.sock = "Established" /\ s.sock = "FinWait1" /\ r.half /\ s.pending = 0
                       \/ r.sock = "CloseWait" /\ s.sock = "LastAck"
<1> DEFINE a == Announce(r)
           l == listens \/ ~a.established
           p == Push(a)
           h == HalfClose(p)
           d == Deliver(h, l)
           g == AppGone(d, l)
           z == Reap(g)
           s == Serviced(r, listens)
<1>0. l \in BOOLEAN /\ s = IF Refused(a) THEN Refuse(a) ELSE z  BY DEF Serviced
<1>1. /\ a \in ConnType /\ a.sock = r.sock /\ a.entry = r.entry
      /\ a.half = r.half /\ a.pending = r.pending /\ a.tx = r.tx /\ a.rx = r.rx
      /\ a.toApp = r.toApp /\ a.cut = r.cut
      /\ r.established => a.established
      /\ a.answer # "none"
  BY AnnounceFacts
<1>t. /\ r.tx \in Nat /\ r.pending \in Nat /\ r.rx \in Nat
      /\ a.tx \in Nat /\ a.pending \in Nat /\ a.rx \in Nat
  BY <1>1, NetStackConstants DEF ConnType
<1>2. CASE Refused(a)
  <2> DEFINE f == Refuse(a)
  <2>1. s = f /\ ~a.established /\ a.sock \in {"Closed", "TimeWait"}
    BY <1>0, <1>2 DEF Refused
  <2>2. /\ f \in ConnType /\ ~f.entry
        /\ f.sock = a.sock /\ f.half = a.half /\ f.pending = a.pending
        /\ f.tx = a.tx /\ f.rx = a.rx
        /\ f.toApp = a.toApp /\ f.cut = a.cut
        /\ f.established = a.established
        /\ f.answer # "none"
    BY <1>1, RefuseFacts
  <2> HIDE DEF a, l, z, s, f
  <2>3. Fed(r.toApp, r.rx, s.toApp, s.rx)  BY <2>1, <2>2, <1>1, <1>t, FedNone
  <2> QED  BY <2>1, <2>2, <2>3, <1>1, <1>t DEF s
<1>3. CASE ~Refused(a)
  <2>1. /\ p \in ConnType /\ p.sock = a.sock /\ p.entry = a.entry
        /\ p.half = a.half /\ p.rx = a.rx /\ p.toApp = a.toApp /\ p.cut = a.cut
        /\ p.established = a.established /\ p.answer = a.answer
        /\ p.tx + p.pending = a.tx + a.pending /\ p.pending <= a.pending
    <3> HIDE DEF a
    <3> QED  BY <1>1, PushFacts
  <2>2. /\ h \in ConnType /\ h.entry = p.entry
        /\ h.half = p.half /\ h.rx = p.rx /\ h.toApp = p.toApp /\ h.cut = p.cut
        /\ h.established = p.established /\ h.answer = p.answer
        /\ h.tx = p.tx /\ h.pending = p.pending
        /\ \/ h.sock = p.sock
           \/ /\ p.half /\ p.pending = 0
              /\ \/ p.sock = "SynSent" /\ h.sock = "Closed"
                 \/ p.sock = "Established" /\ h.sock = "FinWait1"
                 \/ p.sock = "CloseWait" /\ h.sock = "LastAck"
    <3> HIDE DEF p
    <3> QED  BY <2>1, ClosingFacts DEF HalfClose
  <2>3. Len(h.toApp) <= QueueSize  BY <1>1, <2>1, <2>2
  <2>4. /\ d \in ConnType /\ Len(d.toApp) <= QueueSize
        /\ d.sock = h.sock /\ d.entry = h.entry
        /\ d.half = h.half /\ d.cut = h.cut
        /\ d.pending = h.pending /\ d.tx = h.tx
        /\ d.established = h.established
        /\ d.answer = h.answer
        /\ Fed(h.toApp, h.rx, d.toApp, d.rx)
        /\ l /\ d.rx > 0 => Len(d.toApp) = QueueSize
    <3> HIDE DEF h, l
    <3> QED  BY <2>2, <2>3, <1>0, DeliverFacts
  <2>5. /\ g \in ConnType /\ g.toApp = d.toApp /\ g.entry = d.entry
        /\ g.half = d.half /\ g.cut = d.cut /\ g.rx = d.rx
        /\ g.pending = d.pending /\ g.tx = d.tx
        /\ g.established = d.established /\ g.answer = d.answer
        /\ l => g.sock = d.sock
    <3> HIDE DEF d, l
    <3> QED  BY <2>4, ClosingFacts DEF AppGone
  <2>6. /\ z \in ConnType /\ z.toApp = g.toApp
        /\ z.half = g.half /\ z.answer = g.answer
        /\ z.established = g.established
        /\ \/ /\ z.entry = g.entry /\ z.rx = g.rx /\ ~z.cut
              /\ z.pending = g.pending /\ z.tx = g.tx
              /\ \/ z.sock = g.sock
                 \/ g.sock = "CloseWait" /\ z.sock = "LastAck"
           \/ /\ ~z.entry /\ g.sock \in {"Closed", "TimeWait"}
              /\ g.established
              /\ z.sock = g.sock /\ z.rx = 0 /\ (z.cut <=> g.rx > 0)
              /\ z.pending = 0 /\ z.tx = 0
    <3>1. ~g.cut  BY <1>1, <2>1, <2>2, <2>4, <2>5
    <3> HIDE DEF g
    <3> QED  BY <3>1, <2>5, ReapFacts
  <2>7. s = z  BY <1>0, <1>3
  <2>8. /\ p.tx \in Nat /\ p.pending \in Nat
        /\ h.tx \in Nat /\ h.pending \in Nat /\ h.rx \in Nat
        /\ d.tx \in Nat /\ d.pending \in Nat /\ d.rx \in Nat
        /\ g.tx \in Nat /\ g.pending \in Nat /\ g.rx \in Nat
    BY SMTT(60), <2>1, <2>2, <2>4, <2>5, NetStackConstants DEF ConnType
  <2>9. listens => l  OBVIOUS
  <2> HIDE DEF a, l, p, h, d, g, z, s
  <2>10. /\ s \in ConnType /\ Len(s.toApp) <= QueueSize
         /\ s.half = r.half /\ s.answer # "none"
    BY <1>1, <2>1, <2>2, <2>4, <2>5, <2>6, <2>7
  <2>11. /\ s.entry => s.tx + s.pending = r.tx + r.pending /\ s.pending <= r.pending
         /\ r.pending = 0 /\ r.tx = 0 => s.pending = 0 /\ s.tx = 0
    <3>1. g.tx + g.pending = r.tx + r.pending /\ g.pending <= r.pending
      BY <1>1, <2>1, <2>2, <2>4, <2>5
    <3>2. r.pending = 0 /\ r.tx = 0 => g.pending = 0 /\ g.tx = 0  BY <3>1, <2>8, <1>t
    <3> QED  BY <3>1, <3>2, <2>5, <2>6, <2>7
  <2>12. /\ ~s.entry => s.rx = 0 /\ s.sock \in {"Closed", "TimeWait"}
         /\ s.cut => ~s.entry
    BY <1>1, <2>1, <2>2, <2>4, <2>5, <2>6, <2>7
  <2>13. ~s.established => s.rx = 0
    <3> SUFFICES ASSUME ~s.established  PROVE s.rx = 0  OBVIOUS
    <3>1. ~r.established /\ h.rx = r.rx  BY <1>1, <2>1, <2>2, <2>4, <2>5, <2>6, <2>7
    <3>2. h.rx = 0  BY <3>1
    <3>3. d.rx = 0  BY <2>4, <3>2 DEF Fed
    <3> QED  BY <2>5, <2>6, <2>7, <3>3
  <2>14. s.cut /\ listens => Len(s.toApp) = QueueSize
    BY <1>1, <2>1, <2>2, <2>4, <2>5, <2>6, <2>7, <2>9
  <2>15. s.cut \/ Fed(r.toApp, r.rx, s.toApp, s.rx)
    <3>1. h.rx = r.rx /\ h.toApp = r.toApp  BY <1>1, <2>1, <2>2
    <3>2. s.toApp = d.toApp /\ (s.cut \/ s.rx = d.rx)
      BY <2>5, <2>6, <2>7, <2>8
    <3> QED  BY <3>1, <3>2, <2>4
  <2>16. listens => \/ s.sock = r.sock
                    \/ r.sock = "SynSent" /\ s.sock = "Closed"
                    \/ r.sock = "Established" /\ s.sock = "FinWait1" /\ r.half /\ s.pending = 0
                    \/ r.sock = "CloseWait" /\ s.sock = "LastAck"
    <3> SUFFICES ASSUME listens
                 PROVE  \/ s.sock = r.sock
                        \/ r.sock = "SynSent" /\ s.sock = "Closed"
                        \/ /\ r.sock = "Established" /\ s.sock = "FinWait1"
                           /\ r.half /\ s.pending = 0
                        \/ r.sock = "CloseWait" /\ s.sock = "LastAck"
      OBVIOUS
    <3>1. p.sock = r.sock /\ g.sock = h.sock /\ p.half = r.half /\ g.pending = p.pending
      BY <1>1, <2>1, <2>2, <2>4, <2>5, <2>9
    <3>2. \/ s.sock = g.sock
          \/ g.sock = "CloseWait" /\ s.sock = "LastAck"
      BY <2>6, <2>7
    <3>3. s.pending = g.pending \/ s.pending = 0  BY <2>6, <2>7
    <3> QED  BY <3>1, <3>2, <3>3, <2>2
  <2> QED  BY <2>10, <2>11, <2>12, <2>13, <2>14, <2>15, <2>16 DEF s
<1> QED  BY <1>2, <1>3

-----------------------------------------------------------------------------
(* Queues that grow by what does not concern a connection, and connections *)
(* that a step leaves alone.                                               *)

\* p is q with messages added, none of them for d.
Grows(q, p, d) ==
  /\ q \in Seq(Message) /\ p \in Seq(Message) /\ Len(q) <= Len(p)
  /\ \A i \in 1 .. Len(q) : p[i] = q[i]
  /\ \A i \in 1 .. Len(p) : i > Len(q) => p[i].id # d

LEMMA GrowsTally ==
  ASSUME NEW d \in Conns, NEW q, NEW p, Grows(q, p, d), NEW f \in Nat, NEW t \in Nat,
         Tally(d, q, f, t)
  PROVE  Tally(d, p, f, t)
<1>1. \A i \in 1 .. Len(p) : i > Len(q) => SizeFor(d, p[i]) = 0  BY DEF Grows, SizeFor
<1> QED  BY <1>1, TallyExtended DEF Grows

LEMMA GrowsSame == ASSUME NEW d, NEW q \in Seq(Message) PROVE Grows(q, q, d)
BY DEF Grows

LEMMA GrowsAppend ==
  ASSUME NEW d, NEW q \in Seq(Message), NEW m \in Message, m.id # d
  PROVE  Grows(q, Append(q, m), d)
<1> DEFINE L == Len(q)
           p == Append(q, m)
<1>1. p \in Seq(Message) /\ Len(p) = L + 1 /\ L \in Nat /\ p[L + 1] = m
      /\ \A i \in 1 .. L : p[i] = q[i]
  OBVIOUS
<1> HIDE DEF p
<1>2. \A i \in 1 .. Len(p) : i > L => i = L + 1  BY <1>1
<1>3. Grows(q, p, d)  BY <1>1, <1>2 DEF Grows
<1> QED  BY <1>3 DEF p

LEMMA MessageTypes ==
  ASSUME NEW c \in Conns
  PROVE  /\ CloseMsg(c) \in Message /\ CloseMsg(c).id = c /\ CloseMsg(c).kind = "close"
         /\ CloseMsg(c).size = 0
         /\ \A n \in 0 .. MaxRead :
              /\ DataMsg(c, n) \in Message /\ DataMsg(c, n).id = c
              /\ DataMsg(c, n).kind = "data" /\ DataMsg(c, n).size = n
BY NetStackConstants DEF CloseMsg, DataMsg, Message

\* The sizes of everything the invariant counts.
LEMMA Counts ==
  ASSUME NetTypeOK, NEW c \in Conns
  PROVE  /\ conn[c] \in ConnType /\ conn[c].tx \in 0 .. TcpBuf /\ conn[c].pending \in 0 .. MaxPending
         /\ conn[c].rx \in 0 .. TcpBuf /\ conn[c].toApp \in Seq(1 .. TcpBuf)
         /\ conn[c].tx \in Nat /\ conn[c].pending \in Nat /\ conn[c].rx \in Nat
         /\ conn[c].toApp \in Seq(Nat)
         /\ server[c] \in [sent : Nat, recv : Nat, fin : BOOLEAN, sawFin : BOOLEAN]
         /\ server[c].recv \in Nat /\ server[c].sent \in Nat
         /\ held[c] \in Nat /\ unread[c] \in Nat /\ got[c] \in Nat /\ UpBytes[c] \in Nat
         /\ DeferredSize(c) \in Nat
<1>1. conn[c] \in ConnType  BY DEF NetTypeOK
<1>2. /\ conn[c].tx \in 0 .. TcpBuf /\ conn[c].pending \in 0 .. MaxPending
      /\ conn[c].rx \in 0 .. TcpBuf /\ conn[c].toApp \in Seq(1 .. TcpBuf)
  BY <1>1 DEF ConnType
<1>3. conn[c].toApp \in Seq(Nat)
  <2>1. 1 .. TcpBuf \subseteq Nat  BY NetStackConstants
  <2> DEFINE L == Len(conn[c].toApp)
  <2>2. L \in Nat /\ conn[c].toApp \in [1 .. L -> 1 .. TcpBuf]  BY <1>2, LenProperties
  <2> HIDE DEF L
  <2>3. conn[c].toApp \in [1 .. L -> Nat]  BY <2>1, <2>2
  <2> QED  BY <2>2, <2>3, SeqDef
<1>4. server[c] \in [sent : Nat, recv : Nat, fin : BOOLEAN, sawFin : BOOLEAN]
  BY DEF NetTypeOK
<1>5. /\ held[c] \in Nat /\ unread[c] \in Nat /\ got[c] \in Nat /\ UpBytes[c] \in Nat
  BY NetStackConstants DEF NetTypeOK
<1>6. DeferredSize(c) \in Nat
  <2>1. CASE deferred = <<>>  BY <2>1 DEF DeferredSize
  <2>2. CASE deferred # <<>>
    <3>1. deferred[1] \in Message  BY <2>2 DEF NetTypeOK
    <3> QED  BY <2>2, <3>1, NetStackConstants DEF DeferredSize, SizeFor, Message
  <2> QED  BY <2>1, <2>2
<1> QED  BY SMTT(60), <1>1, <1>2, <1>3, <1>4, <1>5, <1>6, NetStackConstants

\* The bytes of a connection that have left the channel are a number.
LEMMA UpSum ==
  ASSUME NetTypeOK, NEW c \in Conns
  PROVE  server[c].recv + conn[c].tx + conn[c].pending + DeferredSize(c) \in Nat
<1>1. /\ server[c].recv \in Nat /\ conn[c].tx \in Nat /\ conn[c].pending \in Nat
      /\ DeferredSize(c) \in Nat
  BY Counts
<1> QED  BY <1>1

\* What a step leaves of connection d as it was.
Same(d) == /\ conn'[d] = conn[d] /\ handler'[d] = handler[d] /\ up'[d] = up[d]
           /\ held'[d] = held[d] /\ unread'[d] = unread[d] /\ client'[d] = client[d]
           /\ got'[d] = got[d] /\ server'[d] = server[d]

\* The bytes of c that the stack holds in all its places.
Taken(c) == server[c].recv + conn[c].tx + conn[c].pending

\* A step that moves bytes of the upload only from one place to the next.
LEMMA UploadCarried ==
  ASSUME NetTypeOK, NEW d \in Conns, RelayInv(d), Grows(dataIn, dataIn', d),
         Relaying(d)' => Relaying(d), conn'[d].entry => conn[d].entry,
         conn'[d].half = conn[d].half, up'[d] = up[d],
         held'[d] = held[d], unread'[d] = unread[d],
         conn'[d].entry =>
           /\ Taken(d)' + DeferredSize(d)' = Taken(d) + DeferredSize(d)
           /\ (deferred # <<>> => deferred[1].id # d) =>
                Taken(d)' = Taken(d) /\ (deferred' # <<>> => deferred'[1].id # d)
  PROVE  UploadKept(d)'
<1> SUFFICES ASSUME Relaying(d), conn[d].entry, Relaying(d)', conn'[d].entry
             PROVE  UploadKept(d)'
  BY DEF UploadKept
<1> DEFINE f == server[d].recv + conn[d].tx + conn[d].pending + DeferredSize(d)
           t == UpBytes[d] - unread[d] - held[d]
<1>1. f \in Nat /\ t \in Nat
  <2>1. f \in Nat  BY UpSum
  <2>2. unread[d] + held[d] <= UpBytes[d]  BY DEF RelayInv, UploadTask
  <2>3. unread[d] \in Nat /\ held[d] \in Nat /\ UpBytes[d] \in Nat  BY Counts
  <2> QED  BY <2>1, <2>2, <2>3
<1>2. Tally(d, dataIn, f, t)  BY DEF RelayInv, UploadKept
<1>3. Tally(d, dataIn', f, t)
  <2> HIDE DEF f, t
  <2> QED  BY <1>1, <1>2, GrowsTally
<1>4. f' = f /\ t' = t  BY DEF Taken
<1>5. ASSUME NEW i \in 1 .. Len(dataIn'), IsClose(d, dataIn'[i])
      PROVE  /\ up'[d] = "done"
             /\ \A j \in 1 .. Len(dataIn') : j > i => ~IsData(d, dataIn'[j])
  <2>1. i \in 1 .. Len(dataIn) /\ dataIn'[i] = dataIn[i]  BY <1>5 DEF Grows, IsClose
  <2>2. up[d] = "done" /\ \A j \in 1 .. Len(dataIn) : j > i => ~IsData(d, dataIn[j])
    BY <1>5, <2>1 DEF RelayInv, UploadKept
  <2>3. ASSUME NEW j \in 1 .. Len(dataIn'), j > i PROVE ~IsData(d, dataIn'[j])
    BY <2>2, <2>3 DEF Grows, IsData
  <2> QED  BY <2>2, <2>3
<1>6. ASSUME conn'[d].half
      PROVE  /\ up'[d] = "done"
             /\ Taken(d)' = UpBytes[d]
             /\ deferred' # <<>> => deferred'[1].id # d
             /\ \A i \in 1 .. Len(dataIn') : ~IsData(d, dataIn'[i])
  <2>1. /\ up[d] = "done" /\ Taken(d) = UpBytes[d]
        /\ deferred # <<>> => deferred[1].id # d
        /\ \A i \in 1 .. Len(dataIn) : ~IsData(d, dataIn[i])
    BY <1>6 DEF RelayInv, UploadKept, Taken
  <2>2. \A i \in 1 .. Len(dataIn') : ~IsData(d, dataIn'[i])
    BY <2>1 DEF Grows, IsData
  <2> QED  BY <2>1, <2>2
<1>7. Tally(d, dataIn', f', t')  BY <1>3, <1>4
<1> QED  BY <1>5, <1>6, <1>7 DEF UploadKept, Taken

LEMMA Untouched ==
  ASSUME NetTypeOK, NEW d \in Conns, RelayInv(d), Same(d), deferred' = deferred,
         Grows(dataIn, dataIn', d), stack' = "ended" => stack = "ended"
  PROVE  RelayInv(d)'
<1> USE DEF Same
<1>1. EntryOrder(d)'  BY DEF RelayInv, EntryOrder
<1>2. Fresh(d)'
  <2>1. (\A i \in 1 .. Len(dataIn) : dataIn[i].id # d) =>
           \A i \in 1 .. Len(dataIn') : dataIn'[i].id # d
    BY DEF Grows
  <2> QED  BY <2>1 DEF RelayInv, Fresh
<1>3. UploadTask(d)'  BY DEF RelayInv, UploadTask, Relaying
<1>4. UploadKept(d)'
  <2>1. Taken(d)' = Taken(d) /\ DeferredSize(d)' = DeferredSize(d)
    BY DEF Taken, DeferredSize
  <2>2. Relaying(d)' = Relaying(d)  BY DEF Relaying
  <2> QED  BY <2>1, <2>2, UploadCarried
<1>5. FinLast(d)'  BY DEF RelayInv, FinLast, Relaying
<1>6. DownloadKept(d)'
  <2>1. Carries(conn'[d].toApp, got'[d], server'[d].sent - conn'[d].rx)
        <=> Carries(conn[d].toApp, got[d], server[d].sent - conn[d].rx)
    OBVIOUS
  <2> QED  BY <2>1 DEF RelayInv, DownloadKept
<1> QED  BY <1>1, <1>2, <1>3, <1>4, <1>5, <1>6 DEF RelayInv

\* A step of one connection.
LEMMA OneMoves ==
  ASSUME NetInv, NEW c \in Conns, NetTypeOK', Messages', RelayInv(c)',
         deferred' = deferred, stack' = "ended" => stack = "ended",
         \A d \in Conns \ {c} : Same(d) /\ Grows(dataIn, dataIn', d)
  PROVE  NetInv'
<1> SUFFICES ASSUME NEW d \in Conns \ {c} PROVE RelayInv(d)'  BY DEF NetInv
<1> QED  BY Untouched DEF NetInv

-----------------------------------------------------------------------------
(* The network. *)

LEMMA NetworkInv == ASSUME NetInv, NEW c \in Conns, Network(c)  PROVE NetInv'
<1> DEFINE r == conn[c]
           v == server[c]
<1>1. /\ r \in ConnType /\ v \in [sent : Nat, recv : Nat, fin : BOOLEAN, sawFin : BOOLEAN]
      /\ RelayInv(c) /\ NetTypeOK /\ Messages
  BY DEF NetInv, NetTypeOK
<1>2. /\ stack = "select" /\ UNCHANGED <<stack, dataIn, deferred, relay>>
      /\ \A d \in Conns \ {c} : conn'[d] = conn[d] /\ server'[d] = server[d]
      /\ DOMAIN conn' = Conns /\ conn' = [conn EXCEPT ![c] = conn'[c]]
      /\ server' = [server EXCEPT ![c] = server'[c]]
  BY <1>1 DEF Network, Accepted, Delivered, FinAcked, ServerSends, ServerFin, ServerResets,
     NetTypeOK
<1>3. ASSUME /\ conn'[c] \in ConnType /\ Len(conn'[c].toApp) <= QueueSize
             /\ server'[c] \in [sent : Nat, recv : Nat, fin : BOOLEAN, sawFin : BOOLEAN]
             /\ EntryOrder(c)' /\ Fresh(c)' /\ FinLast(c)' /\ DownloadKept(c)'
             /\ conn'[c].entry = conn[c].entry /\ conn'[c].half = conn[c].half
             /\ Taken(c)' = Taken(c)
      PROVE  NetInv'
  <2>1. NetTypeOK'  BY <1>1, <1>2, <1>3 DEF NetTypeOK, relay
  <2>2. Messages'  BY <1>1, <1>2 DEF Messages
  <2>3. \A d \in Conns \ {c} : Same(d)  BY <1>2 DEF Same, relay
  <2>4. \A d \in Conns : Grows(dataIn, dataIn', d)  BY <1>1, <1>2, GrowsSame DEF NetTypeOK
  <2>5. UploadTask(c)'  BY <1>1, <1>2, <1>3 DEF RelayInv, UploadTask, Relaying, relay
  <2>6. DeferredSize(c)' = DeferredSize(c) /\ Relaying(c)' = Relaying(c)
    BY <1>2 DEF DeferredSize, Relaying, relay
  <2>7. UploadKept(c)'  BY <1>1, <1>2, <1>3, <2>4, <2>6, UploadCarried DEF relay
  <2>8. RelayInv(c)'  BY <1>3, <2>5, <2>7 DEF RelayInv
  <2> QED  BY <1>2, <2>1, <2>2, <2>3, <2>4, <2>8, OneMoves
<1>t. /\ r.tx \in 0 .. TcpBuf /\ r.rx \in 0 .. TcpBuf /\ r.pending \in Nat
      /\ r.tx \in Nat /\ r.rx \in Nat /\ v.recv \in Nat /\ v.sent \in Nat
      /\ Len(r.toApp) <= QueueSize
  BY <1>1, Counts DEF NetTypeOK
<1> USE DEF relay
<1>4. CASE Accepted(c)
  <2>0. PICK s \in {"Established"} \cup IF c \in Rough THEN {"Closed"} ELSE {} :
          conn' = [conn EXCEPT ![c].sock = s]
    BY <1>4 DEF Accepted
  <2>1. s \in {"Established", "Closed"} /\ conn'[c] = [r EXCEPT !.sock = s]
    BY <2>0, <1>1 DEF NetTypeOK
  <2>2. r.sock = "SynSent" /\ server' = server  BY <1>4 DEF Accepted
  <2>3. conn'[c] \in ConnType  BY <1>1, <2>1 DEF ConnType, SockStates
  <2>4. /\ conn'[c].sock = s /\ conn'[c].entry = r.entry /\ conn'[c].half = r.half
        /\ conn'[c].tx = r.tx /\ conn'[c].rx = r.rx /\ conn'[c].pending = r.pending
        /\ conn'[c].toApp = r.toApp /\ conn'[c].established = r.established
        /\ conn'[c].answer = r.answer /\ conn'[c].cut = r.cut
    BY <1>1, <2>1 DEF ConnType
  <2> HIDE DEF r, v
  <2>5. r = conn[c] /\ v = server[c]  BY DEF r, v
  <2>6. EntryOrder(c)'  BY <1>1, <1>2, <2>2, <2>4, <2>5 DEF RelayInv, EntryOrder
  <2>7. Fresh(c)'  BY <1>1, <1>2, <2>2, <2>4, <2>5 DEF RelayInv, Fresh
  <2>8. FinLast(c)'  BY <1>1, <1>2, <2>2, <2>4, <2>5 DEF RelayInv, FinLast, Relaying
  <2>9. DownloadKept(c)'  BY <1>1, <1>2, <2>2, <2>4, <2>5 DEF RelayInv, DownloadKept
  <2>10. Taken(c)' = Taken(c)  BY <2>2, <2>4, <2>5 DEF Taken
  <2> QED  BY <1>1, <1>3, <1>t, <2>2, <2>3, <2>4, <2>5, <2>6, <2>7, <2>8, <2>9, <2>10
<1>5. CASE ServerResets(c)
  <2>1. conn'[c] = [r EXCEPT !.sock = "Closed"]  BY <1>5, <1>1 DEF ServerResets, NetTypeOK
  <2>2. r.sock \notin {"none", "SynSent", "TimeWait", "Closed"} /\ server' = server
    BY <1>5 DEF ServerResets
  <2>3. conn'[c] \in ConnType  BY <1>1, <2>1 DEF ConnType, SockStates
  <2>4. /\ conn'[c].sock = "Closed" /\ conn'[c].entry = r.entry /\ conn'[c].half = r.half
        /\ conn'[c].tx = r.tx /\ conn'[c].rx = r.rx /\ conn'[c].pending = r.pending
        /\ conn'[c].toApp = r.toApp /\ conn'[c].established = r.established
        /\ conn'[c].answer = r.answer /\ conn'[c].cut = r.cut
    BY <1>1, <2>1 DEF ConnType
  <2> HIDE DEF r, v
  <2>5. r = conn[c] /\ v = server[c]  BY DEF r, v
  <2>6. EntryOrder(c)'  BY <1>1, <1>2, <2>2, <2>4, <2>5 DEF RelayInv, EntryOrder
  <2>7. Fresh(c)'  BY <1>1, <1>2, <2>2, <2>4, <2>5 DEF RelayInv, Fresh
  <2>8. FinLast(c)'  BY <1>1, <1>2, <2>2, <2>4, <2>5 DEF RelayInv, FinLast, Relaying
  <2>9. DownloadKept(c)'  BY <1>1, <1>2, <2>2, <2>4, <2>5 DEF RelayInv, DownloadKept
  <2>10. Taken(c)' = Taken(c)  BY <2>2, <2>4, <2>5 DEF Taken
  <2> QED  BY <1>1, <1>3, <1>t, <2>2, <2>3, <2>4, <2>5, <2>6, <2>7, <2>8, <2>9, <2>10
\* The bytes go from the socket to the server.
<1>6. CASE Delivered(c)
  <2>1. /\ conn'[c] = [r EXCEPT !.tx = 0]
        /\ server'[c] = [v EXCEPT !.recv = v.recv + r.tx]
    BY <1>6, <1>1 DEF Delivered, NetTypeOK
  <2>2. /\ r.sock \in {"Established", "CloseWait", "FinWait1", "Closing", "LastAck"}
        /\ r.tx > 0
    BY <1>6 DEF Delivered
  <2>3. conn'[c] \in ConnType
    <3>1. 0 \in 0 .. TcpBuf  BY NetStackConstants
    <3> QED  BY <1>1, <2>1, <3>1 DEF ConnType
  <2>4. /\ conn'[c].sock = r.sock /\ conn'[c].entry = r.entry /\ conn'[c].half = r.half
        /\ conn'[c].tx = 0 /\ conn'[c].rx = r.rx /\ conn'[c].pending = r.pending
        /\ conn'[c].toApp = r.toApp /\ conn'[c].established = r.established
        /\ conn'[c].answer = r.answer /\ conn'[c].cut = r.cut
        /\ server'[c].recv = v.recv + r.tx /\ server'[c].sent = v.sent
        /\ server'[c].fin = v.fin /\ server'[c].sawFin = v.sawFin
    BY <1>1, <2>1 DEF ConnType
  <2>5. server'[c] \in [sent : Nat, recv : Nat, fin : BOOLEAN, sawFin : BOOLEAN]
    <3>1. v.recv + r.tx \in Nat  BY <1>t
    <3> QED  BY <1>1, <2>1, <3>1
  <2> HIDE DEF r, v
  <2>6. r = conn[c] /\ v = server[c]  BY DEF r, v
  <2>7. EntryOrder(c)'  BY <1>1, <1>2, <2>4, <2>6 DEF RelayInv, EntryOrder
  <2>8. Fresh(c)'  BY <1>1, <1>2, <1>t, <2>2, <2>4, <2>6 DEF RelayInv, Fresh
  <2>9. FinLast(c)'  BY <1>1, <1>2, <2>2, <2>4, <2>6 DEF RelayInv, FinLast, Relaying
  <2>10. DownloadKept(c)'  BY <1>1, <1>2, <2>4, <2>6 DEF RelayInv, DownloadKept
  <2>11. Taken(c)' = Taken(c)  BY <1>t, <2>4, <2>6 DEF Taken
  <2> QED  BY <1>3, <1>t, <2>3, <2>4, <2>5, <2>6, <2>7, <2>8, <2>9, <2>10, <2>11
\* A FIN that is acknowledged has everything before it.
<1>7. CASE FinAcked(c)
  <2>1. PICK s \in {"FinWait2", "TimeWait", "Closed"} :
          /\ conn'[c] = [r EXCEPT !.sock = s]
          /\ r.sock = "FinWait1" => s = "FinWait2"
    BY <1>7, <1>1 DEF FinAcked, NetTypeOK
  <2>2. /\ server'[c] = [v EXCEPT !.sawFin = TRUE] /\ r.tx = 0
        /\ r.sock \in {"FinWait1", "Closing", "LastAck"}
    BY <1>7, <1>1 DEF FinAcked, NetTypeOK
  <2>3. conn'[c] \in ConnType  BY <1>1, <2>1 DEF ConnType, SockStates
  <2>4. /\ conn'[c].sock = s /\ conn'[c].entry = r.entry /\ conn'[c].half = r.half
        /\ conn'[c].tx = r.tx /\ conn'[c].rx = r.rx /\ conn'[c].pending = r.pending
        /\ conn'[c].toApp = r.toApp /\ conn'[c].established = r.established
        /\ conn'[c].answer = r.answer /\ conn'[c].cut = r.cut
        /\ server'[c].recv = v.recv /\ server'[c].sent = v.sent
        /\ server'[c].fin = v.fin /\ server'[c].sawFin
    BY <1>1, <2>1, <2>2 DEF ConnType
  <2>5. server'[c] \in [sent : Nat, recv : Nat, fin : BOOLEAN, sawFin : BOOLEAN]
    BY <1>1, <2>2
  <2> HIDE DEF r, v
  <2>6. r = conn[c] /\ v = server[c]  BY DEF r, v
  <2>7. EntryOrder(c)'  BY <1>1, <1>2, <2>2, <2>4, <2>6 DEF RelayInv, EntryOrder
  <2>8. Fresh(c)'  BY <1>1, <1>2, <2>2, <2>4, <2>6 DEF RelayInv, Fresh
  <2>9. FinLast(c)'
    <3> SUFFICES ASSUME Relaying(c), ~v.fin
                 PROVE  /\ s \in {"FinWait2"} /\ client[c] = "eof" /\ v.recv = UpBytes[c]
      BY <1>2, <2>4, <2>6 DEF FinLast, Relaying
    <3>1. r.sock = "FinWait1" /\ r.half /\ r.pending = 0
      BY <1>1, <2>2, <2>6 DEF RelayInv, FinLast
    <3>2. r.entry  BY <1>1, <2>6, <3>1 DEF RelayInv, EntryOrder
    <3>3. up[c] = "done" /\ v.recv + r.tx + r.pending = UpBytes[c]
      BY <1>1, <2>6, <3>1, <3>2 DEF RelayInv, UploadKept
    <3>4. v.recv = UpBytes[c]  BY <3>1, <3>3, <2>2, <1>t
    <3>5. client[c] = "eof"  BY <1>1, <2>6, <3>2, <3>3 DEF RelayInv, UploadTask
    <3> QED  BY <2>1, <3>1, <3>4, <3>5
  <2>10. DownloadKept(c)'  BY <1>1, <1>2, <2>4, <2>6 DEF RelayInv, DownloadKept
  <2>11. Taken(c)' = Taken(c)  BY <2>4, <2>6 DEF Taken
  <2> QED  BY <1>3, <1>t, <2>3, <2>4, <2>5, <2>6, <2>7, <2>8, <2>9, <2>10, <2>11
<1>8. CASE ServerSends(c)
  <2>1. /\ conn'[c] = [r EXCEPT !.rx = r.rx + 1]
        /\ server'[c] = [v EXCEPT !.sent = v.sent + 1]
    BY <1>8, <1>1 DEF ServerSends, NetTypeOK
  <2>2. r.sock \in {"Established", "FinWait1", "FinWait2"} /\ r.established /\ r.rx < TcpBuf
    BY <1>8 DEF ServerSends, MayReceive
  <2>3. conn'[c] \in ConnType
    <3>1. r.rx + 1 \in 0 .. TcpBuf  BY <1>t, <2>2, NetStackConstants
    <3> QED  BY <1>1, <2>1, <3>1 DEF ConnType
  <2>4. /\ conn'[c].sock = r.sock /\ conn'[c].entry = r.entry /\ conn'[c].half = r.half
        /\ conn'[c].tx = r.tx /\ conn'[c].rx = r.rx + 1 /\ conn'[c].pending = r.pending
        /\ conn'[c].toApp = r.toApp /\ conn'[c].established = r.established
        /\ conn'[c].answer = r.answer /\ conn'[c].cut = r.cut
        /\ server'[c].recv = v.recv /\ server'[c].sent = v.sent + 1
        /\ server'[c].fin = v.fin /\ server'[c].sawFin = v.sawFin
    BY <1>1, <2>1 DEF ConnType
  <2>5. server'[c] \in [sent : Nat, recv : Nat, fin : BOOLEAN, sawFin : BOOLEAN]
    <3>1. v.sent + 1 \in Nat  BY <1>t
    <3> QED  BY <1>1, <2>1, <3>1
  <2> HIDE DEF r, v
  <2>6. r = conn[c] /\ v = server[c]  BY DEF r, v
  <2>7. EntryOrder(c)'  BY <1>1, <1>2, <2>2, <2>4, <2>6 DEF RelayInv, EntryOrder
  <2>8. Fresh(c)'  BY <1>1, <1>2, <2>4, <2>6 DEF RelayInv, Fresh
  <2>9. FinLast(c)'  BY <1>1, <1>2, <2>4, <2>6 DEF RelayInv, FinLast, Relaying
  <2>10. DownloadKept(c)'
    <3>1. (v.sent + 1) - (r.rx + 1) = v.sent - r.rx /\ (r.rx <= v.sent => r.rx + 1 <= v.sent + 1)
      BY <1>t
    <3> QED  BY <1>1, <1>2, <2>4, <2>6, <3>1 DEF RelayInv, DownloadKept
  <2>11. Taken(c)' = Taken(c)  BY <2>4, <2>6 DEF Taken
  <2> QED  BY <1>3, <1>t, <2>3, <2>4, <2>5, <2>6, <2>7, <2>8, <2>9, <2>10, <2>11
<1>9. CASE ServerFin(c)
  <2>1. PICK s \in {"CloseWait", "Closing", "TimeWait"} : conn'[c] = [r EXCEPT !.sock = s]
    BY <1>9, <1>1 DEF ServerFin, NetTypeOK, MayReceive
  <2>2. /\ server'[c] = [v EXCEPT !.fin = TRUE] /\ r.established
        /\ r.sock \in {"Established", "FinWait1", "FinWait2"}
    BY <1>9, <1>1 DEF ServerFin, NetTypeOK, MayReceive
  <2>3. conn'[c] \in ConnType  BY <1>1, <2>1 DEF ConnType, SockStates
  <2>4. /\ conn'[c].sock = s /\ conn'[c].entry = r.entry /\ conn'[c].half = r.half
        /\ conn'[c].tx = r.tx /\ conn'[c].rx = r.rx /\ conn'[c].pending = r.pending
        /\ conn'[c].toApp = r.toApp /\ conn'[c].established = r.established
        /\ conn'[c].answer = r.answer /\ conn'[c].cut = r.cut
        /\ server'[c].recv = v.recv /\ server'[c].sent = v.sent
        /\ server'[c].fin /\ server'[c].sawFin = v.sawFin
    BY <1>1, <2>1, <2>2 DEF ConnType
  <2>5. server'[c] \in [sent : Nat, recv : Nat, fin : BOOLEAN, sawFin : BOOLEAN]
    BY <1>1, <2>2
  <2> HIDE DEF r, v
  <2>6. r = conn[c] /\ v = server[c]  BY DEF r, v
  <2>7. EntryOrder(c)'  BY <1>1, <1>2, <2>2, <2>4, <2>6 DEF RelayInv, EntryOrder
  <2>8. Fresh(c)'  BY <1>1, <1>2, <2>4, <2>6 DEF RelayInv, Fresh
  <2>9. FinLast(c)'  BY <2>4 DEF FinLast
  <2>10. DownloadKept(c)'  BY <1>1, <1>2, <2>4, <2>6 DEF RelayInv, DownloadKept
  <2>11. Taken(c)' = Taken(c)  BY <2>4, <2>6 DEF Taken
  <2> QED  BY <1>3, <1>t, <2>3, <2>4, <2>5, <2>6, <2>7, <2>8, <2>9, <2>10, <2>11
<1> QED  BY <1>4, <1>5, <1>6, <1>7, <1>8, <1>9 DEF Network

-----------------------------------------------------------------------------
(* The relay of one client. *)

\* A dropped sender's close, if there is room for it.
LEMMA TrySendFacts ==
  ASSUME NEW c \in Conns, NEW q \in Seq(Message), Len(q) <= QueueSize
  PROVE  /\ TrySend(q, CloseMsg(c)) \in Seq(Message)
         /\ Len(TrySend(q, CloseMsg(c))) <= QueueSize
         /\ \A d \in Conns \ {c} : Grows(q, TrySend(q, CloseMsg(c)), d)
         /\ \/ TrySend(q, CloseMsg(c)) = q
            \/ TrySend(q, CloseMsg(c)) = Append(q, CloseMsg(c))
<1> DEFINE w == Len(q)
<1>1. w \in Nat  OBVIOUS
<1>2. CASE w < QueueSize
  <2>1. TrySend(q, CloseMsg(c)) = Append(q, CloseMsg(c))  BY <1>2 DEF TrySend
  <2>2. Len(Append(q, CloseMsg(c))) = w + 1 /\ Append(q, CloseMsg(c)) \in Seq(Message)
    BY MessageTypes
  <2>3. w + 1 <= QueueSize  BY <1>1, <1>2, NetStackConstants
  <2>4. ASSUME NEW d \in Conns \ {c}  PROVE Grows(q, Append(q, CloseMsg(c)), d)
    BY MessageTypes, GrowsAppend
  <2> QED  BY <2>1, <2>2, <2>3, <2>4
<1>3. CASE ~(w < QueueSize)
  <2>1. TrySend(q, CloseMsg(c)) = q  BY <1>3 DEF TrySend
  <2> QED  BY <2>1, GrowsSame
<1> QED  BY <1>2, <1>3

\* The messages on the way stay what they are.
LEMMA MessagesAppend ==
  ASSUME NetTypeOK, Messages, deferred' = deferred, NEW m \in Message,
         dataIn' = dataIn \/ dataIn' = Append(dataIn, m), m.kind = "close" => m.size = 0
  PROVE  Messages'
<1> DEFINE L == Len(dataIn)
<1>1. dataIn \in Seq(Message) /\ L \in Nat  BY DEF NetTypeOK
<1>2. CASE dataIn' = dataIn  BY <1>2 DEF Messages
<1>3. CASE dataIn' = Append(dataIn, m)
  <2>1. Len(dataIn') = L + 1 /\ dataIn'[L + 1] = m /\ \A i \in 1 .. L : dataIn'[i] = dataIn[i]
    BY <1>1, <1>3
  <2>2. \A i \in 1 .. L + 1 : i \in 1 .. L \/ i = L + 1  BY <1>1
  <2> QED  BY <2>1, <2>2 DEF Messages
<1> QED  BY <1>2, <1>3

\* The relay starts with an upload that has not begun.
LEMMA OpenedInv == ASSUME NetInv, NEW c \in Conns, Opened(c)  PROVE NetInv'
<1>1. /\ NetTypeOK /\ Messages /\ RelayInv(c)
      /\ handler[c] = "opening" /\ handler' = [handler EXCEPT ![c] = "relay"]
      /\ up' = [up EXCEPT ![c] = "read"]
      /\ UNCHANGED <<stack, conn, dataIn, deferred, held, unread, client, got, server>>
  BY DEF NetInv, Opened
<1>2. handler'[c] = "relay" /\ up'[c] = "read"  BY <1>1 DEF NetTypeOK
<1>3. NetTypeOK' /\ Messages'  BY <1>1 DEF NetTypeOK, Messages
<1>4. \A d \in Conns \ {c} : Same(d) /\ Grows(dataIn, dataIn', d)
  BY <1>1, GrowsSame DEF NetTypeOK, Same
<1>5. EntryOrder(c)' /\ DownloadKept(c)'
  BY <1>1, <1>2 DEF RelayInv, EntryOrder, DownloadKept
<1>6. Fresh(c)'  BY <1>2 DEF Fresh
<1>7. /\ held[c] = 0 /\ unread[c] = UpBytes[c] /\ client[c] = "open"
      /\ ~conn[c].half /\ conn[c].pending = 0 /\ conn[c].tx = 0 /\ server[c].recv = 0
      /\ deferred # <<>> => deferred[1].id # c
      /\ \A i \in 1 .. Len(dataIn) : dataIn[i].id # c
      /\ ~server[c].fin => /\ ~server[c].sawFin
                           /\ conn[c].sock \in {"none", "SynSent", "Established", "Closed"}
  BY <1>1 DEF RelayInv, Fresh
<1>8. UploadTask(c)'
  <2>1. UpBytes[c] + 0 <= UpBytes[c]  BY <1>1, Counts
  <2> QED  BY <1>1, <1>2, <1>7, <2>1 DEF UploadTask
<1>9. UploadKept(c)'
  <2>1. Tally(c, <<>>, 0, 0)  BY TallyNone
  <2>2. <<>> \in Seq(Message) /\ Len(<<>>) = 0 /\ dataIn \in Seq(Message)  BY <1>1 DEF NetTypeOK
  <2>3. \A i \in 1 .. Len(dataIn) : SizeFor(c, dataIn[i]) = 0  BY <1>7 DEF SizeFor
  <2>4. Tally(c, dataIn, 0, 0)
    <3>1. Len(<<>>) <= Len(dataIn) /\ 1 .. Len(<<>>) = {}  BY <2>2
    <3> QED  BY <2>1, <2>2, <2>3, <3>1, TallyExtended
  <2>5. DeferredSize(c) = 0  BY <1>7 DEF DeferredSize, SizeFor
  <2>6. /\ server[c].recv + conn[c].tx + conn[c].pending + DeferredSize(c) = 0
        /\ UpBytes[c] - unread[c] - held[c] = 0
    BY <1>1, <1>7, <2>5, Counts
  <2>7. DeferredSize(c)' = DeferredSize(c)  BY <1>1 DEF DeferredSize
  <2> QED  BY <1>1, <1>7, <2>4, <2>6, <2>7 DEF UploadKept, IsClose
<1>10. FinLast(c)'  BY <1>1, <1>7 DEF FinLast
<1>11. RelayInv(c)'  BY <1>5, <1>6, <1>8, <1>9, <1>10 DEF RelayInv
<1> QED  BY <1>1, <1>3, <1>4, <1>11, OneMoves

\* A handler that gives up, or is refused, leaves no relay behind.
LEMMA FailedInv ==
  ASSUME NetInv, NEW c \in Conns, NotOpened(c) \/ GivesUp(c)  PROVE NetInv'
<1>1. /\ NetTypeOK /\ Messages /\ RelayInv(c)
      /\ handler' = [handler EXCEPT ![c] = "failed"]
      /\ UNCHANGED <<stack, conn, deferred, up, held, unread, client, got, server>>
      /\ dataIn' = dataIn \/ dataIn' = TrySend(dataIn, CloseMsg(c))
  BY DEF NetInv, NotOpened, GivesUp
<1>2. handler'[c] = "failed"  BY <1>1 DEF NetTypeOK
<1>3. /\ dataIn' \in Seq(Message) /\ Len(dataIn') <= QueueSize
      /\ \A d \in Conns \ {c} : Grows(dataIn, dataIn', d)
      /\ dataIn' = dataIn \/ dataIn' = Append(dataIn, CloseMsg(c))
  BY <1>1, TrySendFacts, GrowsSame DEF NetTypeOK
<1>4. NetTypeOK'  BY <1>1, <1>3 DEF NetTypeOK
<1>5. Messages'  BY <1>1, <1>3, MessagesAppend, MessageTypes
<1>6. \A d \in Conns \ {c} : Same(d)  BY <1>1 DEF NetTypeOK, Same
<1>7. RelayInv(c)'
  BY <1>1, <1>2 DEF RelayInv, EntryOrder, DownloadKept, Fresh, UploadTask, UploadKept,
     FinLast, Relaying
<1> QED  BY <1>1, <1>3, <1>4, <1>5, <1>6, <1>7, OneMoves

LEMMA UpReadInv == ASSUME NetInv, NEW c \in Conns, UpRead(c)  PROVE NetInv'
<1>1. /\ NetTypeOK /\ Messages /\ RelayInv(c) /\ up[c] = "read"
      /\ UNCHANGED <<stack, conn, dataIn, deferred, handler, client, got, server>>
  BY DEF NetInv, UpRead
<1>2. held[c] \in Nat /\ unread[c] \in Nat /\ UpBytes[c] \in Nat  BY <1>1, Counts
<1>3. \/ \E n \in 1 .. MaxRead :
           /\ n <= unread[c] /\ client[c] # "gone"
           /\ unread' = [unread EXCEPT ![c] = unread[c] - n]
           /\ held' = [held EXCEPT ![c] = n] /\ up' = [up EXCEPT ![c] = "send"]
      \/ /\ client[c] = "gone" \/ (client[c] = "eof" /\ unread[c] = 0)
         /\ up' = [up EXCEPT ![c] = "close"] /\ UNCHANGED <<unread, held>>
  <2>1. CASE /\ client[c] # "gone" /\ unread[c] > 0
             /\ \E n \in 1 .. Least(MaxRead, unread[c]) :
                  /\ unread' = [unread EXCEPT ![c] = @ - n]
                  /\ held' = [held EXCEPT ![c] = n]
             /\ up' = [up EXCEPT ![c] = "send"]
    <3>1. PICK n \in 1 .. Least(MaxRead, unread[c]) :
            /\ unread' = [unread EXCEPT ![c] = unread[c] - n]
            /\ held' = [held EXCEPT ![c] = n]
      BY <2>1
    <3>2. n \in 1 .. MaxRead /\ n <= unread[c]
      <4>1. /\ Least(MaxRead, unread[c]) \in Nat /\ Least(MaxRead, unread[c]) <= MaxRead
            /\ Least(MaxRead, unread[c]) <= unread[c]
        BY <1>2, NetStackConstants, LeastFacts
      <4> QED  BY <1>2, <4>1, NetStackConstants
    <3> QED  BY <2>1, <3>1, <3>2
  <2>2. CASE /\ client[c] = "gone" \/ (client[c] = "eof" /\ unread[c] = 0)
             /\ up' = [up EXCEPT ![c] = "close"]
             /\ UNCHANGED <<unread, held>>
    BY <2>2
  <2> QED  BY <2>1, <2>2 DEF UpRead
<1>4. \A d \in Conns \ {c} : Same(d) /\ Grows(dataIn, dataIn', d)
  BY <1>1, <1>3, GrowsSame DEF NetTypeOK, Same
<1>5. Messages'  BY <1>1 DEF Messages
<1>6. NetTypeOK'
  <2>1. CASE UNCHANGED <<unread, held>> /\ up' = [up EXCEPT ![c] = "close"]
    BY <1>1, <2>1 DEF NetTypeOK
  <2>2. CASE \E n \in 1 .. MaxRead :
               /\ n <= unread[c]
               /\ unread' = [unread EXCEPT ![c] = unread[c] - n]
               /\ held' = [held EXCEPT ![c] = n] /\ up' = [up EXCEPT ![c] = "send"]
    <3>1. PICK n \in 1 .. MaxRead :
               /\ n <= unread[c]
               /\ unread' = [unread EXCEPT ![c] = unread[c] - n]
               /\ held' = [held EXCEPT ![c] = n] /\ up' = [up EXCEPT ![c] = "send"]
      BY <2>2
    <3>2. unread[c] - n \in Nat /\ n \in 0 .. MaxRead  BY <1>2, <3>1, NetStackConstants
    <3> QED  BY <1>1, <3>1, <3>2 DEF NetTypeOK
  <2> QED  BY <1>3, <2>1, <2>2
<1>7. EntryOrder(c)' /\ DownloadKept(c)' /\ FinLast(c)'
  BY <1>1 DEF RelayInv, EntryOrder, DownloadKept, FinLast, Relaying
<1>8. Fresh(c)'  BY <1>1 DEF RelayInv, Fresh
<1>9. UploadTask(c)' /\ UploadKept(c)'
  <2> SUFFICES ASSUME Relaying(c)  PROVE UploadTask(c)' /\ UploadKept(c)'
    BY <1>1 DEF UploadTask, UploadKept, Relaying
  <2>1. /\ held[c] = 0 /\ unread[c] + held[c] <= UpBytes[c]  BY <1>1 DEF RelayInv, UploadTask
  <2>2. /\ up'[c] # "none" /\ up'[c] # "done" /\ (up'[c] # "send" => held'[c] = 0)
        /\ unread'[c] + held'[c] = unread[c] + held[c]
        /\ held'[c] \in Nat /\ unread'[c] \in Nat
        /\ up'[c] = "close" => client[c] = "eof" /\ unread'[c] = 0
    <3>1. CASE \E n \in 1 .. MaxRead :
               /\ n <= unread[c]
               /\ unread' = [unread EXCEPT ![c] = unread[c] - n]
               /\ held' = [held EXCEPT ![c] = n] /\ up' = [up EXCEPT ![c] = "send"]
      <4>1. PICK n \in 1 .. MaxRead :
               /\ n <= unread[c]
               /\ unread' = [unread EXCEPT ![c] = unread[c] - n]
               /\ held' = [held EXCEPT ![c] = n] /\ up' = [up EXCEPT ![c] = "send"]
        BY <3>1
      <4>2. unread'[c] = unread[c] - n /\ held'[c] = n /\ up'[c] = "send"
        BY <4>1, <1>1 DEF NetTypeOK
      <4> QED  BY <4>1, <4>2, <1>2, <2>1, NetStackConstants
    <3>2. CASE /\ client[c] = "gone" \/ (client[c] = "eof" /\ unread[c] = 0)
               /\ up' = [up EXCEPT ![c] = "close"] /\ UNCHANGED <<unread, held>>
      <4>1. up'[c] = "close"  BY <3>2, <1>1 DEF NetTypeOK
      <4> QED  BY <3>2, <4>1, <2>1, <1>2 DEF Relaying
    <3> QED  BY <1>3, <3>1, <3>2
  <2>3. UploadTask(c)'  BY <1>1, <1>2, <2>1, <2>2 DEF UploadTask
  <2>4. UpBytes[c] - unread'[c] - held'[c] = UpBytes[c] - unread[c] - held[c]
    BY <1>2, <2>2
  <2>5. DeferredSize(c)' = DeferredSize(c)  BY <1>1 DEF DeferredSize
  <2>6. UploadKept(c)'
    BY <1>1, <2>4, <2>5 DEF RelayInv, UploadKept, Relaying
  <2> QED  BY <2>3, <2>6
<1>10. RelayInv(c)'  BY <1>7, <1>8, <1>9 DEF RelayInv
<1> QED  BY <1>1, <1>4, <1>5, <1>6, <1>10, OneMoves

\* What was read goes to the end of data_in.
LEMMA UpSendInv == ASSUME NetInv, NEW c \in Conns, UpSend(c)  PROVE NetInv'
<1> DEFINE m == DataMsg(c, held[c])
           L == Len(dataIn)
<1>1. /\ NetTypeOK /\ Messages /\ RelayInv(c) /\ up[c] = "send"
      /\ held' = [held EXCEPT ![c] = 0]
      /\ UNCHANGED <<stack, conn, deferred, handler, unread, client, got, server>>
      /\ \/ stack = "ended" /\ up' = [up EXCEPT ![c] = "done"] /\ dataIn' = dataIn
         \/ L < QueueSize /\ dataIn' = Append(dataIn, m) /\ up' = [up EXCEPT ![c] = "read"]
  BY DEF NetInv, UpSend
<1>2. /\ held[c] \in Nat /\ unread[c] \in Nat /\ UpBytes[c] \in Nat /\ held[c] \in 0 .. MaxRead
      /\ dataIn \in Seq(Message) /\ L \in Nat
  BY <1>1, Counts DEF NetTypeOK
<1>3. m \in Message /\ m.id = c /\ m.kind = "data" /\ m.size = held[c]  BY <1>2, MessageTypes
<1>4. held'[c] = 0 /\ up'[c] \in {"done", "read"} /\ (up'[c] = "done" => stack = "ended")
  BY <1>1 DEF NetTypeOK
<1>5. /\ dataIn' \in Seq(Message) /\ Len(dataIn') <= QueueSize
      /\ \A d \in Conns \ {c} : Grows(dataIn, dataIn', d)
      /\ dataIn' = dataIn \/ dataIn' = Append(dataIn, m)
  <2>1. CASE dataIn' = dataIn  BY <1>1, <2>1, GrowsSame DEF NetTypeOK
  <2>2. CASE L < QueueSize /\ dataIn' = Append(dataIn, m)
    <3> HIDE DEF m
    <3>1. dataIn' \in Seq(Message) /\ Len(dataIn') = L + 1  BY <1>2, <1>3, <2>2
    <3>2. L + 1 <= QueueSize  BY <1>2, <2>2, NetStackConstants
    <3>3. \A d \in Conns \ {c} : Grows(dataIn, Append(dataIn, m), d)
      BY <1>2, <1>3, GrowsAppend
    <3> QED  BY <2>2, <3>1, <3>2, <3>3
  <2> QED  BY <1>1, <2>1, <2>2
<1>6. Messages'
  <2> HIDE DEF m
  <2> QED  BY <1>1, <1>3, <1>5, MessagesAppend
<1>7. NetTypeOK'
  <2>1. 0 \in 0 .. MaxRead  BY NetStackConstants
  <2>2. up' \in [Conns -> {"none", "read", "send", "close", "done"}]  BY <1>1 DEF NetTypeOK
  <2>3. held' \in [Conns -> 0 .. MaxRead]  BY <1>1, <2>1 DEF NetTypeOK
  <2> QED  BY <1>1, <1>5, <2>2, <2>3 DEF NetTypeOK
<1>8. \A d \in Conns \ {c} : Same(d)  BY <1>1 DEF NetTypeOK, Same
<1>9. EntryOrder(c)' /\ DownloadKept(c)' /\ FinLast(c)'
  BY <1>1 DEF RelayInv, EntryOrder, DownloadKept, FinLast, Relaying
<1>10. Fresh(c)'  BY <1>1 DEF RelayInv, Fresh
<1>11. UploadTask(c)'
  <2>1. unread[c] + held[c] <= UpBytes[c] => unread[c] + 0 <= UpBytes[c]  BY <1>2
  <2> QED  BY <1>1, <1>4, <2>1 DEF RelayInv, UploadTask, Relaying, EntryOrder
<1>12. UploadKept(c)'
  <2> SUFFICES ASSUME Relaying(c), conn[c].entry  PROVE UploadKept(c)'
    BY <1>1 DEF UploadKept, Relaying
  <2> DEFINE f == server[c].recv + conn[c].tx + conn[c].pending + DeferredSize(c)
             t == UpBytes[c] - unread[c] - held[c]
  <2>1. stack # "ended"  BY <1>1 DEF RelayInv, EntryOrder
  <2>2. dataIn' = Append(dataIn, m)  BY <1>1, <2>1
  <2>3. /\ Tally(c, dataIn, f, t) /\ ~conn[c].half
        /\ \A i \in 1 .. Len(dataIn) : ~IsClose(c, dataIn[i])
    BY <1>1 DEF RelayInv, UploadKept
  <2>4. f \in Nat /\ t \in Nat /\ t + held[c] = UpBytes[c] - unread[c] - 0
    <3>1. f \in Nat  BY <1>1, UpSum
    <3>2. unread[c] + held[c] <= UpBytes[c]  BY <1>1 DEF RelayInv, UploadTask
    <3>3. unread[c] \in Nat /\ held[c] \in Nat /\ UpBytes[c] \in Nat  BY <1>2
    <3> HIDE DEF f
    <3> QED  BY <3>1, <3>2, <3>3
  <2>5. Tally(c, dataIn', f, t + held[c])
    <3> HIDE DEF f, t
    <3> QED  BY <1>2, <2>2, <2>3, <2>4, TallyData
  <2>6. DeferredSize(c)' = DeferredSize(c)  BY <1>1 DEF DeferredSize
  <2>7. Tally(c, dataIn', f', UpBytes[c] - unread'[c] - held'[c])
    BY <1>1, <1>4, <2>4, <2>5, <2>6
  <2>8. \A i \in 1 .. Len(dataIn') : ~IsClose(c, dataIn'[i])
    <3> HIDE DEF m
    <3>1. /\ Len(dataIn') = L + 1 /\ dataIn'[L + 1] = m
          /\ \A i \in 1 .. L : dataIn'[i] = dataIn[i]
      BY <1>2, <1>3, <2>2
    <3>2. \A i \in 1 .. L + 1 : i \in 1 .. L \/ i = L + 1  BY <1>2
    <3>3. ~IsClose(c, m)  BY <1>3 DEF IsClose
    <3> QED  BY <2>3, <3>1, <3>2, <3>3
  <2> QED  BY <1>1, <2>3, <2>7, <2>8 DEF UploadKept
<1>13. RelayInv(c)'  BY <1>9, <1>10, <1>11, <1>12 DEF RelayInv
<1> QED  BY <1>1, <1>5, <1>6, <1>7, <1>8, <1>13, OneMoves

\* The close goes in after everything that was sent, once or twice.
LEMMA UpCloseInv == ASSUME NetInv, NEW c \in Conns, UpClose(c)  PROVE NetInv'
<1> DEFINE m == CloseMsg(c)
           L == Len(dataIn)
<1>1. /\ NetTypeOK /\ Messages /\ RelayInv(c) /\ up[c] = "close"
      /\ up' = [up EXCEPT ![c] = "done"]
      /\ UNCHANGED <<stack, conn, deferred, handler, held, unread, client, got, server>>
      /\ \/ dataIn' = dataIn /\ stack = "ended"
         \/ L < QueueSize /\ dataIn' = TrySend(Append(dataIn, m), m)
  BY DEF NetInv, UpClose
<1>2. /\ dataIn \in Seq(Message) /\ L \in Nat /\ L <= QueueSize /\ up'[c] = "done"
  BY <1>1 DEF NetTypeOK
<1>3. m \in Message /\ m.id = c /\ m.kind = "close" /\ m.size = 0  BY MessageTypes
<1> HIDE DEF m
<1>4. /\ dataIn' \in Seq(Message) /\ Len(dataIn') <= QueueSize /\ L <= Len(dataIn')
      /\ \A i \in 1 .. L : dataIn'[i] = dataIn[i]
      /\ \A i \in 1 .. Len(dataIn') : i > L => dataIn'[i] = m
  <2>1. CASE dataIn' = dataIn  BY <1>2, <2>1
  <2>2. CASE L < QueueSize /\ dataIn' = TrySend(Append(dataIn, m), m)
    <3> DEFINE p == Append(dataIn, m)
    <3>1. /\ p \in Seq(Message) /\ Len(p) = L + 1 /\ p[L + 1] = m
          /\ \A i \in 1 .. L : p[i] = dataIn[i]
      BY <1>2, <1>3
    <3>2. L + 1 <= QueueSize /\ L + 1 \in Nat  BY <1>2, <2>2, NetStackConstants
    <3> HIDE DEF p
    <3>3. dataIn' = IF L + 1 < QueueSize THEN Append(p, m) ELSE p
      BY <2>2, <3>1 DEF TrySend, p
    <3>4. CASE L + 1 < QueueSize
      <4>1. /\ Append(p, m) \in Seq(Message) /\ Len(Append(p, m)) = L + 2
            /\ Append(p, m)[L + 2] = m /\ \A i \in 1 .. L + 1 : Append(p, m)[i] = p[i]
        <5>1. Len(p) + 1 = L + 2  BY <3>1, <1>2
        <5> QED  BY <1>3, <3>1, <5>1
      <4>2. dataIn' = Append(p, m)  BY <3>3, <3>4
      <4>3. L + 2 <= QueueSize  BY <3>4, <1>2, NetStackConstants
      <4>4. \A i \in 1 .. L + 2 : i > L => i = L + 1 \/ i = L + 2  BY <1>2
      <4>5. L <= L + 2 /\ \A i \in 1 .. L : i \in 1 .. L + 1  BY <1>2
      <4>6. L + 1 \in 1 .. L + 1  BY <1>2
      <4> QED  BY <3>1, <4>1, <4>2, <4>3, <4>4, <4>5, <4>6
    <3>5. CASE ~(L + 1 < QueueSize)
      <4>1. \A i \in 1 .. L + 1 : i > L => i = L + 1  BY <1>2
      <4>2. L <= L + 1  BY <1>2
      <4> QED  BY <3>1, <3>2, <3>3, <3>5, <4>1, <4>2
    <3> QED  BY <3>4, <3>5
  <2> QED  BY <1>1, <2>1, <2>2
<1>5. \A i \in 1 .. Len(dataIn') : i \in 1 .. L \/ i > L  BY <1>2, <1>4
<1>6. Messages'  BY <1>1, <1>3, <1>4, <1>5 DEF Messages
<1>7. NetTypeOK'  BY <1>1, <1>4 DEF NetTypeOK
<1>8. \A d \in Conns \ {c} : Same(d) /\ Grows(dataIn, dataIn', d)
  BY <1>1, <1>2, <1>3, <1>4 DEF NetTypeOK, Same, Grows
<1>9. EntryOrder(c)' /\ DownloadKept(c)' /\ FinLast(c)'
  BY <1>1 DEF RelayInv, EntryOrder, DownloadKept, FinLast, Relaying
<1>10. Fresh(c)'  BY <1>1 DEF RelayInv, Fresh
<1>11. UploadTask(c)'  BY <1>1, <1>2 DEF RelayInv, UploadTask, Relaying
<1>12. UploadKept(c)'
  <2> SUFFICES ASSUME Relaying(c), conn[c].entry  PROVE UploadKept(c)'
    BY <1>1 DEF UploadKept, Relaying
  <2> DEFINE f == server[c].recv + conn[c].tx + conn[c].pending + DeferredSize(c)
             t == UpBytes[c] - unread[c] - held[c]
  <2>1. /\ Tally(c, dataIn, f, t) /\ ~conn[c].half
        /\ \A i \in 1 .. Len(dataIn) : ~IsClose(c, dataIn[i])
    BY <1>1 DEF RelayInv, UploadKept
  <2>2. f \in Nat /\ t \in Nat
    <3>1. f \in Nat  BY <1>1, UpSum
    <3>2. unread[c] + held[c] <= UpBytes[c]  BY <1>1 DEF RelayInv, UploadTask
    <3>3. unread[c] \in Nat /\ held[c] \in Nat /\ UpBytes[c] \in Nat  BY <1>1, Counts
    <3> QED  BY <3>1, <3>2, <3>3
  <2>3. \A i \in 1 .. Len(dataIn') : i > L => SizeFor(c, dataIn'[i]) = 0
    BY <1>3, <1>4 DEF SizeFor
  <2>4. Tally(c, dataIn', f, t)
    <3> HIDE DEF f, t
    <3> QED  BY <1>2, <1>4, <2>1, <2>2, <2>3, TallyExtended
  <2>5. DeferredSize(c)' = DeferredSize(c)  BY <1>1 DEF DeferredSize
  <2>6. Tally(c, dataIn', f', t')  BY <1>1, <2>4, <2>5
  <2>7. ASSUME NEW i \in 1 .. Len(dataIn'), IsClose(c, dataIn'[i]),
               NEW j \in 1 .. Len(dataIn'), j > i
        PROVE  ~IsData(c, dataIn'[j])
    <3>1. i > L  BY <1>4, <1>5, <2>1, <2>7
    <3>2. j > L  BY <1>2, <2>7, <3>1
    <3> QED  BY <1>3, <1>4, <3>2 DEF IsData
  <2> QED  BY <1>1, <1>2, <2>1, <2>6, <2>7 DEF UploadKept
<1>13. RelayInv(c)'  BY <1>9, <1>10, <1>11, <1>12 DEF RelayInv
<1> QED  BY <1>1, <1>6, <1>7, <1>8, <1>13, OneMoves

\* A chunk goes from the channel to the client.
LEMMA DownWriteInv == ASSUME NetInv, NEW c \in Conns, DownWrite(c)  PROVE NetInv'
<1> DEFINE r == conn[c]
<1>1. /\ NetTypeOK /\ Messages /\ RelayInv(c) /\ r.toApp # <<>> /\ handler[c] = "relay"
      /\ got' = [got EXCEPT ![c] = got[c] + Head(r.toApp)]
      /\ conn' = [conn EXCEPT ![c] = [r EXCEPT !.toApp = Tail(r.toApp)]]
      /\ UNCHANGED <<stack, dataIn, deferred, handler, up, held, unread, client, server>>
  BY DEF NetInv, DownWrite, NetTypeOK, ConnType
<1>2. /\ r \in ConnType /\ r.toApp \in Seq(1 .. TcpBuf) /\ r.toApp \in Seq(Nat) /\ got[c] \in Nat
      /\ r.rx \in Nat /\ server[c].sent \in Nat /\ Len(r.toApp) <= QueueSize
  BY <1>1, Counts DEF NetTypeOK
<1>3. /\ Tail(r.toApp) \in Seq(1 .. TcpBuf) /\ Head(r.toApp) \in 1 .. TcpBuf
      /\ Len(Tail(r.toApp)) = Len(r.toApp) - 1 /\ Len(r.toApp) \in Nat
  <2> HIDE DEF r
  <2> QED  BY <1>1, <1>2, HeadTailProperties, LenProperties
<1>4. Len(Tail(r.toApp)) <= QueueSize /\ got[c] + Head(r.toApp) \in Nat
  <2> DEFINE w == Len(r.toApp)
             x == Head(r.toApp)
  <2>1. w \in Nat /\ w <= QueueSize /\ Len(Tail(r.toApp)) = w - 1 /\ x \in 1 .. TcpBuf
    BY <1>2, <1>3
  <2> HIDE DEF w, x
  <2>2. w - 1 <= QueueSize /\ got[c] + x \in Nat  BY SMTT(60), <1>2, <2>1, NetStackConstants
  <2> QED  BY <2>1, <2>2 DEF x
<1>5. conn'[c] = [r EXCEPT !.toApp = Tail(r.toApp)] /\ got'[c] = got[c] + Head(r.toApp)
  BY <1>1 DEF NetTypeOK
<1>6. conn'[c] \in ConnType  BY <1>2, <1>3, <1>5 DEF ConnType
<1>7. /\ conn'[c].sock = r.sock /\ conn'[c].entry = r.entry /\ conn'[c].half = r.half
      /\ conn'[c].tx = r.tx /\ conn'[c].rx = r.rx /\ conn'[c].pending = r.pending
      /\ conn'[c].toApp = Tail(r.toApp) /\ conn'[c].established = r.established
      /\ conn'[c].answer = r.answer /\ conn'[c].cut = r.cut
  BY <1>2, <1>5 DEF ConnType
<1>8. NetTypeOK'
  <2>1. conn' \in [Conns -> ConnType]  BY <1>1, <1>5, <1>6 DEF NetTypeOK
  <2>2. got' \in [Conns -> Nat]  BY <1>1, <1>4 DEF NetTypeOK
  <2>3. \A d \in Conns : Len(conn'[d].toApp) <= QueueSize
    BY <1>1, <1>4, <1>7 DEF NetTypeOK
  <2> QED  BY <1>1, <2>1, <2>2, <2>3 DEF NetTypeOK
<1>9. Messages'  BY <1>1 DEF Messages
<1>10. \A d \in Conns : d # c => Same(d)
  BY <1>1 DEF NetTypeOK, Same
<1>11. \A d \in Conns : Grows(dataIn, dataIn', d)  BY <1>1, GrowsSame DEF NetTypeOK
<1>12. Taken(c)' = Taken(c) /\ DeferredSize(c)' = DeferredSize(c) /\ Relaying(c)' = Relaying(c)
  BY <1>1, <1>7 DEF Taken, DeferredSize, Relaying
<1>13. UploadKept(c)'  BY <1>1, <1>7, <1>11, <1>12, UploadCarried
<1>14. EntryOrder(c)' /\ Fresh(c)' /\ UploadTask(c)' /\ FinLast(c)'
  BY <1>1, <1>7 DEF RelayInv, EntryOrder, Fresh, UploadTask, FinLast, Relaying
<1>15. DownloadKept(c)'
  <2> DEFINE t == server[c].sent - r.rx
  <2>1. ASSUME ~r.cut
        PROVE  r.rx <= server[c].sent /\ Carries(Tail(r.toApp), got[c] + Head(r.toApp), t)
    <3>1. r.rx <= server[c].sent /\ Carries(r.toApp, got[c], t)
      BY <1>1, <2>1 DEF RelayInv, DownloadKept
    <3>2. t \in Nat  BY <1>2, <3>1
    <3> HIDE DEF t, r
    <3> QED  BY <1>1, <1>2, <3>1, <3>2, CarriesTail
  <2> QED  BY <1>1, <1>5, <1>7, <2>1 DEF DownloadKept
<1>16. RelayInv(c)'  BY <1>13, <1>14, <1>15 DEF RelayInv
<1> QED  BY <1>1, <1>8, <1>9, <1>10, <1>11, <1>16, OneMoves

\* The relay ends: with a client that is still there, at the end of its download.
LEMMA DownEndsInv == ASSUME NetInv, NEW c \in Conns, DownEnds(c)  PROVE NetInv'
<1>1. /\ NetTypeOK /\ Messages /\ RelayInv(c)
      /\ \/ conn[c].toApp = <<>> /\ ~conn[c].entry
         \/ client[c] = "gone"
      /\ handler' = [handler EXCEPT ![c] = "done"] /\ up' = [up EXCEPT ![c] = "done"]
      /\ held' = [held EXCEPT ![c] = 0]
      /\ UNCHANGED <<stack, conn, deferred, unread, client, got, server>>
      /\ dataIn' = dataIn \/ dataIn' = TrySend(dataIn, CloseMsg(c))
  BY DEF NetInv, DownEnds
<1>2. handler'[c] = "done"  BY <1>1 DEF NetTypeOK
<1>3. /\ dataIn' \in Seq(Message) /\ Len(dataIn') <= QueueSize
      /\ \A d \in Conns \ {c} : Grows(dataIn, dataIn', d)
      /\ dataIn' = dataIn \/ dataIn' = Append(dataIn, CloseMsg(c))
  BY <1>1, TrySendFacts, GrowsSame DEF NetTypeOK
<1>4. NetTypeOK'
  <2>1. 0 \in 0 .. MaxRead  BY NetStackConstants
  <2> QED  BY <1>1, <1>3, <2>1 DEF NetTypeOK
<1>5. Messages'  BY <1>1, <1>3, MessagesAppend, MessageTypes
<1>6. \A d \in Conns \ {c} : Same(d)  BY <1>1 DEF NetTypeOK, Same
<1>7. RelayInv(c)'
  BY <1>1, <1>2 DEF RelayInv, EntryOrder, DownloadKept, Fresh, UploadTask, UploadKept,
     FinLast, Relaying
<1> QED  BY <1>1, <1>3, <1>4, <1>5, <1>6, <1>7, OneMoves

LEMMA ClientEndsInv == ASSUME NetInv, NEW c \in Conns, ClientEnds(c)  PROVE NetInv'
<1>1. /\ NetTypeOK /\ Messages /\ RelayInv(c) /\ client[c] # "gone" /\ handler[c] = "relay"
      /\ UNCHANGED <<stack, conn, dataIn, deferred, handler, up, held, unread, got, server>>
  BY DEF NetInv, ClientEnds
<1>2. PICK s \in {"eof"} \cup IF c \in Rough THEN {"gone"} ELSE {} :
        client' = [client EXCEPT ![c] = s]
  BY DEF ClientEnds
<1>3. s \in {"eof", "gone"} /\ client'[c] = s  BY <1>1, <1>2 DEF NetTypeOK
<1>4. NetTypeOK' /\ Messages'  BY <1>1, <1>2, <1>3 DEF NetTypeOK, Messages
<1>5. \A d \in Conns \ {c} : Same(d)  BY <1>1, <1>2 DEF NetTypeOK, Same
<1>6. \A d \in Conns : Grows(dataIn, dataIn', d)  BY <1>1, GrowsSame DEF NetTypeOK
<1>7. Taken(c)' = Taken(c) /\ DeferredSize(c)' = DeferredSize(c) /\ Relaying(c)
  BY <1>1 DEF Taken, DeferredSize, Relaying
<1>8. UploadKept(c)'  BY <1>1, <1>6, <1>7, UploadCarried
<1>9. EntryOrder(c)' /\ Fresh(c)' /\ DownloadKept(c)'
  BY <1>1, <1>3 DEF RelayInv, EntryOrder, Fresh, DownloadKept
<1>10. UploadTask(c)' /\ FinLast(c)'
  BY <1>1, <1>3, <1>7 DEF RelayInv, UploadTask, FinLast, Relaying
<1>11. RelayInv(c)'  BY <1>8, <1>9, <1>10 DEF RelayInv
<1> QED  BY <1>1, <1>4, <1>5, <1>6, <1>11, OneMoves

-----------------------------------------------------------------------------
(* The task of the stack. *)

LEMMA OpenTcpInv == ASSUME NetInv, NEW c \in Conns, OpenTcp(c)  PROVE NetInv'
<1> DEFINE r == conn[c]
<1>1. /\ NetTypeOK /\ Messages /\ RelayInv(c) /\ r \in ConnType
      /\ stack = "select" /\ stack' = "opened" /\ r.answer = "none"
      /\ handler[c] \in {"opening", "failed"}
      /\ UNCHANGED <<dataIn, deferred, relay, server>>
      /\ \/ conn' = [conn EXCEPT ![c] = [r EXCEPT !.answer = "refused"]]
         \/ conn' = [conn EXCEPT ![c] = [r EXCEPT !.sock = "SynSent", !.entry = TRUE,
                                                  !.answer = "waiting"]]
  BY DEF NetInv, OpenTcp, NetTypeOK, ConnType
<1>2. conn' = [conn EXCEPT ![c] = conn'[c]]  BY <1>1 DEF NetTypeOK
<1>3. /\ conn'[c] \in ConnType
      /\ conn'[c].half = r.half /\ conn'[c].answer # "none"
      /\ conn'[c].tx = r.tx /\ conn'[c].rx = r.rx /\ conn'[c].pending = r.pending
      /\ conn'[c].toApp = r.toApp /\ conn'[c].established = r.established
      /\ conn'[c].cut = r.cut
      /\ \/ conn'[c].entry = r.entry /\ conn'[c].sock = r.sock
         \/ conn'[c].entry /\ conn'[c].sock = "SynSent"
  <2>1. CASE conn'[c] = [r EXCEPT !.answer = "refused"]
    BY <1>1, <2>1 DEF ConnType
  <2>2. CASE conn'[c] = [r EXCEPT !.sock = "SynSent", !.entry = TRUE, !.answer = "waiting"]
    BY <1>1, <2>2 DEF ConnType, SockStates
  <2> QED  BY <1>1, <2>1, <2>2 DEF NetTypeOK
<1> USE DEF relay
<1>4. NetTypeOK'
  <2>1. conn \in [Conns -> ConnType] /\ \A d \in Conns : Len(conn[d].toApp) <= QueueSize
    BY <1>1 DEF NetTypeOK
  <2>2. conn'[c] \in ConnType /\ Len(conn'[c].toApp) <= QueueSize  BY <1>3, <2>1
  <2>3. conn' \in [Conns -> ConnType]  BY <1>2, <2>1, <2>2
  <2>4. \A d \in Conns : Len(conn'[d].toApp) <= QueueSize  BY <1>2, <2>1, <2>2
  <2> QED  BY <1>1, <2>3, <2>4 DEF NetTypeOK
<1>5. Messages'  BY <1>1 DEF Messages
<1>6. \A d \in Conns \ {c} : Same(d)  BY <1>1, <1>2 DEF NetTypeOK, Same
<1>7. \A d \in Conns : Grows(dataIn, dataIn', d)  BY <1>1, GrowsSame DEF NetTypeOK
<1>8. EntryOrder(c)' /\ Fresh(c)' /\ UploadTask(c)' /\ UploadKept(c)' /\ FinLast(c)'
  BY <1>1, <1>3 DEF RelayInv, EntryOrder, Fresh, UploadTask, UploadKept, FinLast, Relaying
<1>9. DownloadKept(c)'  BY <1>1, <1>3 DEF RelayInv, DownloadKept
<1>10. RelayInv(c)'  BY <1>8, <1>9 DEF RelayInv
<1> QED  BY <1>1, <1>4, <1>5, <1>6, <1>7, <1>10, OneMoves

\* Everything the task owns goes with it.
LEMMA RunReturnsInv == ASSUME NetInv, RunReturns  PROVE NetInv'
<1>1. /\ NetTypeOK /\ Messages /\ stack' = "ended" /\ dataIn' = <<>> /\ deferred' = <<>>
      /\ UNCHANGED <<relay, server>>
  BY DEF NetInv, RunReturns
<1>2. ASSUME NEW c \in Conns
      PROVE  /\ conn'[c] \in ConnType
             /\ ~conn'[c].entry /\ conn'[c].rx = 0 /\ conn'[c].pending = 0 /\ conn'[c].tx = 0
             /\ conn'[c].sock \in {"none", "Closed"} /\ conn'[c].answer # "none"
             /\ conn'[c].half = conn[c].half /\ conn'[c].toApp = conn[c].toApp
             /\ conn'[c].cut <=> conn[c].cut \/ conn[c].entry
             /\ conn[c].sock # "none" => conn'[c].sock = "Closed"
  <2> DEFINE r == conn[c]
             k == r.cut \/ r.entry
             x == IF r.sock = "none" THEN r.sock ELSE "Closed"
             a == IF r.answer \in {"none", "waiting"} THEN "dropped" ELSE r.answer
  <2>1. r \in ConnType  BY <1>1 DEF NetTypeOK
  <2>2. conn'[c] = [r EXCEPT !.entry = FALSE, !.pending = 0, !.tx = 0, !.rx = 0,
                             !.cut = k, !.sock = x, !.answer = a]
    BY <2>1 DEF RunReturns, ConnType
  <2>3. /\ k \in BOOLEAN /\ x \in {"none", "Closed"} /\ a # "none"
        /\ a \in {"waiting", "ok", "refused", "dropped"}
    BY <2>1 DEF ConnType
  <2>4. r.sock # "none" => x = "Closed"  OBVIOUS
  <2>5. 0 \in 0 .. MaxPending /\ 0 \in 0 .. TcpBuf  BY NetStackConstants
  <2>6. k <=> r.cut \/ r.entry  OBVIOUS
  <2> HIDE DEF k, x, a
  <2>7. conn'[c] \in ConnType  BY <2>1, <2>2, <2>3, <2>5 DEF ConnType, SockStates
  <2>8. /\ ~conn'[c].entry /\ conn'[c].rx = 0 /\ conn'[c].pending = 0 /\ conn'[c].tx = 0
        /\ conn'[c].sock = x /\ conn'[c].answer = a /\ conn'[c].cut = k
        /\ conn'[c].half = r.half /\ conn'[c].toApp = r.toApp
    BY <2>1, <2>2 DEF ConnType
  <2> QED  BY <2>3, <2>4, <2>6, <2>7, <2>8
<1> USE DEF relay
<1>3. NetTypeOK'
  <2>1. conn' \in [Conns -> ConnType]
    <3>1. DOMAIN conn' = Conns /\ conn' = [c \in Conns |-> conn'[c]]  BY DEF RunReturns
    <3> QED  BY <1>2, <3>1
  <2>2. \A c \in Conns : Len(conn'[c].toApp) <= QueueSize  BY <1>1, <1>2 DEF NetTypeOK
  <2>3. Len(<<>>) = 0 /\ 0 <= QueueSize /\ 0 <= 1  BY NetStackConstants
  <2> QED  BY <1>1, <2>1, <2>2, <2>3 DEF NetTypeOK
<1>4. Messages'  BY <1>1 DEF Messages
<1>5. ASSUME NEW c \in Conns  PROVE RelayInv(c)'
  <2>1. RelayInv(c)  BY DEF NetInv
  <2>2. EntryOrder(c)'  BY <1>1, <1>2 DEF EntryOrder
  <2>3. Fresh(c)'
    <3>1. \A i \in 1 .. Len(dataIn') : dataIn'[i].id # c  BY <1>1
    <3> QED  BY <1>1, <1>2, <2>1, <3>1 DEF RelayInv, Fresh
  <2>4. UploadTask(c)' /\ UploadKept(c)'
    BY <1>1, <1>2, <2>1 DEF RelayInv, UploadTask, UploadKept, Relaying
  <2>5. FinLast(c)'
    <3> SUFFICES ASSUME Relaying(c), ~server[c].fin
                 PROVE  server[c].sawFin => /\ client[c] = "eof" /\ server[c].recv = UpBytes[c]
                                            /\ conn'[c].sock = "Closed"
      BY <1>1, <1>2 DEF FinLast, Relaying
    <3>1. server[c].sawFin => /\ client[c] = "eof" /\ server[c].recv = UpBytes[c]
                              /\ conn[c].sock \in {"FinWait2", "Closed"}
      BY <2>1 DEF RelayInv, FinLast
    <3> QED  BY <3>1, <1>2
  <2>6. DownloadKept(c)'
    <3>1. ~conn'[c].cut => ~conn[c].cut /\ ~conn[c].entry /\ conn[c].rx = 0
      BY <1>2, <2>1 DEF RelayInv, EntryOrder
    <3> QED  BY <1>1, <1>2, <2>1, <3>1 DEF RelayInv, DownloadKept
  <2> QED  BY <2>2, <2>3, <2>4, <2>5, <2>6 DEF RelayInv
<1> QED  BY <1>3, <1>4, <1>5 DEF NetInv

\* try_handle_data takes a message, or the part of it that fits.
LEMMA HandleFacts ==
  ASSUME NEW r \in ConnType, NEW m \in Message
  PROVE  LET h == Handle(r, m) IN
         /\ h.r \in ConnType
         /\ h.r.sock = r.sock /\ h.r.entry = r.entry /\ h.r.established = r.established
         /\ h.r.tx = r.tx /\ h.r.rx = r.rx /\ h.r.toApp = r.toApp
         /\ h.r.answer = r.answer /\ h.r.cut = r.cut
         /\ \/ h.back = <<>>
            \/ m.kind = "data" /\ \E k \in 0 .. MaxRead : h.back = <<DataMsg(m.id, k)>>
         /\ ~r.entry => h.r = r /\ h.back = <<>>
         /\ r.entry /\ m.kind = "close" =>
              h.r.half /\ h.r.pending = r.pending /\ h.back = <<>>
         /\ r.entry /\ m.kind = "data" =>
              /\ h.r.half = r.half
              /\ h.r.pending + (IF h.back = <<>> THEN 0 ELSE h.back[1].size)
                   = r.pending + m.size
<1> DEFINE h == Handle(r, m)
<1>1. /\ r.pending \in 0 .. MaxPending /\ m.size \in 0 .. MaxRead /\ m.kind \in {"data", "close"}
      /\ r.pending \in Nat
  BY NetStackConstants DEF ConnType, Message
<1>2. CASE ~r.entry
  <2>1. h = [r |-> r, back |-> <<>>]  BY <1>2 DEF Handle
  <2> QED  BY <1>2, <2>1
<1>3. CASE r.entry /\ m.kind = "close"
  <2>1. h = [r |-> [r EXCEPT !.half = TRUE], back |-> <<>>]  BY <1>3 DEF Handle
  <2>2. h.r = [r EXCEPT !.half = TRUE] /\ h.back = <<>>  BY <2>1
  <2> QED  BY ZenonT(60), <1>3, <2>2 DEF ConnType
<1>4. CASE r.entry /\ m.kind = "data"
  <2> DEFINE n == Least(m.size, MaxPending - r.pending)
             b == IF n = m.size THEN <<>> ELSE <<DataMsg(m.id, m.size - n)>>
  <2>1. n \in Nat /\ n <= m.size /\ n <= MaxPending - r.pending
    <3>1. m.size \in Nat /\ MaxPending - r.pending \in Nat  BY <1>1, NetStackConstants
    <3> QED  BY <3>1, LeastFacts
  <2>2. h = [r |-> [r EXCEPT !.pending = r.pending + n], back |-> b]
    BY <1>4 DEF Handle
  <2> HIDE DEF n
  <2>3. r.pending + n \in 0 .. MaxPending /\ m.size - n \in 0 .. MaxRead
    BY <1>1, <2>1, NetStackConstants
  <2>4. h.r = [r EXCEPT !.pending = r.pending + n] /\ h.back = b  BY <2>2
  <2>5. h.r \in ConnType  BY <2>3, <2>4 DEF ConnType
  <2>6. h.r.pending = r.pending + n  BY <2>4 DEF ConnType
  <2>7. IF b = <<>> THEN n = m.size
        ELSE n # m.size /\ b = <<DataMsg(m.id, m.size - n)>> /\ b[1].size = m.size - n
    BY DEF DataMsg
  <2>8. h.r.pending + (IF h.back = <<>> THEN 0 ELSE h.back[1].size) = r.pending + m.size
    <3> HIDE DEF b
    <3>1. CASE b = <<>>  BY <3>1, <2>4, <2>6, <2>7, <2>1, <1>1, NetStackConstants
    <3>2. CASE b # <<>>
      <4>1. h.back[1].size = m.size - n  BY <3>2, <2>4, <2>7
      <4> QED  BY <3>2, <4>1, <2>4, <2>6, <2>1, <1>1, NetStackConstants
    <3> QED  BY <3>1, <3>2
  <2>9. h.back = <<>> \/ \E k \in 0 .. MaxRead : h.back = <<DataMsg(m.id, k)>>
    BY <2>3, <2>4
  <2> QED  BY <1>4, <2>4, <2>5, <2>8, <2>9 DEF ConnType
<1> QED  BY <1>1, <1>2, <1>3, <1>4

\* A message leaves data_in for the connection it is for.
LEMMA TakeDataInv == ASSUME NetInv, TakeData  PROVE NetInv'
<1> DEFINE m == Head(dataIn)
           e == m.id
           h == Handle(conn[e], m)
<1>1. /\ NetTypeOK /\ Messages /\ deferred = <<>> /\ dataIn # <<>>
      /\ conn' = [conn EXCEPT ![e] = h.r] /\ deferred' = h.back
      /\ dataIn' = Tail(dataIn) /\ stack' = "drain" /\ stack # "ended"
      /\ UNCHANGED <<relay, server>>
  BY DEF NetInv, TakeData
<1>2. /\ dataIn \in Seq(Message) /\ Len(dataIn) \in Nat \ {0} /\ m \in Message /\ m = dataIn[1]
      /\ dataIn' \in Seq(Message) /\ Len(dataIn') = Len(dataIn) - 1
      /\ \A i \in 1 .. Len(dataIn') : dataIn'[i] = dataIn[i + 1]
  BY <1>1, HeadTailProperties, LenProperties DEF NetTypeOK
<1>3. e \in Conns /\ conn[e] \in ConnType /\ m.kind \in {"data", "close"} /\ m.size \in Nat
  BY SMTT(60), <1>1, <1>2, NetStackConstants DEF NetTypeOK, Message
<1>4. m.kind = "close" => m.size = 0  BY <1>1, <1>2 DEF Messages
<1>5. /\ h.r \in ConnType
      /\ h.r.sock = conn[e].sock /\ h.r.entry = conn[e].entry
      /\ h.r.established = conn[e].established
      /\ h.r.tx = conn[e].tx /\ h.r.rx = conn[e].rx /\ h.r.toApp = conn[e].toApp
      /\ h.r.answer = conn[e].answer /\ h.r.cut = conn[e].cut
      /\ \/ h.back = <<>>
         \/ m.kind = "data" /\ \E k \in 0 .. MaxRead : h.back = <<DataMsg(e, k)>>
      /\ ~conn[e].entry => h.r = conn[e] /\ h.back = <<>>
      /\ conn[e].entry /\ m.kind = "close" =>
           h.r.half /\ h.r.pending = conn[e].pending /\ h.back = <<>>
      /\ conn[e].entry /\ m.kind = "data" =>
           /\ h.r.half = conn[e].half
           /\ h.r.pending + (IF h.back = <<>> THEN 0 ELSE h.back[1].size)
                = conn[e].pending + m.size
  <2> HIDE DEF m
  <2> QED  BY ZenonT(60), <1>2, <1>3, HandleFacts
<1> HIDE DEF m, h
<1>6. conn'[e] = h.r /\ \A d \in Conns : d # e => conn'[d] = conn[d]
  BY <1>1, <1>3 DEF NetTypeOK
<1>7. /\ deferred' \in Seq(Message) /\ Len(deferred') <= 1
      /\ deferred' # <<>> => deferred'[1].kind = "data" /\ deferred'[1].id = e
  <2>1. CASE h.back = <<>>  BY <1>1, <2>1
  <2>2. CASE \E k \in 0 .. MaxRead : h.back = <<DataMsg(e, k)>>
    <3>1. PICK k \in 0 .. MaxRead : h.back = <<DataMsg(e, k)>>  BY <2>2
    <3>2. DataMsg(e, k) \in Message /\ DataMsg(e, k).id = e /\ DataMsg(e, k).kind = "data"
      BY <1>3, MessageTypes
    <3> HIDE DEF e
    <3> QED  BY <1>1, <3>1, <3>2
  <2> QED  BY <1>5, <2>1, <2>2
<1> USE DEF relay
<1>8. NetTypeOK'
  <2>1. conn' \in [Conns -> ConnType] /\ \A d \in Conns : Len(conn'[d].toApp) <= QueueSize
    BY <1>1, <1>3, <1>5, <1>6 DEF NetTypeOK
  <2>2. Len(dataIn') <= QueueSize
    <3>1. Len(dataIn) <= QueueSize  BY <1>1 DEF NetTypeOK
    <3> QED  BY <1>2, <3>1, NetStackConstants
  <2> QED  BY <1>1, <1>2, <1>7, <2>1, <2>2 DEF NetTypeOK
<1>9. Messages'
  <2>1. \A i \in 1 .. Len(dataIn') : i + 1 \in 1 .. Len(dataIn)  BY <1>2
  <2> QED  BY <1>1, <1>2, <1>7, <2>1 DEF Messages
<1>10. ASSUME NEW d \in Conns  PROVE RelayInv(d)'
  <2>1. /\ RelayInv(d) /\ conn[d] \in ConnType /\ conn'[d] \in ConnType
    BY <1>1, <1>8 DEF NetInv, NetTypeOK
  <2>2. /\ conn'[d].sock = conn[d].sock /\ conn'[d].entry = conn[d].entry
        /\ conn'[d].established = conn[d].established
        /\ conn'[d].tx = conn[d].tx /\ conn'[d].rx = conn[d].rx /\ conn'[d].toApp = conn[d].toApp
        /\ conn'[d].answer = conn[d].answer /\ conn'[d].cut = conn[d].cut
    BY <1>5, <1>6
  <2>3. EntryOrder(d)'  BY <1>1, <2>1, <2>2 DEF RelayInv, EntryOrder
  <2>4. DownloadKept(d)'  BY <1>1, <2>1, <2>2 DEF RelayInv, DownloadKept
  <2>5. UploadTask(d)'  BY <1>1, <2>1, <2>2 DEF RelayInv, UploadTask, Relaying
  <2>6. \A i \in 1 .. Len(dataIn') : i + 1 \in 1 .. Len(dataIn) /\ dataIn'[i] = dataIn[i + 1]
    BY <1>2
  <2>7. 1 \in 1 .. Len(dataIn)  BY <1>2
  <2>8. Fresh(d)'
    <3> SUFFICES ASSUME handler[d] = "opening"  PROVE Fresh(d)'  BY <1>1 DEF Fresh
    <3>1. \A i \in 1 .. Len(dataIn) : dataIn[i].id # d  BY <2>1 DEF RelayInv, Fresh
    <3>2. d # e  BY <1>2, <2>7, <3>1
    <3>3. conn'[d] = conn[d]  BY <1>6, <3>2
    <3>4. deferred' # <<>> => deferred'[1].id # d  BY <1>7, <3>2
    <3>5. \A i \in 1 .. Len(dataIn') : dataIn'[i].id # d  BY <2>6, <3>1
    <3> QED  BY <1>1, <2>1, <3>3, <3>4, <3>5 DEF RelayInv, Fresh
  <2> DEFINE f == server[d].recv + conn[d].tx + conn[d].pending + DeferredSize(d)
             t == UpBytes[d] - unread[d] - held[d]
  <2>9. /\ f \in Nat /\ conn[d].pending \in Nat /\ conn'[d].pending \in Nat
        /\ server[d].recv \in Nat /\ conn[d].tx \in Nat
        /\ unread[d] \in Nat /\ held[d] \in Nat /\ UpBytes[d] \in Nat
    <3>1. conn'[d].pending \in 0 .. MaxPending  BY <2>1 DEF ConnType
    <3>2. conn'[d].pending \in Nat  BY <3>1, NetStackConstants
    <3>3. f \in Nat  BY <1>1, UpSum
    <3> QED  BY <1>1, <3>2, <3>3, Counts
  <2>10. conn[d].entry => f' = f + SizeFor(d, m)
    <3> SUFFICES ASSUME conn[d].entry  PROVE f' = f + SizeFor(d, m)  OBVIOUS
    <3>1. DeferredSize(d) = 0  BY <1>1 DEF DeferredSize
    <3>2. CASE d # e
      <4>1. DeferredSize(d)' = 0  BY <1>7, <3>2 DEF DeferredSize, SizeFor
      <4>2. SizeFor(d, m) = 0  BY <3>2 DEF SizeFor
      <4> QED  BY <1>1, <1>6, <2>9, <3>1, <3>2, <4>1, <4>2
    <3>3. CASE d = e /\ m.kind = "close"
      <4>1. SizeFor(d, m) = 0  BY <1>4, <3>3 DEF SizeFor
      <4>2. conn'[d].pending = conn[d].pending /\ deferred' = <<>>  BY <1>1, <1>5, <1>6, <3>3
      <4>3. DeferredSize(d)' = 0  BY <4>2 DEF DeferredSize
      <4> QED  BY <1>1, <2>2, <2>9, <3>1, <4>1, <4>2, <4>3
    <3>4. CASE d = e /\ m.kind = "data"
      <4>1. SizeFor(d, m) = m.size  BY <3>4 DEF SizeFor
      <4>2. DeferredSize(d)' = IF h.back = <<>> THEN 0 ELSE h.back[1].size
        BY <1>1, <1>7, <3>4 DEF DeferredSize, SizeFor
      <4>3. conn'[d].pending + DeferredSize(d)' = conn[d].pending + m.size
        BY <1>5, <1>6, <3>4, <4>2
      <4>4. DeferredSize(d)' \in Nat
        <5>1. h.back # <<>> => h.back[1] \in Message  BY <1>1, <1>7
        <5> QED  BY <4>2, <5>1, NetStackConstants DEF Message
      <4>5. f' = server[d].recv + conn[d].tx + conn'[d].pending + DeferredSize(d)'
        BY <1>1, <2>2
      <4>6. f = server[d].recv + conn[d].tx + conn[d].pending  BY <2>9, <3>1
      <4> HIDE DEF f
      <4> QED  BY <1>3, <2>9, <4>1, <4>3, <4>4, <4>5, <4>6
    <3> QED  BY <1>3, <3>2, <3>3, <3>4
  <2>11. UploadKept(d)'
    <3> SUFFICES ASSUME Relaying(d), conn[d].entry  PROVE UploadKept(d)'
      BY <1>1, <2>2 DEF UploadKept, Relaying
    <3>1. /\ Tally(d, dataIn, f, t)
          /\ \A i \in 1 .. Len(dataIn) : IsClose(d, dataIn[i]) =>
               /\ up[d] = "done"
               /\ \A j \in 1 .. Len(dataIn) : j > i => ~IsData(d, dataIn[j])
          /\ conn[d].half =>
               /\ up[d] = "done"
               /\ server[d].recv + conn[d].tx + conn[d].pending = UpBytes[d]
               /\ \A i \in 1 .. Len(dataIn) : ~IsData(d, dataIn[i])
      BY <2>1 DEF RelayInv, UploadKept
    <3>2. t \in Nat
      <4>1. unread[d] + held[d] <= UpBytes[d]  BY <2>1 DEF RelayInv, UploadTask
      <4> QED  BY <2>9, <4>1
    <3>3. /\ Tally(d, Tail(dataIn), f + SizeFor(d, m), t)
          /\ IsClose(d, m) => f + SizeFor(d, m) = t
      <4> HIDE DEF f, t
      <4> QED  BY <1>1, <1>2, <2>9, <3>1, <3>2, TallyTail DEF m
    <3>4. t' = t  BY <1>1
    <3>5. Tally(d, dataIn', f', t')  BY <1>1, <2>10, <3>3, <3>4
    <3>6. ASSUME NEW i \in 1 .. Len(dataIn'), IsClose(d, dataIn'[i])
          PROVE  /\ up'[d] = "done"
                 /\ \A j \in 1 .. Len(dataIn') : j > i => ~IsData(d, dataIn'[j])
      <4>1. i + 1 \in 1 .. Len(dataIn) /\ IsClose(d, dataIn[i + 1])  BY <2>6, <3>6
      <4>2. ASSUME NEW j \in 1 .. Len(dataIn'), j > i  PROVE ~IsData(d, dataIn'[j])
        <5>1. j + 1 > i + 1  BY <4>2, <1>2
        <5> QED  BY <2>6, <3>1, <4>1, <5>1
      <4> QED  BY <1>1, <3>1, <4>1, <4>2
    <3>7. ASSUME conn'[d].half
          PROVE  /\ up'[d] = "done"
                 /\ server'[d].recv + conn'[d].tx + conn'[d].pending = UpBytes[d]
                 /\ deferred' # <<>> => deferred'[1].id # d
                 /\ \A i \in 1 .. Len(dataIn') : ~IsData(d, dataIn'[i])
      <4>1. CASE conn[d].half
        <5>1. ~IsData(d, m)  BY <1>2, <2>7, <3>1, <4>1
        <5>2. conn'[d].pending = conn[d].pending /\ (deferred' # <<>> => deferred'[1].id # d)
          <6>1. CASE d # e  BY <1>6, <1>7, <6>1
          <6>2. CASE d = e
            <7>1. m.kind = "close"  BY <1>3, <5>1, <6>2 DEF IsData
            <7> QED  BY <1>1, <1>5, <1>6, <6>2, <7>1
          <6> QED  BY <6>1, <6>2
        <5>3. \A i \in 1 .. Len(dataIn') : ~IsData(d, dataIn'[i])  BY <2>6, <3>1, <4>1
        <5> QED  BY <1>1, <2>2, <3>1, <4>1, <5>2, <5>3
      <4>2. CASE ~conn[d].half
        <5>1. d = e /\ m.kind = "close"  BY <1>3, <1>5, <1>6, <3>7, <4>2
        <5>2. IsClose(d, m) /\ SizeFor(d, m) = 0  BY <1>4, <5>1 DEF IsClose, SizeFor
        <5>3. up[d] = "done" /\ \A j \in 1 .. Len(dataIn) : j > 1 => ~IsData(d, dataIn[j])
          BY <1>2, <2>7, <3>1, <5>2
        <5>4. unread[d] = 0 /\ held[d] = 0  BY <2>1, <5>3 DEF RelayInv, UploadTask
        <5>5. f = UpBytes[d]
          <6>1. f + 0 = t  BY <3>3, <5>2
          <6>2. t = UpBytes[d]  BY <2>9, <5>4
          <6> HIDE DEF f, t
          <6> QED  BY <2>9, <6>1, <6>2
        <5>6. conn'[d].pending = conn[d].pending /\ deferred' = <<>>
          BY <1>1, <1>5, <1>6, <5>1
        <5>7. DeferredSize(d) = 0  BY <1>1 DEF DeferredSize
        <5>8. server[d].recv + conn[d].tx + conn[d].pending = UpBytes[d]
          BY <2>9, <5>5, <5>7
        <5>9. \A i \in 1 .. Len(dataIn') : i + 1 > 1  BY <1>2
        <5> QED  BY <1>1, <2>2, <2>6, <5>3, <5>6, <5>8, <5>9
      <4> QED  BY <4>1, <4>2
    <3> QED  BY <3>5, <3>6, <3>7 DEF UploadKept
  <2>12. FinLast(d)'
    <3> SUFFICES ASSUME Relaying(d), ~server[d].fin  PROVE FinLast(d)'
      BY <1>1 DEF FinLast, Relaying
    <3>1. conn[d].sock = "FinWait1" => conn'[d].half /\ conn'[d].pending = 0
      <4> SUFFICES ASSUME conn[d].sock = "FinWait1"
                   PROVE  conn'[d].half /\ conn'[d].pending = 0
        OBVIOUS
      <4>1. conn[d].half /\ conn[d].pending = 0 /\ conn[d].entry
        BY <2>1 DEF RelayInv, FinLast, EntryOrder
      <4>2. ~IsData(d, m)  BY <1>2, <2>1, <2>7, <4>1 DEF RelayInv, UploadKept
      <4>3. CASE d # e  BY <1>6, <4>1, <4>3
      <4>4. CASE d = e
        <5>1. m.kind = "close"  BY <1>3, <4>2, <4>4 DEF IsData
        <5> QED  BY <1>5, <1>6, <4>1, <4>4, <5>1
      <4> QED  BY <4>3, <4>4
    <3> QED  BY <1>1, <2>1, <2>2, <3>1 DEF RelayInv, FinLast
  <2> QED  BY <2>3, <2>4, <2>5, <2>8, <2>11, <2>12 DEF RelayInv
<1> QED  BY <1>8, <1>9, <1>10 DEF NetInv

LEMMA SetToSeqFacts ==
  ASSUME NEW S, IsFiniteSet(S)
  PROVE  Cardinality(S) \in Nat /\ SetToSeq(S) \in [1 .. Cardinality(S) -> S]
<1>1. Cardinality(S) \in Nat /\ ExistsBijection(1 .. Cardinality(S), S)  BY FS_CardinalityType
<1>2. \E f \in [1 .. Cardinality(S) -> S] : IsInjective(f)
  BY <1>1 DEF ExistsBijection, Bijection, Injection
<1> QED  BY <1>1, <1>2 DEF SetToSeq

\* The closes of the connections that were announced to nobody.
LEMMA DroppedCloses ==
  ASSUME NEW D \in SUBSET Conns
  PROVE  LET ms == SetToSeq({CloseMsg(c) : c \in D})
         IN  ms \in Seq(Message) /\ \A i \in 1 .. Len(ms) : \E c \in D : ms[i] = CloseMsg(c)
<1> DEFINE S == {CloseMsg(c) : c \in D}
           ms == SetToSeq(S)
           n == Cardinality(S)
<1>1. IsFiniteSet(S)
  <2> DEFINE F == [c \in D |-> CloseMsg(c)]
  <2>1. IsFiniteSet(D)  BY NetStackConstants, FS_Subset
  <2>2. F \in [D -> S] /\ \A x \in S : \E c \in D : F[c] = x  OBVIOUS
  <2> HIDE DEF S, F
  <2>3. F \in Surjection(D, S)  BY <2>2 DEF Surjection
  <2> QED  BY <2>1, <2>3, FS_Surjection
<1>2. S \subseteq Message /\ \A x \in S : \E c \in D : x = CloseMsg(c)  BY MessageTypes
<1> HIDE DEF S
<1>3. n \in Nat /\ ms \in [1 .. n -> S]  BY <1>1, SetToSeqFacts
<1> HIDE DEF n, ms
<1>4. ms \in [1 .. n -> Message]  BY <1>2, <1>3
<1>5. ms \in Seq(Message)  BY <1>3, <1>4, SeqDef
<1>6. Len(ms) = n  BY <1>3, <1>4
<1>7. \A i \in 1 .. Len(ms) : \E c \in D : ms[i] = CloseMsg(c)  BY <1>2, <1>3, <1>6
<1> QED  BY <1>5, <1>7 DEF ms, S

\* What fits of them goes to the end of the queue.
LEMMA TrySendAllFacts ==
  ASSUME NEW q \in Seq(Message), Len(q) <= QueueSize, NEW ms \in Seq(Message)
  PROVE  LET p == TrySendAll(q, ms) IN
         /\ p \in Seq(Message) /\ Len(p) <= QueueSize /\ Len(q) <= Len(p)
         /\ \A i \in 1 .. Len(q) : p[i] = q[i]
         /\ \A i \in 1 .. Len(p) : i > Len(q) => \E j \in 1 .. Len(ms) : p[i] = ms[j]
<1> DEFINE all == q \o ms
           A == Len(q)
           B == Len(ms)
           n == Least(Len(all), QueueSize)
           p == TrySendAll(q, ms)
<1>1. A \in Nat /\ B \in Nat /\ A <= QueueSize  BY LenProperties
<1>2. /\ all \in Seq(Message) /\ Len(all) = A + B
      /\ \A i \in 1 .. A + B : all[i] = IF i <= A THEN q[i] ELSE ms[i - A]
  OBVIOUS
<1> HIDE DEF all, A, B
<1>3. n \in Nat /\ n <= A + B /\ n <= QueueSize /\ A <= n
  BY <1>1, <1>2, NetStackConstants DEF Least
<1>4. p = SubSeq(all, 1, n)  BY DEF TrySendAll, all
<1> HIDE DEF p, n
<1>5. p \in Seq(Message) /\ Len(p) = n /\ \A i \in 1 .. n : p[i] = all[i]
  <2>1. \A i \in 1 .. n : i \in 1 .. A + B  BY <1>1, <1>3
  <2>2. \A i \in 1 .. n : all[i] \in Message  BY <1>2, <2>1
  <2>3. p = [i \in 1 .. n |-> all[i]]  BY <1>2, <1>3, <1>4
  <2> QED  BY <1>3, <2>2, <2>3
<1>6. \A i \in 1 .. A : p[i] = q[i]  BY <1>1, <1>2, <1>3, <1>5
<1>7. ASSUME NEW i \in 1 .. n, i > A  PROVE \E j \in 1 .. B : p[i] = ms[j]
  <2>1. i - A \in 1 .. B /\ i \in 1 .. A + B /\ ~(i <= A)  BY <1>1, <1>3, <1>7
  <2> QED  BY <1>2, <1>5, <2>1
<1> QED  BY <1>3, <1>5, <1>6, <1>7 DEF p, A, B

LEMMA SumsMove ==
  ASSUME NEW a \in Nat, NEW x \in Nat, NEW y \in Nat, NEW z \in Nat, NEW v \in Nat,
         NEW w \in Nat, NEW n \in Nat, NEW k \in Nat,
         z + k = y + n, x + y = v + w
  PROVE  (a + x + z) + k = (a + v + w) + n
OBVIOUS

\* What a round makes of connection d.
LEMMA RoundFacts ==
  ASSUME NetInv, Round, NEW d \in Conns
  PROVE  /\ conn'[d] \in ConnType /\ Len(conn'[d].toApp) <= QueueSize
         /\ conn'[d].half = conn[d].half
         /\ conn'[d].entry => /\ conn[d].entry
                              /\ Taken(d)' + DeferredSize(d)' = Taken(d) + DeferredSize(d)
         /\ conn'[d].entry /\ (deferred # <<>> => deferred[1].id # d) =>
              /\ Taken(d)' = Taken(d) /\ conn'[d].pending <= conn[d].pending
              /\ deferred' # <<>> => deferred'[1].id # d
         /\ ~conn[d].entry => conn'[d] = conn[d]
         /\ (deferred # <<>> => deferred[1].id # d) =>
              /\ conn[d].pending = 0 /\ conn[d].tx = 0 =>
                   conn'[d].pending = 0 /\ conn'[d].tx = 0
              /\ deferred' # <<>> => deferred'[1].id # d
         /\ EntryOrder(d)'
         /\ conn'[d].cut /\ ~conn[d].cut /\ Listens(d) => Len(conn'[d].toApp) = QueueSize
         /\ \/ conn'[d].cut
            \/ Fed(conn[d].toApp, conn[d].rx, conn'[d].toApp, conn'[d].rx) /\ ~conn[d].cut
         /\ Listens(d) =>
              \/ conn'[d].sock = conn[d].sock
              \/ conn[d].sock = "SynSent" /\ conn'[d].sock = "Closed"
              \/ /\ conn[d].sock = "Established" /\ conn'[d].sock = "FinWait1" /\ conn[d].half
                 /\ (deferred # <<>> => deferred[1].id # d) => conn'[d].pending = 0
              \/ conn[d].sock = "CloseWait" /\ conn'[d].sock = "LastAck"
<1> DEFINE r == conn[d]
           s == service_tcp[d]
           mine == deferred # <<>> /\ deferred[1].id = d
<1>1. /\ NetTypeOK /\ Messages /\ RelayInv(d) /\ EntryOrder(d) /\ r \in ConnType
      /\ Len(r.toApp) <= QueueSize /\ stack' = "select" /\ UNCHANGED <<relay, server>>
  BY DEF NetInv, RelayInv, NetTypeOK, Round
<1>2. s = IF r.entry THEN Serviced(r, Listens(d)) ELSE r  BY DEF service_tcp
<1>n. r.tx \in Nat /\ r.pending \in Nat /\ r.rx \in Nat /\ server[d].recv \in Nat
      /\ DeferredSize(d) \in Nat
  BY <1>1, Counts
<1>3. /\ s \in ConnType /\ Len(s.toApp) <= QueueSize
      /\ s.half = r.half
      /\ s.entry => r.entry /\ s.tx + s.pending = r.tx + r.pending /\ s.pending <= r.pending
      /\ ~r.entry => s = r
      /\ r.pending = 0 /\ r.tx = 0 => s.pending = 0 /\ s.tx = 0
      /\ ~s.entry => s.rx = 0 /\ s.sock \in {"none", "Closed", "TimeWait"}
      /\ ~s.established => s.rx = 0
      /\ s.cut => ~s.entry
      /\ s.answer = "none" => ~s.entry /\ ~s.cut
      /\ s.cut /\ ~r.cut /\ Listens(d) => Len(s.toApp) = QueueSize
      /\ s.cut \/ (Fed(r.toApp, r.rx, s.toApp, s.rx) /\ ~r.cut)
      /\ Listens(d) => \/ s.sock = r.sock
                       \/ r.sock = "SynSent" /\ s.sock = "Closed"
                       \/ /\ r.sock = "Established" /\ s.sock = "FinWait1"
                          /\ r.half /\ s.pending = 0
                       \/ r.sock = "CloseWait" /\ s.sock = "LastAck"
  <2>1. CASE ~r.entry
    <3>1. s = r  BY <1>2, <2>1
    <3> HIDE DEF s
    <3>2. Fed(r.toApp, r.rx, r.toApp, r.rx)  BY <1>n, FedNone
    <3> QED  BY <1>1, <2>1, <3>1, <3>2 DEF EntryOrder
  <2>2. CASE r.entry
    <3>1. ~r.cut /\ (~r.established => r.rx = 0) /\ r.answer # "none" /\ Listens(d) \in BOOLEAN
      BY <1>1, <2>2 DEF EntryOrder, Listens
    <3>2. s = Serviced(r, Listens(d))  BY <1>2, <2>2
    <3> HIDE DEF r, s
    <3> QED  BY <1>1, <2>2, <3>1, <3>2, ServicedFacts
  <2> QED  BY <2>1, <2>2
<1>4. CASE ~mine
  <2>1. conn'[d] = s /\ (deferred' # <<>> => deferred'[1].id # d)
    <3>1. CASE deferred = <<>>
      <4>1. conn' = service_tcp /\ deferred' = deferred  BY <3>1 DEF Round
      <4> QED  BY <3>1, <4>1
    <3>2. CASE deferred # <<>>
      <4> DEFINE m == Head(deferred)
                 h == Handle(service_tcp[m.id], m)
      <4>1. conn' = [service_tcp EXCEPT ![m.id] = h.r] /\ deferred' = h.back
        BY <3>2 DEF Round
      <4>2. m = deferred[1] /\ m.id # d  BY <1>1, <1>4, <3>2 DEF NetTypeOK
      <4>3. conn'[d] = s  BY <4>1, <4>2 DEF service_tcp
      <4>4. h.back = <<>> \/ \E k : h.back = <<DataMsg(m.id, k)>>  BY DEF Handle
      <4>5. deferred' # <<>> => deferred'[1].id = m.id
        <5> HIDE DEF m, h
        <5>1. CASE h.back = <<>>  BY <4>1, <5>1
        <5>2. CASE \E k : h.back = <<DataMsg(m.id, k)>>
          <6>1. PICK k : h.back = <<DataMsg(m.id, k)>>  BY <5>2
          <6>2. DataMsg(m.id, k).id = m.id  BY DEF DataMsg
          <6> QED  BY <4>1, <6>1, <6>2
        <5> QED  BY <4>4, <5>1, <5>2
      <4> QED  BY <4>2, <4>3, <4>5
    <3> QED  BY <3>1, <3>2
  <2>2. DeferredSize(d) = 0 /\ DeferredSize(d)' = 0  BY <1>4, <2>1 DEF DeferredSize, SizeFor
  <2>3. s.tx \in Nat /\ s.pending \in Nat  BY <1>3, NetStackConstants DEF ConnType
  <2> HIDE DEF r, s
  <2>4. r = conn[d]  BY DEF r
  <2>5. conn'[d].entry => Taken(d)' = Taken(d) /\ s.pending <= r.pending
    <3> SUFFICES ASSUME conn'[d].entry  PROVE Taken(d)' = Taken(d) /\ s.pending <= r.pending
      OBVIOUS
    <3>1. s.tx + s.pending = r.tx + r.pending /\ s.pending <= r.pending
      <4>1. s.entry => s.tx + s.pending = r.tx + r.pending /\ s.pending <= r.pending  BY <1>3
      <4> QED  BY <2>1, <4>1
    <3>2. Taken(d) = server[d].recv + r.tx + r.pending  BY <2>4 DEF Taken
    <3>3. server'[d].recv = server[d].recv  BY <1>1
    <3>4. Taken(d)' = server[d].recv + s.tx + s.pending  BY <2>1, <3>3 DEF Taken
    <3> QED  BY <1>n, <2>3, <3>1, <3>2, <3>4
  <2>6. EntryOrder(d)'  BY <1>1, <1>3, <2>1 DEF EntryOrder
  <2>7. Taken(d) \in Nat  BY <1>n, <2>4 DEF Taken
  <2>8. conn'[d].entry => Taken(d)' + DeferredSize(d)' = Taken(d) + DeferredSize(d)
    BY <2>2, <2>5, <2>7
  <2> QED  BY <1>3, <2>1, <2>4, <2>5, <2>6, <2>8
<1>5. CASE mine
  <2> DEFINE m == deferred[1]
             h == Handle(s, m)
  <2>1. /\ m \in Message /\ m.id = d /\ m.kind = "data" /\ Head(deferred) = m
        /\ deferred # <<>>
    BY <1>1, <1>5 DEF NetTypeOK, Messages
  <2>2. conn'[d] = h.r /\ deferred' = h.back
    <3>1. /\ conn' = [service_tcp EXCEPT ![d] = h.r] /\ deferred' = h.back
      BY <2>1 DEF Round
    <3> QED  BY <3>1 DEF service_tcp
  <2> HIDE DEF s, m
  <2>3. /\ h.r \in ConnType
        /\ h.r.sock = s.sock /\ h.r.entry = s.entry /\ h.r.established = s.established
        /\ h.r.tx = s.tx /\ h.r.rx = s.rx /\ h.r.toApp = s.toApp
        /\ h.r.answer = s.answer /\ h.r.cut = s.cut
        /\ \/ h.back = <<>>
           \/ m.kind = "data" /\ \E k \in 0 .. MaxRead : h.back = <<DataMsg(m.id, k)>>
        /\ ~s.entry => h.r = s /\ h.back = <<>>
        /\ s.entry /\ m.kind = "data" =>
              /\ h.r.half = s.half
              /\ h.r.pending + (IF h.back = <<>> THEN 0 ELSE h.back[1].size)
                   = s.pending + m.size
    BY <1>3, <2>1, HandleFacts
  <2> HIDE DEF r, h
  <2>4. r = conn[d]  BY DEF r
  <2>5. h.r.half = r.half  BY <1>3, <2>1, <2>3
  <2>6. DeferredSize(d) = m.size  BY <2>1 DEF DeferredSize, SizeFor, m
  <2>7. DeferredSize(d)' = (IF h.back = <<>> THEN 0 ELSE h.back[1].size)
        /\ DeferredSize(d)' \in Nat
    <3>1. CASE h.back = <<>>  BY <2>2, <3>1 DEF DeferredSize
    <3>2. CASE h.back # <<>>
      <4>1. PICK k \in 0 .. MaxRead : h.back = <<DataMsg(d, k)>>  BY <2>1, <2>3, <3>2
      <4>2. h.back[1].id = d /\ h.back[1].size = k  BY <4>1 DEF DataMsg
      <4> QED  BY <2>2, <3>2, <4>2, NetStackConstants DEF DeferredSize, SizeFor
    <3> QED  BY <3>1, <3>2
  <2>8. h.r.entry => Taken(d)' + DeferredSize(d)' = Taken(d) + DeferredSize(d)
    <3> SUFFICES ASSUME h.r.entry
                 PROVE  Taken(d)' + DeferredSize(d)' = Taken(d) + DeferredSize(d)
      OBVIOUS
    <3>1. h.r.pending + DeferredSize(d)' = s.pending + m.size  BY <2>1, <2>3, <2>7
    <3>2. s.tx + s.pending = r.tx + r.pending  BY <1>3, <2>3
    <3>3. /\ s.tx \in Nat /\ s.pending \in Nat /\ h.r.pending \in Nat /\ m.size \in Nat
      BY <1>3, <2>1, <2>3, NetStackConstants DEF ConnType, Message
    <3>4. Taken(d)' = server[d].recv + s.tx + h.r.pending  BY <1>1, <2>2, <2>3 DEF Taken
    <3>5. Taken(d) = server[d].recv + r.tx + r.pending  BY <2>4 DEF Taken
    <3>6. server[d].recv \in Nat /\ r.tx \in Nat /\ r.pending \in Nat  BY <1>n
    <3> DEFINE b == IF h.back = <<>> THEN 0 ELSE h.back[1].size
    <3>7. b \in Nat /\ DeferredSize(d)' = b  BY <2>7
    <3> HIDE DEF b
    <3>8. (server[d].recv + s.tx + h.r.pending) + b = (server[d].recv + r.tx + r.pending) + m.size
      <4>1. h.r.pending + b = s.pending + m.size  BY <3>1, <3>7
      <4>2. b \in Nat  BY <3>7
      <4> DEFINE n1 == server[d].recv
                 n2 == s.tx
                 n3 == s.pending
                 n4 == h.r.pending
                 n5 == r.tx
                 n6 == r.pending
                 n7 == m.size
      <4>3. /\ n1 \in Nat /\ n2 \in Nat /\ n3 \in Nat /\ n4 \in Nat /\ n5 \in Nat
            /\ n6 \in Nat /\ n7 \in Nat /\ n4 + b = n3 + n7 /\ n2 + n3 = n5 + n6
        BY <4>1, <3>2, <3>3, <3>6
      <4>4. (n1 + n2 + n4) + b = (n1 + n5 + n6) + n7
        <5> HIDE DEF n1, n2, n3, n4, n5, n6, n7
        <5> QED  BY <4>2, <4>3, SumsMove
      <4> QED  BY <4>4
    <3> QED  BY <2>6, <3>4, <3>5, <3>7, <3>8
  <2>9. EntryOrder(d)'  BY <1>1, <1>3, <2>2, <2>3 DEF EntryOrder
  <2>10. Len(h.r.toApp) <= QueueSize /\ (~r.entry => h.r = r)
    BY <1>3, <2>3
  <2>11. Listens(d) => \/ h.r.sock = r.sock
                       \/ r.sock = "SynSent" /\ h.r.sock = "Closed"
                       \/ r.sock = "Established" /\ h.r.sock = "FinWait1" /\ r.half
                       \/ r.sock = "CloseWait" /\ h.r.sock = "LastAck"
    BY <1>3, <2>3
  <2>12. h.r.cut \/ (Fed(r.toApp, r.rx, h.r.toApp, h.r.rx) /\ ~r.cut)
    BY <1>3, <2>3
  <2> QED
    BY <1>3, <1>5, <2>2, <2>3, <2>4, <2>5, <2>8, <2>9, <2>10, <2>11, <2>12
<1> QED  BY <1>4, <1>5

LEMMA RoundInv == ASSUME NetInv, Round  PROVE NetInv'
<1> DEFINE D == Dropped(service_tcp)
           ms == SetToSeq({CloseMsg(c) : c \in D})
<1>1. /\ NetTypeOK /\ Messages /\ stack' = "select" /\ UNCHANGED <<relay, server>>
      /\ dataIn' = TrySendAll(dataIn, ms) /\ dataIn \in Seq(Message) /\ Len(dataIn) <= QueueSize
  BY DEF NetInv, NetTypeOK, Round
<1>2. D \subseteq Conns /\ \A c \in D : ~Listens(c)  BY DEF Dropped
<1> HIDE DEF D
<1>3. ms \in Seq(Message) /\ \A i \in 1 .. Len(ms) : \E c \in D : ms[i] = CloseMsg(c)
  BY <1>2, DroppedCloses
<1> HIDE DEF ms
<1>4. /\ dataIn' \in Seq(Message) /\ Len(dataIn') <= QueueSize /\ Len(dataIn) <= Len(dataIn')
      /\ \A i \in 1 .. Len(dataIn) : dataIn'[i] = dataIn[i]
      /\ \A i \in 1 .. Len(dataIn') : i > Len(dataIn) => \E j \in 1 .. Len(ms) : dataIn'[i] = ms[j]
  BY <1>1, <1>3, TrySendAllFacts
<1>5. \A i \in 1 .. Len(dataIn') : i > Len(dataIn) => \E c \in D : dataIn'[i] = CloseMsg(c)
  BY <1>3, <1>4
<1>6. ASSUME NEW d \in Conns, Listens(d)  PROVE Grows(dataIn, dataIn', d)
  <2>1. \A c \in D : CloseMsg(c).id # d  BY <1>2, <1>6 DEF CloseMsg
  <2> QED  BY <1>1, <1>4, <1>5, <2>1 DEF Grows
<1>7. deferred' \in Seq(Message) /\ Len(deferred') <= 1 /\ (deferred' # <<>> => deferred'[1].kind = "data")
  <2>1. CASE deferred = <<>>
    <3>1. deferred' = deferred  BY <2>1 DEF Round
    <3> QED  BY <1>1, <2>1, <3>1 DEF NetTypeOK
  <2>2. CASE deferred # <<>>
    <3> DEFINE m == Head(deferred)
               x == service_tcp[m.id]
               h == Handle(x, m)
    <3>1. deferred' = h.back  BY <2>2 DEF Round
    <3>2. m \in Message /\ m.id \in Conns /\ m.size \in 0 .. MaxRead
      <4>1. deferred \in Seq(Message)  BY <1>1 DEF NetTypeOK
      <4>2. m \in Message  BY <2>2, <4>1, HeadTailProperties
      <4> HIDE DEF m
      <4> QED  BY <4>2 DEF Message
    <3>3. \/ h.back = <<>>
          \/ \E k \in 0 .. MaxRead : h.back = <<DataMsg(m.id, k)>>
      <4> HIDE DEF m
      <4>1. conn[m.id] \in ConnType /\ Len(conn[m.id].toApp) <= QueueSize /\ EntryOrder(m.id)
        BY <1>1, <3>2 DEF NetInv, NetTypeOK, RelayInv
      <4>2. x = IF conn[m.id].entry THEN Serviced(conn[m.id], Listens(m.id)) ELSE conn[m.id]
        BY <3>2 DEF service_tcp
      <4>3. x \in ConnType
        <5>1. CASE ~conn[m.id].entry  BY <4>1, <4>2, <5>1
        <5>2. CASE conn[m.id].entry
          <6>1. /\ ~conn[m.id].cut /\ (~conn[m.id].established => conn[m.id].rx = 0)
                /\ conn[m.id].answer # "none" /\ Listens(m.id) \in BOOLEAN
            BY <4>1, <5>2 DEF EntryOrder, Listens
          <6>2. Serviced(conn[m.id], Listens(m.id)) \in ConnType
            BY <4>1, <5>2, <6>1, ServicedFacts
          <6> QED  BY <4>2, <5>2, <6>2
        <5> QED  BY <5>1, <5>2
      <4> HIDE DEF x
      <4> QED  BY <3>2, <4>3, HandleFacts
    <3> HIDE DEF m, h
    <3>4. CASE h.back = <<>>  BY <3>1, <3>4
    <3>5. CASE \E k \in 0 .. MaxRead : h.back = <<DataMsg(m.id, k)>>
      <4>1. PICK k \in 0 .. MaxRead : h.back = <<DataMsg(m.id, k)>>  BY <3>5
      <4>2. DataMsg(m.id, k) \in Message /\ DataMsg(m.id, k).kind = "data"
        BY <3>2, MessageTypes
      <4> QED  BY <3>1, <4>1, <4>2
    <3> QED  BY <3>3, <3>4, <3>5
  <2> QED  BY <2>1, <2>2
<1>8. Messages'
  <2>1. \A c \in D : CloseMsg(c).size = 0  BY DEF CloseMsg
  <2>2. \A i \in 1 .. Len(dataIn') : i \in 1 .. Len(dataIn) \/ i > Len(dataIn)
    BY <1>1, <1>4
  <2> QED  BY <1>1, <1>4, <1>5, <1>7, <2>1, <2>2 DEF Messages
<1> USE DEF relay
<1>9. NetTypeOK'
  <2>1. conn' = [c \in Conns |-> conn'[c]]
    <3>1. service_tcp = [c \in Conns |-> service_tcp[c]]  BY DEF service_tcp
    <3>2. \/ conn' = service_tcp
          \/ conn' = [service_tcp EXCEPT ![Head(deferred).id] =
                        Handle(service_tcp[Head(deferred).id], Head(deferred)).r]
      BY DEF Round
    <3> QED  BY <3>1, <3>2
  <2>2. \A c \in Conns : conn'[c] \in ConnType /\ Len(conn'[c].toApp) <= QueueSize
    BY RoundFacts
  <2>3. conn' \in [Conns -> ConnType]  BY <2>1, <2>2
  <2> QED  BY <1>1, <1>4, <1>7, <2>2, <2>3 DEF NetTypeOK
<1>10. ASSUME NEW d \in Conns  PROVE RelayInv(d)'
  <2> DEFINE r == conn[d]
             s == conn'[d]
  <2>1. RelayInv(d)  BY DEF NetInv
  <2>2. /\ s.half = r.half
        /\ s.entry => /\ r.entry
                      /\ Taken(d)' + DeferredSize(d)' = Taken(d) + DeferredSize(d)
        /\ s.entry /\ (deferred # <<>> => deferred[1].id # d) =>
              /\ Taken(d)' = Taken(d) /\ s.pending <= r.pending
              /\ deferred' # <<>> => deferred'[1].id # d
        /\ ~r.entry => s = r
        /\ (deferred # <<>> => deferred[1].id # d) =>
              /\ r.pending = 0 /\ r.tx = 0 => s.pending = 0 /\ s.tx = 0
              /\ deferred' # <<>> => deferred'[1].id # d
        /\ EntryOrder(d)'
    BY RoundFacts
  <2>3. /\ \/ s.cut
           \/ Fed(r.toApp, r.rx, s.toApp, s.rx) /\ ~r.cut
        /\ Listens(d) =>
              \/ s.sock = r.sock
              \/ r.sock = "SynSent" /\ s.sock = "Closed"
              \/ /\ r.sock = "Established" /\ s.sock = "FinWait1" /\ r.half
                 /\ (deferred # <<>> => deferred[1].id # d) => s.pending = 0
              \/ r.sock = "CloseWait" /\ s.sock = "LastAck"
    BY RoundFacts
  <2>4. Fresh(d)'
    <3> SUFFICES ASSUME handler[d] = "opening"  PROVE Fresh(d)'  BY <1>1 DEF Fresh
    <3>1. Listens(d) /\ Grows(dataIn, dataIn', d)  BY <1>6 DEF Listens
    <3>2. /\ \A i \in 1 .. Len(dataIn) : dataIn[i].id # d
          /\ deferred # <<>> => deferred[1].id # d
          /\ ~r.half /\ r.pending = 0 /\ r.tx = 0
          /\ ~server[d].fin => r.sock \in {"none", "SynSent", "Established", "Closed"}
      BY <2>1 DEF RelayInv, Fresh
    <3>3. \A i \in 1 .. Len(dataIn') : dataIn'[i].id # d  BY <3>1, <3>2 DEF Grows
    <3>4. ~server[d].fin => s.sock \in {"none", "SynSent", "Established", "Closed"}
      BY <2>3, <3>1, <3>2
    <3> QED  BY <1>1, <2>1, <2>2, <3>2, <3>3, <3>4 DEF RelayInv, Fresh
  <2>5. UploadTask(d)'  BY <1>1, <2>1, <2>2 DEF RelayInv, UploadTask, Relaying
  <2>6. UploadKept(d)'
    <3>1. CASE Relaying(d)
      <4>1. Grows(dataIn, dataIn', d)  BY <1>6, <3>1 DEF Listens, Relaying
      <4> QED  BY <1>1, <2>1, <2>2, <3>1, <4>1, UploadCarried
    <3>2. CASE ~Relaying(d)  BY <1>1, <3>2 DEF UploadKept, Relaying
    <3> QED  BY <3>1, <3>2
  <2>7. FinLast(d)'
    <3> SUFFICES ASSUME Relaying(d), ~server[d].fin
                 PROVE  /\ s.sock \in {"none", "SynSent", "Established", "FinWait1", "FinWait2",
                                       "Closed"}
                        /\ s.sock = "FinWait1" => s.half /\ s.pending = 0
                        /\ server[d].sawFin => /\ client[d] = "eof" /\ server[d].recv = UpBytes[d]
                                               /\ s.sock \in {"FinWait2", "Closed"}
      BY <1>1 DEF FinLast, Relaying
    <3>1. Listens(d)  BY DEF Listens, Relaying
    <3>2. /\ r.sock \in {"none", "SynSent", "Established", "FinWait1", "FinWait2", "Closed"}
          /\ r.sock = "FinWait1" => r.half /\ r.pending = 0
          /\ server[d].sawFin => /\ client[d] = "eof" /\ server[d].recv = UpBytes[d]
                                 /\ r.sock \in {"FinWait2", "Closed"}
      BY <2>1 DEF RelayInv, FinLast
    <3>3. s.sock = "FinWait1" => s.half /\ s.pending = 0
      <4> SUFFICES ASSUME s.sock = "FinWait1"  PROVE s.half /\ s.pending = 0  OBVIOUS
      <4>1. s.entry  BY <2>2 DEF EntryOrder
      <4>2. r.half /\ r.entry  BY <2>2, <2>3, <3>1, <3>2, <4>1
      <4>3. deferred # <<>> => deferred[1].id # d  BY <2>1, <4>2 DEF RelayInv, UploadKept
      <4>4. CASE r.sock = "FinWait1"
        <5>1. s.pending <= 0  BY <2>2, <3>2, <4>1, <4>3, <4>4
        <5>2. s \in ConnType  BY <1>9 DEF NetTypeOK
        <5>3. s.pending \in Nat  BY <5>2, NetStackConstants DEF ConnType
        <5> QED  BY <2>2, <4>2, <5>1, <5>3
      <4>5. CASE r.sock # "FinWait1"  BY <2>2, <2>3, <3>1, <4>2, <4>3, <4>5
      <4> QED  BY <4>4, <4>5
    <3> QED  BY <2>3, <3>1, <3>2, <3>3
  <2>8. DownloadKept(d)'
    <3>1. r.rx \in Nat /\ server[d].sent \in Nat /\ got[d] \in Nat /\ r.toApp \in Seq(Nat)
      BY <1>1, Counts
    <3>2. ASSUME ~s.cut
          PROVE  s.rx <= server[d].sent /\ Carries(s.toApp, got[d], server[d].sent - s.rx)
      <4>1. ~r.cut  BY <2>3, <3>2
      <4>2. r.rx <= server[d].sent /\ Carries(r.toApp, got[d], server[d].sent - r.rx)
        BY <2>1, <4>1 DEF RelayInv, DownloadKept
      <4>3. Fed(r.toApp, r.rx, s.toApp, s.rx)  BY <2>3, <3>2
      <4> DEFINE t == server[d].sent - r.rx
      <4>4. t \in Nat /\ s.rx \in 0 .. r.rx  BY <3>1, <4>2, <4>3 DEF Fed
      <4>5. Carries(s.toApp, got[d], t + (r.rx - s.rx))
        <5> HIDE DEF t, r, s
        <5>1. Carries(r.toApp, got[d], t)  BY <4>2 DEF t
        <5> QED  BY <3>1, <4>3, <4>4, <5>1 DEF Fed
      <4>6. t + (r.rx - s.rx) = server[d].sent - s.rx /\ s.rx <= server[d].sent
        BY <3>1, <4>2, <4>4
      <4> QED  BY <4>5, <4>6
    <3>3. handler[d] = "done" /\ client[d] # "gone" => s.toApp = <<>> /\ ~s.entry
      BY <2>1, <2>2 DEF RelayInv, DownloadKept
    <3> QED  BY <1>1, <3>2, <3>3 DEF DownloadKept
  <2> QED  BY <2>2, <2>4, <2>5, <2>6, <2>7, <2>8 DEF RelayInv
<1> QED  BY <1>8, <1>9, <1>10 DEF NetInv

LEMMA NetInitInv == NetInit => NetInv
<1> SUFFICES ASSUME NetInit  PROVE NetInv  OBVIOUS
<1>0. 0 \in 0 .. MaxPending /\ 0 \in 0 .. TcpBuf /\ 0 \in 0 .. MaxRead
      /\ 0 \in 0 .. TcpBuf - 1
  BY NetStackConstants
<1>1. NewConn \in ConnType /\ Len(NewConn.toApp) = 0
  BY <1>0 DEF NewConn, ConnType, SockStates
<1>2. NetTypeOK
  <2>1. conn \in [Conns -> ConnType] /\ \A c \in Conns : Len(conn[c].toApp) <= QueueSize
    BY <1>1, NetStackConstants DEF NetInit
  <2>2. dataIn \in Seq(Message) /\ Len(dataIn) <= QueueSize /\ deferred \in Seq(Message)
        /\ Len(deferred) <= 1
    BY NetStackConstants DEF NetInit
  <2> QED  BY <1>0, <2>1, <2>2, NetStackConstants DEF NetInit, NetTypeOK
<1>3. Messages  BY DEF NetInit, Messages
<1>4. ASSUME NEW c \in Conns  PROVE RelayInv(c)
  <2>1. conn[c] = NewConn /\ server[c] = [sent |-> 0, recv |-> 0, fin |-> FALSE, sawFin |-> FALSE]
        /\ handler[c] = "opening"
    BY DEF NetInit
  <2>2. EntryOrder(c)  BY <2>1 DEF EntryOrder, NewConn, NetInit
  <2>3. Fresh(c)  BY <2>1 DEF Fresh, NewConn, NetInit
  <2>4. UploadTask(c) /\ UploadKept(c) /\ FinLast(c)
    BY <2>1 DEF UploadTask, UploadKept, FinLast, Relaying
  <2>5. Carries(<<>>, 0, 0)  BY CarriesNone
  <2>6. DownloadKept(c)  BY <2>1, <2>5 DEF DownloadKept, NewConn, NetInit
  <2> QED  BY <2>2, <2>3, <2>4, <2>6 DEF RelayInv
<1> QED  BY <1>2, <1>3, <1>4 DEF NetInv

LEMMA NetNextInv == NetInv /\ [NetNext]_netVars => NetInv'
<1> SUFFICES ASSUME NetInv, [NetNext]_netVars  PROVE NetInv'  OBVIOUS
<1>1. CASE UNCHANGED netVars
  <2>1. NetTypeOK' /\ Messages'  BY <1>1 DEF NetInv, NetTypeOK, Messages, netVars
  <2>2. ASSUME NEW d \in Conns  PROVE RelayInv(d)'
    <3>1. Same(d) /\ deferred' = deferred /\ stack' = stack /\ dataIn' = dataIn
      BY <1>1 DEF Same, netVars
    <3>2. Grows(dataIn, dataIn', d)  BY <3>1, GrowsSame DEF NetInv, NetTypeOK
    <3> QED  BY <3>1, <3>2, Untouched DEF NetInv
  <2> QED  BY <2>1, <2>2 DEF NetInv
<1>2. CASE Loop
  BY <1>2, RoundInv, TakeDataInv, RunReturnsInv, OpenTcpInv DEF Loop
<1>3. ASSUME NEW c \in Conns, Relay(c)  PROVE NetInv'
  BY <1>3, OpenedInv, FailedInv, UpReadInv, UpSendInv, UpCloseInv, DownWriteInv, DownEndsInv,
     ClientEndsInv DEF Relay
<1> QED  BY <1>1, <1>2, <1>3, NetworkInv DEF NetNext

\* The end of an upload that the server sees, and the end of a download that the
\* client sees, are the ends of what was sent (netstack.rs, socks.rs).
THEOREM StreamsCompleteAlways == NetSpec => []StreamsComplete
<1>1. NetInv => StreamsComplete
  <2> SUFFICES ASSUME NetInv  PROVE StreamsComplete  OBVIOUS
  <2>1. UploadComplete  BY DEF NetInv, RelayInv, FinLast, Relaying, UploadComplete
  <2>2. ASSUME NEW c \in Conns, handler[c] = "done", client[c] # "gone", ~conn[c].cut
        PROVE  got[c] = server[c].sent
    <3>1. /\ conn[c].toApp = <<>> /\ ~conn[c].entry
          /\ Carries(conn[c].toApp, got[c], server[c].sent - conn[c].rx)
      BY <2>2 DEF NetInv, RelayInv, DownloadKept
    <3>2. conn[c].rx = 0  BY <3>1 DEF NetInv, RelayInv, EntryOrder
    <3>3. server[c].sent \in Nat /\ got[c] \in Nat  BY Counts DEF NetInv
    <3>4. server[c].sent - conn[c].rx = server[c].sent  BY <3>2, <3>3
    <3> QED  BY <3>1, <3>3, <3>4, CarriesEmpty
  <2> QED  BY <2>1, <2>2 DEF NetInv, DownloadComplete, StreamsComplete
<1> QED  BY <1>1, NetInitInv, NetNextInv, PTL DEF NetSpec

\* A download is cut off only for a client whose channel is full, for one that
\* has gone, or at the end of the tunnel (the last block of service_tcp).
THEOREM CutOnlyWhenFullAlways == NetSpec => CutOnlyWhenFull
<1> DEFINE Cause ==
      \A c \in Conns :
        conn'[c].cut /\ ~conn[c].cut
        => \/ stack' = "ended" \/ ~Listens(c)
           \/ Len(conn'[c].toApp) = QueueSize
<1>1. NetInv /\ [NetNext]_netVars => [Cause]_netVars
  <2> SUFFICES ASSUME NetInv, NetNext, NEW c \in Conns, conn'[c].cut, ~conn[c].cut
               PROVE  \/ stack' = "ended" \/ ~Listens(c)
                      \/ Len(conn'[c].toApp) = QueueSize
    OBVIOUS
  <2>t. conn \in [Conns -> ConnType]  BY DEF NetInv, NetTypeOK
  <2>1. CASE Round  BY <2>1, RoundFacts
  <2>2. CASE RunReturns  BY <2>2 DEF RunReturns
  <2>3. CASE TakeData
    <3> DEFINE m == Head(dataIn)
               h == Handle(conn[m.id], m)
    <3>1. m \in Message /\ m.id \in Conns
      <4>1. dataIn \in Seq(Message) /\ dataIn # <<>>
        BY <2>3 DEF TakeData, NetInv, NetTypeOK
      <4>2. m \in Message  BY <4>1, HeadTailProperties
      <4> HIDE DEF m
      <4> QED  BY <4>2 DEF Message
    <3>2. conn' = [conn EXCEPT ![m.id] = h.r]  BY <2>3 DEF TakeData
    <3>3. h.r.cut = conn[m.id].cut  BY <2>t, <3>1, HandleFacts
    <3> QED  BY <2>t, <3>1, <3>2, <3>3
  <2>4. ASSUME NEW d \in Conns, OpenTcp(d)  PROVE FALSE
    BY <2>4, <2>t DEF OpenTcp, ConnType
  <2>5. ASSUME NEW d \in Conns, Network(d)  PROVE FALSE
    BY ZenonT(60), <2>5, <2>t DEF Network, Accepted, Delivered, FinAcked, ServerSends, ServerFin,
       ServerResets, ConnType
  <2>6. ASSUME NEW d \in Conns, Relay(d)  PROVE FALSE
    BY <2>6, <2>t DEF Relay, Opened, NotOpened, GivesUp, UpRead, UpSend, UpClose, DownWrite,
       DownEnds, ClientEnds, ConnType
  <2> QED  BY <2>1, <2>2, <2>3, <2>4, <2>5, <2>6 DEF NetNext, Loop
<1>2. NetSpec => [][Cause]_netVars  BY <1>1, NetInitInv, NetNextInv, PTL DEF NetSpec
<1> QED  BY <1>2 DEF CutOnlyWhenFull

-----------------------------------------------------------------------------
(* The capsules of a CONNECT-IP stream (Capsules).                         *)

\* The variables that CapsulesTypeOK leaves open.
CapShape ==
  /\ CapsulesTypeOK
  /\ stackQueue \in Seq(Nat) /\ delivered \in Seq(Nat) /\ stackUp \in BOOLEAN

\* While no byte is lost the buffer begins where a capsule does.
OnBoundary ==
  ~overflowed => lo = StreamBytes(stream) \/ AtHead # {}

CapInv == CapShape /\ OnBoundary /\ CapsulesInStep /\ DrainedUnlessHalted

\* A set of numbers that is not empty has a least one.
LEMMA LeastNumber ==
  ASSUME NEW S \in SUBSET Nat, S # {}
  PROVE  \E m \in S : \A n \in S : m <= n
<1>1. PICK m \in S : \A y \in S : <<y, m>> \notin OpToRel(<, Nat)
  BY NatLessThanWellFounded, WFMin
<1>2. \A y \in S : ~(y < m)  BY <1>1 DEF OpToRel
<1> QED  BY <1>2

\* What CapsuleConstants says of the stream at hand.
LEMMA StreamFacts ==
  ASSUME stream \in Streams
  PROVE  /\ Len(stream) \in Nat
         /\ \A i \in 1..Len(stream) :
              /\ stream[i].at \in Nat /\ stream[i].len \in Nat
              /\ EndOf(stream[i]) \in Nat /\ stream[i].at + 2 <= EndOf(stream[i])
              /\ EndOf(stream[i]) <= StreamBytes(stream)
              /\ EndOf(stream[i]) = StreamBytes(stream)
                 \/ \E j \in 1..Len(stream) : stream[j].at = EndOf(stream[i])
         /\ \A i, j \in 1..Len(stream) : i < j => EndOf(stream[i]) <= stream[j].at
         /\ stream # <<>> => 1 \in 1..Len(stream) /\ stream[1].at = 0
         /\ StreamBytes(stream) \in Nat
<1> DEFINE n == Len(stream)
<1>1. stream \in Seq([kind : CapKinds, len : CapLens, at : Nat]) /\ LaidOut(stream) /\ BufCap \in Nat
  BY CapsuleConstants
<1>2. n \in Nat /\ (stream # <<>> => n >= 1) /\ (stream = <<>> => n = 0)
      /\ \A i \in 1..n : stream[i] \in [kind : CapKinds, len : CapLens, at : Nat]
  <2> DEFINE R == [kind : CapKinds, len : CapLens, at : Nat]
  <2>1. stream \in Seq(R)  BY <1>1
  <2> HIDE DEF R
  <2>2. n \in Nat /\ \A i \in 1..n : stream[i] \in R  BY <2>1, LenProperties, ElementOfSeq
  <2>3. n = 0 <=> stream = <<>>  BY <2>1, EmptySeq
  <2> HIDE DEF n
  <2> QED  BY <2>2, <2>3 DEF R
<1>3. \A i \in 1..n : stream[i].at \in Nat /\ stream[i].len \in Nat
  BY <1>1, <1>2 DEF CapLens
<1>4. \A i \in 1..n : EndOf(stream[i]) \in Nat /\ stream[i].at + 2 <= EndOf(stream[i])
  BY <1>3 DEF EndOf
<1>0. /\ \A i \in 1..n - 1 : stream[i + 1].at = EndOf(stream[i])
      /\ (stream # <<>> => stream[1].at = 0)
  BY <1>1 DEF LaidOut
<1>5. /\ \A i, j \in 1..n : i < j => EndOf(stream[i]) <= stream[j].at
      /\ \A i \in 1..n - 1 : stream[i + 1].at = EndOf(stream[i])
      /\ (stream # <<>> => stream[1].at = 0)
  <2> HIDE DEF n
  <2> SUFFICES ASSUME NEW i \in 1..n, \E j \in 1..n : i < j /\ ~(EndOf(stream[i]) <= stream[j].at)
               PROVE  FALSE
    BY <1>0
  <2> DEFINE S == {j \in 1..n : i < j /\ ~(EndOf(stream[i]) <= stream[j].at)}
  <2>1. S \in SUBSET Nat /\ S # {}  BY <1>2
  <2>2. PICK j \in S : \A k \in S : j <= k
    <3> HIDE DEF S
    <3> QED  BY <2>1, LeastNumber
  <2>3. j \in 1..n /\ i < j /\ ~(EndOf(stream[i]) <= stream[j].at)  BY <2>2
  <2> DEFINE k == j - 1
  <2>4. k \in 1..n - 1 /\ k \in 1..n /\ k + 1 = j /\ k < j /\ k \in Nat /\ j \in Nat /\ i \in Nat
    BY <1>2, <2>3
  <2> HIDE DEF k
  <2>5. stream[j].at = EndOf(stream[k])  BY <1>0, <2>4
  <2>6. k # i
    <3> SUFFICES ASSUME k = i  PROVE FALSE  OBVIOUS
    <3>1. EndOf(stream[i]) \in Nat  BY <1>4
    <3> HIDE DEF S
    <3> QED  BY <3>1, <2>3, <2>5
  <2>7. i < k  BY <2>3, <2>4, <2>6
  <2>8. k \notin S
    <3> HIDE DEF S
    <3> QED  BY <2>2, <2>4, <2>1
  <2>9. EndOf(stream[i]) <= stream[k].at  BY <2>4, <2>7, <2>8
  <2>10. stream[k].at + 2 <= EndOf(stream[k]) /\ stream[k].at \in Nat
         /\ EndOf(stream[k]) \in Nat /\ EndOf(stream[i]) \in Nat
    BY <1>3, <1>4, <2>4
  <2> HIDE DEF S
  <2> QED  BY <2>3, <2>5, <2>9, <2>10
<1>6. StreamBytes(stream) \in Nat /\ (n >= 1 => StreamBytes(stream) = EndOf(stream[n]))
  BY <1>2, <1>4 DEF StreamBytes
<1> HIDE DEF n
<1>7. ASSUME NEW i \in 1..n
      PROVE  /\ EndOf(stream[i]) <= StreamBytes(stream)
             /\ \/ EndOf(stream[i]) = StreamBytes(stream)
                \/ \E j \in 1..n : stream[j].at = EndOf(stream[i])
  <2>1. CASE i = n  BY <1>2, <1>6, <1>7, <1>4, <2>1
  <2>2. CASE i < n
    <3>1. n \in 1..n /\ i + 1 \in 1..n /\ i \in 1..n - 1  BY <1>2, <1>7, <2>2
    <3>2. EndOf(stream[i]) <= stream[n].at /\ stream[n].at + 2 <= EndOf(stream[n])
      BY <1>4, <1>5, <1>7, <2>2, <3>1
    <3>3. EndOf(stream[i]) <= EndOf(stream[n])
      <4> DEFINE a == EndOf(stream[i])
                 b == stream[n].at
                 e == EndOf(stream[n])
      <4>1. a \in Nat /\ b \in Nat /\ e \in Nat /\ a <= b /\ b + 2 <= e
        BY <1>3, <1>4, <3>1, <3>2
      <4> HIDE DEF a, b, e
      <4>2. a <= e  BY <4>1
      <4> QED  BY <4>2 DEF a, e
    <3>4. stream[i + 1].at = EndOf(stream[i])  BY <1>5, <3>1
    <3> QED  BY <1>2, <1>6, <2>2, <3>1, <3>3, <3>4
  <2> QED  BY <1>2, <1>7, <2>1, <2>2
<1> QED  BY <1>2, <1>3, <1>4, <1>5, <1>6, <1>7 DEF n

\* A capsule begins at one offset only, so it is the one that is read, and those behind
\* the parser are the ones before it.
LEMMA HeadFacts ==
  ASSUME stream \in Streams, NEW k \in AtHead
  PROVE  /\ k \in 1..Len(stream) /\ stream[k].at = lo
         /\ AtHead = {k} /\ Read = k
         /\ \A j \in 1..Len(stream) : CapsulesBehind(j) <=> j < k
         /\ \A j \in 1..Len(stream) : EndOf(stream[j]) <= EndOf(stream[k]) <=> j <= k
<1>1. k \in 1..Len(stream) /\ stream[k].at = lo  BY DEF AtHead
<1>2. \A i, j \in 1..Len(stream) : i < j => stream[i].at < stream[j].at /\ EndOf(stream[i]) < EndOf(stream[j])
  BY SMTT(60), StreamFacts
<1>3. AtHead = {k}
  <2>1. ASSUME NEW j \in AtHead  PROVE j = k
    <3>1. j \in 1..Len(stream) /\ stream[j].at = lo  BY <2>1 DEF AtHead
    <3>2. lo \in Nat /\ Len(stream) \in Nat  BY <1>1, StreamFacts
    <3>3. ~(j < k) /\ ~(k < j)  BY <1>1, <1>2, <3>1, <3>2
    <3> QED  BY <1>1, <3>1, <3>2, <3>3
  <2> QED  BY <2>1
<1>4. Read = k  BY <1>3 DEF Read
<1>5. ASSUME NEW j \in 1..Len(stream)
      PROVE  /\ CapsulesBehind(j) <=> j < k
             /\ EndOf(stream[j]) <= EndOf(stream[k]) <=> j <= k
  <2>0. Len(stream) \in Nat /\ j \in Int /\ k \in Int  BY <1>1, StreamFacts
  <2>1. CASE j < k  BY <1>1, <1>5, <2>0, <2>1, StreamFacts DEF CapsulesBehind
  <2>2. CASE j >= k
    <3>1. lo <= stream[j].at
      <4>1. stream[j].at \in Nat /\ lo \in Nat  BY <1>1, <1>5, StreamFacts
      <4>2. CASE j = k  BY <1>1, <4>1, <4>2
      <4>3. CASE j > k
        <5>1. stream[k].at < stream[j].at  BY <1>1, <1>2, <1>5, <4>3
        <5> QED  BY <1>1, <4>1, <5>1
      <4> QED  BY <2>0, <2>2, <4>2, <4>3
    <3>2. ~CapsulesBehind(j)  BY SMTT(60), <1>1, <1>5, <3>1, StreamFacts DEF CapsulesBehind
    <3>3. j > k => EndOf(stream[k]) < EndOf(stream[j])  BY <1>1, <1>2, <1>5
    <3> QED  BY <1>1, <1>5, <2>0, <2>2, <3>2, <3>3, StreamFacts
  <2> QED  BY <2>0, <2>1, <2>2
<1> QED  BY <1>1, <1>3, <1>4, <1>5

LEMMA CapsulesInitInv == CapsulesInit => CapInv
<1> SUFFICES ASSUME CapsulesInit  PROVE CapInv  OBVIOUS
<1>1. /\ capPath \in {"h2", "h3"} /\ stream \in Streams /\ came = 0 /\ lo = 0
      /\ draining = FALSE /\ stackQueue = <<>> /\ delivered = <<>> /\ dropped = {}
      /\ assigned = {} /\ overflowed = FALSE /\ stackUp = TRUE /\ halted = FALSE
  BY DEF CapsulesInit, CapsulesStart
<1>2. BufCap \in Nat /\ ToStack \in Nat  BY CapsuleConstants
<1>3. CapShape
  <2>1. came \in 0..StreamBytes(stream) /\ lo \in 0..came /\ came - lo <= BufCap
    BY <1>1, <1>2, StreamFacts
  <2>2. stackQueue \in Seq(Nat) /\ delivered \in Seq(Nat) /\ Len(stackQueue) = 0 /\ Len(delivered) = 0
    BY <1>1
  <2>3. Len(stackQueue) <= ToStack  BY <1>2, <2>2
  <2>4. \A i \in 1..Len(delivered) : delivered[i] \in 0..Len(stream)  BY <2>2
  <2>5. draining \in BOOLEAN /\ halted \in BOOLEAN /\ overflowed \in BOOLEAN /\ stackUp \in BOOLEAN
    BY <1>1
  <2> QED  BY <1>1, <2>1, <2>2, <2>3, <2>4, <2>5 DEF CapShape, CapsulesTypeOK, Buffered
<1>4. OnBoundary
  <2>1. CASE stream = <<>>  BY <1>1, <2>1 DEF OnBoundary, StreamBytes
  <2>2. CASE stream # <<>>
    <3>1. 1 \in AtHead  BY <1>1, <2>2, StreamFacts DEF AtHead
    <3> QED  BY <3>1 DEF OnBoundary
  <2> QED  BY <2>1, <2>2
<1>5. \A i \in 1..Len(stream) : ~CapsulesBehind(i)
  BY SMTT(60), <1>1, StreamFacts DEF CapsulesBehind
<1>6. CapsulesInStep  BY <1>1, <1>5 DEF CapsulesInStep
<1>7. Heads = {}  BY <1>1 DEF Heads, Buffered
<1> QED  BY <1>3, <1>4, <1>6, <1>7 DEF CapInv, DrainedUnlessHalted

\* A chunk only adds bytes behind the head of the buffer, or throws it away.
LEMMA ChunkInv == CapInv /\ Chunk => CapInv'
<1> SUFFICES ASSUME CapInv, Chunk  PROVE CapInv'  OBVIOUS
<1>1. PICK n \in 1..MaxChunk : came + n <= StreamBytes(stream) /\ PushChunk(n) /\ came' = came + n
  BY DEF Chunk
<1>2. /\ UNCHANGED <<capPath, stream, stackQueue, delivered, dropped, assigned, stackUp>>
      /\ draining' \in BOOLEAN /\ (capPath = "h2" => draining' = TRUE)
      /\ halted' = (halted /\ ~draining')
  BY DEF Chunk
<1>3. CapShape /\ CapsulesTypeOK /\ stream \in Streams /\ came \in 0..StreamBytes(stream)
      /\ lo \in 0..came /\ Buffered <= BufCap /\ overflowed \in BOOLEAN
  BY DEF CapInv, CapShape, CapsulesTypeOK
<1>4. MaxChunk \in Nat /\ BufCap \in Nat /\ n \in Nat /\ StreamBytes(stream) \in Nat
      /\ came \in Nat /\ lo \in Nat
  BY <1>1, <1>3, CapsuleConstants, StreamFacts
<1>5. /\ came' \in 0..StreamBytes(stream) /\ lo' \in 0..came' /\ came' - lo' <= BufCap
      /\ overflowed' \in BOOLEAN /\ (~overflowed' => ~overflowed /\ lo' = lo)
  <2>1. CASE came - lo + n > BufCap
    <3>1. lo' = came + n /\ overflowed' = TRUE  BY <1>1, <2>1 DEF PushChunk, Buffered
    <3> QED  BY <1>1, <1>3, <1>4, <3>1
  <2>2. CASE ~(came - lo + n > BufCap)
    <3>1. lo' = lo /\ overflowed' = overflowed  BY <1>1, <2>2 DEF PushChunk, Buffered
    <3>2. came + n - lo <= BufCap /\ lo <= came + n  BY <1>3, <1>4, <2>2
    <3> QED  BY <1>1, <1>3, <1>4, <3>1, <3>2
  <2> QED  BY <2>1, <2>2
<1>6. halted' \in BOOLEAN  BY <1>2, <1>3 DEF CapsulesTypeOK
<1>7. CapShape'
  BY <1>2, <1>3, <1>5, <1>6 DEF CapShape, CapsulesTypeOK, Buffered
<1>8. OnBoundary'
  BY <1>2, <1>5 DEF CapInv, OnBoundary, AtHead
<1>9. CapsulesInStep'
  BY <1>2, <1>5 DEF CapInv, CapsulesInStep, CapsulesBehind
<1>10. DrainedUnlessHalted'  BY <1>2 DEF DrainedUnlessHalted
<1> QED  BY <1>7, <1>8, <1>9, <1>10 DEF CapInv

\* Taking the capsule at the head of the buffer moves the parser past exactly that one.
LEMMA TakeCapsuleInv == CapInv /\ TakeCapsule => CapInv'
<1> SUFFICES ASSUME CapInv, TakeCapsule  PROVE CapInv'  OBVIOUS
<1> DEFINE Packet(h) == Whole(h) /\ h.kind = "packet" /\ capPath = "h2"
           Room == stackUp /\ Len(stackQueue) < ToStack
<1>1. PICK h \in Heads :
        /\ lo' = (IF Whole(h) THEN EndOf(h) ELSE lo)
        /\ draining' = (Whole(h) /\ DrainGoesOn(h))
        /\ halted' = (Whole(h) /\ h.kind = "badAssign")
        /\ assigned' = (IF Whole(h) /\ h.kind = "assign" THEN assigned \union {Read} ELSE assigned)
        /\ stackQueue' = (IF Packet(h) /\ Room THEN Append(stackQueue, Read) ELSE stackQueue)
        /\ delivered' = (IF Packet(h) /\ Room THEN Append(delivered, Read) ELSE delivered)
        /\ dropped' = (IF Packet(h) /\ ~Room THEN dropped \union {Read} ELSE dropped)
  BY DEF TakeCapsule, Consume
<1>2. UNCHANGED <<capPath, stream, came, overflowed, stackUp>>  BY DEF TakeCapsule
<1>3. /\ CapShape /\ CapsulesTypeOK /\ stream \in Streams /\ came \in 0..StreamBytes(stream)
      /\ lo \in 0..came /\ Buffered <= BufCap /\ overflowed \in BOOLEAN
      /\ stackQueue \in Seq(Nat) /\ delivered \in Seq(Nat) /\ Len(stackQueue) <= ToStack
      /\ \A i \in 1..Len(delivered) : delivered[i] \in 0..Len(stream)
  BY DEF CapInv, CapShape, CapsulesTypeOK
<1>4. /\ BufCap \in Nat /\ ToStack \in Nat /\ StreamBytes(stream) \in Nat
      /\ came \in Nat /\ lo \in Nat /\ Len(stream) \in Nat
  BY <1>3, CapsuleConstants, StreamFacts
<1>5. h.len \in Nat /\ h.at = lo /\ (AtHead # {} => \E k \in AtHead : h = stream[k])
  <2>1. CASE AtHead # {}
    <3>1. PICK k \in AtHead : h = stream[k]  BY <1>1, <2>1 DEF Heads
    <3> QED  BY <1>3, <3>1, StreamFacts, HeadFacts
  <2>2. CASE AtHead = {}
    <3>1. h \in [kind : CapKinds, len : CapLens, at : {lo}]  BY <1>1, <2>2 DEF Heads
    <3> QED  BY <1>4, <2>2, <3>1 DEF CapLens
  <2> QED  BY <2>1, <2>2
<1>6. Read \in 0..Len(stream)
  <2>1. CASE AtHead = {}  BY <1>4, <2>1 DEF Read
  <2>2. CASE AtHead # {}
    <3>1. PICK k : k \in AtHead  BY <2>2
    <3> QED  BY <1>3, <1>4, <3>1, HeadFacts
  <2> QED  BY <2>1, <2>2
<1>7. lo' \in 0..came /\ came - lo' <= BufCap
  <2>1. CASE Whole(h)
    <3>1. lo' = h.at + h.len + 2  BY <1>1, <2>1 DEF EndOf
    <3>2. lo' = lo + h.len + 2 /\ came - lo >= h.len + 2 /\ came - lo <= BufCap
      BY <1>3, <1>5, <2>1, <3>1 DEF Whole, Buffered
    <3> QED  BY SMTT(60), <1>4, <1>5, <3>2
  <2>2. CASE ~Whole(h)
    <3>1. lo' = lo  BY <1>1, <2>2
    <3> QED  BY <1>3, <3>1 DEF Buffered
  <2> QED  BY <2>1, <2>2
<1> HIDE DEF Packet, Room
<1>8. CapShape'
  <2>1. Read \in Nat  BY <1>4, <1>6
  <2>2. stackQueue' \in Seq(Nat) /\ Len(stackQueue') <= ToStack
    <3>1. CASE Packet(h) /\ Room  BY <1>1, <1>3, <1>4, <2>1, <3>1, AppendProperties, LenProperties DEF Room
    <3>2. CASE ~(Packet(h) /\ Room)  BY <1>1, <1>3, <3>2
    <3> QED  BY <3>1, <3>2
  <2>3. delivered' \in Seq(Nat) /\ \A i \in 1..Len(delivered') : delivered'[i] \in 0..Len(stream)
    <3>1. CASE Packet(h) /\ Room  BY <1>1, <1>3, <1>4, <1>6, <2>1, <3>1, AppendProperties, LenProperties
    <3>2. CASE ~(Packet(h) /\ Room)  BY <1>1, <1>3, <3>2
    <3> QED  BY <3>1, <3>2
  <2>4. draining' \in BOOLEAN /\ halted' \in BOOLEAN  BY <1>1
  <2>5. capPath \in {"h2", "h3"} /\ stackUp \in BOOLEAN  BY <1>3 DEF CapShape, CapsulesTypeOK
  <2> QED  BY <1>2, <1>3, <1>7, <2>2, <2>3, <2>4, <2>5 DEF CapShape, CapsulesTypeOK, Buffered
<1>9. CASE overflowed
  BY <1>2, <1>8, <1>9 DEF CapInv, OnBoundary, CapsulesInStep, DrainedUnlessHalted
<1>10. CASE ~overflowed
  <2>1. Buffered >= 2  BY <1>1, <1>3, <1>4 DEF Heads, Buffered
  <2>2. lo # StreamBytes(stream)  BY <1>3, <1>4, <2>1 DEF Buffered
  <2>3. PICK k \in AtHead : h = stream[k]  BY <1>5, <1>10, <2>2 DEF CapInv, OnBoundary
  <2>4. /\ k \in 1..Len(stream) /\ stream[k].at = lo /\ AtHead = {k} /\ Read = k
        /\ \A j \in 1..Len(stream) : CapsulesBehind(j) <=> j < k
        /\ \A j \in 1..Len(stream) : EndOf(stream[j]) <= EndOf(stream[k]) <=> j <= k
    BY <1>3, HeadFacts
  <2>5. CASE ~Whole(h)
    <3>1. UNCHANGED <<lo, assigned, stackQueue, delivered, dropped>>
      BY <1>1, <2>5 DEF Packet
    <3>2. OnBoundary' /\ CapsulesInStep'
      BY <1>2, <3>1 DEF CapInv, OnBoundary, AtHead, CapsulesInStep, CapsulesBehind
    <3>3. Heads' = {stream[k]}
      BY <1>2, <2>1, <2>4, <3>1 DEF Heads, AtHead, Buffered
    <3>4. Buffered' < stream[k].len + 2
      BY SMTT(60), <1>2, <1>3, <1>4, <1>5, <2>3, <2>5, <3>1 DEF Whole, Buffered
    <3>w. ~Whole(stream[k])'
      BY SMTT(60), <1>2, <1>3, <1>4, <1>5, <2>3, <3>1, <3>4 DEF Whole, Buffered
    <3>5. DrainedUnlessHalted'  BY <1>2, <3>3, <3>w DEF DrainedUnlessHalted
    <3> QED  BY <1>8, <3>2, <3>5 DEF CapInv
  <2>6. CASE Whole(h)
    <3>1. lo' = EndOf(stream[k])  BY <1>1, <2>3, <2>6
    <3>2. OnBoundary'
      <4>1. CASE EndOf(stream[k]) = StreamBytes(stream)  BY <1>2, <3>1, <4>1 DEF OnBoundary
      <4>2. CASE \E j \in 1..Len(stream) : stream[j].at = EndOf(stream[k])
        <5>1. PICK j \in 1..Len(stream) : stream[j].at = EndOf(stream[k])  BY <4>2
        <5>2. j \in AtHead'  BY <1>2, <3>1, <5>1 DEF AtHead
        <5> QED  BY <5>2 DEF OnBoundary
      <4> QED  BY <1>3, <2>4, <4>1, <4>2, StreamFacts
    <3>3. \A j \in 1..Len(stream) : CapsulesBehind(j)' <=> CapsulesBehind(j) \/ j = k
      BY <1>2, <1>4, <2>4, <3>1 DEF CapsulesBehind
    <3>4. CapsulesInStep'
      <4> DEFINE Put == {delivered[i] : i \in 1..Len(delivered)}
                 Due == {i \in 1..Len(stream) : /\ capPath = "h2" /\ stream[i].kind = "packet"
                                                /\ CapsulesBehind(i)}
      <4>0. /\ \A i, j \in 1..Len(delivered) : i < j => delivered[i] < delivered[j]
            /\ Put \union dropped = Due
            /\ assigned = {i \in 1..Len(stream) : stream[i].kind = "assign" /\ CapsulesBehind(i)}
        BY <1>10 DEF CapInv, CapsulesInStep
      <4>1. assigned' = {i \in 1..Len(stream)' : stream[i].kind' = "assign" /\ CapsulesBehind(i)'}
        BY <1>1, <1>2, <2>3, <2>4, <2>6, <3>3, <4>0
      <4>2. CASE Packet(h) /\ Room
        <5>1. delivered' = Append(delivered, k) /\ dropped' = dropped  BY <1>1, <2>4, <4>2
        <5>2. /\ Len(delivered) \in Nat /\ Len(delivered') = Len(delivered) + 1
              /\ delivered'[Len(delivered) + 1] = k
              /\ \A i \in 1..Len(delivered) : delivered'[i] = delivered[i] /\ delivered[i] \in Nat
          BY <1>3, <1>4, <2>4, <5>1, AppendProperties, LenProperties, ElementOfSeq
        <5>3. \A i \in 1..Len(delivered) : delivered[i] < k
          BY <2>4, <4>0
        <5>4. \A i, j \in 1..Len(delivered') : i < j => delivered'[i] < delivered'[j]
          BY <4>0, <5>2, <5>3
        <5>5. {delivered'[i] : i \in 1..Len(delivered')} = Put \union {k}
          <6>1. \A i \in 1..Len(delivered') : delivered'[i] \in Put \union {k}
            BY <5>2
          <6>2. k \in {delivered'[i] : i \in 1..Len(delivered')}  BY <5>2
          <6>3. \A i \in 1..Len(delivered) : i \in 1..Len(delivered') /\ delivered[i] = delivered'[i]
            BY <5>2
          <6> QED  BY <6>1, <6>2, <6>3
        <5>6. h.kind = "packet" /\ capPath = "h2"  BY <4>2 DEF Packet
        <5>7. {i \in 1..Len(stream) : /\ capPath = "h2" /\ stream[i].kind = "packet"
                                      /\ CapsulesBehind(i)'} = Due \union {k}
          BY <2>3, <2>4, <3>3, <5>6
        <5> HIDE DEF Put, Due
        <5>8. {delivered'[i] : i \in 1..Len(delivered')} \union dropped'
              = {i \in 1..Len(stream) : /\ capPath = "h2" /\ stream[i].kind = "packet"
                                        /\ CapsulesBehind(i)'}
          BY <4>0, <5>1, <5>5, <5>7
        <5> QED  BY <1>2, <4>1, <5>4, <5>8 DEF CapsulesInStep
      <4>3. CASE Packet(h) /\ ~Room
        <5>1. delivered' = delivered /\ dropped' = dropped \union {k}  BY <1>1, <2>4, <4>3
        <5>6. h.kind = "packet" /\ capPath = "h2"  BY <4>3 DEF Packet
        <5>7. {i \in 1..Len(stream) : /\ capPath = "h2" /\ stream[i].kind = "packet"
                                      /\ CapsulesBehind(i)'} = Due \union {k}
          BY <2>3, <2>4, <3>3, <5>6
        <5>8. Put \union dropped'
              = {i \in 1..Len(stream) : /\ capPath = "h2" /\ stream[i].kind = "packet"
                                        /\ CapsulesBehind(i)'}
          <6> HIDE DEF Put, Due
          <6> QED  BY <4>0, <5>1, <5>7
        <5> QED  BY <1>2, <4>0, <4>1, <5>1, <5>8 DEF CapsulesInStep
      <4>4. CASE ~Packet(h)
        <5>1. delivered' = delivered /\ dropped' = dropped  BY <1>1, <4>4
        <5>2. ~(capPath = "h2" /\ stream[k].kind = "packet")  BY <2>3, <2>6, <4>4 DEF Packet
        <5>3. {i \in 1..Len(stream) : /\ capPath = "h2" /\ stream[i].kind = "packet"
                                      /\ CapsulesBehind(i)'} = Due
          BY <3>3, <5>2
        <5> QED  BY <1>2, <4>0, <4>1, <5>1, <5>3 DEF CapsulesInStep
      <4> QED  BY <4>2, <4>3, <4>4
    <3>5. DrainedUnlessHalted'
      <4>1. ~draining' /\ ~halted' /\ capPath = "h2" => ~stackUp
        BY <1>1, <2>6 DEF DrainGoesOn
      <4> QED  BY <1>2, <4>1 DEF DrainedUnlessHalted
    <3> QED  BY <1>8, <3>2, <3>4, <3>5 DEF CapInv
  <2> QED  BY <2>5, <2>6
<1> QED  BY <1>3, <1>9, <1>10

\* What the stack does to its queue is nothing to the parser.
LEMMA CapKept ==
  ASSUME CapInv,
         UNCHANGED <<capPath, stream, came, lo, delivered, dropped, assigned, overflowed, halted>>,
         stackQueue' \in Seq(Nat), Len(stackQueue') <= ToStack,
         draining' \in BOOLEAN, stackUp' \in BOOLEAN,
         \/ draining' = draining /\ (stackUp' => stackUp)
         \/ Heads = {}
  PROVE  CapInv'
<1>1. CapShape'  BY DEF CapInv, CapShape, CapsulesTypeOK, Buffered
<1>2. OnBoundary' /\ CapsulesInStep'
  <2>1. OnBoundary'  BY DEF CapInv, OnBoundary, AtHead
  <2>2. CapsulesInStep'  BY DEF CapInv, CapsulesInStep, CapsulesBehind
  <2> QED  BY <2>1, <2>2
<1>3. Heads' = Heads /\ Buffered' = Buffered  BY DEF Heads, AtHead, Buffered
<1>w. \A h : Whole(h)' <=> Whole(h)  BY <1>3 DEF Whole
<1>4. DrainedUnlessHalted'  BY <1>3, <1>w DEF CapInv, DrainedUnlessHalted
<1> QED  BY <1>1, <1>2, <1>4 DEF CapInv

LEMMA CapsulesNextInv == CapInv /\ [CapsulesNext]_capVars => CapInv'
<1> SUFFICES ASSUME CapInv, [CapsulesNext]_capVars  PROVE CapInv'  OBVIOUS
<1>0. stackQueue \in Seq(Nat) /\ Len(stackQueue) <= ToStack /\ ToStack \in Nat
      /\ draining \in BOOLEAN /\ stackUp \in BOOLEAN
  BY CapsuleConstants DEF CapInv, CapShape, CapsulesTypeOK
<1>1. CASE Chunk  BY <1>1, ChunkInv
<1>2. CASE TakeCapsule  BY <1>2, TakeCapsuleInv
<1>3. CASE DrainShort  BY <1>0, <1>3, CapKept DEF DrainShort
<1>4. CASE StackTakes
  <2>1. stackQueue' \in Seq(Nat) /\ Len(stackQueue') <= ToStack
    BY <1>0, <1>4, HeadTailProperties, LenProperties DEF StackTakes
  <2> QED  BY <1>0, <1>4, <2>1, CapKept DEF StackTakes
<1>5. CASE StackGoes
  <2>1. stackQueue' = <<>> /\ stackUp' = FALSE  BY <1>5 DEF StackGoes
  <2>2. stackQueue' \in Seq(Nat) /\ Len(stackQueue') <= ToStack  BY <1>0, <2>1
  <2> QED  BY <1>0, <1>5, <2>1, <2>2, CapKept DEF StackGoes
<1>6. CASE UNCHANGED capVars  BY <1>0, <1>6, CapKept DEF capVars
<1> QED  BY <1>1, <1>2, <1>3, <1>4, <1>5, <1>6 DEF CapsulesNext

\* For every stream, chunk size, buffer and queue, what the parser and the drain do to a stream
\* does not depend on its chunks (CapsuleParser::push and next, drain_capsules).
THEOREM ChunkingInvisibleAlways == CapsulesSpec => []ChunkingInvisible
<1>1. CapInv => ChunkingInvisible  BY DEF CapInv, CapShape, ChunkingInvisible
<1> QED  BY <1>1, CapsulesInitInv, CapsulesNextInv, PTL DEF CapsulesSpec
=============================================================================
