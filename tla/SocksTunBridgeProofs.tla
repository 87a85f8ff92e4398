------------------------ MODULE SocksTunBridgeProofs ------------------------
(***************************************************************************)
(* Theorems about one TCP flow through SocksTunBridge, for any number of    *)
(* sessions, segments and chunks, any queue and any space of sequence       *)
(* numbers that is larger than what the application sends.                  *)
(***************************************************************************)
EXTENDS SocksTunBridge, SequenceTheorems, TLAPS

Packets == [from : Sessions, seq : Nat, kind : Kinds]
ReaderStates == {"idle", "syn", "data", "fin", "rst", "replace", "create"}

\* The types of the fields, and the places a session can be at before it has
\* been created.
BridgeShape ==
  /\ client \in {"new", "syn", "est"} /\ sent \in 0 .. MaxSegments
  /\ fin \in {"no", "bare", "data"} /\ rst \in BOOLEAN
  /\ conn \in 0 .. created /\ got \in Nat
  /\ isRunning \in BOOLEAN /\ created \in 0 .. MaxSessions
  /\ table \in 0 .. created /\ dropped \in BOOLEAN
  /\ reader \in ReaderStates \X Nat
  /\ tun \in Seq(Packets) /\ \A i \in 1 .. Len(tun) : tun[i].from <= created
  /\ pc \in [Sessions -> WorkerPCs] /\ rpc \in [Sessions -> DownloadPCs]
  /\ sock \in [Sessions -> {"none", "open", "closed"}]
  /\ isClosed \in [Sessions -> BOOLEAN] /\ connected \in [Sessions -> BOOLEAN]
  /\ clientClosed \in [Sessions -> BOOLEAN] /\ outputShutdown \in [Sessions -> BOOLEAN]
  /\ synAckSent \in [Sessions -> BOOLEAN]
  /\ myAck \in [Sessions -> 0 .. SeqSpace - 1] /\ mySeq \in [Sessions -> Nat]
  /\ queue \in [Sessions -> Seq(Nat)] /\ written \in [Sessions -> Seq(Nat)]
  /\ \A s \in Sessions : Len(queue[s]) <= QueueSize
  /\ \A s \in Sessions : s > created => pc[s] = "unborn" /\ rpc[s] = "unborn"

\* The numbers of the flow.
LEMMA BridgeNumbers ==
  /\ SeqSpace \in Nat /\ SeqSpace > 0 /\ InitialSeq \in 0 .. SeqSpace - 1
  /\ Sessions \subseteq Nat /\ 0 \notin Sessions
  /\ \A n \in Nat : SeqOf(n) \in 0 .. SeqSpace - 1
BY BridgeConstantsOK DEF Sessions, SeqOf

LEMMA BridgeInitShape == Init => BridgeShape
<1> SUFFICES ASSUME Init PROVE BridgeShape
  OBVIOUS
<1>1. <<>> \in Seq(Nat) /\ <<>> \in Seq(Packets) /\ Len(<<>>) = 0  BY EmptySeq
<1>2. <<"idle", 0>> \in ReaderStates \X Nat  BY DEF ReaderStates
<1>3. /\ tun \in Seq(Packets) /\ \A i \in 1 .. Len(tun) : tun[i].from <= created
      /\ queue \in [Sessions -> Seq(Nat)] /\ written \in [Sessions -> Seq(Nat)]
      /\ \A s \in Sessions : Len(queue[s]) <= QueueSize
  BY <1>1, BridgeConstantsOK DEF Init
<1>4. /\ reader \in ReaderStates \X Nat
      /\ pc \in [Sessions -> WorkerPCs] /\ rpc \in [Sessions -> DownloadPCs]
      /\ myAck \in [Sessions -> 0 .. SeqSpace - 1] /\ mySeq \in [Sessions -> Nat]
      /\ \A s \in Sessions : s > created => pc[s] = "unborn" /\ rpc[s] = "unborn"
  BY <1>2, BridgeConstantsOK DEF Init, WorkerPCs, DownloadPCs
<1>5. /\ client \in {"new", "syn", "est"} /\ sent \in 0 .. MaxSegments
      /\ fin \in {"no", "bare", "data"} /\ conn \in 0 .. created /\ got \in Nat
      /\ created \in 0 .. MaxSessions /\ table \in 0 .. created
  BY BridgeConstantsOK DEF Init
<1>7. rst \in BOOLEAN /\ isRunning \in BOOLEAN /\ dropped \in BOOLEAN
  BY Zenon DEF Init
<1>6. /\ sock \in [Sessions -> {"none", "open", "closed"}]
      /\ isClosed \in [Sessions -> BOOLEAN] /\ connected \in [Sessions -> BOOLEAN]
      /\ clientClosed \in [Sessions -> BOOLEAN] /\ outputShutdown \in [Sessions -> BOOLEAN]
      /\ synAckSent \in [Sessions -> BOOLEAN]
  BY DEF Init
<1> QED  BY <1>3, <1>4, <1>5, <1>6, <1>7 DEF BridgeShape

\* What tunOutputQueue may lose, and that a loss is remembered.
Rest == {q \in Seq(Packets) :
           \A i \in 1 .. Len(q) : \E j \in 1 .. Len(tun) : q[i] = tun[j]}

LEMMA EvictedRest == BridgeShape => Evicted \subseteq Rest
<1> SUFFICES ASSUME BridgeShape PROVE tun \in Rest /\ (tun # <<>> => Tail(tun) \in Rest)
  BY DEF Evicted
<1>1. tun \in Seq(Packets)  BY DEF BridgeShape
<1>2. tun \in Rest  BY <1>1 DEF Rest
<1>3. ASSUME tun # <<>> PROVE Tail(tun) \in Rest
  <2>1. Tail(tun) \in Seq(Packets) /\ Len(Tail(tun)) = Len(tun) - 1
        /\ \A i \in 1 .. Len(Tail(tun)) : Tail(tun)[i] = tun[i + 1]
    BY <1>1, <1>3, HeadTailProperties
  <2>2. Len(tun) \in Nat  BY <1>1, LenProperties
  <2>3. \A i \in 1 .. Len(Tail(tun)) : i + 1 \in 1 .. Len(tun)  BY <2>1, <2>2
  <2> QED  BY <2>1, <2>3 DEF Rest
<1> QED  BY <1>2, <1>3

LEMMA AckKeeps ==
  ASSUME BridgeShape, sendAck
  PROVE  /\ tun' \in Seq(Packets) /\ dropped' \in BOOLEAN
         /\ \A i \in 1 .. Len(tun') : \E j \in 1 .. Len(tun) : tun'[i] = tun[j]
         /\ ~dropped' => ~dropped /\ tun' = tun
<1>1. tun' \in Rest  BY EvictedRest DEF sendAck
<1> QED  BY <1>1 DEF Rest, sendAck, BridgeShape

LEMMA EnqueueKeeps ==
  ASSUME BridgeShape, NEW p \in Packets, Enqueue(p) \/ EnqueueCritical(p)
  PROVE  /\ tun' \in Seq(Packets) /\ dropped' \in BOOLEAN
         /\ \A i \in 1 .. Len(tun') : tun'[i] = p \/ \E j \in 1 .. Len(tun) : tun'[i] = tun[j]
         /\ ~dropped' => ~dropped /\ tun' = Append(tun, p)
<1>1. dropped' \in BOOLEAN /\ (~dropped' => ~dropped /\ tun' = Append(tun, p))
  <2>1. dropped' = (dropped \/ tun' # Append(tun, p))  BY DEF Enqueue, EnqueueCritical
  <2> QED  BY <2>1, Zenon
<1>2. PICK q \in Rest : tun' \in Offered(q, p)
  <2>1. tun \in Rest /\ Evicted \subseteq Rest
    BY EvictedRest DEF BridgeShape, Rest
  <2> QED  BY <2>1 DEF Enqueue, EnqueueCritical
<1>3. CASE tun' = q  BY <1>1, <1>3 DEF Rest
<1>4. CASE tun' = Append(q, p)
  <2>1. q \in Seq(Packets) /\ Len(q) \in Nat  BY LenProperties DEF Rest
  <2>2. tun' \in Seq(Packets) /\ Len(tun') = Len(q) + 1
        /\ \A i \in 1 .. Len(q) : tun'[i] = q[i]
    BY <1>4, <2>1, AppendProperties
  <2>3. tun'[Len(q) + 1] = p  BY <1>4, <2>1, AppendProperties
  <2>4. \A i \in 1 .. Len(tun') : i \in 1 .. Len(q) \/ i = Len(q) + 1  BY <2>1, <2>2
  <2> QED  BY <1>1, <2>2, <2>3, <2>4 DEF Rest
<1> QED  BY <1>2, <1>3, <1>4 DEF Offered

\* The queue of a session and what it has written are sequences of segments.
LEMMA WriteKeeps ==
  ASSUME NEW q \in Seq(Nat), NEW w \in Seq(Nat), NEW n \in 1 .. Len(q)
  PROVE  LET rest == SubSeq(q, n + 1, Len(q))
             more == w \o SubSeq(q, 1, n)
         IN  /\ rest \in Seq(Nat) /\ more \in Seq(Nat)
             /\ Len(rest) = Len(q) - n /\ Len(more) = Len(w) + n
             /\ \A i \in 1 .. Len(rest) : rest[i] = q[n + i]
             /\ \A i \in 1 .. Len(w) : more[i] = w[i]
             /\ \A i \in 1 .. n : more[Len(w) + i] = q[i]
<1> DEFINE rest == SubSeq(q, n + 1, Len(q))
           front == SubSeq(q, 1, n)
           more == w \o front
<1>1. Len(q) \in Nat /\ Len(w) \in Nat /\ n \in Nat  BY LenProperties
<1>2. \A i \in n + 1 .. Len(q) : q[i] \in Nat  BY <1>1, ElementOfSeq
<1>3. \A i \in 1 .. n : q[i] \in Nat  BY <1>1, ElementOfSeq
<1>4. rest \in Seq(Nat) /\ Len(rest) = Len(q) - n /\ \A i \in 1 .. Len(rest) : rest[i] = q[n + i]
  <2>1. /\ rest \in Seq(Nat)
        /\ Len(rest) = IF n + 1 <= Len(q) THEN Len(q) - (n + 1) + 1 ELSE 0
        /\ \A i \in 1 .. Len(q) - (n + 1) + 1 : rest[i] = q[(n + 1) + i - 1]
    BY <1>1, <1>2, SubSeqProperties
  <2>2. Len(rest) = Len(q) - n  BY <1>1, <2>1
  <2>3. \A i \in 1 .. Len(rest) : rest[i] = q[n + i]
    <3> SUFFICES ASSUME NEW i \in 1 .. Len(rest) PROVE rest[i] = q[n + i]
      OBVIOUS
    <3>1. i \in 1 .. Len(q) - (n + 1) + 1 /\ (n + 1) + i - 1 = n + i  BY <1>1, <2>2
    <3> QED  BY <2>1, <3>1
  <2> QED  BY <2>1, <2>2, <2>3
<1>5. front \in Seq(Nat) /\ Len(front) = n /\ \A i \in 1 .. n : front[i] = q[i]
  <2>1. /\ front \in Seq(Nat)
        /\ Len(front) = IF 1 <= n THEN n - 1 + 1 ELSE 0
        /\ \A i \in 1 .. n - 1 + 1 : front[i] = q[1 + i - 1]
    BY <1>1, <1>3, SubSeqProperties
  <2>2. \A i \in 1 .. n : i \in 1 .. n - 1 + 1 /\ 1 + i - 1 = i  BY <1>1
  <2> QED  BY <1>1, <2>1, <2>2
<1> HIDE DEF rest, front
<1>6. /\ more \in Seq(Nat) /\ Len(more) = Len(w) + n
      /\ \A i \in 1 .. Len(w) : more[i] = w[i]
      /\ \A i \in 1 .. n : more[Len(w) + i] = q[i]
  <2>1. /\ more \in Seq(Nat) /\ Len(more) = Len(w) + Len(front)
        /\ \A i \in 1 .. Len(w) + Len(front) :
             more[i] = IF i <= Len(w) THEN w[i] ELSE front[i - Len(w)]
    BY <1>5, ConcatProperties
  <2>2. \A i \in 1 .. Len(w) : i \in 1 .. Len(w) + Len(front) /\ i <= Len(w)  BY <1>1, <1>5
  <2>3. \A i \in 1 .. n : /\ Len(w) + i \in 1 .. Len(w) + Len(front)
                          /\ ~(Len(w) + i <= Len(w)) /\ Len(w) + i - Len(w) = i
    BY <1>1, <1>5
  <2> QED  BY <1>5, <2>1, <2>2, <2>3
<1> QED  BY <1>4, <1>6 DEF rest, front

\* The application and the TUN writer.
LEMMA ClientShape ==
  ASSUME BridgeShape, SendSyn \/ SendSegment \/ SendFin \/ SendRst \/ Deliver
  PROVE  BridgeShape'
<1> USE DEF BridgeShape, flags, upload
<1>1. CASE SendSyn  BY <1>1 DEF SendSyn
<1>2. CASE SendSegment  BY <1>2, BridgeConstantsOK DEF SendSegment
<1>3. CASE SendFin  BY <1>3, BridgeConstantsOK DEF SendFin
<1>4. CASE SendRst  BY <1>4 DEF SendRst
<1>5. CASE Deliver
  <2>1. Tail(tun) \in Rest /\ tun \in Seq(Packets) /\ Len(tun) \in Nat /\ tun # <<>>
        /\ Len(Tail(tun)) = Len(tun) - 1 /\ \A i \in 1 .. Len(Tail(tun)) : Tail(tun)[i] = tun[i + 1]
    <3>1. tun \in Seq(Packets) /\ tun # <<>>  BY <1>5 DEF Deliver
    <3>2. Tail(tun) \in Seq(Packets) /\ Len(Tail(tun)) = Len(tun) - 1
          /\ \A i \in 1 .. Len(Tail(tun)) : Tail(tun)[i] = tun[i + 1]
      BY <3>1, HeadTailProperties
    <3>3. Len(tun) \in Nat  BY <3>1, LenProperties
    <3>4. \A i \in 1 .. Len(Tail(tun)) : i + 1 \in 1 .. Len(tun)  BY <3>2, <3>3
    <3> QED  BY <3>1, <3>2, <3>3, <3>4 DEF Rest
  <2>2. Head(tun) = tun[1] /\ 1 \in 1 .. Len(tun) /\ tun[1] \in Packets
    BY <2>1, HeadTailProperties, ElementOfSeq, EmptySeq
  <2>3. Head(tun).from \in Nat /\ Head(tun).from <= created /\ Head(tun).seq \in Nat
    BY <2>2, BridgeNumbers DEF Packets
  <2>4. client' \in {"new", "syn", "est"} /\ conn' \in 0 .. created /\ got' \in Nat
    BY SMTT(60), <1>5, <2>3 DEF Deliver
  <2>5. tun' \in Seq(Packets) /\ \A i \in 1 .. Len(tun') : tun'[i].from <= created
    BY <1>5, <2>1 DEF Deliver, Rest
  <2>6. UNCHANGED <<sent, fin, rst, isRunning, table, created, reader, dropped,
                 pc, rpc, sock, isClosed, connected, flags, upload, mySeq>>
    BY <1>5 DEF Deliver
  <2> HIDE DEF BridgeShape
  <2> QED  BY <2>4, <2>5, <2>6 DEF BridgeShape, flags, upload
<1> QED  BY <1>1, <1>2, <1>3, <1>4, <1>5

\* What close() does, whoever calls it.
LEMMA CloseShape ==
  ASSUME BridgeShape, NEW s, s \in Sessions, NEW seen \in BOOLEAN, close(s, seen)
  PROVE  /\ isClosed' \in [Sessions -> BOOLEAN]
         /\ sock' \in [Sessions -> {"none", "open", "closed"}]
         /\ isClosed'[s] /\ \A t \in Sessions : isClosed[t] => isClosed'[t]
         /\ \A t \in Sessions \ {s} : isClosed'[t] = isClosed[t]
BY DEF close, BridgeShape

LEMMA RemoveShape ==
  ASSUME BridgeShape, NEW s, remove(s)
  PROVE  table' \in 0 .. created /\ (table' = table \/ (table = s /\ table' = 0))
BY DEF remove, BridgeShape

\* What the reader reads.
LEMMA ReadShape ==
  ASSUME BridgeShape, NEW p \in InFlight
  PROVE  /\ p \in {"syn", "data", "fin", "rst"} \X Nat
         /\ p[1] = "syn" => client # "new"
         /\ p[1] = "data" => fin = "data" \/ p[2] \in 1 .. sent
         /\ p[1] = "fin" => fin # "no" /\ (fin # "data" => p[2] = sent + 1)
         /\ p[1] = "rst" => rst
<1>1. sent \in Nat  BY DEF BridgeShape
<1> QED  BY <1>1 DEF InFlight

\* The TUN reader.
LEMMA ReaderShape ==
  ASSUME BridgeShape, reader[1] = "replace" => reader[2] \in Sessions, Handle
  PROVE  BridgeShape'
<1>1. <<"idle", 0>> \in ReaderStates \X Nat /\ <<"create", 0>> \in ReaderStates \X Nat
      /\ (table \in Nat => <<"replace", table>> \in ReaderStates \X Nat)
  BY DEF ReaderStates
<1>2. table \in Nat /\ (table # 0 => table \in Sessions) /\ created \in Nat
  BY BridgeConstantsOK DEF BridgeShape, Sessions
<1>3. reader[2] \in Nat /\ reader[1] \in ReaderStates  BY DEF BridgeShape
<1>4. CASE SynKnown \/ SynNew \/ Ignore \/ SynConnected \/ Early
  <2>1. /\ UNCHANGED <<readerRest, table, created, tun, dropped, sock, isClosed,
                       clientClosed, myAck, queue>>
        /\ reader' \in {<<"idle", 0>>, <<"replace", table>>, <<"create", 0>>}
    BY <1>4 DEF SynKnown, SynNew, Ignore, SynConnected, Early
  <2>2. reader' \in ReaderStates \X Nat  BY <1>1, <1>2, <2>1
  <2> QED  BY <2>1, <2>2 DEF BridgeShape, readerRest, app
<1>5. CASE Refuse
  <2>1. reader' = <<"idle", 0>> /\ sendAck
        /\ UNCHANGED <<readerRest, table, created, sock, isClosed, clientClosed, myAck, queue>>
    BY <1>5 DEF Refuse
  <2>2. tun' \in Seq(Packets) /\ dropped' \in BOOLEAN
        /\ \A i \in 1 .. Len(tun') : tun'[i].from <= created
    BY <2>1, AckKeeps DEF BridgeShape
  <2> QED  BY <1>1, <2>1, <2>2 DEF BridgeShape, readerRest, app
\* Closing a session, of the table or the one to be replaced.
<1>6. ASSUME NEW t \in Sessions, closeForeign(t), reader' \in ReaderStates \X Nat,
             UNCHANGED <<readerRest, created, tun, dropped, clientClosed, myAck, queue>>
      PROVE  BridgeShape'
  <2>1. PICK seen \in BOOLEAN : close(t, seen)  BY <1>6 DEF closeForeign
  <2>2. remove(t)  BY <1>6 DEF closeForeign
  <2>3. isClosed' \in [Sessions -> BOOLEAN] /\ sock' \in [Sessions -> {"none", "open", "closed"}]
    BY <2>1, CloseShape
  <2>4. table' \in 0 .. created  BY <2>2, RemoveShape
  <2> QED  BY <1>6, <2>3, <2>4 DEF BridgeShape, readerRest, app
<1>7. CASE SynReplace  BY <1>1, <1>6, <1>7 DEF SynReplace
<1>8. CASE Blocked  BY <1>1, <1>2, <1>6, <1>8 DEF Blocked
<1>9. CASE Abort
  <2>1. table \in Sessions  BY <1>9 DEF Abort, Open
  <2> QED  BY <1>1, <1>6, <1>9, <2>1 DEF Abort
<1>10. CASE Create
  <2>1. created' = created + 1 /\ table' = created + 1 /\ created + 1 \in Sessions
        /\ reader' = <<"idle", 0>> /\ myAck' = [myAck EXCEPT ![created + 1] = SeqOf(1)]
        /\ (pc' = [pc EXCEPT ![created + 1] = "start"] \/ pc' = pc)
        /\ UNCHANGED <<app, isRunning, tun, dropped, rpc, sock, isClosed, connected,
                       flags, queue, written, mySeq>>
    BY <1>2, <1>10, BridgeConstantsOK DEF Create, Sessions
  <2>2. SeqOf(1) \in 0 .. SeqSpace - 1 /\ "start" \in WorkerPCs
    BY BridgeNumbers DEF WorkerPCs
  <2>3. created' \in 0 .. MaxSessions /\ table' \in 0 .. created' /\ conn' \in 0 .. created'
    BY <1>2, <2>1, BridgeConstantsOK DEF BridgeShape, Sessions, app
  <2>4. tun' \in Seq(Packets) /\ \A i \in 1 .. Len(tun') : tun'[i].from <= created'
    <3>1. tun \in Seq(Packets) /\ \A i \in 1 .. Len(tun) : tun[i].from <= created
      BY DEF BridgeShape
    <3>2. \A i \in 1 .. Len(tun) : tun[i] \in Packets  BY <3>1, ElementOfSeq
    <3>3. \A i \in 1 .. Len(tun) : tun[i].from \in Nat  BY <3>2, BridgeNumbers DEF Packets
    <3>4. \A n \in Nat : n <= created => n <= created + 1  BY <1>2
    <3> QED  BY <2>1, <3>1, <3>3, <3>4
  <2>5. /\ pc' \in [Sessions -> WorkerPCs] /\ myAck' \in [Sessions -> 0 .. SeqSpace - 1]
        /\ \A t \in Sessions : t > created' => pc'[t] = "unborn" /\ rpc'[t] = "unborn"
    <3>1. pc \in [Sessions -> WorkerPCs] /\ myAck \in [Sessions -> 0 .. SeqSpace - 1]
      BY DEF BridgeShape
    <3>2. pc' \in [Sessions -> WorkerPCs] /\ myAck' \in [Sessions -> 0 .. SeqSpace - 1]
      BY <2>1, <2>2, <3>1
    <3>3. ASSUME NEW t \in Sessions, t > created' PROVE pc'[t] = "unborn" /\ rpc'[t] = "unborn"
      <4>1. t > created /\ t # created + 1  BY <1>2, <2>1, <3>3, BridgeNumbers
      <4>2. pc[t] = "unborn" /\ rpc[t] = "unborn"  BY <4>1 DEF BridgeShape
      <4> QED  BY <2>1, <3>1, <4>1, <4>2
    <3> QED  BY <3>2, <3>3
  <2> QED  BY <1>1, <2>1, <2>3, <2>4, <2>5 DEF BridgeShape, app, flags
<1>11. CASE Fin
  <2>1. reader' = <<"idle", 0>> /\ sendAck /\ table \in Sessions
        /\ UNCHANGED <<readerRest, table, created, sock, isClosed, queue>>
    BY <1>11 DEF Fin, Open
  <2>2. tun' \in Seq(Packets) /\ dropped' \in BOOLEAN
        /\ \A i \in 1 .. Len(tun') : tun'[i].from <= created
    BY <2>1, AckKeeps DEF BridgeShape
  <2>3. SeqOf(reader[2] + 1) \in 0 .. SeqSpace - 1  BY <1>3, BridgeNumbers
  <2>4. myAck' \in [Sessions -> 0 .. SeqSpace - 1] /\ clientClosed' \in [Sessions -> BOOLEAN]
    BY ZenonT(60), <1>11, <2>1, <2>3 DEF Fin, BridgeShape
  <2> QED  BY <1>1, <2>1, <2>2, <2>4 DEF BridgeShape, readerRest, app
<1>12. CASE Data
  <2>1. reader' = <<"idle", 0>> /\ table \in Sessions
        /\ UNCHANGED <<readerRest, table, created, sock, isClosed, clientClosed>>
    BY <1>12 DEF Data, Open
  <2>2. tun' \in Seq(Packets) /\ dropped' \in BOOLEAN
        /\ \A i \in 1 .. Len(tun') : tun'[i].from <= created
    <3>1. CASE sendAck  BY <3>1, AckKeeps DEF BridgeShape
    <3>2. CASE UNCHANGED <<tun, dropped>>  BY <3>2 DEF BridgeShape
    <3> QED  BY <1>12, <3>1, <3>2 DEF Data
  <2>3. SeqOf(reader[2] + 1) \in 0 .. SeqSpace - 1  BY <1>3, BridgeNumbers
  <2>4. queue[table] \in Seq(Nat)  BY <2>1 DEF BridgeShape
  <2>5. Append(queue[table], reader[2]) \in Seq(Nat) /\ Len(queue[table]) \in Nat
        /\ Len(Append(queue[table], reader[2])) = Len(queue[table]) + 1
    BY <1>3, <2>4, AppendProperties, LenProperties
  <2>6. \/ UNCHANGED <<myAck, queue>>
        \/ /\ queue' = [queue EXCEPT ![table] = Append(queue[table], reader[2])]
           /\ myAck' = [myAck EXCEPT ![table] = SeqOf(reader[2] + 1)]
           /\ Len(queue[table]) < QueueSize
    BY <1>12 DEF Data
  <2>7. myAck' \in [Sessions -> 0 .. SeqSpace - 1]
    BY ZenonT(60), <2>1, <2>3, <2>6 DEF BridgeShape
  <2>8. queue' \in [Sessions -> Seq(Nat)] /\ \A t \in Sessions : Len(queue'[t]) <= QueueSize
    <3>1. queue \in [Sessions -> Seq(Nat)] /\ \A t \in Sessions : Len(queue[t]) <= QueueSize
      BY DEF BridgeShape
    <3>2. CASE UNCHANGED queue  BY <3>1, <3>2
    <3>3. CASE /\ queue' = [queue EXCEPT ![table] = Append(queue[table], reader[2])]
               /\ Len(queue[table]) < QueueSize
      <4>1. queue' \in [Sessions -> Seq(Nat)]  BY <2>1, <2>5, <3>1, <3>3
      <4>2. Len(queue'[table]) <= QueueSize
        BY <2>1, <2>5, <3>1, <3>3, BridgeConstantsOK
      <4>3. \A t \in Sessions : t # table => queue'[t] = queue[t]  BY <2>1, <3>1, <3>3
      <4> QED  BY <3>1, <4>1, <4>2, <4>3
    <3> QED  BY <2>6, <3>2, <3>3
  <2> QED  BY <1>1, <2>1, <2>2, <2>7, <2>8 DEF BridgeShape, readerRest, app
<1> QED  BY <1>4, <1>5, <1>7, <1>8, <1>9, <1>10, <1>11, <1>12 DEF Handle

\* A session's own threads.
LEMMA OwnPacket ==
  ASSUME BridgeShape, NEW s \in Sessions, s <= created, NEW k \in Kinds,
         Enqueue(Packet(s, mySeq[s], k)) \/ EnqueueCritical(Packet(s, mySeq[s], k))
  PROVE  /\ tun' \in Seq(Packets) /\ dropped' \in BOOLEAN
         /\ \A i \in 1 .. Len(tun') : tun'[i].from <= created
<1>1. mySeq[s] \in Nat  BY DEF BridgeShape
<1>2. Packet(s, mySeq[s], k) \in Packets /\ Packet(s, mySeq[s], k).from = s
  BY <1>1 DEF Packet, Packets
<1> HIDE DEF Packet
<1>3. /\ tun' \in Seq(Packets) /\ dropped' \in BOOLEAN
      /\ \A i \in 1 .. Len(tun') : tun'[i] = Packet(s, mySeq[s], k)
                                   \/ \E j \in 1 .. Len(tun) : tun'[i] = tun[j]
  BY <1>2, EnqueueKeeps
<1> QED  BY <1>2, <1>3 DEF BridgeShape

LEMMA WorkerShape ==
  ASSUME BridgeShape, NEW s \in Sessions, Worker(s) \/ Leave(s)
  PROVE  BridgeShape'
<1> USE DEF Goto
<1>1. UNCHANGED <<app, isRunning, created, reader, clientClosed, myAck>>
  BY Zenon DEF Worker, Start, Sniff, Dial, ConnectSocks, Check, Answer, Write, Drained, Idle,
         Leave, Finally, Remove, workerRest
<1>2. pc[s] # "unborn"
  BY DEF Worker, Start, Sniff, Dial, ConnectSocks, Check, Answer, Write, Drained, Idle,
         Leave, Finally, Remove
<1>3. s \in Nat /\ created \in Nat /\ s <= created
  <2>1. s \in Nat /\ created \in Nat  BY BridgeNumbers DEF BridgeShape
  <2>2. ~(s > created)  BY <1>2 DEF BridgeShape
  <2> QED  BY <2>1, <2>2
<1>4. /\ pc' = pc \/ \E l \in WorkerPCs : pc' = [pc EXCEPT ![s] = l]
      /\ rpc' = rpc \/ rpc' = [rpc EXCEPT ![s] = "read"]
  BY DEF Worker, Start, Sniff, Dial, ConnectSocks, Check, Answer, Write, Drained, Idle,
         Leave, Finally, Remove, WorkerPCs
<1>5. /\ pc' \in [Sessions -> WorkerPCs] /\ rpc' \in [Sessions -> DownloadPCs]
      /\ \A t \in Sessions : t > created => pc'[t] = "unborn" /\ rpc'[t] = "unborn"
  <2>1. pc \in [Sessions -> WorkerPCs] /\ rpc \in [Sessions -> DownloadPCs]
    BY DEF BridgeShape
  <2>2. pc' \in [Sessions -> WorkerPCs] /\ rpc' \in [Sessions -> DownloadPCs]
    BY <1>4, <2>1 DEF DownloadPCs
  <2>3. \A t \in Sessions : t # s => pc'[t] = pc[t] /\ rpc'[t] = rpc[t]  BY <1>4, <2>1
  <2>4. \A t \in Sessions : t > created => t # s  BY <1>3, BridgeNumbers
  <2> QED  BY <2>2, <2>3, <2>4 DEF BridgeShape
<1>6. /\ tun' \in Seq(Packets) /\ dropped' \in BOOLEAN
      /\ \A i \in 1 .. Len(tun') : tun'[i].from <= created
  <2>1. \/ UNCHANGED <<tun, dropped>>
        \/ EnqueueCritical(Packet(s, mySeq[s], "synAck"))
    BY Zenon DEF Worker, Start, Sniff, Dial, ConnectSocks, Check, Answer, Write, Drained, Idle,
           Leave, Finally, Remove, SynAck
  <2>2. "synAck" \in Kinds  BY DEF Kinds
  <2>3. CASE UNCHANGED <<tun, dropped>>  BY <2>3 DEF BridgeShape
  <2>4. CASE EnqueueCritical(Packet(s, mySeq[s], "synAck"))
    BY <1>3, <2>2, <2>4, OwnPacket
  <2> QED  BY <2>1, <2>3, <2>4
<1>7. mySeq' \in [Sessions -> Nat]
  <2>1. mySeq' = mySeq \/ mySeq' = [mySeq EXCEPT ![s] = mySeq[s] + 1]
    BY DEF Worker, Start, Sniff, Dial, ConnectSocks, Check, Answer, Write, Drained, Idle,
           Leave, Finally, Remove, SynAck
  <2>2. mySeq \in [Sessions -> Nat] /\ mySeq[s] + 1 \in Nat  BY DEF BridgeShape
  <2> QED  BY <2>1, <2>2
<1>8. isClosed' \in [Sessions -> BOOLEAN] /\ sock' \in [Sessions -> {"none", "open", "closed"}]
  <2>1. \/ close(s, TRUE) \/ UNCHANGED <<isClosed, sock>>
        \/ isClosed' = isClosed /\ sock' = [sock EXCEPT ![s] = "open"]
    BY Zenon DEF Worker, Start, Sniff, Dial, ConnectSocks, Check, Answer, Write, Drained, Idle,
           Leave, Finally, Remove
  <2>2. CASE close(s, TRUE)  BY <2>2, CloseShape
  <2> QED  BY <2>1, <2>2 DEF BridgeShape
<1>9. /\ connected' \in [Sessions -> BOOLEAN] /\ outputShutdown' \in [Sessions -> BOOLEAN]
      /\ synAckSent' \in [Sessions -> BOOLEAN]
  <2>1. /\ connected' = connected \/ connected' = [connected EXCEPT ![s] = TRUE]
        /\ outputShutdown' = outputShutdown \/ outputShutdown' = [outputShutdown EXCEPT ![s] = TRUE]
        /\ synAckSent' = synAckSent \/ synAckSent' = [synAckSent EXCEPT ![s] = TRUE]
    BY DEF Worker, Start, Sniff, Dial, ConnectSocks, Check, Answer, Write, Drained, Idle,
           Leave, Finally, Remove, HalfClose
  <2> QED  BY <2>1 DEF BridgeShape
<1>10. /\ queue' \in [Sessions -> Seq(Nat)] /\ written' \in [Sessions -> Seq(Nat)]
       /\ \A t \in Sessions : Len(queue'[t]) <= QueueSize
  <2> DEFINE rest(n) == SubSeq(queue[s], n + 1, Len(queue[s]))
             more(n) == written[s] \o SubSeq(queue[s], 1, n)
  <2>1. \/ UNCHANGED <<queue, written>>
        \/ \E n \in 1 .. Len(queue[s]) :
             /\ queue' = [queue EXCEPT ![s] = rest(n)]
             /\ written' = written \/ written' = [written EXCEPT ![s] = more(n)]
    BY DEF Worker, Start, Sniff, Dial, ConnectSocks, Check, Answer, Write, Drained, Idle,
           Leave, Finally, Remove, upload
  <2>2. /\ queue \in [Sessions -> Seq(Nat)] /\ written \in [Sessions -> Seq(Nat)]
        /\ \A t \in Sessions : Len(queue[t]) <= QueueSize
    BY DEF BridgeShape
  <2>3. Len(queue[s]) \in Nat  BY <2>2, LenProperties
  <2>4. ASSUME NEW n \in 1 .. Len(queue[s]), queue' = [queue EXCEPT ![s] = rest(n)],
               written' = written \/ written' = [written EXCEPT ![s] = more(n)]
        PROVE  /\ queue' \in [Sessions -> Seq(Nat)] /\ written' \in [Sessions -> Seq(Nat)]
               /\ \A t \in Sessions : Len(queue'[t]) <= QueueSize
    <3>1. rest(n) \in Seq(Nat) /\ more(n) \in Seq(Nat) /\ Len(rest(n)) = Len(queue[s]) - n
      BY <2>2, WriteKeeps
    <3> HIDE DEF rest, more
    <3>2. Len(rest(n)) <= QueueSize  BY <2>2, <2>3, <3>1, BridgeConstantsOK
    <3>3. queue' \in [Sessions -> Seq(Nat)] /\ written' \in [Sessions -> Seq(Nat)]
      BY <2>2, <2>4, <3>1
    <3>4. \A t \in Sessions : queue'[t] = IF t = s THEN rest(n) ELSE queue[t]  BY <2>2, <2>4
    <3> QED  BY <2>2, <3>2, <3>3, <3>4
  <2>5. CASE UNCHANGED <<queue, written>>  BY <2>2, <2>5
  <2> HIDE DEF rest, more
  <2> QED  BY <2>1, <2>4, <2>5
<1>11. table' \in 0 .. created
  <2>1. table' = table \/ remove(s)
    BY Zenon DEF Worker, Start, Sniff, Dial, ConnectSocks, Check, Answer, Write, Drained, Idle,
           Leave, Finally, Remove
  <2> QED  BY <2>1, RemoveShape DEF BridgeShape
<1> QED  BY <1>1, <1>5, <1>6, <1>7, <1>8, <1>9, <1>10, <1>11 DEF BridgeShape, app

LEMMA DownloadShape ==
  ASSUME BridgeShape, NEW s \in Sessions, Download(s)
  PROVE  BridgeShape'
<1>1. UNCHANGED <<app, isRunning, created, reader, pc, connected, flags, upload>>
  BY Zenon DEF Download, Chunk, Eof, ReadEnds, DownloadFinally, DownloadRemove, downloadRest
<1>2. rpc[s] # "unborn"
  BY DEF Download, Chunk, Eof, ReadEnds, DownloadFinally, DownloadRemove
<1>3. s \in Nat /\ created \in Nat /\ s <= created
  <2>1. s \in Nat /\ created \in Nat  BY BridgeNumbers DEF BridgeShape
  <2>2. ~(s > created)  BY <1>2 DEF BridgeShape
  <2> QED  BY <2>1, <2>2
<1>4. rpc' = rpc \/ \E l \in DownloadPCs : rpc' = [rpc EXCEPT ![s] = l]
  BY DEF Download, Chunk, Eof, ReadEnds, DownloadFinally, DownloadRemove, DownloadPCs
<1>5. /\ rpc' \in [Sessions -> DownloadPCs]
      /\ \A t \in Sessions : t > created => rpc'[t] = "unborn"
  <2>1. rpc \in [Sessions -> DownloadPCs]  BY DEF BridgeShape
  <2>2. rpc' \in [Sessions -> DownloadPCs]  BY <1>4, <2>1
  <2>3. \A t \in Sessions : t # s => rpc'[t] = rpc[t]  BY <1>4, <2>1
  <2>4. \A t \in Sessions : t > created => t # s  BY <1>3, BridgeNumbers
  <2> QED  BY <2>2, <2>3, <2>4 DEF BridgeShape
<1>6. /\ tun' \in Seq(Packets) /\ dropped' \in BOOLEAN
      /\ \A i \in 1 .. Len(tun') : tun'[i].from <= created
  <2>1. \/ UNCHANGED <<tun, dropped>>
        \/ Enqueue(Packet(s, mySeq[s], "data")) \/ EnqueueCritical(Packet(s, mySeq[s], "fin"))
    BY Zenon DEF Download, Chunk, Eof, ReadEnds, DownloadFinally, DownloadRemove
  <2>2. "data" \in Kinds /\ "fin" \in Kinds  BY DEF Kinds
  <2>3. CASE UNCHANGED <<tun, dropped>>  BY <2>3 DEF BridgeShape
  <2>4. CASE Enqueue(Packet(s, mySeq[s], "data"))  BY <1>3, <2>2, <2>4, OwnPacket
  <2>5. CASE EnqueueCritical(Packet(s, mySeq[s], "fin"))  BY <1>3, <2>2, <2>5, OwnPacket
  <2> QED  BY <2>1, <2>3, <2>4, <2>5
<1>7. mySeq' \in [Sessions -> Nat]
  <2>1. mySeq' = mySeq \/ mySeq' = [mySeq EXCEPT ![s] = mySeq[s] + 1]
    BY DEF Download, Chunk, Eof, ReadEnds, DownloadFinally, DownloadRemove
  <2>2. mySeq \in [Sessions -> Nat] /\ mySeq[s] + 1 \in Nat  BY DEF BridgeShape
  <2> QED  BY <2>1, <2>2
<1>8. isClosed' \in [Sessions -> BOOLEAN] /\ sock' \in [Sessions -> {"none", "open", "closed"}]
  <2>1. close(s, TRUE) \/ UNCHANGED <<isClosed, sock>>
    BY Zenon DEF Download, Chunk, Eof, ReadEnds, DownloadFinally, DownloadRemove
  <2>2. CASE close(s, TRUE)  BY <2>2, CloseShape
  <2> QED  BY <2>1, <2>2 DEF BridgeShape
<1>9. table' \in 0 .. created
  <2>1. table' = table \/ remove(s)
    BY Zenon DEF Download, Chunk, Eof, ReadEnds, DownloadFinally, DownloadRemove
  <2> QED  BY <2>1, RemoveShape DEF BridgeShape
<1> QED  BY <1>1, <1>5, <1>6, <1>7, <1>8, <1>9 DEF BridgeShape, app, flags, upload

LEMMA StopShape == ASSUME BridgeShape, Stop PROVE BridgeShape'
<1>1. UNCHANGED <<app, created, reader, tun, dropped, pc, rpc, connected, flags, upload, mySeq>>
      /\ isRunning' = FALSE
  BY DEF Stop
<1>2. /\ isClosed' \in [Sessions -> BOOLEAN] /\ sock' \in [Sessions -> {"none", "open", "closed"}]
      /\ table' \in 0 .. created
  <2>1. CASE table = 0  BY <2>1 DEF Stop, BridgeShape
  <2>2. CASE table # 0
    <3>1. table \in Sessions  BY <2>2, BridgeConstantsOK DEF BridgeShape, Sessions
    <3>2. PICK seen \in BOOLEAN : close(table, seen)  BY <2>2 DEF Stop, closeForeign
    <3>3. remove(table)  BY <2>2 DEF Stop, closeForeign
    <3> QED  BY <3>1, <3>2, <3>3, CloseShape, RemoveShape
  <2> QED  BY <2>1, <2>2
<1> QED  BY <1>1, <1>2 DEF BridgeShape, app, flags, upload

\* Every step.
LEMMA ShapeStep ==
  ASSUME BridgeShape, reader[1] = "replace" => reader[2] \in Sessions, [Next]_vars
  PROVE  BridgeShape'
<1>1. ASSUME NEW p \in InFlight, Read(p) PROVE BridgeShape'
  <2>1. p \in ReaderStates \X Nat  BY <1>1, ReadShape DEF ReaderStates
  <2> QED  BY <1>1, <2>1 DEF Read, BridgeShape, app, flags, upload
<1>2. CASE UNCHANGED vars  BY <1>2 DEF vars, BridgeShape, app, flags, upload
<1> QED
  BY <1>1, <1>2, ClientShape, ReaderShape, WorkerShape, DownloadShape, StopShape DEF Next

-----------------------------------------------------------------------------
(* Replacing a session. *)

\* The table holds the newest session or none; whoever takes it out has closed
\* it, and the reader makes a new one only when it is closed.
TableInv ==
  /\ table \in {0, created}
  /\ created > 0 => isClosed[created] \/ table = created
  /\ OlderClosed
  /\ reader[1] = "replace" => created > 0 /\ reader[2] = created
  /\ reader[1] = "create" /\ created > 0 => isClosed[created]
  /\ \A s \in Sessions : pc[s] = "remove" \/ rpc[s] = "remove" => isClosed[s]

LEMMA ReplacedIsSession ==
  BridgeShape /\ TableInv => (reader[1] = "replace" => reader[2] \in Sessions)
<1>1. BridgeShape => created \in 0 .. MaxSessions  BY DEF BridgeShape
<1> QED  BY <1>1, BridgeConstantsOK DEF TableInv, Sessions

\* A session that is closed, if it is in the table, and taken out of it.
LEMMA ClosedAndRemoved ==
  ASSUME BridgeShape, TableInv, NEW s, s \in Sessions, closeForeign(s),
         UNCHANGED <<created, pc, rpc>>,
         reader'[1] = "idle" \/ (reader'[1] = "create" /\ s = created) \/ reader' = reader
  PROVE  TableInv'
<1>1. PICK seen \in BOOLEAN : close(s, seen)  BY DEF closeForeign
<1>2. /\ isClosed' \in [Sessions -> BOOLEAN]
      /\ isClosed'[s] /\ \A t \in Sessions : isClosed[t] => isClosed'[t]
  BY <1>1, CloseShape
<1>3. table' = table \/ (table = s /\ table' = 0)  BY RemoveShape DEF closeForeign
<1>4. created \in Nat /\ (created > 0 => created \in Sessions)
  BY BridgeConstantsOK DEF BridgeShape, Sessions
<1>5. table' \in {0, created'}  BY <1>3 DEF TableInv
<1>6. created' > 0 => isClosed'[created'] \/ table' = created'
  BY <1>2, <1>3, <1>4 DEF TableInv
<1>7. OlderClosed'  BY <1>2 DEF TableInv, OlderClosed
<1>8. \A t \in Sessions : pc'[t] = "remove" \/ rpc'[t] = "remove" => isClosed'[t]
  BY <1>2 DEF TableInv
<1>9. /\ reader'[1] = "replace" => created' > 0 /\ reader'[2] = created'
      /\ reader'[1] = "create" /\ created' > 0 => isClosed'[created']
  BY <1>2, <1>4 DEF TableInv
<1> QED  BY <1>5, <1>6, <1>7, <1>8, <1>9 DEF TableInv

\* What a session's own thread does to the table: it closes the session, then
\* removes it.
LEMMA OwnTable ==
  ASSUME BridgeShape, TableInv, NEW s \in Sessions, Worker(s) \/ Leave(s) \/ Download(s)
  PROVE  TableInv'
<1> USE DEF Goto
<1>1. UNCHANGED <<created, reader>>
  BY Zenon DEF Worker, Start, Sniff, Dial, ConnectSocks, Check, Answer, Write, Drained, Idle,
         Leave, Finally, Remove, workerRest,
         Download, Chunk, Eof, ReadEnds, DownloadFinally, DownloadRemove, downloadRest
<1>2. pc \in [Sessions -> WorkerPCs] /\ rpc \in [Sessions -> DownloadPCs]
      /\ isClosed \in [Sessions -> BOOLEAN] /\ created \in Nat
      /\ (created > 0 => created \in Sessions)
  BY BridgeConstantsOK DEF BridgeShape, Sessions
<1>3. CASE UNCHANGED <<table, isClosed>>
  <2>1. \A t \in Sessions : pc'[t] = "remove" \/ rpc'[t] = "remove" => isClosed[t]
    <3>1. /\ \A t \in Sessions : pc'[t] = "remove" => pc[t] = "remove" \/ isClosed'[t]
          /\ \A t \in Sessions : rpc'[t] = "remove" => rpc[t] = "remove" \/ isClosed'[t]
      <4>1. CASE Worker(s) \/ Leave(s)
        BY <1>2, <1>3, <4>1 DEF Worker, Start, Sniff, Dial, ConnectSocks, Check, Answer, Write, Drained, Idle,
           Leave, Finally, Remove, close
      <4>2. CASE Download(s)
        BY <1>2, <1>3, <4>2 DEF Download, Chunk, Eof, ReadEnds, DownloadFinally, DownloadRemove, close, downloadRest
      <4> QED  BY <4>1, <4>2
    <3> QED  BY <1>3, <3>1 DEF TableInv
  <2> QED  BY <1>1, <1>3, <2>1 DEF TableInv, OlderClosed
<1>4. CASE close(s, TRUE) /\ table' = table
  <2>1. isClosed' \in [Sessions -> BOOLEAN]
        /\ isClosed'[s] /\ \A t \in Sessions : isClosed[t] => isClosed'[t]
    BY <1>4, CloseShape
  <2>2. \A t \in Sessions \ {s} : pc'[t] = pc[t] /\ rpc'[t] = rpc[t]
    <3>1. CASE Worker(s) \/ Leave(s)
        BY <1>2, <3>1 DEF Worker, Start, Sniff, Dial, ConnectSocks, Check, Answer, Write, Drained, Idle,
           Leave, Finally, Remove
    <3>2. CASE Download(s)
        BY <1>2, <3>2 DEF Download, Chunk, Eof, ReadEnds, DownloadFinally, DownloadRemove, downloadRest
    <3> QED  BY <3>1, <3>2
  <2>3. \A t \in Sessions : pc'[t] = "remove" \/ rpc'[t] = "remove" => isClosed'[t]
    BY <2>1, <2>2 DEF TableInv
  <2> QED  BY <1>1, <1>2, <1>4, <2>1, <2>3 DEF TableInv, OlderClosed
<1>5. CASE Remove(s) \/ DownloadRemove(s)
  <2>1. remove(s) /\ UNCHANGED isClosed /\ isClosed[s]
        /\ \A t \in Sessions : /\ pc'[t] = "remove" => pc[t] = "remove"
                               /\ rpc'[t] = "remove" => rpc[t] = "remove"
    BY <1>2, <1>5 DEF Remove, DownloadRemove, downloadRest, TableInv
  <2>2. table' = table \/ (table = s /\ table' = 0)  BY <2>1, RemoveShape
  <2> QED  BY <1>1, <1>2, <2>1, <2>2 DEF TableInv, OlderClosed
<1>6. \/ UNCHANGED <<table, isClosed>> \/ (close(s, TRUE) /\ table' = table)
      \/ Remove(s) \/ DownloadRemove(s)
  BY Zenon DEF Worker, Start, Sniff, Dial, ConnectSocks, Check, Answer, Write, Drained, Idle,
         Leave, Finally, Download, Chunk, Eof, ReadEnds, DownloadFinally
<1> QED  BY <1>3, <1>4, <1>5, <1>6

LEMMA ReaderTable == ASSUME BridgeShape, TableInv, Handle PROVE TableInv'
<1>1. created \in Nat /\ table \in Nat /\ (table # 0 => table \in Sessions)
      /\ isClosed \in [Sessions -> BOOLEAN]
      /\ pc \in [Sessions -> WorkerPCs] /\ rpc \in [Sessions -> DownloadPCs]
  BY BridgeConstantsOK DEF BridgeShape, Sessions
<1>2. CASE SynKnown \/ SynNew \/ Ignore \/ SynConnected \/ Early \/ Refuse \/ Fin \/ Data
  <2>1. UNCHANGED <<table, created, isClosed, pc, rpc>>
    BY <1>2, Zenon DEF SynKnown, SynNew, Ignore, SynConnected, Early, Refuse, Fin, Data, readerRest
  <2>2. \/ reader' = <<"idle", 0>> \/ (reader' = <<"replace", table>> /\ table # 0)
        \/ (reader' = <<"create", 0>> /\ table = 0)
    BY <1>2 DEF SynKnown, SynNew, Ignore, SynConnected, Early, Refuse, Fin, Data
  <2>3. /\ reader'[1] = "replace" => created > 0 /\ reader'[2] = created
        /\ reader'[1] = "create" /\ created > 0 => isClosed[created]
    BY <1>1, <2>2 DEF TableInv
  <2> QED  BY <2>1, <2>3 DEF TableInv, OlderClosed
<1>3. CASE SynReplace
  <2>1. reader[2] \in Sessions /\ reader[2] = created
    BY <1>3, ReplacedIsSession DEF TableInv, SynReplace
  <2>2. closeForeign(created) /\ reader' = <<"create", 0>> /\ UNCHANGED <<created, pc, rpc>>
    BY <1>3, <2>1 DEF SynReplace, readerRest
  <2> QED  BY <2>1, <2>2, ClosedAndRemoved
<1>4. CASE Blocked \/ Abort
  <2>1. table \in Sessions /\ closeForeign(table) /\ reader' = <<"idle", 0>>
        /\ UNCHANGED <<created, pc, rpc>>
    BY <1>1, <1>4 DEF Blocked, Abort, Open, readerRest
  <2> QED  BY <2>1, ClosedAndRemoved
<1>5. CASE Create
  <2>1. created' = created + 1 /\ table' = created + 1 /\ created + 1 \in Sessions
        /\ reader' = <<"idle", 0>> /\ UNCHANGED <<rpc, isClosed>>
        /\ (pc' = [pc EXCEPT ![created + 1] = "start"] \/ pc' = pc)
    BY <1>1, <1>5, BridgeConstantsOK DEF Create, Sessions
  <2>2. created > 0 => isClosed[created]  BY <1>5 DEF Create, TableInv
  <2>3. OlderClosed'
    <3>1. \A t \in Sessions : t < created + 1 => t < created \/ (t = created /\ created > 0)
      BY <1>1, BridgeNumbers
    <3> QED  BY <2>1, <2>2, <3>1 DEF OlderClosed, TableInv
  <2>4. \A t \in Sessions : pc'[t] = "remove" => pc[t] = "remove"  BY <1>1, <2>1
  <2> QED  BY <1>1, <2>1, <2>3, <2>4 DEF TableInv
<1> QED  BY <1>2, <1>3, <1>4, <1>5 DEF Handle

\* No step breaks it.
LEMMA TableStep == ASSUME BridgeShape, TableInv, [Next]_vars PROVE TableInv'
<1>1. CASE SendSyn \/ SendSegment \/ SendFin \/ SendRst \/ Deliver
  <2>1. UNCHANGED <<table, created, reader, isClosed, pc, rpc>>
    BY <1>1 DEF SendSyn, SendSegment, SendFin, SendRst, Deliver
  <2> QED  BY <2>1 DEF TableInv, OlderClosed
<1>2. ASSUME NEW p \in InFlight, Read(p) PROVE TableInv'
  <2>1. p[1] # "replace" /\ p[1] # "create"  BY ReadShape
  <2> QED  BY <1>2, <2>1 DEF Read, TableInv, OlderClosed
<1>3. CASE Stop
  <2>1. CASE table = 0
    <3>1. UNCHANGED <<table, created, reader, isClosed, pc, rpc>>  BY <1>3, <2>1 DEF Stop
    <3> QED  BY <3>1 DEF TableInv, OlderClosed
  <2>2. CASE table # 0
    <3>1. table \in Sessions  BY <2>2, BridgeConstantsOK DEF BridgeShape, Sessions
    <3>2. closeForeign(table) /\ UNCHANGED <<created, pc, rpc, reader>>  BY <1>3, <2>2 DEF Stop
    <3> QED  BY <3>1, <3>2, ClosedAndRemoved
  <2> QED  BY <2>1, <2>2
<1>4. CASE UNCHANGED vars  BY <1>4 DEF vars, TableInv, OlderClosed
<1> QED  BY <1>1, <1>2, <1>3, <1>4, OwnTable, ReaderTable DEF Next

LEMMA TableAlways == Spec => [](BridgeShape /\ TableInv)
<1>1. Init => BridgeShape /\ TableInv
  <2>1. Init => TableInv
    BY BridgeNumbers DEF Init, TableInv, OlderClosed
  <2> QED  BY <2>1, BridgeInitShape
<1>2. BridgeShape /\ TableInv /\ [Next]_vars => (BridgeShape /\ TableInv)'
  BY ReplacedIsSession, ShapeStep, TableStep
<1> QED  BY <1>1, <1>2, PTL DEF Spec

\* Whatever SYNs, RSTs, closes and stops come in whatever order, packets of a
\* running bridge reach the flow's newest session unless it is closed, and all
\* the older ones are (processIpv4 and TcpSession.close).
THEOREM ReplacementAlways == Spec => []Replacement
<1>1. BridgeShape /\ TableInv => Replacement
  BY DEF TableInv, Replacement, NewestReachable
<1> QED  BY <1>1, TableAlways, PTL

-----------------------------------------------------------------------------
(* Upload. *)

Dialling == {"unborn", "start", "sniff", "dial", "connect"}
Leaving == {"finally", "remove", "done"}

\* What the reader has in hand was sent.
ReaderFits ==
  /\ reader[1] = "fin" => fin # "no"
  /\ fin # "data" => /\ reader[1] = "data" => reader[2] \in 1 .. sent
                     /\ reader[1] = "fin" => reader[2] = sent + 1

\* Nothing comes to a session before it is connected.
NothingYet(s) ==
  pc[s] \in Dialling => /\ ~connected[s] /\ ~clientClosed[s] /\ ~outputShutdown[s]
                        /\ queue[s] = <<>> /\ written[s] = <<>>

\* The segments of a session, the written ones before the queued ones, are the
\* first of the application; the acknowledgement is the number after them, and
\* after the FIN, which comes after all of them.
InOrder(s) ==
  pc[s] \notin {"unborn"} \union Leaving /\ fin # "data" =>
    /\ \A i \in 1 .. Len(written[s]) : written[s][i] = i
    /\ \A i \in 1 .. Len(queue[s]) : queue[s][i] = Len(written[s]) + i
    /\ Len(written[s]) + Len(queue[s]) <= sent
    /\ myAck[s] = SeqOf(Len(written[s]) + Len(queue[s]) + (IF clientClosed[s] THEN 2 ELSE 1))
    /\ clientClosed[s] => fin = "bare" /\ Len(written[s]) + Len(queue[s]) = sent

\* A session that has told the engine of the end takes nothing more, wherever
\* its worker is.
AtItsEnd(s) ==
  outputShutdown[s] /\ fin # "data" =>
    /\ fin = "bare" /\ Len(written[s]) = sent /\ queue[s] = <<>>
    /\ myAck[s] = SeqOf(sent + 2)

UploadInv ==
  /\ ReaderFits
  /\ \A s \in Sessions : NothingYet(s) /\ InOrder(s) /\ AtItsEnd(s)

\* The numbers of a flow do not wrap around onto each other.
LEMMA SeqOfInjective ==
  ASSUME NEW i \in 0 .. MaxSegments + 2, NEW m \in 0 .. MaxSegments + 2,
         SeqOf(i) = SeqOf(m)
  PROVE  i = m
<1> DEFINE a == InitialSeq
           n == SeqSpace
<1>1. n \in Nat /\ n > 0 /\ a \in 0 .. n - 1 /\ i \in 0 .. n - 1 /\ m \in 0 .. n - 1
      /\ (a + i) % n = (a + m) % n
  BY BridgeConstantsOK DEF SeqOf
<1> HIDE DEF a, n
<1>2. \A x \in Nat : x < n => x % n = x  BY <1>1
<1>3. \A x \in Nat : x >= n /\ x < 2 * n => x % n = x - n  BY <1>1
<1>4. \A j \in 0 .. n - 1 : (a + j) % n = IF a + j < n THEN a + j ELSE a + j - n
  <2> SUFFICES ASSUME NEW j \in 0 .. n - 1
               PROVE  (a + j) % n = IF a + j < n THEN a + j ELSE a + j - n
    OBVIOUS
  <2>1. a + j \in Nat /\ a + j < 2 * n  BY <1>1
  <2> QED  BY <1>1, <1>2, <1>3, <2>1
<1> QED  BY <1>1, <1>4

SessionUpload(s) == NothingYet(s) /\ InOrder(s) /\ AtItsEnd(s)

\* A session none of whose fields has changed.
LEMMA UploadUntouched ==
  ASSUME NEW s \in Sessions, SessionUpload(s), UNCHANGED <<sent, fin>>,
         /\ pc'[s] = pc[s] /\ connected'[s] = connected[s]
         /\ clientClosed'[s] = clientClosed[s] /\ outputShutdown'[s] = outputShutdown[s]
         /\ myAck'[s] = myAck[s] /\ queue'[s] = queue[s] /\ written'[s] = written[s]
  PROVE  SessionUpload(s)'
BY DEF SessionUpload, NothingYet, InOrder, AtItsEnd

\* A session whose worker alone has moved on, not past its dialling unless it
\* is connected.
LEMMA UploadMoves ==
  ASSUME NEW s \in Sessions, SessionUpload(s), UNCHANGED <<sent, fin>>,
         /\ clientClosed'[s] = clientClosed[s] /\ outputShutdown'[s] = outputShutdown[s]
         /\ myAck'[s] = myAck[s] /\ queue'[s] = queue[s] /\ written'[s] = written[s],
         \/ pc'[s] \in Leaving
         \/ pc[s] \notin {"unborn"} \union Leaving /\ pc'[s] \in {"check", "answer", "poll"}
         \/ /\ pc[s] \in Dialling \ {"unborn"} /\ pc'[s] \in Dialling
            /\ connected'[s] = connected[s]
  PROVE  SessionUpload(s)'
<1>1. NothingYet(s)'  BY DEF SessionUpload, NothingYet, Dialling, Leaving
<1>2. InOrder(s)'  BY DEF SessionUpload, InOrder, Dialling, Leaving
<1>3. AtItsEnd(s)'  BY DEF SessionUpload, AtItsEnd
<1> QED  BY <1>1, <1>2, <1>3 DEF SessionUpload

\* The application.
LEMMA ClientUpload ==
  ASSUME BridgeShape, UploadInv, SendSyn \/ SendSegment \/ SendFin \/ SendRst \/ Deliver
  PROVE  UploadInv'
<1>1. UNCHANGED <<reader, pc, connected, clientClosed, outputShutdown, myAck, queue, written>>
  BY DEF SendSyn, SendSegment, SendFin, SendRst, Deliver, flags, upload
<1>2. sent \in Nat  BY DEF BridgeShape
<1>3. CASE UNCHANGED <<sent, fin>>
  <2>1. ReaderFits'  BY <1>1, <1>3 DEF ReaderFits, UploadInv
  <2>2. \A s \in Sessions : SessionUpload(s)'
    BY <1>1, <1>3, UploadUntouched DEF UploadInv, SessionUpload
  <2> QED  BY <2>1, <2>2 DEF UploadInv, SessionUpload
<1>4. CASE fin = "no" /\ fin' = "no" /\ sent' = sent + 1
  <2>1. ReaderFits'  BY <1>1, <1>2, <1>4 DEF ReaderFits, UploadInv
  <2>2. ASSUME NEW s \in Sessions PROVE NothingYet(s)' /\ InOrder(s)' /\ AtItsEnd(s)'
    <3>1. NothingYet(s) /\ InOrder(s) /\ AtItsEnd(s)  BY DEF UploadInv
    <3>2. queue[s] \in Seq(Nat) /\ written[s] \in Seq(Nat)  BY DEF BridgeShape
    <3> DEFINE w == Len(written[s])
               q == Len(queue[s])
    <3>3. w \in Nat /\ q \in Nat  BY <3>2, LenProperties
    <3>4. NothingYet(s)'  BY <1>1, <3>1 DEF NothingYet
    <3>5. AtItsEnd(s)'  BY <1>1, <1>4, <3>1 DEF AtItsEnd
    <3> HIDE DEF w, q
    <3>6. w + q <= sent => w + q <= sent + 1  BY <1>2, <3>3
    <3>7. InOrder(s)'  BY <1>1, <1>4, <3>1, <3>6 DEF InOrder, w, q
    <3> QED  BY <3>4, <3>5, <3>7
  <2> QED  BY <2>1, <2>2 DEF UploadInv
<1>5. CASE fin = "no" /\ fin' = "bare" /\ sent' = sent
  <2>1. ReaderFits'  BY <1>1, <1>5 DEF ReaderFits, UploadInv
  <2>2. \A s \in Sessions : NothingYet(s)' /\ AtItsEnd(s)'
    BY <1>1, <1>5 DEF UploadInv, NothingYet, AtItsEnd
  <2>3. \A s \in Sessions : InOrder(s)'
    BY <1>1, <1>5 DEF UploadInv, InOrder
  <2> QED  BY <2>1, <2>2, <2>3 DEF UploadInv
<1>6. CASE fin' = "data"
  <2>1. ReaderFits'  BY <1>1, <1>6 DEF ReaderFits, UploadInv
  <2>2. \A s \in Sessions : NothingYet(s)' /\ AtItsEnd(s)' /\ InOrder(s)'
    BY <1>1, <1>6 DEF UploadInv, NothingYet, AtItsEnd, InOrder
  <2> QED  BY <2>1, <2>2 DEF UploadInv
<1> QED  BY <1>3, <1>4, <1>5, <1>6 DEF SendSyn, SendSegment, SendFin, SendRst, Deliver

\* Steps that leave the upload alone, at most closing sessions.
LEMMA UploadUnchanged ==
  ASSUME UploadInv, UNCHANGED <<sent, fin, pc, connected, clientClosed, outputShutdown,
                                myAck, queue, written>>,
         ReaderFits'
  PROVE  UploadInv'
<1>1. \A s \in Sessions : SessionUpload(s)'
  BY UploadUntouched DEF UploadInv, SessionUpload
<1> QED  BY <1>1 DEF UploadInv, SessionUpload

\* A new session.
LEMMA CreateUpload ==
  ASSUME BridgeShape, UploadInv, Create
  PROVE  UploadInv'
<1> SUFFICES ASSUME NEW n, n = created + 1 PROVE UploadInv'
  OBVIOUS
<1>1. n \in Sessions /\ pc[n] = "unborn"
  <2>1. created \in Nat /\ n \in Sessions  BY BridgeConstantsOK DEF BridgeShape, Create, Sessions
  <2> QED  BY <2>1 DEF BridgeShape
<1>2. pc \in [Sessions -> WorkerPCs] /\ myAck \in [Sessions -> 0 .. SeqSpace - 1]
  BY DEF BridgeShape
<1>3. /\ UNCHANGED <<sent, fin, connected, clientClosed, outputShutdown, queue, written>>
      /\ (pc' = [pc EXCEPT ![n] = "start"] \/ pc' = pc)
      /\ myAck' = [myAck EXCEPT ![n] = SeqOf(1)] /\ reader' = <<"idle", 0>>
  BY DEF Create, app, flags
<1>4. ReaderFits'  BY <1>3 DEF ReaderFits
<1>5. \A s \in Sessions \ {n} : SessionUpload(s)'
  BY <1>1, <1>2, <1>3, UploadUntouched DEF UploadInv, SessionUpload
<1>6. NothingYet(n)' /\ InOrder(n)' /\ AtItsEnd(n)'
  <2>1. /\ ~connected[n] /\ ~clientClosed[n] /\ ~outputShutdown[n]
        /\ queue[n] = <<>> /\ written[n] = <<>>
    BY <1>1 DEF UploadInv, NothingYet, Dialling
  <2>2. myAck'[n] = SeqOf(1) /\ pc'[n] \in {"unborn", "start"}  BY <1>1, <1>2, <1>3
  <2>3. Len(<<>>) = 0 /\ 0 <= sent /\ 0 + 0 + 1 = 1  BY DEF BridgeShape
  <2> QED  BY <1>3, <2>1, <2>2, <2>3 DEF NothingYet, InOrder, AtItsEnd
<1> QED  BY <1>4, <1>5, <1>6 DEF UploadInv, SessionUpload

\* The FIN.
LEMMA FinUpload ==
  ASSUME BridgeShape, UploadInv, Fin
  PROVE  UploadInv'
<1> SUFFICES ASSUME NEW s, s = table PROVE UploadInv'
  OBVIOUS
<1>1. s \in Sessions /\ connected[s] /\ reader[1] = "fin" /\ reader' = <<"idle", 0>>
      /\ UNCHANGED <<sent, fin, pc, connected, outputShutdown, queue, written>>
  BY DEF Fin, Open, readerRest, app
<1>2. ReaderFits'  BY <1>1 DEF ReaderFits
<1>3. CASE UNCHANGED <<myAck, clientClosed>>
  BY <1>1, <1>2, <1>3, UploadUnchanged
<1>4. CASE /\ SeqOf(reader[2]) = myAck[s]
           /\ myAck' = [myAck EXCEPT ![s] = SeqOf(reader[2] + 1)]
           /\ clientClosed' = [clientClosed EXCEPT ![s] = TRUE]
  <2>1. /\ myAck \in [Sessions -> 0 .. SeqSpace - 1] /\ clientClosed \in [Sessions -> BOOLEAN]
        /\ outputShutdown \in [Sessions -> BOOLEAN]
        /\ sent \in Nat /\ sent <= MaxSegments /\ queue[s] \in Seq(Nat) /\ written[s] \in Seq(Nat)
    BY <1>1, BridgeConstantsOK DEF BridgeShape
  <2> DEFINE w == Len(written[s])
             q == Len(queue[s])
  <2>2. w \in Nat /\ q \in Nat  BY <2>1, LenProperties
  <2>3. myAck'[s] = SeqOf(reader[2] + 1) /\ clientClosed'[s]  BY <1>1, <1>4, <2>1
  <2>4. \A t \in Sessions \ {s} : SessionUpload(t)'
    BY <1>1, <1>4, <2>1, UploadUntouched DEF UploadInv, SessionUpload
  <2>5. pc[s] \notin Dialling  BY <1>1 DEF UploadInv, NothingYet
  <2>6. NothingYet(s)'  BY <1>1, <2>5 DEF NothingYet
  <2>7. CASE fin = "data"  BY <1>1, <2>7, <1>2, <2>4, <2>6 DEF UploadInv, SessionUpload, InOrder, AtItsEnd
  <2>8. CASE fin # "data"
    <3>1. reader[2] = sent + 1 /\ fin = "bare"
      BY <1>1, <2>8 DEF UploadInv, ReaderFits, BridgeShape
    <3>2. sent + 1 \in 0 .. MaxSegments + 2 /\ sent + 2 \in 0 .. MaxSegments + 2
          /\ sent + 1 # sent + 2 /\ (sent + 1) + 1 = sent + 2
      BY <2>1, BridgeConstantsOK
    <3>3. SeqOf(sent + 1) # SeqOf(sent + 2)  BY <3>2, SeqOfInjective
    <3>4. ~outputShutdown[s]  BY <1>1, <1>4, <2>8, <3>1, <3>3 DEF UploadInv, AtItsEnd
    <3>5. AtItsEnd(s)'  BY <1>1, <3>4 DEF AtItsEnd
    <3>6. InOrder(s)'
      <4>1. CASE pc[s] \in {"unborn"} \union Leaving  BY <1>1, <4>1 DEF InOrder
      <4>2. CASE pc[s] \notin {"unborn"} \union Leaving
        <5> DEFINE l == w + q
        <5>1. /\ \A i \in 1 .. w : written[s][i] = i
              /\ \A i \in 1 .. q : queue[s][i] = w + i
              /\ l <= sent
              /\ myAck[s] = SeqOf(l + (IF clientClosed[s] THEN 2 ELSE 1))
              /\ clientClosed[s] => l = sent
          BY <1>1, <2>8, <4>2 DEF UploadInv, InOrder
        <5> HIDE DEF w, q
        <5>2. l \in Nat  BY <2>2
        <5> HIDE DEF l
        <5>3. ~clientClosed[s]  BY <1>4, <3>1, <3>3, <5>1
        <5>4. SeqOf(sent + 1) = SeqOf(l + 1) /\ l + 1 \in 0 .. MaxSegments + 2
          BY <1>4, <2>1, <3>1, <5>1, <5>2, <5>3, BridgeConstantsOK
        <5>5. sent + 1 = l + 1  BY <3>2, <5>4, SeqOfInjective
        <5>6. l = sent  BY <2>1, <5>2, <5>5
        <5>7. myAck'[s] = SeqOf(l + 2)  BY <2>3, <3>1, <3>2, <5>6
        <5> QED  BY <1>1, <2>1, <2>3, <3>1, <5>1, <5>6, <5>7 DEF InOrder, l, w, q
      <4> QED  BY <4>1, <4>2
    <3> QED  BY <1>2, <2>4, <2>6, <3>5, <3>6 DEF UploadInv, SessionUpload
  <2> QED  BY <2>7, <2>8
<1> QED  BY <1>3, <1>4 DEF Fin

\* A data segment.
LEMMA DataUpload ==
  ASSUME BridgeShape, UploadInv, Data
  PROVE  UploadInv'
<1> SUFFICES ASSUME NEW s, s = table PROVE UploadInv'
  OBVIOUS
<1>1. s \in Sessions /\ connected[s] /\ reader[1] = "data" /\ reader' = <<"idle", 0>>
      /\ UNCHANGED <<sent, fin, pc, connected, clientClosed, outputShutdown, written>>
  BY DEF Data, Open, readerRest, app
<1>2. ReaderFits'  BY <1>1 DEF ReaderFits
<1>3. CASE UNCHANGED <<myAck, queue>>
  BY <1>1, <1>2, <1>3, UploadUnchanged
<1>4. CASE /\ SeqOf(reader[2]) = myAck[s]
           /\ myAck' = [myAck EXCEPT ![s] = SeqOf(reader[2] + 1)]
           /\ queue' = [queue EXCEPT ![s] = Append(queue[s], reader[2])]
  <2>1. /\ myAck \in [Sessions -> 0 .. SeqSpace - 1] /\ queue \in [Sessions -> Seq(Nat)]
        /\ clientClosed \in [Sessions -> BOOLEAN]
        /\ sent \in Nat /\ sent <= MaxSegments /\ queue[s] \in Seq(Nat) /\ written[s] \in Seq(Nat)
        /\ reader[2] \in Nat
    BY <1>1, BridgeConstantsOK DEF BridgeShape
  <2> DEFINE w == Len(written[s])
             q == Len(queue[s])
  <2>2. w \in Nat /\ q \in Nat  BY <2>1, LenProperties
  <2>3. myAck'[s] = SeqOf(reader[2] + 1) /\ queue'[s] = Append(queue[s], reader[2])
    BY <1>1, <1>4, <2>1
  <2>4. \A t \in Sessions \ {s} : SessionUpload(t)'
    BY <1>1, <1>4, <2>1, UploadUntouched DEF UploadInv, SessionUpload
  <2>5. pc[s] \notin Dialling  BY <1>1 DEF UploadInv, NothingYet
  <2>6. NothingYet(s)'  BY <1>1, <2>5 DEF NothingYet
  <2>7. CASE fin = "data"  BY <1>1, <2>7, <1>2, <2>4, <2>6 DEF UploadInv, SessionUpload, InOrder, AtItsEnd
  <2>8. CASE fin # "data"
    <3>1. reader[2] \in 1 .. sent
      BY <1>1, <2>8 DEF UploadInv, ReaderFits
    <3>2. reader[2] \in 0 .. MaxSegments + 2 /\ sent + 2 \in 0 .. MaxSegments + 2
          /\ reader[2] # sent + 2
      BY <2>1, <3>1, BridgeConstantsOK
    <3>3. SeqOf(reader[2]) # SeqOf(sent + 2)  BY <3>2, SeqOfInjective
    <3>4. ~outputShutdown[s]  BY <1>1, <1>4, <2>8, <3>3 DEF UploadInv, AtItsEnd
    <3>5. AtItsEnd(s)'  BY <1>1, <3>4 DEF AtItsEnd
    <3>6. InOrder(s)'
      <4>1. CASE pc[s] \in {"unborn"} \union Leaving  BY <1>1, <4>1 DEF InOrder
      <4>2. CASE pc[s] \notin {"unborn"} \union Leaving
        <5> DEFINE l == w + q
        <5>1. /\ \A i \in 1 .. w : written[s][i] = i
              /\ \A i \in 1 .. q : queue[s][i] = w + i
              /\ l <= sent
              /\ myAck[s] = SeqOf(l + (IF clientClosed[s] THEN 2 ELSE 1))
              /\ clientClosed[s] => l = sent
          BY <1>1, <2>8, <4>2 DEF UploadInv, InOrder
        <5>6. /\ Len(queue'[s]) = q + 1
              /\ \A i \in 1 .. q : queue'[s][i] = queue[s][i]
              /\ queue'[s][q + 1] = reader[2]
          BY <2>1, <2>3, AppendProperties
        <5> HIDE DEF w, q
        <5>2. l \in Nat  BY <2>2
        <5> HIDE DEF l
        <5>3. ~clientClosed[s]  BY <1>4, <3>3, <5>1
        <5>4. SeqOf(reader[2]) = SeqOf(l + 1) /\ l + 1 \in 0 .. MaxSegments + 2
          BY <1>4, <2>1, <5>1, <5>2, <5>3, BridgeConstantsOK
        <5>5. reader[2] = l + 1  BY <3>2, <5>4, SeqOfInjective
        <5>7. \A i \in 1 .. q + 1 : queue'[s][i] = w + i
          <6>1. \A i \in 1 .. q + 1 : i \in 1 .. q \/ i = q + 1  BY <2>2
          <6>2. l + 1 = w + (q + 1)  BY <2>2 DEF l
          <6> QED  BY <5>1, <5>5, <5>6, <6>1, <6>2
        <5>8. w + (q + 1) <= sent /\ w + (q + 1) + 1 = reader[2] + 1
          BY <2>1, <2>2, <3>1, <5>5 DEF l
        <5>9. myAck'[s] = SeqOf(w + (q + 1) + 1)
          BY <2>3, <5>8
        <5> QED  BY <1>1, <5>1, <5>3, <5>6, <5>7, <5>8, <5>9 DEF InOrder, w
      <4> QED  BY <4>1, <4>2
    <3> QED  BY <1>2, <2>4, <2>6, <3>5, <3>6 DEF UploadInv, SessionUpload
  <2> QED  BY <2>7, <2>8
<1> QED  BY <1>3, <1>4 DEF Data

LEMMA ReaderUpload ==
  ASSUME BridgeShape, UploadInv, Handle
  PROVE  UploadInv'
<1>1. CASE SynKnown \/ SynReplace \/ SynNew \/ Refuse \/ Blocked \/ Ignore
           \/ SynConnected \/ Abort \/ Early
  <2>1. UNCHANGED <<sent, fin, pc, connected, clientClosed, outputShutdown,
                    myAck, queue, written>>
    BY <1>1 DEF SynKnown, SynReplace, SynNew, Refuse, Blocked, Ignore,
                SynConnected, Abort, Early, readerRest, app
  <2>2. reader' \in {<<"idle", 0>>, <<"replace", table>>, <<"create", 0>>}
    BY <1>1 DEF SynKnown, SynReplace, SynNew, Refuse, Blocked, Ignore,
                SynConnected, Abort, Early
  <2>3. ReaderFits'  BY <2>2 DEF ReaderFits
  <2> QED  BY <2>1, <2>3, UploadUnchanged
<1> QED  BY <1>1, CreateUpload, FinUpload, DataUpload DEF Handle

\* The worker of a session.
LEMMA WorkerUpload ==
  ASSUME BridgeShape, UploadInv, NEW s \in Sessions, Worker(s) \/ Leave(s)
  PROVE  UploadInv'
<1> USE DEF Goto
<1>1. UNCHANGED <<sent, fin, reader, clientClosed, myAck>>
  BY Zenon DEF Worker, Start, Sniff, Dial, ConnectSocks, Check, Answer, Write, Drained, Idle,
         Leave, Finally, Remove, workerRest, app
<1>2. /\ pc \in [Sessions -> WorkerPCs] /\ connected \in [Sessions -> BOOLEAN]
      /\ outputShutdown \in [Sessions -> BOOLEAN] /\ clientClosed \in [Sessions -> BOOLEAN]
      /\ queue \in [Sessions -> Seq(Nat)] /\ written \in [Sessions -> Seq(Nat)]
      /\ sent \in Nat
  BY DEF BridgeShape
<1>3. /\ queue[s] \in Seq(Nat) /\ written[s] \in Seq(Nat)
      /\ Len(queue[s]) \in Nat /\ Len(written[s]) \in Nat
  BY <1>2, LenProperties
<1>4. ReaderFits'  BY <1>1 DEF ReaderFits, UploadInv
<1>5. \A t \in Sessions \ {s} :
        /\ pc'[t] = pc[t] /\ connected'[t] = connected[t]
        /\ outputShutdown'[t] = outputShutdown[t]
        /\ queue'[t] = queue[t] /\ written'[t] = written[t]
  BY <1>2 DEF Worker, Start, Sniff, Dial, ConnectSocks, Check, Answer, Write, Drained, Idle,
         Leave, Finally, Remove, HalfClose, upload
<1>6. \A t \in Sessions \ {s} : SessionUpload(t)'
  BY <1>1, <1>5, UploadUntouched DEF UploadInv, SessionUpload
<1>7. SessionUpload(s)  BY DEF UploadInv, SessionUpload
<1>8. CASE \/ Start(s) \/ Sniff(s) \/ Dial(s) \/ ConnectSocks(s) \/ Check(s)
           \/ Answer(s) \/ Leave(s) \/ Finally(s) \/ Remove(s)
  <2>1. UNCHANGED <<outputShutdown, queue, written>>
    BY <1>8, Zenon DEF Start, Sniff, Dial, ConnectSocks, Check, Answer, Leave, Finally, Remove
  <2>2. \/ pc'[s] \in Leaving
        \/ pc[s] \notin {"unborn"} \union Leaving /\ pc'[s] \in {"check", "answer", "poll"}
        \/ /\ pc[s] \in Dialling \ {"unborn"} /\ pc'[s] \in Dialling
           /\ connected'[s] = connected[s]
    BY <1>2, <1>8 DEF Start, Sniff, Dial, ConnectSocks, Check, Answer, Leave, Finally, Remove,
       Dialling, Leaving
  <2>3. SessionUpload(s)'  BY <1>1, <1>7, <2>1, <2>2, UploadMoves
  <2> QED  BY <1>4, <1>6, <2>3 DEF UploadInv, SessionUpload
<1>9. CASE Drained(s) \/ Idle(s)
  <2>1. /\ UNCHANGED <<connected, queue, written>> /\ HalfClose(s)
        /\ pc[s] \in {"drained", "poll"} /\ pc'[s] = "poll"
    BY <1>2, <1>9 DEF Drained, Idle
  <2>2. NothingYet(s)'  BY <2>1 DEF NothingYet, Dialling
  <2>3. InOrder(s)'  BY <1>1, <1>7, <2>1 DEF SessionUpload, InOrder, Leaving
  <2>4. AtItsEnd(s)'
    <3>1. CASE outputShutdown'[s] = outputShutdown[s]
      BY <1>1, <1>7, <2>1, <3>1 DEF SessionUpload, AtItsEnd
    <3>2. CASE clientClosed[s] /\ queue[s] = <<>> /\ fin # "data"
      <4>1. Len(queue[s]) = 0  BY <3>2
      <4>2. /\ fin = "bare" /\ Len(written[s]) + Len(queue[s]) = sent
            /\ myAck[s] = SeqOf(Len(written[s]) + Len(queue[s]) + 2)
        BY <1>7, <2>1, <3>2 DEF SessionUpload, InOrder, Leaving
      <4>3. Len(written[s]) = sent  BY <1>3, <4>1, <4>2
      <4> QED  BY <1>1, <2>1, <3>2, <4>2, <4>3 DEF AtItsEnd
    <3>3. CASE fin = "data"  BY <1>1, <3>3 DEF AtItsEnd
    <3> QED  BY <1>2, <2>1, <3>1, <3>2, <3>3 DEF HalfClose
  <2> QED  BY <1>4, <1>6, <2>2, <2>3, <2>4 DEF UploadInv, SessionUpload
<1>10. CASE Write(s)
  <2> DEFINE rest(n) == SubSeq(queue[s], n + 1, Len(queue[s]))
             more(n) == written[s] \o SubSeq(queue[s], 1, n)
  <2>1. PICK n \in 1 .. Len(queue[s]) :
          /\ queue'[s] = rest(n)
          /\ \/ pc'[s] = "drained" /\ written'[s] = more(n)
             \/ pc'[s] = "finally" /\ written'[s] = written[s]
    BY <1>2, <1>10 DEF Write
  <2>2. pc[s] = "poll" /\ queue[s] # <<>> /\ UNCHANGED <<outputShutdown, connected>>
    BY <1>10 DEF Write
  <2>3. NothingYet(s)'  BY <2>1 DEF NothingYet, Dialling
  <2>4. AtItsEnd(s)'  BY <1>1, <1>7, <2>2 DEF SessionUpload, AtItsEnd
  <2>5. CASE pc'[s] = "finally"
    <3>1. InOrder(s)'  BY <2>5 DEF InOrder, Leaving
    <3> QED  BY <1>4, <1>6, <2>3, <2>4, <3>1 DEF UploadInv, SessionUpload
  <2>6. CASE pc'[s] = "drained" /\ fin # "data"
    <3> DEFINE w == Len(written[s])
               q == Len(queue[s])
    <3>1. /\ Len(rest(n)) = q - n /\ Len(more(n)) = w + n
          /\ \A i \in 1 .. Len(rest(n)) : rest(n)[i] = queue[s][n + i]
          /\ \A i \in 1 .. w : more(n)[i] = written[s][i]
          /\ \A i \in 1 .. n : more(n)[w + i] = queue[s][i]
      BY <1>2, WriteKeeps
    <3>2. /\ \A i \in 1 .. w : written[s][i] = i
          /\ \A i \in 1 .. q : queue[s][i] = w + i
          /\ w + q <= sent
          /\ myAck[s] = SeqOf(w + q + (IF clientClosed[s] THEN 2 ELSE 1))
          /\ clientClosed[s] => fin = "bare" /\ w + q = sent
      BY <1>7, <2>2, <2>6 DEF SessionUpload, InOrder, Leaving
    <3>3. queue'[s] = rest(n) /\ written'[s] = more(n)  BY <2>1, <2>6
    <3>8. w \in Nat /\ q \in Nat /\ n \in 1 .. q  BY <1>3
    <3> HIDE DEF rest, more, w, q
    <3>4. (w + n) + (q - n) = w + q  BY <3>8
    <3>5. \A i \in 1 .. q - n : rest(n)[i] = (w + n) + i
      <4> SUFFICES ASSUME NEW i \in 1 .. q - n PROVE rest(n)[i] = (w + n) + i
        OBVIOUS
      <4>1. n + i \in 1 .. q /\ w + (n + i) = (w + n) + i  BY <3>8
      <4> QED  BY <3>1, <3>2, <4>1
    <3>6. \A i \in 1 .. w + n : more(n)[i] = i
      <4> SUFFICES ASSUME NEW i \in 1 .. w + n PROVE more(n)[i] = i
        OBVIOUS
      <4>1. CASE i \in 1 .. w  BY <3>1, <3>2, <4>1
      <4>2. CASE i \notin 1 .. w
        <5> DEFINE k == i - w
        <5>1. k \in 1 .. n /\ i = w + k /\ k \in 1 .. q  BY <3>8, <4>2
        <5> HIDE DEF k
        <5> QED  BY <3>1, <3>2, <5>1
      <4> QED  BY <4>1, <4>2
    <3>7. InOrder(s)'
      <4>1. Len(written'[s]) = w + n /\ Len(queue'[s]) = q - n  BY <3>1, <3>3
      <4> QED  BY <1>1, <3>2, <3>3, <3>4, <3>5, <3>6, <4>1 DEF InOrder
    <3> QED  BY <1>4, <1>6, <2>3, <2>4, <3>7 DEF UploadInv, SessionUpload
  <2>7. CASE fin = "data"
    <3>1. InOrder(s)'  BY <1>1, <2>7 DEF InOrder
    <3> QED  BY <1>4, <1>6, <2>3, <2>4, <3>1 DEF UploadInv, SessionUpload
  <2> QED  BY <2>1, <2>5, <2>6, <2>7
<1> QED  BY <1>8, <1>9, <1>10 DEF Worker

LEMMA UploadStep ==
  ASSUME BridgeShape, UploadInv, [Next]_vars
  PROVE  UploadInv'
<1>1. ASSUME NEW p \in InFlight, Read(p) PROVE UploadInv'
  <2>1. /\ p[1] = "data" => fin = "data" \/ p[2] \in 1 .. sent
        /\ p[1] = "fin" => fin # "no" /\ (fin # "data" => p[2] = sent + 1)
    BY ReadShape
  <2>2. /\ UNCHANGED <<sent, fin, pc, connected, clientClosed, outputShutdown,
                       myAck, queue, written>>
        /\ reader' = p
    BY <1>1 DEF Read, app, flags, upload
  <2>3. ReaderFits'  BY <2>1, <2>2 DEF ReaderFits
  <2> QED  BY <2>2, <2>3, UploadUnchanged
<1>2. ASSUME NEW s \in Sessions, Download(s) PROVE UploadInv'
  <2>1. UNCHANGED <<sent, fin, pc, connected, clientClosed, outputShutdown,
                    myAck, queue, written, reader>>
    BY <1>2, Zenon DEF Download, Chunk, Eof, ReadEnds, DownloadFinally, DownloadRemove,
       downloadRest, app, flags, upload
  <2>2. ReaderFits'  BY <2>1 DEF ReaderFits, UploadInv
  <2> QED  BY <2>1, <2>2, UploadUnchanged
<1>3. CASE Stop \/ UNCHANGED vars
  <2>1. UNCHANGED <<sent, fin, pc, connected, clientClosed, outputShutdown,
                    myAck, queue, written, reader>>
    BY <1>3, Zenon DEF Stop, vars, app, flags, upload
  <2>2. ReaderFits'  BY <2>1 DEF ReaderFits, UploadInv
  <2> QED  BY <2>1, <2>2, UploadUnchanged
<1> QED  BY <1>1, <1>2, <1>3, ClientUpload, ReaderUpload, WorkerUpload DEF Next

LEMMA UploadAlways == Spec => []UploadInv
<1>1. Init => UploadInv
  <2> SUFFICES ASSUME Init PROVE UploadInv
    OBVIOUS
  <2>1. ReaderFits  BY DEF Init, ReaderFits
  <2>2. \A s \in Sessions : NothingYet(s) /\ AtItsEnd(s)
    BY DEF Init, NothingYet, AtItsEnd
  <2>3. \A s \in Sessions : InOrder(s)
    BY DEF Init, InOrder
  <2> QED  BY <2>1, <2>2, <2>3 DEF UploadInv
<1>2. BridgeShape /\ UploadInv /\ [Next]_vars => UploadInv'  BY UploadStep
<1> QED  BY <1>1, <1>2, TableAlways, PTL DEF Spec

\* What is written and what is queued, one after the other.
LEMMA KeptInOrder ==
  ASSUME NEW w \in Seq(Nat), NEW q \in Seq(Nat),
         \A i \in 1 .. Len(w) : w[i] = i, \A i \in 1 .. Len(q) : q[i] = Len(w) + i
  PROVE  w \o q = [i \in 1 .. Len(w \o q) |-> i] /\ Len(w \o q) = Len(w) + Len(q)
<1>1. /\ w \o q \in Seq(Nat) /\ Len(w \o q) = Len(w) + Len(q)
      /\ \A i \in 1 .. Len(w) + Len(q) : (w \o q)[i] = IF i <= Len(w) THEN w[i] ELSE q[i - Len(w)]
  BY ConcatProperties
<1>2. Len(w) \in Nat /\ Len(q) \in Nat  BY LenProperties
<1>3. \A i \in 1 .. Len(w \o q) : (w \o q)[i] = i
  <2> SUFFICES ASSUME NEW i \in 1 .. Len(w) + Len(q) PROVE (w \o q)[i] = i
    BY <1>1
  <2>1. CASE i <= Len(w)
    <3>1. i \in 1 .. Len(w)  BY <1>2, <2>1
    <3> QED  BY <1>1, <2>1, <3>1
  <2>2. CASE ~(i <= Len(w))
    <3>1. i - Len(w) \in 1 .. Len(q) /\ Len(w) + (i - Len(w)) = i  BY <1>2, <2>2
    <3> QED  BY <1>1, <2>2, <3>1
  <2> QED  BY <2>1, <2>2
<1>4. w \o q \in [1 .. Len(w \o q) -> Nat]  BY <1>1, LenProperties
<1> QED  BY <1>1, <1>3, <1>4

\* Across retransmission, reordering, a full queue, sniffing, connecting and
\* the wrap of the sequence numbers, every byte the bridge has acknowledged is
\* queued or written once and in order, and the engine is told of the upload's
\* end after all of it (handleFromTun and the worker).
THEOREM UploadInOrderAlways == Spec => []UploadInOrder
<1>1. BridgeShape => TypeOK
  <2> SUFFICES ASSUME BridgeShape PROVE TypeOK
    OBVIOUS
  <2>1. tun \in Seq(Packets) /\ \A i \in 1 .. Len(tun) : tun[i].from <= created
    BY DEF BridgeShape
  <2>2. DOMAIN tun = 1 .. Len(tun)  BY <2>1, LenProperties
  <2>3. \A i \in 1 .. Len(tun) : tun[i] \in Packets  BY <2>1, ElementOfSeq
  <2>4. \A n \in Sessions : n <= created => n \in 1 .. created
    BY BridgeConstantsOK DEF BridgeShape, Sessions
  <2>5. \A i \in DOMAIN tun : tun[i].from \in 1 .. created /\ tun[i].kind \in Kinds
    BY <2>1, <2>2, <2>3, <2>4 DEF Packets
  <2>6. reader[2] \in Nat  BY DEF BridgeShape
  <2> QED  BY <2>5, <2>6 DEF BridgeShape, TypeOK
<1>2. BridgeShape /\ UploadInv => AckedOnceInOrder
  <2> SUFFICES ASSUME BridgeShape, UploadInv, NEW s \in Sessions,
                      pc[s] \notin {"unborn"} \union Leaving, fin # "data"
               PROVE  LET kept == written[s] \o queue[s] IN
                        /\ kept = [i \in 1 .. Len(kept) |-> i]
                        /\ myAck[s] = SeqOf(Len(kept) + (IF clientClosed[s] THEN 2 ELSE 1))
    BY DEF AckedOnceInOrder, Leaving
  <2>1. queue[s] \in Seq(Nat) /\ written[s] \in Seq(Nat)  BY DEF BridgeShape
  <2>2. /\ \A i \in 1 .. Len(written[s]) : written[s][i] = i
        /\ \A i \in 1 .. Len(queue[s]) : queue[s][i] = Len(written[s]) + i
        /\ myAck[s] = SeqOf(Len(written[s]) + Len(queue[s]) + (IF clientClosed[s] THEN 2 ELSE 1))
    BY DEF UploadInv, InOrder
  <2> DEFINE kept == written[s] \o queue[s]
  <2>3. kept = [i \in 1 .. Len(kept) |-> i] /\ Len(kept) = Len(written[s]) + Len(queue[s])
    BY <2>1, <2>2, KeptInOrder
  <2> HIDE DEF kept
  <2>4. kept = [i \in 1 .. Len(kept) |-> i]
        /\ myAck[s] = SeqOf(Len(kept) + (IF clientClosed[s] THEN 2 ELSE 1))
    BY <2>2, <2>3
  <2> QED  BY <2>4 DEF kept
<1>3. UploadInv => HalfCloseLast /\ SniffFindsNothing
  BY DEF UploadInv, AtItsEnd, NothingYet, Dialling, HalfCloseLast, SniffFindsNothing
<1>4. BridgeShape /\ UploadInv => UploadInOrder  BY <1>1, <1>2, <1>3 DEF UploadInOrder
<1> QED  BY <1>4, TableAlways, UploadAlways, PTL

-----------------------------------------------------------------------------
(* Download. *)

\* The packets of session s in tunOutputQueue are numbered from n on, in order.
Numbered(s, n) ==
  /\ \A i \in 1 .. Len(tun) : tun[i].from = s => tun[i].seq >= n /\ tun[i].seq < mySeq[s]
  /\ \A m \in n .. mySeq[s] - 1 :
       \E i \in 1 .. Len(tun) : tun[i].from = s /\ tun[i].seq = m
  /\ \A i, j \in 1 .. Len(tun) :
       tun[i].from = s /\ tun[j].from = s /\ i < j => tun[i].seq < tun[j].seq

\* A session's first number is its SYN-ACK's, and it gives that one out once.
FirstNumber(s) ==
  /\ pc[s] \in {"unborn", "start"} => mySeq[s] = 0 /\ ~synAckSent[s]
  /\ pc[s] \in Dialling \union {"check", "answer"} => rpc[s] = "unborn"
  /\ pc[s] \in {"sniff", "dial", "connect", "check", "answer"} /\ ~synAckSent[s] => mySeq[s] = 0
  /\ synAckSent[s] \/ rpc[s] = "read" => mySeq[s] > 0

\* The application has sent nothing before it is connected, and nothing has
\* been sent to it before its SYN.
AppPart ==
  /\ client = "new" => created = 0 /\ tun = <<>> /\ reader[1] = "idle" /\ ~rst
  /\ client # "est" => sent = 0 /\ fin = "no"
  /\ client = "est" <=> conn # 0

\* The SYN-ACKs are the packets numbered 0.
KindsPart == \A i \in 1 .. Len(tun) : tun[i].seq = 0 <=> tun[i].kind = "synAck"

FirstPart == \A s \in Sessions : FirstNumber(s)

\* Before the application has a session any may become its own; then only the
\* numbers of that one matter.
NumbersPart ==
  ~dropped => IF conn = 0 THEN \A s \in Sessions : Numbered(s, 0)
              ELSE Numbered(conn, got) /\ got <= mySeq[conn]

DownloadInv == AppPart /\ KindsPart /\ FirstPart /\ NumbersPart

\* The packets in tunOutputQueue.
LEMMA TunPackets ==
  ASSUME BridgeShape
  PROVE  /\ Len(tun) \in Nat /\ DOMAIN tun = 1 .. Len(tun)
         /\ \A i \in 1 .. Len(tun) : /\ tun[i] \in Packets /\ tun[i].from \in Sessions
                                     /\ tun[i].seq \in Nat /\ tun[i].kind \in Kinds
<1>1. tun \in Seq(Packets)  BY DEF BridgeShape
<1>2. \A i \in 1 .. Len(tun) : tun[i] \in Packets  BY <1>1, ElementOfSeq
<1> QED  BY <1>1, <1>2, LenProperties DEF Packets

LEMMA NumberedSame ==
  ASSUME NEW s \in Sessions, NEW n, Numbered(s, n), tun' = tun, mySeq'[s] = mySeq[s]
  PROVE  Numbered(s, n)'
BY DEF Numbered

\* A packet with a session's next number joins the queue.
LEMMA NumberedAppend ==
  ASSUME BridgeShape, NEW t \in Sessions, NEW k \in Kinds,
         tun' = Append(tun, Packet(t, mySeq[t], k)),
         mySeq' = [mySeq EXCEPT ![t] = mySeq[t] + 1],
         NEW s \in Sessions, NEW n \in Nat, n <= mySeq[s], Numbered(s, n)
  PROVE  Numbered(s, n)' /\ n <= mySeq'[s]
<1>1. mySeq \in [Sessions -> Nat] /\ tun \in Seq(Packets)  BY DEF BridgeShape
<1>2. SUFFICES ASSUME NEW l, l = Len(tun), NEW p, p = Packet(t, mySeq[t], k)
               PROVE  Numbered(s, n)' /\ n <= mySeq'[s]
  OBVIOUS
<1>3. p \in Packets /\ p.from = t /\ p.seq = mySeq[t]  BY <1>1, <1>2 DEF Packet, Packets
<1>4. /\ l \in Nat /\ Len(tun') = l + 1
      /\ \A i \in 1 .. l : tun'[i] = tun[i] /\ tun[i].seq \in Nat
      /\ tun'[l + 1] = p
  BY <1>1, <1>2, <1>3, AppendProperties, TunPackets
<1>5. \A i \in 1 .. l + 1 : i \in 1 .. l \/ i = l + 1  BY <1>4
<1>6. l + 1 \in 1 .. l + 1 /\ \A i \in 1 .. l : i \in 1 .. l + 1 /\ i < l + 1 /\ ~(l + 1 < i)
  BY <1>4
<1>7. /\ \A i \in 1 .. l : tun[i].from = s => tun[i].seq >= n /\ tun[i].seq < mySeq[s]
      /\ \A m \in n .. mySeq[s] - 1 : \E i \in 1 .. l : tun[i].from = s /\ tun[i].seq = m
      /\ \A i, j \in 1 .. l :
           tun[i].from = s /\ tun[j].from = s /\ i < j => tun[i].seq < tun[j].seq
  BY <1>2 DEF Numbered
<1>8. CASE s # t
  <2>1. mySeq'[s] = mySeq[s]  BY <1>1, <1>8
  <2>2. \A i \in 1 .. l + 1 : tun'[i].from = s => i \in 1 .. l /\ tun'[i] = tun[i]
    BY <1>3, <1>4, <1>5, <1>8
  <2>3. \A i \in 1 .. l + 1 : tun'[i].from = s => tun'[i].seq >= n /\ tun'[i].seq < mySeq'[s]
    BY <1>7, <2>1, <2>2
  <2>4. \A m \in n .. mySeq'[s] - 1 : \E i \in 1 .. l + 1 : tun'[i].from = s /\ tun'[i].seq = m
    BY <1>4, <1>6, <1>7, <2>1
  <2>5. \A i, j \in 1 .. l + 1 :
          tun'[i].from = s /\ tun'[j].from = s /\ i < j => tun'[i].seq < tun'[j].seq
    BY <1>7, <2>2
  <2> QED  BY <1>4, <2>1, <2>3, <2>4, <2>5 DEF Numbered
<1>9. CASE s = t
  <2>1. mySeq'[s] = mySeq[s] + 1 /\ mySeq[s] \in Nat  BY <1>1, <1>9
  <2>2. \A i \in 1 .. l + 1 : tun'[i].from = s => tun'[i].seq >= n /\ tun'[i].seq < mySeq'[s]
    BY <1>3, <1>4, <1>5, <1>7, <1>9, <2>1
  <2>3. ASSUME NEW m \in n .. mySeq'[s] - 1
        PROVE  \E i \in 1 .. l + 1 : tun'[i].from = s /\ tun'[i].seq = m
    <3>1. CASE m = mySeq[s]  BY <1>3, <1>4, <1>6, <1>9, <3>1
    <3>2. CASE m # mySeq[s]
      <4>1. m \in n .. mySeq[s] - 1  BY <2>1, <3>2
      <4> QED  BY <1>4, <1>6, <1>7, <4>1
    <3> QED  BY <3>1, <3>2
  <2>4. ASSUME NEW i \in 1 .. l + 1, NEW j \in 1 .. l + 1,
               tun'[i].from = s, tun'[j].from = s, i < j
        PROVE  tun'[i].seq < tun'[j].seq
    <3>1. i \in 1 .. l  BY <1>4, <2>4
    <3>2. CASE j \in 1 .. l  BY <1>4, <1>7, <2>4, <3>1, <3>2
    <3>3. CASE j = l + 1  BY <1>3, <1>4, <1>7, <1>9, <2>4, <3>1, <3>3
    <3> QED  BY <1>5, <3>2, <3>3
  <2>5. n <= mySeq'[s]  BY <2>1
  <2> QED  BY <1>4, <2>2, <2>3, <2>4, <2>5 DEF Numbered
<1> QED  BY <1>8, <1>9

\* The first packet leaves it.
LEMMA NumberedTail ==
  ASSUME BridgeShape, tun # <<>>, tun' = Tail(tun), mySeq' = mySeq,
         NEW s \in Sessions, NEW n \in Nat, Numbered(s, n)
  PROVE  /\ Head(tun).from # s => Numbered(s, n)'
         /\ Head(tun).from = s => /\ Head(tun).seq = n /\ n + 1 <= mySeq[s]
                                  /\ Numbered(s, n + 1)'
<1>1. mySeq \in [Sessions -> Nat] /\ tun \in Seq(Packets)  BY DEF BridgeShape
<1>2. SUFFICES ASSUME NEW l, l = Len(tun)
               PROVE  /\ tun[1].from # s => Numbered(s, n)'
                      /\ tun[1].from = s => /\ tun[1].seq = n /\ n + 1 <= mySeq[s]
                                            /\ Numbered(s, n + 1)'
  BY <1>1, HeadTailProperties
<1>3. /\ l \in Nat /\ l >= 1
      /\ \A i \in 1 .. l : tun[i].seq \in Nat
  BY <1>1, <1>2, TunPackets, EmptySeq, LenProperties
<1>4. Len(tun') = l - 1 /\ \A i \in 1 .. l - 1 : tun'[i] = tun[i + 1]
  <2>1. Len(Tail(tun)) = Len(tun) - 1 /\ \A i \in 1 .. Len(Tail(tun)) : Tail(tun)[i] = tun[i + 1]
    BY <1>1, HeadTailProperties
  <2> QED  BY <1>2, <2>1
<1>5. /\ \A i \in 1 .. l - 1 : i + 1 \in 1 .. l
      /\ \A i \in 1 .. l : i # 1 => i - 1 \in 1 .. l - 1 /\ (i - 1) + 1 = i
      /\ \A i, j \in 1 .. l - 1 : i < j => i + 1 < j + 1
      /\ 1 \in 1 .. l /\ \A i \in 1 .. l : i # 1 => 1 < i
      /\ \A i \in 1 .. l - 1 : 1 < i + 1
  BY <1>3
<1>6. /\ \A i \in 1 .. l : tun[i].from = s => tun[i].seq >= n /\ tun[i].seq < mySeq[s]
      /\ \A m \in n .. mySeq[s] - 1 : \E i \in 1 .. l : tun[i].from = s /\ tun[i].seq = m
      /\ \A i, j \in 1 .. l :
           tun[i].from = s /\ tun[j].from = s /\ i < j => tun[i].seq < tun[j].seq
  BY <1>2 DEF Numbered
<1>7. \A i, j \in 1 .. l - 1 :
        tun'[i].from = s /\ tun'[j].from = s /\ i < j => tun'[i].seq < tun'[j].seq
  BY <1>4, <1>5, <1>6
<1>8. ASSUME tun[1].from # s PROVE Numbered(s, n)'
  <2>1. \A i \in 1 .. l - 1 : tun'[i].from = s => tun'[i].seq >= n /\ tun'[i].seq < mySeq[s]
    BY <1>4, <1>5, <1>6
  <2>2. ASSUME NEW m \in n .. mySeq[s] - 1
        PROVE  \E i \in 1 .. l - 1 : tun'[i].from = s /\ tun'[i].seq = m
    <3>1. PICK i \in 1 .. l : tun[i].from = s /\ tun[i].seq = m  BY <1>6
    <3>2. i - 1 \in 1 .. l - 1 /\ tun'[i - 1] = tun[i]  BY <1>4, <1>5, <1>8, <3>1
    <3> QED  BY <3>1, <3>2
  <2> QED  BY <1>4, <1>7, <2>1, <2>2 DEF Numbered
<1>9. ASSUME tun[1].from = s PROVE tun[1].seq = n /\ n + 1 <= mySeq[s] /\ Numbered(s, n + 1)'
  <2>1. tun[1].seq >= n /\ tun[1].seq < mySeq[s] /\ tun[1].seq \in Nat /\ mySeq[s] \in Nat
    BY <1>1, <1>3, <1>5, <1>6, <1>9
  <2>2. n \in n .. mySeq[s] - 1  BY <2>1
  <2>3. PICK i \in 1 .. l : tun[i].from = s /\ tun[i].seq = n  BY <1>6, <2>2
  <2>4. tun[1].seq = n
    <3>1. i # 1 => tun[1].seq < tun[i].seq  BY <1>5, <1>6, <1>9, <2>3
    <3> QED  BY <2>1, <2>3, <3>1
  <2>5. ASSUME NEW j \in 1 .. l - 1, tun'[j].from = s
        PROVE  tun'[j].seq >= n + 1 /\ tun'[j].seq < mySeq[s]
    <3>1. tun'[j] = tun[j + 1] /\ j + 1 \in 1 .. l /\ 1 < j + 1  BY <1>4, <1>5
    <3>2. tun[1].seq < tun[j + 1].seq /\ tun[j + 1].seq < mySeq[s] /\ tun[j + 1].seq \in Nat
      BY <1>3, <1>5, <1>6, <1>9, <2>5, <3>1
    <3>3. tun[j + 1].seq >= n + 1  BY <2>4, <3>2
    <3> QED  BY <3>1, <3>2, <3>3
  <2>6. ASSUME NEW m \in n + 1 .. mySeq[s] - 1
        PROVE  \E j \in 1 .. l - 1 : tun'[j].from = s /\ tun'[j].seq = m
    <3>1. m \in n .. mySeq[s] - 1 /\ m # n  BY <2>1
    <3>2. PICK j \in 1 .. l : tun[j].from = s /\ tun[j].seq = m  BY <1>6, <3>1
    <3>3. j - 1 \in 1 .. l - 1 /\ tun'[j - 1] = tun[j]  BY <1>4, <1>5, <2>4, <3>1, <3>2
    <3> QED  BY <3>2, <3>3
  <2>7. n + 1 <= mySeq[s]  BY <2>1
  <2>8. Numbered(s, n + 1)'  BY <1>4, <1>7, <2>5, <2>6 DEF Numbered
  <2> QED  BY <2>4, <2>7, <2>8
<1> QED  BY <1>8, <1>9

\* The packets that stay keep their numbers.
LEMMA KindsKept ==
  ASSUME KindsPart, NEW p,
         \A i \in 1 .. Len(tun') : tun'[i] = p \/ \E j \in 1 .. Len(tun) : tun'[i] = tun[j],
         p.seq = 0 <=> p.kind = "synAck"
  PROVE  KindsPart'
BY DEF KindsPart

LEMMA KindsShrunk ==
  ASSUME KindsPart, \A i \in 1 .. Len(tun') : \E j \in 1 .. Len(tun) : tun'[i] = tun[j]
  PROVE  KindsPart'
BY DEF KindsPart

LEMMA NumbersSame ==
  ASSUME BridgeShape, NumbersPart, UNCHANGED <<conn, got, mySeq>>,
         ~dropped' => ~dropped /\ tun' = tun
  PROVE  NumbersPart'
<1> SUFFICES ASSUME ~dropped, tun' = tun
             PROVE  IF conn = 0 THEN \A s \in Sessions : Numbered(s, 0)'
                    ELSE (Numbered(conn, got) /\ got <= mySeq[conn])'
  BY DEF NumbersPart
<1> QED  BY DEF NumbersPart, Numbered

\* A session numbers a packet.
LEMMA NumbersGrow ==
  ASSUME BridgeShape, NumbersPart, NEW t \in Sessions, NEW k \in Kinds,
         ~dropped' => ~dropped /\ tun' = Append(tun, Packet(t, mySeq[t], k)),
         mySeq' = [mySeq EXCEPT ![t] = mySeq[t] + 1],
         UNCHANGED <<conn, got>>
  PROVE  NumbersPart'
<1> SUFFICES ASSUME ~dropped', NEW c, c = conn, NEW g, g = got
             PROVE  IF c = 0 THEN \A s \in Sessions : Numbered(s, 0)'
                    ELSE Numbered(c, g)' /\ g <= mySeq'[c]
  BY DEF NumbersPart, Numbered
<1>1. tun' = Append(tun, Packet(t, mySeq[t], k)) /\ ~dropped  OBVIOUS
<1>2. CASE c = 0
  <2>1. ASSUME NEW s \in Sessions PROVE Numbered(s, 0)'
    <3>1. Numbered(s, 0) /\ 0 <= mySeq[s]  BY <1>1, <1>2 DEF NumbersPart, BridgeShape
    <3> QED  BY <1>1, <3>1, NumberedAppend
  <2> QED  BY <1>2, <2>1
<1>3. CASE c # 0
  <2>1. c \in Sessions /\ g \in Nat  BY <1>3, BridgeConstantsOK DEF BridgeShape, Sessions
  <2>2. Numbered(c, g) /\ g <= mySeq[c]  BY <1>1, <1>3 DEF NumbersPart
  <2> QED  BY <1>1, <1>3, <2>1, <2>2, NumberedAppend
<1> QED  BY <1>2, <1>3

\* The application and the TUN writer.
LEMMA ClientDownload ==
  ASSUME BridgeShape, DownloadInv, SendSyn \/ SendSegment \/ SendFin \/ SendRst
  PROVE  DownloadInv'
<1>1. UNCHANGED <<tun, dropped, mySeq, pc, rpc, synAckSent, conn, got>>
  BY Zenon DEF SendSyn, SendSegment, SendFin, SendRst, flags
<1>2. AppPart'
  <2>1. AppPart  BY DEF DownloadInv
  <2> QED  BY <2>1 DEF AppPart, SendSyn, SendSegment, SendFin, SendRst
<1>3. KindsPart' /\ NumbersPart'
  BY <1>1, KindsShrunk, NumbersSame DEF DownloadInv
<1>4. FirstPart'  BY <1>1 DEF DownloadInv, FirstPart, FirstNumber
<1> QED  BY <1>2, <1>3, <1>4 DEF DownloadInv

LEMMA DeliverDownload ==
  ASSUME BridgeShape, DownloadInv, Deliver
  PROVE  DownloadInv'
<1>1. /\ tun # <<>> /\ tun' = Tail(tun)
      /\ UNCHANGED <<sent, fin, rst, created, reader, dropped, mySeq, pc, rpc, synAckSent>>
  BY DEF Deliver, flags
<1>2. AppPart /\ KindsPart /\ FirstPart /\ NumbersPart  BY DEF DownloadInv
<1>3. FirstPart'  BY <1>1, <1>2 DEF FirstPart, FirstNumber
<1>4. tun \in Seq(Packets)  BY DEF BridgeShape
<1>5. Head(tun) = tun[1] /\ 1 \in 1 .. Len(tun)
  BY <1>1, <1>4, HeadTailProperties, EmptySeq
<1>6. KindsPart'
  <2>1. Tail(tun) \in Rest
    <3>1. Tail(tun) \in Seq(Packets) /\ Len(Tail(tun)) = Len(tun) - 1
          /\ \A i \in 1 .. Len(Tail(tun)) : Tail(tun)[i] = tun[i + 1]
      BY <1>1, <1>4, HeadTailProperties
    <3>2. Len(tun) \in Nat  BY <1>4, LenProperties
    <3>3. \A i \in 1 .. Len(Tail(tun)) : i + 1 \in 1 .. Len(tun)  BY <3>1, <3>2
    <3> QED  BY <3>1, <3>3 DEF Rest
  <2> QED  BY <1>1, <1>2, <2>1, KindsShrunk DEF Rest
<1> SUFFICES ASSUME NEW p, p = Head(tun) PROVE DownloadInv'
  OBVIOUS
<1>7. /\ p.from \in Sessions /\ p.from # 0 /\ p.seq \in Nat
      /\ (p.seq = 0 <=> p.kind = "synAck")
  BY <1>2, <1>5, TunPackets, BridgeNumbers DEF KindsPart
<1>8. client # "new"  BY <1>1, <1>2 DEF AppPart
<1>9. CASE client = "syn" /\ p.kind = "synAck"
  <2>1. client' = "est" /\ conn' = p.from /\ got' = p.seq + 1  BY <1>9 DEF Deliver
  <2>2. AppPart'  BY <1>7, <2>1 DEF AppPart
  <2>3. ASSUME ~dropped PROVE Numbered(conn, got)' /\ got' <= mySeq'[conn']
    <3>1. conn = 0  BY <1>2, <1>9 DEF AppPart
    <3>2. Numbered(p.from, 0)  BY <1>2, <1>7, <2>3, <3>1 DEF NumbersPart
    <3>3. 0 + 1 <= mySeq[p.from] /\ Numbered(p.from, 0 + 1)'
      <4> SUFFICES ASSUME NEW s \in Sessions, s = p.from
                   PROVE  0 + 1 <= mySeq[s] /\ Numbered(s, 0 + 1)'
        BY <1>7, <1>1, <1>4 DEF Numbered
      <4> QED  BY <1>1, <3>2, NumberedTail
    <3>4. got' = 0 + 1  BY <1>7, <1>9, <2>1
    <3>5. (Numbered(conn, got))'
      BY <2>1, <3>3, <3>4 DEF Numbered
    <3> QED  BY <1>1, <2>1, <3>3, <3>4, <3>5
  <2>4. NumbersPart'  BY <1>1, <1>7, <2>1, <2>3 DEF NumbersPart
  <2> QED  BY <1>3, <1>6, <2>2, <2>4 DEF DownloadInv
<1>10. CASE ~(client = "syn" /\ p.kind = "synAck")
  <2>1. /\ client' = client /\ conn' = conn
        /\ got' = IF p.from = conn /\ p.seq = got THEN got + 1 ELSE got
    BY <1>10 DEF Deliver
  <2>2. AppPart'  BY <1>1, <1>2, <1>8, <2>1 DEF AppPart
  <2>3. CASE conn = 0
    <3>1. client = "syn"  BY <1>2, <1>8, <2>3 DEF AppPart, BridgeShape
    <3>2. dropped
      <4> SUFFICES ASSUME ~dropped, NEW s \in Sessions, s = p.from PROVE FALSE
        BY <1>7
      <4>1. Numbered(s, 0)  BY <1>2, <2>3 DEF NumbersPart
      <4>2. p.seq = 0  BY <1>1, <4>1, NumberedTail
      <4> QED  BY <1>7, <1>10, <3>1, <4>2
    <3> QED  BY <1>1, <1>3, <1>6, <2>2, <3>2 DEF DownloadInv, NumbersPart
  <2>4. CASE conn # 0
    <3> SUFFICES ASSUME ~dropped, NEW c \in Sessions, c = conn, NEW g \in Nat, g = got
                 PROVE  (Numbered(conn, got) /\ got <= mySeq[conn])'
      <4>1. conn \in Sessions /\ got \in Nat
        BY <2>4, BridgeConstantsOK DEF BridgeShape, Sessions
      <4>2. ~dropped => (Numbered(conn, got) /\ got <= mySeq[conn])'  BY <4>1
      <4>3. NumbersPart'  BY <1>1, <2>1, <2>4, <4>2 DEF NumbersPart
      <4> QED  BY <1>3, <1>6, <2>2, <4>3 DEF DownloadInv
    <3>1. Numbered(c, g) /\ g <= mySeq[c]  BY <1>2, <2>4 DEF NumbersPart
    <3>2. /\ p.from # c => Numbered(c, g)'
          /\ p.from = c => p.seq = g /\ g + 1 <= mySeq[c] /\ Numbered(c, g + 1)'
      BY <1>1, <3>1, NumberedTail
    <3>3. CASE p.from = c
      <4>1. got' = g + 1 /\ conn' = c  BY <2>1, <3>2, <3>3
      <4>2. Numbered(conn, got)'  BY <3>2, <3>3, <4>1 DEF Numbered
      <4> QED  BY <1>1, <3>2, <3>3, <4>1, <4>2
    <3>4. CASE p.from # c
      <4>1. got' = g /\ conn' = c  BY <2>1, <3>4
      <4>2. Numbered(conn, got)'  BY <3>2, <3>4, <4>1 DEF Numbered
      <4> QED  BY <1>1, <3>1, <4>1, <4>2
    <3> QED  BY <3>3, <3>4
  <2> QED  BY <2>3, <2>4
<1> QED  BY <1>9, <1>10

\* The TUN reader.
LEMMA ReaderDownload ==
  ASSUME BridgeShape, DownloadInv, Handle
  PROVE  DownloadInv'
<1>1. AppPart /\ KindsPart /\ FirstPart /\ NumbersPart  BY DEF DownloadInv
<1>2. UNCHANGED <<client, sent, fin, conn, got, mySeq, rpc, synAckSent, rst>>
  BY Zenon DEF Handle, SynKnown, SynReplace, SynNew, Create, Refuse, Blocked, Ignore,
         SynConnected, Abort, Early, Fin, Data, readerRest, app, flags
<1>3. client # "new"
  <2>1. reader[1] # "idle"
    BY DEF Handle, SynKnown, SynReplace, SynNew, Create, Refuse, Blocked, Ignore,
         SynConnected, Abort, Early, Fin, Data
  <2> QED  BY <1>1, <2>1 DEF AppPart
<1>4. AppPart'  BY <1>1, <1>2, <1>3 DEF AppPart
<1>5. KindsPart' /\ NumbersPart'
  <2>1. sendAck \/ UNCHANGED <<tun, dropped>>
    BY Zenon DEF Handle, SynKnown, SynReplace, SynNew, Create, Refuse, Blocked, Ignore,
         SynConnected, Abort, Early, Fin, Data
  <2>2. CASE sendAck
    <3>1. /\ \A i \in 1 .. Len(tun') : \E j \in 1 .. Len(tun) : tun'[i] = tun[j]
          /\ ~dropped' => ~dropped /\ tun' = tun
      BY <2>2, AckKeeps
    <3> QED  BY <1>1, <1>2, <3>1, KindsShrunk, NumbersSame
  <2>3. CASE UNCHANGED <<tun, dropped>>
    BY <1>1, <1>2, <2>3, KindsShrunk, NumbersSame
  <2> QED  BY <2>1, <2>2, <2>3
<1>6. FirstPart'
  <2>1. CASE UNCHANGED pc  BY <1>1, <1>2, <2>1 DEF FirstPart, FirstNumber
  <2>2. CASE Create /\ pc' = [pc EXCEPT ![created + 1] = "start"]
    <3>1. created \in Nat /\ created + 1 \in Sessions /\ pc \in [Sessions -> WorkerPCs]
      BY <2>2, BridgeConstantsOK DEF BridgeShape, Create, Sessions
    <3>2. pc[created + 1] = "unborn" /\ rpc[created + 1] = "unborn"
      BY <3>1 DEF BridgeShape
    <3>3. ASSUME NEW s \in Sessions PROVE FirstNumber(s)'
      <4>1. CASE s = created + 1
        <5>1. pc[s] = "unborn" /\ rpc[s] = "unborn" /\ pc'[s] = "start"
          BY <2>2, <3>1, <3>2, <4>1
        <5>2. mySeq[s] = 0 /\ ~synAckSent[s]  BY <1>1, <5>1 DEF FirstPart, FirstNumber
        <5> QED  BY <1>2, <5>1, <5>2 DEF FirstNumber
      <4>2. CASE s # created + 1
        <5>1. pc'[s] = pc[s]  BY <2>2, <3>1, <4>2
        <5> QED  BY <1>1, <1>2, <5>1 DEF FirstPart, FirstNumber
      <4> QED  BY <4>1, <4>2
    <3> QED  BY <3>3 DEF FirstPart
  <2> QED
    BY <2>1, <2>2, Zenon DEF Handle, SynKnown, SynReplace, SynNew, Create, Refuse, Blocked, Ignore,
         SynConnected, Abort, Early, Fin, Data, readerRest
<1> QED  BY <1>4, <1>5, <1>6 DEF DownloadInv

\* The threads of a session.
LEMMA OwnDownload ==
  ASSUME BridgeShape, DownloadInv, NEW s \in Sessions, Worker(s) \/ Leave(s) \/ Download(s)
  PROVE  DownloadInv'
<1> USE DEF Goto
<1>1. AppPart /\ KindsPart /\ FirstPart /\ NumbersPart  BY DEF DownloadInv
<1>2. UNCHANGED <<client, sent, fin, rst, conn, got, created, reader>>
  BY Zenon DEF Worker, Start, Sniff, Dial, ConnectSocks, Check, Answer, Write, Drained, Idle,
         Leave, Finally, Remove, workerRest, app,
         Download, Chunk, Eof, ReadEnds, DownloadFinally, DownloadRemove, downloadRest
<1>3. /\ pc \in [Sessions -> WorkerPCs] /\ rpc \in [Sessions -> DownloadPCs]
      /\ mySeq \in [Sessions -> Nat] /\ synAckSent \in [Sessions -> BOOLEAN]
      /\ created \in Nat /\ s \in Nat /\ s > 0
  <2>1. s \in Nat /\ s > 0  BY DEF Sessions
  <2> QED  BY <2>1 DEF BridgeShape
<1>4. client # "new"
  <2>1. pc[s] # "unborn" \/ rpc[s] # "unborn"
    BY DEF Worker, Start, Sniff, Dial, ConnectSocks, Check, Answer, Write, Drained, Idle,
         Leave, Finally, Remove, Download, Chunk, Eof, ReadEnds, DownloadFinally, DownloadRemove
  <2>2. ~(s > created)  BY <2>1 DEF BridgeShape
  <2>3. created # 0  BY <1>3, <2>2
  <2> QED  BY <1>1, <2>3 DEF AppPart
<1>5. AppPart'  BY <1>1, <1>2, <1>4 DEF AppPart
<1>6. \/ UNCHANGED <<tun, dropped, mySeq>>
      \/ /\ SynAck(s)
         /\ pc[s] \in {"start", "answer"} /\ ~synAckSent[s]
      \/ /\ Enqueue(Packet(s, mySeq[s], "data")) \/ EnqueueCritical(Packet(s, mySeq[s], "fin"))
         /\ mySeq' = [mySeq EXCEPT ![s] = @ + 1]
         /\ rpc[s] = "read"
  <2>1. CASE Start(s)
    <3>1. pc[s] = "start" /\ ~synAckSent[s]
      BY <1>1, <2>1 DEF Start, FirstPart, FirstNumber
    <3> QED  BY <2>1, <3>1 DEF Start
  <2>2. CASE Answer(s)  BY <2>2 DEF Answer
  <2>3. CASE Chunk(s) \/ Eof(s)  BY <2>3 DEF Chunk, Eof
  <2> QED  BY <2>1, <2>2, <2>3, Zenon DEF Worker, Sniff, Dial, ConnectSocks, Check, Write, Drained, Idle,
         Leave, Finally, Remove, Download, ReadEnds, DownloadFinally, DownloadRemove
<1>7. KindsPart' /\ NumbersPart'
  <2>1. CASE UNCHANGED <<tun, dropped, mySeq>>
    BY <1>1, <1>2, <2>1, KindsShrunk, NumbersSame
  <2>2. ASSUME NEW k \in Kinds,
               \/ Enqueue(Packet(s, mySeq[s], k)) \/ EnqueueCritical(Packet(s, mySeq[s], k)),
               mySeq' = [mySeq EXCEPT ![s] = mySeq[s] + 1],
               mySeq[s] = 0 <=> k = "synAck"
        PROVE  KindsPart' /\ NumbersPart'
    <3>1. SUFFICES ASSUME NEW p, p = Packet(s, mySeq[s], k) PROVE KindsPart' /\ NumbersPart'
      OBVIOUS
    <3>2. p \in Packets /\ (p.seq = 0 <=> p.kind = "synAck")
      BY <1>3, <2>2, <3>1 DEF Packet, Packets
    <3>3. Enqueue(p) \/ EnqueueCritical(p)  BY <2>2, <3>1
    <3>4. /\ \A i \in 1 .. Len(tun') : tun'[i] = p \/ \E j \in 1 .. Len(tun) : tun'[i] = tun[j]
          /\ ~dropped' => ~dropped /\ tun' = Append(tun, p)
      BY <3>2, <3>3, EnqueueKeeps
    <3>5. KindsPart'  BY <1>1, <3>2, <3>4, KindsKept
    <3>6. NumbersPart'  BY <1>1, <1>2, <2>2, <3>1, <3>4, NumbersGrow
    <3> QED  BY <3>5, <3>6
  <2>3. CASE SynAck(s) /\ pc[s] \in {"start", "answer"} /\ ~synAckSent[s]
    <3>1. mySeq[s] = 0  BY <1>1, <2>3 DEF FirstPart, FirstNumber
    <3>2. "synAck" \in Kinds  BY DEF Kinds
    <3> QED  BY <2>2, <2>3, <3>1, <3>2 DEF SynAck
  <2>4. CASE /\ Enqueue(Packet(s, mySeq[s], "data")) \/ EnqueueCritical(Packet(s, mySeq[s], "fin"))
             /\ mySeq' = [mySeq EXCEPT ![s] = @ + 1]
             /\ rpc[s] = "read"
    <3>1. mySeq[s] > 0  BY <1>1, <2>4 DEF FirstPart, FirstNumber
    <3>2. mySeq[s] # 0 /\ "data" # "synAck" /\ "fin" # "synAck"  BY <1>3, <3>1
    <3>3. "data" \in Kinds /\ "fin" \in Kinds  BY DEF Kinds
    <3> QED  BY <2>2, <2>4, <3>2, <3>3
  <2> QED  BY <1>6, <2>1, <2>3, <2>4
<1>8. FirstPart'
  <2>1. \A t \in Sessions \ {s} : /\ pc'[t] = pc[t] /\ rpc'[t] = rpc[t]
                                  /\ mySeq'[t] = mySeq[t] /\ synAckSent'[t] = synAckSent[t]
    <3>1. CASE Worker(s) \/ Leave(s)
      BY <1>3, <3>1 DEF Worker, Start, Sniff, Dial, ConnectSocks, Check, Answer, Write, Drained, Idle,
         Leave, Finally, Remove, SynAck, flags
    <3>2. CASE Download(s)
      BY <1>3, <3>2 DEF Download, Chunk, Eof, ReadEnds, DownloadFinally, DownloadRemove,
         downloadRest, flags
    <3> QED  BY <3>1, <3>2
  <2>2. \A t \in Sessions \ {s} : FirstNumber(t)'  BY <1>1, <2>1 DEF FirstPart, FirstNumber
  <2>3. FirstNumber(s)  BY <1>1 DEF FirstPart
  <2>4. FirstNumber(s)'
    <3> USE DEF FirstNumber, Dialling
    <3>1. CASE Start(s) \/ Sniff(s)
      BY <1>3, <2>3, <3>1 DEF Start, Sniff, SynAck
    <3>2. CASE Dial(s) \/ ConnectSocks(s) \/ Check(s)
      BY <1>3, <2>3, <3>2 DEF Dial, ConnectSocks, Check
    <3>3. CASE Answer(s)
      BY <1>3, <2>3, <3>3 DEF Answer, SynAck
    <3>4. CASE Write(s) \/ Drained(s) \/ Idle(s) \/ Leave(s) \/ Finally(s) \/ Remove(s)
      <4>1. UNCHANGED <<mySeq, synAckSent, rpc>>
            /\ pc'[s] \in {"poll", "drained", "finally", "remove", "done"}
        BY <1>3, <3>4 DEF Write, Drained, Idle, Leave, Finally, Remove, flags
      <4> QED  BY <2>3, <4>1
    <3>5. CASE Download(s)
      <4>1. /\ UNCHANGED <<pc, synAckSent>>
            /\ (mySeq'[s] = mySeq[s] \/ mySeq'[s] = mySeq[s] + 1)
            /\ rpc[s] # "unborn" /\ (rpc'[s] = "read" => rpc[s] = "read")
        BY <1>3, <3>5 DEF Download, Chunk, Eof, ReadEnds, DownloadFinally, DownloadRemove,
           downloadRest, flags
      <4>2. pc[s] \notin Dialling \union {"check", "answer"}  BY <2>3, <4>1
      <4>3. mySeq[s] \in Nat  BY <1>3
      <4> QED  BY <2>3, <4>1, <4>2, <4>3
    <3> QED  BY <3>1, <3>2, <3>3, <3>4, <3>5 DEF Worker
  <2> QED  BY <2>2, <2>4 DEF FirstPart
<1> QED  BY <1>5, <1>7, <1>8 DEF DownloadInv

LEMMA DownloadStep == ASSUME BridgeShape, DownloadInv, [Next]_vars PROVE DownloadInv'
<1>1. AppPart /\ KindsPart /\ FirstPart /\ NumbersPart  BY DEF DownloadInv
<1>2. ASSUME UNCHANGED <<app, created, tun, dropped, mySeq, pc, rpc, synAckSent>>, AppPart'
      PROVE  DownloadInv'
  <2>1. KindsPart' /\ NumbersPart'
    BY <1>1, <1>2, KindsShrunk, NumbersSame DEF app
  <2>2. FirstPart'  BY <1>1, <1>2 DEF FirstPart, FirstNumber
  <2> QED  BY <1>2, <2>1, <2>2 DEF DownloadInv
<1>3. ASSUME NEW p \in InFlight, Read(p) PROVE DownloadInv'
  <2>1. client # "new"
    <3>1. p[1] \in {"syn", "data", "fin", "rst"}  BY ReadShape
    <3>2. client = "new" => sent = 0 /\ fin = "no" /\ ~rst  BY <1>1 DEF AppPart
    <3>3. p[1] = "data" => fin = "data" \/ p[2] \in 1 .. sent  BY ReadShape
    <3>4. (p[1] = "syn" => client # "new") /\ (p[1] = "fin" => fin # "no") /\ (p[1] = "rst" => rst)
      BY ReadShape
    <3> QED  BY <3>1, <3>2, <3>3, <3>4
  <2>2. UNCHANGED <<app, created, tun, dropped, mySeq, pc, rpc, synAckSent>>
    BY <1>3 DEF Read, flags
  <2>3. AppPart'  BY <1>1, <2>1, <2>2 DEF AppPart, app
  <2> QED  BY <1>2, <2>2, <2>3
<1>4. CASE Stop \/ UNCHANGED vars
  <2>1. UNCHANGED <<app, created, reader, tun, dropped, mySeq, pc, rpc, synAckSent>>
    BY <1>4, Zenon DEF Stop, vars, flags
  <2>2. AppPart'  BY <1>1, <2>1 DEF AppPart, app
  <2> QED  BY <1>2, <2>1, <2>2
<1> QED
  BY <1>3, <1>4, ClientDownload, DeliverDownload, ReaderDownload, OwnDownload DEF Next

LEMMA DownloadAlways == Spec => []DownloadInv
<1>1. Init => DownloadInv
  <2> SUFFICES ASSUME Init PROVE DownloadInv
    OBVIOUS
  <2>1. Len(<<>>) = 0  OBVIOUS
  <2>2. AppPart /\ KindsPart  BY <2>1 DEF Init, AppPart, KindsPart
  <2>3. FirstPart  BY DEF Init, FirstPart, FirstNumber, Dialling
  <2>4. NumbersPart  BY <2>1 DEF Init, NumbersPart, Numbered
  <2> QED  BY <2>2, <2>3, <2>4 DEF DownloadInv
<1>2. BridgeShape /\ DownloadInv /\ [Next]_vars => DownloadInv'  BY DownloadStep
<1> QED  BY <1>1, <1>2, TableAlways, PTL DEF Spec

\* As long as tunOutputQueue has lost nothing, the numbers a session has given
\* out and the application has not yet taken are in the queue, each of them and
\* in order, whichever thread of which session numbered them (sendToTun and
\* readFromSocks).
THEOREM DownloadContiguousAlways == Spec => []DownloadContiguous
<1>1. BridgeShape /\ DownloadInv => DownloadContiguous
  <2> SUFFICES ASSUME BridgeShape, DownloadInv, conn # 0, ~dropped
               PROVE  LET mine == {i \in DOMAIN tun : tun[i].from = conn} IN
                        /\ {tun[i].seq : i \in mine} = got .. mySeq[conn] - 1
                        /\ \A i, j \in mine : i < j => tun[i].seq < tun[j].seq
    BY DEF DownloadContiguous
  <2> DEFINE mine == {i \in DOMAIN tun : tun[i].from = conn}
  <2>1. Numbered(conn, got)  BY DEF DownloadInv, NumbersPart
  <2>2. DOMAIN tun = 1 .. Len(tun) /\ \A i \in 1 .. Len(tun) : tun[i].seq \in Nat  BY TunPackets
  <2>3. got \in Nat /\ mySeq[conn] \in Nat
    BY BridgeConstantsOK DEF BridgeShape, Sessions
  <2>4. \A i \in mine : tun[i].seq \in got .. mySeq[conn] - 1
    BY <2>1, <2>2, <2>3 DEF Numbered
  <2>5. \A m \in got .. mySeq[conn] - 1 : \E i \in mine : tun[i].seq = m
    BY <2>1, <2>2 DEF Numbered
  <2>6. \A i, j \in mine : i < j => tun[i].seq < tun[j].seq
    BY <2>1, <2>2 DEF Numbered
  <2> HIDE DEF mine
  <2>7. {tun[i].seq : i \in mine} = got .. mySeq[conn] - 1  BY <2>4, <2>5
  <2> QED  BY <2>6, <2>7 DEF mine
<1> QED  BY <1>1, TableAlways, DownloadAlways, PTL
=============================================================================
