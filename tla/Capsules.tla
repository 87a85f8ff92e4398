------------------------------ MODULE Capsules ------------------------------
(***************************************************************************)
(* The capsules of a CONNECT-IP stream, as masque::CapsuleParser reads them *)
(* and the tunnels drain them: masque_h2::run after every chunk of the      *)
(* body, quic::poll_h3 after all the body that has come.                    *)
(*                                                                          *)
(* A byte of the stream is its offset.  A capsule is its kind, the length   *)
(* of its value and the offset of its first byte: two bytes for the kind    *)
(* and the length, then the value.  The buffer holds the bytes from `lo` to *)
(* the last one that has come.  The chunks in which the stream comes follow *)
(* no boundary.  A buffer that has lost bytes may begin inside a capsule:   *)
(* what the parser takes for a kind and a length is then any.               *)
(***************************************************************************)
EXTENDS Integers, Sequences

CONSTANTS
  Streams,      \* the streams an edge may send: sequences of capsules
  MaxChunk,     \* bytes of a chunk, at most
  BufCap,       \* MAX_CAPSULE_BUF
  ToStack       \* size of the queue to the stack

CapKinds == {"packet", "noise", "assign", "badAssign", "unknown"}
CapLens == 0..BufCap + 1

\* The offset behind a capsule, and the bytes of a whole stream.
EndOf(c) == c.at + c.len + 2
StreamBytes(s) == IF s = <<>> THEN 0 ELSE EndOf(s[Len(s)])

\* The capsules of a stream follow one another without a gap.
LaidOut(s) ==
  /\ s # <<>> => s[1].at = 0
  /\ \A i \in 1..Len(s) - 1 : s[i + 1].at = EndOf(s[i])

ASSUME CapsuleConstants ==
  /\ Streams # {}
  /\ \A s \in Streams : s \in Seq([kind : CapKinds, len : CapLens, at : Nat]) /\ LaidOut(s)
  /\ {MaxChunk, BufCap, ToStack} \subseteq Nat \ {0}

VARIABLES
  capPath,     \* "h2" or "h3"
  stream,      \* what the edge sends
  came,        \* how many of its bytes have come
  lo,          \* CapsuleParser::buf holds the bytes lo .. came - 1
  draining,    \* drain_capsules is at work
  stackQueue,  \* inbound_tx: capsule numbers
  delivered,   \* packets that have been put there, in order
  dropped,     \* packets that found it full
  assigned,    \* the AddressAssign capsules that were told on
  overflowed,  \* the buffer has been thrown away
  stackUp,     \* the receiver of inbound_tx is there
  halted       \* the last drain stopped at an error

capVars == <<capPath, stream, came, lo, draining, stackQueue, delivered, dropped,
             assigned, overflowed, stackUp, halted>>

CapsulesStart(path, s) ==
  /\ capPath = path /\ stream = s /\ came = 0 /\ lo = 0
  /\ draining = FALSE /\ stackQueue = <<>> /\ delivered = <<>>
  /\ dropped = {} /\ assigned = {} /\ overflowed = FALSE /\ stackUp = TRUE /\ halted = FALSE

CapsulesInit == \E path \in {"h2", "h3"}, s \in Streams : CapsulesStart(path, s)

-----------------------------------------------------------------------------

Buffered == came - lo

\* CapsuleParser::push of n bytes: too many empty the buffer, and are lost too.
PushChunk(n) ==
  IF Buffered + n > BufCap
  THEN lo' = came + n /\ overflowed' = TRUE
  ELSE lo' = lo /\ overflowed' = overflowed

\* A chunk of the body.  HTTP/2 drains the parser after each of them; HTTP/3
\* goes on while recv_body has more, so several may be pushed before a drain.
Chunk ==
  /\ ~draining
  /\ \E n \in 1..MaxChunk :
       /\ came + n <= StreamBytes(stream)
       /\ PushChunk(n)
       /\ came' = came + n
  /\ draining' \in (IF capPath = "h2" \/ came' = StreamBytes(stream) THEN {TRUE} ELSE BOOLEAN)
  /\ halted' = (halted /\ ~draining')
  /\ UNCHANGED <<capPath, stream, stackQueue, delivered, dropped, assigned, stackUp>>

\* The number of the capsule that begins where the buffer does, if one does.
AtHead == {i \in 1..Len(stream) : stream[i].at = lo}

\* What CapsuleParser::next reads at the head of the buffer: the kind and the
\* length of the capsule that begins there, or anything inside one.
Heads ==
  IF Buffered < 2 THEN {}
  ELSE IF AtHead # {} THEN {stream[i] : i \in AtHead}
  ELSE [kind : CapKinds, len : CapLens, at : {lo}]

\* The number of the capsule whose value the parser returns (0: bytes of no one).
Read == IF AtHead # {} THEN CHOOSE i \in AtHead : TRUE ELSE 0

Whole(h) == Buffered >= h.len + 2

\* Mutant: the kind and the length are taken off although the value has not come.
ConsumeHead(h) == IF Whole(h) THEN EndOf(h) ELSE lo + 2

\* buf.drain(0..consumed): where the buffer begins after a look at h.
Consume(h) == IF Whole(h) THEN EndOf(h) ELSE lo

\* The loop of drain_capsules ends at an error and at a closed queue.
DrainGoesOn(h) ==
  h.kind # "badAssign" /\ (h.kind = "packet" /\ capPath = "h2" => stackUp)

\* A whole capsule is there: next takes it, drain_capsules acts on it.  Only
\* HTTP/2 carries packets in capsules; a payload that is not an IP packet is
\* passed over, a full queue drops the packet, and one that is closed ends the
\* drain.
TakeCapsule ==
  /\ draining
  /\ \E h \in Heads :
       LET whole == Whole(h)
           packet == whole /\ h.kind = "packet" /\ capPath = "h2"
           room == stackUp /\ Len(stackQueue) < ToStack
       IN /\ lo' = Consume(h)
          /\ draining' = (whole /\ DrainGoesOn(h))
          /\ halted' = (whole /\ h.kind = "badAssign")
          /\ assigned' = IF whole /\ h.kind = "assign" THEN assigned \union {Read}
                         ELSE assigned
          /\ stackQueue' = IF packet /\ room THEN Append(stackQueue, Read) ELSE stackQueue
          /\ delivered' = IF packet /\ room THEN Append(delivered, Read) ELSE delivered
          /\ dropped' = IF packet /\ ~room THEN dropped \union {Read} ELSE dropped
  /\ UNCHANGED <<capPath, stream, came, overflowed, stackUp>>

\* Not even a kind and a length are there.
DrainShort ==
  /\ draining /\ Heads = {}
  /\ draining' = FALSE
  /\ UNCHANGED <<capPath, stream, came, lo, stackQueue, delivered, dropped, assigned,
                 overflowed, stackUp, halted>>

\* The stack takes a packet.
StackTakes ==
  /\ stackUp /\ stackQueue # <<>>
  /\ stackQueue' = Tail(stackQueue)
  /\ UNCHANGED <<capPath, stream, came, lo, draining, delivered, dropped, assigned,
                 overflowed, stackUp, halted>>

StackGoes ==
  /\ stackUp /\ stackUp' = FALSE /\ stackQueue' = <<>>
  /\ UNCHANGED <<capPath, stream, came, lo, draining, delivered, dropped, assigned,
                 overflowed, halted>>

CapsulesNext == Chunk \/ TakeCapsule \/ DrainShort \/ StackTakes \/ StackGoes

CapsulesSpec == CapsulesInit /\ [][CapsulesNext]_capVars

-----------------------------------------------------------------------------

\* Type invariant, with the bound push keeps (MAX_CAPSULE_BUF).
CapsulesTypeOK ==
  /\ capPath \in {"h2", "h3"} /\ stream \in Streams
  /\ came \in 0..StreamBytes(stream) /\ lo \in 0..came /\ Buffered <= BufCap
  /\ Len(stackQueue) <= ToStack
  /\ draining \in BOOLEAN /\ halted \in BOOLEAN /\ overflowed \in BOOLEAN
  /\ \A i \in 1..Len(delivered) : delivered[i] \in 0..Len(stream)

\* The parser has gone past capsule i.
CapsulesBehind(i) == EndOf(stream[i]) <= lo

\* Whatever the chunks are, as long as the buffer has not overflowed every
\* packet of the stream that the parser has gone past was put into the queue,
\* or dropped because it was full or closed, in the order the edge sent them; and
\* nothing that is no capsule of the stream was taken for one.
CapsulesInStep ==
  ~overflowed =>
    /\ \A i, j \in 1..Len(delivered) : i < j => delivered[i] < delivered[j]
    /\ {delivered[k] : k \in 1..Len(delivered)} \union dropped =
         {i \in 1..Len(stream) : /\ capPath = "h2" /\ stream[i].kind = "packet"
                                 /\ CapsulesBehind(i)}
    /\ assigned = {i \in 1..Len(stream) : stream[i].kind = "assign" /\ CapsulesBehind(i)}

\* Between two chunks no whole capsule waits in the buffer, unless the drain
\* stopped at one that does not parse (then the next chunk takes it on) or
\* HTTP/3 has more of the body to read.
DrainedUnlessHalted ==
  (~draining /\ ~halted /\ stackUp /\ ~overflowed /\ capPath = "h2" /\ Heads # {}) =>
    \A h \in Heads : ~Whole(h)

\* Parsing does not depend on how the stream is cut into chunks.
ChunkingInvisible == CapsulesTypeOK /\ CapsulesInStep /\ DrainedUnlessHalted
=============================================================================
