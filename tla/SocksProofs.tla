---------------------------- MODULE SocksProofs ----------------------------
(***************************************************************************)
(* What socks.rs guarantees its clients, for any number of clients, rules, *)
(* sources and resolvers: the UDP association (UdpRelay) works for one     *)
(* client, and the proxies (SocksServer) obey their rules and keep every   *)
(* client's stream in step.                                                *)
(***************************************************************************)
EXTENDS UdpRelay, SocksServer, SequenceTheorems, TLAPS

-----------------------------------------------------------------------------
(* The UDP association. *)

UdpShape ==
  /\ lookup \in [server : 0 .. Resolvers, id : Nat, found : BOOLEAN]
  /\ accepted \in Nat \X Nat

\* Nothing is sent on, asked or answered before a client has latched: whatever
\* the loop waits for, but its own socket, it waits for a client's datagram.
NothingUnlatched ==
  latched = Unlatched =>
    relayed = {} /\ served = {} /\ assoc \in {"starting", "serving", "leaving", "ended"}

UdpInv == UdpShape /\ NothingUnlatched /\ RelaysItsOwn

\* The query to a further server is a query.
LEMMA NextQuery ==
  ASSUME UdpShape, NEW n \in 1 .. Resolvers
  PROVE  [server |-> n, id |-> lookup.id + 1, found |-> FALSE] \in
           [server : 0 .. Resolvers, id : Nat, found : BOOLEAN]
<1>1. lookup.id + 1 \in Nat  BY DEF UdpShape
<1>2. n \in 0 .. Resolvers  BY UdpConstants
<1> QED  BY <1>1, <1>2

LEMMA UdpInitInv == UdpInit => UdpInv
BY UdpConstants DEF UdpInit, UdpInv, UdpShape, NothingUnlatched, RelaysItsOwn,
   UdpTypeOK, OneClient, AnswerIsCurrent, NoLookup, Unbounded

\* A datagram that is let through is one of the client the association is for.
LEMMA DatagramInv == UdpInv /\ Datagram => UdpInv'
<1> SUFFICES ASSUME UdpInv, Datagram PROVE UdpInv'  OBVIOUS
<1> USE UdpConstants DEF UdpInv, RelaysItsOwn
<1>1. PICK s \in Sources :
        \/ /\ ~SourceAllowed(s)
           /\ UNCHANGED <<assoc, latched, relayed>>
        \/ /\ SourceAllowed(s) /\ latched' = Latch(s)
           /\ assoc' \in {assoc, "looking", "passing", "opening"}
           /\ relayed' \in {relayed, relayed \union {<<s, "direct">>}}
  BY DEF Datagram
<1>2. UNCHANGED <<control, lookup, answers, served, accepted>> /\ datagrams' \in 0 .. MaxDatagrams
  BY DEF Datagram, UdpTypeOK
<1>3. CASE UNCHANGED <<assoc, latched, relayed>>
  BY <1>2, <1>3 DEF UdpShape, NothingUnlatched, UdpTypeOK, OneClient, AnswerIsCurrent
<1>4. CASE /\ SourceAllowed(s) /\ latched' = Latch(s)
           /\ assoc' \in {assoc, "looking", "passing", "opening"}
           /\ relayed' \in {relayed, relayed \union {<<s, "direct">>}}
  <2>1. latched' = s /\ s # Unlatched /\ s.ip = ExpectedIp
    BY <1>4, UnlatchedIsNobody DEF SourceAllowed, Latch, UdpTypeOK, OneClient
  <2>2. \A r \in relayed : r[1] = s
    BY <1>4, <2>1 DEF SourceAllowed, NothingUnlatched, OneClient
  <2>3. served \subseteq {s}
    BY <1>4, <2>1 DEF SourceAllowed, NothingUnlatched, OneClient
  <2>4. OneClient'
    BY <1>2, <1>4, <2>1, <2>2, <2>3 DEF OneClient
  <2>5. UdpShape'
    BY <1>2 DEF UdpShape
  <2>6. UdpTypeOK'
    BY <1>2, <1>4, <2>1 DEF UdpTypeOK, Unbounded
  <2> QED  BY <1>2, <2>1, <2>4, <2>5, <2>6 DEF NothingUnlatched, AnswerIsCurrent
<1> QED  BY <1>1, <1>3, <1>4

\* A look-up that goes on to its next server, or ends.
LEMMA NextServerInv ==
  ASSUME UdpInv, assoc \in {"asking", "waiting"}, NextServer,
         UNCHANGED <<latched, control, answers, relayed, served, datagrams, accepted>>
  PROVE  UdpInv'
<1> USE UdpConstants DEF UdpInv, RelaysItsOwn, NothingUnlatched, UdpTypeOK,
        OneClient, AnswerIsCurrent, Unbounded
<1>1. CASE lookup.server < Resolvers
  <2>1. lookup.server + 1 \in 1 .. Resolvers  BY <1>1
  <2>2. UdpShape'  BY <1>1, <2>1, NextQuery DEF NextServer, UdpShape
  <2> QED  BY <1>1, <2>1, <2>2 DEF NextServer
<1>2. CASE ~(lookup.server < Resolvers)
  BY <1>2 DEF NextServer, UdpShape
<1> QED  BY <1>1, <1>2

LEMMA UdpStep == UdpInv /\ [UdpNext]_udpVars => UdpInv'
<1> SUFFICES ASSUME UdpInv, [UdpNext]_udpVars PROVE UdpInv'  OBVIOUS
<1> USE UdpConstants DEF UdpInv, RelaysItsOwn, UdpShape, NothingUnlatched,
        UdpTypeOK, OneClient, AnswerIsCurrent, Unbounded
<1>1. CASE Datagram  BY <1>1, DatagramInv
<1>2. CASE Ask  BY <1>2 DEF Ask
<1>3. CASE Answered
  <2>1. PICK i \in answers :
          IF IdMatches(i)
          THEN /\ assoc' = "closing" /\ accepted' = <<i, lookup.id>>
               /\ \E found \in BOOLEAN : lookup' = [lookup EXCEPT !.found = found]
          ELSE UNCHANGED <<assoc, accepted, lookup>>
    BY <1>3 DEF Answered
  <2> QED  BY <1>3, <2>1 DEF Answered, IdMatches
<1>4. CASE GiveUpServer \/ AskFails
  BY <1>4, NextServerInv DEF GiveUpServer, AskFails
<1>5. CASE AnswerToClient  BY <1>5 DEF AnswerToClient
<1>6. CASE LookupOpens
  <2>1. CASE UNCHANGED lookup  BY <1>6, <2>1 DEF LookupOpens
  <2>2. CASE /\ assoc' = "asking"
             /\ lookup' = [server |-> 1, id |-> lookup.id + 1, found |-> FALSE]
    <3>1. 1 \in 1 .. Resolvers  BY UdpConstants
    <3>2. UdpShape'  BY <1>6, <2>2, <3>1, NextQuery DEF LookupOpens
    <3> QED  BY <1>6, <2>2, <3>1, <3>2 DEF LookupOpens
  <2> QED  BY <1>6, <2>1, <2>2 DEF LookupOpens
<1>7. CASE SystemFound \/ Passed
  BY <1>7 DEF SystemFound, Passed
<1>8. CASE Started \/ LookupCut \/ LookupCloses \/ AssociationLeaves
  BY <1>8 DEF Started, LookupCut, LookupCloses, AssociationLeaves
<1>9. CASE ControlCloses \/ AssociationCloses \/ AssociationBreaks
  BY <1>9 DEF ControlCloses, AssociationCloses, AssociationBreaks
<1>10. CASE UNCHANGED udpVars  BY <1>10 DEF udpVars
<1> QED  BY <1>1, <1>2, <1>3, <1>4, <1>5, <1>6, <1>7, <1>8, <1>9, <1>10 DEF UdpNext

\* handle_udp_associate: every datagram that goes on comes from the one client
\* the association is for, every answer goes to it, and a look-up ends with
\* the answer to the query that is out; for any sources and resolvers.
THEOREM RelaysItsOwnAlways == UdpSpec => []RelaysItsOwn
<1>1. UdpInv => RelaysItsOwn  BY DEF UdpInv
<1> QED  BY <1>1, UdpInitInv, UdpStep, PTL DEF UdpSpec

-----------------------------------------------------------------------------
(* The proxies. *)

Codes == {"ok", "not allowed", "general", "unsupported", "400", "403", "502"}

Caller == [kind : ClientKinds \union {"none"}, at : ClientPlaces,
           host : Names \union Addresses \union {NoName},
           port : WebPorts \union OtherPorts \union {"none"},
           replied : BOOLEAN, head : BOOLEAN,
           named : Names \union {NoName},
           via : {"none", "direct", "gateway", "tunnel"},
           dst : Names \union Addresses \union {NoName},
           sent : {<<>>, <<"head">>},
           replies : {<<>>} \union {<<x>> : x \in Codes} \union {<<"ok", "general">>}]

Undecided == {"away", "greeting", "sniffing", "routing"}
Unopened == Undecided \union {"direct", "gateway", "opening"}

\* Before its connection is open a client has had the "ok" of the sniffing, or
\* no answer; afterwards it has had one, a request with a whole URL none.
AnswersInStep(r) ==
  /\ r.at # "away" => r.kind \in ClientKinds
  /\ r.at \in {"away", "greeting"} => ~r.replied
  /\ r.at \in Unopened => r.replies = IF r.replied THEN <<"ok">> ELSE <<>>
  /\ r.replied => r.kind = "socks"
  /\ r.at = "relaying" => (r.replies = <<>> <=> r.kind = "get")
  /\ r.replies = <<"ok", "general">> => r.replied /\ r.via = "none" /\ r.at = "gone"

\* The way a client is on, or went, is the one decide_route gives it, and it is
\* in the tunnel with web traffic only because the gateway has been retired.
OnItsWay(r) ==
  /\ r.at \in Unopened => r.via = "none"
  /\ r.at = "relaying" => r.via # "none"
  /\ r.at = "direct" \/ r.via = "direct" => DecideRoute(r) = "direct"
  /\ r.at \in {"gateway", "opening"} \/ r.via \in {"gateway", "tunnel"} =>
       DecideRoute(r) = "proxy"
  /\ (r.at = "opening" \/ r.via = "tunnel") /\ r.port \in WebPorts /\ HasGateway =>
       ~gwHealthy

BytesKept(r) == r.via # "none" => r.sent = (IF r.head THEN <<"head">> ELSE <<>>)

CallerOK(r) == r \in Caller /\ AnswersInStep(r) /\ OnItsWay(r) /\ BytesKept(r)

SocksInv ==
  /\ rules \in RuleSets /\ gwHealthy \in BOOLEAN
  /\ listening \in [Servers -> {"open", "backoff", "closed"}]
  /\ caller \in [Clients -> Caller]
  /\ \A c \in Clients : CallerOK(caller[c])

LEMMA SocksInitInv == SocksInit => SocksInv
<1> SUFFICES ASSUME NEW rs \in RuleSets, SocksStart(rs) PROVE SocksInv
  BY DEF SocksInit
<1>1. CallerOK(Nobody)
  BY DEF CallerOK, Caller, Nobody, ClientPlaces, ClientKinds, AnswersInStep, OnItsWay,
     BytesKept, Unopened, Undecided
<1> QED  BY <1>1 DEF SocksInv, SocksStart, CallerOK

\* A rule set that stays leaves every client as it was.
LEMMA CallerStays ==
  ASSUME UNCHANGED rules, gwHealthy' = gwHealthy \/ ~gwHealthy', NEW r, CallerOK(r)
  PROVE  CallerOK(r)'
<1>1. DecideRoute(r)' = DecideRoute(r)  BY DEF DecideRoute, Decide
<1> QED  BY <1>1 DEF CallerOK, OnItsWay, AnswersInStep, BytesKept

LEMMA GoesInv ==
  ASSUME SocksInv, NEW c \in Clients, NEW r, CallerOK(r), Goes(c, r)
  PROVE  SocksInv'
<1>1. UNCHANGED <<rules, listening, gwHealthy>> /\ caller' = [caller EXCEPT ![c] = r]
  BY DEF Goes
<1>2. caller' \in [Clients -> Caller]  BY <1>1 DEF SocksInv, CallerOK
<1>3. ASSUME NEW d \in Clients PROVE CallerOK(caller[d])'
  <2>1. CallerOK(caller'[d])  BY <1>1 DEF SocksInv
  <2> QED  BY <1>1, <2>1, CallerStays
<1> QED  BY <1>1, <1>2, <1>3 DEF SocksInv

LEMMA SameRoute ==
  ASSUME NEW r, NEW q, q.host = r.host, q.port = r.port, q.named = r.named
  PROVE  DecideRoute(q) = DecideRoute(r)
BY DEF DecideRoute

\* An answer goes behind the ones before it.
LEMMA Appended ==
  /\ \A x : Append(<<>>, x) = <<x>>
  /\ Append(<<"ok">>, "general") = <<"ok", "general">>
<1>1. ASSUME NEW x PROVE Append(<<>>, x) = <<x>>
  <2>1. <<>> \in Seq({x}) /\ Len(<<>>) = 0  OBVIOUS
  <2>2. Append(<<>>, x) \in Seq({x}) /\ Len(Append(<<>>, x)) = 1 /\ Append(<<>>, x)[1] = x
    BY <2>1, AppendProperties
  <2>3. <<x>> \in Seq({x}) /\ Len(<<x>>) = 1 /\ <<x>>[1] = x  OBVIOUS
  <2> QED  BY <2>2, <2>3, SeqEqual
<1>2. Append(<<"ok">>, "general") = <<"ok", "general">>
  <2> DEFINE s == Append(<<"ok">>, "general")
  <2>1. <<"ok">> \in Seq(Codes) /\ Len(<<"ok">>) = 1 /\ "general" \in Codes
    BY DEF Codes
  <2>2. s \in Seq(Codes) /\ Len(s) = 2 /\ s[1] = "ok" /\ s[2] = "general"
    <3>1. s \in Seq(Codes) /\ Len(s) = Len(<<"ok">>) + 1
          /\ s[Len(<<"ok">>) + 1] = "general"
          /\ \A i \in 1 .. Len(<<"ok">>) : s[i] = <<"ok">>[i]
      BY <2>1, AppendProperties
    <3> QED  BY <2>1, <3>1
  <2>3. <<"ok", "general">> \in Seq(Codes) /\ Len(<<"ok", "general">>) = 2
        /\ <<"ok", "general">>[1] = "ok" /\ <<"ok", "general">>[2] = "general"
    BY DEF Codes
  <2>4. \A i \in 1 .. 2 : s[i] = <<"ok", "general">>[i]  BY <2>2, <2>3
  <2> HIDE DEF s
  <2>5. s = <<"ok", "general">>  BY <2>2, <2>3, <2>4, SeqEqual
  <2> QED  BY <2>5 DEF s
<1> QED  BY <1>1, <1>2

\* A client that ends keeps its way and its bytes.
LEMMA EndedOK ==
  ASSUME NEW r, CallerOK(r), r.kind \in ClientKinds
  PROVE  CallerOK(EndClient(r))
<1>1. DecideRoute(EndClient(r)) = DecideRoute(r)
  BY SameRoute DEF EndClient, CallerOK, Caller
<1>2. EndClient(r) \in Caller  BY DEF EndClient, CallerOK, Caller, ClientPlaces
<1>3. AnswersInStep(EndClient(r)) /\ BytesKept(EndClient(r))
  BY DEF EndClient, CallerOK, Caller, AnswersInStep, BytesKept, Unopened, Undecided
<1>4. OnItsWay(EndClient(r))
  BY <1>1 DEF EndClient, CallerOK, Caller, OnItsWay, Unopened, Undecided
<1> QED  BY <1>2, <1>3, <1>4 DEF CallerOK

\* A client that is refused before anything was opened has one answer, except
\* that the failure of the stack is written behind the "ok" of the sniffing.
LEMMA RefusedOK ==
  ASSUME NEW r, CallerOK(r), r.at \in Unopened, NEW x \in Codes,
         r.kind \in ClientKinds, r.replied => x = "general"
  PROVE  CallerOK(EndClient([r EXCEPT !.replies = Append(@, x)]))
<1> DEFINE q == EndClient([r EXCEPT !.replies = Append(@, x)])
<1>1. r.replies = (IF r.replied THEN <<"ok">> ELSE <<>>) /\ r.via = "none"
  BY DEF CallerOK, AnswersInStep, OnItsWay
<1>2. Append(r.replies, x) = IF r.replied THEN <<"ok", "general">> ELSE <<x>>
  BY <1>1, Appended
<1>3. q = [r EXCEPT !.replies = Append(r.replies, x), !.at = "gone"]
  BY DEF EndClient, CallerOK, Caller
<1>4. q.replies = Append(r.replies, x) /\ q.at = "gone" /\ q.via = "none"
      /\ q.replied = r.replied /\ q.kind = r.kind
  BY <1>1, <1>3 DEF CallerOK, Caller
<1>5. q \in Caller
  <2>1. Append(r.replies, x) \in {<<>>} \union {<<y>> : y \in Codes} \union {<<"ok", "general">>}
    BY <1>2
  <2> QED  BY <1>3, <2>1 DEF CallerOK, Caller, ClientPlaces
<1>6. <<x>> # <<"ok", "general">> /\ <<x>> # <<>> /\ <<"ok", "general">> # <<>>
  OBVIOUS
<1>7. AnswersInStep(q) /\ BytesKept(q) /\ OnItsWay(q)
  BY <1>2, <1>4, <1>6 DEF AnswersInStep, BytesKept, OnItsWay, CallerOK, Unopened, Undecided
<1> QED  BY <1>5, <1>7 DEF CallerOK

\* What decide_route has chosen for a client that is not yet on its way.
LEMMA RoutedOK ==
  ASSUME NEW r, CallerOK(r), r.at \in Unopened \ {"away"}, NEW p \in {"direct", "gateway", "opening"},
         p = "direct" => DecideRoute(r) = "direct",
         p # "direct" => DecideRoute(r) = "proxy",
         p = "opening" /\ r.port \in WebPorts /\ HasGateway => ~gwHealthy
  PROVE  CallerOK([r EXCEPT !.at = p])
<1> DEFINE q == [r EXCEPT !.at = p]
<1>1. DecideRoute(q) = DecideRoute(r)  BY SameRoute DEF CallerOK, Caller
<1>2. q \in Caller  BY DEF CallerOK, Caller, ClientPlaces
<1>3. q.at = p /\ q.port = r.port /\ q.via = "none" /\ q.replied = r.replied
      /\ q.replies = r.replies /\ q.kind = r.kind
  BY DEF CallerOK, Caller, OnItsWay
<1>4. AnswersInStep(q) /\ BytesKept(q)
  BY <1>3 DEF CallerOK, AnswersInStep, BytesKept, Unopened, Undecided
<1>5. OnItsWay(q)
  BY <1>1, <1>3 DEF OnItsWay, Unopened, Undecided
<1> QED  BY <1>2, <1>4, <1>5 DEF CallerOK

\* The connection of a client is there, on the way that was chosen for it.
LEMMA OpenedOK ==
  ASSUME NEW r, CallerOK(r), NEW via \in {"direct", "gateway", "tunnel"},
         r.at = (IF via = "tunnel" THEN "opening" ELSE via)
  PROVE  CallerOK(RemoteOpened(r, via))
<1> DEFINE q == RemoteOpened(r, via)
<1>1. r.replies = (IF r.replied THEN <<"ok">> ELSE <<>>) /\ (r.replied => r.kind = "socks")
      /\ r.kind \in ClientKinds
  BY DEF CallerOK, AnswersInStep, Unopened, Undecided
<1>2. Connected(r) = [r EXCEPT !.replies = IF r.kind = "get" THEN <<>> ELSE <<"ok">>]
  BY <1>1, Appended DEF Connected, Answer, CallerOK, Caller
<1>3. q = [r EXCEPT !.replies = IF r.kind = "get" THEN <<>> ELSE <<"ok">>,
                    !.at = "relaying", !.via = via, !.dst = Resolve(r.host),
                    !.sent = IF r.head THEN <<"head">> ELSE <<>>]
  BY <1>2 DEF RemoteOpened, CallerOK, Caller
<1>a. Resolve(r.host) \in Names \union Addresses \union {NoName}
  BY SocksConstants DEF Resolve, CallerOK, Caller
<1>4. q \in Caller  BY ZenonT(60), <1>3, <1>a DEF CallerOK, Caller, ClientPlaces, Codes
<1>5. q.at = "relaying" /\ q.via = via /\ q.port = r.port /\ q.replied = r.replied
      /\ q.replies = (IF r.kind = "get" THEN <<>> ELSE <<"ok">>) /\ q.kind = r.kind
      /\ q.sent = (IF r.head THEN <<"head">> ELSE <<>>) /\ q.head = r.head
      /\ q.host = r.host /\ q.named = r.named
  BY <1>3 DEF CallerOK, Caller
<1>6. DecideRoute(q) = DecideRoute(r)  BY <1>5, SameRoute
<1>7. <<"ok">> # <<>> /\ <<"ok">> # <<"ok", "general">> /\ <<>> # <<"ok", "general">>
  OBVIOUS
<1>8. AnswersInStep(q) /\ BytesKept(q)
  BY <1>1, <1>5, <1>7 DEF AnswersInStep, BytesKept, Unopened, Undecided
<1>9. OnItsWay(q)
  BY <1>5, <1>6 DEF CallerOK, OnItsWay, Unopened, Undecided
<1> QED  BY <1>4, <1>8, <1>9 DEF CallerOK

\* A client that has spoken is one of the three kinds.
LEMMA KindKnown ==
  ASSUME SocksInv, NEW c \in Clients, caller[c].at # "away"
  PROVE  caller[c].kind \in ClientKinds
BY DEF SocksInv, CallerOK, AnswersInStep

LEMMA AcceptInv == ASSUME SocksInv, NEW c \in Clients, Accept(c) PROVE SocksInv'
<1>1. PICK k \in ClientKinds, h \in Names \union Addresses, p \in WebPorts \union OtherPorts :
        Goes(c, [Nobody EXCEPT !.kind = k, !.at = "greeting", !.host = h, !.port = p])
  <2>1. \A k \in ClientKinds, h \in Names \union Addresses :
          TargetOf(k, h) \in Names \union Addresses
    BY SocksConstants DEF TargetOf
  <2> QED  BY <2>1 DEF Accept
<1> DEFINE r == [Nobody EXCEPT !.kind = k, !.at = "greeting", !.host = h, !.port = p]
<1>2. r \in Caller  BY DEF Caller, Nobody, ClientPlaces
<1>3. AnswersInStep(r) /\ OnItsWay(r) /\ BytesKept(r)
  BY DEF Nobody, AnswersInStep, OnItsWay, BytesKept, Unopened, Undecided
<1>4. CallerOK(r)  BY <1>2, <1>3 DEF CallerOK
<1> QED  BY <1>1, <1>4, GoesInv

LEMMA BadGreetingInv == ASSUME SocksInv, NEW c \in Clients, BadGreeting(c) PROVE SocksInv'
<1> DEFINE r == caller[c]
<1>1. CallerOK(r) /\ r.at = "greeting" /\ r.kind \in ClientKinds
  BY KindKnown DEF SocksInv, BadGreeting, At
<1>2. CASE Goes(c, EndClient(r))  BY <1>1, <1>2, EndedOK, GoesInv
<1>3. ASSUME NEW x \in Codes, Goes(c, EndClient([r EXCEPT !.replies = <<x>>]))
      PROVE  SocksInv'
  <2>1. ~r.replied /\ r.replies = <<>>
    BY <1>1 DEF CallerOK, AnswersInStep, Unopened, Undecided
  <2>2. Append(r.replies, x) = <<x>>  BY <2>1, Appended
  <2>3. [r EXCEPT !.replies = Append(@, x)] = [r EXCEPT !.replies = <<x>>]
    BY <2>2
  <2>4. r.at \in Unopened  BY <1>1 DEF Unopened, Undecided
  <2>5. CallerOK(EndClient([r EXCEPT !.replies = Append(@, x)]))
    BY <1>1, <2>1, <2>4, RefusedOK
  <2>6. CallerOK(EndClient([r EXCEPT !.replies = <<x>>]))  BY <2>3, <2>5
  <2> QED  BY <1>3, <2>6, GoesInv
<1>4. "unsupported" \in Codes /\ "400" \in Codes  BY DEF Codes
<1>5. CASE r.kind = "socks"  BY <1>2, <1>3, <1>4, <1>5 DEF BadGreeting
<1>6. CASE r.kind # "socks"  BY <1>2, <1>3, <1>4, <1>6 DEF BadGreeting
<1> QED  BY <1>5, <1>6

LEMMA GreetingInv == ASSUME SocksInv, NEW c \in Clients, Greeting(c) PROVE SocksInv'
<1> DEFINE r == caller[c]
           sniff == [r EXCEPT !.at = "sniffing", !.replied = TRUE, !.replies = <<"ok">>]
           route == [r EXCEPT !.at = "routing", !.head = (r.kind = "get")]
<1>1. CallerOK(r) /\ r.at = "greeting" /\ r.kind \in ClientKinds
  BY KindKnown DEF SocksInv, Greeting, At
<1>2. ~r.replied /\ r.replies = <<>> /\ r.via = "none"
  BY <1>1 DEF CallerOK, AnswersInStep, OnItsWay, Unopened, Undecided
<1>3. ASSUME Sniffs(r) PROVE CallerOK(sniff)
  <2>1. sniff \in Caller  BY <1>1 DEF CallerOK, Caller, ClientPlaces, Codes
  <2>2. sniff.at = "sniffing" /\ sniff.replied /\ sniff.replies = <<"ok">>
        /\ sniff.kind = "socks" /\ sniff.via = "none"
    BY <1>1, <1>2, <1>3 DEF CallerOK, Caller, Sniffs
  <2>3. <<"ok">> # <<"ok", "general">>  OBVIOUS
  <2> HIDE DEF sniff
  <2> QED  BY <2>1, <2>2, <2>3 DEF CallerOK, AnswersInStep, OnItsWay, BytesKept, Unopened,
              Undecided, ClientKinds
<1>4. CallerOK(route)
  <2>1. route \in Caller
    <3>1. ASSUME NEW h \in BOOLEAN PROVE [r EXCEPT !.at = "routing", !.head = h] \in Caller
      BY <1>1 DEF CallerOK, Caller, ClientPlaces
    <3>2. (r.kind = "get") \in BOOLEAN  OBVIOUS
    <3> QED  BY <3>1, <3>2
  <2>2. route.at = "routing" /\ ~route.replied /\ route.replies = <<>>
        /\ route.kind = r.kind /\ route.via = "none"
    BY <1>1, <1>2 DEF CallerOK, Caller
  <2>3. <<>> # <<"ok", "general">>  OBVIOUS
  <2> HIDE DEF route
  <2> QED  BY <1>1, <2>1, <2>2, <2>3 DEF CallerOK, AnswersInStep, OnItsWay, BytesKept, Unopened,
              Undecided
<1>5. Goes(c, IF Sniffs(r) THEN sniff ELSE route)  BY DEF Greeting
<1> HIDE DEF sniff, route
<1> QED  BY <1>3, <1>4, <1>5, GoesInv

LEMMA SniffHeadInv == ASSUME SocksInv, NEW c \in Clients, SniffHead(c) PROVE SocksInv'
<1> DEFINE r == caller[c]
           heard(n) == [r EXCEPT !.at = "routing", !.head = TRUE, !.named = n]
           silent == [r EXCEPT !.at = "routing"]
<1>1. CallerOK(r) /\ r.at = "sniffing" /\ r.kind \in ClientKinds
  BY KindKnown DEF SocksInv, SniffHead, At
<1>2. r.via = "none" /\ r.replies = (IF r.replied THEN <<"ok">> ELSE <<>>)
      /\ (r.replied => r.kind = "socks")
  BY <1>1 DEF CallerOK, AnswersInStep, OnItsWay, Unopened, Undecided
<1>3. <<"ok">> # <<"ok", "general">> /\ <<>> # <<"ok", "general">>  OBVIOUS
<1>4. CallerOK(silent)
  <2>1. silent \in Caller  BY <1>1 DEF CallerOK, Caller, ClientPlaces
  <2>2. silent.at = "routing" /\ silent.replied = r.replied /\ silent.replies = r.replies
        /\ silent.kind = r.kind /\ silent.via = "none"
    BY <1>1, <1>2 DEF CallerOK, Caller
  <2> HIDE DEF silent
  <2> QED  BY <1>1, <1>2, <1>3, <2>1, <2>2 DEF CallerOK, AnswersInStep, OnItsWay, BytesKept,
              Unopened, Undecided
<1>5. ASSUME NEW n \in Names \union {NoName} PROVE CallerOK(heard(n))
  <2> DEFINE q == heard(n)
  <2>1. q \in Caller  BY <1>1 DEF CallerOK, Caller, ClientPlaces
  <2>2. q.at = "routing" /\ q.replied = r.replied /\ q.replies = r.replies
        /\ q.kind = r.kind /\ q.via = "none"
    BY <1>1, <1>2 DEF CallerOK, Caller
  <2> HIDE DEF q
  <2>3. CallerOK(q)  BY <1>1, <1>2, <1>3, <2>1, <2>2 DEF CallerOK, AnswersInStep, OnItsWay,
              BytesKept, Unopened, Undecided
  <2> QED  BY <2>3 DEF q
<1>6. CASE Goes(c, EndClient(r))  BY <1>1, <1>6, EndedOK, GoesInv
<1>7. CASE Goes(c, silent)  BY <1>4, <1>7, GoesInv
<1>8. ASSUME NEW n \in Names \union {NoName}, Goes(c, heard(n)) PROVE SocksInv'
  BY <1>5, <1>8, GoesInv
<1> QED  BY <1>6, <1>7, <1>8 DEF SniffHead

\* The codes a refusal is told by.
LEMMA RefusalCode ==
  ASSUME NEW r, NEW code \in {"general", "not allowed"}
  PROVE  Refusal(r, code) \in Codes /\ (r.kind = "socks" => Refusal(r, code) = code)
BY DEF Refusal, Codes

LEMMA RefusesInv ==
  ASSUME SocksInv, NEW c \in Clients, caller[c].at \in Unopened \ {"away"},
         NEW code \in {"general", "not allowed"},
         Goes(c, EndClient(Answer(caller[c], Refusal(caller[c], code))))
  PROVE  SocksInv'
<1> DEFINE r == caller[c]
<1>1. CallerOK(r) /\ r.kind \in ClientKinds  BY KindKnown DEF SocksInv, Unopened, Undecided
<1>2. CallerOK(EndClient(Answer(r, Refusal(r, code))))
  <2>1. CASE r.replied  BY <1>1, <2>1, EndedOK DEF Answer
  <2>2. CASE ~r.replied
    <3>1. Refusal(r, code) \in Codes  BY RefusalCode
    <3>2. CallerOK(EndClient([r EXCEPT !.replies = Append(@, Refusal(r, code))]))
      BY <1>1, <2>2, <3>1, RefusedOK
    <3> QED  BY <2>2, <3>2 DEF Answer
  <2> QED  BY <2>1, <2>2
<1> QED  BY <1>2, GoesInv

LEMMA RouteInv == ASSUME SocksInv, NEW c \in Clients, Route(c) PROVE SocksInv'
<1> DEFINE r == caller[c]
           way == IF HasGateway /\ gwHealthy /\ r.port \in WebPorts THEN "gateway" ELSE "opening"
<1>1. CallerOK(r) /\ r.at = "routing" /\ r.at \in Unopened \ {"away"}
  BY DEF SocksInv, Route, At, Unopened, Undecided
<1>2. DecideRoute(r) \in {"block", "direct", "proxy"}  BY DEF DecideRoute, Decide
<1>3. CASE DecideRoute(r) = "block"
  <2>1. Goes(c, EndClient(Answer(r, Refusal(r, "not allowed"))))  BY <1>3 DEF Route
  <2> QED  BY <1>1, <2>1, RefusesInv
<1>4. CASE DecideRoute(r) = "direct"
  <2>1. Goes(c, [r EXCEPT !.at = "direct"])  BY <1>4 DEF Route
  <2>2. CallerOK([r EXCEPT !.at = "direct"])  BY <1>1, <1>4, RoutedOK
  <2> QED  BY <2>1, <2>2, GoesInv
<1>5. CASE DecideRoute(r) = "proxy"
  <2>1. Goes(c, [r EXCEPT !.at = way])  BY <1>5 DEF Route
  <2>2. way \in {"direct", "gateway", "opening"} /\ way # "direct"
        /\ (way = "opening" /\ r.port \in WebPorts /\ HasGateway => ~gwHealthy)
    OBVIOUS
  <2> HIDE DEF way
  <2>3. CallerOK([r EXCEPT !.at = way])  BY <1>1, <1>5, <2>2, RoutedOK
  <2> QED  BY <2>1, <2>3, GoesInv
<1> QED  BY <1>2, <1>3, <1>4, <1>5

LEMMA OpensInv ==
  ASSUME SocksInv, NEW c \in Clients,
         (At(c, "direct") /\ Goes(c, RemoteOpened(caller[c], "direct")))
           \/ GatewayOpens(c) \/ Opens(c)
  PROVE  SocksInv'
<1>1. ASSUME NEW via \in {"direct", "gateway", "tunnel"},
             caller[c].at = (IF via = "tunnel" THEN "opening" ELSE via),
             Goes(c, RemoteOpened(caller[c], via))
      PROVE  SocksInv'
  <2>1. CallerOK(RemoteOpened(caller[c], via))  BY <1>1, OpenedOK DEF SocksInv
  <2> QED  BY <1>1, <2>1, GoesInv
<1> QED  BY <1>1 DEF GatewayOpens, Opens, At

LEMMA DirectInv == ASSUME SocksInv, NEW c \in Clients, Direct(c) PROVE SocksInv'
<1>1. caller[c].at = "direct" /\ caller[c].at \in Unopened \ {"away"}
  BY DEF Direct, At, Unopened, Undecided
<1> QED  BY <1>1, OpensInv, RefusesInv DEF Direct

\* Retiring the gateway lets every client go on: it only adds to what explains
\* web traffic that the gateway does not carry.
LEMMA GatewayFailsInv == ASSUME SocksInv, NEW c \in Clients, GatewayFails(c) PROVE SocksInv'
<1>0. PICK r, q : r = caller[c] /\ q = [r EXCEPT !.at = "opening"]  OBVIOUS
<1>1. UNCHANGED <<rules, listening>> /\ gwHealthy' = FALSE /\ r.at = "gateway"
      /\ caller' = [caller EXCEPT ![c] = q]
  BY <1>0 DEF GatewayFails, At, SocksInv, Caller
<1>2. CallerOK(r) /\ r \in Caller  BY <1>0 DEF SocksInv
<1>3. CallerOK(q)'
  <2>1. DecideRoute(r) = "proxy" /\ r.via = "none"
    BY <1>1, <1>2 DEF CallerOK, OnItsWay, Unopened, Undecided
  <2>2. DecideRoute(q)' = DecideRoute(r)
    <3>1. DecideRoute(q) = DecideRoute(r)  BY <1>0, <1>2, SameRoute DEF Caller
    <3> QED  BY <1>1, <3>1 DEF DecideRoute, Decide
  <2>3. q \in Caller  BY <1>0, <1>2 DEF Caller, ClientPlaces
  <2>4. q.at = "opening" /\ q.via = "none" /\ q.replied = r.replied
        /\ q.replies = r.replies /\ q.kind = r.kind
    BY <1>0, <1>2, <2>1 DEF Caller
  <2>5. AnswersInStep(r)  BY <1>2 DEF CallerOK
  <2>6. AnswersInStep(q) /\ BytesKept(q)
    BY <1>1, <2>4, <2>5 DEF AnswersInStep, BytesKept, Unopened, Undecided
  <2>7. OnItsWay(q)'
    BY <1>1, <2>1, <2>2, <2>4 DEF OnItsWay, Unopened, Undecided
  <2> QED  BY <2>3, <2>6, <2>7 DEF CallerOK
<1>4. ASSUME NEW d \in Clients PROVE CallerOK(caller[d])'
  <2>1. CASE d = c  BY <1>1, <1>3, <2>1 DEF SocksInv
  <2>2. CASE d # c
    <3>1. CallerOK(caller[d]) /\ caller'[d] = caller[d]  BY <1>1, <2>2 DEF SocksInv
    <3> QED  BY <1>1, <3>1, CallerStays
  <2> QED  BY <2>1, <2>2
<1>5. caller' \in [Clients -> Caller]
  <2>1. q \in Caller  BY <1>0, <1>2 DEF Caller, ClientPlaces
  <2> QED  BY <1>1, <2>1 DEF SocksInv
<1> QED  BY <1>1, <1>4, <1>5 DEF SocksInv

LEMMA OpenFailsInv == ASSUME SocksInv, NEW c \in Clients, OpenFails(c) PROVE SocksInv'
<1> DEFINE r == caller[c]
<1>1. CallerOK(r) /\ r.at = "opening" /\ r.at \in Unopened /\ r.kind \in ClientKinds
  BY KindKnown DEF SocksInv, OpenFails, At, Unopened
<1>2. r.replied => r.kind = "socks"  BY <1>1 DEF CallerOK, AnswersInStep
<1>3. Refusal(r, "general") \in Codes /\ (r.replied => Refusal(r, "general") = "general")
  BY <1>2, RefusalCode
<1>4. CallerOK(EndClient([r EXCEPT !.replies = Append(@, Refusal(r, "general"))]))
  BY <1>1, <1>3, RefusedOK
<1> QED  BY <1>4, GoesInv DEF OpenFails

LEMMA RelayEndsInv == ASSUME SocksInv, NEW c \in Clients, RelayEnds(c) PROVE SocksInv'
<1>1. CallerOK(caller[c]) /\ caller[c].kind \in ClientKinds
  BY KindKnown DEF SocksInv, RelayEnds, At
<1>2. CallerOK(EndClient(caller[c]))  BY <1>1, EndedOK
<1> QED  BY <1>2, GoesInv DEF RelayEnds

LEMMA ListenersInv ==
  ASSUME SocksInv, AcceptBacksOff \/ AcceptAgain \/ ListenerFails
  PROVE  SocksInv'
<1>1. UNCHANGED <<rules, gwHealthy>>
      /\ listening' \in [Servers -> {"open", "backoff", "closed"}]
  BY DEF AcceptBacksOff, AcceptAgain, ListenerFails, SocksInv
<1>2. caller' \in [Clients -> Caller] /\ \A c \in Clients : CallerOK(caller'[c])
  <2>1. CASE UNCHANGED caller  BY <2>1 DEF SocksInv
  <2>2. CASE ListenerFails
    <3>1. PICK s \in Servers :
            caller' = [c \in Clients |->
                         IF s = "socks" /\ caller[c].kind = "socks" THEN EndClient(caller[c])
                         ELSE caller[c]]
      BY <2>2 DEF ListenerFails
    <3>2. ASSUME NEW c \in Clients PROVE CallerOK(caller'[c])
      <4>1. CallerOK(caller[c])  BY DEF SocksInv
      <4>2. caller[c].kind = "socks" => CallerOK(EndClient(caller[c]))
        BY <4>1, EndedOK DEF ClientKinds
      <4> QED  BY <3>1, <4>1, <4>2
    <3>3. \A c \in Clients : caller'[c] \in Caller  BY <3>2 DEF CallerOK
    <3> QED  BY <3>1, <3>2, <3>3
  <2> QED  BY <2>1, <2>2 DEF AcceptBacksOff, AcceptAgain
<1>3. ASSUME NEW c \in Clients PROVE CallerOK(caller[c])'
  BY <1>1, <1>2, CallerStays
<1> QED  BY <1>1, <1>2, <1>3 DEF SocksInv

LEMMA SocksStep == SocksInv /\ [SocksNext]_socksVars => SocksInv'
<1> SUFFICES ASSUME SocksInv, [SocksNext]_socksVars PROVE SocksInv'
  OBVIOUS
<1>1. CASE UNCHANGED socksVars
  <2>1. UNCHANGED <<rules, listening, gwHealthy, caller>>  BY <1>1 DEF socksVars
  <2>2. ASSUME NEW c \in Clients PROVE CallerOK(caller[c])'
    <3>1. CallerOK(caller'[c])  BY <2>1 DEF SocksInv
    <3> QED  BY <2>1, <3>1, CallerStays
  <2> QED  BY <2>1, <2>2 DEF SocksInv
<1>2. CASE AcceptBacksOff \/ AcceptAgain \/ ListenerFails  BY <1>2, ListenersInv
<1>3. ASSUME NEW c \in Clients,
             \/ Accept(c) \/ BadGreeting(c) \/ Greeting(c) \/ SniffHead(c) \/ Route(c)
             \/ Direct(c) \/ GatewayOpens(c) \/ GatewayFails(c) \/ Opens(c) \/ OpenFails(c)
             \/ RelayEnds(c)
      PROVE  SocksInv'
  BY <1>3, AcceptInv, BadGreetingInv, GreetingInv, SniffHeadInv, RouteInv, DirectInv, OpensInv,
     GatewayFailsInv, OpenFailsInv, RelayEndsInv
<1> QED  BY <1>1, <1>2, <1>3 DEF SocksNext

LEMMA SocksInvAlways == SocksSpec => []SocksInv
BY SocksInitInv, SocksStep, PTL DEF SocksSpec

\* Only a rule for ports is about a client that has announced nothing, and that
\* rule is then about its target as well.
LEMMA NobodysRule ==
  ASSUME NEW rs \in RuleSets, NEW m \in rs.block \union rs.direct, NEW host, NEW port,
         Matches(m, NoName, port)
  PROVE  Matches(m, host, port)
<1>1. m.kind \in {"domain", "net", "ports"}  BY SocksConstants
<1>2. NoName \notin Names /\ NoName \notin Addresses  BY NoNameIsNoHost
<1> QED  BY <1>1, <1>2 DEF Matches

\* What decide_route says, in terms of the rules that are about the client.
LEMMA RouteByRules ==
  ASSUME rules \in RuleSets, NEW r
  PROVE  /\ DecideRoute(r) = "proxy" =>
              RuleOf(r, r.named) = {} /\ RuleOf(r, r.host) = {}
         /\ DecideRoute(r) = "direct" =>
              /\ "block" \notin RuleOf(r, r.named)
              /\ "block" \in RuleOf(r, r.host) => "direct" \in RuleOf(r, r.named)
              /\ "direct" \in RuleOf(r, r.named) \union RuleOf(r, r.host)
<1> DEFINE B(h) == \E m \in rules.block : Matches(m, h, r.port)
           D(h) == \E m \in rules.direct : Matches(m, h, r.port)
<1>1. ASSUME NEW h
      PROVE  /\ "block" \in RuleOf(r, h) <=> B(h)
             /\ "direct" \in RuleOf(r, h) <=> D(h)
             /\ ~B(h) /\ ~D(h) => RuleOf(r, h) = {}
  BY DEF RuleOf
<1>2. ASSUME r.named = NoName
      PROVE  (B(r.named) => B(r.host)) /\ (D(r.named) => D(r.host))
  BY <1>2, NobodysRule
<1>3. \A h : Decide(h, r.port) = IF B(h) THEN "block" ELSE IF D(h) THEN "direct" ELSE "proxy"
  BY DEF Decide
<1> HIDE DEF B, D
<1> QED  BY <1>1, <1>2, <1>3 DEF DecideRoute

LEMMA RulesObeyedByInv == SocksInv => RulesObeyed
<1> SUFFICES ASSUME SocksInv PROVE RulesObeyed
  OBVIOUS
<1>1. SocksTypeOK
  BY DEF SocksInv, SocksTypeOK, CallerOK, Caller, AnswersInStep, OnItsWay
<1>2. ASSUME NEW c \in Clients, caller[c].via # "none"
      PROVE  LET r == caller[c] IN
               /\ "block" \notin RuleOf(r, r.named)
               /\ "block" \in RuleOf(r, r.host) => "direct" \in RuleOf(r, r.named)
               /\ r.via = "direct" <=> "direct" \in RuleOf(r, r.named) \union RuleOf(r, r.host)
  <2> DEFINE r == caller[c]
  <2>1. CallerOK(r) /\ r.via \in {"none", "direct", "gateway", "tunnel"}
    BY DEF SocksInv, Caller
  <2>2. /\ r.via = "direct" => DecideRoute(r) = "direct"
        /\ r.via \in {"gateway", "tunnel"} => DecideRoute(r) = "proxy"
    BY <2>1 DEF CallerOK, OnItsWay
  <2>3. rules \in RuleSets  BY DEF SocksInv
  <2> HIDE DEF r
  <2>4. CASE r.via = "direct"  BY <2>2, <2>3, <2>4, RouteByRules DEF r
  <2>5. CASE r.via \in {"gateway", "tunnel"}  BY <2>2, <2>3, <2>5, RouteByRules DEF r
  <2> QED  BY <1>2, <2>1, <2>4, <2>5 DEF r
<1>3. BlockedNotOpened /\ DirectOnlyByRule  BY <1>2 DEF BlockedNotOpened, DirectOnlyByRule
<1>4. WebThroughGateway  BY DEF WebThroughGateway, SocksInv, CallerOK, OnItsWay
<1> QED  BY <1>1, <1>3, <1>4 DEF RulesObeyed

LEMMA ClientsServedByInv == SocksInv => ClientsServed
<1> SUFFICES ASSUME SocksInv PROVE ClientsServed
  OBVIOUS
<1>1. SniffedBytesKept  BY DEF SocksInv, SniffedBytesKept, CallerOK, BytesKept
<1>2. AnsweredOnce
  <2> SUFFICES ASSUME NEW c \in Clients, Len(caller[c].replies) > 1
               PROVE  LET r == caller[c] IN
                        /\ r.replies = <<"ok", "general">>
                        /\ r.replied /\ r.via = "none" /\ r.at = "gone"
    BY DEF AnsweredOnce
  <2>1. caller[c].replies \in {<<>>} \union {<<x>> : x \in Codes} \union {<<"ok", "general">>}
    BY DEF SocksInv, Caller
  <2>2. caller[c].replies # <<>>
    <3>1. Len(<<>>) = 0  OBVIOUS
    <3> QED  BY <3>1
  <2>3. ASSUME NEW x \in Codes, caller[c].replies = <<x>> PROVE FALSE
    <3>1. Len(<<x>>) = 1  OBVIOUS
    <3> QED  BY <2>3, <3>1
  <2>4. caller[c].replies = <<"ok", "general">>  BY <2>1, <2>2, <2>3
  <2> QED  BY <2>4 DEF SocksInv, CallerOK, AnswersInStep
<1> QED  BY <1>1, <1>2 DEF ClientsServed

\* Whatever the sniffing finds and whenever the gateway is retired, no client of
\* socks::serve or serve_http has a connection that the rules forbid, and none
\* is on another way than the one they give it.
THEOREM RulesObeyedAlways == SocksSpec => []RulesObeyed
BY SocksInvAlways, RulesObeyedByInv, PTL

\* A client has one answer, but for the failure written behind the "ok" of the
\* sniffing, and its server has the bytes the sniffing has read.
THEOREM ClientsServedAlways == SocksSpec => []ClientsServed
BY SocksInvAlways, ClientsServedByInv, PTL
=============================================================================
