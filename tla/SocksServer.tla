----------------------------- MODULE SocksServer -----------------------------
(***************************************************************************)
(* The proxies of the core, socks::serve (SOCKS5) and socks::serve_http:    *)
(* accepting, answering, sniffing, routing and opening a connection, by     *)
(* way of the organisation's gateway while that is thought healthy.  What   *)
(* is relayed afterwards is NetStack's; a client, its server, the gateway   *)
(* and the resolver are external.                                           *)
(*                                                                          *)
(* A host is a name or an address; of a name only equality matters, unless  *)
(* it is an address written out, and a rule says which hosts or ports it is *)
(* for.                                                                     *)
(***************************************************************************)
EXTENDS Naturals, Sequences, FiniteSets

CONSTANTS
  Clients,
  Names, Addresses,
  Spelled,                \* of a name that is an address written out, the address
  WebPorts, OtherPorts,   \* 80 and 443; the others
  RuleSets,               \* [block, direct]: sets of [kind, of]
  HasGateway              \* GATEWAY_PROXY is set

ASSUME SocksConstants ==
  /\ Names \intersect Addresses = {} /\ WebPorts \intersect OtherPorts = {}
  /\ DOMAIN Spelled \subseteq Names /\ \A n \in DOMAIN Spelled : Spelled[n] \in Addresses
  /\ HasGateway \in BOOLEAN
  /\ \A rs \in RuleSets : \A m \in rs.block \union rs.direct :
       /\ m.kind \in {"domain", "net", "ports"}
       /\ m.of \subseteq Names \union Addresses \union WebPorts \union OtherPorts

\* SOCKS5; HTTP CONNECT; an HTTP request with a whole URL.
ClientKinds == {"socks", "connect", "get"}
Servers == {"socks", "http"}
ServerOf(kind) == IF kind = "socks" THEN "socks" ELSE "http"

\* Nothing was announced.
NoName == "no name"

ASSUME NoNameIsNoHost == NoName \notin Names \union Addresses

VARIABLES
  rules,         \* ROUTES
  listening,     \* of each server: "open", "backoff" or "closed"
  gwHealthy,     \* GATEWAY_HEALTHY
  caller         \* of each client: its connection and the locals of its handler

socksVars == <<rules, listening, gwHealthy, caller>>

Nobody == [kind |-> "none", at |-> "away", host |-> NoName, port |-> "none", replied |-> FALSE,
           head |-> FALSE, named |-> NoName, via |-> "none", dst |-> NoName, sent |-> <<>>,
           replies |-> <<>>]

SocksStart(rs) ==
  /\ rules = rs /\ listening = [s \in Servers |-> "open"] /\ gwHealthy = TRUE
  /\ caller = [c \in Clients |-> Nobody]

SocksInit == \E rs \in RuleSets : SocksStart(rs)

-----------------------------------------------------------------------------
(* Routing. *)

Matches(m, host, port) ==
  CASE m.kind = "ports" -> port \in m.of
    [] m.kind = "net" -> host \in Addresses \intersect m.of
    [] m.kind = "domain" -> host \in Names \intersect m.of

\* RuleSet::decide: a block rule wins over a direct one.
Decide(host, port) ==
  IF \E m \in rules.block : Matches(m, host, port) THEN "block"
  ELSE IF \E m \in rules.direct : Matches(m, host, port) THEN "direct"
  ELSE "proxy"

HasDomainRules == \E m \in rules.block \union rules.direct : m.kind = "domain"

\* decide_route: what the name says, and what the target says if that is nothing.
DecideRoute(r) ==
  IF r.named # NoName /\ Decide(r.named, r.port) # "proxy" THEN Decide(r.named, r.port)
  ELSE Decide(r.host, r.port)

-----------------------------------------------------------------------------
(* A client. *)

Goes(c, r) == caller' = [caller EXCEPT ![c] = r] /\ UNCHANGED <<rules, listening, gwHealthy>>
At(c, place) == caller[c].at = place

\* "if !replied": the answer, unless the sniffing has needed one before.
Answer(r, reply) == IF r.replied THEN r ELSE [r EXCEPT !.replies = Append(@, reply)]
EndClient(r) == [r EXCEPT !.at = "gone"]

Refusal(r, code) == CASE r.kind = "socks" -> code
                      [] OTHER -> IF code = "not allowed" THEN "403" ELSE "502"

\* What the server takes for its target.  A domain of SOCKS5 stays a domain; the
\* HTTP proxy makes an address of one that is written out.
TargetOf(kind, host) ==
  IF kind # "socks" /\ host \in DOMAIN Spelled THEN Spelled[host] ELSE host

Accept(c) ==
  /\ At(c, "away")
  /\ \E kind \in ClientKinds, sent \in Names \union Addresses,
        port \in WebPorts \union OtherPorts : LET host == TargetOf(kind, sent) IN
       /\ listening[ServerOf(kind)] = "open"
       /\ Goes(c, [Nobody EXCEPT !.kind = kind, !.at = "greeting", !.host = host, !.port = port])

\* An error that accept_backoff knows: the listener waits and goes on.
AcceptBacksOff ==
  /\ \E s \in Servers : /\ listening[s] = "open"
                      /\ listening' = [listening EXCEPT ![s] = "backoff"]
  /\ UNCHANGED <<rules, gwHealthy, caller>>

AcceptAgain ==
  /\ \E s \in Servers : /\ listening[s] = "backoff"
                      /\ listening' = [listening EXCEPT ![s] = "open"]
  /\ UNCHANGED <<rules, gwHealthy, caller>>

\* Any other: the server returns.  The SOCKS clients are in its JoinSet, and
\* go with it; those of the HTTP proxy are tasks of their own.
ListenerFails ==
  /\ \E s \in Servers :
       /\ listening[s] = "open"
       /\ listening' = [listening EXCEPT ![s] = "closed"]
       /\ caller' = [c \in Clients |->
                       IF s = "socks" /\ caller[c].kind = "socks" THEN EndClient(caller[c])
                       ELSE caller[c]]
  /\ UNCHANGED <<rules, gwHealthy>>

\* The greeting, or the head of a request, is no good (or the client is gone).
BadGreeting(c) ==
  /\ At(c, "greeting")
  /\ \/ Goes(c, EndClient(caller[c]))
     \/ Goes(c, EndClient([caller[c] EXCEPT
                 !.replies = IF caller[c].kind = "socks"
                             THEN <<"unsupported">> ELSE <<"400">>]))

\* Sniffing comes before routing, for an address, when there are domain rules:
\* the client speaks only when it has been told that it is connected.
Sniffs(r) == r.kind = "socks" /\ r.host \in Addresses /\ HasDomainRules

Greeting(c) ==
  /\ At(c, "greeting")
  /\ Goes(c, IF Sniffs(caller[c])
             THEN [caller[c] EXCEPT !.at = "sniffing", !.replied = TRUE, !.replies = <<"ok">>]
             ELSE [caller[c] EXCEPT !.at = "routing", !.head = (caller[c].kind = "get")])

\* read_sniff_head: the client is gone; it says nothing in the time; it says
\* something, with a name in it (no address: plausible_host) or not.
SniffHead(c) ==
  /\ At(c, "sniffing")
  /\ \/ Goes(c, EndClient(caller[c]))
     \/ Goes(c, [caller[c] EXCEPT !.at = "routing"])
     \/ \E n \in (Names \ DOMAIN Spelled) \union {NoName} :
          Goes(c, [caller[c] EXCEPT !.at = "routing", !.head = TRUE, !.named = n])

Route(c) ==
  /\ At(c, "routing")
  /\ LET r == caller[c]
         web == r.port \in WebPorts
     IN Goes(c, CASE DecideRoute(r) = "block" -> EndClient(Answer(r, Refusal(r, "not allowed")))
                  [] DecideRoute(r) = "direct" -> [r EXCEPT !.at = "direct"]
                  [] OTHER -> [r EXCEPT !.at = IF HasGateway /\ gwHealthy /\ web
                                               THEN "gateway" ELSE "opening"])

\* The request with a whole URL gets no answer but its server's.
Connected(r) == IF r.kind = "get" THEN r ELSE Answer(r, "ok")

\* resolve, or the system's own for a direct connection: what is opened for a host.
Resolve(host) == IF host \in DOMAIN Spelled THEN Spelled[host] ELSE host

\* Mutant: the bytes that were read to find a name are not sent on.
RemoteOpenedHeadless(r, via) ==
  [Connected(r) EXCEPT !.at = "relaying", !.via = via, !.dst = Resolve(r.host),
                       !.sent = IF r.kind = "get" THEN <<"head">> ELSE <<>>]

\* A connection is there; what the sniffing has read, or the request with its
\* first line rewritten, goes first.
RemoteOpened(r, via) ==
  [Connected(r) EXCEPT !.at = "relaying", !.via = via, !.dst = Resolve(r.host),
                       !.sent = IF r.head THEN <<"head">> ELSE <<>>]

\* Mutant: what cannot go direct takes the tunnel.
DirectFallsBack(c) ==
  /\ At(c, "direct")
  /\ \/ Goes(c, RemoteOpened(caller[c], "direct"))
     \/ Goes(c, [caller[c] EXCEPT !.at = "opening"])

\* handle_direct, relay_http_direct.
Direct(c) ==
  /\ At(c, "direct")
  /\ \/ Goes(c, RemoteOpened(caller[c], "direct"))
     \/ Goes(c, EndClient(Answer(caller[c], Refusal(caller[c], "general"))))

\* open_through_gateway.
GatewayOpens(c) == At(c, "gateway") /\ Goes(c, RemoteOpened(caller[c], "gateway"))

\* It does not answer in time, closes, or refuses this destination: for all
\* the clients there is no gateway any more (retire_gateway).
GatewayFails(c) ==
  /\ At(c, "gateway")
  /\ gwHealthy' = FALSE
  /\ caller' = [caller EXCEPT ![c].at = "opening"]
  /\ UNCHANGED <<rules, listening>>

\* resolve and open_tcp.  Their failure is told whether the client has been
\* answered or not.
Opens(c) == At(c, "opening") /\ Goes(c, RemoteOpened(caller[c], "tunnel"))

OpenFails(c) ==
  /\ At(c, "opening")
  /\ Goes(c, EndClient([caller[c] EXCEPT !.replies = Append(@, Refusal(caller[c], "general"))]))

RelayEnds(c) == At(c, "relaying") /\ Goes(c, EndClient(caller[c]))

SocksNext ==
  \/ AcceptBacksOff \/ AcceptAgain \/ ListenerFails
  \/ \E c \in Clients : \/ Accept(c) \/ BadGreeting(c) \/ Greeting(c) \/ SniffHead(c)
                        \/ Route(c) \/ Direct(c) \/ GatewayOpens(c) \/ GatewayFails(c)
                        \/ Opens(c) \/ OpenFails(c) \/ RelayEnds(c)

SocksSpec == SocksInit /\ [][SocksNext]_socksVars

-----------------------------------------------------------------------------

ClientPlaces == {"away", "greeting", "sniffing", "routing", "direct", "gateway", "opening",
                 "relaying", "gone"}

\* Type invariant; a client that has an open connection has been answered.
SocksTypeOK ==
  /\ rules \in RuleSets /\ gwHealthy \in BOOLEAN
  /\ listening \in [Servers -> {"open", "backoff", "closed"}]
  /\ \A c \in Clients :
       /\ caller[c].at \in ClientPlaces
       /\ caller[c].via \in {"none", "direct", "gateway", "tunnel"}
       /\ caller[c].at = "relaying" =>
            caller[c].via # "none" /\ (caller[c].replies = <<>> <=> caller[c].kind = "get")

RuleOf(r, host) == {a \in {"block", "direct"} :
  \E m \in (IF a = "block" THEN rules.block ELSE rules.direct) : Matches(m, host, r.port)}

\* "never let these reach the network at all" (cli.rs): no connection is opened to
\* a destination that a block rule is about.  The code does not keep this: an
\* address sent as a domain is no address to the rules (socks.rs:281), and a
\* direct rule for the sniffed name comes before a block rule for the target.
BlockedNeverReached ==
  \A c \in Clients : LET r == caller[c] IN
    r.via # "none" => "block" \notin RuleOf(r, r.dst)

\* What is left of it: no connection is opened, on any way, when a block rule is
\* about the name the client has announced, or about its target as it was sent
\* and no rule sends that name direct.
BlockedNotOpened ==
  \A c \in Clients : LET r == caller[c] IN
    r.via # "none" =>
      /\ "block" \notin RuleOf(r, r.named)
      /\ "block" \in RuleOf(r, r.host) => "direct" \in RuleOf(r, r.named)

\* What is to go direct never takes the tunnel, whatever the gateway does in
\* between, and nothing else leaves it.
DirectOnlyByRule ==
  \A c \in Clients : LET r == caller[c] IN
    r.via # "none" =>
      (r.via = "direct" <=> "direct" \in RuleOf(r, r.named) \union RuleOf(r, r.host))

\* A client that was told it is connected before its route was known loses
\* nothing by it: its first bytes reach the server, once, before the others.
SniffedBytesKept ==
  \A c \in Clients : LET r == caller[c] IN
    r.via # "none" => r.sent = (IF r.head THEN <<"head">> ELSE <<>>)

\* A client is answered once.  The exception is the code's: when the stack
\* cannot open a connection after the sniffing has said "ok", the failure is
\* written behind it, where the client reads it as bytes of its server.
AnsweredOnce ==
  \A c \in Clients : LET r == caller[c] IN
    Len(r.replies) > 1 => /\ r.replies = <<"ok", "general">>
                          /\ r.replied /\ r.via = "none" /\ r.at = "gone"

\* As long as no client has met a failure of the gateway, every web connection
\* in the tunnel goes through it.
WebThroughGateway ==
  (HasGateway /\ gwHealthy) =>
    \A c \in Clients : caller[c].via = "tunnel" => caller[c].port \notin WebPorts

\* What the rules say of a client, by its sniffed name and else by its target as
\* it was sent, is done whatever the gateway does in between or the opening comes
\* to: the blocked is not opened, the direct stays out of the tunnel although
\* opening it fails, nothing else leaves it, and web traffic takes the gateway.
RulesObeyed ==
  SocksTypeOK /\ BlockedNotOpened /\ DirectOnlyByRule /\ WebThroughGateway

\* A client gets one answer, and its server all of its bytes once.
ClientsServed == SniffedBytesKept /\ AnsweredOnce
=============================================================================
