------------------------------ MODULE UdpRelay ------------------------------
(***************************************************************************)
(* A SOCKS5 UDP association, socks::handle_udp_associate: one loop that     *)
(* serves the datagrams of the client, the answers of the tunnel, those of  *)
(* the direct socket and the control connection; and, inside it, the        *)
(* look-up of a name through the tunnel (dns_resolve, dns_exchange).        *)
(*                                                                          *)
(* The loop serves nothing else while a branch waits, and a branch waits    *)
(* for the stack to open a socket (open_udp), for a place in data_in, which *)
(* all the connections share (send_to, close), for the system's look-up     *)
(* (lookup_host), or for the answer to a query.  Only the last has a        *)
(* deadline.                                                                *)
(*                                                                          *)
(* A source is an address and a port.  The network is external: it may      *)
(* lose a question, and bring an answer late.                               *)
(***************************************************************************)
EXTENDS Naturals, FiniteSets

CONSTANTS
  Sources,        \* [ip, port]
  ExpectedIp,     \* of the control connection, or of the request
  Resolvers,      \* number of resolver_addresses()
  MaxDatagrams    \* bound: datagrams of all the sources

ASSUME UdpConstants ==
  /\ Resolvers \in Nat \ {0} /\ MaxDatagrams \in Nat
  /\ \E s \in Sources : s.ip = ExpectedIp

\* client is None.
Unlatched == [ip |-> "none", port |-> 0]

ASSUME UnlatchedIsNobody == Unlatched \notin Sources

VARIABLES
  assoc,      \* where the task is
  latched,    \* client
  control,    \* the control connection: "open" or "closed"
  lookup,     \* the look-up: [server, id, found], ids are those of the queries
  answers,    \* answers on their way: the ids of their queries
  relayed,    \* sources of the datagrams that were sent on, and by which way
  served,     \* to whom answers were sent
  datagrams,  \* how many have come
  accepted    \* <<id of the answer taken, id of the query then out>>

udpVars == <<assoc, latched, control, lookup, answers, relayed, served, datagrams, accepted>>

\* "serving" is the select of the loop, "waiting" the wait under the deadline.
Unbounded == {"starting", "looking", "opening", "asking", "closing", "passing", "leaving"}

NoLookup == [server |-> 0, id |-> 0, found |-> FALSE]

UdpInit ==
  /\ assoc = "starting" /\ latched = Unlatched /\ control = "open" /\ lookup = NoLookup
  /\ answers = {} /\ relayed = {} /\ served = {} /\ datagrams = 0 /\ accepted = <<0, 0>>

-----------------------------------------------------------------------------

\* The relay's own socket in the stack: open_udp answers, or fails.
Started ==
  /\ assoc = "starting" /\ assoc' \in {"serving", "ended"}
  /\ UNCHANGED <<latched, control, lookup, answers, relayed, served, datagrams, accepted>>

\* udp_source_allowed.
SourceAllowed(s) == IF latched = Unlatched THEN s.ip = ExpectedIp ELSE s = latched

Latch(s) == IF latched = Unlatched THEN s ELSE latched

\* A datagram of the client: it is refused; it latches the association, and is
\* malformed or blocked, goes out direct, or needs the system's look-up for
\* that; goes into the tunnel, or needs a look-up through the tunnel first.
Datagram ==
  /\ assoc = "serving" /\ datagrams < MaxDatagrams
  /\ datagrams' = datagrams + 1
  /\ \E s \in Sources :
       \/ /\ ~SourceAllowed(s)
          /\ UNCHANGED <<assoc, latched, relayed>>
       \/ /\ SourceAllowed(s) /\ latched' = Latch(s)
          /\ \/ UNCHANGED <<assoc, relayed>>
             \/ relayed' = relayed \union {<<s, "direct">>} /\ UNCHANGED assoc
             \/ assoc' \in {"looking", "passing", "opening"} /\ UNCHANGED relayed
  /\ UNCHANGED <<control, lookup, answers, served, accepted>>

\* lookup_host has come back, with an address or without.
SystemFound ==
  /\ assoc = "looking" /\ assoc' = "serving"
  /\ relayed' \in {relayed, relayed \union {<<latched, "direct">>}}
  /\ UNCHANGED <<latched, control, lookup, answers, served, datagrams, accepted>>

\* The datagram is in data_in; or the stack has gone, which send_to does not say.
Passed ==
  /\ assoc = "passing" /\ assoc' = "serving"
  /\ relayed' \in {relayed, relayed \union {<<latched, "tunnel">>}}
  /\ UNCHANGED <<latched, control, lookup, answers, served, datagrams, accepted>>

-----------------------------------------------------------------------------
(* The look-up. *)

\* Its socket is open, or cannot be.
LookupOpens ==
  /\ assoc = "opening"
  /\ \/ assoc' = "asking" /\ lookup' = [server |-> 1, id |-> lookup.id + 1, found |-> FALSE]
     \/ assoc' = "serving" /\ UNCHANGED lookup
  /\ UNCHANGED <<latched, control, answers, relayed, served, datagrams, accepted>>

\* The question to a server is in data_in.  It comes back, later or never.
Ask ==
  /\ assoc = "asking" /\ assoc' = "waiting"
  /\ answers' \in {answers, answers \union {lookup.id}}
  /\ UNCHANGED <<latched, control, lookup, relayed, served, datagrams, accepted>>

\* Mutant: the id of an answer is not compared.
IdMatchesAny(id) == TRUE

\* dns_response_matches.
IdMatches(id) == id = lookup.id

\* An answer that is not the one waited for is passed over; the one that is
\* ends the exchange, with an address or without.
Answered ==
  /\ assoc = "waiting"
  /\ \E id \in answers :
       /\ answers' = answers \ {id}
       /\ IF IdMatches(id)
          THEN /\ assoc' = "closing" /\ accepted' = <<id, lookup.id>>
               /\ \E found \in BOOLEAN : lookup' = [lookup EXCEPT !.found = found]
          ELSE UNCHANGED <<assoc, accepted, lookup>>
  /\ UNCHANGED <<latched, control, relayed, served, datagrams>>

\* Mutant: the last server is asked again and again.
NextServerForEver ==
  /\ lookup' = [server |-> IF lookup.server < Resolvers THEN lookup.server + 1 ELSE Resolvers,
                id |-> IF lookup.server < Resolvers THEN lookup.id + 1 ELSE lookup.id,
                found |-> FALSE]
  /\ assoc' = "asking"

\* The next server, with a query of its own, or the end of the exchange.
NextServer ==
  IF lookup.server < Resolvers
  THEN /\ lookup' = [server |-> lookup.server + 1, id |-> lookup.id + 1, found |-> FALSE]
       /\ assoc' = "asking"
  ELSE assoc' = "closing" /\ UNCHANGED lookup

\* The deadline of a server passes, whatever else has come.
GiveUpServer ==
  /\ assoc = "waiting" /\ NextServer
  /\ UNCHANGED <<latched, control, answers, relayed, served, datagrams, accepted>>

\* The stack has gone: the question cannot be sent.
AskFails ==
  /\ assoc = "asking" /\ NextServer
  /\ UNCHANGED <<latched, control, answers, relayed, served, datagrams, accepted>>

\* The channel of the stack is closed under the wait, which ends at once.
LookupCut ==
  /\ assoc = "waiting" /\ assoc' = "closing"
  /\ UNCHANGED <<latched, control, lookup, answers, relayed, served, datagrams, accepted>>

\* The close of the look-up's socket is in data_in.  The answers that are late
\* are lost with the socket; with an address the datagram is sent on.
LookupCloses ==
  /\ assoc = "closing" /\ assoc' = IF lookup.found THEN "passing" ELSE "serving"
  /\ answers' = {}
  /\ UNCHANGED <<latched, control, lookup, relayed, served, datagrams, accepted>>

-----------------------------------------------------------------------------

\* An answer of the tunnel or of the direct socket: to the client, if there is one.
AnswerToClient ==
  /\ assoc = "serving" /\ latched # Unlatched /\ relayed # {}
  /\ served' = served \union {latched}
  /\ UNCHANGED <<assoc, latched, control, lookup, answers, relayed, datagrams, accepted>>

ControlCloses ==
  /\ control = "open" /\ control' = "closed"
  /\ UNCHANGED <<assoc, latched, lookup, answers, relayed, served, datagrams, accepted>>

\* The end of the control connection is read: the loop ends.
AssociationCloses ==
  /\ assoc = "serving" /\ control = "closed"
  /\ assoc' = "leaving"
  /\ UNCHANGED <<latched, control, lookup, answers, relayed, served, datagrams, accepted>>

\* The socket of the relay fails, or the stack has gone: the loop ends.
AssociationBreaks ==
  /\ assoc = "serving" /\ assoc' = "leaving"
  /\ UNCHANGED <<latched, control, lookup, answers, relayed, served, datagrams, accepted>>

\* The close of the relay's socket in the stack is in data_in.
AssociationLeaves ==
  /\ assoc = "leaving" /\ assoc' = "ended"
  /\ UNCHANGED <<latched, control, lookup, answers, relayed, served, datagrams, accepted>>

UdpNext == \/ Started \/ Datagram \/ SystemFound \/ Passed
           \/ LookupOpens \/ Ask \/ Answered \/ GiveUpServer \/ AskFails
           \/ LookupCut \/ LookupCloses \/ AnswerToClient \/ ControlCloses
           \/ AssociationCloses \/ AssociationBreaks \/ AssociationLeaves

\* The deadline passes; select! takes a branch that is ready time and again.
\* Nothing is assumed of the stack, of data_in and of the system's look-up.
UdpFairness == WF_udpVars(GiveUpServer) /\ SF_udpVars(AssociationCloses)

UdpSpec == UdpInit /\ [][UdpNext]_udpVars /\ UdpFairness

-----------------------------------------------------------------------------

\* Type invariant.
UdpTypeOK ==
  /\ assoc \in Unbounded \union {"serving", "waiting", "ended"}
  /\ control \in {"open", "closed"}
  /\ latched \in Sources \union {Unlatched} /\ datagrams \in 0..MaxDatagrams
  /\ lookup.server \in 0..Resolvers
  /\ assoc \in {"asking", "waiting", "closing"} => lookup.server # 0
  /\ served \subseteq Sources

\* The relay works for one client: every datagram that was sent on, at once or
\* after a look-up, came from the source that first used it, which has the
\* address the association is for, and every answer went there.
OneClient ==
  /\ \A r \in relayed : r[1] = latched
  /\ served \subseteq {latched}
  /\ latched # Unlatched => latched.ip = ExpectedIp

\* The answer that ends a look-up is one to the query that is out, although
\* those to the servers that were given up may come first.
AnswerIsCurrent == accepted[1] = accepted[2]

\* An association ends after its control connection, whatever its resolvers and
\* its clients do, unless it is held up for ever in one of the waits that have
\* no deadline: the stack answers no command or takes nothing from data_in
\* (netstack.rs:652: one connection's full buffer stops them all), or the
\* system's look-up does not return (socks.rs:882).
AssociationEnds ==
  (control = "closed") ~> (assoc = "ended" \/ [](assoc \in Unbounded))

\* Strangers and late answers change nothing: the association serves one client,
\* and a look-up ends with the answer to its own query.
RelaysItsOwn == UdpTypeOK /\ OneClient /\ AnswerIsCurrent
=============================================================================
