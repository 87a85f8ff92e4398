------------------------------ MODULE MCStreams ------------------------------
(***************************************************************************)
(* The bounds of five parts that share no state and are checked here for   *)
(* what they never do: the user-space stack, the SOCKS and HTTP servers,   *)
(* the capsules of CONNECT-IP, the app's sharing bridge in front of them,  *)
(* and the identity the tunnel is opened with.  One of them, `part`,       *)
(* moves; the others stay at their start, so the run checks each of the    *)
(* five on its own.                                                        *)
(***************************************************************************)
EXTENDS NetStack, SocksServer, Capsules, ShareBridge, Provision

VARIABLE part

streamVars == <<part, netVars, socksVars, capVars, vars, provVars>>

(* Connection 1 uploads more than the stack takes at once and may fail in  *)
(* every way; connection 2 downloads more than its socket, and more than   *)
(* its channel, holds: the ring of the socket wraps.                       *)
TwoConns == {1, 2}
Uploads == [c \in TwoConns |-> IF c = 1 THEN 2 ELSE 0]
Downloads == [c \in TwoConns |-> IF c = 1 THEN 0 ELSE 3]

(* Rules that contradict each other about a name and its address, and a    *)
(* name that is the address written out.                                   *)
WrittenOut == [n \in {"n3"} |-> "a1"]
Matcher(kind, of) == [kind |-> kind, of |-> of]
TwoRuleSets ==
  { [block |-> {Matcher("net", {"a1"})}, direct |-> {Matcher("domain", {"n1"})}],
    [block |-> {Matcher("domain", {"n2"}), Matcher("ports", {"25"})},
     direct |-> {Matcher("net", {"a1"})}] }

(* Capsules of every kind, malformed ones and one larger than a chunk.     *)
Capsule(kind, at, len) == [kind |-> kind, len |-> len, at |-> at]
ThreeStreams ==
  { <<Capsule("packet", 0, 1), Capsule("badAssign", 3, 1), Capsule("packet", 6, 0),
      Capsule("assign", 8, 1)>>,
    <<Capsule("assign", 0, 0), Capsule("noise", 2, 1), Capsule("packet", 5, 1),
      Capsule("packet", 8, 1)>>,
    <<Capsule("packet", 0, 4), Capsule("unknown", 6, 0), Capsule("packet", 8, 1)>> }

SomeRules == CHOOSE rs \in RuleSets : TRUE
FirstSetup == CHOOSE s \in Setups : TRUE
SomeStream == CHOOSE s \in Streams : TRUE

StreamsInit ==
  /\ part \in {"net", "socks", "capsules", "share", "identity"}
  /\ NetInit /\ Init
  /\ IF part = "socks" THEN SocksInit ELSE SocksStart(SomeRules)
  /\ IF part = "capsules" THEN CapsulesInit ELSE CapsulesStart("h2", SomeStream)
  /\ IF part = "identity" THEN ProvInit ELSE ProvStart(FirstSetup, Blank("absent"))

StreamsNext ==
  \/ /\ part = "net" /\ NetNext
     /\ UNCHANGED <<part, socksVars, capVars, vars, provVars>>
  \/ /\ part = "socks" /\ SocksNext
     /\ UNCHANGED <<part, netVars, capVars, vars, provVars>>
  \/ /\ part = "capsules" /\ CapsulesNext
     /\ UNCHANGED <<part, netVars, socksVars, vars, provVars>>
  \/ /\ part = "share" /\ Next
     /\ UNCHANGED <<part, netVars, socksVars, capVars, provVars>>
  \/ /\ part = "identity" /\ ProvNext
     /\ UNCHANGED <<part, netVars, socksVars, capVars, vars>>

StreamsSpec == StreamsInit /\ [][StreamsNext]_streamVars
=============================================================================
