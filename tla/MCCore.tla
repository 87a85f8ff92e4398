------------------------------- MODULE MCCore -------------------------------
(***************************************************************************)
(* The bounds of five parts of the core: the two kinds of tunnel, the      *)
(* user-space stack as to its progress, the UDP association and the        *)
(* identity.  They share no state: one of them, `part`, moves; the others  *)
(* stay at their start, so the run checks each of the five on its own,     *)
(* under its own fairness.                                                 *)
(***************************************************************************)
EXTENDS MasqueTunnel, WgTunnel, NetStack, UdpRelay, Provision

VARIABLE part

coreVars == <<part, mqVars, wgVars, netVars, udpVars, provVars>>

(* A client that uploads more than one message to the stack holds, and     *)
(* more than the stack takes of one message.                               *)
OneConn == {1}
Upload == [c \in OneConn |-> 3]
Download == [c \in OneConn |-> 1]

(* The client, another program at its address, and another machine.        *)
ThreeSources == {[ip |-> "app", port |-> 1], [ip |-> "app", port |-> 2],
                 [ip |-> "other", port |-> 1]}

-----------------------------------------------------------------------------
FirstSetup == CHOOSE s \in Setups : TRUE

CoreInit ==
  /\ part \in {"masque", "wg", "net", "udp", "identity"}
  /\ WgInit /\ NetInit /\ UdpInit
  /\ IF part = "masque" THEN MasqueInit ELSE MasqueStart("h3", "none")
  /\ IF part = "identity" THEN ProvInit ELSE ProvStart(FirstSetup, Blank("absent"))

MasqueMoves == /\ part = "masque" /\ MasqueNext
               /\ UNCHANGED <<part, wgVars, netVars, udpVars, provVars>>
WgMoves == /\ part = "wg" /\ WgNext
           /\ UNCHANGED <<part, mqVars, netVars, udpVars, provVars>>
NetMoves == /\ part = "net" /\ NetNext
            /\ UNCHANGED <<part, mqVars, wgVars, udpVars, provVars>>
UdpMoves == /\ part = "udp" /\ UdpNext
            /\ UNCHANGED <<part, mqVars, wgVars, netVars, provVars>>
IdentityMoves == /\ part = "identity" /\ ProvNext
                 /\ UNCHANGED <<part, mqVars, wgVars, netVars, udpVars>>

CoreNext == MasqueMoves \/ WgMoves \/ NetMoves \/ UdpMoves \/ IdentityMoves

(* The fairness of each part, for the one that moves.                      *)
CoreFairness ==
  /\ WF_mqVars(part = "masque" /\ MasqueClocks)
  /\ WF_mqVars(part = "masque" /\ MasqueTicks)
  /\ SF_mqVars(part = "masque" /\ MasqueGivesUp)
  /\ SF_mqVars(part = "masque" /\ MasqueHandshake)
  /\ WF_wgVars(part = "wg" /\ WgReceives)
  /\ WF_wgVars(part = "wg" /\ StackTakes)
  /\ WF_wgVars(part = "wg" /\ WgProbes)
  /\ SF_wgVars(part = "wg" /\ TimePasses)
  /\ WF_wgVars(part = "wg" /\ VerifyFails)
  /\ WF_netVars(part = "net" /\ Round)
  /\ SF_netVars(part = "net" /\ (TakeData \/ \E c \in Conns : OpenTcp(c)))
  /\ \A c \in Conns : /\ SF_netVars(part = "net" /\ RelayUploads(c))
                      /\ WF_netVars(part = "net" /\ RelayOther(c))
  /\ WF_udpVars(part = "udp" /\ GiveUpServer)
  /\ SF_udpVars(part = "udp" /\ AssociationCloses)
  /\ WF_provVars(part = "identity" /\ ProvProgress)

CoreSpec == CoreInit /\ [][CoreNext]_coreVars /\ CoreFairness
=============================================================================
