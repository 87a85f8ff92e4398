------------------------------- MODULE MCTun --------------------------------
(***************************************************************************)
(* The bounds of the TUN bridge.  Two parts of its behaviour are explored: *)
(* "flow", one session with its data in both directions and its FIN, and   *)
(* "replace", where the application opens the flow again and a second      *)
(* session takes the key while the first is still being closed; no data    *)
(* is sent there, and the flow is one that is not sniffed.                 *)
(***************************************************************************)
EXTENDS SocksTunBridge

VARIABLE part

tunVars == <<part, vars>>

NoData == /\ sent = 0 /\ fin = "no" /\ ~dropped
          /\ \A s \in Sessions : pc[s] # "sniff" /\ mySeq[s] <= 1

Within == IF part = "flow" THEN created <= 1 ELSE NoData

TunInit == part \in {"flow", "replace"} /\ Init

TunNext == Next /\ UNCHANGED part /\ Within'

(* The worker threads run, in the part where something is to happen.       *)
TunFairness == \A s \in Sessions : WF_vars(part = "flow" /\ Worker(s))

TunSpec == TunInit /\ [][TunNext]_tunVars /\ TunFairness
=============================================================================
