------------------------------ MODULE MCService ------------------------------
(***************************************************************************)
(* The passing run of VpnService goes over two kinds of history, each as   *)
(* far as it is finite and interesting:                                    *)
(*   "supervise": one session of any kind, left alone by the user;         *)
(*   "handover": two sessions of the plain kind and a stop, with engines   *)
(*   that neither fail by themselves nor fail a check of the watchdog.     *)
(***************************************************************************)
EXTENDS MCVpnService

VARIABLE history

serviceVars == <<history, vars>>

\* An engine dies, or closes its port, by itself.
EngineFails ==
  /\ UNCHANGED processRest
  /\ \E i \in Pids :
       \/ aether[i] = "open" /\ aether'[i] \in {"alive", "none"}
       \/ aether[i] = "alive" /\ aether'[i] = "none"

Within ==
  IF history = "supervise"
  THEN connects' <= 1 /\ \A k \in 1 .. stops' : kind'[k] = "lockdown"
  ELSE /\ \A s \in Sessions : profile'[s] = plain
       /\ ~EngineFails /\ probeFailures' = 0

ServiceInit == history \in {"supervise", "handover"} /\ Init
ServiceNext == Next /\ Within /\ UNCHANGED history
ServiceSpec == ServiceInit /\ [][ServiceNext]_serviceVars /\ Fairness
=============================================================================
