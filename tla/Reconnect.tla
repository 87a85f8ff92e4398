------------------------------ MODULE Reconnect ------------------------------
(***************************************************************************)
(* The engine's outer loops (native/aether/aether/src/lib.rs): run_masque, *)
(* run_wireguard and run_gool choose an edge, run a tunnel to it and, when *)
(* it ends, start over until the process is killed.  The choice remembers  *)
(* the last edge in memory, in a file that outlives the process            *)
(* (lastconn.rs) and, for WireGuard, the edges that are cooling down.      *)
(*                                                                         *)
(* A verification or a scan is a choice of its outcome.  Obfuscation       *)
(* profiles are not told apart: "verified" means with some profile.        *)
(***************************************************************************)
EXTENDS Naturals

CONSTANTS
  Peers,        \* edges a scan can turn up, or the settings name
  None,         \* no edge
  MaxFails,     \* MAX_CONSECUTIVE_FAILS
  MaxRestarts   \* bound: how often the process is killed and started again

ASSUME ReconnectConstantsOK ==
  /\ None \notin Peers
  /\ MaxFails \in Nat /\ MaxFails >= 2 /\ MaxRestarts \in Nat

VARIABLES
  protocol,   \* "masque", "wireguard" or "gool"
  forced,     \* AETHER_PEER / AETHER_WG_PEER
  assigned,   \* AETHER_TEAM_ENDPOINT
  file,       \* the lastconn file: an edge, or None when missing or torn
  pc,
  quick,      \* edge to use without looking further, on the first round
  lastGood,   \* last_good / last_good_peer / last_peer
  lastInner,  \* gool: last_inner
  fails,      \* consecutive_fails_on_peer / consecutive_fails
  cooling,    \* keys of endpoint_cooldowns
  elapsed,    \* those of them whose time is up
  peer,       \* edge of this round
  inner,      \* gool: inner edge of this round
  socks,      \* SOCKS server of this round's tunnel: "none", "up", "dead"
  restarts,
  recent,     \* history: edges of the last two tunnels of this process
  found       \* history: edges used that were not forced

settings == <<protocol, forced, assigned>>
memory   == <<quick, lastGood, lastInner, fails, cooling, elapsed>>
history  == <<recent, found>>
vars == <<settings, file, pc, memory, peer, inner, socks, restarts, history>>

Edge == Peers \cup {None}
PCs == {"assigned", "cached", "top", "pick", "seek", "save", "saving", "note",
        "tunnel", "serve", "sleep", "exited"}

-----------------------------------------------------------------------------
(* Before the loop. *)

\* The edge the organisation has assigned is verified first.
VerifyAssigned ==
  /\ pc = "assigned"
  /\ quick' \in {None} \cup (IF forced = None THEN {assigned} ELSE {})
  /\ pc' = "cached"
  /\ UNCHANGED <<settings, file, lastGood, lastInner, fails, cooling, elapsed,
                 peer, inner, socks, restarts, history>>

\* Then the one of the last connection, if it is wanted.
VerifyCached ==
  /\ pc = "cached"
  /\ quick' \in {quick} \cup (IF forced = None /\ quick = None THEN {file}
                              ELSE {})
  /\ pc' = "top"
  /\ UNCHANGED <<settings, file, lastGood, lastInner, fails, cooling, elapsed,
                 peer, inner, socks, restarts, history>>

-----------------------------------------------------------------------------
(* The choice of an edge. *)

\* Mutant: the edge that is put to rest stays the last good one.
TopKeepsLastGood ==
  /\ pc = "top"
  /\ IF protocol = "wireguard" /\ fails >= MaxFails
     THEN /\ cooling' = (cooling \ elapsed) \cup ({lastGood} \ {None})
          /\ fails' = 0
     ELSE cooling' = cooling \ elapsed /\ UNCHANGED fails
  /\ elapsed' = {}
  /\ pc' = "pick"
  /\ UNCHANGED <<settings, file, quick, lastGood, lastInner, peer, inner,
                 socks, restarts, history>>

\* Mutant: cooldowns are never taken off the map.
TopNeverForgets ==
  /\ pc = "top"
  /\ IF protocol = "wireguard" /\ fails >= MaxFails
     THEN /\ cooling' = cooling \cup ({lastGood} \ {None})
          /\ lastGood' = None
          /\ fails' = 0
     ELSE UNCHANGED <<cooling, fails, lastGood>>
  /\ pc' = "pick"
  /\ UNCHANGED <<settings, file, quick, lastInner, elapsed, peer, inner,
                 socks, restarts, history>>

\* WireGuard: cooldowns that are over are forgotten, and an edge that has
\* failed MaxFails times in a row begins one.
Top ==
  /\ pc = "top"
  /\ IF protocol = "wireguard" /\ fails >= MaxFails
     THEN /\ cooling' = (cooling \ elapsed) \cup ({lastGood} \ {None})
          /\ lastGood' = None
          /\ fails' = 0
     ELSE cooling' = cooling \ elapsed /\ UNCHANGED <<fails, lastGood>>
  /\ elapsed' = {}
  /\ pc' = "pick"
  /\ UNCHANGED <<settings, file, quick, lastInner, peer, inner, socks,
                 restarts, history>>

PickQuick ==
  /\ pc = "pick" /\ quick # None
  /\ peer' = quick
  /\ quick' = None
  /\ pc' = "save"
  /\ UNCHANGED <<settings, file, lastGood, lastInner, fails, cooling, elapsed,
                 inner, socks, restarts, history>>

\* The last good edge is verified before it is used again.
Retry ==
  /\ pc = "pick" /\ quick = None /\ protocol # "gool" /\ lastGood # None
  /\ \/ peer' = lastGood /\ pc' = "save"
     \/ pc' = "seek" /\ UNCHANGED peer
  /\ UNCHANGED <<settings, file, memory, inner, socks, restarts, history>>

NothingToRetry ==
  /\ pc = "pick" /\ quick = None
  /\ IF protocol = "gool" THEN lastGood = None \/ fails >= MaxFails
     ELSE lastGood = None
  /\ pc' = "seek"
  /\ UNCHANGED <<settings, file, memory, peer, inner, socks, restarts, history>>

\* run_gool keeps its pair for MaxFails tunnels, without verifying it.
RetryPair ==
  /\ pc = "pick" /\ protocol = "gool" /\ lastGood # None /\ fails < MaxFails
  /\ peer' = lastGood
  /\ inner' = lastInner
  /\ pc' = "note"
  /\ UNCHANGED <<settings, file, memory, socks, restarts, history>>

\* MASQUE takes a forced edge as it is, if it parses, which shows on the first
\* round; for WireGuard some profile must pass each time.
UseForced ==
  /\ pc = "seek" /\ protocol # "gool" /\ forced # None
  /\ \/ peer' = forced /\ pc' = "save"
     \/ /\ protocol = "wireguard" \/ lastGood = None
        /\ pc' = "exited"
        /\ UNCHANGED peer
  /\ UNCHANGED <<settings, file, memory, inner, socks, restarts, history>>

\* Only WireGuard's scan leaves out the edges that are cooling down.
HuntFinds ==
  /\ pc = "seek" /\ protocol # "gool" /\ forced = None
  /\ peer' \in Peers \ (IF protocol = "wireguard" THEN cooling ELSE {})
  /\ pc' = "save"
  /\ UNCHANGED <<settings, file, memory, inner, socks, restarts, history>>

\* A scan of run_gool wants two edges on separate addresses.
HuntFindsPair ==
  /\ pc = "seek" /\ protocol = "gool"
  /\ \E p, q \in Peers :
       /\ p # q
       /\ peer' = p /\ inner' = q
  /\ fails' = 0
  /\ pc' = "note"
  /\ UNCHANGED <<settings, file, quick, lastGood, lastInner, cooling, elapsed,
                 socks, restarts, history>>

\* One edge is not enough: the pair is forgotten.
HuntFindsOne ==
  /\ pc = "seek" /\ protocol = "gool"
  /\ fails' = 0
  /\ lastGood' = None /\ lastInner' = None
  /\ pc' = "sleep"
  /\ UNCHANGED <<settings, file, quick, cooling, elapsed, peer, inner, socks,
                 restarts, history>>

HuntFails ==
  /\ pc = "seek" /\ (protocol = "gool" \/ forced = None)
  /\ pc' = "sleep"
  /\ UNCHANGED <<settings, file, memory, peer, inner, socks, restarts, history>>

-----------------------------------------------------------------------------
(* lastconn::save, a truncation and a write, and the bookkeeping after it. *)

\* Mutant: a forced edge is remembered too.
SaveForcedToo ==
  /\ pc = "save"
  /\ pc' = "saving" /\ file' = None
  /\ found' = IF forced = None THEN found \cup {peer} ELSE found
  /\ UNCHANGED <<settings, memory, peer, inner, socks, restarts, recent>>

\* A forced edge is not written down; a file that cannot be opened stays.
Save ==
  /\ pc = "save"
  /\ IF forced = None
     THEN /\ \/ pc' = "saving" /\ file' = None
             \/ pc' = "note" /\ UNCHANGED file
          /\ found' = found \cup {peer}
     ELSE pc' = "note" /\ UNCHANGED <<file, found>>
  /\ UNCHANGED <<settings, memory, peer, inner, socks, restarts, recent>>

\* The write may fail half-way, which leaves a file that does not parse.
SaveEnds ==
  /\ pc = "saving"
  /\ file' \in {peer, None}
  /\ pc' = "note"
  /\ UNCHANGED <<settings, memory, peer, inner, socks, restarts, history>>

\* Mutant: the count goes on when the edge changes.
NoteKeepsCount ==
  /\ pc = "note"
  /\ lastGood' = peer /\ lastInner' = inner
  /\ pc' = "tunnel"
  /\ UNCHANGED <<settings, file, quick, fails, cooling, elapsed, peer, inner,
                 socks, restarts, history>>

\* WireGuard counts anew when the edge is not the one of the round before.
Note ==
  /\ pc = "note"
  /\ fails' = IF protocol = "wireguard" /\ lastGood # peer THEN 0 ELSE fails
  /\ lastGood' = peer /\ lastInner' = inner
  /\ pc' = "tunnel"
  /\ UNCHANGED <<settings, file, quick, cooling, elapsed, peer, inner, socks,
                 restarts, history>>

-----------------------------------------------------------------------------
(* run_masque_tunnel, run_wireguard_tunnel, run_warp_in_warp.              *)

\* Validated: the SOCKS server starts, or finds that it cannot bind.
TunnelUp ==
  /\ pc = "tunnel"
  /\ protocol = "gool" => inner # peer
  /\ socks' \in {"up", "dead"}
  /\ pc' = "serve"
  /\ UNCHANGED <<settings, file, memory, peer, inner, restarts, history>>

\* The listener can also fail later.
SocksDies ==
  /\ pc = "serve" /\ socks = "up"
  /\ socks' = "dead"
  /\ UNCHANGED <<settings, file, pc, memory, peer, inner, restarts, history>>

\* However a tunnel ends, it counts as a failure of its edge.
Ended ==
  /\ fails' = IF protocol = "masque" THEN fails ELSE fails + 1
  /\ recent' = <<recent[2], peer>>
  /\ socks' = "none"
  /\ pc' = "sleep"
  /\ UNCHANGED <<settings, file, quick, lastGood, lastInner, cooling, elapsed,
                 peer, inner, restarts, found>>

TunnelFails == pc = "tunnel" /\ Ended

TunnelEnds == pc = "serve" /\ Ended

\* Only run_warp_in_warp waits for its SOCKS server as well.
GoolNotices == pc = "serve" /\ protocol = "gool" /\ socks = "dead" /\ Ended

Sleep ==
  /\ pc = "sleep"
  /\ pc' = "top"
  /\ UNCHANGED <<settings, file, memory, peer, inner, socks, restarts, history>>

-----------------------------------------------------------------------------
(* Time, and the app that kills the process and starts another.            *)

Elapse(p) ==
  /\ p \in cooling \ elapsed
  /\ elapsed' = elapsed \cup {p}
  /\ UNCHANGED <<settings, file, pc, quick, lastGood, lastInner, fails,
                 cooling, peer, inner, socks, restarts, history>>

\* Where a new process begins; run_gool has no settings and no file to look at.
Begin(p) == IF p = "gool" THEN "top" ELSE "assigned"

Restart ==
  /\ restarts < MaxRestarts
  /\ restarts' = restarts + 1
  /\ forced' \in Edge /\ assigned' \in Edge
  /\ pc' = Begin(protocol)
  /\ quick' = None /\ lastGood' = None /\ lastInner' = None /\ fails' = 0
  /\ cooling' = {} /\ elapsed' = {}
  /\ peer' = None /\ inner' = None /\ socks' = "none"
  /\ recent' = <<None, None>>
  /\ UNCHANGED <<protocol, file, found>>

Init ==
  /\ protocol \in {"masque", "wireguard", "gool"}
  /\ forced \in Edge /\ assigned \in Edge
  /\ pc = Begin(protocol)
  /\ quick = None /\ lastGood = None /\ lastInner = None /\ fails = 0
  /\ cooling = {} /\ elapsed = {}
  /\ peer = None /\ inner = None /\ socks = "none"
  /\ recent = <<None, None>>
  /\ file = None /\ restarts = 0 /\ found = {}

Choose ==
  \/ VerifyAssigned \/ VerifyCached \/ Top \/ PickQuick \/ Retry
  \/ NothingToRetry \/ RetryPair \/ UseForced \/ HuntFinds \/ HuntFindsPair
  \/ HuntFindsOne \/ HuntFails \/ Save \/ SaveEnds \/ Note \/ Sleep

Next ==
  \/ Choose \/ TunnelUp \/ SocksDies \/ TunnelFails \/ TunnelEnds
  \/ GoolNotices
  \/ \E p \in Peers : Elapse(p)
  \/ Restart

Spec == Init /\ [][Next]_vars

\* The loop runs on, time passes, and a scan that is repeated for ever finds
\* something in the end: verifications, scans and sleeps all have deadlines.
\* A tunnel may stay up for ever.
Fairness ==
  /\ WF_vars(Choose) /\ WF_vars(GoolNotices)
  /\ SF_vars(HuntFinds) /\ SF_vars(HuntFindsPair)
  /\ \A p \in Peers : WF_vars(Elapse(p))

FairSpec == Spec /\ Fairness

-----------------------------------------------------------------------------
\* Types; the failure counter stays within its limit.
TypeOK ==
  /\ protocol \in {"masque", "wireguard", "gool"}
  /\ forced \in Edge /\ assigned \in Edge /\ file \in Edge
  /\ pc \in PCs
  /\ quick \in Edge /\ lastGood \in Edge /\ lastInner \in Edge
  /\ fails \in 0 .. MaxFails
  /\ cooling \in SUBSET Peers /\ elapsed \in SUBSET cooling
  /\ peer \in Edge /\ inner \in Edge
  /\ socks \in {"none", "up", "dead"}
  /\ restarts \in 0 .. MaxRestarts
  /\ recent \in Edge \X Edge
  /\ found \in SUBSET Peers

\* run_wireguard: no tunnel is run to an edge that is cooling down, whichever
\* way the edge was chosen, unless the settings force it.
CooldownRespected ==
  protocol = "wireguard" /\ forced = None
    /\ pc \in {"save", "saving", "note", "tunnel", "serve"} =>
      peer \notin cooling

\* run_wireguard: an edge is put to rest only when the two tunnels before were
\* both its own.
RestsAfterTwoFailures ==
  [][\A p \in cooling' \ cooling : recent = <<p, p>>]_vars

\* lastconn: after any crash the file names nothing, or an edge that a scan or
\* a verification has chosen; a forced edge never gets there.
OnlyFoundRemembered == file \in found \cup {None}

\* run_gool, over rescans, kept pairs and half-successful scans, never asks for
\* both hops over one edge.
SeparateEdges ==
  protocol = "gool" /\ pc \in {"note", "tunnel", "serve"} =>
    inner # None /\ peer # None /\ inner # peer

\* After a tunnel has ended the engine comes to try another one, although every
\* edge may be cooling down, or the process exits and the app is told.
TriesAgain == pc = "sleep" ~> pc \in {"tunnel", "exited"}

\* run_warp_in_warp: a tunnel does not stay up behind a dead SOCKS server.
GoolServesOrEnds ==
  protocol = "gool" /\ pc = "serve" /\ socks = "dead" ~> pc # "serve"

\* The outer loops always come to another tunnel, for warp-in-warp to one over
\* two edges, and do not stay in one that serves nobody.
KeepsTrying == []SeparateEdges /\ TriesAgain /\ GoolServesOrEnds
=============================================================================
