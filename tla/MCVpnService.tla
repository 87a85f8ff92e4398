---------------------------- MODULE MCVpnService ----------------------------
(***************************************************************************)
(* Small instances of VpnService for TLC: the profiles the runs connect    *)
(* with.  rungs and retries are small stand-ins for plans of one to a few  *)
(* attempts and a retry limit of 1 .. 50.                                  *)
(***************************************************************************)
EXTENDS VpnService

plain == [auto |-> FALSE, proxy |-> FALSE, chained |-> FALSE, kill |-> FALSE,
          strict |-> FALSE, rungs |-> 1, retries |-> 1]

Direct     == {plain}
Strict     == {[plain EXCEPT !.strict = TRUE, !.rungs = 2]}
AutoTwice  == {[plain EXCEPT !.auto = a, !.rungs = 2] : a \in BOOLEAN}
Killing    == {[plain EXCEPT !.kill = TRUE]}
Twice      == {[plain EXCEPT !.retries = 2]}
AnyMode    == {[plain EXCEPT !.proxy = x, !.chained = c, !.kill = k,
                             !.retries = 2] : x, c, k \in BOOLEAN} \cup {plain}

=============================================================================
