-------------------------------- MODULE Scan --------------------------------
(***************************************************************************)
(* The search for an edge: prober::hunt_best_gateway for MASQUE and         *)
(* wg_prober::hunt_wg_endpoints for WireGuard.  Both probe a list of        *)
(* candidates, a number of them at a time and in no order (they are taken   *)
(* from the list by buffer_unordered), until a deadline, a quiet time after *)
(* enough answers, or the end of the list.                                  *)
(*                                                                          *)
(* An address is a number; a range is a base and how many addresses it has. *)
(* What a probe finds is external: it fails, answers in some time, or hangs.*)
(***************************************************************************)
EXTENDS Naturals, Sequences, FiniteSets, SequencesExt

CONSTANTS
  Ranges,        \* the lists of ranges a scan may be given
  BuiltInSeeds,  \* MASQUE_SEEDS, wg_seeds_v4
  Ports,         \* the ports, the first of them is the primary
  Excluded,      \* endpoints that were given up before
  Strategies,    \* [full, sample, waves, target, early, quiet]
  Wants,         \* numbers of endpoints asked for
  PerWanted,     \* answers waited for, for each endpoint wanted (3)
  Concurrency,
  Rtts,
  MaxSize        \* enumerate_cidr_v4 gives up beyond (12 host bits: 4096)

Range4 == [base : Nat, size : Nat \ {0}]
Strategy == [full : BOOLEAN, sample : Nat, waves : Nat, target : Nat,
             early : BOOLEAN, quiet : BOOLEAN]

ASSUME ScanConstants ==
  /\ Ports \in Seq(ToSet(Ports)) /\ Ports # <<>> /\ IsInjective(Ports)
  /\ \A rs \in Ranges : rs \in Seq(Range4)
  /\ BuiltInSeeds \in Seq(Nat) /\ Strategies \subseteq Strategy
  /\ Concurrency \in Nat \ {0} /\ PerWanted \in Nat \ {0} /\ Rtts \subseteq Nat
  /\ Wants \subseteq Nat \ {0} /\ MaxSize \in Nat

VARIABLES
  scan,        \* what is asked: kind, strategy, want, ranges
  candidates,
  tried,       \* indices of the candidates whose probe is over
  verified,    \* the answers, in the order they came
  scanAt,      \* "top", "select", "done" or "failed"
  quietUntil,  \* "none", "set" or "passed"
  deadline,    \* "set" or "passed"
  picked

scanVars == <<scan, candidates, tried, verified, scanAt, quietUntil, deadline, picked>>

-----------------------------------------------------------------------------
(* Lists that are put in order. *)

\* The members of a finite set, by an order given as a set of pairs.
Ranked(S, before) ==
  LET rank(x) == Cardinality({y \in S : <<y, x>> \in before}) + 1
  IN [n \in 1..Cardinality(S) |-> CHOOSE x \in S : rank(x) = n]

\* A set of numbers by size, a set of pairs by the first and then the second.
BySize(S) == {q \in S \X S : q[1] < q[2]}
ByPair(S) ==
  {q \in S \X S : \/ q[1][1] < q[2][1]
                  \/ q[1][1] = q[2][1] /\ q[1][2] < q[2][2]}

-----------------------------------------------------------------------------
(* The list. *)

\* enumerate_cidr_v4.
EnumerateCidr(r) ==
  {IF r.size = 1 THEN <<r.base>>
   ELSE IF r.size > MaxSize THEN <<>>
   ELSE [i \in 1..r.size - 2 |-> r.base + i]}

\* sample_cidr_v4: n different hosts, in any order.
SampleCidr(r, n) ==
  IF r.size <= 2 THEN {<<r.base>>}
  ELSE LET usable == r.size - 2
           k == IF n < usable THEN n ELSE usable
       IN {s \in [1..k -> (r.base + 1)..(r.base + usable)] : IsInjective(s)}

HostLists(st, r) == IF st.full THEN EnumerateCidr(r) ELSE SampleCidr(r, st.sample)

\* The ranges in turn, so that no single one takes the whole budget: the first
\* host of each, then the second.
Rounds(lists) ==
  LET places == UNION {(1..Len(lists[k])) \X {k} : k \in 1..Len(lists)}
      turn == Ranked(places, ByPair(places))
  IN [n \in 1..Cardinality(places) |-> lists[turn[n][2]][turn[n][1]]]

\* seen.insert, and the endpoints that are excluded.
Unseen(list, excluded) ==
  LET keep == {k \in 1..Len(list) : /\ list[k] \notin excluded
                                    /\ \A i \in 1..k - 1 : list[i] # list[k]}
      kept == Ranked(keep, BySize(keep))
  IN [n \in 1..Cardinality(keep) |-> list[kept[n]]]

WavePort(idx, wave) == Ports[((idx + wave) % Len(Ports)) + 1]

\* build_wg_candidates, manual_wg_candidates: the seeds, if any, and the other
\* addresses, each wave with the next port.
WgCandidates(hosts, st, excluded) ==
  LET waves == IF st.waves = 0 THEN 1 ELSE st.waves
      len == Len(hosts)
      try(n) == <<hosts[(n % len) + 1], WavePort(n % len, n \div len)>>
  IN Unseen([n \in 1..len * waves |-> try(n - 1)], excluded)

\* build_candidates, manual_masque_candidates: the primary port everywhere, then
\* the others: on the seeds, or on every address when the ranges are the user's.
\* This scan is told of no endpoint to leave out.
MasqueCandidates(seeds, hosts) ==
  LET all == seeds \o hosts
      again == IF seeds = <<>> THEN hosts ELSE seeds
      first == [i \in 1..Len(all) |-> <<all[i], Ports[1]>>]
      others == Len(Ports) - 1
      other(n) == <<again[(n \div others) + 1], Ports[(n % others) + 2]>>
  IN Unseen(first \o [n \in 1..others * Len(again) |-> other(n - 1)], {})

\* want > 1: the first answer does not end the scan, and more are waited for.
StrategyFor(st, want) ==
  IF want = 1 THEN st
  ELSE [st EXCEPT !.early = FALSE,
                  !.target = IF @ < want * PerWanted THEN want * PerWanted ELSE @]

ScanStart(kind, st, want, seeds, ranges, lists) ==
  /\ scan = [kind |-> kind, st |-> StrategyFor(st, want), want |-> want,
             seeds |-> seeds, ranges |-> ranges]
  /\ candidates = IF kind = "wg" THEN WgCandidates(seeds \o Rounds(lists), st, Excluded)
                  ELSE MasqueCandidates(seeds, Rounds(lists))
  /\ tried = {} /\ verified = <<>> /\ scanAt = "top"
  /\ quietUntil = "none" /\ deadline = "set" /\ picked = <<>>

ScanInit ==
  \E kind \in {"wg", "masque"}, st \in Strategies, want \in Wants, rs \in Ranges,
     seeds \in {<<>>, BuiltInSeeds} :
    /\ kind = "masque" => want = 1
    /\ \E lists \in [1..Len(rs) -> UNION {HostLists(st, r) : r \in ToSet(rs)}] :
         /\ \A k \in 1..Len(rs) : lists[k] \in HostLists(st, rs[k])
         /\ ScanStart(kind, st, want, seeds, rs, lists)

-----------------------------------------------------------------------------
(* The loop. *)

\* buffer_unordered keeps Concurrency probes going, taken from the list in order.
Probing ==
  {i \in 1..Len(candidates) : i <= Cardinality(tried) + Concurrency} \ tried

\* distinct_by_ip: sorted by round trip (stable), the first of each address;
\* for MASQUE `best`, the first of the fastest.
DistinctByIp(found) ==
  LET sorted == ByPair({<<found[i].rtt, i>> : i \in 1..Len(found)})
      firsts == {p \in {<<found[i].rtt, i>> : i \in 1..Len(found)} :
                   \A j \in 1..Len(found) \ {p[2]} :
                     found[j].ip = found[p[2]].ip => <<p, <<found[j].rtt, j>> >> \in sorted}
      first == Ranked(firsts, sorted)
  IN [k \in 1..Cardinality(firsts) |-> found[first[k][2]]]

Take(s, n) == SubSeq(s, 1, IF n < Len(s) THEN n ELSE Len(s))

\* The scan ends with what it has; nothing is an error (NoCleanEndpoint).
Finish(found) ==
  /\ picked' = Take(DistinctByIp(found), scan.want)
  /\ scanAt' = IF found = <<>> THEN "failed" ELSE "done"

\* Mutant: a scan with no answer yet goes on after its deadline.
TimeUpOnceFound ==
  /\ scanAt \in {"top", "select"} /\ "passed" \in {quietUntil, deadline}
  /\ verified # <<>>
  /\ Finish(verified) /\ UNCHANGED <<scan, candidates, tried, verified, quietUntil, deadline>>

\* remaining is zero at the top of the loop, or the sleep is over.
TimeUp ==
  /\ scanAt \in {"top", "select"} /\ "passed" \in {quietUntil, deadline}
  /\ Finish(verified) /\ UNCHANGED <<scan, candidates, tried, verified, quietUntil, deadline>>

EnterSelect ==
  /\ scanAt = "top" /\ "passed" \notin {quietUntil, deadline}
  /\ scanAt' = "select"
  /\ UNCHANGED <<scan, candidates, tried, verified, quietUntil, deadline, picked>>

\* Every candidate has been tried.
ListOver ==
  /\ scanAt = "select" /\ Probing = {}
  /\ Finish(verified) /\ UNCHANGED <<scan, candidates, tried, verified, quietUntil, deadline>>

ProbeFails ==
  /\ scanAt = "select"
  /\ \E i \in Probing : tried' = tried \union {i}
  /\ scanAt' = "top"
  /\ UNCHANGED <<scan, candidates, verified, quietUntil, deadline, picked>>

\* Mutant: the answers are counted, not their addresses.
EnoughAnswers(found) == scan.want > 1 /\ Len(found) >= scan.want

\* Enough endpoints on separate addresses.
EnoughSeparate(found) == scan.want > 1 /\ Len(DistinctByIp(found)) >= scan.want

TargetMet(found) ==
  scan.st.target > 0 /\ Len(found) >= scan.st.target /\ quietUntil = "none"

ProbeAnswers ==
  /\ scanAt = "select"
  /\ \E i \in Probing, rtt \in Rtts :
       LET pr == [ip |-> candidates[i][1], port |-> candidates[i][2], rtt |-> rtt]
           found == Append(verified, pr)
       IN /\ tried' = tried \union {i}
          /\ verified' = found
          /\ \/ /\ scan.st.early
                /\ scanAt' = "done" /\ picked' = <<pr>> /\ UNCHANGED quietUntil
             \/ /\ ~scan.st.early
                /\ EnoughSeparate(found) \/ (TargetMet(found) /\ ~scan.st.quiet)
                /\ Finish(found) /\ UNCHANGED quietUntil
             \/ /\ ~scan.st.early /\ ~EnoughSeparate(found)
                /\ TargetMet(found) => scan.st.quiet
                /\ quietUntil' = IF TargetMet(found) THEN "set" ELSE quietUntil
                /\ scanAt' = "top" /\ UNCHANGED picked
  /\ UNCHANGED <<scan, candidates, deadline>>

Scanning == scanAt \in {"top", "select"}

QuietPasses ==
  /\ Scanning /\ quietUntil = "set" /\ quietUntil' = "passed"
  /\ UNCHANGED <<scan, candidates, tried, verified, scanAt, deadline, picked>>

DeadlinePasses ==
  /\ Scanning /\ deadline = "set" /\ deadline' = "passed"
  /\ UNCHANGED <<scan, candidates, tried, verified, scanAt, quietUntil, picked>>

ScanNext == \/ TimeUp \/ EnterSelect \/ ListOver \/ ProbeFails \/ ProbeAnswers
            \/ QuietPasses \/ DeadlinePasses

\* The loop turns and the clock moves; a probe need not end.
ScanFairness ==
  /\ WF_scanVars(TimeUp) /\ WF_scanVars(EnterSelect) /\ WF_scanVars(ListOver)
  /\ WF_scanVars(DeadlinePasses)

ScanSpec == ScanInit /\ [][ScanNext]_scanVars /\ ScanFairness

-----------------------------------------------------------------------------

\* Type invariant.
ScanTypeOK ==
  /\ scanAt \in {"top", "select", "done", "failed"}
  /\ quietUntil \in {"none", "set", "passed"} /\ deadline \in {"set", "passed"}
  /\ tried \subseteq 1..Len(candidates) /\ Len(verified) <= Cardinality(tried)
  /\ Len(picked) <= scan.want
  /\ scanAt = "failed" => verified = <<>>

\* The user may write a range with the address of one of its hosts.  Profile.kt:77
\* and wg_prober.rs:355 say that exactly these ranges, and only they, are scanned;
\* but the code does not mask the address: such a range is counted from that host
\* on and its last candidates lie behind its end.
NetworkBase(r) == r.base % r.size = 0
InRange(a, r) == a \div r.size = r.base \div r.size

\* The list holds no endpoint twice, none that was excluded (WireGuard), and only
\* addresses that are counted from the base of a range that was asked for (no
\* seed beside the user's own ranges).  Only if that base is a network address are
\* they in the range, as those two lines have it for every base, and never its
\* network or its broadcast address when it has more than two.
CandidatesSound ==
  /\ IsInjective(candidates)
  /\ \A c \in ToSet(candidates) :
       /\ scan.kind = "wg" => c \notin Excluded
       /\ c[1] \in ToSet(scan.seeds) \/ \E r \in ToSet(scan.ranges) :
            /\ c[1] \in r.base .. (r.base + r.size - 1)
            /\ NetworkBase(r) => /\ InRange(c[1], r)
                                 /\ r.size > 2 => (c[1] % r.size) \notin {0, r.size - 1}

\* WireGuard: each address is tried on as many different ports as there are
\* waves (and ports), whatever its place in the list.
WavesRotatePorts ==
  scan.kind = "wg" =>
    LET least == IF scan.st.waves < Len(Ports) THEN scan.st.waves ELSE Len(Ports)
        Of(a) == {p \in ToSet(Ports) : <<a, p>> \in ToSet(candidates) \union Excluded}
    IN \A c \in ToSet(candidates) : Cardinality(Of(c[1])) >= least

\* A scan that was asked for several endpoints ends with fewer addresses only
\* when its list or its time is used up, or the answers it waits for have all
\* come from those few addresses.
FewerOnlyIfSpent ==
  (scanAt = "done" /\ Len(picked) < scan.want) =>
    \/ Cardinality(tried) = Len(candidates)
    \/ deadline = "passed"
    \/ scan.st.target > 0 /\ Len(verified) >= scan.st.target

\* No answer that was heard is faster than the endpoint that comes out first,
\* unless the scan ends with its first answer; and no address comes out twice.
FastestFirst ==
  scanAt = "done" =>
    /\ \A v \in ToSet(verified) : picked[1].rtt <= v.rtt \/ scan.st.early
    /\ \A i, j \in 1..Len(picked) : i # j => picked[i].ip # picked[j].ip

\* A scan ends although probes hang and nothing answers.
ScanEnds == (scanAt = "select") ~> ~Scanning

\* What a scan tries and what it hands on: a list as it was asked for, every
\* address on every port the waves allow, no early end without a cause, and the
\* fastest distinct addresses.
ScanSound ==
  /\ ScanTypeOK /\ CandidatesSound /\ WavesRotatePorts
  /\ FewerOnlyIfSpent /\ FastestFirst
=============================================================================
