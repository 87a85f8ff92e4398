--------------------------- MODULE ReconnectProofs ---------------------------
(***************************************************************************)
(* What the engine's outer loops guarantee for any set of edges, any       *)
(* number of restarts and any limit of at least two failures; and what the *)
(* scan they start guarantees for any ranges, ports and strategies.        *)
(***************************************************************************)
EXTENDS Reconnect, Scan, FiniteSetTheorems, WellFoundedInduction, TLAPS

\* Where the failure counter is known to be below its limit, and where the
\* edge of the round is known.
Counted ==
  /\ protocol = "masque" => fails = 0
  /\ protocol = "wireguard" /\ pc \notin {"sleep", "top"} => fails < MaxFails
  /\ pc \in {"note", "tunnel", "serve"} => fails < MaxFails
  /\ pc \in {"save", "saving", "note", "tunnel", "serve"} => peer # None
  /\ pc = "saving" => peer \in found
  /\ quick # None \/ pc \in {"assigned", "cached", "save", "saving"} =>
       protocol # "gool"

\* The first round begins with empty memory, so that an edge chosen before the
\* loop has no cooldown.
FirstRound ==
  quick # None \/ pc \in {"assigned", "cached"} =>
    /\ lastGood = None /\ fails = 0 /\ cooling = {}
    /\ pc \in {"assigned", "cached", "top", "pick"}

\* WireGuard's failures are those of the edge it remembers: the tunnels that
\* have been counted are the last ones, and they were its own.
Streak ==
  /\ pc \in {"tunnel", "serve"} => peer = lastGood
  /\ protocol = "wireguard" /\ fails >= 1 => recent[2] = lastGood
  /\ protocol = "wireguard" /\ fails >= 2 => recent[1] = lastGood

\* An unforced WireGuard edge that is remembered is not cooling down.
LastGoodRested ==
  protocol = "wireguard" /\ forced = None => lastGood \notin cooling

TypeInv == TypeOK /\ Counted

USE DEF settings, memory, history

\* The counter and the types hold when a process begins.
LEMMA InitType == Init => TypeInv
BY ReconnectConstantsOK DEF Init, TypeInv, TypeOK, Counted, Edge, PCs, Begin

\* Every step of the loops keeps the types and the counter's limit.
LEMMA NextType == TypeInv /\ [Next]_vars => TypeInv'
<1> SUFFICES ASSUME TypeInv, [Next]_vars PROVE TypeInv'  OBVIOUS
<1> USE ReconnectConstantsOK DEF TypeInv, TypeOK, Counted, Edge, PCs
<1>1. CASE VerifyAssigned  BY <1>1 DEF VerifyAssigned
<1>2. CASE VerifyCached  BY <1>2 DEF VerifyCached
<1>3. CASE Top  BY <1>3 DEF Top
<1>4. CASE PickQuick  BY <1>4 DEF PickQuick
<1>5. CASE Retry  BY <1>5 DEF Retry
<1>6. CASE NothingToRetry  BY <1>6 DEF NothingToRetry
<1>7. CASE RetryPair  BY <1>7 DEF RetryPair
<1>8. CASE UseForced  BY <1>8 DEF UseForced
<1>9. CASE HuntFinds  BY <1>9 DEF HuntFinds
<1>10. CASE HuntFindsPair  BY <1>10 DEF HuntFindsPair
<1>11. CASE HuntFindsOne  BY <1>11 DEF HuntFindsOne
<1>12. CASE HuntFails  BY <1>12 DEF HuntFails
<1>13. CASE Save
  <2>1. peer \in Peers  BY <1>13 DEF Save
  <2>2. found' \in SUBSET Peers /\ file' \in Edge /\ pc' \in PCs
    BY <1>13, <2>1 DEF Save
  <2>3. pc' = "saving" => peer' \in found'  BY <1>13 DEF Save
  <2>4. pc' \in {"saving", "note"}  BY <1>13 DEF Save
  <2>5. pc' = "note" => fails < MaxFails
    BY <1>13 DEF Save
  <2> QED  BY <1>13, <2>1, <2>2, <2>3, <2>4, <2>5 DEF Save
<1>14. CASE SaveEnds
  <2>1. file' \in Edge  BY <1>14 DEF SaveEnds
  <2> QED  BY <1>14, <2>1 DEF SaveEnds
<1>15. CASE Note  BY <1>15 DEF Note
<1>16. CASE Sleep  BY <1>16 DEF Sleep
<1>17. CASE TunnelUp  BY <1>17 DEF TunnelUp
<1>18. CASE SocksDies  BY <1>18 DEF SocksDies
<1>19. CASE TunnelFails  BY <1>19 DEF TunnelFails, Ended
<1>20. CASE TunnelEnds  BY <1>20 DEF TunnelEnds, Ended
<1>21. CASE GoolNotices  BY <1>21 DEF GoolNotices, Ended
<1>22. CASE Restart  BY <1>22 DEF Restart, Begin
<1>23. CASE \E p \in Peers : Elapse(p)
  <2> PICK p \in Peers : Elapse(p)  BY <1>23
  <2> QED  BY DEF Elapse
<1>24. CASE UNCHANGED vars  BY <1>24 DEF vars
<1> QED  BY <1>1, <1>2, <1>3, <1>4, <1>5, <1>6, <1>7, <1>8, <1>9, <1>10, <1>11,
         <1>12,
         <1>13, <1>14, <1>15, <1>16, <1>17, <1>18, <1>19, <1>20, <1>21, <1>22,
         <1>23, <1>24
     DEF Next, Choose

\* TypeOK: the fields keep their types and the failure counter its limit, for
\* any number of edges, rounds and restarts.
THEOREM TypeCorrect == Spec => []TypeOK
<1>1. TypeInv => TypeOK  BY DEF TypeInv
<1> QED  BY InitType, NextType, <1>1, PTL DEF Spec

\* The type invariant as a fact for the theorems below.
LEMMA TypeAlways == Spec => []TypeInv
BY InitType, NextType, PTL DEF Spec

-----------------------------------------------------------------------------
(* Cooldowns of run_wireguard. *)

RestInv == FirstRound /\ LastGoodRested /\ CooldownRespected

\* No cooldown runs when a process begins.
LEMMA InitRest == Init => RestInv
BY DEF Init, RestInv, FirstRound, LastGoodRested, CooldownRespected, Begin

\* The edge that is put to rest is forgotten in the same step, and whatever
\* is chosen afterwards was chosen outside the map.
LEMMA NextRest == TypeInv /\ RestInv /\ [Next]_vars => RestInv'
<1> SUFFICES ASSUME TypeInv, RestInv, [Next]_vars PROVE RestInv'  OBVIOUS
<1> USE ReconnectConstantsOK DEF TypeInv, TypeOK, Counted, Edge, RestInv,
          FirstRound, LastGoodRested, CooldownRespected
<1>1. CASE VerifyAssigned  BY <1>1 DEF VerifyAssigned
<1>2. CASE VerifyCached  BY <1>2 DEF VerifyCached
<1>3. CASE Top  BY <1>3 DEF Top
<1>4. CASE PickQuick  BY <1>4 DEF PickQuick
<1>5. CASE Retry  BY <1>5 DEF Retry
<1>6. CASE NothingToRetry  BY <1>6 DEF NothingToRetry
<1>7. CASE RetryPair  BY <1>7 DEF RetryPair
<1>8. CASE UseForced  BY <1>8 DEF UseForced
<1>9. CASE HuntFinds  BY <1>9 DEF HuntFinds
<1>10. CASE HuntFindsPair  BY <1>10 DEF HuntFindsPair
<1>11. CASE HuntFindsOne  BY <1>11 DEF HuntFindsOne
<1>12. CASE HuntFails  BY <1>12 DEF HuntFails
<1>13. CASE Save  BY <1>13 DEF Save
<1>14. CASE SaveEnds  BY <1>14 DEF SaveEnds
<1>15. CASE Note  BY <1>15 DEF Note
<1>16. CASE Sleep  BY <1>16 DEF Sleep
<1>17. CASE TunnelUp  BY <1>17 DEF TunnelUp
<1>18. CASE SocksDies  BY <1>18 DEF SocksDies
<1>19. CASE TunnelFails  BY <1>19 DEF TunnelFails, Ended
<1>20. CASE TunnelEnds  BY <1>20 DEF TunnelEnds, Ended
<1>21. CASE GoolNotices  BY <1>21 DEF GoolNotices, Ended
<1>22. CASE Restart  BY <1>22 DEF Restart, Begin
<1>23. CASE \E p \in Peers : Elapse(p)
  <2> PICK p \in Peers : Elapse(p)  BY <1>23
  <2> QED  BY DEF Elapse
<1>24. CASE UNCHANGED vars  BY <1>24 DEF vars
<1> QED  BY <1>1, <1>2, <1>3, <1>4, <1>5, <1>6, <1>7, <1>8, <1>9, <1>10, <1>11,
         <1>12,
         <1>13, <1>14, <1>15, <1>16, <1>17, <1>18, <1>19, <1>20, <1>21, <1>22,
         <1>23, <1>24
     DEF Next, Choose

\* CooldownRespected: run_wireguard never runs a tunnel to an edge that is
\* cooling down, for any set of edges and any failure limit.
THEOREM CooldownCorrect == Spec => []CooldownRespected
<1>1. RestInv => CooldownRespected  BY DEF RestInv
<1> QED  BY InitRest, NextRest, TypeAlways, <1>1, PTL DEF Spec

-----------------------------------------------------------------------------
(* Which failures put an edge to rest. *)

\* Nothing is counted when a process begins.
LEMMA InitStreak == Init => Streak
BY DEF Init, Streak, Begin

\* The count goes on only for the edge whose tunnels it counts.
LEMMA NextStreak == TypeInv /\ Streak /\ [Next]_vars => Streak'
<1> SUFFICES ASSUME TypeInv, Streak, [Next]_vars PROVE Streak'  OBVIOUS
<1> USE ReconnectConstantsOK DEF TypeInv, TypeOK, Counted, Edge, Streak
<1>1. CASE VerifyAssigned  BY <1>1 DEF VerifyAssigned
<1>2. CASE VerifyCached  BY <1>2 DEF VerifyCached
<1>3. CASE Top  BY <1>3 DEF Top
<1>4. CASE PickQuick  BY <1>4 DEF PickQuick
<1>5. CASE Retry  BY <1>5 DEF Retry
<1>6. CASE NothingToRetry  BY <1>6 DEF NothingToRetry
<1>7. CASE RetryPair  BY <1>7 DEF RetryPair
<1>8. CASE UseForced  BY <1>8 DEF UseForced
<1>9. CASE HuntFinds  BY <1>9 DEF HuntFinds
<1>10. CASE HuntFindsPair  BY <1>10 DEF HuntFindsPair
<1>11. CASE HuntFindsOne  BY <1>11 DEF HuntFindsOne
<1>12. CASE HuntFails  BY <1>12 DEF HuntFails
<1>13. CASE Save  BY <1>13 DEF Save
<1>14. CASE SaveEnds  BY <1>14 DEF SaveEnds
<1>15. CASE Note
  <2>1. protocol = "wireguard" /\ fails' >= 1 =>
          lastGood = peer /\ fails' = fails
    BY <1>15 DEF Note
  <2> QED  BY <1>15, <2>1 DEF Note
<1>16. CASE Sleep  BY <1>16 DEF Sleep
<1>17. CASE TunnelUp  BY <1>17 DEF TunnelUp
<1>18. CASE SocksDies  BY <1>18 DEF SocksDies
<1>19. CASE TunnelFails
  <2>1. peer = lastGood /\ recent'[1] = recent[2] /\ recent'[2] = peer
    BY <1>19 DEF TunnelFails, Ended
  <2>2. fails' >= 2 /\ protocol = "wireguard" => fails >= 1
    BY <1>19 DEF TunnelFails, Ended
  <2> QED  BY <1>19, <2>1, <2>2 DEF TunnelFails, Ended
<1>20. CASE TunnelEnds
  <2>1. peer = lastGood /\ recent'[1] = recent[2] /\ recent'[2] = peer
    BY <1>20 DEF TunnelEnds, Ended
  <2>2. fails' >= 2 /\ protocol = "wireguard" => fails >= 1
    BY <1>20 DEF TunnelEnds, Ended
  <2> QED  BY <1>20, <2>1, <2>2 DEF TunnelEnds, Ended
<1>21. CASE GoolNotices
  <2>1. peer = lastGood /\ recent'[1] = recent[2] /\ recent'[2] = peer
    BY <1>21 DEF GoolNotices, Ended
  <2>2. fails' >= 2 /\ protocol = "wireguard" => fails >= 1
    BY <1>21 DEF GoolNotices, Ended
  <2> QED  BY <1>21, <2>1, <2>2 DEF GoolNotices, Ended
<1>22. CASE Restart  BY <1>22 DEF Restart, Begin
<1>23. CASE \E p \in Peers : Elapse(p)
  <2> PICK p \in Peers : Elapse(p)  BY <1>23
  <2> QED  BY DEF Elapse
<1>24. CASE UNCHANGED vars  BY <1>24 DEF vars
<1> QED  BY <1>1, <1>2, <1>3, <1>4, <1>5, <1>6, <1>7, <1>8, <1>9, <1>10, <1>11,
         <1>12,
         <1>13, <1>14, <1>15, <1>16, <1>17, <1>18, <1>19, <1>20, <1>21, <1>22,
         <1>23, <1>24
     DEF Next, Choose

\* A cooldown begins in Top only, for the edge of the streak.
LEMMA RestsStep ==
  TypeInv /\ Streak /\ [Next]_vars =>
    [\A p \in cooling' \ cooling : recent = <<p, p>>]_vars
<1> SUFFICES ASSUME TypeInv, Streak, [Next]_vars, NEW p \in cooling' \ cooling
             PROVE  recent = <<p, p>>
  OBVIOUS
<1>1. Top
  <2>1. CASE UNCHANGED vars  BY <2>1 DEF vars
  <2>2. CASE Choose
    BY <2>2 DEF Choose, VerifyAssigned, VerifyCached, PickQuick, Retry,
       NothingToRetry, RetryPair, UseForced, HuntFinds, HuntFindsPair,
       HuntFindsOne, HuntFails, Save, SaveEnds, Note, Sleep
  <2>3. CASE TunnelUp \/ SocksDies \/ TunnelFails \/ TunnelEnds \/ GoolNotices
    BY <2>3 DEF TunnelUp, SocksDies, TunnelFails, TunnelEnds, GoolNotices, Ended
  <2>4. CASE (\E q \in Peers : Elapse(q)) \/ Restart
    BY <2>4 DEF Elapse, Restart
  <2> QED  BY <2>1, <2>2, <2>3, <2>4 DEF Next
<1>2. protocol = "wireguard" /\ fails >= 2 /\ p = lastGood
  BY <1>1, ReconnectConstantsOK DEF Top, TypeInv, TypeOK
<1>3. recent[1] = p /\ recent[2] = p  BY <1>2 DEF Streak, TypeInv, TypeOK
<1> QED  BY <1>3 DEF TypeInv, TypeOK, Edge

\* RestsAfterTwoFailures: run_wireguard puts an edge to rest only when the two
\* tunnels before were both its own, whatever edges were tried in between.
THEOREM RestsCorrect == Spec => RestsAfterTwoFailures
BY InitStreak, NextStreak, RestsStep, TypeAlways, PTL
   DEF Spec, RestsAfterTwoFailures

-----------------------------------------------------------------------------
(* The lastconn file. *)

\* The file is empty at first.
LEMMA InitFile == Init => OnlyFoundRemembered
BY DEF Init, OnlyFoundRemembered

\* Only SaveEnds writes an edge, the one that Save has noted as found.
LEMMA NextFile ==
  TypeInv /\ OnlyFoundRemembered /\ [Next]_vars => OnlyFoundRemembered'
<1> SUFFICES ASSUME TypeInv, OnlyFoundRemembered, [Next]_vars
             PROVE  OnlyFoundRemembered'
  OBVIOUS
<1> USE DEF TypeInv, Counted, OnlyFoundRemembered
<1>1. CASE VerifyAssigned  BY <1>1 DEF VerifyAssigned
<1>2. CASE VerifyCached  BY <1>2 DEF VerifyCached
<1>3. CASE Top  BY <1>3 DEF Top
<1>4. CASE PickQuick  BY <1>4 DEF PickQuick
<1>5. CASE Retry  BY <1>5 DEF Retry
<1>6. CASE NothingToRetry  BY <1>6 DEF NothingToRetry
<1>7. CASE RetryPair  BY <1>7 DEF RetryPair
<1>8. CASE UseForced  BY <1>8 DEF UseForced
<1>9. CASE HuntFinds  BY <1>9 DEF HuntFinds
<1>10. CASE HuntFindsPair  BY <1>10 DEF HuntFindsPair
<1>11. CASE HuntFindsOne  BY <1>11 DEF HuntFindsOne
<1>12. CASE HuntFails  BY <1>12 DEF HuntFails
<1>13. CASE Save  BY <1>13 DEF Save
<1>14. CASE SaveEnds  BY <1>14 DEF SaveEnds
<1>15. CASE Note  BY <1>15 DEF Note
<1>16. CASE Sleep  BY <1>16 DEF Sleep
<1>17. CASE TunnelUp  BY <1>17 DEF TunnelUp
<1>18. CASE SocksDies  BY <1>18 DEF SocksDies
<1>19. CASE TunnelFails  BY <1>19 DEF TunnelFails, Ended
<1>20. CASE TunnelEnds  BY <1>20 DEF TunnelEnds, Ended
<1>21. CASE GoolNotices  BY <1>21 DEF GoolNotices, Ended
<1>22. CASE Restart  BY <1>22 DEF Restart, Begin
<1>23. CASE \E p \in Peers : Elapse(p)
  <2> PICK p \in Peers : Elapse(p)  BY <1>23
  <2> QED  BY DEF Elapse
<1>24. CASE UNCHANGED vars  BY <1>24 DEF vars
<1> QED  BY <1>1, <1>2, <1>3, <1>4, <1>5, <1>6, <1>7, <1>8, <1>9, <1>10, <1>11,
         <1>12,
         <1>13, <1>14, <1>15, <1>16, <1>17, <1>18, <1>19, <1>20, <1>21, <1>22,
         <1>23, <1>24
     DEF Next, Choose

\* OnlyFoundRemembered: whenever the process is killed, between the truncation
\* and the write too, the file it leaves names nothing or an edge that a scan
\* or a verification has chosen, for any number of restarts.
THEOREM RememberedCorrect == Spec => []OnlyFoundRemembered
BY InitFile, NextFile, TypeAlways, PTL DEF Spec

-----------------------------------------------------------------------------
(* The two edges of run_gool. *)

\* The pair that is remembered is one of two edges, like the one in use: gool
\* never takes the ways by which a single edge is chosen.
PairInv ==
  /\ SeparateEdges
  /\ protocol = "gool" /\ lastGood # None =>
       lastInner # None /\ lastInner # lastGood

\* Nothing is remembered when a process begins.
LEMMA InitPair == Init => PairInv
BY DEF Init, PairInv, SeparateEdges, Begin

\* A pair comes from one scan, or from the memory of such a pair.
LEMMA NextPair == TypeInv /\ PairInv /\ [Next]_vars => PairInv'
<1> SUFFICES ASSUME TypeInv, PairInv, [Next]_vars PROVE PairInv'  OBVIOUS
<1> USE ReconnectConstantsOK DEF TypeInv, TypeOK, Counted, Edge, PairInv, SeparateEdges
<1>1. CASE VerifyAssigned  BY <1>1 DEF VerifyAssigned
<1>2. CASE VerifyCached  BY <1>2 DEF VerifyCached
<1>3. CASE Top  BY <1>3 DEF Top
<1>4. CASE PickQuick  BY <1>4 DEF PickQuick
<1>5. CASE Retry  BY <1>5 DEF Retry
<1>6. CASE NothingToRetry  BY <1>6 DEF NothingToRetry
<1>7. CASE RetryPair  BY <1>7 DEF RetryPair
<1>8. CASE UseForced  BY <1>8 DEF UseForced
<1>9. CASE HuntFinds  BY <1>9 DEF HuntFinds
<1>10. CASE HuntFindsPair  BY <1>10 DEF HuntFindsPair
<1>11. CASE HuntFindsOne  BY <1>11 DEF HuntFindsOne
<1>12. CASE HuntFails  BY <1>12 DEF HuntFails
<1>13. CASE Save  BY <1>13 DEF Save
<1>14. CASE SaveEnds  BY <1>14 DEF SaveEnds
<1>15. CASE Note  BY <1>15 DEF Note
<1>16. CASE Sleep  BY <1>16 DEF Sleep
<1>17. CASE TunnelUp  BY <1>17 DEF TunnelUp
<1>18. CASE SocksDies  BY <1>18 DEF SocksDies
<1>19. CASE TunnelFails  BY <1>19 DEF TunnelFails, Ended
<1>20. CASE TunnelEnds  BY <1>20 DEF TunnelEnds, Ended
<1>21. CASE GoolNotices  BY <1>21 DEF GoolNotices, Ended
<1>22. CASE Restart  BY <1>22 DEF Restart, Begin
<1>23. CASE \E p \in Peers : Elapse(p)
  <2> PICK p \in Peers : Elapse(p)  BY <1>23
  <2> QED  BY DEF Elapse
<1>24. CASE UNCHANGED vars  BY <1>24 DEF vars
<1> QED  BY <1>1, <1>2, <1>3, <1>4, <1>5, <1>6, <1>7, <1>8, <1>9, <1>10, <1>11,
         <1>12,
         <1>13, <1>14, <1>15, <1>16, <1>17, <1>18, <1>19, <1>20, <1>21, <1>22,
         <1>23, <1>24
     DEF Next, Choose

\* SeparateEdges: over rescans, kept pairs, half-successful scans and restarts,
\* run_gool never runs both hops over one edge, for any set of edges; it is the
\* safety half of KeepsTrying.
THEOREM SeparateEdgesAlways == Spec => []SeparateEdges
<1>1. PairInv => SeparateEdges  BY DEF PairInv
<1> QED  BY InitPair, NextPair, TypeAlways, <1>1, PTL DEF Spec

-----------------------------------------------------------------------------
(* Numbers. *)

\* A set of numbers that is not empty has a least one.
LEMMA LeastNumber ==
  ASSUME NEW S \in SUBSET Nat, S # {}
  PROVE  \E m \in S : \A n \in S : m <= n
<1>1. PICK m \in S : \A y \in S : <<y, m>> \notin OpToRel(<, Nat)
  BY NatLessThanWellFounded, WFMin
<1>2. \A y \in S : ~(y < m)  BY <1>1 DEF OpToRel
<1> QED  BY <1>2

\* What division gives.
LEMMA Division ==
  ASSUME NEW n \in Nat, n > 0, NEW x \in Nat
  PROVE  x \div n \in Nat /\ x % n \in 0 .. n - 1 /\ x = n * (x \div n) + (x % n)
OBVIOUS

\* Quotient and remainder are determined by the division.
LEMMA DivisionUnique ==
  ASSUME NEW n \in Nat, n > 0, NEW q \in Nat, NEW r \in 0 .. n - 1
  PROVE  (n * q + r) % n = r /\ (n * q + r) \div n = q
<1> DEFINE x == n * q + r
           d == x \div n
           m == x % n
<1>0. n*q \in Nat BY Z3
<1>1. x \in Nat /\ d \in Nat /\ m \in 0 .. n-1 /\ x = n * d + m BY <1>0
<1> HIDE DEF d, m
<1>2. n*(d - q) = r - m BY <1>1 DEF x
<1>3. d - q < 1  BY <1>2, <1>1
<1>4. d - q > -1  BY <1>2, <1>1
<1>5. d = q BY <1>3, <1>4, <1>1
<1> QED BY <1>5, <1>1 DEF x,d,m

-----------------------------------------------------------------------------
(* Lists that are put in order. *)

\* What an order must be for a set to be put in order by it.
StrictOrder(S, before) ==
  /\ \A x \in S : <<x, x>> \notin before
  /\ \A x, y, z \in S :
       <<x, y>> \in before /\ <<y, z>> \in before => <<x, z>> \in before
  /\ \A x, y \in S : x = y \/ <<x, y>> \in before \/ <<y, x>> \in before

\* A finite set put in order: each member once, and each before the later ones.
LEMMA RankedInOrder ==
  ASSUME NEW S, NEW before, IsFiniteSet(S), StrictOrder(S, before)
  PROVE  /\ Cardinality(S) \in Nat
         /\ Ranked(S, before) \in [1 .. Cardinality(S) -> S]
         /\ \A x \in S : \E n \in 1 .. Cardinality(S) : Ranked(S, before)[n] = x
         /\ \A n, m \in 1 .. Cardinality(S) :
              n < m => <<Ranked(S, before)[n], Ranked(S, before)[m]>> \in before
         /\ \A n, m \in 1 .. Cardinality(S) :
              Ranked(S, before)[n] = Ranked(S, before)[m] => n = m
<1> DEFINE N == Cardinality(S)
           below(x) == {y \in S : <<y, x>> \in before}
           rk == [x \in S |-> Cardinality(below(x)) + 1]
           R == Ranked(S, before)
<1>1. N \in Nat  BY FS_CardinalityType
<1>2. \A x \in S : /\ IsFiniteSet(below(x)) /\ Cardinality(below(x)) \in Nat
                   /\ Cardinality(below(x)) < N
  <2> TAKE x \in S
  <2>1. below(x) \in SUBSET S /\ x \notin below(x)  BY DEF StrictOrder
  <2>2. IsFiniteSet(below(x)) /\ Cardinality(below(x)) <= N /\ Cardinality(below(x)) # N
    <3> HIDE DEF below
    <3> QED BY <2>1, FS_Subset
  <2> QED  BY <2>2, <1>1, FS_CardinalityType
<1>3. \A x, y \in S : <<x, y>> \in before => Cardinality(below(x)) < Cardinality(below(y))
  <2> SUFFICES ASSUME NEW x \in S, NEW y \in S, <<x, y>> \in before
               PROVE Cardinality(below(x)) < Cardinality(below(y))
    OBVIOUS
  <2>1. below(x) \in SUBSET below(y) /\ x \in below(y) /\ x \notin below(x)
    BY DEF StrictOrder
  <2>2. Cardinality(below(x)) <= Cardinality(below(y)) /\ Cardinality(below(x)) # Cardinality(below(y))
    <3> HIDE DEF below
    <3> QED BY <1>2, <2>1, FS_Subset
  <2> HIDE DEF below
  <2> QED  BY <2>2, <1>2
<1> HIDE DEF below
<1>4. rk \in [S -> 1 .. N]  BY <1>1, <1>2
<1>5. \A x, y \in S : rk[x] = rk[y] => x = y
  <2> SUFFICES ASSUME NEW x \in S, NEW y \in S, x # y  PROVE rk[x] # rk[y]  OBVIOUS
  <2>1. CASE <<x, y>> \in before  BY <2>1, <1>2, <1>3
  <2>2. CASE <<y, x>> \in before  BY <2>2, <1>2, <1>3
  <2> QED  BY <2>1, <2>2 DEF StrictOrder
<1>6. rk \in Surjection(S, 1 .. N)
  <2>1. rk \in Injection(S, 1 .. N)  BY <1>4, <1>5 DEF Injection, IsInjective
  <2>2. IsFiniteSet(1 .. N) /\ Cardinality(1 .. N) = N  BY <1>1, FS_Interval
  <2> HIDE DEF rk
  <2> QED  BY <2>1, <2>2, FS_Injection
<1>7. \A n \in 1 .. N : \E x \in S : rk[x] = n  BY <1>6 DEF Surjection
<1>8. R = [n \in 1 .. N |-> CHOOSE x \in S : rk[x] = n]
  <2>1. \A n \in 1 .. N : (CHOOSE x \in S : rk[x] = n)
                          = CHOOSE x \in S : Cardinality(below(x)) + 1 = n
    OBVIOUS
  <2> QED BY <2>1 DEF Ranked, below
<1>9. \A n \in 1 .. N : R[n] \in S /\ rk[R[n]] = n  BY <1>7, <1>8
<1>10. \A x \in S : R[rk[x]] = x  BY <1>9, <1>5, <1>4
<1>11. \A n, m \in 1 .. N : n < m => <<R[n], R[m]>> \in before
  <2> SUFFICES ASSUME NEW n \in 1 .. N, NEW m \in 1 .. N, n < m
               PROVE <<R[n], R[m]>> \in before
    OBVIOUS
  <2>1. \A x, y \in S : <<x, y>> \in before => rk[x] < rk[y]  BY <1>2, <1>3
  <2> HIDE DEF R, rk, N
  <2>2. R[n] # R[m] /\ n \in Nat /\ m \in Nat  BY <1>9, <1>1
  <2>3. <<R[m], R[n]>> \notin before  BY <1>9, <2>1, <2>2
  <2> QED BY <2>2, <2>3, <1>9 DEF StrictOrder
<1>12. R \in [1 .. N -> S]  BY <1>8, <1>9
<1>13. \A n, m \in 1 .. N : R[n] = R[m] => n = m  BY <1>9
<1> QED  BY <1>1, <1>12, <1>10, <1>4, <1>11, <1>13

\* Numbers can be put in order by size.
LEMMA BySizeOrder ==
  ASSUME NEW S \in SUBSET Nat
  PROVE  StrictOrder(S, BySize(S))
BY DEF StrictOrder, BySize

\* Pairs of numbers can be put in order, by the order of a larger set too.
LEMMA ByPairOrder ==
  ASSUME NEW T \in SUBSET (Nat \X Nat), NEW S \in SUBSET T
  PROVE  StrictOrder(S, ByPair(T))
<1>1. \A x, y \in S : <<x, y>> \in ByPair(T) <=>
        x[1] < y[1] \/ (x[1] = y[1] /\ x[2] < y[2])
  BY DEF ByPair
<1>2. \A x \in S : x = <<x[1], x[2]>> /\ x[1] \in Nat /\ x[2] \in Nat  OBVIOUS
<1>3. \A x, y \in S : (x[1] = y[1] /\ x[2] = y[2]) => x = y  BY <1>2, Zenon
<1>4. \A x \in S : <<x, x>> \notin ByPair(T)  BY <1>1, <1>2
<1>5. \A x, y, z \in S :
        <<x, y>> \in ByPair(T) /\ <<y, z>> \in ByPair(T) => <<x, z>> \in ByPair(T)
  BY <1>1, <1>2
<1>6. \A x, y \in S : x = y \/ <<x, y>> \in ByPair(T) \/ <<y, x>> \in ByPair(T)
  <2> SUFFICES ASSUME NEW x \in S, NEW y \in S, x # y
               PROVE <<x, y>> \in ByPair(T) \/ <<y, x>> \in ByPair(T)
    OBVIOUS
  <2>1. x[1] < y[1] \/ y[1] < x[1] \/ (x[1] = y[1] /\ (x[2] < y[2] \/ y[2] < x[2]))
    BY <1>2, <1>3
  <2> QED  BY <1>1, <2>1
<1> QED  BY <1>4, <1>5, <1>6 DEF StrictOrder

-----------------------------------------------------------------------------
(* The list of candidates. *)

\* What has not been seen before and is not excluded, each of it once.
LEMMA UnseenSound ==
  ASSUME NEW T, NEW list \in Seq(T), NEW excluded
  PROVE  /\ Unseen(list, excluded) \in Seq(T)
         /\ IsInjective(Unseen(list, excluded))
         /\ ToSet(Unseen(list, excluded)) = ToSet(list) \ excluded
<1> DEFINE keep == {k \in 1 .. Len(list) : /\ list[k] \notin excluded
                                           /\ \A i \in 1 .. k - 1 : list[i] # list[k]}
           kept == Ranked(keep, BySize(keep))
           N == Cardinality(keep)
           u == Unseen(list, excluded)
<1>1. Len(list) \in Nat /\ \A k \in 1 .. Len(list) : list[k] \in T  OBVIOUS
<1>2. IsFiniteSet(keep)
  <2>1. IsFiniteSet(1 .. Len(list))  BY <1>1, FS_Interval
  <2>2. keep \in SUBSET (1 .. Len(list))  OBVIOUS
  <2> HIDE DEF keep
  <2> QED  BY <2>1, <2>2, FS_Subset
<1>3. StrictOrder(keep, BySize(keep))
  <2>1. keep \in SUBSET Nat  BY <1>1
  <2> HIDE DEF keep
  <2> QED  BY <2>1, BySizeOrder
<1>4. /\ N \in Nat /\ kept \in [1 .. N -> keep]
      /\ \A x \in keep : \E n \in 1 .. N : kept[n] = x
      /\ \A n, m \in 1 .. N : kept[n] = kept[m] => n = m
  <2> HIDE DEF keep
  <2> QED  BY <1>2, <1>3, RankedInOrder
<1>5. u = [n \in 1 .. N |-> list[kept[n]]]  BY DEF Unseen
<1>6. \A k \in keep : /\ k \in 1 .. Len(list) /\ list[k] \notin excluded
                      /\ \A i \in 1 .. Len(list) : i < k => list[i] # list[k]
  BY <1>1
<1>7. \A c \in ToSet(list) \ excluded : \E k \in keep : list[k] = c
  <2> TAKE c \in ToSet(list) \ excluded
  <2> DEFINE S == {k \in 1 .. Len(list) : list[k] = c}
  <2>1. S \in SUBSET Nat /\ S # {}  BY <1>1 DEF ToSet
  <2>2. PICK m \in S : \A n \in S : m <= n
    <3> HIDE DEF S
    <3> QED  BY <2>1, LeastNumber
  <2>3. m \in keep  BY <2>2, <1>1
  <2> QED  BY <2>3
<1> HIDE DEF keep, kept, N
<1>8. u \in Seq(T)
  <2>1. \A n \in 1 .. N : list[kept[n]] \in T  BY <1>1, <1>4, <1>6
  <2> QED  BY <2>1, <1>4, <1>5
<1>9. Len(u) = N /\ DOMAIN u = 1 .. N  BY <1>4, <1>5, <1>8
<1>10. IsInjective(u)
  <2> SUFFICES ASSUME NEW n \in 1 .. N, NEW m \in 1 .. N, list[kept[n]] = list[kept[m]]
               PROVE n = m
    BY <1>5, <1>9 DEF IsInjective
  <2>1. kept[n] \in keep /\ kept[m] \in keep  BY <1>4
  <2>2. kept[n] = kept[m]
    <3>1. ~(kept[n] < kept[m]) /\ ~(kept[m] < kept[n])  BY <2>1, <1>6
    <3> QED  BY <3>1, <2>1, <1>6, <1>1
  <2> QED  BY <2>2, <1>4
<1>11. ToSet(u) = ToSet(list) \ excluded
  <2>1. ToSet(u) = {list[kept[n]] : n \in 1 .. N}  BY <1>5, <1>9 DEF ToSet
  <2>2. \A n \in 1 .. N : list[kept[n]] \in ToSet(list) \ excluded
    BY <1>4, <1>6, <1>1 DEF ToSet
  <2>3. \A c \in ToSet(list) \ excluded : \E n \in 1 .. N : list[kept[n]] = c
    BY <1>4, <1>7
  <2> QED  BY <2>1, <2>2, <2>3
<1> QED  BY <1>8, <1>10, <1>11

\* An address as CandidatesSound wants it.
HostOf(a, r) ==
  /\ a \in Nat /\ a \in r.base .. (r.base + r.size - 1)
  /\ NetworkBase(r) => /\ InRange(a, r)
                       /\ r.size > 2 => (a % r.size) \notin {0, r.size - 1}

\* The hosts that are enumerated or sampled are hosts of the range.
LEMMA HostListsSound ==
  ASSUME NEW st \in Strategy, NEW r \in Range4, NEW l \in HostLists(st, r)
  PROVE  l \in Seq(Nat) /\ \A i \in 1 .. Len(l) : HostOf(l[i], r)
<1>1. r.base \in Nat /\ r.size \in Nat /\ r.size > 0  BY DEF Range4
<1>2. ASSUME NEW i \in 1 .. r.size - 2, NetworkBase(r)
      PROVE  /\ InRange(r.base + i, r)
             /\ r.size > 2 => ((r.base + i) % r.size) \notin {0, r.size - 1}
  <2> DEFINE n == r.size
             q == r.base \div r.size
  <2>1. n \in Nat /\ n > 0 /\ i \in 0 .. n - 1  BY <1>1
  <2>2. q \in Nat /\ r.base = n * q  BY <1>1, <1>2 DEF NetworkBase
  <2>3. (n * q + i) % n = i /\ (n * q + i) \div n = q
    <3> HIDE DEF n, q
    <3> QED  BY <2>1, <2>2, DivisionUnique, Zenon
  <2>4. (r.base + i) % n = i /\ (r.base + i) \div n = q
    <3> HIDE DEF n, q
    <3> QED  BY <2>2, <2>3, Zenon
  <2>5. InRange(r.base + i, r)  BY <2>4 DEF InRange
  <2>6. (r.base + i) % r.size = i  BY <2>4
  <2> QED  BY <1>1, <2>5, <2>6
<1>3. \A i \in 1 .. r.size - 2 : HostOf(r.base + i, r)
  <2> TAKE i \in 1 .. r.size - 2
  <2>1. r.base + i \in Nat /\ r.base + i \in r.base .. (r.base + r.size - 1)  BY <1>1
  <2> QED  BY <1>2, <2>1 DEF HostOf
<1>4. r.size <= 2 => HostOf(r.base, r)  BY <1>1 DEF HostOf, InRange
<1>5. CASE l = <<r.base>> /\ r.size <= 2  BY <1>5, <1>4, <1>1
<1>6. CASE l = <<>>  BY <1>6
<1>7. CASE l = [i \in 1 .. r.size - 2 |-> r.base + i] /\ r.size > 1
  <2> DEFINE m == r.size - 2
             b == r.base
  <2>1. m \in Nat /\ b \in Nat /\ l = [i \in 1 .. m |-> b + i]  BY <1>1, <1>7
  <2>2. l \in Seq(Nat) /\ Len(l) = m
    <3> HIDE DEF m, b
    <3>1. \A i \in 1 .. m : b + i \in Nat  BY <2>1
    <3> QED  BY <2>1, <3>1
  <2> QED  BY <2>2, <1>7, <1>3
<1>8. ASSUME NEW k \in Nat, l \in [1 .. k -> (r.base + 1) .. (r.base + (r.size - 2))], r.size > 2
      PROVE l \in Seq(Nat) /\ \A i \in 1 .. Len(l) : HostOf(l[i], r)
  <2>1. l \in Seq(Nat) /\ Len(l) = k  BY <1>8, <1>1
  <2>2. \A a \in (r.base + 1) .. (r.base + (r.size - 2)) :
          a - r.base \in 1 .. r.size - 2 /\ r.base + (a - r.base) = a
    BY <1>1
  <2>3. \A a \in (r.base + 1) .. (r.base + (r.size - 2)) : HostOf(a, r)
    <3> TAKE a \in (r.base + 1) .. (r.base + (r.size - 2))
    <3> HIDE DEF HostOf
    <3> QED  BY <2>2, <1>3
  <2> QED  BY <2>1, <2>3, <1>8
<1>9. CASE st.full
  <2>1. l \in EnumerateCidr(r)  BY <1>9 DEF HostLists
  <2> QED  BY <2>1, <1>1, <1>5, <1>6, <1>7 DEF EnumerateCidr
<1>10. CASE ~st.full
  <2>1. l \in SampleCidr(r, st.sample)  BY <1>10 DEF HostLists
  <2>2. CASE r.size <= 2  BY <2>1, <2>2, <1>5 DEF SampleCidr
  <2>3. CASE r.size > 2
    <3> DEFINE usable == r.size - 2
               k == IF st.sample < usable THEN st.sample ELSE usable
    <3>1. k \in Nat  BY <1>1, <2>3 DEF Strategy
    <3>2. l \in [1 .. k -> (r.base + 1) .. (r.base + usable)]
      BY <2>1, <2>3, <1>1 DEF SampleCidr
    <3> HIDE DEF k
    <3> QED  BY <3>1, <3>2, <2>3, <1>8
  <2> QED  BY <2>2, <2>3, <1>1
<1> QED  BY <1>9, <1>10

\* What comes out of the rounds is in one of the lists.
LEMMA RoundsSound ==
  ASSUME NEW N \in Nat, NEW lists \in [1 .. N -> Seq(Nat)]
  PROVE  /\ Rounds(lists) \in Seq(Nat)
         /\ \A n \in 1 .. Len(Rounds(lists)) :
              \E k \in 1 .. N : \E i \in 1 .. Len(lists[k]) : Rounds(lists)[n] = lists[k][i]
<1> DEFINE row(k) == (1 .. Len(lists[k])) \X {k}
           rows == {row(k) : k \in 1 .. N}
           places == UNION rows
           turn == Ranked(places, ByPair(places))
           C == Cardinality(places)
<1>1. \A k \in 1 .. N : Len(lists[k]) \in Nat /\ \A i \in 1 .. Len(lists[k]) : lists[k][i] \in Nat
  <2> TAKE k \in 1 .. N
  <2>1. lists[k] \in Seq(Nat)  OBVIOUS
  <2> QED  BY <2>1
<1>2. \A k \in 1 .. N : IsFiniteSet(row(k))
  <2> TAKE k \in 1 .. N
  <2>1. IsFiniteSet(1 .. Len(lists[k]))  BY <1>1, FS_Interval
  <2>2. IsFiniteSet({k})  BY FS_Singleton
  <2> QED  BY <2>1, <2>2, FS_Product
<1>3. IsFiniteSet(rows)
  <2> DEFINE f == [k \in 1 .. N |-> row(k)]
  <2>1. f \in Surjection(1 .. N, rows)  BY DEF Surjection
  <2>2. IsFiniteSet(1 .. N)  BY FS_Interval
  <2> HIDE DEF f, rows
  <2> QED  BY <2>1, <2>2, FS_Surjection
<1>4. IsFiniteSet(places)
  <2>1. \A T \in rows : IsFiniteSet(T)  BY <1>2
  <2> HIDE DEF rows
  <2> QED  BY <1>3, <2>1, FS_UNION
<1>5. \A p \in places : /\ p[2] \in 1 .. N /\ p[1] \in 1 .. Len(lists[p[2]])
                        /\ p = <<p[1], p[2]>>
  <2> SUFFICES ASSUME NEW k \in 1 .. N, NEW p \in row(k)
               PROVE  p[2] = k /\ p[1] \in 1 .. Len(lists[k]) /\ p = <<p[1], p[2]>>
    OBVIOUS
  <2> QED  OBVIOUS
<1>6. places \in SUBSET (Nat \X Nat)
  <2> SUFFICES ASSUME NEW p \in places  PROVE p \in Nat \X Nat  OBVIOUS
  <2>1. p[2] \in Nat /\ p[1] \in Nat /\ p = <<p[1], p[2]>>  BY <1>5, <1>1
  <2> QED  BY <2>1
<1>7. C \in Nat /\ turn \in [1 .. C -> places]
  <2> HIDE DEF places
  <2>1. StrictOrder(places, ByPair(places))  BY <1>6, ByPairOrder
  <2> QED  BY <2>1, <1>4, RankedInOrder
<1>8. Rounds(lists) = [n \in 1 .. C |-> lists[turn[n][2]][turn[n][1]]]
  <2>1. Len(lists) = N  OBVIOUS
  <2> QED  BY <2>1 DEF Rounds
<1> HIDE DEF places, turn, C
<1>9. \A n \in 1 .. C : /\ turn[n][2] \in 1 .. N
                        /\ turn[n][1] \in 1 .. Len(lists[turn[n][2]])
  BY <1>5, <1>7
<1>10. \A n \in 1 .. C : lists[turn[n][2]][turn[n][1]] \in Nat  BY <1>9, <1>1
<1>11. Rounds(lists) \in Seq(Nat) /\ Len(Rounds(lists)) = C  BY <1>7, <1>8, <1>10
<1> QED  BY <1>8, <1>9, <1>11
\* The ports: their number, and each of them as a member.
LEMMA PortsSound ==
  /\ Len(Ports) \in Nat /\ Len(Ports) > 0
  /\ \A k \in 1 .. Len(Ports) : Ports[k] \in ToSet(Ports)
  /\ \A j, k \in 1 .. Len(Ports) : Ports[j] = Ports[k] => j = k
  /\ IsFiniteSet(ToSet(Ports))
<1>1. Ports \in Seq(ToSet(Ports)) /\ Ports # <<>> /\ IsInjective(Ports)
  BY ScanConstants
<1>2. Len(Ports) \in Nat /\ Len(Ports) > 0 /\ DOMAIN Ports = 1 .. Len(Ports)  BY <1>1
<1>3. Ports \in Surjection(1 .. Len(Ports), ToSet(Ports))
  BY <1>1, <1>2 DEF Surjection, ToSet
<1>4. IsFiniteSet(1 .. Len(Ports))  BY <1>2, FS_Interval
<1>5. IsFiniteSet(ToSet(Ports))  BY <1>3, <1>4, FS_Surjection
<1> QED  BY <1>1, <1>2, <1>5 DEF IsInjective, ToSet

\* Over as many waves as there are ports, an address meets a new port in each.
LEMMA WavePortsDiffer ==
  ASSUME NEW i \in Nat, NEW v \in Nat, NEW w \in Nat, v < Len(Ports), w < Len(Ports),
         WavePort(i, v) = WavePort(i, w)
  PROVE  v = w
<1> DEFINE L == Len(Ports)
           m == (i + v) % L
           c == (i + v) \div L
           d == (i + w) \div L
<1>1. L \in Nat /\ L > 0  BY PortsSound
<1> HIDE DEF L
<1>2. m \in 0 .. L - 1 /\ (i + w) % L \in 0 .. L - 1  BY <1>1
<1>3. m = (i + w) % L
  <2>1. m + 1 \in 1 .. L /\ ((i + w) % L) + 1 \in 1 .. L  BY <1>1, <1>2
  <2>2. Ports[m + 1] = Ports[((i + w) % L) + 1]  BY DEF WavePort, L
  <2>3. m + 1 = ((i + w) % L) + 1
    <3> HIDE DEF m
    <3> QED BY <2>1, <2>2, PortsSound DEF L
  <2> QED  BY <2>3, <1>2
<1>4. c \in Int /\ d \in Int /\ i + v = L * c + m /\ i + w = L * d + m
  BY <1>1, <1>2, <1>3
<1> HIDE DEF c, d, m
<1>5. L * (c - d) = v - w  BY <1>4, <1>1, <1>2
<1>6. v < L /\ w < L  BY DEF L
<1>7. c - d < 1  BY <1>5, <1>6, <1>4, <1>1
<1>8. c - d > -1  BY <1>5, <1>6, <1>4, <1>1
<1>9. c = d  BY <1>7, <1>8, <1>4
<1> QED  BY <1>9, <1>4, <1>2, <1>1

\* WireGuard's list: its addresses are those it was given, and each of them is
\* on the list, or excluded, with as many ports as there are waves.
LEMMA WgCandidatesSound ==
  ASSUME NEW hosts \in Seq(Nat), NEW st \in Strategy
  PROVE  /\ WgCandidates(hosts, st, Excluded) \in Seq(Nat \X ToSet(Ports))
         /\ IsInjective(WgCandidates(hosts, st, Excluded))
         /\ \A c \in ToSet(WgCandidates(hosts, st, Excluded)) :
              /\ c[1] \in ToSet(hosts) /\ c \notin Excluded
              /\ \E i \in Nat : \A v \in 0 .. st.waves - 1 :
                   /\ WavePort(i, v) \in ToSet(Ports)
                   /\ <<c[1], WavePort(i, v)>>
                        \in ToSet(WgCandidates(hosts, st, Excluded)) \union Excluded
<1> DEFINE waves == IF st.waves = 0 THEN 1 ELSE st.waves
           len == Len(hosts)
           try(n) == <<hosts[(n % len) + 1], WavePort(n % len, n \div len)>>
           list == [n \in 1 .. len * waves |-> try(n - 1)]
           cs == WgCandidates(hosts, st, Excluded)
<1>1. waves \in Nat /\ waves > 0 /\ st.waves <= waves /\ len \in Nat /\ st.waves \in Nat
  BY DEF Strategy
<1>2. \A i \in 1 .. len : hosts[i] \in Nat /\ hosts[i] \in ToSet(hosts)
  BY DEF ToSet
<1>3. cs = Unseen(list, Excluded)  BY DEF WgCandidates
<1> HIDE DEF waves, len, cs
<1>4. len * waves \in Nat  BY <1>1
<1>5. \A n \in 1 .. len * waves : len > 0 /\ n - 1 \in Nat
  <2> SUFFICES ASSUME NEW n \in 1 .. len * waves, len = 0  PROVE FALSE
    BY <1>1, <1>4
  <2>1. len * waves = 0  BY <1>1
  <2> QED  BY <2>1
<1>6. \A i, w \in Nat : WavePort(i, w) \in ToSet(Ports)
  <2> SUFFICES ASSUME NEW i \in Nat, NEW w \in Nat  PROVE WavePort(i, w) \in ToSet(Ports)
    OBVIOUS
  <2>1. ((i + w) % Len(Ports)) + 1 \in 1 .. Len(Ports)  BY PortsSound
  <2> QED  BY <2>1, PortsSound DEF WavePort
<1>7. \A n \in 1 .. len * waves :
        /\ (n - 1) % len \in 0 .. len - 1 /\ (n - 1) \div len \in Nat
        /\ hosts[((n - 1) % len) + 1] \in Nat /\ hosts[((n - 1) % len) + 1] \in ToSet(hosts)
        /\ try(n - 1) \in Nat \X ToSet(Ports)
  <2> TAKE n \in 1 .. len * waves
  <2>1. (n - 1) % len \in 0 .. len - 1 /\ (n - 1) \div len \in Nat
    <3> DEFINE x == n - 1
    <3>1. x \in Nat /\ len > 0  BY <1>5
    <3> HIDE DEF x
    <3>2. x % len \in 0 .. len - 1 /\ x \div len \in Nat  BY <3>1, <1>1, Division, Zenon
    <3> QED  BY <3>2 DEF x
  <2>2. ((n - 1) % len) + 1 \in 1 .. len /\ (n - 1) % len \in Nat  BY <2>1, <1>1
  <2> QED  BY <2>1, <2>2, <1>2, <1>6
<1>8. list \in Seq(Nat \X ToSet(Ports)) /\ DOMAIN list = 1 .. len * waves
  BY <1>7, <1>4
<1>9. /\ cs \in Seq(Nat \X ToSet(Ports)) /\ IsInjective(cs)
      /\ ToSet(cs) = ToSet(list) \ Excluded
  <2> HIDE DEF list
  <2> QED  BY <1>3, <1>8, UnseenSound
<1>10. ASSUME NEW i \in 0 .. len - 1, NEW v \in 0 .. waves - 1
       PROVE <<hosts[i + 1], WavePort(i, v)>> \in ToSet(list)
  <2> DEFINE n == len * v + i
  <2>1. n % len = i /\ n \div len = v  BY <1>1, DivisionUnique
  <2>2. len * v \in Nat /\ len * (waves - 1 - v) \in Nat /\ len * waves = len * v + len + len * (waves - 1 - v)
    BY <1>1
  <2>3. n + 1 \in 1 .. len * waves /\ n \in Nat /\ (n + 1) - 1 = n
    <3> HIDE DEF len, waves
    <3> DEFINE a == len * v
               b == len * (waves - 1 - v)
               z == len * waves
    <3>1. a \in Nat /\ b \in Nat /\ z = a + len + b  BY <2>2
    <3> HIDE DEF a, b, z
    <3>2. a + i + 1 \in 1 .. z  /\ a + i \in Nat BY <3>1, <1>1
    <3> QED  BY <3>2 DEF a, z
  <2>4. try(n) = <<hosts[i + 1], WavePort(i, v)>>  BY <2>1
  <2>5. list[n + 1] = try(n)  BY <2>3
  <2> QED  BY <2>3, <2>4, <2>5, <1>8 DEF ToSet
<1>11. ASSUME NEW c \in ToSet(cs)
       PROVE  /\ c[1] \in ToSet(hosts) /\ c \notin Excluded
              /\ \E i \in Nat : \A v \in 0 .. st.waves - 1 :
                   /\ WavePort(i, v) \in ToSet(Ports)
                   /\ <<c[1], WavePort(i, v)>> \in ToSet(cs) \union Excluded
  <2>1. c \in ToSet(list) /\ c \notin Excluded  BY <1>11, <1>9
  <2>2. PICK n \in 1 .. len * waves : c = try(n - 1)  BY <2>1, <1>8 DEF ToSet
  <2> DEFINE i == (n - 1) % len
  <2>3. i \in 0 .. len - 1 /\ c[1] = hosts[i + 1] /\ c[1] \in ToSet(hosts)
    BY <2>2, <1>7
  <2> HIDE DEF i, list
  <2>4. \A v \in 0 .. st.waves - 1 :
          <<c[1], WavePort(i, v)>> \in ToSet(cs) \union Excluded
    <3> SUFFICES ASSUME NEW v \in 0 .. st.waves - 1
                 PROVE <<c[1], WavePort(i, v)>> \in ToSet(list)
      BY <1>9
    <3>1. v \in 0 .. waves - 1  BY <1>1
    <3> QED  BY <3>1, <1>10, <2>3
  <2>5. i \in Nat  BY <2>3, <1>1
  <2> QED  BY <2>1, <2>3, <2>4, <2>5, <1>6
<1> QED  BY <1>9, <1>11 DEF cs

\* MASQUE's list: its addresses are the seeds and those it was given.
LEMMA MasqueCandidatesSound ==
  ASSUME NEW seeds \in Seq(Nat), NEW hosts \in Seq(Nat)
  PROVE  /\ MasqueCandidates(seeds, hosts) \in Seq(Nat \X ToSet(Ports))
         /\ IsInjective(MasqueCandidates(seeds, hosts))
         /\ \A c \in ToSet(MasqueCandidates(seeds, hosts)) :
              c[1] \in ToSet(seeds) \union ToSet(hosts)
<1> DEFINE all == seeds \o hosts
           again == IF seeds = <<>> THEN hosts ELSE seeds
           first == [i \in 1 .. Len(all) |-> <<all[i], Ports[1]>>]
           others == Len(Ports) - 1
           other(n) == <<again[(n \div others) + 1], Ports[(n % others) + 2]>>
           rest == [n \in 1 .. others * Len(again) |-> other(n - 1)]
           A == (ToSet(seeds) \union ToSet(hosts)) \cap Nat
           cs == MasqueCandidates(seeds, hosts)
<1>1. \A s \in Seq(Nat) : Len(s) \in Nat /\ \A i \in 1 .. Len(s) : s[i] \in ToSet(s) \cap Nat
  BY DEF ToSet
<1>2. again \in Seq(Nat) /\ Len(again) \in Nat /\ \A i \in 1 .. Len(again) : again[i] \in A
  <2>1. CASE seeds = <<>>  BY <2>1, <1>1
  <2>2. CASE seeds # <<>>  BY <2>2, <1>1
  <2> QED  BY <2>1, <2>2
<1>3. all \in Seq(Nat) /\ Len(all) \in Nat /\ \A i \in 1 .. Len(all) : all[i] \in A
  <2>1. Len(all) = Len(seeds) + Len(hosts)  OBVIOUS
  <2>2. ASSUME NEW i \in 1 .. Len(all)  PROVE all[i] \in A
    <3>1. CASE i <= Len(seeds)
      <4>1. all[i] = seeds[i] /\ i \in 1 .. Len(seeds)  BY <3>1
      <4> HIDE DEF all
      <4> QED  BY <4>1, <1>1
    <3>2. CASE i > Len(seeds)
      <4>1. all[i] = hosts[i - Len(seeds)] /\ i - Len(seeds) \in 1 .. Len(hosts)
        BY <3>2, <2>1
      <4> HIDE DEF all
      <4> QED  BY <4>1, <1>1
    <3> QED  BY <3>1, <3>2, <1>1
  <2> QED  BY <2>1, <2>2, <1>1
<1>4. cs = Unseen(first \o rest, {})  BY DEF MasqueCandidates
<1>5. 1 \in 1 .. Len(Ports) /\ others \in Nat  BY PortsSound
<1> HIDE DEF all, again, A, cs
<1>6. first \in Seq(A \X ToSet(Ports))  BY <1>3, <1>5, PortsSound
<1>7. \A n \in 1 .. others * Len(again) : other(n - 1) \in A \X ToSet(Ports)
  <2> TAKE n \in 1 .. others * Len(again)
  <2> DEFINE L == Len(again)
             o == others
             d == (n - 1) \div o
  <2>1. L \in Nat /\ o \in Nat /\ o + 1 = Len(Ports)  BY <1>2, <1>5, PortsSound
  <2> HIDE DEF L, o
  <2>2. n \in 1 .. o * L /\ o * L \in Nat  BY <2>1 DEF L, o
  <2>3. o > 0
    <3> SUFFICES ASSUME o = 0  PROVE FALSE  BY <2>1
    <3>1. o * L = 0  BY <2>1
    <3> QED  BY <3>1, <2>2
  <2>4. d \in Nat /\ (n - 1) % o \in 0 .. o - 1 /\ n - 1 = o * d + ((n - 1) % o)
    <3> DEFINE x == n - 1
    <3>1. x \in Nat  BY <2>2
    <3> HIDE DEF x
    <3>2. x \div o \in Nat /\ x % o \in 0 .. o - 1 /\ x = o * (x \div o) + (x % o)
      BY <3>1, <2>1, <2>3, Division
    <3> QED  BY <3>2 DEF x
  <2> HIDE DEF d
  <2>5. d < L
    <3> SUFFICES ASSUME d >= L  PROVE FALSE  BY <2>4, <2>1
    <3> DEFINE y == o * d
               z == o * L
    <3>1. o * (d - L) >= 0 /\ y = z + o * (d - L) /\ y \in Nat  BY <2>1, <2>4
    <3>2. y >= z  BY <3>1, <2>1, <2>2, <2>4
    <3> HIDE DEF y
    <3>3. n - 1 >= y  BY <2>4, <3>1, <2>1 DEF y
    <3> HIDE DEF z
    <3> QED  BY <3>2, <3>3, <3>1, <2>2 DEF z
  <2>6. d + 1 \in 1 .. Len(again) /\ ((n - 1) % o) + 2 \in 1 .. Len(Ports)
    BY <2>4, <2>5, <2>1 DEF L
  <2> QED  BY <2>6, <1>2, PortsSound DEF d, o
<1>8. rest \in Seq(A \X ToSet(Ports))
  <2>1. others * Len(again) \in Nat  BY <1>2, <1>5
  <2> QED  BY <2>1, <1>7
<1>9. first \o rest \in Seq(A \X ToSet(Ports))
  <2> HIDE DEF first, rest
  <2> QED  BY <1>6, <1>8
<1>10. /\ cs \in Seq(A \X ToSet(Ports)) /\ IsInjective(cs)
  <2> HIDE DEF first, rest
  <2> QED  BY <1>4, <1>9, UnseenSound
<1>11. A \X ToSet(Ports) \subseteq Nat \X ToSet(Ports)  BY DEF A
<1>12. cs \in Seq(Nat \X ToSet(Ports)) /\ \A c \in ToSet(cs) : c[1] \in A
  <2>1. Len(cs) \in Nat /\ DOMAIN cs = 1 .. Len(cs)
        /\ \A k \in 1 .. Len(cs) : cs[k] \in A \X ToSet(Ports)
    BY <1>10
  <2>2. cs \in Seq(Nat \X ToSet(Ports))  BY <2>1, <1>10, <1>11
  <2> QED  BY <2>1, <2>2 DEF ToSet
<1> QED  BY <1>10, <1>12 DEF cs, A

-----------------------------------------------------------------------------
(* What is handed on. *)

Answer == [ip : Nat, port : ToSet(Ports), rtt : Rtts]

\* No address twice, the fastest answer first.
LEMMA DistinctByIpSound ==
  ASSUME NEW heard \in Seq(Answer)
  PROVE  /\ DistinctByIp(heard) \in Seq(Answer)
         /\ \A i, j \in 1 .. Len(DistinctByIp(heard)) :
              DistinctByIp(heard)[i].ip = DistinctByIp(heard)[j].ip => i = j
         /\ heard # <<>> =>
              /\ Len(DistinctByIp(heard)) > 0
              /\ \A k \in 1 .. Len(heard) : DistinctByIp(heard)[1].rtt <= heard[k].rtt
<1> DEFINE Times == {<<heard[i].rtt, i>> : i \in 1 .. Len(heard)}
           sorted == ByPair(Times)
           firsts == {p \in Times :
                        \A j \in 1 .. Len(heard) \ {p[2]} :
                          heard[j].ip = heard[p[2]].ip => <<p, <<heard[j].rtt, j>> >> \in sorted}
           first == Ranked(firsts, sorted)
           N == Cardinality(firsts)
           D == DistinctByIp(heard)
<1>1. D = [k \in 1 .. N |-> heard[first[k][2]]]  BY DEF DistinctByIp
<1>2. /\ Len(heard) \in Nat
      /\ \A i \in 1 .. Len(heard) : heard[i] \in Answer /\ heard[i].rtt \in Nat
  <2>1. Rtts \subseteq Nat  BY ScanConstants
  <2>2. \A a \in Answer : a.rtt \in Nat  BY <2>1 DEF Answer
  <2> QED  BY <2>2
<1>3. \A p \in Times : p[2] \in 1 .. Len(heard) /\ p[1] = heard[p[2]].rtt /\ p = <<p[1], p[2]>>
                       /\ p[1] \in Nat
  BY <1>2
<1>4. \A i \in 1 .. Len(heard) : <<heard[i].rtt, i>> \in Times  OBVIOUS
<1>5. Times \in SUBSET (Nat \X Nat)  BY <1>2
<1>6. IsFiniteSet(firsts)
  <2> DEFINE f == [i \in 1 .. Len(heard) |-> <<heard[i].rtt, i>>]
  <2>1. f \in Surjection(1 .. Len(heard), Times)  BY DEF Surjection
  <2>2. IsFiniteSet(1 .. Len(heard))  BY <1>2, FS_Interval
  <2>3. firsts \in SUBSET Times  OBVIOUS
  <2> HIDE DEF f, Times, firsts
  <2>4. IsFiniteSet(Times)  BY <2>1, <2>2, FS_Surjection
  <2> QED  BY <2>3, <2>4, FS_Subset
<1>7. StrictOrder(firsts, sorted) /\ StrictOrder(Times, sorted)
  <2>1. firsts \in SUBSET Times  OBVIOUS
  <2> HIDE DEF Times, firsts
  <2> QED  BY <1>5, <2>1, ByPairOrder
<1>8. \A p \in firsts : p \in Times /\ \A j \in 1 .. Len(heard) \ {p[2]} :
          heard[j].ip = heard[p[2]].ip => <<p, <<heard[j].rtt, j>> >> \in sorted
  OBVIOUS
<1>9. \A p, q \in Times : <<p, q>> \in sorted <=>
        p[1] < q[1] \/ (p[1] = q[1] /\ p[2] < q[2])
  BY DEF ByPair
<1>10. heard # <<>> => \E p \in firsts : \A k \in 1 .. Len(heard) : p[1] <= heard[k].rtt
  <2> SUFFICES ASSUME heard # <<>>
               PROVE \E p \in firsts : \A k \in 1 .. Len(heard) : p[1] <= heard[k].rtt
    OBVIOUS
  <2> DEFINE R == {heard[i].rtt : i \in 1 .. Len(heard)}
  <2>1. 1 \in 1 .. Len(heard)  BY <1>2
  <2>2. R \in SUBSET Nat /\ R # {}  BY <2>1, <1>2
  <2>3. PICK m \in R : \A n \in R : m <= n
    <3> HIDE DEF R
    <3> QED  BY <2>2, LeastNumber
  <2> DEFINE I == {i \in 1 .. Len(heard) : heard[i].rtt = m}
  <2>4. I \in SUBSET Nat /\ I # {}  BY <2>3, <1>2
  <2>5. PICK i \in I : \A n \in I : i <= n
    <3> HIDE DEF I
    <3> QED  BY <2>4, LeastNumber
  <2> DEFINE p == <<m, i>>
  <2>6. p \in Times /\ p[1] = m /\ p[2] = i /\ i \in 1 .. Len(heard)  BY <2>5
  <2>7. \A j \in 1 .. Len(heard) \ {i} : <<p, <<heard[j].rtt, j>> >> \in sorted
    <3> TAKE j \in 1 .. Len(heard) \ {i}
    <3>1. m <= heard[j].rtt /\ (m = heard[j].rtt => i < j)  BY <2>3, <2>5, <1>2
    <3>2. <<heard[j].rtt, j>> \in Times  BY <1>4
    <3>3. m < heard[j].rtt \/ (m = heard[j].rtt /\ i < j)  BY <3>1, <2>2, <1>2
    <3> HIDE DEF Times, sorted
    <3> QED  BY <2>6, <3>2, <3>3, <1>9
  <2>8. p \in firsts
    <3> HIDE DEF Times, sorted, p
    <3> QED  BY <2>6, <2>7
  <2>9. \A k \in 1 .. Len(heard) : m <= heard[k].rtt  BY <2>3
  <2> QED  BY <2>6, <2>8, <2>9
<1> HIDE DEF Times, sorted, firsts
<1>11. /\ N \in Nat /\ first \in [1 .. N -> firsts]
       /\ \A x \in firsts : \E n \in 1 .. N : first[n] = x
       /\ \A n, m \in 1 .. N : n < m => <<first[n], first[m]>> \in sorted
       /\ \A n, m \in 1 .. N : first[n] = first[m] => n = m
  BY <1>6, <1>7, RankedInOrder
<1> HIDE DEF first, N, D
<1>12. \A k \in 1 .. N : /\ first[k] \in firsts /\ first[k] \in Times
                         /\ first[k][2] \in 1 .. Len(heard)
                         /\ heard[first[k][2]] \in Answer
                         /\ first[k][1] = heard[first[k][2]].rtt
  BY <1>11, <1>8, <1>3, <1>2
<1>13. D \in Seq(Answer) /\ Len(D) = N  BY <1>1, <1>11, <1>12
<1>14. ASSUME NEW i \in 1 .. N, NEW j \in 1 .. N, D[i].ip = D[j].ip
       PROVE  i = j
  <2> DEFINE p == first[i]
             q == first[j]
  <2>1. p \in firsts /\ q \in firsts /\ p \in Times /\ q \in Times  BY <1>12
  <2>2. heard[p[2]].ip = heard[q[2]].ip  BY <1>14, <1>1
  <2>3. p = <<heard[p[2]].rtt, p[2]>> /\ q = <<heard[q[2]].rtt, q[2]>>
        /\ p[2] \in 1 .. Len(heard) /\ q[2] \in 1 .. Len(heard)
    BY <2>1, <1>3
  <2> HIDE DEF p, q
  <2>4. p[2] = q[2]
    <3> SUFFICES ASSUME p[2] # q[2]  PROVE FALSE  OBVIOUS
    <3>1. <<p, q>> \in sorted /\ <<q, p>> \in sorted  BY <2>1, <2>2, <2>3, <1>8
    <3>2. <<p, p>> \in sorted  BY <3>1, <2>1, <1>7 DEF StrictOrder
    <3> QED  BY <3>2, <2>1, <1>7 DEF StrictOrder
  <2>5. p = q  BY <2>3, <2>4
  <2> QED  BY <2>5, <1>11 DEF p, q
<1>15. ASSUME heard # <<>>
       PROVE Len(D) > 0 /\ \A k \in 1 .. Len(heard) : D[1].rtt <= heard[k].rtt
  <2>1. PICK p \in firsts : \A k \in 1 .. Len(heard) : p[1] <= heard[k].rtt
    BY <1>10, <1>15
  <2>2. PICK n \in 1 .. N : first[n] = p  BY <1>11
  <2>3. 1 \in 1 .. N  BY <1>11
  <2>4. first[1][1] <= p[1] /\ p[1] \in Nat /\ first[1][1] \in Nat
    <3>1. p \in Times /\ first[1] \in Times /\ p[1] \in Nat /\ first[1][1] \in Nat
      BY <2>3, <1>12, <1>8, <1>3
    <3>2. n = 1 \/ <<first[1], p>> \in sorted  BY <1>11, <2>2, <2>3
    <3> QED  BY <3>1, <3>2, <2>2, <1>9
  <2>5. D[1].rtt = first[1][1]  BY <2>3, <1>1, <1>12
  <2> QED  BY <2>1, <2>3, <2>4, <2>5, <1>2, <1>11, <1>13
<1> QED  BY <1>13, <1>14, <1>15 DEF D

-----------------------------------------------------------------------------
(* The scan. *)

\* What a scan can be asked for.
Asked == [kind : {"wg", "masque"}, st : Strategy, want : Nat \ {0},
          seeds : Seq(Nat), ranges : Seq(Range4)]

\* A scan that ends with its first answer was asked for one endpoint, and a
\* quiet time only begins once the answers that are waited for have come.
ScanLoop ==
  /\ scan \in Asked /\ candidates \in Seq(Nat \X ToSet(Ports))
  /\ verified \in Seq(Answer) /\ picked \in Seq(Answer)
  /\ scan.st.early => scan.want = 1
  /\ quietUntil # "none" => scan.st.target > 0 /\ Len(verified) >= scan.st.target

ScanInv == ScanSound /\ ScanLoop

\* The members of two lists together.
LEMMA ToSetConcat ==
  ASSUME NEW T, NEW s \in Seq(T), NEW t \in Seq(T)
  PROVE  ToSet(s \o t) = ToSet(s) \union ToSet(t)
<1>1. DOMAIN (s \o t) = 1 .. Len(s) + Len(t) /\ DOMAIN s = 1 .. Len(s) /\ DOMAIN t = 1 .. Len(t)
      /\ Len(s) \in Nat /\ Len(t) \in Nat
  OBVIOUS
<1>2. \A i \in 1 .. Len(s) + Len(t) :
        (s \o t)[i] = IF i <= Len(s) THEN s[i] ELSE t[i - Len(s)]
  OBVIOUS
<1>3. \A i \in 1 .. Len(s) : i \in 1 .. Len(s) + Len(t) /\ (s \o t)[i] = s[i]  BY <1>1, <1>2
<1>4. \A i \in 1 .. Len(t) : Len(s) + i \in 1 .. Len(s) + Len(t) /\ (s \o t)[Len(s) + i] = t[i]
  BY <1>1, <1>2
<1>5. ToSet(s) \union ToSet(t) \subseteq ToSet(s \o t)  BY <1>1, <1>3, <1>4 DEF ToSet
<1>6. ToSet(s \o t) \subseteq ToSet(s) \union ToSet(t)
  <2> SUFFICES ASSUME NEW i \in 1 .. Len(s) + Len(t)
               PROVE  (s \o t)[i] \in ToSet(s) \union ToSet(t)
    BY <1>1 DEF ToSet
  <2>1. CASE i <= Len(s)  BY <2>1, <1>1, <1>2 DEF ToSet
  <2>2. CASE i > Len(s)
    <3>1. i - Len(s) \in 1 .. Len(t)  BY <2>2, <1>1
    <3> QED  BY <3>1, <2>2, <1>1, <1>2 DEF ToSet
  <2> QED  BY <2>1, <2>2, <1>1
<1> QED  BY <1>5, <1>6

\* The strategy of a scan for several endpoints.
LEMMA StrategyForSound ==
  ASSUME NEW st \in Strategy, NEW want \in Nat \ {0}
  PROVE  /\ StrategyFor(st, want) \in Strategy
         /\ StrategyFor(st, want).waves = st.waves
         /\ StrategyFor(st, want).early => want = 1
<1>1. PerWanted \in Nat /\ want * PerWanted \in Nat  BY ScanConstants
<1>2. CASE want = 1  BY <1>2 DEF StrategyFor
<1>3. CASE want # 1
  <2> DEFINE t == IF st.target < want * PerWanted THEN want * PerWanted ELSE st.target
  <2>1. t \in Nat  BY <1>1 DEF Strategy
  <2>2. StrategyFor(st, want) = [st EXCEPT !.early = FALSE, !.target = t]
    BY <1>3 DEF StrategyFor
  <2> HIDE DEF t
  <2> QED  BY <2>1, <2>2 DEF Strategy
<1> QED  BY <1>2, <1>3

\* As many different ports as there are waves, for an address of the list.
LEMMA WavesCounted ==
  ASSUME NEW a, NEW S, NEW i \in Nat, NEW waves \in Nat,
         \A v \in 0 .. waves - 1 : /\ WavePort(i, v) \in ToSet(Ports)
                                   /\ <<a, WavePort(i, v)>> \in S
  PROVE  Cardinality({p \in ToSet(Ports) : <<a, p>> \in S})
           >= IF waves < Len(Ports) THEN waves ELSE Len(Ports)
<1> DEFINE least == IF waves < Len(Ports) THEN waves ELSE Len(Ports)
           Of == {p \in ToSet(Ports) : <<a, p>> \in S}
           f == [v \in 0 .. least - 1 |-> WavePort(i, v)]
<1>1. least \in Nat /\ least <= waves /\ least <= Len(Ports) /\ Len(Ports) \in Nat
  BY PortsSound
<1> HIDE DEF least
<1>2. \A v \in 0 .. least - 1 : v \in 0 .. waves - 1 /\ v \in Nat /\ v < Len(Ports)
  BY <1>1
<1>3. f \in [0 .. least - 1 -> Of]  BY <1>2
<1>4. \A v, w \in 0 .. least - 1 : f[v] = f[w] => v = w  BY <1>2, WavePortsDiffer
<1>5. f \in Injection(0 .. least - 1, Of)  BY <1>3, <1>4 DEF Injection, IsInjective
<1>6. IsFiniteSet(Of) /\ Cardinality(Of) \in Nat
  <2>1. Of \in SUBSET ToSet(Ports)  OBVIOUS
  <2> HIDE DEF Of
  <2> QED  BY <2>1, PortsSound, FS_Subset, FS_CardinalityType
<1>7. Cardinality(0 .. least - 1) = least  BY <1>1, FS_Interval
<1>8. Cardinality(0 .. least - 1) <= Cardinality(Of)
  <2> HIDE DEF f, Of
  <2> QED  BY <1>5, <1>6, FS_Injection
<1> QED  BY <1>1, <1>6, <1>7, <1>8 DEF least

\* The lists that a scan may begin with.
LEMMA HostsSound ==
  ASSUME NEW st \in Strategies, NEW rs \in Ranges,
         NEW lists \in [1 .. Len(rs) -> UNION {HostLists(st, r) : r \in ToSet(rs)}],
         \A k \in 1 .. Len(rs) : lists[k] \in HostLists(st, rs[k])
  PROVE  /\ Rounds(lists) \in Seq(Nat)
         /\ \A a \in ToSet(Rounds(lists)) : \E r \in ToSet(rs) : HostOf(a, r)
<1>1. rs \in Seq(Range4) /\ Len(rs) \in Nat /\ DOMAIN rs = 1 .. Len(rs)  BY ScanConstants
<1>2. \A k \in 1 .. Len(rs) : rs[k] \in Range4 /\ rs[k] \in ToSet(rs)
  BY <1>1 DEF ToSet
<1>3. st \in Strategy  BY ScanConstants
<1>4. \A k \in 1 .. Len(rs) :
        lists[k] \in Seq(Nat) /\ \A i \in 1 .. Len(lists[k]) : HostOf(lists[k][i], rs[k])
  BY <1>2, <1>3, HostListsSound
<1>5. lists \in [1 .. Len(rs) -> Seq(Nat)]  BY <1>4
<1>6. /\ Rounds(lists) \in Seq(Nat)
      /\ \A n \in 1 .. Len(Rounds(lists)) :
           \E k \in 1 .. Len(rs) : \E i \in 1 .. Len(lists[k]) : Rounds(lists)[n] = lists[k][i]
  BY <1>1, <1>5, RoundsSound
<1>7. ASSUME NEW a \in ToSet(Rounds(lists))  PROVE \E r \in ToSet(rs) : HostOf(a, r)
  <2>1. PICK n \in 1 .. Len(Rounds(lists)) : a = Rounds(lists)[n]  BY <1>6 DEF ToSet
  <2>2. PICK k \in 1 .. Len(rs) : \E i \in 1 .. Len(lists[k]) : a = lists[k][i]  BY <1>6, <2>1
  <2> QED  BY <2>2, <1>2, <1>4
<1> QED  BY <1>6, <1>7

\* A scan begins with a sound list and nothing heard.
LEMMA ScanStartSound ==
  ASSUME NEW kind \in {"wg", "masque"}, NEW st \in Strategies, NEW want \in Wants,
         NEW rs \in Ranges, NEW seeds \in {<<>>, BuiltInSeeds},
         NEW lists \in [1 .. Len(rs) -> UNION {HostLists(st, r) : r \in ToSet(rs)}],
         \A k \in 1 .. Len(rs) : lists[k] \in HostLists(st, rs[k]),
         ScanStart(kind, st, want, seeds, rs, lists)
  PROVE  ScanInv
<1> DEFINE hosts == Rounds(lists)
<1>1. hosts \in Seq(Nat) /\ \A a \in ToSet(hosts) : \E r \in ToSet(rs) : HostOf(a, r)
  BY HostsSound
<1>2. /\ st \in Strategy /\ want \in Nat \ {0} /\ rs \in Seq(Range4) /\ seeds \in Seq(Nat)
  <2>1. BuiltInSeeds \in Seq(Nat) /\ <<>> \in Seq(Nat)  BY ScanConstants
  <2>2. st \in Strategy  BY ScanConstants
  <2>3. want \in Nat \ {0} /\ rs \in Seq(Range4)  BY ScanConstants
  <2> QED  BY <2>1, <2>2, <2>3
<1> HIDE DEF hosts
<1>3. /\ scan = [kind |-> kind, st |-> StrategyFor(st, want), want |-> want,
                 seeds |-> seeds, ranges |-> rs]
      /\ candidates = IF kind = "wg" THEN WgCandidates(seeds \o hosts, st, Excluded)
                      ELSE MasqueCandidates(seeds, hosts)
      /\ tried = {} /\ verified = <<>> /\ scanAt = "top"
      /\ quietUntil = "none" /\ deadline = "set" /\ picked = <<>>
  BY DEF ScanStart, hosts
<1>4. /\ scan \in Asked /\ scan.st.waves = st.waves
      /\ scan.st.early => scan.want = 1
      /\ scan.seeds = seeds /\ scan.ranges = rs /\ scan.kind = kind /\ scan.want = want
  BY <1>2, <1>3, StrategyForSound DEF Asked
<1>5. seeds \o hosts \in Seq(Nat) /\ ToSet(seeds \o hosts) = ToSet(seeds) \union ToSet(hosts)
  BY <1>1, <1>2, ToSetConcat
<1>6. /\ candidates \in Seq(Nat \X ToSet(Ports)) /\ IsInjective(candidates)
      /\ \A c \in ToSet(candidates) : /\ c[1] \in ToSet(seeds) \union ToSet(hosts)
                                      /\ kind = "wg" => c \notin Excluded
  <2>1. CASE kind = "wg"
    <3>1. candidates = WgCandidates(seeds \o hosts, st, Excluded)  BY <2>1, <1>3
    <3> QED  BY <3>1, <1>2, <1>5, WgCandidatesSound
  <2>2. CASE kind # "wg"
    <3>1. candidates = MasqueCandidates(seeds, hosts)  BY <2>2, <1>3
    <3> QED  BY <3>1, <2>2, <1>1, <1>2, MasqueCandidatesSound
  <2> QED  BY <2>1, <2>2
<1>7. CandidatesSound
  <2> SUFFICES ASSUME NEW c \in ToSet(candidates), c[1] \notin ToSet(seeds)
               PROVE  \E r \in ToSet(rs) :
                        /\ c[1] \in r.base .. (r.base + r.size - 1)
                        /\ NetworkBase(r) =>
                             /\ InRange(c[1], r)
                             /\ r.size > 2 => (c[1] % r.size) \notin {0, r.size - 1}
    BY <1>4, <1>6 DEF CandidatesSound
  <2>1. PICK r \in ToSet(rs) : HostOf(c[1], r)  BY <1>1, <1>6
  <2> QED  BY <2>1 DEF HostOf
<1>8. WavesRotatePorts
  <2> SUFFICES ASSUME kind = "wg", NEW c \in ToSet(candidates)
               PROVE  Cardinality({p \in ToSet(Ports) :
                                     <<c[1], p>> \in ToSet(candidates) \union Excluded})
                        >= IF st.waves < Len(Ports) THEN st.waves ELSE Len(Ports)
    BY <1>4 DEF WavesRotatePorts
  <2>1. candidates = WgCandidates(seeds \o hosts, st, Excluded)  BY <1>3
  <2>2. PICK i \in Nat : \A v \in 0 .. st.waves - 1 :
          /\ WavePort(i, v) \in ToSet(Ports)
          /\ <<c[1], WavePort(i, v)>> \in ToSet(candidates) \union Excluded
    BY <2>1, <1>2, <1>5, WgCandidatesSound
  <2>3. st.waves \in Nat  BY <1>2 DEF Strategy
  <2> DEFINE S == ToSet(candidates) \union Excluded
  <2> HIDE DEF S
  <2>4. \A v \in 0 .. st.waves - 1 : /\ WavePort(i, v) \in ToSet(Ports)
                                     /\ <<c[1], WavePort(i, v)>> \in S
    BY <2>2 DEF S
  <2>5. Cardinality({p \in ToSet(Ports) : <<c[1], p>> \in S})
                        >= IF st.waves < Len(Ports) THEN st.waves ELSE Len(Ports)
    BY <2>3, <2>4, WavesCounted
  <2> QED  BY <2>5 DEF S
<1>9. ScanLoop  BY <1>3, <1>4, <1>6 DEF ScanLoop
<1>10. ScanTypeOK
  <2>1. Cardinality({}) = 0  BY FS_EmptySet
  <2> QED  BY <1>2, <1>3, <1>4, <2>1 DEF ScanTypeOK
<1>11. FewerOnlyIfSpent /\ FastestFirst  BY <1>3 DEF FewerOnlyIfSpent, FastestFirst
<1> QED  BY <1>7, <1>8, <1>9, <1>10, <1>11 DEF ScanInv, ScanSound

\* The first of the answers that are handed on, and how many.
LEMMA TakeSound ==
  ASSUME NEW T, NEW s \in Seq(T), NEW n \in Nat
  PROVE  /\ Take(s, n) \in Seq(T)
         /\ Len(Take(s, n)) = IF n < Len(s) THEN n ELSE Len(s)
         /\ \A i \in 1 .. Len(Take(s, n)) : i \in 1 .. Len(s) /\ Take(s, n)[i] = s[i]
BY DEF Take

\* How a scan ends.
LEMMA FinishSound ==
  ASSUME NEW heard \in Seq(Answer), scan.want \in Nat \ {0}, Finish(heard)
  PROVE  /\ picked' \in Seq(Answer) /\ Len(picked') <= scan.want
         /\ Len(picked') < scan.want => Len(DistinctByIp(heard)) < scan.want
         /\ \/ scanAt' = "failed" /\ heard = <<>>
            \/ /\ scanAt' = "done"
               /\ \A k \in 1 .. Len(heard) : picked'[1].rtt <= heard[k].rtt
         /\ \A i, j \in 1 .. Len(picked') : i # j => picked'[i].ip # picked'[j].ip
<1> DEFINE D == DistinctByIp(heard)
<1>1. /\ D \in Seq(Answer) /\ Len(D) \in Nat
      /\ \A i, j \in 1 .. Len(D) : D[i].ip = D[j].ip => i = j
      /\ heard # <<>> => Len(D) > 0 /\ \A k \in 1 .. Len(heard) : D[1].rtt <= heard[k].rtt
  BY DistinctByIpSound
<1>2. picked' = Take(D, scan.want) /\ scanAt' = IF heard = <<>> THEN "failed" ELSE "done"
  BY DEF Finish
<1> HIDE DEF D
<1>3. /\ picked' \in Seq(Answer)
      /\ Len(picked') = IF scan.want < Len(D) THEN scan.want ELSE Len(D)
      /\ \A i \in 1 .. Len(picked') : i \in 1 .. Len(D) /\ picked'[i] = D[i]
  BY <1>1, <1>2, TakeSound
<1>4. /\ Len(picked') <= scan.want /\ Len(picked') \in Nat
      /\ Len(picked') < scan.want => Len(D) < scan.want
  BY <1>1, <1>3
<1>5. \A i, j \in 1 .. Len(picked') : i # j => picked'[i].ip # picked'[j].ip  BY <1>1, <1>3
<1>6. heard # <<>> => \A k \in 1 .. Len(heard) : picked'[1].rtt <= heard[k].rtt
  <2> SUFFICES ASSUME heard # <<>>
               PROVE  \A k \in 1 .. Len(heard) : picked'[1].rtt <= heard[k].rtt
    OBVIOUS
  <2>1. 1 \in 1 .. Len(picked')  BY <1>1, <1>3
  <2> QED  BY <2>1, <1>1, <1>3
<1> QED  BY <1>2, <1>3, <1>4, <1>5, <1>6 DEF D

\* Nothing is being probed once every candidate has been tried, and only then.
LEMMA ProbingOver ==
  ASSUME ScanInv, Probing = {}
  PROVE  Cardinality(tried) = Len(candidates)
<1> DEFINE L == Len(candidates)
           C == Cardinality(tried)
<1>1. L \in Nat /\ tried \in SUBSET (1 .. L)  BY DEF ScanInv, ScanSound, ScanTypeOK, ScanLoop
<1>2. IsFiniteSet(1 .. L) /\ Cardinality(1 .. L) = L  BY <1>1, FS_Interval
<1>3. IsFiniteSet(tried) /\ C \in Nat  BY <1>1, <1>2, FS_Subset, FS_CardinalityType
<1>4. tried = 1 .. L
  <2> DEFINE S == (1 .. L) \ tried
  <2> SUFFICES ASSUME S # {}  PROVE FALSE  BY <1>1
  <2>1. S \in SUBSET Nat  BY <1>1
  <2>2. PICK m \in S : \A n \in S : m <= n
    <3> HIDE DEF S
    <3> QED  BY <2>1, LeastNumber
  <2>3. 1 .. m - 1 \in SUBSET tried  BY <2>2, <1>1
  <2>4. Cardinality(1 .. m - 1) = m - 1  BY <2>2, <1>1, FS_Interval
  <2>5. m - 1 <= C  BY <2>3, <2>4, <1>3, FS_Subset
  <2>6. m <= C + Concurrency  BY <2>5, <1>3, <1>1, <2>2, ScanConstants
  <2> QED  BY <2>6, <2>2 DEF Probing
<1> QED  BY <1>2, <1>4

\* One more candidate has been tried.
LEMMA TriedGrows ==
  ASSUME ScanInv, NEW i \in Probing
  PROVE  /\ tried \union {i} \subseteq 1 .. Len(candidates)
         /\ Cardinality(tried) \in Nat
         /\ Cardinality(tried \union {i}) = Cardinality(tried) + 1
         /\ candidates[i] \in Nat \X ToSet(Ports)
<1>1. Len(candidates) \in Nat /\ tried \in SUBSET (1 .. Len(candidates))
      /\ candidates \in Seq(Nat \X ToSet(Ports))
  BY DEF ScanInv, ScanSound, ScanTypeOK, ScanLoop
<1>2. i \in 1 .. Len(candidates) /\ i \notin tried  BY DEF Probing
<1>3. IsFiniteSet(1 .. Len(candidates))  BY <1>1, FS_Interval
<1>4. IsFiniteSet(tried)  BY <1>1, <1>3, FS_Subset
<1>5. Cardinality(tried) \in Nat  BY <1>4, FS_CardinalityType
<1>6. Cardinality(tried \union {i}) = Cardinality(tried) + 1  BY <1>2, <1>4, FS_AddElement
<1>7. candidates[i] \in Nat \X ToSet(Ports)  BY <1>1, <1>2
<1> QED  BY <1>1, <1>2, <1>5, <1>6, <1>7

\* What no step of the loop changes.
LEMMA ListKept ==
  ASSUME CandidatesSound, WavesRotatePorts, UNCHANGED <<scan, candidates>>
  PROVE  CandidatesSound' /\ WavesRotatePorts'
BY DEF CandidatesSound, WavesRotatePorts

\* A scan that goes on.
LEMMA GoesOn ==
  ASSUME ScanInv, UNCHANGED <<scan, candidates, picked>>,
         scanAt' \in {"top", "select"}, quietUntil' \in {"none", "set", "passed"},
         deadline' \in {"set", "passed"}, tried' \subseteq 1 .. Len(candidates),
         Len(verified') <= Cardinality(tried'), verified' \in Seq(Answer),
         quietUntil' # "none" => scan.st.target > 0 /\ Len(verified') >= scan.st.target
  PROVE  ScanInv'
<1>1. CandidatesSound' /\ WavesRotatePorts'  BY ListKept DEF ScanInv, ScanSound
<1>2. FewerOnlyIfSpent' /\ FastestFirst'  BY DEF FewerOnlyIfSpent, FastestFirst
<1>3. ScanTypeOK'  BY DEF ScanInv, ScanSound, ScanTypeOK
<1>4. ScanLoop'  BY DEF ScanInv, ScanLoop
<1> QED  BY <1>1, <1>2, <1>3, <1>4 DEF ScanInv, ScanSound

\* A scan that ends with what it has heard.
LEMMA EndsWith ==
  ASSUME ScanInv, UNCHANGED <<scan, candidates, quietUntil, deadline>>,
         tried' \subseteq 1 .. Len(candidates), Len(verified') <= Cardinality(tried'),
         verified' \in Seq(Answer), Len(verified') >= Len(verified), Finish(verified'),
         \/ Len(DistinctByIp(verified')) >= scan.want
         \/ Cardinality(tried') = Len(candidates)
         \/ deadline = "passed"
         \/ scan.st.target > 0 /\ Len(verified') >= scan.st.target
  PROVE  ScanInv'
<1>0. scan.want \in Nat \ {0} /\ scan.st.target \in Nat
      /\ Len(verified) \in Nat /\ Len(verified') \in Nat
  BY DEF ScanInv, ScanLoop, Asked, Strategy
<1> DEFINE heard == verified'
<1>1. /\ picked' \in Seq(Answer) /\ Len(picked') <= scan.want
      /\ Len(picked') < scan.want => Len(DistinctByIp(heard)) < scan.want
      /\ \/ scanAt' = "failed" /\ heard = <<>>
         \/ /\ scanAt' = "done"
            /\ \A k \in 1 .. Len(heard) : picked'[1].rtt <= heard[k].rtt
      /\ \A i, j \in 1 .. Len(picked') : i # j => picked'[i].ip # picked'[j].ip
  BY <1>0, FinishSound
<1>2. CandidatesSound' /\ WavesRotatePorts'  BY ListKept DEF ScanInv, ScanSound
<1>3. FewerOnlyIfSpent'
  <2>1. Len(DistinctByIp(heard)) \in Nat  BY DistinctByIpSound
  <2> QED  BY <1>0, <1>1, <2>1 DEF FewerOnlyIfSpent
<1>4. FastestFirst'
  <2>1. ToSet(heard) = {heard[k] : k \in 1 .. Len(heard)}  BY DEF ToSet
  <2>2. scanAt' = "done" => \A v \in ToSet(heard) : picked'[1].rtt <= v.rtt
    BY <2>1, <1>1
  <2> QED  BY <2>2, <1>1 DEF FastestFirst
<1>5. ScanTypeOK'  BY <1>1 DEF ScanInv, ScanSound, ScanTypeOK
<1>6. ScanLoop'  BY <1>0, <1>1 DEF ScanInv, ScanLoop
<1> QED  BY <1>2, <1>3, <1>4, <1>5, <1>6 DEF ScanInv, ScanSound

\* ScanInv is inductive.
LEMMA ScanStep ==
  ASSUME ScanInv, [ScanNext]_scanVars
  PROVE  ScanInv'
<1>0. /\ ScanTypeOK /\ ScanLoop /\ Len(verified) \in Nat /\ verified \in Seq(Answer)
      /\ scan.want \in Nat \ {0} /\ scan.st.target \in Nat /\ scan.st.early \in BOOLEAN
  BY DEF ScanInv, ScanSound, ScanLoop, Asked, Strategy
<1>1. CASE TimeUp
  <2>1. Finish(verified') /\ UNCHANGED <<scan, candidates, tried, verified, quietUntil, deadline>>
    BY <1>1 DEF TimeUp, Finish
  <2>2. deadline = "passed" \/ (scan.st.target > 0 /\ Len(verified') >= scan.st.target)
    BY <1>0, <1>1, <2>1 DEF TimeUp, ScanLoop
  <2> QED  BY <1>0, <2>1, <2>2, EndsWith DEF ScanTypeOK
<1>2. CASE EnterSelect
  <2>1. scanAt' = "select" /\ UNCHANGED <<scan, candidates, tried, verified, quietUntil, deadline, picked>>
    BY <1>2 DEF EnterSelect
  <2> QED  BY <1>0, <2>1, GoesOn DEF ScanTypeOK, ScanLoop
<1>3. CASE ListOver
  <2>1. Finish(verified') /\ UNCHANGED <<scan, candidates, tried, verified, quietUntil, deadline>>
    BY <1>3 DEF ListOver, Finish
  <2>2. Cardinality(tried') = Len(candidates)  BY <1>3, <2>1, ProbingOver DEF ListOver
  <2> QED  BY <1>0, <2>1, <2>2, EndsWith DEF ScanTypeOK
<1>4. CASE ProbeFails
  <2>1. PICK i \in Probing : tried' = tried \union {i}  BY <1>4 DEF ProbeFails
  <2>2. scanAt' = "top" /\ UNCHANGED <<scan, candidates, verified, quietUntil, deadline, picked>>
    BY <1>4 DEF ProbeFails
  <2>3. tried' \subseteq 1 .. Len(candidates) /\ Len(verified') <= Cardinality(tried')
    BY <1>0, <2>1, <2>2, TriedGrows DEF ScanTypeOK
  <2> QED  BY <1>0, <2>2, <2>3, GoesOn DEF ScanTypeOK, ScanLoop
<1>5. CASE ProbeAnswers
  <2> DEFINE pr(i, rtt) == [ip |-> candidates[i][1], port |-> candidates[i][2], rtt |-> rtt]
  <2>1. PICK i \in Probing, rtt \in Rtts :
          /\ tried' = tried \union {i} /\ verified' = Append(verified, pr(i, rtt))
          /\ \/ /\ scan.st.early /\ scanAt' = "done" /\ picked' = <<pr(i, rtt)>>
                /\ UNCHANGED quietUntil
             \/ /\ EnoughSeparate(verified') \/ TargetMet(verified')
                /\ Finish(verified') /\ UNCHANGED quietUntil
             \/ /\ quietUntil' = IF TargetMet(verified') THEN "set" ELSE quietUntil
                /\ scanAt' = "top" /\ UNCHANGED picked
    BY <1>5 DEF ProbeAnswers, EnoughSeparate, TargetMet, Finish
  <2>2. UNCHANGED <<scan, candidates, deadline>>  BY <1>5 DEF ProbeAnswers
  <2>3. pr(i, rtt) \in Answer  BY TriedGrows DEF Answer
  <2>4. /\ verified' \in Seq(Answer) /\ Len(verified') = Len(verified) + 1
        /\ tried' \subseteq 1 .. Len(candidates) /\ Len(verified') <= Cardinality(tried')
    <3> HIDE DEF pr
    <3> QED  BY <1>0, <2>1, <2>3, TriedGrows DEF ScanTypeOK
  <2>5. CASE scan.st.early /\ scanAt' = "done" /\ picked' = <<pr(i, rtt)>> /\ UNCHANGED quietUntil
    <3>1. picked' \in Seq(Answer) /\ Len(picked') = 1 /\ scan.want = 1
      <4> HIDE DEF pr
      <4> QED  BY <1>0, <2>3, <2>5 DEF ScanLoop
    <3>2. CandidatesSound' /\ WavesRotatePorts'  BY <2>2, ListKept DEF ScanInv, ScanSound
    <3>3. FewerOnlyIfSpent' /\ FastestFirst'
      BY <2>2, <2>5, <3>1 DEF FewerOnlyIfSpent, FastestFirst
    <3>4. ScanTypeOK'  BY <1>0, <2>2, <2>4, <2>5, <3>1 DEF ScanTypeOK
    <3>5. ScanLoop'  BY <1>0, <2>2, <2>4, <2>5, <3>1 DEF ScanLoop
    <3> QED  BY <3>2, <3>3, <3>4, <3>5 DEF ScanInv, ScanSound
  <2>6. CASE /\ EnoughSeparate(verified') \/ TargetMet(verified')
             /\ Finish(verified') /\ UNCHANGED quietUntil
    <3>1. \/ Len(DistinctByIp(verified')) >= scan.want
          \/ scan.st.target > 0 /\ Len(verified') >= scan.st.target
      BY <2>6 DEF EnoughSeparate, TargetMet
    <3>2. Len(verified') >= Len(verified)  BY <1>0, <2>4
    <3> HIDE DEF pr
    <3> QED  BY <2>2, <2>4, <2>6, <3>1, <3>2, EndsWith
  <2>7. CASE /\ quietUntil' = IF TargetMet(verified') THEN "set" ELSE quietUntil
             /\ scanAt' = "top" /\ UNCHANGED picked
    <3>1. quietUntil' # "none" => scan.st.target > 0 /\ Len(verified') >= scan.st.target
      BY <1>0, <2>4, <2>7 DEF TargetMet, ScanLoop
    <3>2. quietUntil' \in {"none", "set", "passed"} /\ deadline' \in {"set", "passed"}
      BY <1>0, <2>2, <2>7 DEF ScanTypeOK
    <3> HIDE DEF pr
    <3> QED  BY <2>2, <2>4, <2>7, <3>1, <3>2, GoesOn
  <2> QED  BY <2>1, <2>5, <2>6, <2>7
<1>6. CASE QuietPasses
  <2>1. /\ quietUntil = "set" /\ quietUntil' = "passed" /\ scanAt \in {"top", "select"}
        /\ UNCHANGED <<scan, candidates, tried, verified, scanAt, deadline, picked>>
    BY <1>6 DEF QuietPasses, Scanning
  <2> QED  BY <1>0, <2>1, GoesOn DEF ScanTypeOK, ScanLoop
<1>7. CASE DeadlinePasses
  <2>1. /\ deadline' = "passed" /\ scanAt \in {"top", "select"}
        /\ UNCHANGED <<scan, candidates, tried, verified, scanAt, quietUntil, picked>>
    BY <1>7 DEF DeadlinePasses, Scanning
  <2> QED  BY <1>0, <2>1, GoesOn DEF ScanTypeOK, ScanLoop
<1>8. CASE UNCHANGED scanVars
  BY <1>8 DEF scanVars, ScanInv, ScanSound, ScanTypeOK, CandidatesSound, WavesRotatePorts,
              FewerOnlyIfSpent, FastestFirst, ScanLoop
<1> QED  BY <1>1, <1>2, <1>3, <1>4, <1>5, <1>6, <1>7, <1>8 DEF ScanNext

\* What a scan tries and hands on, for any ranges, seeds, ports, strategies and
\* any number of probes at a time: no endpoint twice and none excluded, only hosts
\* of the ranges asked for, every address on as many ports as there are waves,
\* fewer endpoints than wanted only when list, time or answers are used up, and
\* the fastest answers on different addresses (build_wg_candidates,
\* build_candidates, hunt_wg_endpoints, hunt_best_gateway).
THEOREM ScanSoundAlways == ScanSpec => []ScanSound
<1>1. ScanInit => ScanInv  BY ScanStartSound DEF ScanInit
<1>2. ScanInv /\ [ScanNext]_scanVars => ScanInv'  BY ScanStep
<1>3. ScanInv => ScanSound  BY DEF ScanInv
<1> QED  BY <1>1, <1>2, <1>3, PTL DEF ScanSpec
=============================================================================
