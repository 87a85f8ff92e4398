-------------------------- MODULE VpnServiceProofs --------------------------
(***************************************************************************)
(* Theorems about VpnService, for every number of connects, stops and      *)
(* processes, every set of profiles and every choice of failure switches:  *)
(* type correctness, the hand-over between sessions, that they do not wait *)
(* in a circle; and, until a second connect or a stop by the user, the     *)
(* ownership of the engines and the lockdown of the supervisor.            *)
(***************************************************************************)
EXTENDS VpnService, WellFoundedInduction, TLAPS

USE ConstantsOK
    DEF ConstantsOK, Sessions, Stops, Pids, ui, os, fields, handoff, progress,
        stopping, sessionRest, stopRest, processRest

\* A session that has not been launched has not moved.
Unborn ==
  \A s \in Sessions : s > connects =>
    pc[s] = "unborn" /\ rung[s] = 0 /\ attempt[s] = 0

TypeInv == TypeOK /\ Unborn

-----------------------------------------------------------------------------
(* Lemmas on the operators the actions share. *)

\* The counters of a profile are positive naturals.
LEMMA ProfileNat ==
  ASSUME TypeHandoff
  PROVE  \A s \in Sessions : /\ profile[s].rungs \in Nat \ {0}
                             /\ profile[s].retries \in Nat \ {0}
  BY DEF TypeHandoff, Profile

\* stopEverything and enterLockdown keep jobs and joins within what exists.
LEMMA LaunchStopType ==
  ASSUME TypeStops, TypeHandles, TypePlace, TypeHandoff,
         UNCHANGED <<connects, engine, psiphonEngine, probeFailures>>,
         NEW what \in {"stop", "lockdown"}, LaunchStop(what)
  PROVE  TypeStops' /\ TypeHandles' /\ cancelled' \in [Sessions -> BOOLEAN]
<1>1. stops + 1 \in Stops /\ runJob \in 0 .. MaxConnects
  BY DEF LaunchStop, TypeStops, TypeHandles, TypeHandoff
<1>2. TypeStops'
  BY <1>1 DEF LaunchStop, TypeStops, StopPCs
<1>3. TypeHandles'
  BY DEF LaunchStop, TypeHandles, TypeStops, TypeHandoff
<1>4. cancelled' \in [Sessions -> BOOLEAN]
  BY DEF LaunchStop, TypePlace
<1> QED  BY <1>2, <1>3, <1>4

-----------------------------------------------------------------------------
(* Type correctness: the initial states, then one lemma per action. *)

\* Every field starts with a value of its type.
LEMMA InitType == Init => TypeInv
<1> SUFFICES ASSUME Init PROVE TypeInv  OBVIOUS
<1> USE DEF Init
<1>1. TypeUI  BY DEF TypeUI, States
<1>2. TypeOS  BY DEF TypeOS, Status
<1>3. TypeHandles  BY DEF TypeHandles
<1>4. TypeFlags  BY DEF TypeFlags
<1>5. TypeHandoff  BY DEF TypeHandoff, DefaultProfile, Profile
<1>6. TypePlace  BY DEF TypePlace, PCs, Returns
<1>7. TypeProgress  BY DEF TypeProgress, DefaultProfile
<1>8. TypeStops  BY DEF TypeStops, StopPCs
<1>9. Unborn  BY DEF Unborn
<1> QED
  BY <1>1, <1>2, <1>3, <1>4, <1>5, <1>6, <1>7, <1>8, <1>9 DEF TypeInv, TypeOK

\* Begin keeps every field in its type.
LEMMA BeginType ==
  ASSUME TypeInv, NEW s \in Sessions, Begin(s)
  PROVE  TypeInv'
<1> USE DEF TypeInv, TypeOK
<1>1. TypePlace'
  BY ZenonT(60) DEF Begin, Goto, TypePlace, PCs, TakeOver, Ladder,
     Supervising, Returns
<1>2. Unborn'
  BY DEF Begin, Goto, Unborn, TypePlace, TypeHandoff, TypeProgress
<1> QED
  BY ZenonT(60), <1>1, <1>2 DEF Begin, TypeUI, TypeOS, TypeHandles, TypeFlags,
     TypeHandoff, TypeProgress, TypeStops

\* Clean keeps every field in its type.
LEMMA CleanType ==
  ASSUME TypeInv, NEW s \in Sessions, Clean(s)
  PROVE  TypeInv'
<1> USE DEF TypeInv, TypeOK
<1>1. TypeOS'
  BY DEF Clean, CleanForwarder, CleanEngine, CleanTun, TypeOS, Status, Killed
<1>2. TypeHandles'
  BY DEF Clean, CleanForwarder, CleanEngine, CleanTun, TypeHandles
<1>3. TypeFlags'
  BY DEF Clean, CleanForwarder, CleanEngine, CleanTun, TypeFlags
<1>4. TypePlace'
  BY DEF Clean, Goto, TypePlace, PCs, TakeOver, Ladder, Supervising, Returns
<1>5. Unborn'
  BY DEF Clean, Goto, Unborn, TypePlace, TypeHandoff, TypeProgress
<1> QED
  BY <1>1, <1>2, <1>3, <1>4, <1>5 DEF Clean, TypeUI, TypeHandoff,
     TypeProgress, TypeStops

\* JoinRun keeps every field in its type.
LEMMA JoinRunType ==
  ASSUME TypeInv, NEW s \in Sessions, JoinRun(s)
  PROVE  TypeInv'
<1> USE DEF TypeInv, TypeOK
<1>1. TypePlace'
  BY DEF JoinRun, Goto, TypePlace, PCs, TakeOver, Ladder, Supervising, Returns
<1>2. Unborn'
  BY DEF JoinRun, Goto, Unborn, TypePlace, TypeHandoff, TypeProgress
<1> QED
  BY ZenonT(60), <1>1, <1>2 DEF JoinRun, TypeUI, TypeOS, TypeHandles,
     TypeFlags,
     TypeHandoff, TypeProgress, TypeStops

\* JoinStop keeps every field in its type.
LEMMA JoinStopType ==
  ASSUME TypeInv, NEW s \in Sessions, JoinStop(s)
  PROVE  TypeInv'
<1> USE DEF TypeInv, TypeOK
<1>1. TypePlace'
  BY DEF JoinStop, Goto, TypePlace, PCs, TakeOver, Ladder, Supervising,
         Returns
<1>2. Unborn'
  BY DEF JoinStop, Goto, Unborn, TypePlace, TypeHandoff, TypeProgress
<1> QED
  BY ZenonT(60), <1>1, <1>2 DEF JoinStop, TypeUI, TypeOS, TypeHandles,
     TypeFlags,
     TypeHandoff, TypeProgress, TypeStops

\* Plan keeps every field in its type.
LEMMA PlanType ==
  ASSUME TypeInv, NEW s \in Sessions, Plan(s)
  PROVE  TypeInv'
<1> USE DEF TypeInv, TypeOK
<1>1. TypeUI'
  BY DEF Plan, SetState, TypeUI, States
<1>2. TypePlace'
  BY DEF Plan, Goto, TypePlace, PCs, TakeOver, Ladder, Supervising, Returns
<1>3. TypeProgress'
  <2>1. /\ rung' = [rung EXCEPT ![s] = 1] \/ UNCHANGED rung
        /\ UNCHANGED <<profile, attempt>>
    BY DEF Plan
  <2> QED  BY SMTT(30), <2>1, ProfileNat DEF TypeProgress
<1>4. Unborn'
  BY DEF Plan, Goto, Unborn, TypePlace, TypeHandoff, TypeProgress
<1> QED
  BY <1>1, <1>2, <1>3, <1>4 DEF Plan, TypeOS, TypeHandles, TypeFlags,
     TypeHandoff, TypeStops

\* Attempt keeps every field in its type.
LEMMA AttemptType ==
  ASSUME TypeInv, NEW s \in Sessions, Attempt(s)
  PROVE  TypeInv'
<1> USE DEF TypeInv, TypeOK
<1>1. TypeUI'
  BY DEF Attempt, SetState, TypeUI, States
<1>2. TypeFlags'
  BY DEF Attempt, TypeFlags
<1>3. TypePlace'
  BY DEF Attempt, Goto, TypePlace, PCs, TakeOver, Ladder, Supervising, Returns
<1>4. Unborn'
  BY DEF Attempt, Goto, Unborn, TypePlace, TypeHandoff, TypeProgress
<1> QED
  BY <1>1, <1>2, <1>3, <1>4 DEF Attempt, TypeOS, TypeHandles, TypeHandoff,
     TypeProgress, TypeStops

\* AwaitClosed keeps every field in its type.
LEMMA AwaitClosedType ==
  ASSUME TypeInv, NEW s \in Sessions, AwaitClosed(s)
  PROVE  TypeInv'
<1> USE DEF TypeInv, TypeOK
<1>1. TypePlace'
  BY DEF AwaitClosed, Goto, TypePlace, PCs, TakeOver, Ladder, Supervising,
         Returns
<1>2. Unborn'
  BY DEF AwaitClosed, Goto, Unborn, TypePlace, TypeHandoff, TypeProgress
<1> QED
  BY ZenonT(60), <1>1, <1>2 DEF AwaitClosed, TypeUI, TypeOS, TypeHandles,
     TypeFlags,
     TypeHandoff, TypeProgress, TypeStops

\* Launch keeps every field in its type.
LEMMA LaunchType ==
  ASSUME TypeInv, NEW s \in Sessions, Launch(s)
  PROVE  TypeInv'
<1> USE DEF TypeInv, TypeOK
<1>1. TypeUI'
  BY DEF Launch, SetState, TypeUI, States
<1>2. TypeOS'
  BY DEF Launch, SpawnEngine, TypeOS, Status
<1>3. TypeHandles'
  BY DEF Launch, SpawnEngine, TypeHandles
<1>4. TypePlace'
  BY DEF Launch, Goto, RungFails, TypePlace, PCs, TakeOver, Ladder,
         Supervising, Returns
<1>5. Unborn'
  BY DEF Launch, Goto, RungFails, Unborn, TypePlace, TypeHandoff, TypeProgress
<1> QED
  BY <1>1, <1>2, <1>3, <1>4, <1>5 DEF Launch, TypeFlags, TypeHandoff,
     TypeProgress, TypeStops

\* AwaitOpen keeps every field in its type.
LEMMA AwaitOpenType ==
  ASSUME TypeInv, NEW s \in Sessions, AwaitOpen(s)
  PROVE  TypeInv'
<1> USE DEF TypeInv, TypeOK
<1>1. TypePlace'
  BY DEF AwaitOpen, Goto, RungFails, TypePlace, PCs, TakeOver, Ladder,
         Supervising, Returns
<1>2. Unborn'
  BY DEF AwaitOpen, Goto, RungFails, Unborn, TypePlace, TypeHandoff,
         TypeProgress
<1> QED
  BY ZenonT(60), <1>1, <1>2 DEF AwaitOpen, TypeUI, TypeOS, TypeHandles,
     TypeFlags,
     TypeHandoff, TypeProgress, TypeStops

\* LaunchPsiphon keeps every field in its type.
LEMMA LaunchPsiphonType ==
  ASSUME TypeInv, NEW s \in Sessions, LaunchPsiphon(s)
  PROVE  TypeInv'
<1> USE DEF TypeInv, TypeOK
<1>1. TypeOS'
  BY DEF LaunchPsiphon, SpawnPsiphon, TypeOS, Status
<1>2. TypeHandles'
  BY DEF LaunchPsiphon, SpawnPsiphon, TypeHandles
<1>3. TypePlace'
  BY DEF LaunchPsiphon, Goto, RungFails, TypePlace, PCs, TakeOver, Ladder,
         Supervising, Returns
<1>4. Unborn'
  BY DEF LaunchPsiphon, Goto, RungFails, Unborn, TypePlace, TypeHandoff,
         TypeProgress
<1> QED
  BY <1>1, <1>2, <1>3, <1>4 DEF LaunchPsiphon, TypeUI, TypeFlags, TypeHandoff,
     TypeProgress, TypeStops

\* AwaitPsiphon keeps every field in its type.
LEMMA AwaitPsiphonType ==
  ASSUME TypeInv, NEW s \in Sessions, AwaitPsiphon(s)
  PROVE  TypeInv'
<1> USE DEF TypeInv, TypeOK
<1>1. TypePlace'
  BY DEF AwaitPsiphon, Goto, RungFails, TypePlace, PCs, TakeOver, Ladder,
         Supervising, Returns
<1>2. Unborn'
  BY DEF AwaitPsiphon, Goto, RungFails, Unborn, TypePlace, TypeHandoff,
         TypeProgress
<1> QED
  BY ZenonT(60), <1>1, <1>2 DEF AwaitPsiphon, TypeUI, TypeOS, TypeHandles,
     TypeFlags,
     TypeHandoff, TypeProgress, TypeStops

\* BringUp keeps every field in its type.
LEMMA BringUpType ==
  ASSUME TypeInv, NEW s \in Sessions, BringUp(s)
  PROVE  TypeInv'
<1> USE DEF TypeInv, TypeOK
<1>1. TypeUI'
  BY DEF BringUp, SetState, TypeUI, States
<1>2. TypeOS'
  BY DEF BringUp, TypeOS, Status
<1>3. TypeFlags'
  BY DEF BringUp, TypeFlags
<1>4. TypePlace'
  BY DEF BringUp, Goto, RungFails, TypePlace, PCs, TakeOver, Ladder,
         Supervising, Returns
<1>5. Unborn'
  BY DEF BringUp, Goto, RungFails, Unborn, TypePlace, TypeHandoff,
         TypeProgress
<1> QED
  BY <1>1, <1>2, <1>3, <1>4, <1>5 DEF BringUp, TypeHandles, TypeHandoff,
     TypeProgress, TypeStops

\* SelfTest keeps every field in its type.
LEMMA SelfTestType ==
  ASSUME TypeInv, NEW s \in Sessions, SelfTest(s)
  PROVE  TypeInv'
<1> USE DEF TypeInv, TypeOK
<1>1. TypePlace'
  BY DEF SelfTest, Goto, RungFails, TypePlace, PCs, TakeOver, Ladder,
         Supervising, Returns
<1>2. Unborn'
  BY DEF SelfTest, Goto, RungFails, Unborn, TypePlace, TypeHandoff,
         TypeProgress
<1> QED
  BY ZenonT(60), <1>1, <1>2 DEF SelfTest, TypeUI, TypeOS, TypeHandles,
     TypeFlags,
     TypeHandoff, TypeProgress, TypeStops

\* NextRung keeps every field in its type.
LEMMA NextRungType ==
  ASSUME TypeInv, NEW s \in Sessions, NextRung(s)
  PROVE  TypeInv'
<1> USE DEF TypeInv, TypeOK
<1>1. TypeUI'
  BY DEF NextRung, SetState, FlowFails, TypeUI, States
<1>2. TypePlace'
  BY DEF NextRung, Goto, FlowFails, TypePlace, PCs, TakeOver, Ladder,
         Supervising, Returns
<1>3. TypeProgress'
  <2>1. UNCHANGED <<profile, attempt>>  BY DEF NextRung
  <2>2. CASE rung[s] < profile[s].rungs
    <3>1. rung' = [rung EXCEPT ![s] = rung[s] + 1]  BY <2>2 DEF NextRung
    <3>2. rung[s] + 1 \in Nat /\ rung[s] + 1 <= profile[s].rungs
      BY <2>2, ProfileNat DEF TypeProgress
    <3> QED  BY <2>1, <3>1, <3>2 DEF TypeProgress
  <2>3. CASE ~(rung[s] < profile[s].rungs)
    BY <2>1, <2>3 DEF NextRung, TypeProgress
  <2> QED  BY <2>2, <2>3
<1>4. Unborn'
  BY DEF NextRung, Goto, FlowFails, Unborn, TypePlace, TypeHandoff,
         TypeProgress
<1> QED
  BY <1>1, <1>2, <1>3, <1>4 DEF NextRung, TypeOS, TypeHandles, TypeFlags,
     TypeHandoff, TypeStops

\* Report keeps every field in its type.
LEMMA ReportType ==
  ASSUME TypeInv, NEW s \in Sessions, Report(s)
  PROVE  TypeInv'
<1> USE DEF TypeInv, TypeOK
<1>1. TypeUI'
  BY DEF Report, SetState, TypeUI, States
<1>2. TypePlace'
  BY DEF Report, Goto, TypePlace, PCs, TakeOver, Ladder, Supervising, Returns
<1>3. TypeProgress'
  BY ProfileNat DEF Report, TypeProgress
<1>4. Unborn'
  BY DEF Report, Goto, Unborn, TypePlace, TypeHandoff, TypeProgress
<1> QED
  BY <1>1, <1>2, <1>3, <1>4 DEF Report, TypeOS, TypeHandles, TypeFlags,
     TypeHandoff, TypeStops

\* SuperviseAlive keeps every field in its type.
LEMMA SuperviseAliveType ==
  ASSUME TypeInv, NEW s \in Sessions, SuperviseAlive(s)
  PROVE  TypeInv'
<1> USE DEF TypeInv, TypeOK
<1>1. TypePlace'
  BY DEF SuperviseAlive, Goto, TypePlace, PCs, TakeOver, Ladder, Supervising,
         Returns
<1>2. TypeProgress'
  BY SMTT(60) DEF SuperviseAlive, TypeProgress, Profile, TypeHandoff
<1>3. Unborn'
  BY DEF SuperviseAlive, Goto, Unborn, TypePlace, TypeHandoff, TypeProgress
<1> QED
  BY ZenonT(60), <1>1, <1>2, <1>3 DEF SuperviseAlive, TypeUI, TypeOS,
     TypeHandles,
     TypeFlags, TypeHandoff, TypeStops

\* SuperviseEnds keeps every field in its type.
LEMMA SuperviseEndsType ==
  ASSUME TypeInv, NEW s \in Sessions, SuperviseEnds(s)
  PROVE  TypeInv'
<1> USE DEF TypeInv, TypeOK
<1>1. TypePlace'
  BY DEF SuperviseEnds, Goto, TypePlace, PCs, TakeOver, Ladder, Supervising,
         Returns
<1>2. Unborn'
  BY DEF SuperviseEnds, Goto, Unborn, TypePlace, TypeHandoff, TypeProgress
<1> QED
  BY ZenonT(60), <1>1, <1>2 DEF SuperviseEnds, TypeUI, TypeOS, TypeHandles,
     TypeFlags,
     TypeHandoff, TypeProgress, TypeStops

\* SuperviseGivesUp keeps every field in its type.
LEMMA SuperviseGivesUpType ==
  ASSUME TypeInv, NEW s \in Sessions, SuperviseGivesUp(s)
  PROVE  TypeInv'
<1> USE DEF TypeInv, TypeOK
<1>1. TypeUI'
  BY DEF SuperviseGivesUp, SetState, FlowFails, TypeUI, States
<1>2. TypeHandles'
  BY LaunchStopType DEF SuperviseGivesUp, TypeHandles
<1>3. TypePlace'
  <2>1. pc' \in [Sessions -> PCs]
    BY DEF SuperviseGivesUp, Goto, FlowFails, TypePlace, PCs, TakeOver
  <2>2. after' \in [Sessions -> Returns]
    BY DEF SuperviseGivesUp, FlowFails, TypePlace, Returns
  <2>3. cancelled' \in [Sessions -> BOOLEAN]
    BY LaunchStopType DEF SuperviseGivesUp, TypePlace
  <2> QED  BY <2>1, <2>2, <2>3 DEF TypePlace
<1>4. TypeStops'
  BY LaunchStopType DEF SuperviseGivesUp, TypeStops
<1>5. Unborn'
  BY DEF SuperviseGivesUp, Goto, FlowFails, Unborn, TypePlace, TypeHandoff,
         TypeProgress
<1> QED
  BY <1>1, <1>2, <1>3, <1>4, <1>5 DEF SuperviseGivesUp, TypeOS, TypeFlags,
     TypeHandoff, TypeProgress

\* SuperviseRetries keeps every field in its type.
LEMMA SuperviseRetriesType ==
  ASSUME TypeInv, NEW s \in Sessions, SuperviseRetries(s)
  PROVE  TypeInv'
<1> USE DEF TypeInv, TypeOK
<1>1. TypeUI'
  BY DEF SuperviseRetries, SetState, TypeUI, States
<1>2. TypePlace'
  BY DEF SuperviseRetries, Goto, TypePlace, PCs, TakeOver, Ladder,
         Supervising, Returns
<1>3. TypeProgress'
  BY SMTT(30), ProfileNat DEF SuperviseRetries, TypeProgress
<1>4. Unborn'
  BY DEF SuperviseRetries, Goto, Unborn, TypePlace, TypeHandoff, TypeProgress
<1> QED
  BY <1>1, <1>2, <1>3, <1>4 DEF SuperviseRetries, TypeOS, TypeHandles,
     TypeFlags, TypeHandoff, TypeStops

\* WatchProbe keeps every field in its type.
LEMMA WatchProbeType ==
  ASSUME TypeInv, NEW s \in Sessions, WatchProbe(s)
  PROVE  TypeInv'
<1> USE DEF TypeInv, TypeOK
<1>1. TypeOS'
  BY DEF WatchProbe, StopBoth, TypeOS, Status, Killed
<1>2. TypeHandles'
  BY DEF WatchProbe, StopBoth, TypeHandles
<1>3. TypePlace'
  BY DEF WatchProbe, Goto, TypePlace, PCs, TakeOver, Ladder, Supervising,
         Returns
<1>4. Unborn'
  BY DEF WatchProbe, Goto, Unborn, TypePlace, TypeHandoff, TypeProgress
<1> QED
  BY <1>1, <1>2, <1>3, <1>4 DEF WatchProbe, TypeUI, TypeFlags, TypeHandoff,
     TypeProgress, TypeStops

\* WatchExit keeps every field in its type.
LEMMA WatchExitType ==
  ASSUME TypeInv, NEW s \in Sessions, WatchExit(s)
  PROVE  TypeInv'
<1> USE DEF TypeInv, TypeOK
<1>1. TypePlace'
  BY DEF WatchExit, Goto, TypePlace, PCs, TakeOver, Ladder, Supervising,
         Returns
<1>2. Unborn'
  BY DEF WatchExit, Goto, Unborn, TypePlace, TypeHandoff, TypeProgress
<1> QED
  BY ZenonT(60), <1>1, <1>2 DEF WatchExit, TypeUI, TypeOS, TypeHandles,
     TypeFlags,
     TypeHandoff, TypeProgress, TypeStops

\* Backoff keeps every field in its type.
LEMMA BackoffType ==
  ASSUME TypeInv, NEW s \in Sessions, Backoff(s)
  PROVE  TypeInv'
<1> USE DEF TypeInv, TypeOK
<1>1. TypePlace'
  BY DEF Backoff, Goto, TypePlace, PCs, TakeOver, Ladder, Supervising, Returns
<1>2. Unborn'
  BY DEF Backoff, Goto, Unborn, TypePlace, TypeHandoff, TypeProgress
<1> QED
  BY ZenonT(60), <1>1, <1>2 DEF Backoff, TypeUI, TypeOS, TypeHandles,
     TypeFlags,
     TypeHandoff, TypeProgress, TypeStops

\* Restop keeps every field in its type.
LEMMA RestopType ==
  ASSUME TypeInv, NEW s \in Sessions, Restop(s)
  PROVE  TypeInv'
<1> USE DEF TypeInv, TypeOK
<1>1. TypeOS'
  BY DEF Restop, StopBoth, TypeOS, Status, Killed
<1>2. TypeHandles'
  BY DEF Restop, StopBoth, TypeHandles
<1>3. TypePlace'
  BY DEF Restop, Goto, TypePlace, PCs, TakeOver, Ladder, Supervising, Returns
<1>4. Unborn'
  BY DEF Restop, Goto, Unborn, TypePlace, TypeHandoff, TypeProgress
<1> QED
  BY <1>1, <1>2, <1>3, <1>4 DEF Restop, TypeUI, TypeFlags, TypeHandoff,
     TypeProgress, TypeStops

\* Relaunch keeps every field in its type.
LEMMA RelaunchType ==
  ASSUME TypeInv, NEW s \in Sessions, Relaunch(s)
  PROVE  TypeInv'
<1> USE DEF TypeInv, TypeOK
<1>1. TypeUI'
  BY DEF Relaunch, SetState, FlowFails, TypeUI, States
<1>2. TypeOS'
  BY DEF Relaunch, SpawnEngine, TypeOS, Status
<1>3. TypeHandles'
  BY DEF Relaunch, SpawnEngine, TypeHandles
<1>4. TypePlace'
  BY DEF Relaunch, Goto, FlowFails, TypePlace, PCs, TakeOver, Ladder,
         Supervising, Returns
<1>5. Unborn'
  BY DEF Relaunch, Goto, FlowFails, Unborn, TypePlace, TypeHandoff,
         TypeProgress
<1> QED
  BY <1>1, <1>2, <1>3, <1>4, <1>5 DEF Relaunch, TypeFlags, TypeHandoff,
     TypeProgress, TypeStops

\* Reopen keeps every field in its type.
LEMMA ReopenType ==
  ASSUME TypeInv, NEW s \in Sessions, Reopen(s)
  PROVE  TypeInv'
<1> USE DEF TypeInv, TypeOK
<1>1. TypePlace'
  BY DEF Reopen, Goto, TypePlace, PCs, TakeOver, Ladder, Supervising, Returns
<1>2. Unborn'
  BY DEF Reopen, Goto, Unborn, TypePlace, TypeHandoff, TypeProgress
<1> QED
  BY ZenonT(60), <1>1, <1>2 DEF Reopen, TypeUI, TypeOS, TypeHandles, TypeFlags,
     TypeHandoff, TypeProgress, TypeStops

\* RelaunchPsiphon keeps every field in its type.
LEMMA RelaunchPsiphonType ==
  ASSUME TypeInv, NEW s \in Sessions, RelaunchPsiphon(s)
  PROVE  TypeInv'
<1> USE DEF TypeInv, TypeOK
<1>1. TypeUI'
  BY DEF RelaunchPsiphon, SetState, FlowFails, TypeUI, States
<1>2. TypeOS'
  BY DEF RelaunchPsiphon, SpawnPsiphon, TypeOS, Status
<1>3. TypeHandles'
  BY DEF RelaunchPsiphon, SpawnPsiphon, TypeHandles
<1>4. TypePlace'
  BY DEF RelaunchPsiphon, Goto, FlowFails, TypePlace, PCs, TakeOver, Ladder,
         Supervising, Returns
<1>5. Unborn'
  BY DEF RelaunchPsiphon, Goto, FlowFails, Unborn, TypePlace, TypeHandoff,
         TypeProgress
<1> QED
  BY <1>1, <1>2, <1>3, <1>4, <1>5 DEF RelaunchPsiphon, TypeFlags, TypeHandoff,
     TypeProgress, TypeStops

\* ReopenPsiphon keeps every field in its type.
LEMMA ReopenPsiphonType ==
  ASSUME TypeInv, NEW s \in Sessions, ReopenPsiphon(s)
  PROVE  TypeInv'
<1> USE DEF TypeInv, TypeOK
<1>1. TypeOS'
  BY DEF ReopenPsiphon, StopBoth, TypeOS, Status, Killed
<1>2. TypeHandles'
  BY DEF ReopenPsiphon, StopBoth, TypeHandles
<1>3. TypePlace'
  BY DEF ReopenPsiphon, Goto, TypePlace, PCs, TakeOver, Ladder, Supervising,
         Returns
<1>4. Unborn'
  BY DEF ReopenPsiphon, Goto, Unborn, TypePlace, TypeHandoff, TypeProgress
<1> QED
  BY <1>1, <1>2, <1>3, <1>4 DEF ReopenPsiphon, TypeUI, TypeFlags, TypeHandoff,
     TypeProgress, TypeStops

\* Reverify keeps every field in its type.
LEMMA ReverifyType ==
  ASSUME TypeInv, NEW s \in Sessions, Reverify(s)
  PROVE  TypeInv'
<1> USE DEF TypeInv, TypeOK
<1>1. TypeUI'
  BY DEF Reverify, SetState, TypeUI, States
<1>2. TypePlace'
  BY DEF Reverify, Goto, TypePlace, PCs, TakeOver, Ladder, Supervising,
         Returns
<1>3. Unborn'
  BY DEF Reverify, Goto, Unborn, TypePlace, TypeHandoff, TypeProgress
<1> QED
  BY <1>1, <1>2, <1>3 DEF Reverify, TypeOS, TypeHandles, TypeFlags,
     TypeHandoff, TypeProgress, TypeStops

\* Retest keeps every field in its type.
LEMMA RetestType ==
  ASSUME TypeInv, NEW s \in Sessions, Retest(s)
  PROVE  TypeInv'
<1> USE DEF TypeInv, TypeOK
<1>1. TypeOS'
  BY DEF Retest, StopBoth, TypeOS, Status, Killed
<1>2. TypeHandles'
  BY DEF Retest, StopBoth, TypeHandles
<1>3. TypePlace'
  BY DEF Retest, Goto, TypePlace, PCs, TakeOver, Ladder, Supervising, Returns
<1>4. Unborn'
  BY DEF Retest, Goto, Unborn, TypePlace, TypeHandoff, TypeProgress
<1> QED
  BY <1>1, <1>2, <1>3, <1>4 DEF Retest, TypeUI, TypeFlags, TypeHandoff,
     TypeProgress, TypeStops

\* Rereport keeps every field in its type.
LEMMA RereportType ==
  ASSUME TypeInv, NEW s \in Sessions, Rereport(s)
  PROVE  TypeInv'
<1> USE DEF TypeInv, TypeOK
<1>1. TypeUI'
  BY DEF Rereport, SetState, TypeUI, States
<1>2. TypePlace'
  BY DEF Rereport, Goto, TypePlace, PCs, TakeOver, Ladder, Supervising,
         Returns
<1>3. TypeProgress'
  BY SMTT(60) DEF Rereport, TypeProgress, Profile, TypeHandoff
<1>4. Unborn'
  BY DEF Rereport, Goto, Unborn, TypePlace, TypeHandoff, TypeProgress
<1> QED
  BY <1>1, <1>2, <1>3, <1>4 DEF Rereport, TypeOS, TypeHandles, TypeFlags,
     TypeHandoff, TypeStops

\* StopBegin keeps every field in its type.
LEMMA StopBeginType ==
  ASSUME TypeInv, NEW k \in Stops, StopBegin(k)
  PROVE  TypeInv'
<1> USE DEF TypeInv, TypeOK
<1>1. TypeStops'
  BY DEF StopBegin, StopGoto, TypeStops, StopPCs
<1> QED
  BY ZenonT(60), <1>1 DEF StopBegin, TypeUI, TypeOS, TypeHandles, TypeFlags,
     TypeHandoff,
     TypePlace, TypeProgress, Unborn

\* StopClean keeps every field in its type.
LEMMA StopCleanType ==
  ASSUME TypeInv, NEW k \in Stops, StopClean(k)
  PROVE  TypeInv'
<1> USE DEF TypeInv, TypeOK
<1>1. TypeOS'
  BY DEF StopClean, CleanForwarder, CleanEngine, CleanTun, TypeOS, Status,
         Killed
<1>2. TypeHandles'
  BY DEF StopClean, CleanForwarder, CleanEngine, CleanTun, TypeHandles
<1>3. TypeFlags'
  BY DEF StopClean, CleanForwarder, CleanEngine, CleanTun, TypeFlags
<1>4. TypeStops'
  BY DEF StopClean, StopGoto, TypeStops, StopPCs
<1> QED
  BY <1>1, <1>2, <1>3, <1>4 DEF StopClean, TypeUI, TypeHandoff, TypePlace,
     TypeProgress, Unborn

\* StopEstablish keeps every field in its type.
LEMMA StopEstablishType ==
  ASSUME TypeInv, NEW k \in Stops, StopEstablish(k)
  PROVE  TypeInv'
<1> USE DEF TypeInv, TypeOK
<1>1. TypeUI'
  BY DEF StopEstablish, SetState, TypeUI, States
<1>2. TypeOS'
  BY DEF StopEstablish, TypeOS, Status
<1>3. TypeFlags'
  BY DEF StopEstablish, TypeFlags
<1>4. TypeStops'
  BY DEF StopEstablish, StopGoto, TypeStops, StopPCs
<1> QED
  BY <1>1, <1>2, <1>3, <1>4 DEF StopEstablish, TypeHandles, TypeHandoff,
     TypePlace, TypeProgress, Unborn

\* StopPublish keeps every field in its type.
LEMMA StopPublishType ==
  ASSUME TypeInv, NEW k \in Stops, StopPublish(k)
  PROVE  TypeInv'
<1> USE DEF TypeInv, TypeOK
<1>1. TypeUI'
  BY DEF StopPublish, SetState, TypeUI, States
<1>2. TypeOS'
  BY DEF StopPublish, TypeOS, Status
<1>3. TypeStops'
  BY DEF StopPublish, StopGoto, TypeStops, StopPCs
<1> QED
  BY <1>1, <1>2, <1>3 DEF StopPublish, TypeHandles, TypeFlags, TypeHandoff,
     TypePlace, TypeProgress, Unborn

\* StopJoin keeps every field in its type.
LEMMA StopJoinType ==
  ASSUME TypeInv, NEW k \in Stops, StopJoin(k)
  PROVE  TypeInv'
<1> USE DEF TypeInv, TypeOK
<1>1. TypeStops'
  BY DEF StopJoin, StopGoto, TypeStops, StopPCs
<1> QED
  BY ZenonT(60), <1>1 DEF StopJoin, TypeUI, TypeOS, TypeHandles, TypeFlags,
     TypeHandoff,
     TypePlace, TypeProgress, Unborn

\* Connect keeps every field in its type.
LEMMA ConnectType ==
  ASSUME TypeInv, NEW p \in Profiles, Connect(p)
  PROVE  TypeInv'
<1> USE DEF TypeInv, TypeOK
<1>1. TypeOS'
  BY DEF Connect, TypeOS, Status
<1>2. TypeHandles'
  BY DEF Connect, TypeHandles, TypeHandoff
<1>3. TypeFlags'
  BY DEF Connect, TypeFlags, Profile
<1>4. TypeHandoff'
  BY DEF Connect, TypeHandoff, TypeHandles, TypeStops
<1>5. TypePlace'
  BY DEF Connect, TypePlace, PCs, TakeOver, Ladder, Supervising, Returns
<1>6. TypeProgress'
  <2>1. p.rungs \in Nat /\ p.retries \in Nat  BY DEF Profile
  <2>2. connects + 1 \in Sessions /\ connects \in Nat
    BY DEF Connect, TypeHandoff
  <2>3. rung[connects + 1] = 0 /\ attempt[connects + 1] = 0
    BY <2>2 DEF Unborn
  <2>4. /\ profile' = [profile EXCEPT ![connects + 1] = p]
        /\ UNCHANGED <<rung, attempt>>
    BY DEF Connect
  <2>5. \A s \in Sessions :
          profile'[s] = IF s = connects + 1 THEN p ELSE profile[s]
    BY <2>4 DEF TypeHandoff
  <2>6. TypeProgress  OBVIOUS
  <2> HIDE DEF TypeInv, TypeOK
  <2> QED  BY SMTT(60), <2>1, <2>3, <2>4, <2>5, <2>6 DEF TypeProgress
<1>7. Unborn'
  BY DEF Connect, Unborn, TypePlace, TypeHandoff, TypeProgress
<1> QED
  BY <1>1, <1>2, <1>3, <1>4, <1>5, <1>6, <1>7 DEF Connect, TypeUI, TypeStops

\* Disconnect keeps every field in its type.
LEMMA DisconnectType ==
  ASSUME TypeInv, Disconnect
  PROVE  TypeInv'
<1> USE DEF TypeInv, TypeOK
<1>1. TypeUI'
  BY DEF Disconnect, SetState, stopEverything, TypeUI, States
<1>2. TypeOS'
  BY DEF Disconnect, TypeOS, Status
<1>3. TypeHandles'
  BY LaunchStopType DEF Disconnect, stopEverything
<1>4. TypePlace'
  BY LaunchStopType DEF Disconnect, stopEverything, TypePlace
<1>5. TypeStops'
  BY LaunchStopType DEF Disconnect, stopEverything
<1> QED
  BY <1>1, <1>2, <1>3, <1>4, <1>5 DEF Disconnect, TypeFlags, TypeHandoff,
     TypeProgress, Unborn

\* Revoke keeps every field in its type.
LEMMA RevokeType ==
  ASSUME TypeInv, Revoke
  PROVE  TypeInv'
<1> USE DEF TypeInv, TypeOK
<1>1. TypeUI'
  BY DEF Revoke, SetState, stopEverything, TypeUI, States
<1>2. TypeOS'
  BY DEF Revoke, TypeOS, Status
<1>3. TypeHandles'
  BY LaunchStopType DEF Revoke, stopEverything
<1>4. TypePlace'
  BY LaunchStopType DEF Revoke, stopEverything, TypePlace
<1>5. TypeStops'
  BY LaunchStopType DEF Revoke, stopEverything
<1> QED
  BY <1>1, <1>2, <1>3, <1>4, <1>5 DEF Revoke, TypeFlags, TypeHandoff,
     TypeProgress, Unborn

\* Destroy keeps every field in its type.
LEMMA DestroyType ==
  ASSUME TypeInv, Destroy
  PROVE  TypeInv'
<1> USE DEF TypeInv, TypeOK
<1>1. TypeOS'
  BY DEF Destroy, CleanForwarder, CleanEngine, CleanTun, TypeOS, Status,
         Killed
<1>2. TypeHandles'
  BY DEF Destroy, CleanForwarder, CleanEngine, CleanTun, TypeHandles
<1>3. TypeFlags'
  BY DEF Destroy, CleanForwarder, CleanEngine, CleanTun, TypeFlags
<1>4. TypePlace'
  BY DEF Destroy, TypePlace, PCs, TakeOver, Ladder, Supervising, Returns,
         TypeHandles, TypeHandoff
<1> QED
  BY <1>1, <1>2, <1>3, <1>4 DEF Destroy, TypeUI, TypeHandoff, TypeProgress,
     TypeStops, Unborn

\* EngineStep keeps every field in its type.
LEMMA EngineStepType ==
  ASSUME TypeInv, EngineStep
  PROVE  TypeInv'
<1> USE DEF TypeInv, TypeOK
<1>1. TypeOS'
  BY DEF EngineStep, ProcessStep, TypeOS, Status
<1> QED
  BY <1>1 DEF EngineStep, TypeUI, TypeHandles, TypeFlags, TypeHandoff,
     TypePlace, TypeProgress, TypeStops, Unborn

\* PsiphonStep keeps every field in its type.
LEMMA PsiphonStepType ==
  ASSUME TypeInv, PsiphonStep
  PROVE  TypeInv'
<1> USE DEF TypeInv, TypeOK
<1>1. TypeOS'
  BY DEF PsiphonStep, ProcessStep, TypeOS, Status
<1> QED
  BY <1>1 DEF PsiphonStep, TypeUI, TypeHandles, TypeFlags, TypeHandoff,
     TypePlace, TypeProgress, TypeStops, Unborn

\* ReapStep keeps every field in its type.
LEMMA ReapStepType ==
  ASSUME TypeInv, ReapStep
  PROVE  TypeInv'
<1> USE DEF TypeInv, TypeOK
<1>1. TypeOS'
  BY DEF ReapStep, Reap, TypeOS, Status
<1> QED
  BY <1>1 DEF ReapStep, TypeUI, TypeHandles, TypeFlags, TypeHandoff,
     TypePlace, TypeProgress, TypeStops, Unborn

\* No step of the service leaves the type invariant.
LEMMA NextType == TypeInv /\ [Next]_vars => TypeInv'
<1> SUFFICES ASSUME TypeInv, [Next]_vars PROVE TypeInv'  OBVIOUS
<1>1. CASE \E s \in Sessions : SessionStep(s)
  BY <1>1, BeginType, CleanType, JoinRunType, JoinStopType, PlanType,
           AttemptType, AwaitClosedType, LaunchType, AwaitOpenType,
           LaunchPsiphonType, AwaitPsiphonType, BringUpType, SelfTestType,
           NextRungType, ReportType, SuperviseAliveType, SuperviseEndsType,
           SuperviseGivesUpType, SuperviseRetriesType, WatchProbeType,
           WatchExitType, BackoffType, RestopType, RelaunchType, ReopenType,
           RelaunchPsiphonType, ReopenPsiphonType, ReverifyType, RetestType,
           RereportType DEF SessionStep
<1>2. CASE \E k \in Stops : StopStep(k)
  BY <1>2, StopBeginType, StopCleanType, StopEstablishType, StopPublishType,
           StopJoinType
     DEF StopStep
<1>3. CASE \E p \in Profiles : Connect(p)  BY <1>3, ConnectType
<1>4. CASE Disconnect  BY <1>4, DisconnectType
<1>5. CASE Revoke  BY <1>5, RevokeType
<1>6. CASE Destroy  BY <1>6, DestroyType
<1>7. CASE EngineStep  BY <1>7, EngineStepType
<1>8. CASE PsiphonStep  BY <1>8, PsiphonStepType
<1>9. CASE ReapStep  BY <1>9, ReapStepType
<1>10. CASE UNCHANGED vars
  BY ZenonT(60), <1>10 DEF vars, TypeInv, TypeOK, Unborn, TypeUI, TypeOS,
     TypeHandles,
     TypeFlags, TypeHandoff, TypePlace, TypeProgress, TypeStops
<1> QED
  BY <1>1, <1>2, <1>3, <1>4, <1>5, <1>6, <1>7, <1>8, <1>9, <1>10 DEF Next

\* Type correctness of AetherVpnService's state, with the ladder index and the
\* restart counter inside their limits.
THEOREM TypeCorrect == Spec => []TypeOK
<1>1. TypeInv => TypeOK  BY DEF TypeInv
<1> QED  BY <1>1, InitType, NextType, PTL DEF Spec

-----------------------------------------------------------------------------
(* The hand-over.  A step of a session is abstracted to the move it makes:  *)
(* where it goes, and what must be true before it may own the service.      *)

Cleaning == {"clean1", "clean2", "clean3"}

Owner(l, a) == l \in Ladder \cup Supervising \/ (l \in Cleaning /\ a # "joinRun")

Moves(s) ==
  /\ pc[s] \notin {"unborn", "done"}
  /\ UNCHANGED <<previousRun, previousStop, main, connects>>
  /\ \E l \in PCs \ {"unborn"}, a \in Returns :
       /\ pc' = [pc EXCEPT ![s] = l]
       /\ after' = [after EXCEPT ![s] = a]
       /\ l = "joinStop" => Finished(previousRun[s])
       /\ Owner(l, a) =>
            \/ Owner(pc[s], after[s])
            \/ /\ pc[s] = "joinStop"
               /\ previousStop[s] # 0 => spc[previousStop[s]] = "done"

\* What a step may do to the stop coroutines: nothing, launch one, or advance
\* one, which is done only when the session it was to end has finished.
StopsMove ==
  \/ UNCHANGED <<stops, spc, job>>
  \/ \E k \in Stops :
       /\ k = stops + 1 /\ stops' = k
       /\ spc' = [spc EXCEPT ![k] = "new"]
       /\ job' \in [Stops -> 0 .. MaxConnects]
       /\ \A i \in Stops : i # k => job'[i] = job[i]
  \/ \E k \in Stops, l \in StopPCs \ {"unborn"} :
       /\ spc[k] \notin {"unborn", "done"}
       /\ spc' = [spc EXCEPT ![k] = l]
       /\ l = "done" => Finished(job[k]) \/ main = "destroyed"
       /\ UNCHANGED <<stops, job>>

-----------------------------------------------------------------------------
(* Every session step is such a move: one lemma per action. *)

\* The move of Begin.
LEMMA BeginMoves ==
  ASSUME TypePlace, NEW s \in Sessions, Begin(s)
  PROVE  Moves(s)
  BY DEF Begin, Goto, Moves, TypePlace, PCs, TakeOver, Ladder, Supervising,
         Returns, Owner, Cleaning, Finished

\* The move of Clean.
LEMMA CleanMoves ==
  ASSUME TypePlace, NEW s \in Sessions, Clean(s)
  PROVE  Moves(s)
  BY ZenonT(60) DEF Clean, Goto, Moves, TypePlace, PCs, TakeOver, Ladder,
     Supervising,
         Returns, Owner, Cleaning

\* The move of JoinRun.
LEMMA JoinRunMoves ==
  ASSUME TypePlace, NEW s \in Sessions, JoinRun(s)
  PROVE  Moves(s)
  BY DEF JoinRun, Goto, Moves, TypePlace, PCs, TakeOver, Ladder, Supervising,
         Returns, Owner, Cleaning, Finished

\* The move of JoinStop.
LEMMA JoinStopMoves ==
  ASSUME TypePlace, NEW s \in Sessions, JoinStop(s)
  PROVE  Moves(s)
  BY DEF JoinStop, Goto, Moves, TypePlace, PCs, TakeOver, Ladder, Supervising,
         Returns, Owner, Cleaning

\* The move of Plan.
LEMMA PlanMoves ==
  ASSUME TypePlace, NEW s \in Sessions, Plan(s)
  PROVE  Moves(s)
<1>1. \E l \in {"done", "attempt"} :
        pc' = [pc EXCEPT ![s] = l] /\ UNCHANGED after
  BY DEF Plan, Goto
<1>2. /\ pc[s] = "plan"
      /\ UNCHANGED <<previousRun, previousStop, main, connects>>
  BY DEF Plan
<1> QED
  BY ZenonT(60), <1>1, <1>2 DEF Moves, TypePlace, PCs, TakeOver, Ladder,
     Supervising,
     Returns, Owner, Cleaning

\* The move of Attempt.
LEMMA AttemptMoves ==
  ASSUME TypePlace, NEW s \in Sessions, Attempt(s)
  PROVE  Moves(s)
  BY DEF Attempt, Goto, Moves, TypePlace, PCs, TakeOver, Ladder, Supervising,
         Returns, Owner, Cleaning

\* The move of AwaitClosed.
LEMMA AwaitClosedMoves ==
  ASSUME TypePlace, NEW s \in Sessions, AwaitClosed(s)
  PROVE  Moves(s)
  BY DEF AwaitClosed, Goto, Moves, TypePlace, PCs, TakeOver, Ladder,
         Supervising, Returns, Owner, Cleaning

\* The move of Launch.
LEMMA LaunchMoves ==
  ASSUME TypePlace, NEW s \in Sessions, Launch(s)
  PROVE  Moves(s)
  BY DEF Launch, Goto, RungFails, Moves, TypePlace, PCs, TakeOver, Ladder,
         Supervising, Returns, Owner, Cleaning

\* The move of AwaitOpen.
LEMMA AwaitOpenMoves ==
  ASSUME TypePlace, NEW s \in Sessions, AwaitOpen(s)
  PROVE  Moves(s)
  BY DEF AwaitOpen, Goto, RungFails, Moves, TypePlace, PCs, TakeOver, Ladder,
         Supervising, Returns, Owner, Cleaning

\* The move of LaunchPsiphon.
LEMMA LaunchPsiphonMoves ==
  ASSUME TypePlace, NEW s \in Sessions, LaunchPsiphon(s)
  PROVE  Moves(s)
  BY DEF LaunchPsiphon, Goto, RungFails, Moves, TypePlace, PCs, TakeOver,
         Ladder, Supervising, Returns, Owner, Cleaning

\* The move of AwaitPsiphon.
LEMMA AwaitPsiphonMoves ==
  ASSUME TypePlace, NEW s \in Sessions, AwaitPsiphon(s)
  PROVE  Moves(s)
  BY DEF AwaitPsiphon, Goto, RungFails, Moves, TypePlace, PCs, TakeOver,
         Ladder, Supervising, Returns, Owner, Cleaning

\* The move of BringUp.
LEMMA BringUpMoves ==
  ASSUME TypePlace, NEW s \in Sessions, BringUp(s)
  PROVE  Moves(s)
<1>1. \/ pc' = [pc EXCEPT ![s] = "selfTest"] /\ UNCHANGED after
      \/ /\ pc' = [pc EXCEPT ![s] = "clean1"]
         /\ after' = [after EXCEPT ![s] = "nextRung"]
  BY DEF BringUp, Goto, RungFails
<1>2. /\ pc[s] = "bringUp"
      /\ UNCHANGED <<previousRun, previousStop, main, connects>>
  BY DEF BringUp
<1> QED
  BY <1>1, <1>2 DEF Moves, TypePlace, PCs, TakeOver, Ladder, Supervising,
     Returns, Owner, Cleaning

\* The move of SelfTest.
LEMMA SelfTestMoves ==
  ASSUME TypePlace, NEW s \in Sessions, SelfTest(s)
  PROVE  Moves(s)
  BY DEF SelfTest, Goto, RungFails, Moves, TypePlace, PCs, TakeOver, Ladder,
         Supervising, Returns, Owner, Cleaning

\* The move of NextRung.
LEMMA NextRungMoves ==
  ASSUME TypePlace, NEW s \in Sessions, NextRung(s)
  PROVE  Moves(s)
  BY DEF NextRung, Goto, FlowFails, Moves, TypePlace, PCs, TakeOver, Ladder,
         Supervising, Returns, Owner, Cleaning

\* The move of Report.
LEMMA ReportMoves ==
  ASSUME TypePlace, NEW s \in Sessions, Report(s)
  PROVE  Moves(s)
  BY DEF Report, Goto, Moves, TypePlace, PCs, TakeOver, Ladder, Supervising,
         Returns, Owner, Cleaning

\* The move of SuperviseAlive.
LEMMA SuperviseAliveMoves ==
  ASSUME TypePlace, NEW s \in Sessions, SuperviseAlive(s)
  PROVE  Moves(s)
  BY DEF SuperviseAlive, Goto, Moves, TypePlace, PCs, TakeOver, Ladder,
         Supervising, Returns, Owner, Cleaning

\* The move of SuperviseEnds.
LEMMA SuperviseEndsMoves ==
  ASSUME TypePlace, NEW s \in Sessions, SuperviseEnds(s)
  PROVE  Moves(s)
  BY DEF SuperviseEnds, Goto, Moves, TypePlace, PCs, TakeOver, Ladder,
         Supervising, Returns, Owner, Cleaning

\* The move of SuperviseGivesUp.
LEMMA SuperviseGivesUpMoves ==
  ASSUME TypePlace, NEW s \in Sessions, SuperviseGivesUp(s)
  PROVE  Moves(s)
<1>1. \/ pc' = [pc EXCEPT ![s] = "done"] /\ UNCHANGED after
      \/ /\ pc' = [pc EXCEPT ![s] = "clean1"]
         /\ after' = [after EXCEPT ![s] = "done"]
  BY DEF SuperviseGivesUp, Goto, FlowFails
<1>2. /\ pc[s] = "supervise"
      /\ UNCHANGED <<previousRun, previousStop, main, connects>>
  BY DEF SuperviseGivesUp
<1> QED
  BY <1>1, <1>2 DEF Moves, TypePlace, PCs, TakeOver, Ladder, Supervising,
     Returns, Owner, Cleaning

\* The move of SuperviseRetries.
LEMMA SuperviseRetriesMoves ==
  ASSUME TypePlace, NEW s \in Sessions, SuperviseRetries(s)
  PROVE  Moves(s)
  BY DEF SuperviseRetries, Goto, Moves, TypePlace, PCs, TakeOver, Ladder,
         Supervising, Returns, Owner, Cleaning

\* The move of WatchProbe.
LEMMA WatchProbeMoves ==
  ASSUME TypePlace, NEW s \in Sessions, WatchProbe(s)
  PROVE  Moves(s)
  BY DEF WatchProbe, Goto, Moves, TypePlace, PCs, TakeOver, Ladder,
         Supervising, Returns, Owner, Cleaning

\* The move of WatchExit.
LEMMA WatchExitMoves ==
  ASSUME TypePlace, NEW s \in Sessions, WatchExit(s)
  PROVE  Moves(s)
  BY DEF WatchExit, Goto, Moves, TypePlace, PCs, TakeOver, Ladder,
         Supervising, Returns, Owner, Cleaning

\* The move of Backoff.
LEMMA BackoffMoves ==
  ASSUME TypePlace, NEW s \in Sessions, Backoff(s)
  PROVE  Moves(s)
  BY DEF Backoff, Goto, Moves, TypePlace, PCs, TakeOver, Ladder, Supervising,
         Returns, Owner, Cleaning

\* The move of Restop.
LEMMA RestopMoves ==
  ASSUME TypePlace, NEW s \in Sessions, Restop(s)
  PROVE  Moves(s)
  BY DEF Restop, Goto, Moves, TypePlace, PCs, TakeOver, Ladder, Supervising,
         Returns, Owner, Cleaning

\* The move of Relaunch.
LEMMA RelaunchMoves ==
  ASSUME TypePlace, NEW s \in Sessions, Relaunch(s)
  PROVE  Moves(s)
  BY DEF Relaunch, Goto, FlowFails, Moves, TypePlace, PCs, TakeOver, Ladder,
         Supervising, Returns, Owner, Cleaning

\* The move of Reopen.
LEMMA ReopenMoves ==
  ASSUME TypePlace, NEW s \in Sessions, Reopen(s)
  PROVE  Moves(s)
  BY DEF Reopen, Goto, Moves, TypePlace, PCs, TakeOver, Ladder, Supervising,
         Returns, Owner, Cleaning

\* The move of RelaunchPsiphon.
LEMMA RelaunchPsiphonMoves ==
  ASSUME TypePlace, NEW s \in Sessions, RelaunchPsiphon(s)
  PROVE  Moves(s)
  BY DEF RelaunchPsiphon, Goto, FlowFails, Moves, TypePlace, PCs, TakeOver,
         Ladder, Supervising, Returns, Owner, Cleaning

\* The move of ReopenPsiphon.
LEMMA ReopenPsiphonMoves ==
  ASSUME TypePlace, NEW s \in Sessions, ReopenPsiphon(s)
  PROVE  Moves(s)
  BY DEF ReopenPsiphon, Goto, Moves, TypePlace, PCs, TakeOver, Ladder,
         Supervising, Returns, Owner, Cleaning

\* The move of Reverify.
LEMMA ReverifyMoves ==
  ASSUME TypePlace, NEW s \in Sessions, Reverify(s)
  PROVE  Moves(s)
  BY DEF Reverify, Goto, Moves, TypePlace, PCs, TakeOver, Ladder, Supervising,
         Returns, Owner, Cleaning

\* The move of Retest.
LEMMA RetestMoves ==
  ASSUME TypePlace, NEW s \in Sessions, Retest(s)
  PROVE  Moves(s)
  BY DEF Retest, Goto, Moves, TypePlace, PCs, TakeOver, Ladder, Supervising,
         Returns, Owner, Cleaning

\* The move of Rereport.
LEMMA RereportMoves ==
  ASSUME TypePlace, NEW s \in Sessions, Rereport(s)
  PROVE  Moves(s)
  BY DEF Rereport, Goto, Moves, TypePlace, PCs, TakeOver, Ladder, Supervising,
         Returns, Owner, Cleaning

\* Every step of a session is a move.
LEMMA SessionMoves ==
  ASSUME TypePlace, NEW s \in Sessions, SessionStep(s)
  PROVE  Moves(s)
  BY BeginMoves, CleanMoves, JoinRunMoves, JoinStopMoves, PlanMoves,
     AttemptMoves, AwaitClosedMoves, LaunchMoves, AwaitOpenMoves,
     LaunchPsiphonMoves, AwaitPsiphonMoves, BringUpMoves, SelfTestMoves,
     NextRungMoves, ReportMoves, SuperviseAliveMoves, SuperviseEndsMoves,
     SuperviseGivesUpMoves, SuperviseRetriesMoves, WatchProbeMoves,
     WatchExitMoves, BackoffMoves, RestopMoves, RelaunchMoves, ReopenMoves,
     RelaunchPsiphonMoves, ReopenPsiphonMoves, ReverifyMoves, RetestMoves,
     RereportMoves DEF SessionStep

-----------------------------------------------------------------------------
(* What any step of the service does to the places and to the stops. *)

Places == <<pc, after, previousRun, previousStop, connects>>

PlaceMove ==
  \/ UNCHANGED Places
  \/ \E s \in Sessions : Moves(s)
  \/ \E p \in Profiles : Connect(p)

Shape ==
  PlaceMove /\ StopsMove /\ (main = "destroyed" => main' = "destroyed")

\* enterLockdown and stopEverything launch one stop coroutine.
LEMMA LaunchStopMoves ==
  ASSUME TypeInv, NEW what \in {"stop", "lockdown"}, LaunchStop(what)
  PROVE  StopsMove
<1>1. stops + 1 \in Stops /\ runJob \in 0 .. MaxConnects
  BY DEF LaunchStop, TypeInv, TypeOK, TypeStops, TypeHandles, TypeHandoff
<1> QED  BY <1>1 DEF LaunchStop, StopsMove, TypeInv, TypeOK, TypeStops

\* A session leaves the stops alone, or launches one when it gives up.
LEMMA SessionStops ==
  ASSUME TypeInv, NEW s \in Sessions, SessionStep(s)
  PROVE  StopsMove
<1>1. CASE SuperviseGivesUp(s)
  BY <1>1, LaunchStopMoves DEF SuperviseGivesUp, StopsMove
<1>2. CASE ~SuperviseGivesUp(s)
  <2>1. UNCHANGED stopping
    BY <1>2 DEF SessionStep, Begin, Clean, JoinRun, JoinStop, Plan, Attempt,
          AwaitClosed, Launch, AwaitOpen, LaunchPsiphon, AwaitPsiphon,
          BringUp, SelfTest, NextRung, Report, SuperviseAlive, SuperviseEnds,
          SuperviseGivesUp, SuperviseRetries, WatchProbe, WatchExit, Backoff,
          Restop, Relaunch, Reopen, RelaunchPsiphon, ReopenPsiphon, Reverify,
          Retest, Rereport
  <2> QED  BY <2>1 DEF StopsMove
<1> QED  BY <1>1, <1>2

\* A step of a stop coroutine advances that one.
LEMMA StopStepMoves ==
  ASSUME TypeInv, NEW k \in Stops, StopStep(k)
  PROVE  StopsMove
<1> USE DEF StopGoto, StopsMove, StopPCs
<1>1. CASE StopBegin(k)  BY <1>1 DEF StopBegin
<1>2. CASE StopClean(k)  BY <1>2 DEF StopClean
<1>3. CASE StopEstablish(k)  BY <1>3 DEF StopEstablish
<1>4. CASE StopPublish(k)  BY <1>4 DEF StopPublish
<1>5. CASE StopJoin(k)  BY <1>5 DEF StopJoin
<1> QED  BY <1>1, <1>2, <1>3, <1>4, <1>5 DEF StopStep

\* Every step of the service has the shape above.
LEMMA StepShape ==
  ASSUME TypeInv, [Next]_vars
  PROVE  Shape
<1>1. CASE \E s \in Sessions : SessionStep(s)
  <2> PICK s \in Sessions : SessionStep(s)  BY <1>1
  <2>1. Moves(s)  BY SessionMoves DEF TypeInv, TypeOK
  <2>2. StopsMove  BY SessionStops
  <2> QED  BY <2>1, <2>2 DEF Shape, PlaceMove, Moves
<1>2. CASE \E k \in Stops : StopStep(k)
  <2> PICK k \in Stops : StopStep(k)  BY <1>2
  <2>1. StopsMove  BY StopStepMoves
  <2>2. UNCHANGED <<Places, main>>
    BY DEF Places, StopStep, StopBegin, StopClean, StopEstablish, StopPublish,
       StopJoin
  <2> QED  BY <2>1, <2>2 DEF Shape, PlaceMove
<1>3. CASE \E p \in Profiles : Connect(p)
  BY <1>3 DEF Shape, PlaceMove, StopsMove, Connect
<1>4. CASE Disconnect
  <2>1. StopsMove  BY <1>4, LaunchStopMoves DEF Disconnect, stopEverything
  <2> QED  BY <1>4, <2>1 DEF Shape, PlaceMove, Places, Disconnect
<1>5. CASE Revoke
  <2>1. StopsMove  BY <1>5, LaunchStopMoves DEF Revoke, stopEverything
  <2> QED  BY <1>5, <2>1 DEF Shape, PlaceMove, Places, Revoke
<1>6. CASE Destroy
  BY <1>6 DEF Shape, PlaceMove, Places, StopsMove, Destroy
<1>7. CASE EngineStep \/ PsiphonStep \/ ReapStep
  BY <1>7 DEF Shape, PlaceMove, Places, StopsMove, EngineStep, PsiphonStep,
     ReapStep
<1>8. CASE UNCHANGED vars
  BY <1>8 DEF Shape, PlaceMove, Places, StopsMove, vars
<1> QED  BY <1>1, <1>2, <1>3, <1>4, <1>5, <1>6, <1>7, <1>8 DEF Next

-----------------------------------------------------------------------------
(* The inductive invariant.  HandOver alone is not inductive: a session     *)
(* that is about to own the service must already have waited for the one    *)
(* before it, and what it has waited for must stay finished.                *)

UnbornStops == \A k \in Stops : k > stops => spc[k] = "unborn"

StopsJoined ==
  \A k \in Stops : spc[k] = "done" => Finished(job[k]) \/ main = "destroyed"

Waited ==
  \A s \in Sessions : pc[s] = "joinStop" => Finished(previousRun[s])

Owned ==
  \A s \in Sessions : Owner(pc[s], after[s]) =>
    /\ Finished(previousRun[s])
    /\ previousStop[s] # 0 => spc[previousStop[s]] = "done"

HandInv == TypeInv /\ UnbornStops /\ StopsJoined /\ Waited /\ Owned

\* A finished session stays finished.
LEMMA SessionsStayDone ==
  ASSUME TypeInv, PlaceMove, NEW t \in Sessions, pc[t] = "done"
  PROVE  pc'[t] = "done"
<1>1. CASE UNCHANGED Places  BY <1>1 DEF Places
<1>2. CASE \E s \in Sessions : Moves(s)
  BY <1>2 DEF Moves, TypeInv, TypeOK, TypePlace
<1>3. CASE \E p \in Profiles : Connect(p)
  <2>1. connects + 1 \in Sessions /\ connects + 1 > connects
    BY <1>3 DEF Connect, TypeInv, TypeOK, TypeHandoff
  <2>2. pc[connects + 1] = "unborn"  BY <2>1 DEF TypeInv, Unborn
  <2> QED  BY <1>3, <2>1, <2>2 DEF Connect, TypeInv, TypeOK, TypePlace
<1> QED  BY <1>1, <1>2, <1>3 DEF PlaceMove

\* A finished stop coroutine stays finished, and so does what it joined.
LEMMA StopsStayDone ==
  ASSUME TypeInv, UnbornStops, StopsMove, NEW k \in Stops, spc[k] = "done"
  PROVE  spc'[k] = "done" /\ job'[k] = job[k]
<1> USE DEF TypeInv, TypeOK, TypeStops
<1>1. CASE UNCHANGED <<stops, spc, job>>  BY <1>1
<1>2. CASE \E i \in Stops :
             /\ i = stops + 1 /\ stops' = i
             /\ spc' = [spc EXCEPT ![i] = "new"]
             /\ job' \in [Stops -> 0 .. MaxConnects]
             /\ \A j \in Stops : j # i => job'[j] = job[j]
  <2>1. k # stops + 1  BY DEF UnbornStops
  <2> QED  BY <1>2, <2>1
<1>3. CASE \E i \in Stops, l \in StopPCs \ {"unborn"} :
             /\ spc[i] \notin {"unborn", "done"}
             /\ spc' = [spc EXCEPT ![i] = l]
             /\ l = "done" => Finished(job[i]) \/ main = "destroyed"
             /\ UNCHANGED <<stops, job>>
  BY <1>3
<1> QED  BY <1>1, <1>2, <1>3 DEF StopsMove

\* The hand-over invariant holds before the first command.
LEMMA InitHand == Init => HandInv
<1> SUFFICES ASSUME Init PROVE HandInv  OBVIOUS
<1>1. UnbornStops /\ StopsJoined /\ Waited
  BY DEF Init, UnbornStops, StopsJoined, Waited
<1>2. Owned
  BY DEF Init, Owned, Owner, Ladder, Supervising, Cleaning
<1> QED  BY InitType, <1>1, <1>2 DEF HandInv

\* Every step keeps the hand-over invariant.
LEMMA NextHand == HandInv /\ [Next]_vars => HandInv'
<1> SUFFICES ASSUME HandInv, [Next]_vars PROVE HandInv'  OBVIOUS
<1>1. TypeInv /\ TypeInv'  BY NextType DEF HandInv
<1>2. Shape  BY <1>1, StepShape
<1>3. \A t \in Sessions : pc[t] = "done" => pc'[t] = "done"
  BY <1>1, <1>2, SessionsStayDone DEF Shape
<1>4. \A k \in Stops : spc[k] = "done" => spc'[k] = "done" /\ job'[k] = job[k]
  BY <1>1, <1>2, StopsStayDone DEF Shape, HandInv
<1>5. UnbornStops'
  BY <1>1, <1>2 DEF Shape, StopsMove, HandInv, UnbornStops, TypeInv, TypeOK,
     TypeStops
<1>6. StopsJoined'
  <2> SUFFICES ASSUME NEW k \in Stops, spc'[k] = "done"
               PROVE  Finished(job[k])' \/ main' = "destroyed"
    BY DEF StopsJoined
  <2>1. job[k] \in 0 .. MaxConnects  BY <1>1 DEF TypeInv, TypeOK, TypeStops
  <2>2. (Finished(job[k]) \/ main = "destroyed") /\ job'[k] = job[k]
    BY <1>1, <1>2, <1>4 DEF Shape, StopsMove, HandInv, StopsJoined, TypeInv,
       TypeOK, TypeStops
  <2> QED  BY <1>2, <1>3, <2>1, <2>2 DEF Finished, Shape
<1>7. Waited'
  <2> SUFFICES ASSUME NEW t \in Sessions, pc'[t] = "joinStop"
               PROVE  Finished(previousRun[t])'
    BY DEF Waited
  <2>1. Finished(previousRun[t]) /\ previousRun'[t] = previousRun[t]
    BY ZenonT(60), <1>1, <1>2 DEF Shape, PlaceMove, Places, Moves, Connect,
       HandInv,
       Waited, TypeInv, TypeOK, TypePlace, TypeHandoff
  <2>2. previousRun[t] \in 0 .. MaxConnects
    BY <1>1 DEF TypeInv, TypeOK, TypeHandoff
  <2> QED  BY <1>3, <2>1, <2>2 DEF Finished
<1>8. Owned'
  <2> SUFFICES ASSUME NEW t \in Sessions, Owner(pc'[t], after'[t])
               PROVE  /\ Finished(previousRun[t])'
                      /\ previousStop'[t] # 0 => spc'[previousStop'[t]] = "done"
    BY DEF Owned
  <2>1. /\ previousRun'[t] = previousRun[t]
        /\ previousStop'[t] = previousStop[t]
        /\ Finished(previousRun[t])
        /\ previousStop[t] # 0 => spc[previousStop[t]] = "done"
    <3>1. CASE UNCHANGED Places
      BY <3>1 DEF Places, HandInv, Owned
    <3>2. CASE \E s \in Sessions : Moves(s)
      <4> PICK s \in Sessions : Moves(s)  BY <3>2
      <4> PICK l \in PCs, a \in Returns :
            /\ pc' = [pc EXCEPT ![s] = l]
            /\ after' = [after EXCEPT ![s] = a]
            /\ l = "joinStop" => Finished(previousRun[s])
            /\ Owner(l, a) =>
                 \/ Owner(pc[s], after[s])
                 \/ /\ pc[s] = "joinStop"
                    /\ previousStop[s] # 0 => spc[previousStop[s]] = "done"
        BY DEF Moves
      <4>1. UNCHANGED <<previousRun, previousStop>>  BY DEF Moves
      <4>2. CASE t = s
        <5>1. Owner(l, a)
          BY <1>1, <4>2 DEF TypeInv, TypeOK, TypePlace
        <5> QED  BY <4>1, <4>2, <5>1 DEF HandInv, Owned, Waited
      <4>3. CASE t # s
        <5>1. Owner(pc[t], after[t])
          BY <1>1, <4>3 DEF TypeInv, TypeOK, TypePlace
        <5> QED  BY <4>1, <5>1 DEF HandInv, Owned
      <4> QED  BY <4>2, <4>3
    <3>3. CASE \E p \in Profiles : Connect(p)
      <4>1. connects + 1 \in Sessions
        BY <1>1, <3>3 DEF Connect, TypeInv, TypeOK, TypeHandoff
      <4>2. UNCHANGED after /\ pc' = [pc EXCEPT ![connects + 1] = "new"]
        BY <3>3 DEF Connect
      <4>3. t # connects + 1
        BY <1>1, <4>1, <4>2
           DEF Owner, Ladder, Supervising, Cleaning, TypeInv, TypeOK, TypePlace
      <4>4. Owner(pc[t], after[t])
        BY <1>1, <4>2, <4>3 DEF TypeInv, TypeOK, TypePlace
      <4> QED
        BY <1>1, <3>3, <4>1, <4>3, <4>4
           DEF Connect, HandInv, Owned, TypeInv, TypeOK, TypeHandoff
    <3> QED  BY <1>2, <3>1, <3>2, <3>3 DEF Shape, PlaceMove
  <2>2. previousRun[t] \in 0 .. MaxConnects /\ previousStop[t] \in 0 .. MaxStops
    BY <1>1 DEF TypeInv, TypeOK, TypeHandoff
  <2>3. Finished(previousRun[t])'
    BY <1>3, <2>1, <2>2 DEF Finished
  <2>4. previousStop'[t] # 0 => spc'[previousStop'[t]] = "done"
    BY <1>4, <2>1, <2>2
  <2> QED  BY <2>3, <2>4
<1> QED  BY <1>1, <1>5, <1>6, <1>7, <1>8 DEF HandInv

\* startTunnel's hand-over: connectFlow never runs before the session and the
\* stop it found have finished, however many connects and stops there are.
THEOREM HandOverCorrect == Spec => []HandOver
<1>1. HandInv => HandOver
  BY SMTT(60) DEF HandInv, HandOver, OwnsService, Owned, Owner, Cleaning,
     StopsJoined,
     TypeInv, TypeOK, TypeHandoff
<1> QED  BY <1>1, InitHand, NextHand, PTL DEF Spec


-----------------------------------------------------------------------------
(* Nobody waits in a circle.  Sessions join sessions and stops, stops join  *)
(* sessions, and a cancellation is what lets a joined session end: the      *)
(* safety half of NobodyWaitsForEver, for any number of connects and stops. *)

\* A session inside join(), which only the end of the one it joins or its own
\* cancellation lets go on.
SessionWaits(s) ==
  /\ ~cancelled[s]
  /\ \/ pc[s] = "joinRun" /\ ~Finished(previousRun[s])
     \/ /\ pc[s] = "joinStop" /\ previousStop[s] # 0
        /\ spc[previousStop[s]] # "done"

\* A stop coroutine inside join().
StopWaits(k) == spc[k] = "join" /\ ~Finished(job[k]) /\ main # "destroyed"

SessionRuns(s) == pc[s] \notin {"unborn", "done"} /\ ~SessionWaits(s)
StopRuns(k) == spc[k] \notin {"unborn", "done"} /\ ~StopWaits(k)

\* When a session or a stop waits, a coroutine that does not wait is on its
\* way; and every session that is waited for has been cancelled.
WaitsEnd ==
  /\ (\E s \in Sessions : SessionWaits(s)) \/ (\E k \in Stops : StopWaits(k)) =>
       (\E s \in Sessions : SessionRuns(s)) \/ (\E k \in Stops : StopRuns(k))
  /\ \A s \in Sessions :
       SessionWaits(s) /\ pc[s] = "joinRun" => cancelled[previousRun[s]]
  /\ \A k \in Stops : StopWaits(k) => cancelled[job[k]]

\* Sessions and stops exist as soon as they are counted.
Launched ==
  /\ \A s \in Sessions : s <= connects => pc[s] # "unborn"
  /\ \A k \in Stops : k <= stops => spc[k] # "unborn"

\* Who is joined was launched before: a session by a younger one, the session
\* of a stop by a session younger than it.
JoinsReachBack ==
  /\ \A k \in Stops : job[k] <= connects
  /\ \A s \in Sessions :
       /\ previousRun[s] < s
       /\ previousStop[s] <= stops
       /\ previousStop[s] # 0 => job[previousStop[s]] < s

\* Who is joined has been told to end: by the session past its first step, and
\* by the command that launched the stop.
Begun(l) == l \notin {"unborn", "new", "done"}
JoinedTold ==
  /\ \A k \in Stops : job[k] # 0 => cancelled[job[k]]
  /\ \A s \in Sessions :
       Begun(pc[s]) /\ previousRun[s] # 0 => cancelled[previousRun[s]]

JoinInv == Launched /\ JoinsReachBack /\ JoinedTold

\* What a step does to joins and cancellations: a cancellation is not taken
\* back; a stop that is launched joins the session it has just cancelled; a
\* session begins by cancelling the one it joins.
JoinStep ==
  /\ \A s \in Sessions : cancelled[s] => cancelled'[s]
  /\ \/ UNCHANGED <<stops, job>>
     \/ /\ stops' = stops + 1 /\ stops' \in Stops
        /\ job' = [job EXCEPT ![stops'] = runJob]
        /\ runJob # 0 => cancelled'[runJob]
  /\ \A s \in Sessions :
       Begun(pc'[s]) =>
         Begun(pc[s]) \/ (previousRun[s] # 0 => cancelled'[previousRun[s]])

\* Every step of the service treats joins and cancellations so.
LEMMA JoinSteps ==
  ASSUME TypeInv, [Next]_vars
  PROVE  JoinStep
<1>0. /\ cancelled \in [Sessions -> BOOLEAN] /\ pc \in [Sessions -> PCs]
      /\ runJob \in 0 .. MaxConnects /\ stops \in 0 .. MaxStops
  BY DEF TypeInv, TypeOK, TypePlace, TypeHandles, TypeHandoff, TypeStops
<1>1. ASSUME NEW what \in {"stop", "lockdown"}, LaunchStop(what)
      PROVE  /\ \A s \in Sessions : cancelled[s] => cancelled'[s]
             /\ stops' = stops + 1 /\ stops' \in Stops
             /\ job' = [job EXCEPT ![stops'] = runJob]
             /\ runJob # 0 => cancelled'[runJob]
  BY <1>0, <1>1 DEF LaunchStop
<1>2. ASSUME NEW s \in Sessions, SessionStep(s)
      PROVE  JoinStep
  <2>1. PICK l \in PCs : pc' = [pc EXCEPT ![s] = l]
    BY <1>2, SessionMoves DEF Moves, TypeInv, TypeOK
  <2>2. CASE Begin(s)
    <3>1. UNCHANGED stopping  BY <2>2 DEF Begin
    <3>2. previousRun[s] \in 0 .. MaxConnects  BY DEF TypeInv, TypeOK, TypeHandoff
    <3>3. \A t \in Sessions : cancelled[t] => cancelled'[t]
      BY <1>0, <2>2, <3>2 DEF Begin
    <3>4. Begun(pc'[s]) /\ previousRun[s] # 0 => cancelled'[previousRun[s]]
      BY <1>0, <2>2, <3>2 DEF Begin, Goto, Begun
    <3> QED  BY <1>0, <2>1, <3>1, <3>3, <3>4 DEF JoinStep
  <2>3. CASE ~Begin(s)
    <3>1. Begun(pc[s])
      BY <1>2, <2>3
         DEF Begun, SessionStep, Clean, JoinRun, JoinStop, Plan, Attempt,
             AwaitClosed, Launch, AwaitOpen, LaunchPsiphon, AwaitPsiphon,
             BringUp, SelfTest, NextRung, Report, SuperviseAlive, SuperviseEnds,
             SuperviseGivesUp, SuperviseRetries, WatchProbe, WatchExit, Backoff,
             Restop, Relaunch, Reopen, RelaunchPsiphon, ReopenPsiphon, Reverify,
             Retest, Rereport
    <3>2. \A t \in Sessions : Begun(pc'[t]) => Begun(pc[t])
      BY <1>0, <2>1, <3>1
    <3>3. CASE SuperviseGivesUp(s)
      <4>1. LaunchStop("lockdown") \/ UNCHANGED <<stops, job, cancelled>>
        BY <3>3 DEF SuperviseGivesUp
      <4> QED  BY <1>1, <3>2, <4>1 DEF JoinStep
    <3>4. CASE ~SuperviseGivesUp(s)
      <4>1. UNCHANGED <<stopping, cancelled>>
        BY <1>2, <2>3, <3>4
           DEF SessionStep, Clean, JoinRun, JoinStop, Plan, Attempt,
               AwaitClosed, Launch, AwaitOpen, LaunchPsiphon, AwaitPsiphon,
               BringUp, SelfTest, NextRung, Report, SuperviseAlive,
               SuperviseEnds, SuperviseRetries, WatchProbe, WatchExit, Backoff,
               Restop, Relaunch, Reopen, RelaunchPsiphon, ReopenPsiphon,
               Reverify, Retest, Rereport
      <4> QED  BY <3>2, <4>1 DEF JoinStep
    <3> QED  BY <3>3, <3>4
  <2> QED  BY <2>2, <2>3
<1>3. CASE \E k \in Stops : StopStep(k)
  <2>1. UNCHANGED <<stops, job, cancelled, pc>>
    BY <1>3 DEF StopStep, StopBegin, StopClean, StopEstablish, StopPublish, StopJoin
  <2> QED  BY <2>1 DEF JoinStep
<1>4. CASE \E p \in Profiles : Connect(p)
  <2>1. UNCHANGED <<stopping, cancelled>> /\ pc' = [pc EXCEPT ![connects + 1] = "new"]
    BY <1>4 DEF Connect
  <2> QED  BY <1>0, <2>1 DEF JoinStep, Begun
<1>5. CASE Disconnect \/ Revoke
  <2>1. LaunchStop("stop") \/ LaunchStop("lockdown")
    BY <1>5 DEF Disconnect, Revoke, stopEverything
  <2>2. UNCHANGED pc  BY <1>5 DEF Disconnect, Revoke
  <2> QED  BY <1>1, <2>1, <2>2 DEF JoinStep
<1>6. CASE Destroy
  <2>1. UNCHANGED <<stopping, pc>>  BY <1>6 DEF Destroy
  <2>2. \A s \in Sessions : cancelled[s] => cancelled'[s]  BY <1>0, <1>6 DEF Destroy
  <2> QED  BY <2>1, <2>2 DEF JoinStep
<1>7. CASE EngineStep \/ PsiphonStep \/ ReapStep
  BY <1>7 DEF EngineStep, PsiphonStep, ReapStep, JoinStep
<1>8. CASE UNCHANGED vars  BY <1>8 DEF vars, JoinStep
<1> QED  BY <1>2, <1>3, <1>4, <1>5, <1>6, <1>7, <1>8 DEF Next

\* A connect finds the session and the stop it will join in runJob and stopJob.
LEMMA ConnectReachesBack ==
  ASSUME TypeInv, JoinsReachBack, NEW p \in Profiles, Connect(p)
  PROVE  JoinsReachBack'
<1>0. /\ connects + 1 \in Sessions /\ connects \in Nat /\ stops \in Nat
      /\ runJob \in 0 .. connects /\ stopJob \in 0 .. stops /\ stops <= MaxStops
      /\ previousRun \in [Sessions -> 0 .. MaxConnects]
      /\ previousStop \in [Sessions -> 0 .. MaxStops]
      /\ job \in [Stops -> 0 .. MaxConnects]
  <2>1. connects < MaxConnects  BY DEF Connect
  <2>2. /\ connects \in 0 .. MaxConnects
        /\ previousRun \in [Sessions -> 0 .. MaxConnects]
        /\ previousStop \in [Sessions -> 0 .. MaxStops]
    BY DEF TypeInv, TypeOK, TypeHandoff
  <2>3. stops \in 0 .. MaxStops /\ job \in [Stops -> 0 .. MaxConnects]
    BY DEF TypeInv, TypeOK, TypeStops
  <2>4. runJob \in 0 .. connects /\ stopJob \in 0 .. stops
    BY DEF TypeInv, TypeOK, TypeHandles
  <2> QED  BY <2>1, <2>2, <2>3, <2>4
<1>1. /\ connects' = connects + 1 /\ UNCHANGED <<stops, job>>
      /\ previousRun' = [previousRun EXCEPT ![connects + 1] = runJob]
      /\ previousStop' = [previousStop EXCEPT ![connects + 1] = stopJob]
  BY DEF Connect
<1>2. \A k \in Stops : job'[k] <= connects'
  BY <1>0, <1>1 DEF JoinsReachBack
<1>3. ASSUME NEW s \in Sessions
      PROVE  /\ previousRun'[s] < s
             /\ previousStop'[s] <= stops'
             /\ previousStop'[s] # 0 => job'[previousStop'[s]] < s
  <2>1. CASE s = connects + 1
    <3>1. previousRun'[s] = runJob /\ previousStop'[s] = stopJob
      BY <1>0, <1>1, <2>1
    <3>2. stopJob # 0 => job[stopJob] <= connects
      BY <1>0 DEF JoinsReachBack
    <3>3. stopJob # 0 => job[stopJob] < s
      BY <1>0, <2>1, <3>2
    <3> QED  BY <1>0, <1>1, <2>1, <3>1, <3>3
  <2>2. CASE s # connects + 1
    <3>1. previousRun'[s] = previousRun[s] /\ previousStop'[s] = previousStop[s]
      BY <1>0, <1>1, <2>2
    <3> QED  BY <1>1, <3>1 DEF JoinsReachBack
  <2> QED  BY <2>1, <2>2
<1> QED  BY <1>2, <1>3 DEF JoinsReachBack

\* Every step keeps the order of the joins.
LEMMA NextReachesBack ==
  ASSUME TypeInv, JoinsReachBack, [Next]_vars
  PROVE  JoinsReachBack'
<1>0. /\ connects \in Nat /\ stops \in Nat /\ runJob \in 0 .. connects
      /\ connects <= MaxConnects
      /\ previousStop \in [Sessions -> 0 .. MaxStops]
      /\ job \in [Stops -> 0 .. MaxConnects]
  <2>1. connects \in 0 .. MaxConnects /\ previousStop \in [Sessions -> 0 .. MaxStops]
    BY DEF TypeInv, TypeOK, TypeHandoff
  <2>2. stops \in 0 .. MaxStops /\ job \in [Stops -> 0 .. MaxConnects]
    BY DEF TypeInv, TypeOK, TypeStops
  <2>3. runJob \in 0 .. connects  BY DEF TypeInv, TypeOK, TypeHandles
  <2> QED  BY <2>1, <2>2, <2>3
<1>1. CASE \E p \in Profiles : Connect(p)
  BY <1>1, ConnectReachesBack
<1>2. CASE UNCHANGED <<previousRun, previousStop, connects>>
  <2>1. JoinStep  BY JoinSteps
  <2>2. CASE UNCHANGED <<stops, job>>
    BY <1>2, <2>2 DEF JoinsReachBack
  <2>3. CASE /\ stops' = stops + 1 /\ stops' \in Stops
             /\ job' = [job EXCEPT ![stops'] = runJob]
    <3>1. \A k \in Stops : job'[k] <= connects
      BY <1>0, <2>3 DEF JoinsReachBack
    <3>2. ASSUME NEW s \in Sessions
          PROVE  /\ previousStop[s] <= stops'
                 /\ previousStop[s] # 0 => job'[previousStop[s]] < s
      <4>1. previousStop[s] <= stops /\ previousStop[s] \in 0 .. MaxStops
        BY <1>0 DEF JoinsReachBack
      <4>2. previousStop[s] # stops'  BY <1>0, <2>3, <4>1
      <4>3. previousStop[s] # 0 => job'[previousStop[s]] = job[previousStop[s]]
        BY <1>0, <2>3, <4>1, <4>2
      <4>4. previousStop[s] <= stops'  BY <1>0, <2>3, <4>1
      <4> QED  BY <4>3, <4>4 DEF JoinsReachBack
    <3> QED  BY <1>2, <3>1, <3>2 DEF JoinsReachBack
  <2> QED  BY <2>1, <2>2, <2>3 DEF JoinStep
<1> QED  BY <1>1, <1>2, StepShape DEF Shape, PlaceMove, Places, Moves

\* Every step keeps counted coroutines launched, and who is joined told.
LEMMA NextJoin == HandInv /\ JoinInv /\ [Next]_vars => JoinInv'
<1> SUFFICES ASSUME HandInv, JoinInv, [Next]_vars PROVE JoinInv'  OBVIOUS
<1>0. /\ TypeInv /\ TypeInv' /\ UnbornStops
      /\ Launched /\ JoinsReachBack /\ JoinedTold
  BY NextType DEF HandInv, JoinInv
<1>1. Shape /\ JoinStep  BY <1>0, StepShape, JoinSteps
<1>2. JoinsReachBack'  BY <1>0, NextReachesBack
<1>3. Launched'
  <2>1. ASSUME NEW s \in Sessions, s <= connects'
        PROVE  pc'[s] # "unborn"
    <3>1. CASE UNCHANGED Places  BY <1>0, <2>1, <3>1 DEF Places, Launched
    <3>2. CASE \E t \in Sessions : Moves(t)
      <4> PICK t \in Sessions : Moves(t)  BY <3>2
      <4>1. pc[s] # "unborn" /\ pc \in [Sessions -> PCs]
        BY <1>0, <2>1 DEF Moves, Launched, TypeInv, TypeOK, TypePlace
      <4>2. PICK l \in PCs \ {"unborn"} : pc' = [pc EXCEPT ![t] = l]
        BY DEF Moves
      <4> QED  BY <4>1, <4>2
    <3>3. CASE \E p \in Profiles : Connect(p)
      <4>1. /\ connects' = connects + 1 /\ pc' = [pc EXCEPT ![connects + 1] = "new"]
            /\ connects \in Nat /\ pc \in [Sessions -> PCs]
        BY <1>0, <3>3 DEF Connect, TypeInv, TypeOK, TypeHandoff, TypePlace
      <4> QED  BY <1>0, <2>1, <4>1 DEF Launched
    <3> QED  BY <1>1, <3>1, <3>2, <3>3 DEF Shape, PlaceMove
  <2>2. ASSUME NEW k \in Stops, k <= stops'
        PROVE  spc'[k] # "unborn"
    <3>1. spc \in [Stops -> StopPCs] /\ stops \in Nat
      BY <1>0 DEF TypeInv, TypeOK, TypeStops
    <3>2. StopsMove  BY <1>1 DEF Shape
    <3> QED  BY <1>0, <2>2, <3>1, <3>2 DEF StopsMove, Launched
  <2> QED  BY <2>1, <2>2 DEF Launched
<1>4. JoinedTold'
  <2>0. /\ \A s \in Sessions : cancelled[s] => cancelled'[s]
        /\ job \in [Stops -> 0 .. MaxConnects]
        /\ previousRun \in [Sessions -> 0 .. MaxConnects]
        /\ runJob \in 0 .. MaxConnects
    <3>1. \A s \in Sessions : cancelled[s] => cancelled'[s]
      BY <1>1 DEF JoinStep
    <3>2. /\ job \in [Stops -> 0 .. MaxConnects]
          /\ previousRun \in [Sessions -> 0 .. MaxConnects]
          /\ connects \in 0 .. MaxConnects /\ runJob \in 0 .. connects
      BY <1>0 DEF TypeInv, TypeOK, TypeStops, TypeHandoff, TypeHandles
    <3>3. runJob \in 0 .. MaxConnects  BY <3>2
    <3> QED  BY <3>1, <3>2, <3>3
  <2>1. ASSUME NEW k \in Stops, job'[k] # 0
        PROVE  cancelled'[job'[k]]
    <3>1. job[k] # 0 => cancelled[job[k]]  BY <1>0 DEF JoinedTold
    <3>2. job[k] # 0 => cancelled'[job[k]]  BY <2>0, <3>1
    <3>3. CASE UNCHANGED <<stops, job>>  BY <2>1, <3>2, <3>3
    <3>4. CASE /\ stops' = stops + 1 /\ stops' \in Stops
               /\ job' = [job EXCEPT ![stops'] = runJob]
               /\ runJob # 0 => cancelled'[runJob]
      BY <2>0, <2>1, <3>2, <3>4
    <3> QED  BY <1>1, <3>3, <3>4 DEF JoinStep
  <2>2. ASSUME NEW s \in Sessions, Begun(pc'[s]), previousRun'[s] # 0
        PROVE  cancelled'[previousRun'[s]]
    <3>1. CASE UNCHANGED previousRun
      <4>1. Begun(pc[s]) => cancelled[previousRun[s]]
        BY <1>0, <2>2, <3>1 DEF JoinedTold
      <4>2. previousRun[s] \in Sessions  BY <2>0, <2>2, <3>1
      <4>3. Begun(pc[s]) \/ cancelled'[previousRun[s]]
        BY <1>1, <2>2, <3>1 DEF JoinStep
      <4> QED  BY <2>0, <3>1, <4>1, <4>2, <4>3
    <3>2. CASE \E p \in Profiles : Connect(p)
      <4>1. /\ previousRun' = [previousRun EXCEPT ![connects + 1] = runJob]
            /\ pc' = [pc EXCEPT ![connects + 1] = "new"]
            /\ UNCHANGED cancelled
        BY <3>2 DEF Connect
      <4>2. s # connects + 1
        BY <1>0, <2>2, <4>1 DEF Begun, TypeInv, TypeOK, TypePlace
      <4>3. previousRun'[s] = previousRun[s] /\ pc'[s] = pc[s]
        BY <1>0, <2>0, <4>1, <4>2 DEF TypeInv, TypeOK, TypePlace
      <4> QED  BY <1>0, <2>2, <4>1, <4>3 DEF JoinedTold
    <3> QED  BY <1>1, <3>1, <3>2 DEF Shape, PlaceMove, Places, Moves
  <2> QED  BY <2>1, <2>2 DEF JoinedTold
<1> QED  BY <1>2, <1>3, <1>4 DEF JoinInv

\* A set of numbers that is not empty has a least one.
LEMMA LeastNumber ==
  ASSUME NEW S \in SUBSET Nat, S # {}
  PROVE  \E m \in S : \A n \in S : m <= n
<1>1. PICK m \in S : \A y \in S : <<y, m>> \notin OpToRel(<, Nat)
  BY NatLessThanWellFounded, WFMin
<1>2. \A y \in S : ~(y < m)  BY <1>1 DEF OpToRel
<1> QED  BY <1>2

\* The oldest session that has not ended does not wait, or it waits for a stop
\* that does not: what that stop joins is older still, and has ended.
LEMMA OldestRuns ==
  ASSUME TypeInv, JoinInv, \E s \in Sessions : pc[s] \notin {"unborn", "done"}
  PROVE  (\E s \in Sessions : SessionRuns(s)) \/ (\E k \in Stops : StopRuns(k))
<1> DEFINE Alive == {s \in Sessions : pc[s] \notin {"unborn", "done"}}
<1>1. PICK s \in Alive : \A t \in Alive : s <= t
  <2>1. Alive \in SUBSET Nat /\ Alive # {}  OBVIOUS
  <2> HIDE DEF Alive
  <2> QED  BY <2>1, LeastNumber
<1>2. s \in Sessions /\ pc[s] \notin {"unborn", "done"} /\ s <= connects
  BY <1>1 DEF TypeInv, Unborn, TypeOK, TypeHandoff
<1>3. ASSUME NEW t \in 0 .. MaxConnects, t < s
      PROVE  Finished(t)
  <2>1. CASE t = 0  BY <2>1 DEF Finished
  <2>2. CASE t # 0
    <3>1. t \in Sessions /\ t <= connects /\ t \notin Alive
      BY <1>1, <1>2, <1>3, <2>2 DEF TypeInv, TypeOK, TypeHandoff
    <3> QED  BY <3>1 DEF Finished, JoinInv, Launched
  <2> QED  BY <2>1, <2>2
<1>4. CASE ~SessionWaits(s)  BY <1>2, <1>4 DEF SessionRuns
<1>5. CASE SessionWaits(s)
  <2>1. Finished(previousRun[s])
    BY <1>2, <1>3 DEF JoinInv, JoinsReachBack, TypeInv, TypeOK, TypeHandoff
  <2> DEFINE k == previousStop[s]
  <2>2. k \in Stops /\ spc[k] # "done" /\ k <= stops
    <3>1. k # 0 /\ spc[k] # "done"  BY <1>5, <2>1 DEF SessionWaits
    <3>2. k \in 0 .. MaxStops /\ k <= stops
      BY <1>2 DEF JoinInv, JoinsReachBack, TypeInv, TypeOK, TypeHandoff
    <3> QED  BY <3>1, <3>2
  <2>3. spc[k] # "unborn"  BY <2>2 DEF JoinInv, Launched
  <2>4. job[k] \in 0 .. MaxConnects /\ job[k] < s
    BY <1>2, <2>2 DEF JoinInv, JoinsReachBack, TypeInv, TypeOK, TypeStops
  <2>5. Finished(job[k])  BY <1>3, <2>4
  <2> QED  BY <2>2, <2>3, <2>5 DEF StopRuns, StopWaits
<1> QED  BY <1>4, <1>5

\* startTunnel and stopEverything never leave the service with everyone in
\* join(): however many connects and stops there are, some coroutine that does
\* not wait is on its way, and whoever is joined has been cancelled
\* (AetherVpnService.kt startTunnel, stopEverything, enterLockdown).
THEOREM NoStandstill == Spec => []WaitsEnd
<1>1. Init => JoinInv
  BY DEF Init, JoinInv, Launched, JoinsReachBack, JoinedTold, Begun
<1>2. HandInv /\ JoinInv => WaitsEnd
  <2> SUFFICES ASSUME HandInv, JoinInv PROVE WaitsEnd  OBVIOUS
  <2>0. /\ TypeInv /\ JoinedTold /\ previousRun \in [Sessions -> 0 .. MaxConnects]
        /\ job \in [Stops -> 0 .. MaxConnects]
    BY DEF HandInv, JoinInv, TypeInv, TypeOK, TypeHandoff, TypeStops
  <2>1. ASSUME NEW s \in Sessions, SessionWaits(s)
        PROVE  (\E t \in Sessions : SessionRuns(t)) \/ (\E k \in Stops : StopRuns(k))
    <3>1. pc[s] \notin {"unborn", "done"}  BY <2>1 DEF SessionWaits
    <3> QED  BY <2>0, <3>1, OldestRuns
  <2>2. ASSUME NEW k \in Stops, StopWaits(k)
        PROVE  (\E t \in Sessions : SessionRuns(t)) \/ (\E j \in Stops : StopRuns(j))
    <3>1. job[k] \in Sessions /\ pc[job[k]] # "done"
      BY <2>0, <2>2 DEF StopWaits, Finished
    <3>2. job[k] <= connects  BY DEF JoinInv, JoinsReachBack
    <3>3. pc[job[k]] # "unborn"  BY <3>1, <3>2 DEF JoinInv, Launched
    <3> QED  BY <2>0, <3>1, <3>3, OldestRuns
  <2>3. ASSUME NEW s \in Sessions, SessionWaits(s), pc[s] = "joinRun"
        PROVE  cancelled[previousRun[s]]
    <3>1. previousRun[s] # 0 /\ Begun(pc[s])
      BY <2>3 DEF SessionWaits, Finished, Begun
    <3> QED  BY <2>0, <3>1 DEF JoinedTold
  <2>4. ASSUME NEW k \in Stops, StopWaits(k)
        PROVE  cancelled[job[k]]
    <3>1. job[k] # 0  BY <2>4 DEF StopWaits, Finished
    <3> QED  BY <2>0, <3>1 DEF JoinedTold
  <2> QED  BY <2>1, <2>2, <2>3, <2>4 DEF WaitsEnd
<1> QED  BY <1>1, <1>2, InitHand, NextHand, NextJoin, PTL DEF Spec

-----------------------------------------------------------------------------
(* The first session.  A second connect, or a disconnect in mid-launch, can *)
(* leave a process that nobody holds (v2_engine_left).  As long as neither  *)
(* has come, every process has its handle, whatever fails and however often *)
(* the ladder and the supervisor start over, and a lockdown that the        *)
(* supervisor enters stops all of them.                                     *)

QuietAether == \A i \in Pids : ~Running(aether, i)
QuietPsi == \A i \in Pids : ~Running(psi, i)

\* Where a session has no engine, and where it has no Psiphon.
AetherDown == {"unborn", "new", "joinStop", "plan", "attempt", "nextRung", "clean3",
               "awaitClosed", "launch", "relaunch"}
PsiDown == AetherDown \cup {"clean2", "awaitOpen", "launchPsi", "reopen", "relaunchPsi"}

\* Who is in charge: the session until it hands over to its lockdown.
FirstCommands ==
  /\ main = "loop"
  /\ connects = 0 => stops = 0 /\ runJob = 0 /\ QuietAether /\ QuietPsi
  /\ connects = 0 => \A s \in Sessions : ~cancelled[s]
  /\ connects = 1 => started /\ previousRun[1] = 0 /\ previousStop[1] = 0
  /\ stops = 0 => stopJob = 0
  /\ stops = 0 /\ connects = 1 => runJob = 1 /\ ~cancelled[1]
  /\ stops > 0 => stops = 1 /\ connects = 1 /\ runJob = 0 /\ pc[1] = "done" /\ kind[1] = "lockdown"

\* What runs where the session is.
FirstProcesses ==
  /\ HandlesHeld
  /\ connects = 1 =>
       /\ pc[1] \in PsiDown => QuietPsi
       /\ pc[1] \in AetherDown => QuietAether
       /\ pc[1] = "done" /\ stops = 0 => QuietAether /\ QuietPsi
       /\ pc[1] # "joinRun" /\ (pc[1] \in Cleaning => after[1] # "joinRun")

\* What is left where the lockdown is.
FirstLockdown ==
  /\ stops = 0 => state # "Lockdown"
  /\ stops = 1 =>
       /\ spc[1] \in {"new", "clean1", "clean2", "clean3", "establish", "join", "done"}
       /\ state = "Lockdown" => spc[1] \in {"join", "done"}
       /\ spc[1] \notin {"new", "clean1"} => QuietPsi /\ ~forwarding
       /\ spc[1] \in {"clean3", "establish", "join", "done"} => QuietAether
       /\ spc[1] \in {"establish", "join", "done"} => tun # "forward"

FirstInv == FirstCommands /\ FirstProcesses /\ FirstLockdown
FirstSessionInv == (connects = 0 => ~lastStrict) /\ (FirstSession => FirstInv)

\* stop() of the one process that runs leaves none.
LEMMA KillQuiet ==
  ASSUME NEW f \in [Pids -> Status], NEW h \in 0 .. MaxPids,
         \A i \in Pids : Running(f, i) => h = i
  PROVE  \A i \in Pids : ~Running(Killed(f, h), i)
  BY DEF Running, Killed, Status

\* Before the first command nothing runs.
LEMMA FirstInit == Init => FirstSessionInv
<1> SUFFICES ASSUME Init  PROVE FirstInv  BY DEF FirstSessionInv, Init
<1>1. QuietAether /\ QuietPsi  BY DEF Init, QuietAether, QuietPsi, Running
<1>2. HandlesHeld  BY <1>1 DEF HandlesHeld, QuietAether, QuietPsi
<1>3. FirstCommands  BY <1>1 DEF Init, FirstCommands
<1>4. FirstProcesses  BY <1>2 DEF Init, FirstProcesses
<1>5. FirstLockdown  BY DEF Init, FirstLockdown
<1> QED  BY <1>3, <1>4, <1>5 DEF FirstInv

\* A session that moves is the first one, in charge and not cancelled.
LEMMA FirstMover ==
  ASSUME TypeInv, FirstSession, FirstInv, NEW s \in Sessions, SessionStep(s)
  PROVE  /\ s = 1 /\ connects = 1 /\ stops = 0 /\ runJob = 1 /\ ~cancelled[1]
         /\ previousRun[1] = 0 /\ previousStop[1] = 0
<1>1. Moves(s)  BY SessionMoves DEF TypeInv, TypeOK
<1>2. pc[s] \notin {"unborn", "done"}  BY <1>1 DEF Moves
<1>3. s <= connects  BY <1>2 DEF TypeInv, Unborn, TypeOK, TypeHandoff
<1>4. connects = 1 /\ s = 1
  BY <1>3 DEF FirstSession, TypeInv, TypeOK, TypeHandoff
<1>5. stops = 0
  BY <1>2, <1>4 DEF FirstInv, FirstCommands, TypeInv, TypeOK, TypeStops
<1> QED  BY <1>4, <1>5 DEF FirstInv, FirstCommands

\* While the session does not give up, nobody else has anything to do.
LEMMA FirstKeepsCommand ==
  ASSUME TypeInv, TypeInv', FirstSession, FirstInv, NEW s \in Sessions, SessionStep(s),
         ~SuperviseGivesUp(s)
  PROVE  FirstCommands' /\ FirstLockdown'
<1>1. /\ s = 1 /\ connects = 1 /\ stops = 0 /\ runJob = 1 /\ ~cancelled[1]
      /\ previousRun[1] = 0 /\ previousStop[1] = 0
  BY FirstMover
<1>2. UNCHANGED <<main, connects, stops, runJob, stopJob, started, previousRun, previousStop>>
  BY DEF SessionStep, Begin, Clean, JoinRun, JoinStop, Plan, Attempt,
     AwaitClosed, Launch, AwaitOpen, LaunchPsiphon, AwaitPsiphon,
     BringUp, SelfTest, NextRung, Report, SuperviseAlive, SuperviseEnds,
     SuperviseRetries, WatchProbe, WatchExit, Backoff,
     Restop, Relaunch, Reopen, RelaunchPsiphon, ReopenPsiphon, Reverify,
     Retest, Rereport
<1>3. UNCHANGED cancelled
  <2>1. CASE Begin(s)  BY <1>1, <2>1 DEF Begin
  <2>2. CASE ~Begin(s)
    BY <2>2 DEF SessionStep, Clean, JoinRun, JoinStop, Plan, Attempt,
       AwaitClosed, Launch, AwaitOpen, LaunchPsiphon, AwaitPsiphon,
       BringUp, SelfTest, NextRung, Report, SuperviseAlive, SuperviseEnds,
       SuperviseRetries, WatchProbe, WatchExit, Backoff,
       Restop, Relaunch, Reopen, RelaunchPsiphon, ReopenPsiphon, Reverify,
       Retest, Rereport
  <2> QED  BY <2>1, <2>2
<1>4. state' \in {state, "Launching", "Connecting", "Verifying", "Connected", "Reconnecting", "Error"}
  BY DEF SessionStep, SetState, FlowFails, Begin, Clean, JoinRun, JoinStop, Plan, Attempt,
     AwaitClosed, Launch, AwaitOpen, LaunchPsiphon, AwaitPsiphon,
     BringUp, SelfTest, NextRung, Report, SuperviseAlive, SuperviseEnds,
     SuperviseRetries, WatchProbe, WatchExit, Backoff,
     Restop, Relaunch, Reopen, RelaunchPsiphon, ReopenPsiphon, Reverify,
     Retest, Rereport
<1>5. FirstCommands'  BY <1>1, <1>2, <1>3 DEF FirstInv, FirstCommands
<1>6. state # "Lockdown"  BY <1>1 DEF FirstInv, FirstLockdown
<1>7. FirstLockdown'  BY <1>1, <1>2, <1>4, <1>6 DEF FirstLockdown
<1> QED  BY <1>5, <1>7

\* Which processes run after a step of the first session.
LEMMA FirstKeepsProcesses ==
  ASSUME TypeInv, TypeInv', FirstSession, FirstInv, NEW s \in Sessions, SessionStep(s)
  PROVE  FirstProcesses'
<1>1. /\ s = 1 /\ connects = 1 /\ stops = 0 /\ runJob = 1 /\ ~cancelled[1]
      /\ previousRun[1] = 0 /\ previousStop[1] = 0
  BY FirstMover
<1>2. /\ pc \in [Sessions -> PCs] /\ after \in [Sessions -> Returns] /\ 1 \in Sessions
      /\ aether \in [Pids -> Status] /\ psi \in [Pids -> Status]
      /\ engine \in 0 .. MaxPids /\ psiphonEngine \in 0 .. MaxPids
  BY <1>1 DEF TypeInv, TypeOK, TypePlace, TypeOS, TypeHandles
<1>3. /\ HandlesHeld
      /\ pc[1] \in PsiDown => QuietPsi
      /\ pc[1] \in AetherDown => QuietAether
      /\ pc[1] # "joinRun" /\ (pc[1] \in Cleaning => after[1] # "joinRun")
  BY <1>1 DEF FirstInv, FirstProcesses
<1>4. (\A i \in Pids : ~Running(Killed(aether, engine), i))
      /\ (\A i \in Pids : ~Running(Killed(psi, psiphonEngine), i))
  BY <1>2, <1>3, KillQuiet DEF HandlesHeld
<1> DEFINE Place == pc'[1] # "joinRun" /\ (pc'[1] \in Cleaning => after'[1] # "joinRun")
           Still == /\ UNCHANGED <<aether, psi, engine, psiphonEngine>> /\ Place
                    /\ pc'[1] # "done" \/ stops' # 0
                    /\ pc'[1] \in PsiDown => pc[1] \in PsiDown
                    /\ pc'[1] \in AetherDown => pc[1] \in AetherDown
<1>5. ASSUME Still  PROVE FirstProcesses'
  <2>1. QuietAether' <=> QuietAether  BY <1>5 DEF QuietAether, Running
  <2>2. QuietPsi' <=> QuietPsi  BY <1>5 DEF QuietPsi, Running
  <2>3. HandlesHeld'  BY <1>3, <1>5 DEF HandlesHeld, Running
  <2> QED  BY <1>3, <1>5, <2>1, <2>2, <2>3 DEF FirstProcesses
<1>6. ASSUME QuietAether', QuietPsi', Place  PROVE FirstProcesses'
  BY <1>6 DEF FirstProcesses, HandlesHeld, QuietAether, QuietPsi
<1>7. StopBoth => QuietAether' /\ QuietPsi'
  BY <1>4 DEF StopBoth, QuietAether, QuietPsi, Running
<1> USE DEF Goto, RungFails, FlowFails
<1>8. Begin(s) => Still
  BY <1>1, <1>2, <1>3 DEF Begin, PsiDown, AetherDown, Cleaning
<1>9. JoinRun(s) => Still
  BY <1>1, <1>2, <1>3 DEF JoinRun, PsiDown, AetherDown, Cleaning
<1>10. JoinStop(s) => Still
  BY <1>1, <1>2, <1>3 DEF JoinStop, PsiDown, AetherDown, Cleaning
<1>11. Plan(s) => Still
  BY <1>1, <1>2, <1>3 DEF Plan, PsiDown, AetherDown, Cleaning
<1>12. Attempt(s) => Still
  BY <1>1, <1>2, <1>3 DEF Attempt, PsiDown, AetherDown, Cleaning
<1>13. AwaitClosed(s) => Still
  BY <1>1, <1>2, <1>3 DEF AwaitClosed, PsiDown, AetherDown, Cleaning
<1>14. AwaitOpen(s) => Still
  BY <1>1, <1>2, <1>3 DEF AwaitOpen, WaitCancelled, PsiDown, AetherDown, Cleaning
<1>15. AwaitPsiphon(s) => Still
  BY <1>1, <1>2, <1>3 DEF AwaitPsiphon, WaitCancelled, PsiDown, AetherDown, Cleaning
<1>16. BringUp(s) => Still
  BY <1>1, <1>2, <1>3 DEF BringUp, PsiDown, AetherDown, Cleaning
<1>17. SelfTest(s) => Still
  BY <1>1, <1>2, <1>3 DEF SelfTest, PsiDown, AetherDown, Cleaning
<1>18. NextRung(s) => Still
  BY <1>1, <1>2, <1>3 DEF NextRung, PsiDown, AetherDown, Cleaning
<1>19. Report(s) => Still
  BY <1>1, <1>2, <1>3 DEF Report, PsiDown, AetherDown, Cleaning
<1>20. SuperviseAlive(s) => Still
  BY <1>1, <1>2, <1>3 DEF SuperviseAlive, PsiDown, AetherDown, Cleaning
<1>21. SuperviseEnds(s) => Still
  BY <1>1, <1>2, <1>3 DEF SuperviseEnds, currentScopeActive, PsiDown, AetherDown, Cleaning
<1>22. SuperviseRetries(s) => Still
  BY <1>1, <1>2, <1>3 DEF SuperviseRetries, PsiDown, AetherDown, Cleaning
<1>23. WatchExit(s) => Still
  BY <1>1, <1>2, <1>3 DEF WatchExit, PsiDown, AetherDown, Cleaning
<1>24. Backoff(s) => Still
  BY <1>1, <1>2, <1>3 DEF Backoff, PsiDown, AetherDown, Cleaning
<1>25. Reopen(s) => Still
  BY <1>1, <1>2, <1>3 DEF Reopen, WaitCancelled, PsiDown, AetherDown, Cleaning
<1>26. Reverify(s) => Still
  BY <1>1, <1>2, <1>3 DEF Reverify, PsiDown, AetherDown, Cleaning
<1>27. Rereport(s) => Still
  BY <1>1, <1>2, <1>3 DEF Rereport, PsiDown, AetherDown, Cleaning
<1>28. SuperviseGivesUp(s) => Still
  BY <1>1, <1>2, <1>3 DEF SuperviseGivesUp, LaunchStop, PsiDown, AetherDown, Cleaning
<1>29. CASE Clean(s)
  <2>1. CASE pc[1] = "clean1" /\ CleanForwarder
    <3>1. QuietPsi'  BY <1>4, <2>1 DEF CleanForwarder, QuietPsi, Running
    <3>2. pc'[1] = "clean2" /\ after'[1] = after[1]  BY <1>1, <1>2, <1>29, <2>1 DEF Clean
    <3>3. HandlesHeld'  BY <1>3, <2>1, <3>1 DEF CleanForwarder, HandlesHeld, QuietPsi, Running
    <3> QED  BY <1>3, <2>1, <3>1, <3>2, <3>3 DEF FirstProcesses, AetherDown, Cleaning
  <2>2. CASE pc[1] = "clean2" /\ CleanEngine
    <3>1. QuietAether'  BY <1>4, <2>2 DEF CleanEngine, QuietAether, Running
    <3>2. QuietPsi'  BY <1>3, <2>2 DEF CleanEngine, QuietPsi, Running, PsiDown
    <3>3. pc'[1] = "clean3" /\ after'[1] = after[1]  BY <1>1, <1>2, <1>29, <2>2 DEF Clean
    <3> QED  BY <1>3, <1>6, <2>2, <3>1, <3>2, <3>3 DEF Cleaning
  <2>3. CASE pc[1] = "clean3" /\ CleanTun
    <3>1. QuietAether' /\ QuietPsi'
      BY <1>3, <2>3 DEF CleanTun, QuietAether, QuietPsi, Running, PsiDown, AetherDown
    <3>2. pc'[1] = after[1]  BY <1>1, <1>2, <1>29, <2>3 DEF Clean
    <3> QED  BY <1>2, <1>3, <1>6, <2>3, <3>1, <3>2 DEF Cleaning, Returns
  <2> QED  BY <1>1, <1>29, <2>1, <2>2, <2>3 DEF Clean
<1>30. CASE Launch(s)
  <2>1. CASE SpawnEngine
    <3>0. pc[1] = "launch" /\ UNCHANGED <<psi, psiphonEngine>>  BY <1>1, <1>30 DEF Launch
    <3>1. \A i \in Pids : ~Running(aether, i)  BY <1>3, <3>0 DEF PsiDown, AetherDown, QuietAether
    <3>2. PICK j \in Pids : aether' = [aether EXCEPT ![j] = "alive"] /\ engine' = j
      BY <2>1 DEF SpawnEngine
    <3>4. \A i \in Pids : Running(aether, i)' => engine' = i
      BY <1>2, <3>1, <3>2 DEF Running
    <3>5. HandlesHeld'  BY <1>3, <3>0, <3>4 DEF HandlesHeld, Running
    <3>6. QuietPsi'  BY <1>3, <3>0 DEF PsiDown, AetherDown, QuietPsi, Running
    <3>3. pc'[1] = "awaitOpen"  BY <1>1, <1>2, <1>30, <2>1 DEF Launch, SpawnEngine
    <3> QED  BY <3>3, <3>5, <3>6 DEF FirstProcesses, PsiDown, AetherDown, Cleaning
  <2>2. CASE ~SpawnEngine
    <3>1. Still  BY <1>1, <1>2, <1>30, <2>2 DEF Launch, PsiDown, AetherDown, Cleaning
    <3> QED  BY <1>5, <3>1
  <2> QED  BY <2>1, <2>2
<1>31. CASE Relaunch(s)
  <2>1. CASE SpawnEngine
    <3>0. pc[1] = "relaunch" /\ UNCHANGED <<psi, psiphonEngine>>  BY <1>1, <1>31 DEF Relaunch
    <3>1. \A i \in Pids : ~Running(aether, i)  BY <1>3, <3>0 DEF PsiDown, AetherDown, QuietAether
    <3>2. PICK j \in Pids : aether' = [aether EXCEPT ![j] = "alive"] /\ engine' = j
      BY <2>1 DEF SpawnEngine
    <3>4. \A i \in Pids : Running(aether, i)' => engine' = i
      BY <1>2, <3>1, <3>2 DEF Running
    <3>5. HandlesHeld'  BY <1>3, <3>0, <3>4 DEF HandlesHeld, Running
    <3>6. QuietPsi'  BY <1>3, <3>0 DEF PsiDown, AetherDown, QuietPsi, Running
    <3>3. pc'[1] = "reopen"  BY <1>1, <1>2, <1>31, <2>1 DEF Relaunch, SpawnEngine
    <3> QED  BY <3>3, <3>5, <3>6 DEF FirstProcesses, PsiDown, AetherDown, Cleaning
  <2>2. CASE ~SpawnEngine
    <3>1. Still  BY <1>1, <1>2, <1>31, <2>2 DEF Relaunch, PsiDown, AetherDown, Cleaning
    <3> QED  BY <1>5, <3>1
  <2> QED  BY <2>1, <2>2
<1>32. CASE LaunchPsiphon(s)
  <2>1. CASE SpawnPsiphon
    <3>0. pc[1] = "launchPsi" /\ UNCHANGED <<aether, engine>>  BY <1>1, <1>32 DEF LaunchPsiphon
    <3>1. \A i \in Pids : ~Running(psi, i)  BY <1>3, <3>0 DEF PsiDown, AetherDown, QuietPsi
    <3>2. PICK j \in Pids : psi' = [psi EXCEPT ![j] = "alive"] /\ psiphonEngine' = j
      BY <2>1 DEF SpawnPsiphon
    <3>4. \A i \in Pids : Running(psi, i)' => psiphonEngine' = i
      BY <1>2, <3>1, <3>2 DEF Running
    <3>5. HandlesHeld'  BY <1>3, <3>0, <3>4 DEF HandlesHeld, Running
    <3>3. pc'[1] = "awaitPsi"  BY <1>1, <1>2, <1>32, <2>1 DEF LaunchPsiphon, SpawnPsiphon
    <3> QED  BY <3>3, <3>5 DEF FirstProcesses, PsiDown, AetherDown, Cleaning
  <2>2. CASE ~SpawnPsiphon
    <3>1. Still  BY <1>1, <1>2, <1>32, <2>2 DEF LaunchPsiphon, PsiDown, AetherDown, Cleaning
    <3> QED  BY <1>5, <3>1
  <2> QED  BY <2>1, <2>2
<1>33. CASE RelaunchPsiphon(s)
  <2>1. CASE SpawnPsiphon
    <3>0. pc[1] = "relaunchPsi" /\ UNCHANGED <<aether, engine>>  BY <1>1, <1>33 DEF RelaunchPsiphon
    <3>1. \A i \in Pids : ~Running(psi, i)  BY <1>3, <3>0 DEF PsiDown, AetherDown, QuietPsi
    <3>2. PICK j \in Pids : psi' = [psi EXCEPT ![j] = "alive"] /\ psiphonEngine' = j
      BY <2>1 DEF SpawnPsiphon
    <3>4. \A i \in Pids : Running(psi, i)' => psiphonEngine' = i
      BY <1>2, <3>1, <3>2 DEF Running
    <3>5. HandlesHeld'  BY <1>3, <3>0, <3>4 DEF HandlesHeld, Running
    <3>3. pc'[1] = "reopenPsi"  BY <1>1, <1>2, <1>33, <2>1 DEF RelaunchPsiphon, SpawnPsiphon
    <3> QED  BY <3>3, <3>5 DEF FirstProcesses, PsiDown, AetherDown, Cleaning
  <2>2. CASE ~SpawnPsiphon
    <3>1. Still  BY <1>1, <1>2, <1>33, <2>2 DEF RelaunchPsiphon, PsiDown, AetherDown, Cleaning
    <3> QED  BY <1>5, <3>1
  <2> QED  BY <2>1, <2>2
<1>34. CASE WatchProbe(s)
  <2>1. CASE StopBoth
    <3>1. Place  BY <1>1, <1>2, <1>34, <2>1 DEF WatchProbe, Cleaning
    <3> QED  BY <1>6, <1>7, <2>1, <3>1
  <2>2. CASE ~StopBoth
    <3>1. Still  BY <1>1, <1>2, <1>34, <2>2 DEF WatchProbe, WaitCancelled, PsiDown, AetherDown, Cleaning
    <3> QED  BY <1>5, <3>1
  <2> QED  BY <2>1, <2>2
<1>35. CASE Restop(s)
  <2>1. CASE StopBoth
    <3>1. Place  BY <1>1, <1>2, <1>35, <2>1 DEF Restop, Cleaning
    <3> QED  BY <1>6, <1>7, <2>1, <3>1
  <2>2. CASE ~StopBoth
    <3>1. Still  BY <1>1, <1>2, <1>35, <2>2 DEF Restop, WaitCancelled, PsiDown, AetherDown, Cleaning
    <3> QED  BY <1>5, <3>1
  <2> QED  BY <2>1, <2>2
<1>36. CASE ReopenPsiphon(s)
  <2>1. CASE StopBoth
    <3>1. Place  BY <1>1, <1>2, <1>36, <2>1 DEF ReopenPsiphon, Cleaning
    <3> QED  BY <1>6, <1>7, <2>1, <3>1
  <2>2. CASE ~StopBoth
    <3>1. Still  BY <1>1, <1>2, <1>36, <2>2 DEF ReopenPsiphon, WaitCancelled, PsiDown, AetherDown, Cleaning
    <3> QED  BY <1>5, <3>1
  <2> QED  BY <2>1, <2>2
<1>37. CASE Retest(s)
  <2>1. CASE StopBoth
    <3>1. Place  BY <1>1, <1>2, <1>37, <2>1 DEF Retest, Cleaning
    <3> QED  BY <1>6, <1>7, <2>1, <3>1
  <2>2. CASE ~StopBoth
    <3>1. Still  BY <1>1, <1>2, <1>37, <2>2 DEF Retest, WaitCancelled, PsiDown, AetherDown, Cleaning
    <3> QED  BY <1>5, <3>1
  <2> QED  BY <2>1, <2>2
<1> HIDE DEF Still, Place
<1> QED
  BY <1>5, <1>8, <1>9, <1>10, <1>11, <1>12, <1>13, <1>14, <1>15, <1>16, <1>17, <1>18,
     <1>19, <1>20, <1>21, <1>22, <1>23, <1>24, <1>25, <1>26, <1>27, <1>28, <1>29,
     <1>30, <1>31, <1>32, <1>33, <1>34, <1>35, <1>36, <1>37 DEF SessionStep

\* Giving up under the kill switch launches the lockdown and ends the session.
LEMMA FirstGivesUp ==
  ASSUME TypeInv, TypeInv', FirstSession, FirstInv, NEW s \in Sessions, SuperviseGivesUp(s)
  PROVE  FirstCommands' /\ FirstLockdown'
<1>0. SessionStep(s)  BY DEF SessionStep
<1>1. /\ s = 1 /\ connects = 1 /\ stops = 0 /\ runJob = 1 /\ ~cancelled[1]
      /\ previousRun[1] = 0 /\ previousStop[1] = 0
  BY <1>0, FirstMover
<1>2. UNCHANGED <<main, connects, started, previousRun, previousStop>>
  BY DEF SuperviseGivesUp
<1>3. main = "loop" /\ started /\ stopJob = 0 /\ state # "Lockdown"
  BY <1>1 DEF FirstInv, FirstCommands, FirstLockdown
<1>4. CASE profile[s].kill \/ profile[s].strict
  <2>1. LaunchStop("lockdown") /\ pc' = [pc EXCEPT ![s] = "done"] /\ UNCHANGED ui
    BY <1>4 DEF SuperviseGivesUp, Goto
  <2>2. 1 \in Stops  BY <1>1, <2>1 DEF LaunchStop, TypeInv, TypeOK, TypeStops
  <2>3. stops' = 1 /\ runJob' = 0 /\ pc'[1] = "done" /\ kind'[1] = "lockdown" /\ spc'[1] = "new"
    BY <1>1, <2>1, <2>2 DEF LaunchStop, TypeInv, TypeOK, TypeStops, TypePlace
  <2>4. FirstCommands'  BY <1>1, <1>2, <1>3, <2>3 DEF FirstCommands
  <2>5. FirstLockdown'  BY <1>3, <2>1, <2>3 DEF FirstLockdown
  <2> QED  BY <2>4, <2>5
<1>5. CASE ~(profile[s].kill \/ profile[s].strict)
  <2>1. UNCHANGED <<runJob, stopJob, stopping, cancelled>> /\ state' = "Error"
    BY <1>5 DEF SuperviseGivesUp, FlowFails, SetState
  <2> QED  BY <1>1, <1>2, <1>3, <2>1 DEF FirstCommands, FirstLockdown
<1> QED  BY <1>4, <1>5

\* The lockdown stops what runs, piece by piece, and nothing starts it again.
LEMMA FirstStopStep ==
  ASSUME TypeInv, TypeInv', UnbornStops, FirstSession, FirstInv, NEW k \in Stops, StopStep(k)
  PROVE  FirstInv'
<1>1. spc[k] # "unborn"  BY DEF StopStep, StopBegin, StopClean, StopEstablish, StopPublish, StopJoin
<1>2. k = 1 /\ stops = 1 /\ connects = 1 /\ runJob = 0 /\ pc[1] = "done" /\ kind[1] = "lockdown"
      /\ main = "loop" /\ started
  <2>1. k <= stops  BY <1>1 DEF UnbornStops, TypeInv, TypeOK, TypeStops
  <2> QED  BY <2>1 DEF FirstInv, FirstCommands, TypeInv, TypeOK, TypeStops
<1>3. /\ spc \in [Stops -> StopPCs] /\ aether \in [Pids -> Status] /\ psi \in [Pids -> Status]
      /\ engine \in 0 .. MaxPids /\ psiphonEngine \in 0 .. MaxPids
  BY DEF TypeInv, TypeOK, TypeStops, TypeOS, TypeHandles
<1>4. HandlesHeld  BY DEF FirstInv, FirstProcesses
<1>5. (\A i \in Pids : ~Running(Killed(aether, engine), i))
      /\ (\A i \in Pids : ~Running(Killed(psi, psiphonEngine), i))
  BY <1>3, <1>4, KillQuiet DEF HandlesHeld
<1>6. /\ UNCHANGED <<main, connects, stops, runJob, stopJob, previousRun, previousStop, cancelled, pc,
                     after, kind>>
      /\ spc[k] # "publish" => started' = started
  BY DEF StopStep, StopBegin, StopClean, StopEstablish, StopPublish, StopJoin
<1>7. /\ spc[1] \in {"new", "clean1", "clean2", "clean3", "establish", "join", "done"}
      /\ state = "Lockdown" => spc[1] \in {"join", "done"}
      /\ spc[1] \notin {"new", "clean1"} => QuietPsi /\ ~forwarding
      /\ spc[1] \in {"clean3", "establish", "join", "done"} => QuietAether
      /\ spc[1] \in {"establish", "join", "done"} => tun # "forward"
  BY <1>2 DEF FirstInv, FirstLockdown
<1>8. FirstCommands'
  <2>1. previousRun[1] = 0 /\ previousStop[1] = 0 /\ started' = started
    BY <1>2, <1>6, <1>7 DEF FirstInv, FirstCommands
  <2> QED  BY <1>2, <1>6, <2>1 DEF FirstCommands
<1>9. HandlesHeld' => FirstProcesses'
  BY <1>2, <1>6 DEF FirstProcesses, PsiDown, AetherDown, Cleaning
<1> DEFINE Same == UNCHANGED <<aether, psi, engine, psiphonEngine>>
<1>10. Same => (QuietAether' <=> QuietAether) /\ (QuietPsi' <=> QuietPsi) /\ HandlesHeld'
  BY <1>4 DEF QuietAether, QuietPsi, HandlesHeld, Running
<1>11. HandlesHeld' /\ FirstLockdown'
  <2>1. CASE StopBegin(k)
    <3>1. Same /\ spc'[1] = "clean1" /\ UNCHANGED <<state, tun, forwarding>> /\ spc[1] = "new"
      BY <1>2, <1>3, <2>1 DEF StopBegin, StopGoto
    <3> HIDE DEF Same
    <3> QED  BY <1>2, <1>6, <1>7, <1>10, <3>1 DEF FirstLockdown
  <2>2. CASE StopClean(k)
    <3>1. UNCHANGED state  BY <2>2 DEF StopClean
    <3>2. CASE spc[1] = "clean1" /\ CleanForwarder
      <4>1. QuietPsi'  BY <1>5, <3>2 DEF CleanForwarder, QuietPsi, Running
      <4>2. spc'[1] = "clean2" /\ ~forwarding'
        BY <1>2, <1>3, <2>2, <3>2 DEF StopClean, StopGoto, CleanForwarder
      <4>3. HandlesHeld'  BY <1>4, <3>2, <4>1 DEF CleanForwarder, HandlesHeld, QuietPsi, Running
      <4> QED  BY <1>2, <1>6, <1>7, <3>1, <3>2, <4>1, <4>2, <4>3 DEF FirstLockdown
    <3>3. CASE spc[1] = "clean2" /\ CleanEngine
      <4>1. QuietAether'  BY <1>5, <3>3 DEF CleanEngine, QuietAether, Running
      <4>2. QuietPsi'  BY <1>7, <3>3 DEF CleanEngine, QuietPsi, Running
      <4>3. spc'[1] = "clean3" /\ forwarding' = forwarding
        BY <1>2, <1>3, <2>2, <3>3 DEF StopClean, StopGoto, CleanEngine
      <4>4. HandlesHeld'  BY <4>1, <4>2 DEF HandlesHeld, QuietPsi, QuietAether
      <4> QED  BY <1>2, <1>6, <1>7, <3>1, <3>3, <4>1, <4>2, <4>3, <4>4 DEF FirstLockdown
    <3>4. CASE spc[1] = "clean3" /\ CleanTun
      <4>1. QuietAether' /\ QuietPsi'
        BY <1>7, <3>4 DEF CleanTun, QuietAether, QuietPsi, Running
      <4>2. spc'[1] = "establish" /\ forwarding' = forwarding /\ tun' = "none"
        BY <1>2, <1>3, <2>2, <3>4 DEF StopClean, StopGoto, CleanTun
      <4>3. HandlesHeld'  BY <4>1 DEF HandlesHeld, QuietPsi, QuietAether
      <4> QED  BY <1>2, <1>6, <1>7, <3>1, <3>4, <4>1, <4>2, <4>3 DEF FirstLockdown
    <3> QED  BY <1>2, <2>2, <3>2, <3>3, <3>4 DEF StopClean
  <2>3. CASE StopEstablish(k)
    <3>1. Same /\ spc'[1] = "join" /\ UNCHANGED forwarding /\ tun' # "forward" /\ spc[1] = "establish"
      BY <1>2, <1>3, <2>3 DEF StopEstablish, StopGoto
    <3> HIDE DEF Same
    <3> QED  BY <1>2, <1>6, <1>7, <1>10, <3>1 DEF FirstLockdown
  <2>4. CASE StopPublish(k)  BY <1>2, <1>7, <2>4 DEF StopPublish
  <2>5. CASE StopJoin(k)
    <3>1. Same /\ spc'[1] = "done" /\ UNCHANGED <<state, tun, forwarding>> /\ spc[1] = "join"
      BY <1>2, <1>3, <2>5 DEF StopJoin, StopGoto
    <3> HIDE DEF Same
    <3> QED  BY <1>2, <1>6, <1>7, <1>10, <3>1 DEF FirstLockdown
  <2> QED  BY <2>1, <2>2, <2>3, <2>4, <2>5 DEF StopStep
<1> QED  BY <1>8, <1>9, <1>11 DEF FirstInv

\* Processes come to an end by themselves, but never to life.
LEMMA ProcessesFade ==
  ASSUME TypeInv, EngineStep \/ PsiphonStep \/ ReapStep
  PROVE  /\ \A i \in Pids : Running(aether, i)' => Running(aether, i)
         /\ \A i \in Pids : Running(psi, i)' => Running(psi, i)
         /\ UNCHANGED processRest
<1> USE DEF TypeInv, TypeOK, TypeOS, Status, Running
<1>1. CASE EngineStep  BY <1>1 DEF EngineStep, ProcessStep
<1>2. CASE PsiphonStep  BY <1>2 DEF PsiphonStep, ProcessStep
<1>3. CASE ReapStep  BY <1>3 DEF ReapStep, Reap
<1> QED  BY <1>1, <1>2, <1>3

\* Who was told to connect strictly, and which stops there have been, is not forgotten.
LEMMA CommandsKept ==
  ASSUME TypeInv, TypeInv', [Next]_vars, connects = 0 => ~lastStrict
  PROVE  (connects' = 0 => ~lastStrict') /\ (FirstSession' => FirstSession)
<1>1. connects \in Nat /\ stops \in Nat /\ kind \in [Stops -> {"stop", "lockdown"}]
      /\ stops <= MaxStops /\ MaxStops \in Nat
  BY ConstantsOK DEF TypeInv, TypeOK, TypeHandoff, TypeStops
<1>2. ASSUME NEW p \in Profiles, Connect(p)
      PROVE  (connects' = 0 => ~lastStrict') /\ (FirstSession' => FirstSession)
  <2>1. connects' = connects + 1 /\ UNCHANGED <<stops, kind>>  BY <1>2 DEF Connect
  <2> QED  BY <1>1, <2>1 DEF FirstSession
<1>3. CASE UNCHANGED <<connects, lastStrict>> /\ (UNCHANGED <<stops, kind>> \/ \E w \in {"stop", "lockdown"} : LaunchStop(w))
  <2>1. \A k \in 1 .. stops : k \in 1 .. stops' /\ kind'[k] = kind[k]
    <3>1. CASE UNCHANGED <<stops, kind>>  BY <3>1
    <3>2. ASSUME NEW w \in {"stop", "lockdown"}, LaunchStop(w)
          PROVE  \A k \in 1 .. stops : k \in 1 .. stops' /\ kind'[k] = kind[k]
      BY <1>1, <3>2 DEF LaunchStop, Stops
    <3> QED  BY <1>3, <3>1, <3>2
  <2> QED  BY <1>3, <2>1 DEF FirstSession
<1>4. ASSUME NEW s \in Sessions, SessionStep(s)
      PROVE  UNCHANGED <<connects, lastStrict>> /\ (UNCHANGED <<stops, kind>> \/ LaunchStop("lockdown"))
  <2>1. CASE SuperviseGivesUp(s)  BY <2>1 DEF SuperviseGivesUp, handoff, stopping
  <2>2. CASE ~SuperviseGivesUp(s)
    BY <1>4, <2>2 DEF SessionStep, Begin, Clean, JoinRun, JoinStop, Plan, Attempt,
       AwaitClosed, Launch, AwaitOpen, LaunchPsiphon, AwaitPsiphon,
       BringUp, SelfTest, NextRung, Report, SuperviseAlive, SuperviseEnds,
       SuperviseRetries, WatchProbe, WatchExit, Backoff,
       Restop, Relaunch, Reopen, RelaunchPsiphon, ReopenPsiphon, Reverify,
       Retest, Rereport, handoff, stopping, fields, sessionRest
  <2> QED  BY <2>1, <2>2
<1>5. ASSUME NEW k \in Stops, StopStep(k)  PROVE UNCHANGED <<connects, lastStrict, stops, kind>>
  BY <1>5 DEF StopStep, StopBegin, StopClean, StopEstablish, StopPublish, StopJoin, stopRest, handoff
<1>6. CASE Disconnect \/ Revoke
  <2>1. UNCHANGED <<connects, lastStrict>> /\ \E w \in {"stop", "lockdown"} : LaunchStop(w)
    BY <1>6 DEF Disconnect, Revoke, stopEverything, handoff
  <2> QED  BY <1>3, <2>1
<1>7. CASE Destroy \/ EngineStep \/ PsiphonStep \/ ReapStep \/ UNCHANGED vars
  <2>1. UNCHANGED <<connects, lastStrict, stops, kind>>
    BY <1>7 DEF Destroy, EngineStep, PsiphonStep, ReapStep, processRest, vars, handoff, stopping, fields
  <2> QED  BY <1>3, <2>1
<1> QED  BY <1>2, <1>3, <1>4, <1>5, <1>6, <1>7 DEF Next

\* Every step keeps the invariant of the first session, or ends the condition.
LEMMA FirstNext == TypeInv /\ UnbornStops /\ FirstSessionInv /\ [Next]_vars => FirstSessionInv'
<1> SUFFICES ASSUME TypeInv, UnbornStops, FirstSessionInv, [Next]_vars
             PROVE  FirstSessionInv'
  OBVIOUS
<1>0. TypeInv'  BY NextType
<1>a. (connects' = 0 => ~lastStrict') /\ (FirstSession' => FirstSession)
  BY <1>0, CommandsKept DEF FirstSessionInv
<1> SUFFICES ASSUME FirstSession'  PROVE FirstInv'
  BY <1>a DEF FirstSessionInv
<1>1. FirstSession  BY <1>a
<1>2. FirstInv /\ HandlesHeld  BY <1>1 DEF FirstSessionInv, FirstInv, FirstProcesses
<1>3. CASE \E s \in Sessions : SessionStep(s)
  <2> PICK s \in Sessions : SessionStep(s)  BY <1>3
  <2>1. FirstProcesses'  BY <1>0, <1>1, <1>2, FirstKeepsProcesses
  <2>2. FirstCommands' /\ FirstLockdown'
    BY <1>0, <1>1, <1>2, FirstGivesUp, FirstKeepsCommand
  <2> QED  BY <2>1, <2>2 DEF FirstInv
<1>4. CASE \E k \in Stops : StopStep(k)
  BY <1>0, <1>1, <1>2, <1>4, FirstStopStep
<1>5. ASSUME NEW p \in Profiles, Connect(p)  PROVE FirstInv'
  <2>1. connects = 0 /\ connects' = 1 /\ 1 \in Sessions
    BY <1>0, <1>5 DEF Connect, FirstSession, TypeInv, TypeOK, TypeHandoff
  <2>2. /\ stops = 0 /\ runJob = 0 /\ stopJob = 0 /\ main = "loop" /\ QuietAether /\ QuietPsi
        /\ state # "Lockdown"
    BY <1>2, <2>1 DEF FirstInv, FirstCommands, FirstLockdown
  <2>3. /\ pc'[1] = "new" /\ previousRun'[1] = 0 /\ previousStop'[1] = 0 /\ runJob' = 1 /\ started'
        /\ UNCHANGED <<stops, main, stopJob, state, cancelled>>
        /\ UNCHANGED <<aether, psi, engine, psiphonEngine>>
    BY <1>5, <2>1, <2>2 DEF Connect, TypeInv, TypeOK, TypePlace, TypeHandoff
  <2>4. ~cancelled[1]
    BY <1>2, <2>1 DEF FirstInv, FirstCommands
  <2>5. QuietAether' /\ QuietPsi' /\ HandlesHeld'
    BY <2>2, <2>3 DEF QuietAether, QuietPsi, HandlesHeld, Running
  <2>6. FirstCommands'  BY <2>1, <2>2, <2>3, <2>4 DEF FirstCommands
  <2>7. FirstProcesses'  BY <2>3, <2>5 DEF FirstProcesses, Cleaning
  <2>8. FirstLockdown'  BY <2>2, <2>3 DEF FirstLockdown
  <2> QED  BY <2>6, <2>7, <2>8 DEF FirstInv
<1>6. CASE Disconnect \/ Revoke
  <2>1. UserStops /\ ~lastStrict  BY <1>1, <1>6 DEF Disconnect, Revoke, FirstSession
  <2>2. LaunchStop("stop")  BY <1>6, <2>1 DEF Disconnect, Revoke, stopEverything
  <2>3. stops' \in 1 .. stops' /\ kind'[stops'] = "stop"
    BY <1>0, <2>2, ConstantsOK DEF LaunchStop, Stops, TypeInv, TypeOK, TypeStops
  <2> QED  BY <2>1, <2>3 DEF FirstSession
<1>7. CASE Destroy
  <2>1. main = "loop" /\ ~started /\ connects + stops > 0
    BY <1>2, <1>7 DEF Destroy, FirstInv, FirstCommands
  <2>2. connects = 1  BY <1>1, <1>2, <2>1 DEF FirstSession, FirstInv, FirstCommands, TypeInv, TypeOK, TypeHandoff, TypeStops
  <2> QED  BY <1>2, <2>1, <2>2 DEF FirstInv, FirstCommands
<1>8. CASE EngineStep \/ PsiphonStep \/ ReapStep
  <2>1. /\ QuietAether => QuietAether'
        /\ QuietPsi => QuietPsi'
        /\ HandlesHeld' /\ UNCHANGED processRest
    <3>1. /\ \A i \in Pids : Running(aether, i)' => Running(aether, i)
          /\ \A i \in Pids : Running(psi, i)' => Running(psi, i)
          /\ UNCHANGED processRest
      BY <1>8, ProcessesFade
    <3>2. UNCHANGED <<engine, psiphonEngine>>  BY <3>1
    <3> QED  BY <1>2, <3>1, <3>2 DEF QuietAether, QuietPsi, HandlesHeld
  <2>2. FirstCommands'  BY <1>2, <2>1 DEF FirstInv, FirstCommands
  <2>3. FirstProcesses'  BY <1>2, <2>1 DEF FirstInv, FirstProcesses
  <2>4. FirstLockdown'  BY <1>2, <2>1 DEF FirstInv, FirstLockdown
  <2> QED  BY <2>2, <2>3, <2>4 DEF FirstInv
<1>9. CASE UNCHANGED vars
  BY <1>2, <1>9 DEF vars, FirstInv, FirstCommands, FirstProcesses, FirstLockdown,
     QuietAether, QuietPsi, HandlesHeld, Running
<1> QED  BY <1>3, <1>4, <1>5, <1>6, <1>7, <1>8, <1>9 DEF Next

LEMMA FirstAlways == Spec => [](TypeInv /\ FirstSessionInv)
<1>1. Init => TypeInv /\ UnbornStops /\ FirstSessionInv
  BY InitType, InitHand, FirstInit DEF HandInv
<1>2. HandInv => UnbornStops  BY DEF HandInv
<1> QED  BY <1>1, <1>2, InitHand, NextHand, NextType, FirstNext, PTL DEF Spec

\* Until a second connect or a stop by the user, every process that runs is one the
\* service holds (AetherVpnService.kt connectAttempt, superviseEngine).
THEOREM EngineOwnedAlways == Spec => []EngineOwned
<1>1. FirstSessionInv => EngineOwned
  BY DEF FirstSessionInv, FirstInv, FirstProcesses, EngineOwned
<1> QED  BY <1>1, FirstAlways, PTL

\* A lockdown that the supervisor enters has stopped the forwarder and both engines when it
\* is shown (AetherVpnService.kt enterLockdown).
THEOREM LockdownBlocksAlways == Spec => []LockdownBlocks
<1>1. TypeInv /\ FirstSessionInv => LockdownBlocks
  <2> SUFFICES ASSUME TypeInv, FirstInv, state = "Lockdown"
               PROVE  tun # "forward" /\ ~forwarding /\ NothingRuns
    BY DEF FirstSessionInv, LockdownBlocks
  <2>1. stops = 1
    BY DEF FirstInv, FirstLockdown, FirstCommands, TypeInv, TypeOK, TypeStops
  <2> QED  BY <2>1 DEF FirstInv, FirstLockdown, NothingRuns, QuietAether, QuietPsi
<1> QED  BY <1>1, FirstAlways, PTL
=============================================================================
