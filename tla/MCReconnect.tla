----------------------------- MODULE MCReconnect -----------------------------
(***************************************************************************)
(* The bounds of the outer loops, of the scan they start, of the tasks of  *)
(* the tunnel they run, and of the jobs that run all of it for a caller.   *)
(* Reconnect takes the outcome of a scan and of a tunnel as a choice, and  *)
(* a job's work is only its steps, so the four share no state: one of      *)
(* them, `part`, moves; the others stay at their start, and the run checks *)
(* each of the four on its own, under its own fairness.                    *)
(***************************************************************************)
EXTENDS Reconnect, Scan, TunnelTasks, CoreFfi

VARIABLE part

loopVars == <<part, vars, scanVars, taskVars, ffiVars>>

(* A range of four, a single address inside it that is also a seed; or a   *)
(* range that is written with one of its hosts.  A strategy that stops     *)
(* early, one of two waves and a thorough one.                             *)
Cidr(base, size) == [base |-> base, size |-> size]
RangeLists == {<<Cidr(4, 4), Cidr(6, 1)>>, <<Cidr(5, 4)>>}
OneSeed == <<6>>
TwoPorts == <<"p", "q">>
OneExcluded == {<<6, "q">>}
Plan(full, sample, waves, target, early, quiet) ==
  [full |-> full, sample |-> sample, waves |-> waves, target |-> target,
   early |-> early, quiet |-> quiet]
Thorough == Plan(TRUE, 0, 1, 0, FALSE, TRUE)
ThreeStrategies == {Plan(FALSE, 1, 1, 1, TRUE, FALSE),
                    Plan(FALSE, 1, 2, 2, FALSE, TRUE), Thorough}

(* Where the parts that do not move stay. *)
LoopsAtStart == /\ Init /\ protocol = "masque" /\ forced = None
                /\ assigned = None /\ file = None
ScanAtStart == ScanStart("masque", Thorough, 1, <<>>, <<Cidr(0, 1)>>, << <<0>> >>)

LoopsInit ==
  /\ part \in {"loops", "scan", "tasks", "jobs"} /\ FfiInit
  /\ IF part = "loops" THEN Init ELSE LoopsAtStart
  /\ IF part = "scan" THEN ScanInit ELSE ScanAtStart
  /\ IF part = "tasks" THEN TasksInit ELSE TasksStart(0)

LoopsMove == part = "loops" /\ Next /\ UNCHANGED <<part, scanVars, taskVars, ffiVars>>
ScanMoves == part = "scan" /\ ScanNext /\ UNCHANGED <<part, vars, taskVars, ffiVars>>
TasksMove == part = "tasks" /\ TasksNext /\ UNCHANGED <<part, vars, scanVars, ffiVars>>
JobsMove == part = "jobs" /\ FfiNext /\ UNCHANGED <<part, vars, scanVars, taskVars>>

LoopsNext == LoopsMove \/ ScanMoves \/ TasksMove \/ JobsMove

(* The fairness of each part, for the one that moves.                      *)
LoopsFairness ==
  /\ WF_vars(part = "loops" /\ Choose)
  /\ WF_vars(part = "loops" /\ GoolNotices)
  /\ SF_vars(part = "loops" /\ HuntFinds)
  /\ SF_vars(part = "loops" /\ HuntFindsPair)
  /\ \A p \in Peers : WF_vars(part = "loops" /\ Elapse(p))
  /\ WF_scanVars(part = "scan" /\ TimeUp)
  /\ WF_scanVars(part = "scan" /\ EnterSelect)
  /\ WF_scanVars(part = "scan" /\ ListOver)
  /\ WF_scanVars(part = "scan" /\ DeadlinePasses)
  /\ \A a \in Attempts : WF_taskVars(part = "tasks" /\ TasksFair(a))
  /\ \A j \in Jobs : WF_ffiVars(part = "jobs" /\ Task(j))

LoopsSpec == LoopsInit /\ [][LoopsNext]_loopVars /\ LoopsFairness
=============================================================================
