----------------------------- MODULE VpnService -----------------------------
(***************************************************************************)
(* The session life cycle of AetherVpnService (app/.../vpn/                *)
(* AetherVpnService.kt): what the main thread, the session coroutines and  *)
(* the stop coroutines do to one service instance.                         *)
(*                                                                         *)
(*   - Every connect command launches a session coroutine that first takes *)
(*     over from its predecessor, then climbs a ladder of connect attempts *)
(*     (rungs), and finally supervises the engine processes.               *)
(*   - Every disconnect, and every retry limit hit under the kill switch,  *)
(*     launches a stop coroutine that tears the natives down, or replaces  *)
(*     the tunnel by a blackhole, while the session is still unwinding.    *)
(*   - All of them share the plain fields of the service: engine, psiphon, *)
(*     tun, runJob, stopJob, ... ; nothing but join() orders them.         *)
(*                                                                         *)
(* Cancellation is Kotlin's: it takes effect only where a coroutine        *)
(* suspends, a coroutine cancelled before it is dispatched never runs, and *)
(* runCatching around a suspension turns it into an ordinary failure.      *)
(***************************************************************************)
EXTENDS Naturals

CONSTANTS
  Profiles,        \* the connection profiles the user may connect with
  MaxConnects,     \* bound: connect commands delivered to this instance
  MaxStops,        \* bound: stop coroutines launched by this instance
  MaxPids,         \* bound: process table slots of each engine
  Crashes,         \* whether engines die and lose their listener by themselves
  DeadlinePasses,  \* whether a live engine can miss the port-open deadline
  CallsFail,       \* whether establish(), a process start, a bind can fail
  UserStops        \* whether the user disconnects or revokes the VPN

Sessions == 1 .. MaxConnects
Stops    == 1 .. MaxStops
Pids     == 1 .. MaxPids

\* What of a ConnectionProfile the control flow looks at.  rungs is the length
\* of the plan, retries what maxRetries() yields.
Profile == [auto    : BOOLEAN, proxy   : BOOLEAN, chained : BOOLEAN,
            kill    : BOOLEAN, strict  : BOOLEAN,
            rungs   : Nat \ {0}, retries : Nat \ {0}]

\* The profile of a session that has not been launched.
DefaultProfile == [auto |-> FALSE, proxy |-> FALSE, chained |-> FALSE,
                   kill |-> FALSE, strict |-> FALSE, rungs |-> 1,
                   retries |-> 1]

WATCHDOG_FAIL_CYCLES == 3

ASSUME ConstantsOK ==
  /\ Profiles \subseteq Profile
  /\ MaxConnects \in Nat /\ MaxStops \in Nat /\ MaxPids \in Nat
  /\ Crashes \in BOOLEAN /\ DeadlinePasses \in BOOLEAN
  /\ CallsFail \in BOOLEAN /\ UserStops \in BOOLEAN

VARIABLES
  \* AetherController
  state,         \* the ConnectionState published to the UI
  since,         \* whether connectedSince is set
  \* operating system
  aether,        \* status of every slot for engine processes
  psi,           \* status of every slot for Psiphon processes
  tun,           \* the VPN interface: none, forward (tunnel), blackhole
  started,       \* the service is in the started state
  consent,       \* the user's VPN consent stands: establish() works
  \* fields of the service
  engine,        \* engine process handle, 0 for null
  psiphonEngine, \* Psiphon process handle, 0 for null
  forwarding,    \* hev or the filter bridge forwards what tun takes in
  runJob,        \* the session coroutine that owns the service, 0 for null
  stopJob,       \* the last stop coroutine launched, 0 for null
  lastStrict,    \* lastProfile != null and lastProfile.strictKillSwitch
  lockdownTunActive,
  probeFailures,
  main,          \* main thread: in its loop, or how far onDestroy has got
  \* session coroutines
  connects,      \* sessions launched so far
  pc, after,     \* where a session is, and where its cleanup returns to
  profile, previousRun, previousStop,
  rung,          \* position in the plan
  attempt,       \* the supervisor's restart counter
  cancelled,
  \* stop coroutines
  stops,         \* stop coroutines launched so far
  spc,           \* where a stop coroutine is
  kind,          \* "stop" (stopEverything) or "lockdown" (enterLockdown)
  job            \* the session a stop coroutine joins, 0 for null

ui       == <<state, since>>
os       == <<aether, psi, tun, started, consent>>
fields   == <<engine, psiphonEngine, forwarding, runJob, stopJob, lastStrict,
              lockdownTunActive, probeFailures, main>>
handoff  == <<connects, profile, previousRun, previousStop>>
progress == <<rung, attempt>>
stopping == <<stops, spc, kind, job>>
vars     == <<ui, os, fields, handoff, pc, after, progress, cancelled,
              stopping>>

States == {"Idle", "Launching", "Connecting", "Verifying", "Connected",
           "Reconnecting", "Disconnecting", "Error", "Lockdown"}

\* "alive" runs without a listener, "open" runs and serves its SOCKS port,
\* "dying" was killed but its port still answers, "none" is a free slot.
Status == {"none", "alive", "open", "dying"}

TakeOver == {"new", "clean1", "clean2", "clean3", "joinRun", "joinStop"}
Ladder == {"plan", "attempt", "awaitClosed", "launch", "awaitOpen",
           "launchPsi", "awaitPsi", "bringUp", "selfTest", "nextRung",
           "report"}
Supervising == {"supervise", "watch", "backoff", "restop", "relaunch",
                "reopen", "relaunchPsi", "reopenPsi", "reverify", "retest",
                "rereport"}
Returns == {"joinRun", "awaitClosed", "nextRung", "done"}
PCs == TakeOver \cup Ladder \cup Supervising \cup {"unborn", "done"}

StopPCs == {"unborn", "new", "clean1", "clean2", "clean3", "establish",
            "publish", "join", "done"}

-----------------------------------------------------------------------------
(* Processes and ports. *)

Running(f, i) == i # 0 /\ f[i] \in {"alive", "open"}
Serving(f) == \E i \in Pids : f[i] = "open"
PortOpen(f) == \E i \in Pids : f[i] \in {"open", "dying"}

\* AetherProcess.stop / PsiphonProcess.stop: SIGTERM, a short grace, SIGKILL
\* without a further wait, so the listener may outlive the call.
Killed(f, i) ==
  IF i = 0 THEN f
  ELSE [f EXCEPT ![i] = IF @ \in {"open", "dying"} THEN "dying" ELSE "none"]

SetState(new) ==
  /\ state' = new
  /\ since' = CASE new = "Connected" -> TRUE
                [] new = "Reconnecting" -> since
                [] OTHER -> FALSE

Goto(s, l) == pc' = [pc EXCEPT ![s] = l]
StopGoto(k, l) == spc' = [spc EXCEPT ![k] = l]

Finished(s) == s # 0 => pc[s] = "done"
currentScopeActive == runJob # 0 /\ ~cancelled[runJob] /\ pc[runJob] # "done"

EnginesAlive(s) ==
  /\ Running(aether, engine)
  /\ profile[s].chained => Running(psi, psiphonEngine)

\* A self-test or a watchdog probe can only succeed against served ports.
TunnelServes(s) == Serving(aether) /\ (profile[s].chained => Serving(psi))

-----------------------------------------------------------------------------
(* cleanupNativeOnly, in the three pieces between which another coroutine  *)
(* can see or overwrite a handle: each handle is cleared only after the    *)
(* stop() of its process has returned.  The share listeners are closed on  *)
(* a thread that ShareBridge.stop() starts: see ShareBridge.               *)

CleanForwarder ==
  /\ forwarding' = FALSE
  /\ psi' = Killed(psi, psiphonEngine)
  /\ UNCHANGED <<aether, tun, engine, psiphonEngine>>

CleanEngine ==
  /\ psiphonEngine' = 0
  /\ aether' = Killed(aether, engine)
  /\ UNCHANGED <<psi, tun, engine, forwarding>>

CleanTun ==
  /\ engine' = 0
  /\ tun' = "none"
  /\ UNCHANGED <<aether, psi, psiphonEngine, forwarding>>

-----------------------------------------------------------------------------
(* Session coroutine: taking over (startTunnel, the launched body).        *)

sessionRest == <<started, consent, runJob, stopJob, lastStrict, main, handoff,
                 stopping>>

Begin(s) ==
  /\ pc[s] = "new"
  /\ IF cancelled[s]
     THEN Goto(s, "done") /\ UNCHANGED <<after, cancelled>>
     ELSE IF previousRun[s] # 0
     THEN /\ cancelled' = [cancelled EXCEPT ![previousRun[s]] = TRUE]
          /\ Goto(s, "clean1")
          /\ after' = [after EXCEPT ![s] = "joinRun"]
     ELSE Goto(s, "joinStop") /\ UNCHANGED <<after, cancelled>>
  /\ UNCHANGED <<ui, os, fields, handoff, progress, stopping>>

Clean(s) ==
  /\ \/ pc[s] = "clean1" /\ CleanForwarder /\ Goto(s, "clean2")
     \/ pc[s] = "clean2" /\ CleanEngine /\ Goto(s, "clean3")
     \/ pc[s] = "clean3" /\ CleanTun /\ Goto(s, after[s])
  /\ UNCHANGED <<ui, sessionRest, lockdownTunActive, probeFailures, after,
                 progress, cancelled>>

\* Mutant: the new session does not wait for the previous one.
JoinRunSkipped(s) ==
  /\ pc[s] = "joinRun"
  /\ Goto(s, IF cancelled[s] THEN "done" ELSE "joinStop")
  /\ UNCHANGED <<ui, os, fields, handoff, after, progress, cancelled,
                 stopping>>

JoinRun(s) ==
  /\ pc[s] = "joinRun"
  /\ IF cancelled[s] THEN Goto(s, "done")
     ELSE Finished(previousRun[s]) /\ Goto(s, "joinStop")
  /\ UNCHANGED <<ui, os, fields, handoff, after, progress, cancelled,
                 stopping>>

JoinStop(s) ==
  /\ pc[s] = "joinStop"
  /\ IF previousStop[s] = 0 THEN Goto(s, "plan")
     ELSE IF cancelled[s] THEN Goto(s, "done")
     ELSE spc[previousStop[s]] = "done" /\ Goto(s, "plan")
  /\ UNCHANGED <<ui, os, fields, handoff, after, progress, cancelled,
                 stopping>>

-----------------------------------------------------------------------------
(* Session coroutine: the ladder (connectFlow, runLadder, connectAttempt). *)

\* The attempt throws anything but a CancellationException: runLadder cleans
\* up and moves on, whether or not the session has been cancelled meanwhile.
RungFails(s) ==
  /\ Goto(s, "clean1")
  /\ after' = [after EXCEPT ![s] = "nextRung"]

\* An exception leaves connectFlow: startTunnel reports it and cleans up.
FlowFails(s) ==
  /\ SetState("Error")
  /\ Goto(s, "clean1")
  /\ after' = [after EXCEPT ![s] = "done"]

\* connectFlow up to the first attempt; only Smart Auto's fingerprint suspends.
Plan(s) ==
  /\ pc[s] = "plan"
  /\ SetState("Launching")
  /\ IF profile[s].auto /\ cancelled[s]
     THEN Goto(s, "done") /\ UNCHANGED rung
     ELSE Goto(s, "attempt") /\ rung' = [rung EXCEPT ![s] = 1]
  /\ UNCHANGED <<os, fields, handoff, after, attempt, cancelled, stopping>>

Attempt(s) ==
  /\ pc[s] = "attempt"
  /\ SetState("Launching")
  /\ lockdownTunActive' = FALSE
  /\ Goto(s, "clean1")
  /\ after' = [after EXCEPT ![s] = "awaitClosed"]
  /\ UNCHANGED <<os, engine, psiphonEngine, forwarding, runJob, stopJob,
                 lastStrict, probeFailures, main, handoff, progress,
                 cancelled, stopping>>

\* awaitClosed suspends only while a port still answers; after its deadline
\* the attempt starts anyway.
AwaitClosed(s) ==
  /\ pc[s] = "awaitClosed"
  /\ IF (PortOpen(aether) \/ PortOpen(psi)) /\ cancelled[s]
     THEN Goto(s, "done")
     ELSE Goto(s, "launch")
  /\ UNCHANGED <<ui, os, fields, handoff, after, progress, cancelled,
                 stopping>>

SpawnEngine ==
  \E i \in Pids :
    /\ aether[i] = "none"
    /\ aether' = [aether EXCEPT ![i] = "alive"]
    /\ engine' = i

SpawnPsiphon ==
  \E i \in Pids :
    /\ psi[i] = "none"
    /\ psi' = [psi EXCEPT ![i] = "alive"]
    /\ psiphonEngine' = i

Launch(s) ==
  /\ pc[s] = "launch"
  /\ \/ /\ SpawnEngine
        /\ SetState("Connecting")
        /\ Goto(s, "awaitOpen")
        /\ UNCHANGED after
     \/ CallsFail /\ RungFails(s) /\ UNCHANGED <<ui, aether, engine>>
  /\ UNCHANGED <<psi, tun, psiphonEngine, forwarding, lockdownTunActive,
                 probeFailures, sessionRest, progress, cancelled>>

\* PortProbe.awaitOpen on the port of f, watching handle h: the four ways it
\* ends.  Only its delay() notices a cancellation.
Opened(f) == PortOpen(f)
EngineGone(f, h) == ~PortOpen(f) /\ ~Running(f, h)
WaitCancelled(s, f, h) == ~PortOpen(f) /\ Running(f, h) /\ cancelled[s]
WaitTimesOut(s, f, h) ==
  ~PortOpen(f) /\ Running(f, h) /\ ~cancelled[s] /\ DeadlinePasses

AwaitOpen(s) ==
  /\ pc[s] = "awaitOpen"
  /\ \/ /\ Opened(aether)
        /\ Goto(s, IF profile[s].chained THEN "launchPsi" ELSE "bringUp")
        /\ UNCHANGED after
     \/ EngineGone(aether, engine) /\ RungFails(s)
     \/ WaitTimesOut(s, aether, engine) /\ RungFails(s)
     \/ WaitCancelled(s, aether, engine) /\ Goto(s, "done") /\ UNCHANGED after
  /\ UNCHANGED <<ui, os, fields, handoff, progress, cancelled, stopping>>

LaunchPsiphon(s) ==
  /\ pc[s] = "launchPsi"
  /\ \/ SpawnPsiphon /\ Goto(s, "awaitPsi") /\ UNCHANGED after
     \/ CallsFail /\ RungFails(s) /\ UNCHANGED <<psi, psiphonEngine>>
  /\ UNCHANGED <<ui, aether, tun, engine, forwarding, lockdownTunActive,
                 probeFailures, sessionRest, progress, cancelled>>

AwaitPsiphon(s) ==
  /\ pc[s] = "awaitPsi"
  /\ \/ Opened(psi) /\ Goto(s, "bringUp") /\ UNCHANGED after
     \/ EngineGone(psi, psiphonEngine) /\ RungFails(s)
     \/ WaitTimesOut(s, psi, psiphonEngine) /\ RungFails(s)
     \/ /\ WaitCancelled(s, psi, psiphonEngine)
        /\ Goto(s, "done")
        /\ UNCHANGED after
  /\ UNCHANGED <<ui, os, fields, handoff, progress, cancelled, stopping>>

\* establishTun and startTun2Socks, each of which can throw.  Proxy mode brings
\* no interface up but opens the share listeners, and fails if it cannot; what
\* becomes of them is ShareBridge's, on threads of its own.
BringUp(s) ==
  /\ pc[s] = "bringUp"
  /\ \/ /\ profile[s].proxy \/ consent
        /\ IF profile[s].proxy THEN UNCHANGED <<tun, forwarding>>
           ELSE tun' = "forward" /\ forwarding' = TRUE
        /\ SetState("Verifying")
        /\ Goto(s, "selfTest")
        /\ UNCHANGED after
     \/ /\ CallsFail \/ ~(profile[s].proxy \/ consent)
        /\ tun' \in IF profile[s].proxy \/ ~consent THEN {tun}
                    ELSE {tun, "forward"}
        /\ RungFails(s)
        /\ UNCHANGED <<ui, forwarding>>
  /\ UNCHANGED <<aether, psi, engine, psiphonEngine, lockdownTunActive,
                 probeFailures, sessionRest, progress, cancelled>>

\* Diagnostics.run inside runCatching: a cancelled session sees FALSE.
SelfTest(s) ==
  /\ pc[s] = "selfTest"
  /\ \/ /\ ~cancelled[s] /\ TunnelServes(s)
        /\ Goto(s, "report")
        /\ UNCHANGED after
     \/ RungFails(s)
  /\ UNCHANGED <<ui, os, fields, handoff, progress, cancelled, stopping>>

NextRung(s) ==
  /\ pc[s] = "nextRung"
  /\ IF rung[s] < profile[s].rungs
     THEN /\ rung' = [rung EXCEPT ![s] = @ + 1]
          /\ Goto(s, "attempt")
          /\ UNCHANGED <<ui, after>>
     ELSE FlowFails(s) /\ UNCHANGED rung
  /\ UNCHANGED <<os, fields, handoff, attempt, cancelled, stopping>>

Report(s) ==
  /\ pc[s] = "report"
  /\ SetState("Connected")
  /\ Goto(s, "supervise")
  /\ rung' = [rung EXCEPT ![s] = 0]
  /\ attempt' = [attempt EXCEPT ![s] = 0]
  /\ UNCHANGED <<os, fields, handoff, after, cancelled, stopping>>

-----------------------------------------------------------------------------
(* Session coroutine: superviseEngine.                                     *)

\* Both engines are stopped; only the Psiphon handle is cleared.
StopBoth ==
  /\ psi' = Killed(psi, psiphonEngine)
  /\ psiphonEngine' = 0
  /\ aether' = Killed(aether, engine)

\* enterLockdown / stopEverything: take the session's job, cancel it, and
\* launch the stop coroutine that will join it.
LaunchStop(what) ==
  /\ stops < MaxStops
  /\ stops' = stops + 1
  /\ stopJob' = stops + 1
  /\ spc' = [spc EXCEPT ![stops + 1] = "new"]
  /\ kind' = [kind EXCEPT ![stops + 1] = what]
  /\ job' = [job EXCEPT ![stops + 1] = runJob]
  /\ runJob' = 0
  /\ cancelled' = IF runJob = 0 THEN cancelled
                  ELSE [cancelled EXCEPT ![runJob] = TRUE]

SuperviseAlive(s) ==
  /\ pc[s] = "supervise" /\ currentScopeActive /\ EnginesAlive(s)
  /\ attempt' = [attempt EXCEPT ![s] = 0]
  /\ Goto(s, "watch")
  /\ UNCHANGED <<ui, os, fields, handoff, after, rung, cancelled, stopping>>

SuperviseEnds(s) ==
  /\ pc[s] = "supervise" /\ ~currentScopeActive
  /\ Goto(s, "done")
  /\ UNCHANGED <<ui, os, fields, handoff, after, progress, cancelled,
                 stopping>>

SuperviseGivesUp(s) ==
  /\ pc[s] = "supervise" /\ currentScopeActive /\ ~EnginesAlive(s)
  /\ attempt[s] >= profile[s].retries
  /\ IF profile[s].kill \/ profile[s].strict
     THEN /\ LaunchStop("lockdown")
          /\ Goto(s, "done")
          /\ UNCHANGED <<ui, after>>
     ELSE /\ FlowFails(s)
          /\ UNCHANGED <<runJob, stopJob, stopping, cancelled>>
  /\ UNCHANGED <<os, engine, psiphonEngine, forwarding, lastStrict,
                 lockdownTunActive, probeFailures, main, handoff, progress>>

SuperviseRetries(s) ==
  /\ pc[s] = "supervise" /\ currentScopeActive /\ ~EnginesAlive(s)
  /\ attempt[s] < profile[s].retries
  /\ attempt' = [attempt EXCEPT ![s] = @ + 1]
  /\ SetState("Reconnecting")
  /\ Goto(s, "backoff")
  /\ UNCHANGED <<os, fields, handoff, after, rung, cancelled, stopping>>

\* awaitExit has returned (exit, 30 s, or a cancellation it swallowed).  A
\* check that fails suspends between its attempts, so it notices cancellation.
WatchProbe(s) ==
  /\ pc[s] = "watch" /\ EnginesAlive(s)
  /\ \/ /\ TunnelServes(s)
        /\ probeFailures' = 0
        /\ Goto(s, "supervise")
        /\ UNCHANGED <<aether, psi, psiphonEngine>>
     \/ /\ cancelled[s]
        /\ Goto(s, "done")
        /\ UNCHANGED <<aether, psi, psiphonEngine, probeFailures>>
     \/ /\ ~cancelled[s]
        /\ Goto(s, "supervise")
        /\ IF probeFailures + 1 >= WATCHDOG_FAIL_CYCLES
           THEN probeFailures' = 0 /\ StopBoth
           ELSE /\ probeFailures' = probeFailures + 1
                /\ UNCHANGED <<aether, psi, psiphonEngine>>
  /\ UNCHANGED <<ui, tun, engine, forwarding, lockdownTunActive, sessionRest,
                 after, progress, cancelled>>

WatchExit(s) ==
  /\ pc[s] = "watch" /\ ~EnginesAlive(s)
  /\ Goto(s, "supervise")
  /\ UNCHANGED <<ui, os, fields, handoff, after, progress, cancelled,
                 stopping>>

Backoff(s) ==
  /\ pc[s] = "backoff"
  /\ Goto(s, IF cancelled[s] THEN "done" ELSE "restop")
  /\ UNCHANGED <<ui, os, fields, handoff, after, progress, cancelled,
                 stopping>>

\* Mutant: the surviving half is forgotten instead of stopped.
RestopForgets(s) ==
  /\ pc[s] = "restop"
  /\ engine' = 0
  /\ psiphonEngine' = 0
  /\ Goto(s, "relaunch")
  /\ UNCHANGED <<ui, aether, psi, tun, forwarding, lockdownTunActive,
                 probeFailures, sessionRest, after, progress, cancelled>>

Restop(s) ==
  /\ pc[s] = "restop"
  /\ StopBoth
  /\ engine' = 0
  /\ Goto(s, "relaunch")
  /\ UNCHANGED <<ui, tun, forwarding, lockdownTunActive, probeFailures,
                 sessionRest, after, progress, cancelled>>

Relaunch(s) ==
  /\ pc[s] = "relaunch"
  /\ \/ SpawnEngine /\ Goto(s, "reopen") /\ UNCHANGED <<ui, after>>
     \/ CallsFail /\ FlowFails(s) /\ UNCHANGED <<aether, engine>>
  /\ UNCHANGED <<psi, tun, psiphonEngine, forwarding, lockdownTunActive,
                 probeFailures, sessionRest, progress, cancelled>>

\* Mutant: the restart waits for the port without a deadline.
ReopenWaitsForEver(s) ==
  /\ pc[s] = "reopen"
  /\ \/ /\ Opened(aether)
        /\ Goto(s, IF profile[s].chained THEN "relaunchPsi" ELSE "reverify")
     \/ EngineGone(aether, engine) /\ Goto(s, "supervise")
     \/ WaitCancelled(s, aether, engine) /\ Goto(s, "done")
  /\ UNCHANGED <<ui, os, fields, handoff, after, progress, cancelled,
                 stopping>>

Reopen(s) ==
  /\ pc[s] = "reopen"
  /\ \/ /\ Opened(aether)
        /\ Goto(s, IF profile[s].chained THEN "relaunchPsi" ELSE "reverify")
     \/ EngineGone(aether, engine) /\ Goto(s, "supervise")
     \/ WaitTimesOut(s, aether, engine) /\ Goto(s, "supervise")
     \/ WaitCancelled(s, aether, engine) /\ Goto(s, "done")
  /\ UNCHANGED <<ui, os, fields, handoff, after, progress, cancelled,
                 stopping>>

RelaunchPsiphon(s) ==
  /\ pc[s] = "relaunchPsi"
  /\ \/ SpawnPsiphon /\ Goto(s, "reopenPsi") /\ UNCHANGED <<ui, after>>
     \/ CallsFail /\ FlowFails(s) /\ UNCHANGED <<psi, psiphonEngine>>
  /\ UNCHANGED <<aether, tun, engine, forwarding, lockdownTunActive,
                 probeFailures, sessionRest, progress, cancelled>>

ReopenPsiphon(s) ==
  /\ pc[s] = "reopenPsi"
  /\ \/ /\ Opened(psi)
        /\ Goto(s, "reverify")
        /\ UNCHANGED <<aether, psi, psiphonEngine>>
     \/ /\ \/ EngineGone(psi, psiphonEngine)
           \/ WaitTimesOut(s, psi, psiphonEngine)
        /\ StopBoth
        /\ Goto(s, "supervise")
     \/ /\ WaitCancelled(s, psi, psiphonEngine)
        /\ Goto(s, "done")
        /\ UNCHANGED <<aether, psi, psiphonEngine>>
  /\ UNCHANGED <<ui, tun, engine, forwarding, lockdownTunActive,
                 probeFailures, sessionRest, after, progress, cancelled>>

Reverify(s) ==
  /\ pc[s] = "reverify"
  /\ SetState("Verifying")
  /\ Goto(s, "retest")
  /\ UNCHANGED <<os, fields, handoff, after, progress, cancelled, stopping>>

Retest(s) ==
  /\ pc[s] = "retest"
  /\ \/ /\ ~cancelled[s] /\ TunnelServes(s)
        /\ Goto(s, "rereport")
        /\ UNCHANGED <<aether, psi, psiphonEngine>>
     \/ StopBoth /\ Goto(s, "supervise")
  /\ UNCHANGED <<ui, tun, engine, forwarding, lockdownTunActive,
                 probeFailures, sessionRest, after, progress, cancelled>>

Rereport(s) ==
  /\ pc[s] = "rereport"
  /\ attempt' = [attempt EXCEPT ![s] = 0]
  /\ SetState("Connected")
  /\ Goto(s, "supervise")
  /\ UNCHANGED <<os, fields, handoff, after, rung, cancelled, stopping>>

SessionStep(s) ==
  \/ Begin(s) \/ Clean(s) \/ JoinRun(s) \/ JoinStop(s)
  \/ Plan(s) \/ Attempt(s) \/ AwaitClosed(s) \/ Launch(s) \/ AwaitOpen(s)
  \/ LaunchPsiphon(s) \/ AwaitPsiphon(s) \/ BringUp(s) \/ SelfTest(s)
  \/ NextRung(s) \/ Report(s)
  \/ SuperviseAlive(s) \/ SuperviseEnds(s) \/ SuperviseGivesUp(s)
  \/ SuperviseRetries(s) \/ WatchProbe(s) \/ WatchExit(s) \/ Backoff(s)
  \/ Restop(s) \/ Relaunch(s) \/ Reopen(s) \/ RelaunchPsiphon(s)
  \/ ReopenPsiphon(s) \/ Reverify(s) \/ Retest(s) \/ Rereport(s)

-----------------------------------------------------------------------------
(* Stop coroutines: the launched bodies of stopEverything and              *)
(* enterLockdown.  They suspend only in the final join.                    *)

stopRest == <<runJob, stopJob, lastStrict, probeFailures, main, handoff, pc,
              after, progress, cancelled, stops, kind, job>>

\* Mutant: the previous order, join before clean-up.
StopBeginJoins(k) ==
  /\ spc[k] = "new"
  /\ main = "destroyed" \/ Finished(job[k])
  /\ StopGoto(k, IF main = "destroyed" THEN "done" ELSE "clean1")
  /\ UNCHANGED <<ui, os, engine, psiphonEngine, forwarding,
                 lockdownTunActive, stopRest>>

StopBegin(k) ==
  /\ spc[k] = "new"
  /\ StopGoto(k, IF main = "destroyed" THEN "done" ELSE "clean1")
  /\ UNCHANGED <<ui, os, engine, psiphonEngine, forwarding,
                 lockdownTunActive, stopRest>>

\* Mutant: the forwarder and Psiphon are left running.
StopCleanEngineOnly(k) ==
  /\ \/ /\ spc[k] = "clean1"
        /\ UNCHANGED <<aether, psi, tun, engine, psiphonEngine, forwarding>>
        /\ StopGoto(k, "clean2")
     \/ spc[k] = "clean2" /\ CleanEngine /\ StopGoto(k, "clean3")
     \/ /\ spc[k] = "clean3"
        /\ CleanTun
        /\ StopGoto(k, IF kind[k] = "stop" THEN "publish" ELSE "establish")
  /\ UNCHANGED <<ui, started, consent, lockdownTunActive, stopRest>>

\* cleanupNativeOnly, or cleanupForwardingOnly followed by the tun?.close()
\* at the start of ensureLockdownTun.
StopClean(k) ==
  /\ \/ spc[k] = "clean1" /\ CleanForwarder /\ StopGoto(k, "clean2")
     \/ spc[k] = "clean2" /\ CleanEngine /\ StopGoto(k, "clean3")
     \/ /\ spc[k] = "clean3"
        /\ CleanTun
        /\ StopGoto(k, IF kind[k] = "stop" THEN "publish" ELSE "establish")
  /\ UNCHANGED <<ui, started, consent, lockdownTunActive, stopRest>>

StopEstablish(k) ==
  /\ spc[k] = "establish"
  /\ \/ consent /\ tun' = "blackhole"
     \/ (CallsFail \/ ~consent) /\ tun' = "none"
  /\ lockdownTunActive' = TRUE
  /\ SetState("Lockdown")
  /\ StopGoto(k, "join")
  /\ UNCHANGED <<aether, psi, started, consent, engine, psiphonEngine,
                 forwarding, stopRest>>

StopPublish(k) ==
  /\ spc[k] = "publish"
  /\ SetState("Idle")
  /\ started' = FALSE
  /\ StopGoto(k, "join")
  /\ UNCHANGED <<aether, psi, tun, consent, engine, psiphonEngine, forwarding,
                 lockdownTunActive, stopRest>>

StopJoin(k) ==
  /\ spc[k] = "join"
  /\ Finished(job[k]) \/ main = "destroyed"
  /\ StopGoto(k, "done")
  /\ UNCHANGED <<ui, os, engine, psiphonEngine, forwarding,
                 lockdownTunActive, stopRest>>

StopStep(k) ==
  \/ StopBegin(k) \/ StopClean(k) \/ StopEstablish(k) \/ StopPublish(k)
  \/ StopJoin(k)

-----------------------------------------------------------------------------
(* Main thread.  A connect or disconnect intent is decided on a state read *)
(* earlier and delivered later, so any command can arrive in any state.    *)
(* The UI asks for the VPN consent (prepare) before it sends a connect.    *)

Connect(p) ==
  /\ main = "loop" /\ connects < MaxConnects
  /\ started' = TRUE
  /\ consent' = TRUE
  /\ lastStrict' = p.strict
  /\ connects' = connects + 1
  /\ pc' = [pc EXCEPT ![connects + 1] = "new"]
  /\ profile' = [profile EXCEPT ![connects + 1] = p]
  /\ previousRun' = [previousRun EXCEPT ![connects + 1] = runJob]
  /\ previousStop' = [previousStop EXCEPT ![connects + 1] = stopJob]
  /\ runJob' = connects + 1
  /\ UNCHANGED <<ui, aether, psi, tun, engine, psiphonEngine, forwarding,
                 stopJob, lockdownTunActive, probeFailures, main, after,
                 progress, cancelled, stopping>>

stopEverything == LaunchStop("stop") /\ SetState("Disconnecting")

Disconnect ==
  /\ UserStops /\ main = "loop"
  /\ started' = TRUE
  /\ IF ~lockdownTunActive /\ lastStrict
     THEN LaunchStop("lockdown") /\ UNCHANGED ui
     ELSE stopEverything
  /\ UNCHANGED <<aether, psi, tun, consent, engine, psiphonEngine, forwarding,
                 lastStrict, lockdownTunActive, probeFailures, main, handoff,
                 pc, after, progress>>

\* The system has already taken the interface and the consent away;
\* super.onRevoke() stops the service itself.
Revoke ==
  /\ UserStops /\ main = "loop" /\ tun # "none"
  /\ tun' = "none"
  /\ consent' = FALSE
  /\ started' = FALSE
  /\ stopEverything
  /\ UNCHANGED <<aether, psi, engine, psiphonEngine, forwarding, lastStrict,
                 lockdownTunActive, probeFailures, main, handoff, pc, after,
                 progress>>

\* onDestroy, once nothing keeps the service: it is not started, and no VPN
\* interface holds the system's binding to it.
Destroy ==
  /\ \/ /\ main = "loop" /\ ~started /\ tun = "none" /\ connects + stops > 0
        /\ main' = "destroy2"
        /\ CleanForwarder
        /\ cancelled' = IF runJob = 0 THEN cancelled
                        ELSE [cancelled EXCEPT ![runJob] = TRUE]
     \/ /\ main = "destroy2"
        /\ main' = "destroy3"
        /\ CleanEngine
        /\ UNCHANGED cancelled
     \/ /\ main = "destroy3"
        /\ main' = "destroyed"
        /\ CleanTun
        /\ cancelled' = [s \in Sessions |-> TRUE]
  /\ UNCHANGED <<ui, started, consent, runJob, stopJob, lastStrict,
                 lockdownTunActive, probeFailures, handoff, pc, after, progress, stopping>>

-----------------------------------------------------------------------------
(* Engine processes, as the service sees them from outside: they open their *)
(* port, close it while they reconnect by themselves, die, and are reaped.  *)

ProcessStep(f) ==
  \E i \in Pids :
    \/ /\ f[i] = "alive" /\ ~PortOpen(f)
       /\ f' = [f EXCEPT ![i] = "open"]
    \/ /\ Crashes /\ f[i] = "open"
       /\ f' = [f EXCEPT ![i] = "alive"]
    \/ /\ Crashes /\ f[i] \in {"alive", "open"}
       /\ f' = [f EXCEPT ![i] = "none"]

Reap(f) == \E i \in Pids : f[i] = "dying" /\ f' = [f EXCEPT ![i] = "none"]

processRest == <<ui, tun, started, consent, fields, handoff, pc, after, progress,
                 cancelled, stopping>>

EngineStep  == ProcessStep(aether) /\ UNCHANGED <<psi, processRest>>
PsiphonStep == ProcessStep(psi) /\ UNCHANGED <<aether, processRest>>
ReapStep ==
  \/ Reap(aether) /\ UNCHANGED <<psi, processRest>>
  \/ Reap(psi) /\ UNCHANGED <<aether, processRest>>

-----------------------------------------------------------------------------
Init ==
  /\ state = "Idle" /\ since = FALSE
  /\ aether = [i \in Pids |-> "none"] /\ psi = [i \in Pids |-> "none"]
  /\ tun = "none" /\ started = FALSE /\ consent = TRUE
  /\ engine = 0 /\ psiphonEngine = 0 /\ forwarding = FALSE
  /\ runJob = 0 /\ stopJob = 0
  /\ lastStrict = FALSE /\ lockdownTunActive = FALSE
  /\ probeFailures = 0 /\ main = "loop"
  /\ connects = 0 /\ stops = 0
  /\ pc = [s \in Sessions |-> "unborn"]
  /\ after = [s \in Sessions |-> "done"]
  /\ profile = [s \in Sessions |-> DefaultProfile]
  /\ previousRun = [s \in Sessions |-> 0]
  /\ previousStop = [s \in Sessions |-> 0]
  /\ rung = [s \in Sessions |-> 0]
  /\ attempt = [s \in Sessions |-> 0]
  /\ cancelled = [s \in Sessions |-> FALSE]
  /\ spc = [k \in Stops |-> "unborn"]
  /\ kind = [k \in Stops |-> "stop"]
  /\ job = [k \in Stops |-> 0]

Next ==
  \/ \E p \in Profiles : Connect(p)
  \/ Disconnect \/ Revoke \/ Destroy
  \/ \E s \in Sessions : SessionStep(s)
  \/ \E k \in Stops : StopStep(k)
  \/ EngineStep \/ PsiphonStep \/ ReapStep

\* Coroutines on Dispatchers.IO are always dispatched again, and every wait in
\* them is bounded; a killed process is reaped.  Nothing is assumed of the user,
\* of the engines, nor of when the system destroys the service.
Fairness ==
  /\ \A s \in Sessions : WF_vars(SessionStep(s))
  /\ \A k \in Stops : WF_vars(StopStep(k))
  /\ WF_vars(ReapStep)

Spec == Init /\ [][Next]_vars
FairSpec == Spec /\ Fairness

-----------------------------------------------------------------------------
(* Type invariant. *)

TypeUI == state \in States /\ since \in BOOLEAN

TypeOS ==
  /\ aether \in [Pids -> Status] /\ psi \in [Pids -> Status]
  /\ tun \in {"none", "forward", "blackhole"}
  /\ started \in BOOLEAN /\ consent \in BOOLEAN

TypeHandles ==
  /\ engine \in 0 .. MaxPids /\ psiphonEngine \in 0 .. MaxPids
  /\ runJob \in 0 .. connects /\ stopJob \in 0 .. stops
  /\ probeFailures \in Nat

TypeFlags ==
  /\ forwarding \in BOOLEAN
  /\ lastStrict \in BOOLEAN /\ lockdownTunActive \in BOOLEAN
  /\ main \in {"loop", "destroy2", "destroy3", "destroyed"}

TypeHandoff ==
  /\ connects \in 0 .. MaxConnects
  /\ profile \in [Sessions -> Profile]
  /\ previousRun \in [Sessions -> 0 .. MaxConnects]
  /\ previousStop \in [Sessions -> 0 .. MaxStops]

TypePlace ==
  /\ pc \in [Sessions -> PCs] /\ after \in [Sessions -> Returns]
  /\ cancelled \in [Sessions -> BOOLEAN]

TypeProgress ==
  /\ rung \in [Sessions -> Nat] /\ attempt \in [Sessions -> Nat]
  /\ \A s \in Sessions :
       rung[s] <= profile[s].rungs /\ attempt[s] <= profile[s].retries

TypeStops ==
  /\ stops \in 0 .. MaxStops
  /\ spc \in [Stops -> StopPCs]
  /\ kind \in [Stops -> {"stop", "lockdown"}]
  /\ job \in [Stops -> 0 .. MaxConnects]

\* Every field holds a value of its type; handles, jobs and joins name
\* coroutines and process slots that exist (0 for null); runLadder's index stays
\* inside the plan and the restart counter within maxRetries().
TypeOK ==
  /\ TypeUI /\ TypeOS /\ TypeHandles /\ TypeFlags
  /\ TypeHandoff /\ TypePlace /\ TypeProgress /\ TypeStops

-----------------------------------------------------------------------------
(* Taking over. *)

\* The session has taken ownership: it runs connectFlow (or the cleanups
\* connectFlow makes), and may create processes and interfaces.
OwnsService(s) ==
  \/ pc[s] \in Ladder \cup Supervising
  \/ pc[s] \in {"clean1", "clean2", "clean3"} /\ after[s] # "joinRun"

\* startTunnel: a session runs connectFlow only after the session and the stop
\* it found in runJob and stopJob have finished, and the session that stop was
\* launched to end has finished too (or the whole service is gone).
HandOver ==
  \A s \in Sessions : OwnsService(s) =>
    /\ Finished(previousRun[s])
    /\ previousStop[s] # 0 =>
         /\ spc[previousStop[s]] = "done"
         /\ Finished(job[previousStop[s]]) \/ main = "destroyed"

\* startTunnel promises more: "it waits for the old one to finish" - whichever
\* old session that is, never two of them inside connectFlow.
OneOwner ==
  \A s, t \in Sessions : OwnsService(s) /\ OwnsService(t) => s = t

\* A connect accepted after a disconnect is not dropped: the instance is not
\* destroyed under a session that still has to run.
ConnectSurvivesStop ==
  main # "loop" => Finished(runJob)

\* job.cancel() in stopEverything, enterLockdown, startTunnel and onDestroy is
\* enough: a cancelled session ends, whatever it was waiting for.
CancelledSessionEnds ==
  \A s \in Sessions : cancelled[s] ~> pc[s] \in {"done", "unborn"}

\* Every stop coroutine gets through its clean-up and its join: sessions wait
\* for stops and stops for sessions, but never in a circle.
StopEnds == \A k \in Stops : spc[k] = "new" ~> spc[k] = "done"

-----------------------------------------------------------------------------
(* Supervision. *)

NothingRuns ==
  \A i \in Pids : ~Running(aether, i) /\ ~Running(psi, i)

\* One connect so far and no stop by the user, who disconnects into a lockdown
\* only if the profile is strict.
FirstSession ==
  /\ connects <= 1
  /\ UserStops => ~lastStrict /\ \A k \in 1 .. stops : kind[k] = "lockdown"

HandlesHeld ==
  \A i \in Pids :
    /\ Running(aether, i) => engine = i
    /\ Running(psi, i) => psiphonEngine = i

\* A process that runs is the one the service holds a handle of: no rung, retry
\* or restart of a session leaves one behind that no clean-up can stop.  (A stop
\* that meets the session in mid-launch can: DisconnectStopsEngine.)
EngineOwned == FirstSession => HandlesHeld

\* A lockdown the supervisor enters: when it is shown, the forwarder and the
\* engines are down, and no interface that forwards is left.
LockdownBlocks ==
  FirstSession /\ state = "Lockdown"
    => tun # "forward" /\ ~forwarding /\ NothingRuns

\* Lockdown: "KEEP a blocking full-tunnel TUN up, so every packet is
\* blackholed instead of leaking direct".
LockdownRoutes == state = "Lockdown" => tun = "blackhole"

\* The supervisor is never stuck in a restart: whatever dies or misses its
\* deadline, and whichever half does not come back, the restart is reported,
\* followed by another or given up, or the watchdog finds the tunnel served
\* (superviseEngine).
RestartMovesOn ==
  \A s \in Sessions :
    pc[s] = "reopen"
      ~> \/ pc[s] \in {"rereport", "backoff", "clean1", "done"}
         \/ pc[s] = "watch" /\ TunnelServes(s)

-----------------------------------------------------------------------------
(* Disconnecting. *)

Settled ==
  /\ \A s \in Sessions : pc[s] \in {"unborn", "done"}
  /\ \A k \in Stops : spc[k] \in {"unborn", "done"}

\* "kill the natives right away - this is what actually makes the tunnel stop":
\* once a disconnect is the last thing that happened and everything has come to
\* rest, no engine runs.
DisconnectStopsEngine ==
  Settled /\ runJob = 0 /\ stopJob # 0 /\ kind[stopJob] = "stop"
    => NothingRuns

\* Lockdown lasts until the user lifts it, "connecting again or disconnecting
\* lifts the lockdown": once a disconnect is the last thing that happened and
\* everything has come to rest, no interface is left, a blackhole least of all.
DisconnectReleasesInterface ==
  Settled /\ runJob = 0 /\ stopJob # 0 /\ kind[stopJob] = "stop"
    => tun = "none" /\ ~forwarding

\* Sessions wait for stops, stops for sessions and both for their clean-ups, but
\* nobody for ever: a cancelled session ends, and so does every stop.
NobodyWaitsForEver == CancelledSessionEnds /\ StopEnds
=============================================================================
