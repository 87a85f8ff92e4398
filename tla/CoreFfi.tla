------------------------------ MODULE CoreFfi ------------------------------
(***************************************************************************)
(* The job interface of the core (ffi.rs) and its cancellation (api.rs).    *)
(*                                                                          *)
(* A caller starts a job, polls it, cancels it and frees it; the work runs  *)
(* on the async runtime and leaves its reply in a cell that the registry    *)
(* and the task share.  Jobs may leave identities and sign-in sessions in   *)
(* two more registries.  Ids come from one counter; the identity or session *)
(* a job makes is named after that job, and 0 stands for one that was made  *)
(* before.  Payloads and replies are abstracted to which ids they name.     *)
(***************************************************************************)
EXTENDS Naturals

CONSTANT MaxJobs   \* bound on the jobs started

ASSUME CoreFfiConstants == MaxJobs \in Nat \ {0}

VARIABLES
  ffiJob,       \* ffiJob[j]: the cell and the registry's entry of job j
  ffiTask,      \* ffiTask[j]: where its task is
  identities,   \* the identity registry
  sessions,     \* the session registry
  sessionLock,  \* sessionLock[s]: the job inside session s, or 0
  learned,      \* ids the caller has been told
  abandoned     \* jobs the caller freed before it had their reply

ffiVars == <<ffiJob, ffiTask, identities, sessions, sessionLock, learned,
             abandoned>>

Jobs == 1 .. MaxJobs
Ids == 0 .. MaxJobs

\* "guarded" is a scan, a verification or a tunnel of an identity, "core" the
\* whole program, "sign-in" a team's sign-in without a session.
FfiKinds == {"guarded", "core", "open", "code", "session", "sign-in"}

NoJob == [kind |-> "none", of |-> 0, registered |-> FALSE,
          cancelled |-> FALSE, changed |-> FALSE, state |-> "Running",
          reply |-> "none"]

FfiInit ==
  /\ ffiJob = [j \in Jobs |-> NoJob]
  /\ ffiTask = [j \in Jobs |-> "none"]
  /\ identities = {0} /\ sessions = {0} /\ learned = {0} /\ abandoned = {}
  /\ sessionLock = [s \in Ids |-> 0]

-----------------------------------------------------------------------------
(* What the caller does. *)

\* Where the task of a job begins: some guarded work fetches an ECHConfigList
\* first, which a cancel does not interrupt.
FirstSteps(kind) == CASE kind = "guarded" -> {"ech", "subscribe"}
                      [] kind = "core" -> {"subscribe"}
                      [] kind = "session" -> {"lock"}
                      [] OTHER -> {"work"}

\* spawn_job; a scan, a verification and a tunnel need an identity and a code
\* needs its session, and hold on to it whatever the registry does later.
Start(j, kind, i) ==
  /\ ffiJob[j].kind = "none" /\ \A k \in Jobs : k < j => ffiJob[k].kind # "none"
  /\ kind = "guarded" => i \in identities \cap learned
  /\ kind = "session" => i \in sessions \cap learned
  /\ kind \notin {"guarded", "session"} => i = 0
  /\ ffiJob' = [ffiJob EXCEPT ![j].kind = kind, ![j].of = i,
                              ![j].registered = TRUE]
  /\ \E pc \in FirstSteps(kind) : ffiTask' = [ffiTask EXCEPT ![j] = pc]
  /\ UNCHANGED <<identities, sessions, sessionLock, learned, abandoned>>

\* aether_job_poll.
Poll(j) ==
  /\ ffiJob[j].registered /\ ffiJob[j].state = "Done"
  /\ ffiJob[j].reply = "id" /\ j \notin learned
  /\ learned' = learned \cup {j}
  /\ UNCHANGED <<ffiJob, ffiTask, identities, sessions, sessionLock, abandoned>>

Cancelled(r) == [r EXCEPT !.cancelled = TRUE, !.changed = TRUE]

\* aether_job_cancel.
JobCancel(j) ==
  /\ ffiJob[j].registered /\ ~ffiJob[j].cancelled
  /\ ffiJob' = [ffiJob EXCEPT ![j] = Cancelled(@)]
  /\ UNCHANGED <<ffiTask, identities, sessions, sessionLock, learned, abandoned>>

\* aether_job_free: the entry goes first, then the job is cancelled.
JobFree(j) ==
  /\ ffiJob[j].registered
  /\ ffiJob' = [ffiJob EXCEPT ![j] = [Cancelled(@) EXCEPT !.registered = FALSE]]
  /\ abandoned' = IF ffiJob[j].state = "Done" /\ (ffiJob[j].reply = "id" => j \in learned)
                  THEN abandoned ELSE abandoned \cup {j}
  /\ UNCHANGED <<ffiTask, identities, sessions, sessionLock, learned>>

\* aether_identity_free and aether_team_session_free.
Forget(i) ==
  /\ i \in learned /\ i \in identities \cup sessions
  /\ identities' = identities \ {i} /\ sessions' = sessions \ {i}
  /\ UNCHANGED <<ffiJob, ffiTask, sessionLock, learned, abandoned>>

-----------------------------------------------------------------------------
(* The task.  A guard first polls cancel.wait(), then its work; the waiter  *)
(* subscribes to the watch channel, looks at its value and then sleeps      *)
(* until the value changes.                                                 *)

Move(j, from, to) == ffiTask[j] = from /\ ffiTask' = [ffiTask EXCEPT ![j] = to]

FetchEch(j) ==
  /\ Move(j, "ech", "subscribe")
  /\ UNCHANGED <<ffiJob, identities, sessions, sessionLock, learned, abandoned>>

\* self.sender.subscribe(): what happened before counts as seen.
Subscribe(j) ==
  /\ Move(j, "subscribe", "check")
  /\ ffiJob' = [ffiJob EXCEPT ![j].changed = FALSE]
  /\ UNCHANGED <<identities, sessions, sessionLock, learned, abandoned>>

\* Mutant: the waiter sleeps first and looks at the value when it changes.
CheckChangesOnly(j) ==
  /\ ffiTask[j] = "check" \/ (ffiTask[j] = "wait" /\ ffiJob[j].changed)
  /\ ffiTask' = [ffiTask EXCEPT ![j] =
                   IF @ = "wait" /\ ffiJob[j].cancelled THEN "stopped" ELSE "wait"]
  /\ ffiJob' = [ffiJob EXCEPT ![j].changed = IF ffiTask[j] = "wait" THEN FALSE ELSE @]
  /\ UNCHANGED <<identities, sessions, sessionLock, learned, abandoned>>

\* receiver.borrow_and_update(), before the sleep and after each change.
Check(j) ==
  /\ ffiTask[j] = "check" \/ (ffiTask[j] = "wait" /\ ffiJob[j].changed)
  /\ ffiTask' = [ffiTask EXCEPT ![j] =
                   IF ffiJob[j].cancelled THEN "stopped" ELSE "wait"]
  /\ ffiJob' = [ffiJob EXCEPT ![j].changed = FALSE]
  /\ UNCHANGED <<identities, sessions, sessionLock, learned, abandoned>>

\* The guarded work ends by itself.  A cancel that comes while the guard is
\* between its two polls does not stop it.
WorkEnds(j) ==
  /\ Move(j, "wait", "ended")
  /\ UNCHANGED <<ffiJob, identities, sessions, sessionLock, learned, abandoned>>

\* session.lock().await, for a resend or a submitted code.
EnterSession(j) ==
  /\ Move(j, "lock", "inside")
  /\ sessionLock[ffiJob[j].of] = 0
  /\ sessionLock' = [sessionLock EXCEPT ![ffiJob[j].of] = j]
  /\ UNCHANGED <<ffiJob, identities, sessions, learned, abandoned>>

LeaveSession(j) ==
  /\ Move(j, "inside", "ended")
  /\ sessionLock' = [sessionLock EXCEPT ![ffiJob[j].of] = 0]
  /\ UNCHANGED <<ffiJob, identities, sessions, learned, abandoned>>

\* open_identity or team_email_code_request ends; what it made is registered.
\* A sign-in, or a call that failed, leaves nothing.
Keep(j) ==
  /\ \/ /\ Move(j, "work", "kept") /\ ffiJob[j].kind # "sign-in"
        /\ IF ffiJob[j].kind = "open"
           THEN identities' = identities \cup {j} /\ UNCHANGED sessions
           ELSE sessions' = sessions \cup {j} /\ UNCHANGED identities
     \/ Move(j, "work", "ended") /\ UNCHANGED <<identities, sessions>>
  /\ UNCHANGED <<ffiJob, sessionLock, learned, abandoned>>

\* Mutant: a job that was cancelled answers so, whatever it has made.
PublishUnlessCancelled(j) ==
  /\ ffiTask[j] \in {"kept", "stopped", "ended"}
  /\ ffiTask' = [ffiTask EXCEPT ![j] = "gone"]
  /\ ffiJob' = [ffiJob EXCEPT ![j].state = "Done",
                  ![j].reply = IF ffiTask[j] = "kept" /\ ~ffiJob[j].cancelled
                               THEN "id" ELSE "value"]
  /\ UNCHANGED <<identities, sessions, sessionLock, learned, abandoned>>

\* The end of every task, a panic of its work included.
Publish(j) ==
  /\ ffiTask[j] \in {"kept", "stopped", "ended"}
  /\ ffiTask' = [ffiTask EXCEPT ![j] = "gone"]
  /\ ffiJob' = [ffiJob EXCEPT ![j].state = "Done",
                  ![j].reply = IF ffiTask[j] = "kept" THEN "id" ELSE "value"]
  /\ UNCHANGED <<identities, sessions, sessionLock, learned, abandoned>>

-----------------------------------------------------------------------------
Caller == \/ \E j \in Jobs : Poll(j) \/ JobCancel(j) \/ JobFree(j)
          \/ \E j \in Jobs, kind \in FfiKinds, i \in Ids : Start(j, kind, i)
          \/ \E i \in Ids : Forget(i)

Task(j) == \/ FetchEch(j) \/ Subscribe(j) \/ Check(j) \/ EnterSession(j)
           \/ LeaveSession(j) \/ Keep(j) \/ Publish(j)

FfiNext == Caller \/ \E j \in Jobs : Task(j) \/ WorkEnds(j)

\* The runtime runs its tasks and the calls a task waits for have timeouts;
\* guarded work may run for ever.
FfiSpec == FfiInit /\ [][FfiNext]_ffiVars /\ \A j \in Jobs : WF_ffiVars(Task(j))

-----------------------------------------------------------------------------
(* Properties. *)

\* The types, and that a session's lock is held by a task that is inside it
\* (the guard of ffi.rs:545 and 561 is released however the call ends).
FfiTypeOK ==
  /\ ffiJob \in [Jobs -> [kind : FfiKinds \cup {"none"}, of : Ids,
                          registered : BOOLEAN, cancelled : BOOLEAN,
                          changed : BOOLEAN, state : {"Running", "Done"},
                          reply : {"none", "id", "value"}]]
  /\ ffiTask \in [Jobs -> {"none", "ech", "subscribe", "check", "wait",
                           "stopped", "ended", "lock", "inside", "work",
                           "kept", "gone"}]
  /\ identities \subseteq Ids /\ sessions \subseteq Ids
  /\ learned \subseteq Ids /\ abandoned \subseteq Jobs
  /\ sessionLock \in [Ids -> Ids]
  /\ \A s \in Ids : sessionLock[s] # 0 => ffiTask[sessionLock[s]] = "inside"

\* An identity or a session the caller does not know of is one it can still
\* learn by polling, or one whose job it freed without waiting for the reply:
\* freeing does not stop the work, so what that job makes stays in the
\* registry (ffi.rs:132, 340, 531).
OnlyAbandonedLeak ==
  \A i \in identities \cup sessions :
    i \in learned \/ i \in abandoned
    \/ (ffiJob[i].registered /\ (ffiJob[i].state = "Done" => ffiJob[i].reply = "id"))

\* Two codes for one sign-in are never in flight together: a resend and a
\* submit of one session wait for each other, also once the session is freed.
SessionExclusive ==
  \A j, k \in Jobs :
    ffiTask[j] = "inside" /\ ffiTask[k] = "inside" /\ ffiJob[j].of = ffiJob[k].of
    => j = k

\* A job that was cancelled or freed answers, in every interleaving of the
\* cancel with the waiter's subscription; freeing one is how a tunnel whose
\* id is lost is stopped (api.rs:73, ffi.rs:307).
CancelledJobEnds ==
  \A j \in Jobs : /\ ffiJob[j].kind # "none"
                  /\ ffiJob[j].cancelled \/ ~ffiJob[j].registered
                  ~> ffiJob[j].state = "Done"

\* The registries behind the ids: nothing is lost in them but what the caller
\* gave up, and a sign-in session serves one call at a time.
RegistriesSound == FfiTypeOK /\ OnlyAbandonedLeak /\ SessionExclusive
=============================================================================
