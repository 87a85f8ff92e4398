---------------------------- MODULE TunnelTasks ----------------------------
(***************************************************************************)
(* The tasks of a tunnel (lib.rs): what run_masque_tunnel,                  *)
(* run_wireguard_tunnel and run_warp_in_warp spawn, when each of them ends  *)
(* and who ends it.                                                         *)
(*                                                                          *)
(* An attempt is the future of one of the three functions.  It returns, or  *)
(* a caller drops it (api::guard on a cancel).  An aborted task lives until *)
(* the runtime gets to it.  A network stack ends when its tunnel is gone or *)
(* when nobody holds a StackHandle; a tunnel ends when its stack has gone.  *)
(* Attempts follow each other, as in the outer loops, and bind one port.    *)
(*                                                                          *)
(* The clients of the SOCKS listener are in its JoinSet and end with it.    *)
(* Those of the HTTP proxy are tasks nobody has a handle of: "inside" the   *)
(* tunnel, or "outside", as long as their client has not said what it wants *)
(* or when its server is contacted directly.                                *)
(***************************************************************************)
EXTENDS Naturals, FiniteSets

CONSTANTS MaxAttempts,   \* bound on the attempts, which are made in order
          LaterKinds,    \* bound on what the attempts after the first are
          HttpAttempts   \* bound on the attempts for which AETHER_HTTP_PROXY is set

TunnelKinds == {"masque", "wireguard", "gool"}

ASSUME TunnelTasksConstants ==
  /\ MaxAttempts \in Nat \ {0} /\ LaterKinds \subseteq TunnelKinds

Attempts == 1 .. MaxAttempts

HttpProxy(a) == IF a \in HttpAttempts THEN {"http"} ELSE {}

VARIABLES
  kind,       \* kind[a]: "masque", "wireguard" or "gool"
  main,       \* main[a]: where the attempt's future is
  tasks,      \* tasks[a]: the tasks of the attempt that live
  aborting,   \* aborting[a]: those that were told to end
  port,       \* the attempt whose SOCKS listener has the port, 0 or Foreign
  refused     \* attempts whose listener could not bind

taskVars == <<kind, main, tasks, aborting, port, refused>>

\* The stack that tunnel t of an attempt feeds.
StackOf(t) == CASE t = "tunnel" -> "stack"
                [] t = "outer" -> "outerStack" [] t = "inner" -> "innerStack"

\* Of WireGuard, the tunnel itself runs in the attempt's future.
OwnTunnel(a) == kind[a] = "wireguard" /\ main[a] = "up"

TunnelLives(a, s) ==
  CASE s = "stack" -> "tunnel" \in tasks[a] \/ OwnTunnel(a)
    [] s = "outerStack" -> "outer" \in tasks[a]
    [] s = "innerStack" -> "inner" \in tasks[a]

Over(a) == main[a] \in {"returned", "dropped"}

\* The StackHandles: the future's own, and the clones of the tasks that use
\* the stack.  Of warp-in-warp the listeners have the inner stack.  Every client
\* of the HTTP proxy has one, wherever it is.
Listeners == {"socks", "http", "inside", "outside"}

Held(a, s) ==
  CASE s = "stack" -> \/ ~Over(a) \/ ({"bridge"} \cup Listeners) \cap tasks[a] # {}
    [] s = "outerStack" -> ~Over(a)
    [] s = "innerStack" -> Listeners \cap tasks[a] # {}

Foreign == MaxAttempts + 1   \* another program has the port

TasksStart(p) ==
  /\ kind = [a \in Attempts |-> "none"] /\ main = [a \in Attempts |-> "none"]
  /\ tasks = [a \in Attempts |-> {}] /\ aborting = [a \in Attempts |-> {}]
  /\ port = p /\ refused = {}

TasksInit == \E p \in {0, Foreign} : TasksStart(p)

\* The attempt goes to pc, spawns the tasks of `new` and aborts those of `end`.
Go(a, pc, new, end) ==
  /\ main' = [main EXCEPT ![a] = pc]
  /\ tasks' = [tasks EXCEPT ![a] = @ \cup new]
  /\ aborting' = [aborting EXCEPT ![a] = @ \cup (end \cap (tasks[a] \cup new))]

\* TaskGuard: what a future has pushed is aborted when it is dropped.  The
\* tasks of warp-in-warp are not pushed, except those of its forwarder.
Guarded(a) == IF kind[a] = "gool" THEN {"forwarder"}
              ELSE {"bridge", "tunnel", "socks", "http"}

-----------------------------------------------------------------------------
BeginTunnel(a) ==
  /\ main[a] = "none" /\ \A b \in Attempts : b < a => Over(b)
  /\ \E k \in IF a = 1 THEN TunnelKinds ELSE LaterKinds :
       /\ kind' = [kind EXCEPT ![a] = k]
       /\ Go(a, "validating",
             IF k = "masque" THEN {"stack", "bridge", "tunnel"} ELSE {}, {})
  /\ UNCHANGED <<port, refused>>

\* The data plane has answered.
Validated(a) ==
  /\ main[a] = "validating"
  /\ kind[a] = "masque" => "tunnel" \in tasks[a]
  /\ CASE kind[a] = "masque" -> Go(a, "up", {"socks"} \cup HttpProxy(a), {})
       [] kind[a] = "wireguard" ->
            Go(a, "up", {"stack", "socks"} \cup HttpProxy(a), {})
       [] kind[a] = "gool" -> Go(a, "forwarding", {"outer", "outerStack"}, {})
  /\ UNCHANGED <<kind, port, refused>>

\* It has not: a timeout, a refusal, or the tunnel task has ended.
NotValidated(a) ==
  /\ main[a] = "validating"
  /\ Go(a, "returned", {}, Guarded(a))
  /\ UNCHANGED <<kind, port, refused>>

\* spawn_udp_forwarder, through the outer stack if it is still there.
Forward(a) ==
  /\ main[a] = "forwarding"
  /\ IF "outerStack" \in tasks[a] THEN Go(a, "inner", {"forwarder"}, {})
     ELSE Go(a, "returned", {}, Guarded(a))
  /\ UNCHANGED <<kind, port, refused>>

InnerValidated(a) ==
  /\ main[a] = "inner"
  /\ Go(a, "up", {"inner", "innerStack", "socks"} \cup HttpProxy(a), {})
  /\ UNCHANGED <<kind, port, refused>>

InnerFails(a) ==
  /\ main[a] = "inner"
  /\ Go(a, "returned", {}, Guarded(a))
  /\ UNCHANGED <<kind, port, refused>>

\* The MASQUE tunnel has ended: its listeners are told to, and the guard
\* ends the rest.
MasqueEnds(a) ==
  /\ kind[a] = "masque" /\ main[a] = "up" /\ "tunnel" \notin tasks[a]
  /\ Go(a, "returned", {}, Guarded(a))
  /\ UNCHANGED <<kind, port, refused>>

\* Mutant: the SOCKS task is told to end and not awaited.
WireguardEndsAtOnce(a) ==
  /\ kind[a] = "wireguard" /\ main[a] = "up"
  /\ Go(a, "returned", {}, {"http", "socks"})
  /\ UNCHANGED <<kind, port, refused>>

\* tunnel.run returns: by itself, or because the stack has gone.
WireguardEnds(a) ==
  /\ kind[a] = "wireguard" /\ main[a] = "up"
  /\ Go(a, "joining", {}, {"http", "socks"})
  /\ UNCHANGED <<kind, port, refused>>

WireguardReturns(a) ==
  /\ kind[a] = "wireguard" /\ main[a] = "joining" /\ "socks" \notin tasks[a]
  /\ Go(a, "returned", {}, Guarded(a))
  /\ UNCHANGED <<kind, port, refused>>

GoolHandles == {"outer", "inner", "socks"}

\* select! over the three handles, then the ones that have not won are
\* aborted and awaited; a handle must not be polled again once it answered.
GoolEnds(a) ==
  /\ kind[a] = "gool" /\ main[a] = "up"
  /\ ~ GoolHandles \subseteq tasks[a]
  /\ Go(a, "joining", {}, GoolHandles \cup {"http"})
  /\ UNCHANGED <<kind, port, refused>>

GoolReturns(a) ==
  /\ kind[a] = "gool" /\ main[a] = "joining" /\ GoolHandles \cap tasks[a] = {}
  /\ Go(a, "returned", {}, Guarded(a))
  /\ UNCHANGED <<kind, port, refused>>


\* The caller drops the future.
Drop(a) ==
  /\ main[a] \in {"validating", "forwarding", "inner", "up", "joining"}
  /\ Go(a, "dropped", {}, Guarded(a))
  /\ UNCHANGED <<kind, port, refused>>

-----------------------------------------------------------------------------
\* The tasks of ts end, and drop what they own.
End(a, ts) ==
  /\ ts # {} /\ ts \subseteq tasks[a]
  /\ tasks' = [tasks EXCEPT ![a] = @ \ ts]
  /\ aborting' = [aborting EXCEPT ![a] = @ \ ts]
  /\ port' = IF "socks" \in ts /\ port = a THEN 0 ELSE port
  /\ UNCHANGED <<kind, main>>

Ends(a, t) == End(a, {t})

\* The runtime gets to the tasks that were aborted: the listener, whose port
\* matters, and the others.
Aborted(a) ==
  /\ End(a, aborting[a] \cap {"socks"}) \/ End(a, aborting[a] \ {"socks"})
  /\ UNCHANGED refused

\* A tunnel loses its edge, its listener cannot go on, or a client is done.
Fails(a, t) ==
  /\ \/ t \in {"tunnel", "outer", "inner", "inside", "outside"}
     \/ t = "socks" /\ port = a
  /\ Ends(a, t) /\ UNCHANGED refused

\* outbound_rx is closed.
StackGone(a, t) ==
  /\ t \in {"tunnel", "outer", "inner"} /\ StackOf(t) \notin tasks[a]
  /\ Ends(a, t) /\ UNCHANGED refused

\* inbound_rx or cmd_rx is closed.
StackEnds(a, s) ==
  /\ s \in {"stack", "outerStack", "innerStack"}
  /\ ~TunnelLives(a, s) \/ ~Held(a, s)
  /\ Ends(a, s) /\ UNCHANGED refused

\* addr_tx is closed.
BridgeEnds(a) ==
  "tunnel" \notin tasks[a] /\ Ends(a, "bridge") /\ UNCHANGED refused

\* The forwarder's UDP socket goes with the outer stack.
ForwarderEnds(a) ==
  "outerStack" \notin tasks[a] /\ Ends(a, "forwarder") /\ UNCHANGED refused

Spawn(a, t) ==
  /\ tasks' = [tasks EXCEPT ![a] = @ \cup {t}]
  /\ UNCHANGED <<kind, main, aborting, port, refused>>

\* serve_http accepts a client, and spawns a task for it; one that wants to be
\* relayed through the tunnel has a connection opened in the stack.
HttpAccepts(a) == "http" \in tasks[a] \ aborting[a] /\ Spawn(a, "outside")

HttpStack(a) == IF kind[a] = "gool" THEN "innerStack" ELSE "stack"

HttpOpens(a) ==
  "outside" \in tasks[a] /\ HttpStack(a) \in tasks[a] /\ Spawn(a, "inside")

\* from_stack is closed.
HttpCut(a) ==
  HttpStack(a) \notin tasks[a] /\ Ends(a, "inside") /\ UNCHANGED refused

\* socks::serve binds, or fails and, but for warp-in-warp, is not missed.  A
\* task that was aborted is not polled again.
Bind(a) ==
  /\ "socks" \in tasks[a] \ aborting[a] /\ port # a
  /\ IF port = 0
     THEN port' = a /\ UNCHANGED <<kind, main, tasks, aborting, refused>>
     ELSE Ends(a, "socks") /\ refused' = refused \cup {a}

TaskNames == {"bridge", "tunnel", "socks", "http", "forwarder", "outer",
              "inner", "stack", "outerStack", "innerStack", "inside", "outside"}

\* What the runtime brings about.
Runtime(a) ==
  \/ \E t \in TaskNames : StackGone(a, t) \/ StackEnds(a, t)
  \/ Aborted(a) \/ BridgeEnds(a) \/ ForwarderEnds(a) \/ HttpCut(a) \/ Bind(a)

\* What the attempt does when what it waits for has happened.
Continues(a) == \/ MasqueEnds(a) \/ WireguardReturns(a) \/ GoolEnds(a)
                \/ GoolReturns(a) \/ Forward(a)
                \/ OwnTunnel(a) /\ "stack" \notin tasks[a] /\ WireguardEnds(a)

TasksNext ==
  \E a \in Attempts :
    \/ BeginTunnel(a) \/ Validated(a) \/ NotValidated(a) \/ InnerValidated(a)
    \/ InnerFails(a) \/ WireguardEnds(a) \/ Drop(a)
    \/ HttpAccepts(a) \/ HttpOpens(a)
    \/ Continues(a) \/ Runtime(a) \/ \E t \in TaskNames : Fails(a, t)

\* The runtime runs every task that can go on; that an edge fails, or that an
\* attempt is made or dropped, is nobody's duty.
TasksFair(a) == Runtime(a) \/ Continues(a)

TasksSpec ==
  TasksInit /\ [][TasksNext]_taskVars
            /\ \A a \in Attempts : WF_taskVars(TasksFair(a))

-----------------------------------------------------------------------------
(* Properties. *)

\* The types, and that a port is held by a listener that lives.
TasksTypeOK ==
  /\ kind \in [Attempts -> TunnelKinds \cup {"none"}]
  /\ main \in [Attempts -> {"none", "validating", "forwarding", "inner", "up",
                            "joining", "returned", "dropped"}]
  /\ \A a \in Attempts : aborting[a] \subseteq tasks[a] /\ tasks[a] \subseteq TaskNames
  /\ port \in Attempts \cup {0, Foreign} /\ refused \subseteq Attempts
  /\ port \in Attempts => "socks" \in tasks[port]

\* "aether_job_cancel stops it" (DOCS.en.md:287): nothing runs on of an attempt
\* whose future was dropped.  The code does not keep this: the tasks of a
\* warp-in-warp tunnel that is up are in nobody's guard (lib.rs:1485), and hold
\* each other up, and the HTTP proxy's clients are in nobody's (socks.rs:1320).
CancelStopsAttempt == \A a \in Attempts : main[a] = "dropped" ~> tasks[a] = {}

\* What is left of it.  Of an attempt that returned, or of one tunnel that was
\* dropped, what the guard does not abort the closing of the channels brings
\* down, the HTTP clients inside the tunnel included although each holds a
\* StackHandle; only those outside it stay.  Of a dropped warp-in-warp the
\* outer tunnel ends.
Stays(a) == IF main[a] = "dropped" /\ kind[a] = "gool"
            THEN {"inner", "innerStack"} \cup Listeners ELSE {"outside"}


\* An attempt finds the port taken only after a MASQUE attempt, whose listener
\* is aborted and not awaited, or after one that was dropped, or from another
\* program; a WireGuard or warp-in-warp attempt that returns has
\* given it back (lib.rs:1375, 1598).
RefusedOnlyIfNotAwaited ==
  \A a \in refused :
    \/ main[a] = "dropped" \/ port = Foreign
    \/ \E b \in Attempts : b < a /\ (kind[b] = "masque" \/ main[b] = "dropped")

\* Whichever of the two tunnels of warp-in-warp or the listener ends first, the
\* inner tunnel and the listener are gone when the attempt returns
\* (lib.rs:1579: "must not be polled again").
GoolReturnsWhole ==
  \A a \in Attempts :
    kind[a] = "gool" /\ main[a] = "returned"
    => {"inner", "socks"} \cap tasks[a] = {}

\* The port passes from one attempt to the next: one that returns has ended what
\* held it, so that another is refused only after an abort nobody awaits.
PortHandedOn == TasksTypeOK /\ RefusedOnlyIfNotAwaited /\ GoolReturnsWhole
=============================================================================
