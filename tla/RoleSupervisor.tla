--------------------------- MODULE RoleSupervisor ---------------------------
(***************************************************************************)
(* The supervisor thread of a role process (crates/keld-runtime/src/lib.rs *)
(* and role.rs): it waits for the child, revokes the authority of an ended *)
(* or stopped generation, counts crashes, asks the recovery gate and       *)
(* spawns the successor.  Its owner reaches it through atomics only        *)
(* (shutdown, accepted_shutdown, restart_attempt, the gate's decision) and *)
(* hears from it over two channels that are not ordered with each other:   *)
(* role events, of which only Revoked matters, and authenticated links.    *)
(*                                                                         *)
(* The role process, its link and the operating system's spawn are         *)
(* external.  No crash leaves the crash-loop window, and the first         *)
(* generation's link has already been handed over.                         *)
(***************************************************************************)
EXTENDS Naturals, Sequences

CONSTANT MaxCrashes  \* RestartPolicy::max_crashes

ASSUME MaxCrashesAssumption == MaxCrashes \in Nat \ {0}

Attempts == 1 .. MaxCrashes

VARIABLES
  sup,                \* where the loop of supervise is
  attempt,            \* the generation it supervises
  child,              \* "alive", "zero", "crash", or "reaped" by the host
  crashes,            \* the length of crash_times
  restart_attempt,    \* a requested restart, or 0
  shutdown,
  accepted_shutdown,
  gate,               \* RoleRecoveryGate::decision
  events,             \* Revoked events
  bounds,             \* authenticated links on their way to the owner
  link                \* each generation's link: "none", "open" or "broken"

loopVars == <<sup, attempt, child, crashes>>
flagVars == <<restart_attempt, shutdown, accepted_shutdown, gate>>
supervisorVars == <<sup, attempt, child, crashes, restart_attempt, shutdown,
                    accepted_shutdown, gate, events, bounds, link>>

\* A wait that has ended is about to revoke: after a crash, a final exit, for a
\* restart, for a shutdown, or because the child was not admitted.
Revoking == {"crashed", "final", "restarting", "stopping", "unadmitted"}
Terminal == {"stopped", "crashloop", "failed"}

\* Type invariant.
SupervisorTypeOK ==
  /\ sup \in {"waiting", "backoff", "gate", "prepared"} \cup Revoking \cup Terminal
  /\ attempt \in Attempts
  /\ child \in {"alive", "zero", "crash", "reaped"}
  /\ crashes \in 0 .. MaxCrashes
  /\ restart_attempt \in 0 .. MaxCrashes
  /\ shutdown \in BOOLEAN /\ accepted_shutdown \in BOOLEAN
  /\ gate \in {"pending", "armed", "denied"}
  /\ events \in Seq(Attempts)
  /\ bounds \in Seq(Attempts)
  /\ link \in [Attempts -> {"none", "open", "broken"}]

SupervisorInit ==
  /\ sup = "waiting"
  /\ attempt = 1
  /\ child = "alive"
  /\ crashes = 0
  /\ restart_attempt = 0
  /\ shutdown = FALSE /\ accepted_shutdown = FALSE
  /\ gate = "pending"
  /\ events = <<>> /\ bounds = <<>>
  /\ link = [a \in Attempts |-> IF a = 1 THEN "open" ELSE "none"]

-----------------------------------------------------------------------------
\* External: the role process and its link.

Closed(a) == [link EXCEPT ![a] = IF @ = "open" THEN "broken" ELSE @]

ChildExits(code) ==
  /\ child = "alive"
  /\ child' = code
  /\ link' = Closed(attempt)
  /\ UNCHANGED <<sup, attempt, crashes, flagVars, events, bounds>>

LinkDrops ==
  /\ link[attempt] = "open"
  /\ link' = Closed(attempt)
  /\ UNCHANGED <<loopVars, flagVars, events, bounds>>

-----------------------------------------------------------------------------
\* The thread.

StopRequested == shutdown \/ accepted_shutdown

\* poll_admission: the child has authenticated and its link goes to the owner.  revoke
\* polls once more, so the link of an ended child may still be handed over.
SendBound ==
  /\ sup \in {"waiting"} \cup Revoking
  /\ link[attempt] = "none"
  /\ bounds' = Append(bounds, attempt)
  /\ link' = [link EXCEPT ![attempt] = IF child = "alive" THEN "open" ELSE "broken"]
  /\ UNCHANGED <<loopVars, flagVars, events>>

\* wait_or_shutdown: the exit is observed first, and voids a pending restart.  A
\* restart that was taken still waits for the child to end by itself, and an exit
\* it sees then is an exit like any other.
ObserveExit ==
  /\ sup \in {"waiting", "restarting"}
  /\ child # "alive"
  /\ sup' = IF accepted_shutdown \/ child = "zero" THEN "final" ELSE "crashed"
  /\ restart_attempt' = 0
  /\ UNCHANGED <<attempt, child, crashes, shutdown, accepted_shutdown, gate, events, bounds,
                 link>>

ObserveShutdown ==
  /\ sup = "waiting"
  /\ child = "alive"
  /\ shutdown
  /\ sup' = "stopping"
  /\ UNCHANGED <<attempt, child, crashes, flagVars, events, bounds, link>>

\* take_restart_for_attempt consumes any request; only one for this attempt counts.
TakesRestart_Any == restart_attempt # 0
TakesRestart == restart_attempt = attempt

ObserveRestart ==
  /\ sup = "waiting"
  /\ child = "alive"
  /\ ~shutdown
  /\ restart_attempt # 0
  /\ sup' = IF TakesRestart THEN "restarting" ELSE sup
  /\ restart_attempt' = 0
  /\ UNCHANGED <<attempt, child, crashes, shutdown, accepted_shutdown, gate, events, bounds,
                 link>>

AdmissionFails ==
  /\ sup = "waiting"
  /\ child = "alive"
  /\ ~shutdown
  /\ link[attempt] = "none"
  /\ sup' = "unadmitted"
  /\ UNCHANGED <<attempt, child, crashes, flagVars, events, bounds, link>>

\* What follows the revocation; every restart counts as a crash.
AfterRevoke ==
  CASE sup \in {"stopping", "final"} -> "stopped"
    [] sup = "unadmitted" -> "failed"
    [] OTHER -> IF crashes + 1 >= MaxCrashes THEN "crashloop" ELSE "backoff"

\* revoke closes the link before it reports; a child still alive is killed and reaped.
\* An error of the revocation, the wait or the output capture comes after the report.
Revoke ==
  /\ sup \in Revoking
  /\ link' = Closed(attempt)
  /\ events' = Append(events, attempt)
  /\ child' = IF child = "alive" THEN "reaped" ELSE child
  /\ \/ /\ sup' = AfterRevoke
        /\ crashes' = IF sup \in {"crashed", "restarting"} THEN crashes + 1 ELSE crashes
     \/ sup' = "failed" /\ UNCHANGED crashes
  /\ UNCHANGED <<attempt, flagVars, bounds>>

\* wait_backoff_or_stop.
Backoff ==
  /\ sup = "backoff"
  /\ sup' = IF StopRequested THEN "stopped" ELSE "gate"
  /\ UNCHANGED <<attempt, child, crashes, flagVars, events, bounds, link>>

\* allow_restart: await_recovery_decision.
AllowRestart ==
  /\ sup = "gate"
  /\ StopRequested \/ gate # "pending"
  /\ sup' = IF StopRequested \/ gate = "denied" THEN "stopped" ELSE "prepared"
  /\ UNCHANGED <<attempt, child, crashes, flagVars, events, bounds, link>>

\* The successor is spawned, unless a stop is seen or preparing it fails.
Spawn ==
  /\ sup = "prepared"
  /\ ~StopRequested
  /\ sup' = "waiting"
  /\ attempt' = attempt + 1
  /\ child' = "alive"
  /\ UNCHANGED <<crashes, flagVars, events, bounds, link>>

\* A prepared generation that a stop overtakes is revoked unused.
SpawnStopped ==
  /\ sup = "prepared"
  /\ StopRequested
  /\ sup' = "stopped"
  /\ events' \in {events, Append(events, attempt + 1)}
  /\ UNCHANGED <<attempt, child, crashes, flagVars, bounds, link>>

SpawnFails ==
  /\ sup = "prepared"
  /\ sup' = "failed"
  /\ UNCHANGED <<attempt, child, crashes, flagVars, events, bounds, link>>

Role ==
  \/ \E code \in {"zero", "crash"} : ChildExits(code)
  \/ LinkDrops

Supervise ==
  \/ SendBound
  \/ ObserveExit
  \/ ObserveShutdown
  \/ ObserveRestart
  \/ AdmissionFails
  \/ Revoke
  \/ Backoff
  \/ AllowRestart
  \/ Spawn
  \/ SpawnStopped
  \/ SpawnFails
=============================================================================
