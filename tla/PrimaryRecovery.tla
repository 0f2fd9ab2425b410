--------------------------- MODULE PrimaryRecovery ---------------------------
(***************************************************************************)
(* Losing and replacing the primary role on Linux and Windows              *)
(* (crates/keld-core/src/app_session.rs) over RoleSupervisor: the owner    *)
(* thread that applies the supervisor's updates to the router, the Ready   *)
(* publication that arms recovery, the readers that find their link ended, *)
(* the filesystem worker whose answer cannot be written, the accepted      *)
(* shutdown and the teardown of the session.                               *)
(*                                                                         *)
(* One action is one hold of the shutdown transition, or one access to an  *)
(* atomic or a channel.  Whoever sends the owner a command waits for the   *)
(* answer; the wait fails when the owner has ended or is too slow.         *)
(*                                                                         *)
(* The session starts with the first generation installed and the router   *)
(* not yet attached to the owner.  There is no window registry (a renderer *)
(* boot); a write to a link fails exactly when the link is broken.         *)
(***************************************************************************)
EXTENDS RoleSupervisor

CONSTANT Inputs  \* the inputs that a run lets happen

ASSUME InputsAssumption == Inputs \subseteq {"call", "quit", "last_window", "late"}

VARIABLES
  \* the owner thread
  owner,     \* where its loop is
  held,      \* the bound generation it is applying, or 0
  attached,  \* it knows the router
  fault,     \* why it terminated the session
  commands,  \* its command channel
  \* the router
  current,   \* the installed generation, or 0
  window_ready, recovery_armed, last_revoked_attempt, pre_ready_link_failed,
  last_window_closed,
  running,   \* SessionShutdownState::is_running: no cause reserved
  reader_stop,
  \* the other threads
  reader,    \* per generation
  coord,     \* window event coordinator
  worker,    \* filesystem worker
  fs_attempt, \* the generation of its call
  tail,      \* the accepted shutdown
  claimant,  \* the generation whose Quit it runs for, or 0
  main,
  loop_end   \* what ends the window loop

ownerVars == <<owner, held, attached, fault>>
routerVars == <<current, window_ready, recovery_armed, last_revoked_attempt,
                pre_ready_link_failed, last_window_closed>>
sessionVars == <<running, reader_stop>>
fsVars == <<worker, fs_attempt>>
tailVars == <<tail, claimant>>
vars == <<supervisorVars, owner, held, attached, fault, commands, current, window_ready,
          recovery_armed, last_revoked_attempt, pre_ready_link_failed, last_window_closed,
          running, reader_stop, reader, coord, worker, fs_attempt, tail, claimant, main,
          loop_end>>

Commands ==
  [kind : {"attach", "arm", "deny", "fail", "fail_retired", "prepare", "shutdown"},
   by : {0} \cup Attempts]

\* Type invariant.
RecoveryTypeOK ==
  /\ SupervisorTypeOK
  /\ owner \in {"events", "bounds", "redrain", "drain", "rebind", "outcome", "command",
                "stopping", "exited"}
  /\ held \in 0 .. MaxCrashes
  /\ attached \in BOOLEAN
  /\ fault \in {"none", "before_ready", "still_current", "no_router", "bind", "ended"}
  /\ commands \in Seq(Commands)
  /\ current \in 0 .. MaxCrashes /\ last_revoked_attempt \in 0 .. MaxCrashes
  /\ {window_ready, recovery_armed, pre_ready_link_failed, last_window_closed, running,
      reader_stop} \subseteq BOOLEAN
  /\ reader \in [Attempts -> {"none", "reading", "ended", "latched", "failing", "quitting",
                             "tail", "done"}]
  /\ coord \in {"idle", "arming", "armed", "refused", "ready", "done"}
  /\ worker \in {"idle", "working", "told", "failing", "answered", "refused", "dead"}
  /\ fs_attempt \in 0 .. MaxCrashes
  /\ tail \in {"idle", "claimed", "preparing", "prepared", "accepted", "closed", "stopping",
              "done"}
  /\ claimant \in 0 .. MaxCrashes
  /\ main \in {"start", "attaching", "loop", "teardown", "joining", "owner", "stopping",
              "join_owner", "done"}
  /\ loop_end \in {"none", "fatal", "quit"}

\* The first terminal command ends the window loop.
Ends(how) == loop_end' = IF loop_end = "none" THEN how ELSE loop_end

Command(kind, by) == [kind |-> kind, by |-> by]

\* retire_current_generation_locked: the generation leaves and its link is closed.
RetireCurrent ==
  /\ current' = 0
  /\ link' = Closed(current)

-----------------------------------------------------------------------------
\* The owner thread: events, then bound links, then the outcome, then one command.

\* terminate_direct_primary_owner; its end drops the supervisor, which stops too, and the
\* stream it holds.
Terminate(why) ==
  /\ owner' = "exited"
  /\ fault' = why
  /\ held' = 0
  /\ gate' = "denied"
  /\ shutdown' = TRUE
  /\ Ends("fatal")

\* apply_generation_update of Revoked, in either drain.
ApplyRevoked ==
  /\ owner \in {"events", "redrain"}
  /\ events # <<>>
  /\ events' = Tail(events)
  /\ last_revoked_attempt' =
       IF attached /\ Head(events) > last_revoked_attempt
       THEN Head(events) ELSE last_revoked_attempt
  /\ IF ~attached \/ ~window_ready
     THEN /\ Terminate("before_ready")
          /\ link' = IF held = 0 THEN link ELSE Closed(held)
          /\ UNCHANGED <<current, attached>>
     ELSE /\ IF running /\ current = Head(events)
             THEN RetireCurrent ELSE UNCHANGED <<current, link>>
          /\ UNCHANGED <<ownerVars, gate, shutdown, loop_end>>
  /\ UNCHANGED <<loopVars, restart_attempt, accepted_shutdown, bounds, commands,
                 window_ready, recovery_armed, pre_ready_link_failed, last_window_closed,
                 sessionVars, reader, coord, fsVars, tailVars, main>>

EventsDrained ==
  /\ owner = "events"
  /\ events = <<>>
  /\ owner' = "bounds"
  /\ UNCHANGED <<supervisorVars, held, attached, fault, commands, routerVars, sessionVars,
                 reader, coord, fsVars, tailVars, main, loop_end>>

\* A link was received: the events are drained once more before it is applied.
TakeBound_Unordered ==
  /\ owner = "bounds"
  /\ IF bounds = <<>>
     THEN owner' = "outcome" /\ UNCHANGED <<held, bounds>>
     ELSE owner' = "drain" /\ held' = Head(bounds) /\ bounds' = Tail(bounds)
  /\ UNCHANGED <<loopVars, flagVars, events, link, attached, fault, commands, routerVars,
                 sessionVars, reader, coord, fsVars, tailVars, main, loop_end>>
TakeBound ==
  /\ owner = "bounds"
  /\ IF bounds = <<>>
     THEN owner' = "outcome" /\ UNCHANGED <<held, bounds>>
     ELSE owner' = "redrain" /\ held' = Head(bounds) /\ bounds' = Tail(bounds)
  /\ UNCHANGED <<loopVars, flagVars, events, link, attached, fault, commands, routerVars,
                 sessionVars, reader, coord, fsVars, tailVars, main, loop_end>>

\* A generation that is already revoked, or a session that is ending, drops the link; a
\* generation that is still current is an error; else the owner waits for the worker.
RefuseBound ==
  /\ owner' = "bounds"
  /\ held' = 0
  /\ link' = Closed(held)
  /\ UNCHANGED <<attached, fault, gate, shutdown, loop_end>>

CheckBound ==
  /\ owner = "redrain"
  /\ events = <<>>
  /\ IF ~attached THEN Terminate("no_router") /\ link' = Closed(held) /\ UNCHANGED attached
     ELSE IF held <= last_revoked_attempt \/ ~running \/ reader_stop THEN RefuseBound
     ELSE IF current # 0
     THEN Terminate("still_current") /\ link' = Closed(held) /\ UNCHANGED attached
     ELSE owner' = "drain" /\ UNCHANGED <<held, attached, fault, link, gate, shutdown,
                                          loop_end>>
  /\ UNCHANGED <<loopVars, restart_attempt, accepted_shutdown, events, bounds, commands,
                 routerVars, sessionVars, reader, coord, fsVars, tailVars, main>>

\* The new writer's replay fails and the generation is retired.  One that Ready could not
\* reach may still be entitled to a restart; one that only LastWindowClosed could not reach
\* has no such evidence.
ReplayFails(ready) ==
  /\ link' = Closed(held)
  /\ IF ready THEN owner' = "rebind" /\ UNCHANGED <<held, fault, gate, shutdown, loop_end>>
     ELSE Terminate("bind")
  /\ UNCHANGED <<current, reader, attached>>

\* install_prepared_generation_with_identity, in one transition: publish the generation,
\* replay what it has missed, start the reader.  The wait in FsDispatchSession::drain
\* comes first.
FsDrained_WithReply == worker \notin {"working", "told", "failing"}
FsDrained == worker # "working"

InstallBound ==
  /\ owner = "drain"
  /\ FsDrained
  /\ \/ /\ ~running \/ reader_stop
        /\ RefuseBound
        /\ UNCHANGED <<current, reader, restart_attempt>>
     \/ /\ running /\ ~reader_stop
        /\ current # 0
        /\ Terminate("still_current")
        /\ link' = Closed(held)
        /\ UNCHANGED <<attached, current, reader, restart_attempt>>
     \/ /\ running /\ ~reader_stop /\ current = 0
        /\ link[held] = "broken"
        /\ \/ window_ready /\ ReplayFails(TRUE)
           \/ last_window_closed /\ ReplayFails(FALSE)
        /\ UNCHANGED restart_attempt
     \/ /\ running /\ ~reader_stop /\ current = 0
        /\ link[held] = "open" \/ ~(window_ready \/ last_window_closed)
        /\ current' = held
        /\ reader' = [reader EXCEPT ![held] = "reading"]
        /\ owner' = "bounds" /\ held' = 0
        /\ UNCHANGED <<attached, fault, restart_attempt, gate, shutdown, link, loop_end>>
  /\ UNCHANGED <<loopVars, accepted_shutdown, events, bounds, commands, window_ready,
                 recovery_armed, last_revoked_attempt, pre_ready_link_failed,
                 last_window_closed, sessionVars, coord, fsVars, tailVars, main>>

\* restart_failed_bound_generation, in a hold of its own.
RestartFailedBound ==
  /\ owner = "rebind"
  /\ IF recovery_armed /\ running /\ ~reader_stop /\ held > last_revoked_attempt
     THEN /\ restart_attempt' = held
          /\ owner' = "bounds" /\ held' = 0
          /\ UNCHANGED <<fault, gate, shutdown, loop_end>>
     ELSE Terminate("bind") /\ UNCHANGED restart_attempt
  /\ UNCHANGED <<loopVars, accepted_shutdown, events, bounds, link, attached, commands,
                 routerVars, sessionVars, reader, coord, fsVars, tailVars, main>>

\* A terminal outcome ends the owner, and the session if it still runs; a gate dropped
\* undecided denies.
TakeOutcome ==
  /\ owner = "outcome"
  /\ IF sup \in Terminal
     THEN /\ owner' = "exited"
          /\ fault' = "ended"
          /\ gate' = IF gate = "pending" THEN "denied" ELSE gate
          /\ IF running THEN Ends("fatal") ELSE UNCHANGED loop_end
     ELSE owner' = "command" /\ UNCHANGED <<fault, gate, loop_end>>
  /\ UNCHANGED <<loopVars, restart_attempt, shutdown, accepted_shutdown, events, bounds, link,
                 held, attached, commands, routerVars, sessionVars, reader,
                 coord, fsVars, tailVars, main>>

PollTimeout ==
  /\ owner = "command"
  /\ commands = <<>>
  /\ owner' = "events"
  /\ UNCHANGED <<supervisorVars, held, attached, fault, commands, routerVars, sessionVars,
                 reader, coord, fsVars, tailVars, main, loop_end>>

\* The next command, of the given kind.
Takes(kind) ==
  /\ owner = "command"
  /\ commands # <<>>
  /\ Head(commands).kind = kind
  /\ commands' = Tail(commands)
  /\ UNCHANGED <<loopVars, events, bounds, link, held, fault, current, window_ready,
                 last_revoked_attempt, pre_ready_link_failed, last_window_closed,
                 sessionVars, fs_attempt, claimant, loop_end>>

AttachRouter ==
  /\ Takes("attach")
  /\ owner' = "events"
  /\ attached' = TRUE
  /\ main' = IF main = "attaching" THEN "loop" ELSE main
  /\ UNCHANGED <<flagVars, recovery_armed, reader, coord, worker, tail>>

\* arm() succeeds unless recovery was denied; acknowledge_direct_recovery_arm.
ArmRecovery ==
  /\ Takes("arm")
  /\ owner' = "events"
  /\ gate' = IF gate = "pending" THEN "armed" ELSE gate
  /\ recovery_armed' = (recovery_armed \/ gate' = "armed")
  /\ coord' = IF coord = "arming" THEN IF gate' = "armed" THEN "armed" ELSE "refused"
              ELSE coord
  /\ UNCHANGED <<restart_attempt, shutdown, accepted_shutdown, attached, reader, worker,
                 tail, main>>

DenyRecovery ==
  /\ Takes("deny")
  /\ owner' = "events"
  /\ gate' = "denied"
  /\ UNCHANGED <<restart_attempt, shutdown, accepted_shutdown, attached, recovery_armed,
                 reader, coord, worker, tail, main>>

\* direct_link_failure_restarts: a report about another generation is stale.
LinkFailureRestarts(a) == ~attached \/ current = a

FailGeneration ==
  LET a == Head(commands).by IN
  /\ Takes("fail")
  /\ owner' = "events"
  /\ restart_attempt' = IF LinkFailureRestarts(a) THEN a ELSE restart_attempt
  /\ reader' = IF reader[a] = "failing" THEN [reader EXCEPT ![a] = "done"] ELSE reader
  /\ UNCHANGED <<shutdown, accepted_shutdown, gate, attached, recovery_armed, coord, worker,
                 tail, main>>

\* recover_retired_fs_generation.
FailRetiredGeneration ==
  LET a == Head(commands).by
      settled == \/ ~running \/ reader_stop
                 \/ a <= last_revoked_attempt
                 \/ current > a
      eligible == current = 0 /\ window_ready /\ recovery_armed /\ fs_attempt = a
  IN
  /\ Takes("fail_retired")
  /\ owner' = "events"
  /\ restart_attempt' = IF ~settled /\ attached /\ eligible THEN a ELSE restart_attempt
  /\ worker' = IF worker # "failing" THEN worker
               ELSE IF attached /\ (settled \/ eligible) THEN "answered" ELSE "refused"
  /\ UNCHANGED <<shutdown, accepted_shutdown, gate, attached, recovery_armed, reader, coord,
                 tail, main>>

PrepareAcceptedShutdown ==
  /\ Takes("prepare")
  /\ owner' = "events"
  /\ gate' = "denied"
  /\ accepted_shutdown' = TRUE
  /\ tail' = IF tail = "preparing" THEN "prepared" ELSE tail
  /\ UNCHANGED <<restart_attempt, shutdown, attached, recovery_armed, reader, coord, worker,
                 main>>

ShutdownCommand_Unheard ==
  /\ Takes("shutdown")
  /\ owner' = "stopping"
  /\ gate' = "denied"
  /\ UNCHANGED <<restart_attempt, shutdown, accepted_shutdown, attached, recovery_armed, reader,
                 coord, worker, tail, main>>
ShutdownCommand ==
  /\ Takes("shutdown")
  /\ owner' = "stopping"
  /\ gate' = "denied"
  /\ shutdown' = TRUE
  /\ UNCHANGED <<restart_attempt, accepted_shutdown, attached, recovery_armed, reader, coord,
                 worker, tail, main>>

\* wait_for_outcome; the answer and the owner's end release whoever waits.
ShutdownDone ==
  /\ owner = "stopping"
  /\ sup \in Terminal
  /\ owner' = "exited"
  /\ UNCHANGED <<supervisorVars, held, attached, fault, commands, routerVars, sessionVars,
                 reader, coord, fsVars, tailVars, main, loop_end>>

-----------------------------------------------------------------------------
\* The window event coordinator.

OwnerGone == owner = "exited"

\* A wait for the owner's answer fails with the owner, or because the answer is late.
Unanswered == OwnerGone \/ "late" \in Inputs

\* Sends the owner a command, which it never takes once it has ended.
Send(kind, by) ==
  commands' = IF OwnerGone THEN commands ELSE Append(commands, Command(kind, by))

\* signal_ready, one hold of the transition: it refuses to publish Ready for a generation
\* whose link has already ended; else Ready is written, published, and the arm enqueued.  No
\* current generation is no failure to write_event_guarded.
ReadyRefused_Never == ~running
ReadyRefused == ~running \/ pre_ready_link_failed

WriteFails == current # 0 /\ link[current] = "broken"

SignalReady ==
  /\ coord = "idle"
  /\ main = "loop"
  /\ \/ /\ ReadyRefused
        /\ coord' = "ready"
        /\ UNCHANGED <<commands, current, link, window_ready, loop_end>>
     \/ /\ ~ReadyRefused
        /\ WriteFails
        /\ RetireCurrent
        /\ Send("deny", 0)
        /\ Ends("fatal")
        /\ coord' = "done"
        /\ UNCHANGED window_ready
     \/ /\ ~ReadyRefused
        /\ ~WriteFails
        /\ window_ready' = TRUE
        /\ Send("arm", 0)
        /\ IF OwnerGone THEN coord' = "done" /\ Ends("fatal")
           ELSE coord' = "arming" /\ UNCHANGED loop_end
        /\ UNCHANGED <<current, link>>
  /\ UNCHANGED <<loopVars, flagVars, events, bounds, ownerVars, recovery_armed,
                 last_revoked_attempt, pre_ready_link_failed, last_window_closed, sessionVars,
                 reader, fsVars, tailVars, main>>

\* await_recovery_arm: the coordinator stores the answer a second time, after the owner.
ReadyArmed ==
  /\ coord = "armed"
  /\ recovery_armed' = TRUE
  /\ coord' = "ready"
  /\ UNCHANGED <<supervisorVars, ownerVars, commands, current, window_ready,
                 last_revoked_attempt, pre_ready_link_failed, last_window_closed, sessionVars,
                 reader, fsVars, tailVars, main, loop_end>>

ArmFails ==
  /\ coord = "refused" \/ (coord = "arming" /\ Unanswered)
  /\ Send("deny", 0)
  /\ Ends("fatal")
  /\ coord' = "done"
  /\ UNCHANGED <<supervisorVars, ownerVars, routerVars, sessionVars, reader, fsVars, tailVars,
                 main>>

\* signal_last_window_closed.
SignalLastWindowClosed ==
  /\ "last_window" \in Inputs
  /\ coord = "ready"
  /\ main = "loop"
  /\ coord' = "done"
  /\ last_window_closed' = TRUE
  /\ IF running /\ WriteFails
     THEN RetireCurrent /\ Ends("fatal")
     ELSE UNCHANGED <<current, link, loop_end>>
  /\ UNCHANGED <<loopVars, flagVars, events, bounds, ownerVars, commands, window_ready,
                 recovery_armed, last_revoked_attempt, pre_ready_link_failed, sessionVars,
                 reader, fsVars, tailVars, main>>

-----------------------------------------------------------------------------
\* The reader of each generation: read_primary_frames.

ReaderAt(a, from, to) ==
  /\ reader[a] = from
  /\ reader' = [reader EXCEPT ![a] = to]
  /\ UNCHANGED <<supervisorVars, ownerVars, coord, fsVars, main>>

\* A failed reader ends the session only while its generation is current.
ReaderEnds(a) == IF current = a THEN Ends("fatal") ELSE UNCHANGED loop_end

\* Its stop flag is set, by the session or by its generation's retirement.
ReaderStops(a) ==
  /\ ReaderAt(a, "reading", "done")
  /\ reader_stop \/ current # a
  /\ UNCHANGED <<commands, routerVars, sessionVars, tailVars, loop_end>>

\* The link ended.  Only a running session leaves the decision to the owner.
ReaderSeesEof(a) ==
  /\ link[a] = "broken"
  /\ current = a
  /\ IF running
     THEN ReaderAt(a, "reading", "ended") /\ UNCHANGED loop_end
     ELSE ReaderAt(a, "reading", "done") /\ Ends("fatal")
  /\ UNCHANGED <<commands, routerVars, sessionVars, tailVars>>

\* latch_pre_ready_link_failure, before the owner is told.
ReaderLatches(a) ==
  /\ ReaderAt(a, "ended", "latched")
  /\ pre_ready_link_failed' = (pre_ready_link_failed \/ ~window_ready)
  /\ UNCHANGED <<commands, current, window_ready, recovery_armed, last_revoked_attempt,
                 last_window_closed, sessionVars, tailVars, loop_end>>

\* link_failed.
ReaderReports(a) ==
  /\ Send("fail", a)
  /\ IF OwnerGone
     THEN ReaderAt(a, "latched", "done") /\ ReaderEnds(a)
     ELSE ReaderAt(a, "latched", "failing") /\ UNCHANGED loop_end
  /\ UNCHANGED <<routerVars, sessionVars, tailVars>>

ReaderWaitFails(a) ==
  /\ Unanswered
  /\ ReaderAt(a, "failing", "done")
  /\ ReaderEnds(a)
  /\ UNCHANGED <<commands, routerVars, sessionVars, tailVars>>

\* The answer to a frame read before the link ended cannot be written.
ReaderWriteFails(a) ==
  /\ ReaderAt(a, "reading", "done")
  /\ link[a] = "broken"
  /\ running /\ current = a
  /\ Ends("fatal")
  /\ UNCHANGED <<commands, routerVars, sessionVars, tailVars>>

\* The role's lifecycle Quit: it waits for the filesystem worker, then claims the session.
ReaderQuits(a) ==
  /\ "quit" \in Inputs
  /\ ReaderAt(a, "reading", "quitting")
  /\ running /\ current = a
  /\ UNCHANGED <<commands, routerVars, sessionVars, tailVars, loop_end>>

ReaderClaims(a) ==
  /\ worker # "working"
  /\ IF running /\ current = a
     THEN /\ ReaderAt(a, "quitting", "tail")
          /\ running' = FALSE /\ reader_stop' = TRUE
          /\ tail' = "claimed" /\ claimant' = a
     ELSE ReaderAt(a, "quitting", "done") /\ UNCHANGED <<sessionVars, tailVars>>
  /\ UNCHANGED <<commands, routerVars, loop_end>>

-----------------------------------------------------------------------------
\* The filesystem worker.

FsStep == UNCHANGED <<loopVars, flagVars, events, bounds, ownerVars, window_ready,
                      recovery_armed, last_revoked_attempt, pre_ready_link_failed,
                      last_window_closed, sessionVars, reader, coord, tailVars, main>>

\* A reader admits a call of its generation and hands it to the worker.
FsCall(a) ==
  /\ "call" \in Inputs
  /\ worker = "idle"
  /\ reader[a] = "reading"
  /\ running /\ current = a
  /\ worker' = "working"
  /\ fs_attempt' = a
  /\ UNCHANGED <<link, current, commands, loop_end>>
  /\ FsStep

\* submit_fs_terminal_write: an answer that cannot be written retires its generation, and
\* the owner is told once the worker's lease is given back.
FsReply ==
  LET failed == running /\ current = fs_attempt /\ link[fs_attempt] = "broken" IN
  /\ worker = "working"
  /\ IF failed THEN RetireCurrent ELSE UNCHANGED <<current, link>>
  /\ worker' = IF failed THEN "told" ELSE "idle"
  /\ fs_attempt' = IF failed THEN fs_attempt ELSE 0
  /\ UNCHANGED <<commands, loop_end>>
  /\ FsStep

\* fail_retired_generation.
FsReports ==
  /\ worker = "told"
  /\ Send("fail_retired", fs_attempt)
  /\ IF OwnerGone THEN worker' = "dead" /\ Ends("fatal")
     ELSE worker' = "failing" /\ UNCHANGED loop_end
  /\ UNCHANGED <<current, link, fs_attempt>>
  /\ FsStep

\* clear_failed_write_attempt.
FsClears ==
  /\ worker = "answered"
  /\ worker' = "idle" /\ fs_attempt' = 0
  /\ UNCHANGED <<current, link, commands, loop_end>>
  /\ FsStep

FsWaitFails ==
  /\ worker = "refused" \/ (worker = "failing" /\ Unanswered)
  /\ worker' = "dead"
  /\ Ends("fatal")
  /\ UNCHANGED <<current, link, commands, fs_attempt>>
  /\ FsStep

-----------------------------------------------------------------------------
\* The accepted shutdown of a Quit, run by its reader.  The other causes that end a session,
\* and who wins, are SessionShutdown's matter.

TailStep(from, to) ==
  /\ tail = from
  /\ tail' = to
  /\ UNCHANGED <<loopVars, flagVars, events, bounds, ownerVars, window_ready, recovery_armed,
                 last_revoked_attempt, pre_ready_link_failed, last_window_closed, coord,
                 fsVars, claimant, main>>

\* The reader returns with its tail, and reports a failed one as any other failure.
ReaderReturns == reader' = [reader EXCEPT ![claimant] = "done"]

TailFails(from) ==
  /\ TailStep(from, "done")
  /\ ReaderReturns
  /\ ReaderEnds(claimant)
  /\ UNCHANGED <<current, link, sessionVars>>

\* prepare_accepted_shutdown.
TailPrepares ==
  /\ Send("prepare", claimant)
  /\ IF OwnerGone THEN TailFails("claimed")
     ELSE /\ TailStep("claimed", "preparing")
          /\ UNCHANGED <<current, link, sessionVars, reader, loop_end>>

TailWaitFails ==
  /\ Unanswered
  /\ TailFails("preparing")
  /\ UNCHANGED commands

\* The accepting hold writes the Quit's answer, to a generation the teardown may have taken.
TailAccepts ==
  /\ UNCHANGED commands
  /\ IF current = 0 \/ WriteFails THEN TailFails("prepared")
     ELSE /\ TailStep("prepared", "accepted")
          /\ UNCHANGED <<current, link, sessionVars, reader, loop_end>>

\* quiesce_and_drain_fs, then the link is closed and the generation removed.
TailCloses ==
  /\ FsDrained
  /\ UNCHANGED commands
  /\ IF current = 0 THEN TailFails("accepted")
     ELSE /\ TailStep("accepted", "closed")
          /\ RetireCurrent
          /\ UNCHANGED <<sessionVars, reader, loop_end>>

\* finish_tail: shutdown_and_wait, then the loop is told to quit.
TailStops ==
  /\ TailStep("closed", "stopping")
  /\ Send("shutdown", claimant)
  /\ UNCHANGED <<current, link, sessionVars, reader, loop_end>>

\* An owner that ended before it answered is as good as an answer; an error is a Fatal, and
\* so is an answer that comes too late.
TailEnds ==
  /\ OwnerGone
  /\ TailStep("stopping", "done")
  /\ ReaderReturns
  /\ Ends(IF fault # "none" \/ sup = "stopped" THEN "quit" ELSE "fatal")
  /\ UNCHANGED <<commands, current, link, sessionVars>>

TailTimeout ==
  /\ "late" \in Inputs
  /\ TailStep("stopping", "done")
  /\ ReaderReturns
  /\ Ends("fatal")
  /\ UNCHANGED <<commands, current, link, sessionVars>>

-----------------------------------------------------------------------------
\* The main thread of the session.

MainStep(from, to) ==
  /\ main = from
  /\ main' = to
  /\ UNCHANGED <<loopVars, flagVars, events, bounds, ownerVars, window_ready, recovery_armed,
                 last_revoked_attempt, pre_ready_link_failed, last_window_closed, running,
                 reader, coord, fsVars, tailVars, loop_end>>

\* attach_router.
MainAttaches ==
  /\ MainStep("start", IF OwnerGone THEN "teardown" ELSE "attaching")
  /\ Send("attach", 0)
  /\ UNCHANGED <<current, link, reader_stop>>

AttachFails ==
  /\ Unanswered
  /\ MainStep("attaching", "teardown")
  /\ UNCHANGED <<commands, current, link, reader_stop>>

\* The window loop has returned and the coordinator is joined.
LoopReturns ==
  /\ MainStep("loop", "teardown")
  /\ loop_end # "none"
  /\ coord \notin {"arming", "armed", "refused"}
  /\ UNCHANGED <<commands, current, link, reader_stop>>

\* PrimaryRouter::stop_and_join.
RouterStops ==
  /\ MainStep("teardown", "joining")
  /\ reader_stop' = TRUE
  /\ IF current = 0 THEN UNCHANGED <<current, link>> ELSE RetireCurrent
  /\ UNCHANGED commands

RouterJoined ==
  /\ MainStep("joining", "owner")
  /\ \A a \in Attempts : reader[a] \in {"none", "done"}
  /\ worker \in {"idle", "dead"}
  /\ UNCHANGED <<commands, current, link, reader_stop>>

\* DirectPrimaryOwner::shutdown: a shutdown request, its answer, the join.
OwnerShutdown ==
  /\ MainStep("owner", IF OwnerGone THEN "join_owner" ELSE "stopping")
  /\ Send("shutdown", 0)
  /\ UNCHANGED <<current, link, reader_stop>>

OwnerAnswers ==
  /\ Unanswered
  /\ MainStep("stopping", "join_owner")
  /\ UNCHANGED <<commands, current, link, reader_stop>>

OwnerJoined ==
  /\ MainStep("join_owner", "done")
  /\ OwnerGone
  /\ sup \in Terminal
  /\ UNCHANGED <<commands, current, link, reader_stop>>

-----------------------------------------------------------------------------
Init ==
  /\ SupervisorInit
  /\ owner = "events" /\ held = 0 /\ attached = FALSE /\ fault = "none"
  /\ commands = <<>>
  /\ current = 1
  /\ window_ready = FALSE /\ recovery_armed = FALSE /\ last_revoked_attempt = 0
  /\ pre_ready_link_failed = FALSE /\ last_window_closed = FALSE
  /\ running = TRUE /\ reader_stop = FALSE
  /\ reader = [a \in Attempts |-> IF a = 1 THEN "reading" ELSE "none"]
  /\ coord = "idle"
  /\ worker = "idle" /\ fs_attempt = 0
  /\ tail = "idle" /\ claimant = 0
  /\ main = "start" /\ loop_end = "none"

otherVars == <<owner, held, attached, fault, commands, current, window_ready, recovery_armed,
               last_revoked_attempt, pre_ready_link_failed, last_window_closed, running,
               reader_stop, reader, coord, worker, fs_attempt, tail, claimant, main,
               loop_end>>

RoleNext == Role /\ UNCHANGED otherVars

SuperviseNext == Supervise /\ UNCHANGED otherVars

OwnerNext ==
  \/ ApplyRevoked \/ EventsDrained \/ TakeBound \/ CheckBound \/ InstallBound
  \/ RestartFailedBound \/ TakeOutcome \/ PollTimeout
  \/ AttachRouter \/ ArmRecovery \/ DenyRecovery \/ FailGeneration
  \/ FailRetiredGeneration \/ PrepareAcceptedShutdown \/ ShutdownCommand \/ ShutdownDone

ReaderNext(a) ==
  \/ ReaderStops(a) \/ ReaderSeesEof(a) \/ ReaderLatches(a) \/ ReaderReports(a)
  \/ ReaderWriteFails(a) \/ ReaderQuits(a) \/ ReaderClaims(a)

FsNext == FsReply \/ FsReports \/ FsClears

TailNext == TailPrepares \/ TailAccepts \/ TailCloses \/ TailStops \/ TailEnds

MainNext ==
  \/ MainAttaches \/ LoopReturns \/ RouterStops \/ RouterJoined \/ OwnerShutdown
  \/ OwnerJoined

\* The ends of a wait for the owner: its answer was an error, it has ended, or it is late.
WaitFails ==
  \/ ArmFails \/ FsWaitFails \/ TailWaitFails \/ AttachFails \/ OwnerAnswers
  \/ \E a \in Attempts : ReaderWaitFails(a)

Next ==
  \/ RoleNext \/ SuperviseNext \/ OwnerNext
  \/ SignalReady \/ ReadyArmed \/ SignalLastWindowClosed
  \/ \E a \in Attempts : ReaderNext(a) \/ FsCall(a)
  \/ FsNext \/ TailNext \/ TailTimeout \/ MainNext \/ WaitFails

\* Every thread of the host goes on while it can, and a wait for the owner ends with the
\* owner's answer or its end.  No late answer and nothing of the role or the window is
\* obliged to come.
Fairness ==
  /\ WF_vars(SuperviseNext)
  /\ WF_vars(OwnerNext)
  /\ WF_vars(ReadyArmed)
  /\ \A a \in Attempts :
       WF_vars(ReaderStops(a) \/ ReaderSeesEof(a) \/ ReaderLatches(a) \/ ReaderReports(a)
               \/ ReaderClaims(a))
  /\ WF_vars(FsNext)
  /\ WF_vars(TailNext)
  /\ WF_vars(MainNext)
  /\ WF_vars(coord = "refused" /\ ArmFails)
  /\ WF_vars(worker = "refused" /\ FsWaitFails)
  /\ WF_vars(OwnerGone /\ WaitFails)

Spec == Init /\ [][Next]_vars
FairSpec == Spec /\ Fairness

-----------------------------------------------------------------------------
\* Properties.

\* Bound and Revoked reach the owner over two unordered channels, but no successor link ever
\* meets its predecessor still installed, or a router that is not there.
RevokedBeforeBound == fault \notin {"still_current", "no_router"}

\* A generation whose link its reader found ended before Ready is the only one: Ready is not
\* published for it, recovery is not armed and no successor is spawned.
NoRecoveryBeforeReady == pre_ready_link_failed => ~window_ready /\ gate # "armed" /\ attempt = 1

\* The host restarts a live child only when that very generation's link has ended, however
\* late the report of an older one arrives.
RestartsTheLost == sup = "restarting" => link[attempt] = "broken"

\* A lost generation is replaced or ends the window loop: nobody waits for ever for the
\* owner, and the owner for nobody.
LossResolved ==
  \A a \in Attempts :
    (main = "loop" /\ current = a /\ link[a] = "broken") ~> (current > a \/ main # "loop")

\* Once the loop has been told to end, every thread is joined and the child is gone.
TeardownEnds == loop_end # "none" ~> (main = "done" /\ child # "alive")
=============================================================================
