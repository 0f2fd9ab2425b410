--------------------------- MODULE SessionShutdown ---------------------------
(***************************************************************************)
(* How an app session of the Linux and Windows host ends                   *)
(* (crates/keld-core/src/app_session.rs): SessionShutdownState and the     *)
(* threads that race to end the session through it.                        *)
(*                                                                         *)
(*   - the reader thread of a generation, for the application's Quit       *)
(*     (lifecycle_quit);                                                   *)
(*   - the CLI lease observer, for a lost lease (cli_lease_lost, which a   *)
(*     reader that notices the loss also runs);                            *)
(*   - the main thread, which after a profile handover waits for the       *)
(*     application's Quit and past a deadline ends the session itself.     *)
(*                                                                         *)
(* One action is one hold of the transition mutex, or one step between two *)
(* holds.  The session starts here at its first Ready.  The primary owner  *)
(* (prepare_accepted_shutdown, shutdown_and_wait) is external: each call   *)
(* may fail.                                                               *)
(***************************************************************************)
EXTENDS Naturals, FiniteSets

CONSTANTS
  Attempts,   \* the generations of the primary role; each has one reader thread
  Main,       \* the main thread
  Observer,   \* the thread that watches the CLI lease
  None

ASSUME ThreadsAssumption ==
  /\ Main \notin Attempts /\ Observer \notin Attempts /\ Main # Observer
  /\ None \notin Attempts

VARIABLES
  cause,               \* the accepted cause of the session end
  reserved_cause,      \* the claimed cause
  tail_started,
  tail_ended,
  handover_requested,
  under_dev_lease,
  quit_admission,      \* the generation whose Quit is admitted, or None
  reader_stop,         \* every reader is told to stop
  current,             \* the generation that holds the app link, or None
  fs,                  \* the generation of the filesystem call in flight, or None
  pc,                  \* what each thread does next
  asleep,              \* main waits on the condvar "changed": "timed" or "untimed"
  overdue,             \* the quit deadline of the handover has passed
  lease_error,         \* the lease ended with a read error
  ui_end,              \* the first terminal command sent to the UI loop
  quits,               \* Quit commands sent to the UI loop
  replied,             \* generations whose Quit was answered
  silenced             \* generations one of whose filesystem calls got no answer

claimVars == <<cause, reserved_cause, tail_started, tail_ended, reader_stop>>
requestVars == <<handover_requested, under_dev_lease, lease_error>>
uiVars == <<ui_end, quits>>
peerVars == <<replied, silenced>>
waitVars == <<asleep, overdue>>
vars == <<cause, reserved_cause, tail_started, tail_ended, handover_requested,
          under_dev_lease, quit_admission, reader_stop, current, fs, pc, asleep,
          overdue, lease_error, ui_end, quits, replied, silenced>>

-----------------------------------------------------------------------------
Causes == {"Running", "LifecycleQuit", "CliLeaseLost", "Handover"}
Threads == Attempts \cup {Main, Observer}

\* The forced tail, and the two ways a tail leaves its body.
ForcedPcs == {"f_check", "f_prepare", "f_begin", "f_drain", "f_finish"}
EndingPcs == {"ending", "failing"}

ReaderPcs == ForcedPcs \cup EndingPcs \cup
             {"unborn", "reading", "quit", "draining", "drained", "q_prepare",
              "q_accept", "q_drain", "q_finish", "done"}
MainPcs == ForcedPcs \cup EndingPcs \cup
           {"loop", "writing", "waiting", "awaiting", "teardown",
            "joining", "ended"}
ObserverPcs == ForcedPcs \cup EndingPcs \cup {"watching", "done"}

\* Type invariant: every thread is at a step of its own code, and the UI loop is
\* sent no more Quits than the handover and one tail can send.
ShutdownTypeOK ==
  /\ cause \in Causes /\ reserved_cause \in Causes
  /\ tail_started \in BOOLEAN /\ tail_ended \in BOOLEAN
  /\ handover_requested \in BOOLEAN /\ under_dev_lease \in BOOLEAN
  /\ quit_admission \in Attempts \cup {None}
  /\ reader_stop \in BOOLEAN
  /\ current \in Attempts \cup {None}
  /\ fs \in Attempts \cup {None}
  /\ pc \in [Threads -> ReaderPcs \cup MainPcs \cup ObserverPcs]
  /\ \A a \in Attempts : pc[a] \in ReaderPcs
  /\ pc[Main] \in MainPcs /\ pc[Observer] \in ObserverPcs
  /\ asleep \in {"no", "timed", "untimed"} /\ overdue \in BOOLEAN
  /\ lease_error \in BOOLEAN
  /\ ui_end \in {"none", "Quit", "Fatal"} /\ quits \in 0..2
  /\ replied \subseteq Attempts /\ silenced \subseteq Attempts

-----------------------------------------------------------------------------
is_running == cause = "Running" /\ reserved_cause = "Running"

is_forced_cause(c) == c \in {"CliLeaseLost", "Handover"}

Notify == asleep' = "no"

Goto(t, where) == pc' = [pc EXCEPT ![t] = where]

\* A terminal command to the UI loop; the wake bridge takes only the first.
SendUi(command) ==
  /\ ui_end' = IF ui_end = "none" THEN command ELSE ui_end
  /\ quits' = IF command = "Quit" THEN quits + 1 ELSE quits

\* reserve_guarded of the first claimant: the readers stop, the waits wake up.
reserve_guarded(c) ==
  /\ reserved_cause' = c
  /\ tail_ended' = FALSE
  /\ reader_stop' = TRUE
  /\ Notify

\* Mutant: any handler's end releases the admission.
Released_Any(a) == None

\* clear_quit_admission_guarded: only the recorded generation's.
Released(a) == IF quit_admission = a THEN None ELSE quit_admission

\* Mutant: the release does not wake the handover's wait.
clear_quit_admission_NoNotify(a) ==
  /\ quit_admission' = Released(a)
  /\ UNCHANGED asleep

clear_quit_admission(a) ==
  /\ quit_admission' = Released(a)
  /\ Notify

\* retire_current_generation_locked
Retired(a) ==
  /\ current' = None
  /\ clear_quit_admission(a)

-----------------------------------------------------------------------------
Init ==
  /\ cause = "Running" /\ reserved_cause = "Running"
  /\ tail_started = FALSE /\ tail_ended = FALSE
  /\ handover_requested = FALSE
  /\ under_dev_lease \in BOOLEAN
  /\ quit_admission = None
  /\ reader_stop = FALSE
  /\ current \in Attempts
  /\ fs = None
  /\ pc = [t \in Threads |-> IF t = Main THEN "loop"
                             ELSE IF t = Observer THEN
                               IF under_dev_lease THEN "watching" ELSE "done"
                             ELSE IF t = current THEN "reading" ELSE "unborn"]
  /\ asleep = "no" /\ overdue = FALSE
  /\ lease_error = FALSE
  /\ ui_end = "none" /\ quits = 0
  /\ replied = {} /\ silenced = {}

-----------------------------------------------------------------------------
(* Generations and their filesystem calls.                                 *)

\* install_prepared_generation_with_identity, published or, when its Ready
\* cannot be written, retired again.  The successor's broker is prepared once
\* the predecessor's calls have drained.
InstallGeneration(a) ==
  /\ pc[a] = "unborn"
  /\ is_running /\ ~reader_stop /\ current = None /\ fs = None
  /\ \/ /\ current' = a
        /\ Goto(a, "reading")
        /\ UNCHANGED <<quit_admission, asleep>>
     \/ /\ Goto(a, "done")
        /\ clear_quit_admission(a)
        /\ UNCHANGED current
  /\ UNCHANGED <<claimVars, requestVars, fs, overdue, uiVars, peerVars>>

\* retire_generation, for a Revoked update of the primary owner.
RetireGeneration(a) ==
  /\ is_running /\ current = a
  /\ Retired(a)
  /\ UNCHANGED <<claimVars, requestVars, fs, pc, overdue, uiVars, peerVars>>

\* read_primary_frames on a Call of the fs channel.
FsCall(a) ==
  /\ pc[a] = "reading" /\ current = a /\ is_running
  /\ fs = None
  /\ fs' = a
  /\ UNCHANGED <<claimVars, requestVars, quit_admission, current, pc, waitVars,
                 uiVars, peerVars>>

\* submit_fs_terminal_write: the answer is written to a live link, or fails to
\* be and retires it, or has nobody to go to.
FsCompletes(a) ==
  /\ fs = a
  /\ fs' = None
  /\ \/ /\ is_running /\ current = a
        /\ UNCHANGED <<quit_admission, current, asleep, silenced>>
     \/ /\ is_running /\ current = a
        /\ Retired(a)
        /\ silenced' = silenced \cup {a}
     \/ /\ ~(is_running /\ current = a)
        /\ silenced' = silenced \cup {a}
        /\ UNCHANGED <<quit_admission, current, asleep>>
  /\ UNCHANGED <<claimVars, requestVars, pc, overdue, uiVars, replied>>

-----------------------------------------------------------------------------
(* How a thread leaves the session's end.                                  *)

\* The thread's function returns: the main thread goes on to its teardown, the
\* observer reports what it met, a reader reports a failure while it is current.
Return(t, failed) ==
  /\ Goto(t, IF t = Main THEN "teardown" ELSE "done")
  /\ IF \/ t = Observer /\ (failed \/ lease_error)
        \/ t \in Attempts /\ failed /\ current = t
     THEN SendUi("Fatal")
     ELSE UNCHANGED uiVars

\* Drop of TailRun (end_tail), then the return.
EndTail(t) ==
  /\ pc[t] \in EndingPcs
  /\ tail_ended' = TRUE
  /\ Notify
  /\ Return(t, pc[t] = "failing")
  /\ UNCHANGED <<cause, reserved_cause, tail_started, reader_stop, requestVars,
                 quit_admission, current, fs, overdue, peerVars>>

\* Mutant: a failed owner shutdown wakes nobody.
finish_tail_Silent(t) ==
  \/ /\ Goto(t, "ending")
     /\ IF handover_requested THEN UNCHANGED uiVars ELSE SendUi("Quit")
  \/ /\ Goto(t, "failing")
     /\ UNCHANGED uiVars

\* Mutant: the UI step ignores the handover.
finish_tail_Always(t) ==
  \/ Goto(t, "ending") /\ SendUi("Quit")
  \/ /\ Goto(t, "failing")
     /\ IF cause = "LifecycleQuit" THEN SendUi("Fatal") ELSE UNCHANGED uiVars

\* finish_tail: the owner shuts down, the UI loop is told to quit unless a
\* handover has already ended it.
finish_tail(t) ==
  \/ /\ Goto(t, "ending")
     /\ IF handover_requested THEN UNCHANGED uiVars ELSE SendUi("Quit")
  \/ /\ Goto(t, "failing")
     /\ IF cause = "LifecycleQuit" THEN SendUi("Fatal") ELSE UNCHANGED uiVars

-----------------------------------------------------------------------------
(* The application's Quit (lifecycle_quit), on its reader thread.          *)

\* The reader decodes a Quit of the current generation.
QuitArrives(a) ==
  /\ pc[a] = "reading"
  /\ is_running /\ current = a /\ ~reader_stop
  /\ Goto(a, "quit")
  /\ UNCHANGED <<claimVars, requestVars, quit_admission, current, fs, waitVars,
                 uiVars, peerVars>>

\* What a Quit that cannot claim the session does: it joins a lease loss.
QuitTooLate(a) ==
  Goto(a, IF current = a /\ cause = "CliLeaseLost" THEN "f_check" ELSE "done")

\* The handler's first hold: the Quit of a running session is admitted.
QuitEnters(a) ==
  /\ pc[a] = "quit"
  /\ IF current = a /\ is_running
     THEN /\ quit_admission' = a
          /\ Notify
          /\ Goto(a, "draining")
     ELSE QuitTooLate(a) /\ UNCHANGED <<quit_admission, asleep>>
  /\ UNCHANGED <<claimVars, requestVars, current, fs, overdue, uiVars, peerVars>>

\* Mutant: the handler does not wait for the calls in flight.
QuitDrains_NoWait(a) ==
  /\ pc[a] = "draining"
  /\ Goto(a, "drained")
  /\ UNCHANGED <<claimVars, requestVars, quit_admission, current, fs, waitVars,
                 uiVars, peerVars>>

\* fs.drain: the handler waits until no filesystem call is in flight.
QuitDrains(a) ==
  /\ pc[a] = "draining"
  /\ fs = None
  /\ Goto(a, "drained")
  /\ UNCHANGED <<claimVars, requestVars, quit_admission, current, fs, waitVars,
                 uiVars, peerVars>>

\* The handler's second hold: the admission ends, with a claim if it can.
QuitClaims(a) ==
  /\ pc[a] = "drained"
  /\ quit_admission' = Released(a)
  /\ Notify
  /\ IF current = a /\ reserved_cause = "Running"
     THEN reserve_guarded("LifecycleQuit") /\ Goto(a, "q_prepare")
     ELSE QuitTooLate(a) /\ UNCHANGED <<reserved_cause, tail_ended, reader_stop>>
  /\ UNCHANGED <<cause, tail_started, requestVars, current, fs, overdue, uiVars,
                 peerVars>>

\* prepare_accepted_shutdown
QuitPrepares(a) ==
  /\ pc[a] = "q_prepare"
  /\ Goto(a, "q_accept") \/ Goto(a, "failing")
  /\ UNCHANGED <<claimVars, requestVars, quit_admission, current, fs, waitVars,
                 uiVars, peerVars>>

\* The third hold: the claim is accepted, the tail begins and the reply is
\* attempted on the link, if the teardown has not taken it.
QuitAccepts(a) ==
  /\ pc[a] = "q_accept"
  /\ cause' = reserved_cause
  /\ tail_started' = TRUE
  /\ \/ /\ current # None
        /\ replied' = replied \cup {a}
        /\ Goto(a, "q_drain")
     \/ Goto(a, "failing") /\ UNCHANGED replied
  /\ UNCHANGED <<reserved_cause, tail_ended, reader_stop, requestVars,
                 quit_admission, current, fs, waitVars, uiVars, silenced>>

\* quiesce_and_drain_fs, answer_calls_after_quit and the link close of
\* finish_quit_link_and_tail.
QuitCloses(a) ==
  /\ pc[a] = "q_drain"
  /\ fs = None
  /\ current' = None
  /\ Goto(a, IF current = None THEN "failing" ELSE "q_finish")
  /\ UNCHANGED <<claimVars, requestVars, quit_admission, fs, waitVars, uiVars,
                 peerVars>>

QuitFinishes(a) ==
  /\ pc[a] = "q_finish"
  /\ finish_tail(a)
  /\ UNCHANGED <<claimVars, requestVars, quit_admission, current, fs, waitVars,
                 peerVars>>

\* The reader meets its stop flag; a lease loss makes it join the forced tail.
ReaderStops(a) ==
  /\ pc[a] = "reading"
  /\ reader_stop \/ current # a
  /\ Goto(a, IF cause = "CliLeaseLost" THEN "f_check" ELSE "done")
  /\ UNCHANGED <<claimVars, requestVars, quit_admission, current, fs, waitVars,
                 uiVars, peerVars>>

\* The reader meets the end of its link: an error once the session is ending,
\* otherwise the primary owner decides (RetireGeneration).
LinkEnds(a) ==
  /\ pc[a] = "reading"
  /\ Goto(a, "done")
  /\ IF current = a /\ ~is_running THEN SendUi("Fatal") ELSE UNCHANGED uiVars
  /\ UNCHANGED <<claimVars, requestVars, quit_admission, current, fs, waitVars,
                 peerVars>>

-----------------------------------------------------------------------------
(* The forced tail (cli_lease_lost), on the observer, a reader or main.    *)

\* The gate, read without the mutex.
ForcedChecks(t) ==
  /\ pc[t] = "f_check"
  /\ IF is_forced_cause(reserved_cause) /\ ~tail_started
     THEN Goto(t, "f_prepare") /\ UNCHANGED uiVars
     ELSE Return(t, FALSE)
  /\ UNCHANGED <<claimVars, requestVars, quit_admission, current, fs, waitVars,
                 peerVars>>

\* prepare_accepted_shutdown
ForcedPrepares(t) ==
  /\ pc[t] = "f_prepare"
  /\ \/ Goto(t, "f_begin") /\ UNCHANGED uiVars
     \/ Return(t, TRUE)
  /\ UNCHANGED <<claimVars, requestVars, quit_admission, current, fs, waitVars, peerVars>>

\* Mutant: the tail begins however often it is asked to.
ForcedBegins_Again(t) ==
  /\ pc[t] = "f_begin"
  /\ tail_started' = TRUE
  /\ cause' = reserved_cause
  /\ Goto(t, "f_drain") /\ UNCHANGED uiVars
  /\ UNCHANGED <<reserved_cause, tail_ended, reader_stop, requestVars,
                 quit_admission, current, fs, waitVars, peerVars>>

\* begin_tail is one-shot; accept_forced_tail_guarded accepts the claim.
ForcedBegins(t) ==
  /\ pc[t] = "f_begin"
  /\ tail_started' = TRUE
  /\ IF tail_started
     THEN Return(t, FALSE) /\ UNCHANGED cause
     ELSE /\ cause' = reserved_cause
          /\ Goto(t, "f_drain") /\ UNCHANGED uiVars
  /\ UNCHANGED <<reserved_cause, tail_ended, reader_stop, requestVars,
                 quit_admission, current, fs, waitVars, peerVars>>

\* quiesce_and_drain_fs and the link close.
ForcedCloses(t) ==
  /\ pc[t] = "f_drain"
  /\ fs = None
  /\ current' = None
  /\ Goto(t, "f_finish")
  /\ UNCHANGED <<claimVars, requestVars, quit_admission, fs, waitVars, uiVars,
                 peerVars>>

ForcedFinishes(t) ==
  /\ pc[t] = "f_finish"
  /\ finish_tail(t)
  /\ UNCHANGED <<claimVars, requestVars, quit_admission, current, fs, waitVars,
                 peerVars>>

\* The lease observer: claim_cli_lease_lost, reserve and accept in one hold.
LeaseLost ==
  /\ pc[Observer] = "watching"
  /\ lease_error' \in BOOLEAN
  /\ IF is_running
     THEN /\ reserve_guarded("CliLeaseLost")
          /\ cause' = "CliLeaseLost"
          /\ Goto(Observer, "f_check")
     ELSE /\ Goto(Observer, "done")
          /\ UNCHANGED <<cause, reserved_cause, tail_ended, reader_stop, asleep>>
  /\ UNCHANGED <<tail_started, handover_requested, under_dev_lease,
                 quit_admission, current, fs, overdue, uiVars, peerVars>>

-----------------------------------------------------------------------------
(* The profile handover and the main thread.                               *)

\* request_handover: the UI loop is told to quit, and the fact recorded.
RequestHandover ==
  /\ ~under_dev_lease
  /\ is_running /\ ~handover_requested
  /\ pc[Main] = "loop"
  /\ SendUi("Quit")
  /\ handover_requested' = TRUE
  /\ UNCHANGED <<claimVars, under_dev_lease, lease_error, quit_admission,
                 current, fs, pc, waitVars, peerVars>>

\* A failure of the primary owner or of the filesystem worker.
OwnerFails ==
  /\ pc[Main] = "loop" /\ ui_end = "none"
  /\ SendUi("Fatal")
  /\ UNCHANGED <<claimVars, requestVars, quit_admission, current, fs, pc,
                 waitVars, peerVars>>

\* run_app_until_quit returns, with an error after a Fatal.
UiReturns ==
  /\ pc[Main] = "loop"
  /\ ui_end # "none"
  /\ Goto(Main, IF ui_end = "Quit" /\ handover_requested THEN "writing" ELSE "teardown")
  /\ UNCHANGED <<claimVars, requestVars, quit_admission, current, fs, waitVars,
                 uiVars, peerVars>>

\* signal_last_window_closed: a failed write retires the generation and leaves
\* the application no time.
MainWrites ==
  /\ pc[Main] = "writing"
  /\ Goto(Main, "waiting")
  /\ \/ UNCHANGED <<quit_admission, current, waitVars>>
     \/ /\ is_running /\ current # None
        /\ Retired(current)
        /\ overdue' = TRUE
  /\ UNCHANGED <<claimVars, requestVars, fs, uiVars, peerVars>>

\* One turn of await_quit_or_claim_handover.
MainWaits ==
  /\ pc[Main] = "waiting" /\ asleep = "no"
  /\ \/ /\ ~is_running
        /\ Goto(Main, "awaiting")
        /\ UNCHANGED <<claimVars, asleep>>
     \/ /\ is_running /\ quit_admission # None
        /\ asleep' = "untimed"
        /\ UNCHANGED <<claimVars, pc>>
     \/ /\ is_running /\ quit_admission = None /\ overdue
        /\ reserve_guarded("Handover")
        /\ cause' = "Handover"
        /\ Goto(Main, "f_check")
        /\ UNCHANGED tail_started
     \/ /\ is_running /\ quit_admission = None /\ ~overdue
        /\ asleep' = "timed"
        /\ UNCHANGED <<claimVars, pc>>
  /\ UNCHANGED <<requestVars, quit_admission, current, fs, overdue, uiVars, peerVars>>

\* The deadline passes; it ends a timed wait only.
DeadlinePasses ==
  /\ pc[Main] = "waiting" /\ ~overdue
  /\ overdue' = TRUE
  /\ asleep' = IF asleep = "timed" THEN "no" ELSE asleep
  /\ UNCHANGED <<claimVars, requestVars, quit_admission, current, fs, pc, uiVars,
                 peerVars>>

\* The condvar wakes its waiter for no reason.
SpuriousWake ==
  /\ asleep # "no"
  /\ Notify
  /\ UNCHANGED <<claimVars, requestVars, quit_admission, current, fs, pc, overdue,
                 uiVars, peerVars>>

\* Mutant: the main thread does not wait for the claimant's tail.
MainAwaitsTail_NoWait ==
  /\ pc[Main] = "awaiting" /\ asleep = "no"
  /\ Goto(Main, "teardown")
  /\ UNCHANGED <<claimVars, requestVars, quit_admission, current, fs, waitVars, uiVars, peerVars>>

\* One turn of await_tail_end.
MainAwaitsTail ==
  /\ pc[Main] = "awaiting" /\ asleep = "no"
  /\ IF ~tail_ended /\ cause # "CliLeaseLost"
     THEN asleep' = "untimed" /\ UNCHANGED pc
     ELSE Goto(Main, "teardown") /\ UNCHANGED asleep
  /\ UNCHANGED <<claimVars, requestVars, quit_admission, current, fs, overdue,
                 uiVars, peerVars>>

\* stop_and_join of the router: its first hold closes the link.
TearDown ==
  /\ pc[Main] = "teardown"
  /\ reader_stop' = TRUE
  /\ current' = None
  /\ Goto(Main, "joining")
  /\ UNCHANGED <<cause, reserved_cause, tail_started, tail_ended, requestVars,
                 quit_admission, fs, waitVars, uiVars, peerVars>>

\* ... then it joins the readers and drains the filesystem.
JoinReaders ==
  /\ pc[Main] = "joining"
  /\ \A a \in Attempts : pc[a] \in {"unborn", "done"}
  /\ fs = None
  /\ Goto(Main, "ended")
  /\ UNCHANGED <<claimVars, requestVars, quit_admission, current, fs, waitVars,
                 uiVars, peerVars>>

-----------------------------------------------------------------------------
QuitStep(a) ==
  \/ QuitEnters(a) \/ QuitDrains(a) \/ QuitClaims(a) \/ QuitPrepares(a)
  \/ QuitAccepts(a) \/ QuitCloses(a) \/ QuitFinishes(a)

ForcedStep(t) ==
  \/ ForcedChecks(t) \/ ForcedPrepares(t) \/ ForcedBegins(t)
  \/ ForcedCloses(t) \/ ForcedFinishes(t)

MainStep ==
  \/ UiReturns \/ MainWrites \/ MainWaits \/ MainAwaitsTail
  \/ TearDown \/ JoinReaders

Next ==
  \/ \E a \in Attempts :
       \/ InstallGeneration(a) \/ RetireGeneration(a) \/ FsCall(a) \/ FsCompletes(a)
       \/ QuitArrives(a) \/ QuitStep(a) \/ ReaderStops(a) \/ LinkEnds(a)
  \/ \E t \in Threads : ForcedStep(t) \/ EndTail(t)
  \/ LeaseLost \/ RequestHandover \/ OwnerFails
  \/ MainStep \/ DeadlinePasses \/ SpuriousWake

Spec == Init /\ [][Next]_vars

\* Every thread keeps running, a filesystem call ends, time passes.  Nothing
\* makes the application quit, a lease end or a generation be retired.
Fairness ==
  /\ \A a \in Attempts : /\ WF_vars(QuitStep(a))
                         /\ WF_vars(ReaderStops(a))
                         /\ WF_vars(FsCompletes(a))
  /\ \A t \in Threads : WF_vars(ForcedStep(t) \/ EndTail(t))
  /\ WF_vars(MainStep)
  /\ WF_vars(DeadlinePasses)

FairSpec == Spec /\ Fairness

-----------------------------------------------------------------------------
(* Properties.                                                             *)

QuitTail == {"q_drain", "q_finish"}
ForcedTail == {"f_drain", "f_finish"}

\* Threads inside the body of a tail.
InTail == {t \in Threads : pc[t] \in QuitTail \cup ForcedTail}

\* The tail runs once, under the cause that was claimed: no two threads are in
\* a tail body, a Quit's tail runs under LifecycleQuit and a forced tail under
\* a forced cause, whoever reads the lease loss first.
OneTail ==
  /\ \A t, u \in InTail : t = u
  /\ \A t \in InTail :
       /\ tail_started /\ cause = reserved_cause
       /\ is_forced_cause(cause) <=> pc[t] \in ForcedTail

\* A Quit whose handler entered while the session ran keeps its claim through
\* its filesystem drain: until it decides, or its generation is retired, the
\* handover's deadline does not claim the session (quit_admission).
AdmittedQuitKeepsClaim ==
  \A a \in Attempts :
    pc[a] \in {"draining", "drained"} /\ current = a
      => quit_admission = a /\ reserved_cause # "Handover"

\* Filesystem replies precede the Quit reply: when an application's Quit is
\* answered, each of its filesystem calls has been answered.
FsRepliesPrecedeQuitReply ==
  \A a \in replied : fs # a /\ a \notin silenced

\* The UI loop is told to quit at most once, by the handover or by the tail;
\* after the handover no tail sends to a loop that is gone.
LoopQuitsOnce == quits <= 1

\* After a handover that ended the loop the main thread tears the session down
\* only when somebody has claimed it and the claimant's tail has ended.
TeardownAfterTail ==
  handover_requested /\ ui_end = "Quit" /\ pc[Main] \in {"teardown", "joining", "ended"}
    => ~is_running /\ InTail = {}

\* A handover always ends the session: the wait for the application's Quit, the
\* wait for its tail and the join of the readers all finish.
HandoverEnds == handover_requested ~> pc[Main] = "ended"

\* A Quit that claimed the session always ends the UI loop, also when a step of
\* its tail fails.
QuitEndsLoop == reserved_cause = "LifecycleQuit" ~> pc[Main] # "loop"

\* A lost CLI lease always ends the UI loop: finish_tail relies on it ("CLI
\* lease loss and the profile handover already have their own terminal paths").
LeaseLossEndsLoop == cause = "CliLeaseLost" ~> pc[Main] # "loop"

=============================================================================
