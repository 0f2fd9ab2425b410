----------------------- MODULE SessionShutdownProofs -----------------------
(***************************************************************************)
(* Proofs about the end of an app session (SessionShutdown), for any set   *)
(* of generations.                                                         *)
(*                                                                         *)
(* None of the properties of the session end is inductive: each rests on   *)
(* who may be where once the session is claimed.  ShutdownInv says it.     *)
(* ClaimInv is its core: the claim decides which tail may run, and the     *)
(* single-shot claim and the single-shot begin_tail leave at most one      *)
(* thread in a tail.  The other parts say what the lease, the ended tail,  *)
(* the main thread, the UI's Quit command and the filesystem calls add.    *)
(* One lemma per action shows that ShutdownInv is kept; the properties     *)
(* follow from it.                                                         *)
(***************************************************************************)
EXTENDS SessionShutdown, TLAPS

-----------------------------------------------------------------------------
(* The inductive invariant.                                                *)

(* A Quit's handler from its claim to the end of its tail.                 *)
QuitPcs == {"q_prepare", "q_accept"} \cup QuitTail

(* An accepted cause is the claimed one; a Quit's tail belongs to the one  *)
(* reader that claimed the session, a forced tail to the one thread that   *)
(* began it.                                                               *)
ClaimInv ==
  /\ cause # "Running" => cause = reserved_cause
  /\ tail_started => reserved_cause # "Running" /\ cause = reserved_cause
  /\ \A t \in Threads :
       /\ pc[t] \in QuitPcs => reserved_cause = "LifecycleQuit"
       /\ pc[t] \in {"q_prepare", "q_accept"} => ~tail_started
       /\ pc[t] \in ForcedPcs => is_forced_cause(reserved_cause)
       /\ pc[t] \in QuitTail \cup ForcedTail => tail_started
  /\ \A t, u \in Threads :
       pc[t] \in QuitPcs \cup ForcedTail /\ pc[u] \in QuitPcs \cup ForcedTail => t = u

(* Without a CLI lease there is no observer, and only the main thread runs *)
(* a forced tail.                                                          *)
LeaseInv ==
  /\ handover_requested => ~under_dev_lease
  /\ ~under_dev_lease =>
       /\ pc[Observer] = "done" /\ reserved_cause # "CliLeaseLost"
       /\ \A a \in Attempts : pc[a] \notin ForcedPcs

(* Once a tail has ended, or its thread is about to say so, none follows.  *)
EndedInv ==
  tail_ended \/ (\E t \in Threads : pc[t] \in EndingPcs) =>
    /\ reserved_cause # "Running"
    /\ is_forced_cause(reserved_cause) => tail_started
    /\ \A t \in Threads : pc[t] \notin QuitPcs \cup ForcedTail

(* Where the main thread is tells what was requested and claimed.          *)
MainInv ==
  /\ pc[Main] # "loop" => ui_end # "none"
  /\ pc[Main] \in {"writing", "waiting", "awaiting"} \cup ForcedPcs \cup EndingPcs =>
       handover_requested
  /\ pc[Main] = "awaiting" => reserved_cause # "Running"
  /\ pc[Main] \in ForcedPcs => reserved_cause = "Handover"
  /\ handover_requested /\ ui_end = "Quit" /\ pc[Main] \in {"teardown", "joining", "ended"} =>
       /\ reserved_cause # "Running"
       /\ \A t \in Threads : pc[t] \notin QuitPcs \cup ForcedTail

(* A Quit command that no handover sent was sent by a tail that is over.   *)
QuitsInv ==
  /\ quits \in 0 .. 1
  /\ quits = 1 /\ ~handover_requested =>
       tail_started /\ \A t \in Threads : pc[t] \notin QuitTail \cup ForcedTail

(* A generation whose Quit is past its drain has no call in flight, and    *)
(* the one that may still claim has lost no answer.                        *)
FsInv ==
  /\ \A a \in Attempts :
       /\ pc[a] \in {"unborn", "drained", "q_prepare", "q_accept"} => fs # a
       /\ pc[a] \in {"unborn", "q_prepare", "q_accept"} => a \notin silenced
       /\ current = a /\ reserved_cause = "Running" => a \notin silenced
  /\ \A a \in replied : fs # a /\ a \notin silenced
  /\ replied # {} => reserved_cause # "Running"

(* The inductive invariant of the session end.                             *)
ShutdownInv ==
  /\ ShutdownTypeOK
  /\ ClaimInv
  /\ LeaseInv
  /\ EndedInv
  /\ MainInv
  /\ QuitsInv
  /\ AdmittedQuitKeepsClaim
  /\ FsInv

-----------------------------------------------------------------------------
(* The initial states.                                                     *)

\* The first generation reads, nothing is claimed and no call is in flight.
LEMMA InitOK == Init => ShutdownInv
<1> SUFFICES ASSUME Init PROVE ShutdownInv
  OBVIOUS
<1> USE ThreadsAssumption DEF Init, Threads
<1>1. ShutdownTypeOK
  <2>1. /\ tail_started \in BOOLEAN /\ tail_ended \in BOOLEAN /\ reader_stop \in BOOLEAN
        /\ handover_requested \in BOOLEAN /\ under_dev_lease \in BOOLEAN
        /\ overdue \in BOOLEAN /\ lease_error \in BOOLEAN
    OBVIOUS
  <2>2. /\ pc \in [Threads -> ReaderPcs \cup MainPcs \cup ObserverPcs]
        /\ pc[Main] \in MainPcs /\ pc[Observer] \in ObserverPcs
        /\ \A a \in Attempts : pc[a] \in ReaderPcs
    BY DEF ReaderPcs, MainPcs, ObserverPcs
  <2> QED
    BY <2>1, <2>2 DEF ShutdownTypeOK, Causes
<1>2. ClaimInv /\ LeaseInv /\ EndedInv /\ MainInv
  BY DEF ClaimInv, LeaseInv, EndedInv, MainInv, QuitPcs, QuitTail, ForcedTail, ForcedPcs,
         EndingPcs, is_forced_cause
<1>3. QuitsInv /\ AdmittedQuitKeepsClaim /\ FsInv
  BY DEF QuitsInv, AdmittedQuitKeepsClaim, FsInv, QuitTail, ForcedTail
<1> QED
  BY <1>1, <1>2, <1>3 DEF ShutdownInv

-----------------------------------------------------------------------------
(* Generations and their filesystem calls.                                 *)

\* A new generation takes a free link, or fails to be told Ready.
LEMMA InstallGenerationOK ==
  ASSUME ShutdownInv, NEW a \in Attempts, InstallGeneration(a)
  PROVE  ShutdownInv'
<1> USE ThreadsAssumption DEF ShutdownInv, ShutdownTypeOK, Threads, InstallGeneration, Goto,
       clear_quit_admission, Notify, Released, peerVars, uiVars, claimVars, requestVars,
       is_running
<1>1. ShutdownTypeOK'
  BY DEF Causes, ReaderPcs, MainPcs, ObserverPcs, ForcedPcs, EndingPcs
<1>2. /\ ClaimInv' /\ LeaseInv' /\ EndedInv' /\ MainInv'
     /\ QuitsInv' /\ AdmittedQuitKeepsClaim' /\ FsInv'
  BY DEF ClaimInv, LeaseInv, EndedInv, MainInv, QuitsInv, AdmittedQuitKeepsClaim, FsInv,
         QuitPcs, QuitTail, ForcedTail, ForcedPcs, is_forced_cause, EndingPcs
<1> QED
  BY <1>1, <1>2

\* The primary owner revokes the current generation.
LEMMA RetireGenerationOK ==
  ASSUME ShutdownInv, NEW a \in Attempts, RetireGeneration(a)
  PROVE  ShutdownInv'
<1> USE ThreadsAssumption DEF ShutdownInv, ShutdownTypeOK, Threads, RetireGeneration,
       Retired, clear_quit_admission, Notify, Released, peerVars, uiVars, claimVars,
       requestVars, is_running
<1>1. ShutdownTypeOK'
  BY DEF Causes, ReaderPcs, MainPcs, ObserverPcs, ForcedPcs, EndingPcs
<1>2. /\ ClaimInv' /\ LeaseInv' /\ EndedInv' /\ MainInv'
     /\ QuitsInv' /\ AdmittedQuitKeepsClaim' /\ FsInv'
  BY DEF ClaimInv, LeaseInv, EndedInv, MainInv, QuitsInv, AdmittedQuitKeepsClaim, FsInv,
         QuitPcs, QuitTail, ForcedTail, ForcedPcs, is_forced_cause, EndingPcs
<1> QED
  BY <1>1, <1>2

\* A filesystem call starts: the generation is still reading, so no Quit of it
\* is past its drain.
LEMMA FsCallOK ==
  ASSUME ShutdownInv, NEW a \in Attempts, FsCall(a)
  PROVE  ShutdownInv'
<1> USE ThreadsAssumption DEF ShutdownInv, ShutdownTypeOK, Threads, FsCall, peerVars,
       waitVars, uiVars, claimVars, requestVars, is_running
<1>1. ShutdownTypeOK'
  BY DEF Causes, ReaderPcs, MainPcs, ObserverPcs, ForcedPcs, EndingPcs
<1>2. /\ ClaimInv' /\ LeaseInv' /\ EndedInv' /\ MainInv'
     /\ QuitsInv' /\ AdmittedQuitKeepsClaim' /\ FsInv'
  BY DEF ClaimInv, LeaseInv, EndedInv, MainInv, QuitsInv, AdmittedQuitKeepsClaim, FsInv,
         QuitPcs, QuitTail, ForcedTail, ForcedPcs, is_forced_cause, EndingPcs
<1> QED
  BY <1>1, <1>2

\* A filesystem call ends, answered or not: an answer is lost only by a
\* generation that has lost its link, or after a claim.
LEMMA FsCompletesOK ==
  ASSUME ShutdownInv, NEW a \in Attempts, FsCompletes(a)
  PROVE  ShutdownInv'
<1> USE ThreadsAssumption DEF ShutdownInv, ShutdownTypeOK, Threads, FsCompletes, Retired,
       clear_quit_admission, Notify, Released, uiVars, claimVars, requestVars, is_running
<1>1. ShutdownTypeOK'
  BY DEF Causes, ReaderPcs, MainPcs, ObserverPcs, ForcedPcs, EndingPcs
<1>2. FsInv'
  BY DEF FsInv, ClaimInv, QuitPcs, QuitTail, ForcedTail, ForcedPcs, is_forced_cause
<1>3. ClaimInv' /\ LeaseInv' /\ EndedInv' /\ MainInv' /\ QuitsInv' /\ AdmittedQuitKeepsClaim'
  BY DEF ClaimInv, LeaseInv, EndedInv, MainInv, QuitsInv, AdmittedQuitKeepsClaim, QuitPcs,
         QuitTail, ForcedTail, ForcedPcs, is_forced_cause, EndingPcs
<1> QED
  BY <1>1, <1>2, <1>3

-----------------------------------------------------------------------------
(* The application's Quit, on its reader thread.                           *)

\* The reader decodes a Quit.
LEMMA QuitArrivesOK ==
  ASSUME ShutdownInv, NEW a \in Attempts, QuitArrives(a)
  PROVE  ShutdownInv'
<1> USE ThreadsAssumption DEF ShutdownInv, ShutdownTypeOK, Threads, QuitArrives, Goto,
       peerVars, waitVars, uiVars, claimVars, requestVars, is_running
<1>1. ShutdownTypeOK'
  BY DEF Causes, ReaderPcs, MainPcs, ObserverPcs, ForcedPcs, EndingPcs
<1>2. /\ ClaimInv' /\ LeaseInv' /\ EndedInv' /\ MainInv'
     /\ QuitsInv' /\ AdmittedQuitKeepsClaim' /\ FsInv'
  BY DEF ClaimInv, LeaseInv, EndedInv, MainInv, QuitsInv, AdmittedQuitKeepsClaim, FsInv,
         QuitPcs, QuitTail, ForcedTail, ForcedPcs, is_forced_cause, EndingPcs
<1> QED
  BY <1>1, <1>2

\* A Quit of the running session is admitted; a late one joins the lease loss,
\* which only a leased session can have.
LEMMA QuitEntersOK ==
  ASSUME ShutdownInv, NEW a \in Attempts, QuitEnters(a)
  PROVE  ShutdownInv'
<1> USE ThreadsAssumption DEF ShutdownInv, ShutdownTypeOK, Threads, QuitEnters, Goto,
       Notify, QuitTooLate, peerVars, uiVars, claimVars, requestVars, is_running
<1>1. ShutdownTypeOK'
  BY DEF Causes, ReaderPcs, MainPcs, ObserverPcs, ForcedPcs, EndingPcs
<1>2. LeaseInv'
  BY DEF LeaseInv, ClaimInv, ForcedPcs, QuitPcs, QuitTail, ForcedTail, is_forced_cause
<1>3. ClaimInv' /\ EndedInv' /\ MainInv' /\ QuitsInv' /\ AdmittedQuitKeepsClaim' /\ FsInv'
  BY DEF ClaimInv, EndedInv, MainInv, QuitsInv, AdmittedQuitKeepsClaim, FsInv, QuitPcs,
         QuitTail, ForcedTail, ForcedPcs, is_forced_cause, EndingPcs
<1> QED
  BY <1>1, <1>2, <1>3

\* The Quit's handler has seen the filesystem drain.
LEMMA QuitDrainsOK ==
  ASSUME ShutdownInv, NEW a \in Attempts, QuitDrains(a)
  PROVE  ShutdownInv'
<1> USE ThreadsAssumption DEF ShutdownInv, ShutdownTypeOK, Threads, QuitDrains, Goto,
       peerVars, waitVars, uiVars, claimVars, requestVars
<1>1. ShutdownTypeOK'
  BY DEF Causes, ReaderPcs, MainPcs, ObserverPcs, ForcedPcs, EndingPcs
<1>2. /\ ClaimInv' /\ LeaseInv' /\ EndedInv' /\ MainInv'
     /\ QuitsInv' /\ AdmittedQuitKeepsClaim' /\ FsInv'
  BY DEF ClaimInv, LeaseInv, EndedInv, MainInv, QuitsInv, AdmittedQuitKeepsClaim, FsInv,
         QuitPcs, QuitTail, ForcedTail, ForcedPcs, is_forced_cause, EndingPcs
<1> QED
  BY <1>1, <1>2

\* The Quit claims the session, or comes too late: a claim finds no other, so
\* no other Quit or forced tail is under way.
LEMMA QuitClaimsOK ==
  ASSUME ShutdownInv, NEW a \in Attempts, QuitClaims(a)
  PROVE  ShutdownInv'
<1> USE ThreadsAssumption DEF ShutdownInv, ShutdownTypeOK, Threads, QuitClaims, Goto,
       reserve_guarded, Notify, Released, QuitTooLate, peerVars, uiVars, requestVars
<1>1. tail_ended' \in BOOLEAN /\ reader_stop' \in BOOLEAN
  OBVIOUS
<1>2. ShutdownTypeOK'
  BY <1>1 DEF Causes, ReaderPcs, MainPcs, ObserverPcs, ForcedPcs, EndingPcs
<1>3. LeaseInv'
  BY DEF LeaseInv, ClaimInv, ForcedPcs, QuitPcs, QuitTail, ForcedTail, is_forced_cause
<1>4. ClaimInv' /\ EndedInv' /\ MainInv' /\ QuitsInv' /\ AdmittedQuitKeepsClaim' /\ FsInv'
  BY DEF ClaimInv, EndedInv, MainInv, QuitsInv, AdmittedQuitKeepsClaim, FsInv, QuitPcs,
         QuitTail, ForcedTail, ForcedPcs, is_forced_cause, EndingPcs
<1> QED
  BY <1>2, <1>3, <1>4

\* The primary owner prepares the accepted shutdown, or fails and the tail is
\* over.
LEMMA QuitPreparesOK ==
  ASSUME ShutdownInv, NEW a \in Attempts, QuitPrepares(a)
  PROVE  ShutdownInv'
<1> USE ThreadsAssumption DEF ShutdownInv, ShutdownTypeOK, Threads, QuitPrepares, Goto,
       peerVars, waitVars, uiVars, claimVars, requestVars
<1>1. ShutdownTypeOK'
  BY DEF Causes, ReaderPcs, MainPcs, ObserverPcs, ForcedPcs, EndingPcs
<1>2. EndedInv'
  BY DEF EndedInv, ClaimInv, QuitPcs, QuitTail, ForcedTail, EndingPcs, is_forced_cause,
         ForcedPcs
<1>3. ClaimInv' /\ LeaseInv' /\ MainInv' /\ QuitsInv' /\ AdmittedQuitKeepsClaim' /\ FsInv'
  BY DEF ClaimInv, LeaseInv, MainInv, QuitsInv, AdmittedQuitKeepsClaim, FsInv, QuitPcs,
         QuitTail, ForcedTail, ForcedPcs, is_forced_cause, EndingPcs
<1> QED
  BY <1>1, <1>2, <1>3

\* The Quit is accepted and its reply attempted: the generation that claimed
\* has no call in flight and none unanswered.
LEMMA QuitAcceptsOK ==
  ASSUME ShutdownInv, NEW a \in Attempts, QuitAccepts(a)
  PROVE  ShutdownInv'
<1> USE ThreadsAssumption DEF ShutdownInv, ShutdownTypeOK, Threads, QuitAccepts, Goto,
       waitVars, uiVars, requestVars
<1>1. ShutdownTypeOK'
  BY DEF Causes, ReaderPcs, MainPcs, ObserverPcs, ForcedPcs, EndingPcs
<1>2. EndedInv'
  BY DEF EndedInv, ClaimInv, QuitPcs, QuitTail, ForcedTail, EndingPcs, is_forced_cause,
         ForcedPcs
<1>3. QuitsInv'
  BY DEF QuitsInv, ClaimInv, QuitTail, ForcedTail, QuitPcs, ForcedPcs, is_forced_cause
<1>4. FsInv'
  BY DEF FsInv, ClaimInv, QuitPcs, QuitTail, ForcedTail, ForcedPcs, is_forced_cause
<1>5. ClaimInv' /\ LeaseInv' /\ MainInv' /\ AdmittedQuitKeepsClaim'
  BY DEF ClaimInv, LeaseInv, MainInv, AdmittedQuitKeepsClaim, QuitPcs, QuitTail, ForcedTail,
         ForcedPcs, is_forced_cause, EndingPcs
<1> QED
  BY <1>1, <1>2, <1>3, <1>4, <1>5

\* The Quit's tail closes the link, or finds it gone.
LEMMA QuitClosesOK ==
  ASSUME ShutdownInv, NEW a \in Attempts, QuitCloses(a)
  PROVE  ShutdownInv'
<1> USE ThreadsAssumption DEF ShutdownInv, ShutdownTypeOK, Threads, QuitCloses, Goto,
       peerVars, waitVars, uiVars, claimVars, requestVars
<1>1. ShutdownTypeOK'
  BY DEF Causes, ReaderPcs, MainPcs, ObserverPcs, ForcedPcs, EndingPcs
<1>2. EndedInv'
  BY DEF EndedInv, ClaimInv, QuitPcs, QuitTail, ForcedTail, EndingPcs, is_forced_cause,
         ForcedPcs
<1>3. ClaimInv' /\ LeaseInv' /\ MainInv' /\ QuitsInv' /\ AdmittedQuitKeepsClaim' /\ FsInv'
  BY DEF ClaimInv, LeaseInv, MainInv, QuitsInv, AdmittedQuitKeepsClaim, FsInv, QuitPcs,
         QuitTail, ForcedTail, ForcedPcs, is_forced_cause, EndingPcs
<1> QED
  BY <1>1, <1>2, <1>3

\* The Quit's tail ends: it is the only one, so no Quit command has been sent
\* unless a handover sent it.
LEMMA QuitFinishesOK ==
  ASSUME ShutdownInv, NEW a \in Attempts, QuitFinishes(a)
  PROVE  ShutdownInv'
<1> USE ThreadsAssumption DEF ShutdownInv, ShutdownTypeOK, Threads, QuitFinishes,
       finish_tail, Goto, SendUi, uiVars, peerVars, waitVars, claimVars, requestVars
<1>1. ShutdownTypeOK'
  BY DEF Causes, ReaderPcs, MainPcs, ObserverPcs, ForcedPcs, EndingPcs, QuitsInv
<1>2. EndedInv'
  BY DEF EndedInv, ClaimInv, QuitPcs, QuitTail, ForcedTail, EndingPcs, is_forced_cause,
         ForcedPcs
<1>3. QuitsInv'
  BY DEF QuitsInv, ClaimInv, QuitTail, ForcedTail, QuitPcs, ForcedPcs, is_forced_cause
<1>4. ClaimInv' /\ LeaseInv' /\ MainInv' /\ AdmittedQuitKeepsClaim' /\ FsInv'
  BY DEF ClaimInv, LeaseInv, MainInv, AdmittedQuitKeepsClaim, FsInv, QuitPcs, QuitTail,
         ForcedTail, ForcedPcs, is_forced_cause, EndingPcs
<1> QED
  BY <1>1, <1>2, <1>3, <1>4

\* A reader meets its stop flag; it joins a forced tail only after a lease
\* loss.
LEMMA ReaderStopsOK ==
  ASSUME ShutdownInv, NEW a \in Attempts, ReaderStops(a)
  PROVE  ShutdownInv'
<1> USE ThreadsAssumption DEF ShutdownInv, ShutdownTypeOK, Threads, ReaderStops, Goto,
       peerVars, waitVars, uiVars, claimVars, requestVars
<1>1. ShutdownTypeOK'
  BY DEF Causes, ReaderPcs, MainPcs, ObserverPcs, ForcedPcs, EndingPcs
<1>2. LeaseInv'
  BY DEF LeaseInv, ClaimInv, ForcedPcs, QuitPcs, QuitTail, ForcedTail, is_forced_cause
<1>3. ClaimInv' /\ EndedInv' /\ MainInv' /\ QuitsInv' /\ AdmittedQuitKeepsClaim' /\ FsInv'
  BY DEF ClaimInv, EndedInv, MainInv, QuitsInv, AdmittedQuitKeepsClaim, FsInv, QuitPcs,
         QuitTail, ForcedTail, ForcedPcs, is_forced_cause, EndingPcs
<1> QED
  BY <1>1, <1>2, <1>3

\* A reader meets the end of its link.
LEMMA LinkEndsOK ==
  ASSUME ShutdownInv, NEW a \in Attempts, LinkEnds(a)
  PROVE  ShutdownInv'
<1> USE ThreadsAssumption DEF ShutdownInv, ShutdownTypeOK, Threads, LinkEnds, Goto, SendUi,
       peerVars, waitVars, uiVars, claimVars, requestVars, is_running
<1>1. ShutdownTypeOK'
  BY DEF Causes, ReaderPcs, MainPcs, ObserverPcs, ForcedPcs, EndingPcs, QuitsInv
<1>2. /\ ClaimInv' /\ LeaseInv' /\ EndedInv' /\ MainInv'
     /\ QuitsInv' /\ AdmittedQuitKeepsClaim' /\ FsInv'
  BY DEF ClaimInv, LeaseInv, EndedInv, MainInv, QuitsInv, AdmittedQuitKeepsClaim, FsInv,
         QuitPcs, QuitTail, ForcedTail, ForcedPcs, is_forced_cause, EndingPcs
<1> QED
  BY <1>1, <1>2

-----------------------------------------------------------------------------
(* The forced tail, on the observer, a reader or the main thread.          *)

\* A thread reports the end of its tail and returns.
LEMMA EndTailOK ==
  ASSUME ShutdownInv, NEW t \in Threads, EndTail(t)
  PROVE  ShutdownInv'
<1> USE ThreadsAssumption DEF ShutdownInv, ShutdownTypeOK, Threads, EndTail, Notify, Return,
       Goto, SendUi, uiVars, peerVars, requestVars
<1>1. ShutdownTypeOK'
  BY DEF Causes, ReaderPcs, MainPcs, ObserverPcs, ForcedPcs, EndingPcs, QuitsInv
<1>2. MainInv'
  BY DEF MainInv, EndedInv, QuitPcs, QuitTail, ForcedTail, ForcedPcs, EndingPcs,
         is_forced_cause, ReaderPcs, MainPcs, ObserverPcs
<1>3. ClaimInv' /\ LeaseInv' /\ EndedInv' /\ QuitsInv' /\ AdmittedQuitKeepsClaim' /\ FsInv'
  BY DEF ClaimInv, LeaseInv, EndedInv, QuitsInv, AdmittedQuitKeepsClaim, FsInv, QuitPcs,
         QuitTail, ForcedTail, ForcedPcs, is_forced_cause, EndingPcs
<1> QED
  BY <1>1, <1>2, <1>3

\* A thread reads whether the forced tail is still to run; the main thread
\* that returns here came with a handover that was claimed, and no Quit is
\* under way.
LEMMA ForcedChecksOK ==
  ASSUME ShutdownInv, NEW t \in Threads, ForcedChecks(t)
  PROVE  ShutdownInv'
<1> USE ThreadsAssumption DEF ShutdownInv, ShutdownTypeOK, Threads, ForcedChecks, Goto,
       Return, SendUi, uiVars, peerVars, waitVars, claimVars, requestVars, is_forced_cause
<1>1. ShutdownTypeOK'
  BY DEF Causes, ReaderPcs, MainPcs, ObserverPcs, ForcedPcs, EndingPcs, QuitsInv
<1>2. MainInv'
  BY DEF MainInv, ClaimInv, LeaseInv, QuitPcs, QuitTail, ForcedTail, ForcedPcs, EndingPcs,
         is_forced_cause, ReaderPcs, MainPcs, ObserverPcs
<1>3. ClaimInv' /\ LeaseInv' /\ EndedInv' /\ QuitsInv' /\ AdmittedQuitKeepsClaim' /\ FsInv'
  BY DEF ClaimInv, LeaseInv, EndedInv, QuitsInv, AdmittedQuitKeepsClaim, FsInv, QuitPcs,
         QuitTail, ForcedTail, ForcedPcs, is_forced_cause, EndingPcs
<1> QED
  BY <1>1, <1>2, <1>3

\* The primary owner prepares a forced shutdown, or fails.
LEMMA ForcedPreparesOK ==
  ASSUME ShutdownInv, NEW t \in Threads, ForcedPrepares(t)
  PROVE  ShutdownInv'
<1> USE ThreadsAssumption DEF ShutdownInv, ShutdownTypeOK, Threads, ForcedPrepares, Goto,
       Return, SendUi, uiVars, peerVars, waitVars, claimVars, requestVars
<1>1. ShutdownTypeOK'
  BY DEF Causes, ReaderPcs, MainPcs, ObserverPcs, ForcedPcs, EndingPcs, QuitsInv
<1>2. MainInv'
  BY DEF MainInv, ClaimInv, LeaseInv, QuitPcs, QuitTail, ForcedTail, ForcedPcs, EndingPcs,
         is_forced_cause, ReaderPcs, MainPcs, ObserverPcs
<1>3. ClaimInv' /\ LeaseInv' /\ EndedInv' /\ QuitsInv' /\ AdmittedQuitKeepsClaim' /\ FsInv'
  BY DEF ClaimInv, LeaseInv, EndedInv, QuitsInv, AdmittedQuitKeepsClaim, FsInv, QuitPcs,
         QuitTail, ForcedTail, ForcedPcs, is_forced_cause, EndingPcs
<1> QED
  BY <1>1, <1>2, <1>3

\* The one-shot start of the forced tail.
LEMMA ForcedBeginsOK ==
  ASSUME ShutdownInv, NEW t \in Threads, ForcedBegins(t)
  PROVE  ShutdownInv'
<1> USE ThreadsAssumption DEF ShutdownInv, ShutdownTypeOK, Threads, ForcedBegins, Goto,
       Return, SendUi, uiVars, peerVars, waitVars, requestVars
<1>1. ShutdownTypeOK'
  BY DEF Causes, ReaderPcs, MainPcs, ObserverPcs, ForcedPcs, EndingPcs, QuitsInv
<1>2. EndedInv'
  BY DEF EndedInv, ClaimInv, QuitPcs, QuitTail, ForcedTail, EndingPcs, is_forced_cause,
         ForcedPcs
<1>3. MainInv'
  BY DEF MainInv, ClaimInv, LeaseInv, QuitPcs, QuitTail, ForcedTail, ForcedPcs, EndingPcs,
         is_forced_cause, ReaderPcs, MainPcs, ObserverPcs
<1>4. ClaimInv' /\ LeaseInv' /\ QuitsInv' /\ AdmittedQuitKeepsClaim' /\ FsInv'
  BY DEF ClaimInv, LeaseInv, QuitsInv, AdmittedQuitKeepsClaim, FsInv, QuitPcs, QuitTail,
         ForcedTail, ForcedPcs, is_forced_cause
<1> QED
  BY <1>1, <1>2, <1>3, <1>4

\* The forced tail closes the link.
LEMMA ForcedClosesOK ==
  ASSUME ShutdownInv, NEW t \in Threads, ForcedCloses(t)
  PROVE  ShutdownInv'
<1> USE ThreadsAssumption DEF ShutdownInv, ShutdownTypeOK, Threads, ForcedCloses, Goto,
       peerVars, waitVars, uiVars, claimVars, requestVars
<1>1. ShutdownTypeOK'
  BY DEF Causes, ReaderPcs, MainPcs, ObserverPcs, ForcedPcs, EndingPcs
<1>2. /\ ClaimInv' /\ LeaseInv' /\ EndedInv' /\ MainInv'
     /\ QuitsInv' /\ AdmittedQuitKeepsClaim' /\ FsInv'
  BY DEF ClaimInv, LeaseInv, EndedInv, MainInv, QuitsInv, AdmittedQuitKeepsClaim, FsInv,
         QuitPcs, QuitTail, ForcedTail, ForcedPcs, is_forced_cause, EndingPcs
<1> QED
  BY <1>1, <1>2

\* The forced tail ends, alone.
LEMMA ForcedFinishesOK ==
  ASSUME ShutdownInv, NEW t \in Threads, ForcedFinishes(t)
  PROVE  ShutdownInv'
<1> USE ThreadsAssumption DEF ShutdownInv, ShutdownTypeOK, Threads, ForcedFinishes,
       finish_tail, Goto, SendUi, uiVars, peerVars, waitVars, claimVars, requestVars
<1>1. ShutdownTypeOK'
  BY DEF Causes, ReaderPcs, MainPcs, ObserverPcs, ForcedPcs, EndingPcs, QuitsInv
<1>2. EndedInv'
  BY DEF EndedInv, ClaimInv, QuitPcs, QuitTail, ForcedTail, EndingPcs, is_forced_cause,
         ForcedPcs
<1>3. QuitsInv'
  BY DEF QuitsInv, ClaimInv, QuitTail, ForcedTail, QuitPcs, ForcedPcs, is_forced_cause
<1>4. ClaimInv' /\ LeaseInv' /\ MainInv' /\ AdmittedQuitKeepsClaim' /\ FsInv'
  BY DEF ClaimInv, LeaseInv, MainInv, AdmittedQuitKeepsClaim, FsInv, QuitPcs, QuitTail,
         ForcedTail, ForcedPcs, is_forced_cause, EndingPcs
<1> QED
  BY <1>1, <1>2, <1>3, <1>4

\* The observer claims the session for a lost lease.
LEMMA LeaseLostOK ==
  ASSUME ShutdownInv, LeaseLost
  PROVE  ShutdownInv'
<1> USE ThreadsAssumption DEF ShutdownInv, ShutdownTypeOK, Threads, LeaseLost, Goto,
       reserve_guarded, Notify, peerVars, uiVars, is_running
<1>1. tail_ended' \in BOOLEAN /\ reader_stop' \in BOOLEAN
  OBVIOUS
<1>2. ShutdownTypeOK'
  BY <1>1 DEF Causes, ReaderPcs, MainPcs, ObserverPcs, ForcedPcs, EndingPcs
<1>3. /\ ClaimInv' /\ LeaseInv' /\ EndedInv' /\ MainInv'
     /\ QuitsInv' /\ AdmittedQuitKeepsClaim' /\ FsInv'
  BY DEF ClaimInv, LeaseInv, EndedInv, MainInv, QuitsInv, AdmittedQuitKeepsClaim, FsInv,
         QuitPcs, QuitTail, ForcedTail, ForcedPcs, is_forced_cause, EndingPcs
<1> QED
  BY <1>2, <1>3

-----------------------------------------------------------------------------
(* The profile handover and the main thread.                               *)

\* A handover is requested of a running session: no tail has begun, so no Quit
\* command has been sent.
LEMMA RequestHandoverOK ==
  ASSUME ShutdownInv, RequestHandover
  PROVE  ShutdownInv'
<1> USE ThreadsAssumption DEF ShutdownInv, ShutdownTypeOK, Threads, RequestHandover, SendUi,
       peerVars, waitVars, claimVars, is_running
<1>1. ShutdownTypeOK'
  BY DEF Causes, ReaderPcs, MainPcs, ObserverPcs, ForcedPcs, EndingPcs, QuitsInv
<1>2. QuitsInv'
  BY DEF QuitsInv, ClaimInv, QuitTail, ForcedTail, QuitPcs, ForcedPcs, is_forced_cause
<1>3. ClaimInv' /\ LeaseInv' /\ EndedInv' /\ MainInv' /\ AdmittedQuitKeepsClaim' /\ FsInv'
  BY DEF ClaimInv, LeaseInv, EndedInv, MainInv, AdmittedQuitKeepsClaim, FsInv, QuitPcs,
         QuitTail, ForcedTail, ForcedPcs, is_forced_cause, EndingPcs
<1> QED
  BY <1>1, <1>2, <1>3

\* The primary owner or the filesystem worker fails.
LEMMA OwnerFailsOK ==
  ASSUME ShutdownInv, OwnerFails
  PROVE  ShutdownInv'
<1> USE ThreadsAssumption DEF ShutdownInv, ShutdownTypeOK, Threads, OwnerFails, SendUi,
       peerVars, waitVars, claimVars, requestVars
<1>1. ShutdownTypeOK'
  BY DEF Causes, ReaderPcs, MainPcs, ObserverPcs, ForcedPcs, EndingPcs, QuitsInv
<1>2. /\ ClaimInv' /\ LeaseInv' /\ EndedInv' /\ MainInv'
     /\ QuitsInv' /\ AdmittedQuitKeepsClaim' /\ FsInv'
  BY DEF ClaimInv, LeaseInv, EndedInv, MainInv, QuitsInv, AdmittedQuitKeepsClaim, FsInv,
         QuitPcs, QuitTail, ForcedTail, ForcedPcs, is_forced_cause, EndingPcs
<1> QED
  BY <1>1, <1>2

\* The UI loop returns to the main thread.
LEMMA UiReturnsOK ==
  ASSUME ShutdownInv, UiReturns
  PROVE  ShutdownInv'
<1> USE ThreadsAssumption DEF ShutdownInv, ShutdownTypeOK, Threads, UiReturns, Goto,
       peerVars, waitVars, uiVars, claimVars, requestVars
<1>1. ShutdownTypeOK'
  BY DEF Causes, ReaderPcs, MainPcs, ObserverPcs, ForcedPcs, EndingPcs
<1>2. /\ ClaimInv' /\ LeaseInv' /\ EndedInv' /\ MainInv'
     /\ QuitsInv' /\ AdmittedQuitKeepsClaim' /\ FsInv'
  BY DEF ClaimInv, LeaseInv, EndedInv, MainInv, QuitsInv, AdmittedQuitKeepsClaim, FsInv,
         QuitPcs, QuitTail, ForcedTail, ForcedPcs, is_forced_cause, EndingPcs
<1> QED
  BY <1>1, <1>2

\* The main thread tells the application that its last window closed.
LEMMA MainWritesOK ==
  ASSUME ShutdownInv, MainWrites
  PROVE  ShutdownInv'
<1> USE ThreadsAssumption DEF ShutdownInv, ShutdownTypeOK, Threads, MainWrites, Goto,
       Retired, clear_quit_admission, Notify, Released, peerVars, waitVars, uiVars,
       claimVars, requestVars, is_running
<1>1. overdue' \in BOOLEAN
  OBVIOUS
<1>2. ShutdownTypeOK'
  BY <1>1 DEF Causes, ReaderPcs, MainPcs, ObserverPcs, ForcedPcs, EndingPcs
<1>3. /\ ClaimInv' /\ LeaseInv' /\ EndedInv' /\ MainInv'
     /\ QuitsInv' /\ AdmittedQuitKeepsClaim' /\ FsInv'
  BY DEF ClaimInv, LeaseInv, EndedInv, MainInv, QuitsInv, AdmittedQuitKeepsClaim, FsInv,
         QuitPcs, QuitTail, ForcedTail, ForcedPcs, is_forced_cause, EndingPcs
<1> QED
  BY <1>2, <1>3

\* The main thread waits for a Quit and, past the deadline, claims the
\* session: only with no admitted Quit.
LEMMA MainWaitsOK ==
  ASSUME ShutdownInv, MainWaits
  PROVE  ShutdownInv'
<1> USE ThreadsAssumption DEF ShutdownInv, ShutdownTypeOK, Threads, MainWaits, Goto,
       reserve_guarded, Notify, peerVars, uiVars, claimVars, requestVars, is_running
<1>1. tail_ended' \in BOOLEAN /\ reader_stop' \in BOOLEAN
  OBVIOUS
<1>2. ShutdownTypeOK'
  BY <1>1 DEF Causes, ReaderPcs, MainPcs, ObserverPcs, ForcedPcs, EndingPcs
<1>3. MainInv'
  BY DEF MainInv, ClaimInv, QuitPcs, QuitTail, ForcedTail, ForcedPcs, EndingPcs,
         is_forced_cause, ReaderPcs, MainPcs, ObserverPcs
<1>4. ClaimInv' /\ LeaseInv' /\ EndedInv' /\ QuitsInv' /\ AdmittedQuitKeepsClaim' /\ FsInv'
  BY DEF ClaimInv, LeaseInv, EndedInv, QuitsInv, AdmittedQuitKeepsClaim, FsInv, QuitPcs,
         QuitTail, ForcedTail, ForcedPcs, is_forced_cause, EndingPcs
<1> QED
  BY <1>2, <1>3, <1>4

\* The handover's deadline passes.
LEMMA DeadlinePassesOK ==
  ASSUME ShutdownInv, DeadlinePasses
  PROVE  ShutdownInv'
<1> USE ThreadsAssumption DEF ShutdownInv, ShutdownTypeOK, Threads, DeadlinePasses,
       peerVars, uiVars, claimVars, requestVars
<1>1. ShutdownTypeOK'
  BY DEF Causes, ReaderPcs, MainPcs, ObserverPcs, ForcedPcs, EndingPcs
<1>2. /\ ClaimInv' /\ LeaseInv' /\ EndedInv' /\ MainInv'
     /\ QuitsInv' /\ AdmittedQuitKeepsClaim' /\ FsInv'
  BY DEF ClaimInv, LeaseInv, EndedInv, MainInv, QuitsInv, AdmittedQuitKeepsClaim, FsInv,
         QuitPcs, QuitTail, ForcedTail, ForcedPcs, is_forced_cause, EndingPcs
<1> QED
  BY <1>1, <1>2

\* The main thread wakes for no reason.
LEMMA SpuriousWakeOK ==
  ASSUME ShutdownInv, SpuriousWake
  PROVE  ShutdownInv'
<1> USE ThreadsAssumption DEF ShutdownInv, ShutdownTypeOK, Threads, SpuriousWake, Notify,
       peerVars, uiVars, claimVars, requestVars
<1>1. ShutdownTypeOK'
  BY DEF Causes, ReaderPcs, MainPcs, ObserverPcs, ForcedPcs, EndingPcs
<1>2. /\ ClaimInv' /\ LeaseInv' /\ EndedInv' /\ MainInv'
     /\ QuitsInv' /\ AdmittedQuitKeepsClaim' /\ FsInv'
  BY DEF ClaimInv, LeaseInv, EndedInv, MainInv, QuitsInv, AdmittedQuitKeepsClaim, FsInv,
         QuitPcs, QuitTail, ForcedTail, ForcedPcs, is_forced_cause, EndingPcs
<1> QED
  BY <1>1, <1>2

\* The main thread waits for the claimant's tail; without a lease the cause is
\* no lease loss, so it leaves only after a tail.
LEMMA MainAwaitsTailOK ==
  ASSUME ShutdownInv, MainAwaitsTail
  PROVE  ShutdownInv'
<1> USE ThreadsAssumption DEF ShutdownInv, ShutdownTypeOK, Threads, MainAwaitsTail, Goto,
       peerVars, uiVars, claimVars, requestVars
<1>1. ShutdownTypeOK'
  BY DEF Causes, ReaderPcs, MainPcs, ObserverPcs, ForcedPcs, EndingPcs
<1>2. MainInv'
  BY DEF MainInv, ClaimInv, LeaseInv, EndedInv, QuitPcs, QuitTail, ForcedTail, ForcedPcs,
         EndingPcs, is_forced_cause, ReaderPcs, MainPcs, ObserverPcs
<1>3. ClaimInv' /\ LeaseInv' /\ EndedInv' /\ QuitsInv' /\ AdmittedQuitKeepsClaim' /\ FsInv'
  BY DEF ClaimInv, LeaseInv, EndedInv, QuitsInv, AdmittedQuitKeepsClaim, FsInv, QuitPcs,
         QuitTail, ForcedTail, ForcedPcs, is_forced_cause, EndingPcs
<1> QED
  BY <1>1, <1>2, <1>3

\* The router is stopped and its link closed.
LEMMA TearDownOK ==
  ASSUME ShutdownInv, TearDown
  PROVE  ShutdownInv'
<1> USE ThreadsAssumption DEF ShutdownInv, ShutdownTypeOK, Threads, TearDown, Goto,
       peerVars, waitVars, uiVars, requestVars
<1>1. ShutdownTypeOK'
  BY DEF Causes, ReaderPcs, MainPcs, ObserverPcs, ForcedPcs, EndingPcs
<1>2. /\ ClaimInv' /\ LeaseInv' /\ EndedInv' /\ MainInv'
     /\ QuitsInv' /\ AdmittedQuitKeepsClaim' /\ FsInv'
  BY DEF ClaimInv, LeaseInv, EndedInv, MainInv, QuitsInv, AdmittedQuitKeepsClaim, FsInv,
         QuitPcs, QuitTail, ForcedTail, ForcedPcs, is_forced_cause, EndingPcs
<1> QED
  BY <1>1, <1>2

\* The readers have been joined.
LEMMA JoinReadersOK ==
  ASSUME ShutdownInv, JoinReaders
  PROVE  ShutdownInv'
<1> USE ThreadsAssumption DEF ShutdownInv, ShutdownTypeOK, Threads, JoinReaders, Goto,
       peerVars, waitVars, uiVars, claimVars, requestVars
<1>1. ShutdownTypeOK'
  BY DEF Causes, ReaderPcs, MainPcs, ObserverPcs, ForcedPcs, EndingPcs
<1>2. /\ ClaimInv' /\ LeaseInv' /\ EndedInv' /\ MainInv'
     /\ QuitsInv' /\ AdmittedQuitKeepsClaim' /\ FsInv'
  BY DEF ClaimInv, LeaseInv, EndedInv, MainInv, QuitsInv, AdmittedQuitKeepsClaim, FsInv,
         QuitPcs, QuitTail, ForcedTail, ForcedPcs, is_forced_cause, EndingPcs
<1> QED
  BY <1>1, <1>2

-----------------------------------------------------------------------------
(* The invariant and what follows from it.                                 *)

\* Every step of the session end keeps the invariant.
LEMMA NextOK == ShutdownInv /\ [Next]_vars => ShutdownInv'
<1> SUFFICES ASSUME ShutdownInv, [Next]_vars PROVE ShutdownInv'
  OBVIOUS
<1>1. ASSUME NEW a \in Attempts,
             \/ InstallGeneration(a) \/ RetireGeneration(a) \/ FsCall(a) \/ FsCompletes(a)
             \/ QuitArrives(a) \/ QuitStep(a) \/ ReaderStops(a) \/ LinkEnds(a)
      PROVE  ShutdownInv'
  BY <1>1, InstallGenerationOK, RetireGenerationOK, FsCallOK, FsCompletesOK, QuitArrivesOK,
     QuitEntersOK, QuitDrainsOK, QuitClaimsOK, QuitPreparesOK, QuitAcceptsOK, QuitClosesOK,
     QuitFinishesOK, ReaderStopsOK, LinkEndsOK DEF QuitStep
<1>2. ASSUME NEW t \in Threads, ForcedStep(t) \/ EndTail(t)
      PROVE  ShutdownInv'
  BY <1>2, ForcedChecksOK, ForcedPreparesOK, ForcedBeginsOK, ForcedClosesOK,
     ForcedFinishesOK, EndTailOK DEF ForcedStep
<1>3. CASE LeaseLost \/ RequestHandover \/ OwnerFails \/ DeadlinePasses \/ SpuriousWake
  BY <1>3, LeaseLostOK, RequestHandoverOK, OwnerFailsOK, DeadlinePassesOK, SpuriousWakeOK
<1>4. CASE MainStep
  BY <1>4, UiReturnsOK, MainWritesOK, MainWaitsOK, MainAwaitsTailOK, TearDownOK,
     JoinReadersOK DEF MainStep
<1>5. CASE UNCHANGED vars
  BY <1>5 DEF vars, ShutdownInv, ShutdownTypeOK, ClaimInv, LeaseInv, EndedInv, MainInv,
         QuitsInv, AdmittedQuitKeepsClaim, FsInv, is_forced_cause, Threads
<1> QED
  BY <1>1, <1>2, <1>3, <1>4, <1>5 DEF Next

\* The inductive invariant holds in every reachable state, and with it the type
\* invariant: every thread is at a step of its own code.
THEOREM ShutdownHolds == Spec => []ShutdownInv
  BY InitOK, NextOK, PTL DEF Spec

\* Every thread is at a step of its own code (ShutdownTypeOK).
THEOREM ShutdownTyped == Spec => []ShutdownTypeOK
<1>1. ShutdownInv => ShutdownTypeOK
  BY DEF ShutdownInv
<1> QED
  BY <1>1, ShutdownHolds, PTL

\* The tail of the session end runs once and under the claimed cause (OneTail):
\* begin_tail and the claim are one-shot, whoever reads the lease loss first.
THEOREM TailRunsOnce == Spec => []OneTail
<1>1. ShutdownInv => OneTail
  BY DEF ShutdownInv, ClaimInv, OneTail, InTail, QuitPcs, QuitTail, ForcedTail, ForcedPcs,
         is_forced_cause
<1> QED
  BY <1>1, ShutdownHolds, PTL

\* A Quit that lifecycle_quit admitted keeps its claim through its filesystem
\* drain: the handover's deadline does not overtake it (AdmittedQuitKeepsClaim).
THEOREM AdmissionHolds == Spec => []AdmittedQuitKeepsClaim
<1>1. ShutdownInv => AdmittedQuitKeepsClaim
  BY DEF ShutdownInv
<1> QED
  BY <1>1, ShutdownHolds, PTL

\* An application whose Quit was answered has had an answer to each of its
\* filesystem calls (FsRepliesPrecedeQuitReply).
THEOREM FsRepliesFirst == Spec => []FsRepliesPrecedeQuitReply
<1>1. ShutdownInv => FsRepliesPrecedeQuitReply
  BY DEF ShutdownInv, FsInv, FsRepliesPrecedeQuitReply
<1> QED
  BY <1>1, ShutdownHolds, PTL

\* request_handover and finish_tail send the UI loop one Quit between them
\* (LoopQuitsOnce).
THEOREM OneLoopQuit == Spec => []LoopQuitsOnce
<1>1. ShutdownInv => LoopQuitsOnce
  BY DEF ShutdownInv, QuitsInv, LoopQuitsOnce
<1> QED
  BY <1>1, ShutdownHolds, PTL

\* After a handover that ended the loop, stop_and_join runs only when the
\* session is claimed and no tail is under way (TeardownAfterTail).
THEOREM TeardownLast == Spec => []TeardownAfterTail
<1>1. ShutdownInv => TeardownAfterTail
  BY DEF ShutdownInv, MainInv, TeardownAfterTail, InTail, is_running, QuitPcs
<1> QED
  BY <1>1, ShutdownHolds, PTL

=============================================================================
