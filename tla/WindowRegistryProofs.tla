------------------------ MODULE WindowRegistryProofs ------------------------
(***************************************************************************)
(* Proofs about the window registry, for every number of owners,           *)
(* correlations, views and windows and every value of the limits.          *)
(*                                                                         *)
(* None of the safety invariants of WindowRegistry is inductive alone.     *)
(* RegistryInv is: EntryInv says what one entry may look like in     *)
(* each phase, and the other conjuncts relate entries to each other and to *)
(* the session.  Each operation changes one entry (UpdatePreserves), adds  *)
(* one (CreateBuilds) or maps over all (role_lost, subscribe_successor,    *)
(* session_end); the lemmas about Opened, Torn, Orphaned and the others    *)
(* carry the case analysis over the phases.                                *)
(***************************************************************************)
EXTENDS WindowRegistry, FiniteSetTheorems, SequenceTheorems, TLAPS

(* What a step may do to one entry; LifecycleOnlyForward for one window.   *)
Forward(e, f) ==
  /\ f.incarnation = e.incarnation
  /\ e.phase = "Closing" => f.phase \in {"Closing", "Destroyed"}
  /\ e.phase = "Destroyed" => f.phase = "Destroyed" /\ f.view = e.view
  /\ e.phase # "ClosePending" /\ f.phase = "ClosePending" => f.close_seq > e.last_close_seq
  /\ f.last_close_seq >= e.last_close_seq

-----------------------------------------------------------------------------
(* One entry.                                                              *)

\* The fields of a well-typed entry, one by one.
LEMMA EntryTypes ==
  ASSUME NEW e \in Entry
  PROVE  /\ e.last_close_seq \in Nat /\ e.close_seq \in Nat
         /\ e.destroy_calls \in Seq(PendingWindowCall)
         /\ e.phase \in Phases /\ Len(e.destroy_calls) \in Nat
  BY LimitsAssumption DEF Entry

\* Counters start inside their ranges, whatever the limits.
LEMMA ZeroInRange == 0 \in 0..CloseSeqLimit /\ 0 \in 0..DropLimit
  BY LimitsAssumption

\* An admitted call only spends the adoption mark.
LEMMA TouchedOK ==
  ASSUME NEW end \in BOOLEAN, NEW e, EntryInv(e, end)
  PROVE  LET f == Touched(e)
         IN  EntryInv(f, end) /\ Forward(e, f)
             /\ f.phase = e.phase /\ f.view = e.view /\ f.owner = e.owner
             /\ f.owner_live = e.owner_live /\ f.destroy_calls = e.destroy_calls /\ f.last_close_seq = e.last_close_seq
             /\ f.close_seq = e.close_seq /\ f.adoptable = FALSE
  <1>. DEFINE f == Touched(e)
  <1>1. e \in Entry
    BY DEF EntryInv
  <1>2. f \in Entry
    BY <1>1 DEF Touched, Entry
  <1>3. /\ f.phase = e.phase /\ f.call = e.call /\ f.view = e.view
        /\ f.state = e.state /\ f.owner = e.owner
        /\ f.owner_live = e.owner_live /\ f.adoptable = FALSE
        /\ f.destroy_calls = e.destroy_calls
        /\ f.incarnation = e.incarnation
        /\ f.last_close_seq = e.last_close_seq
        /\ f.close_seq = e.close_seq
    BY <1>1 DEF Touched, Entry
  <1>. HIDE DEF f
  <1>4. EntryInv(f, end)
    BY <1>1, <1>2, <1>3, EntryTypes DEF EntryInv, Shown
  <1>5. Forward(e, f)
    BY <1>1, <1>3, EntryTypes DEF Forward, EntryInv, Shown
  <1>. QED
    BY <1>3, <1>4, <1>5 DEF f

\* A window whose build succeeded is Open.
LEMMA OpenedOK ==
  ASSUME NEW end \in BOOLEAN, NEW e, EntryInv(e, end), NEW v \in Views, NEW s \in WindowStates,
         e.phase = "Opening"
  PROVE  LET f == Opened(e, v, s)
         IN  EntryInv(f, end) /\ Forward(e, f) /\ f.phase = "Open" /\ f.view = v
  <1>. DEFINE f == Opened(e, v, s)
  <1>1. e \in Entry
    BY DEF EntryInv
  <1>2. f \in Entry
    BY <1>1 DEF Opened, Entry, Phases
  <1>3. /\ f.phase = "Open" /\ f.call = None /\ f.view = v
        /\ f.state = s /\ f.owner = e.owner
        /\ f.owner_live = e.owner_live /\ f.adoptable = e.adoptable
        /\ f.destroy_calls = e.destroy_calls
        /\ f.incarnation = e.incarnation
        /\ f.last_close_seq = e.last_close_seq
        /\ f.close_seq = e.close_seq
    BY <1>1 DEF Opened, Entry
  <1>. HIDE DEF f
  <1>4. EntryInv(f, end)
    BY <1>1, <1>2, <1>3, EntryTypes, NoneAssumption DEF EntryInv, Shown
  <1>5. Forward(e, f)
    BY <1>1, <1>3, EntryTypes DEF Forward, EntryInv, Shown
  <1>. QED
    BY <1>3, <1>4, <1>5 DEF f

\* A build that outlived its window only records the view to tear down.
LEMMA BuiltLateOK ==
  ASSUME NEW end \in BOOLEAN, NEW e, EntryInv(e, end), NEW v \in Views, NEW s \in WindowStates,
         e.phase = "Closing",
         e.view = None
  PROVE  LET f == BuiltLate(e, v, s)
         IN  EntryInv(f, end) /\ Forward(e, f) /\ f.phase = "Closing" /\ f.view = v
  <1>. DEFINE f == BuiltLate(e, v, s)
  <1>1. e \in Entry
    BY DEF EntryInv
  <1>2. f \in Entry
    BY <1>1 DEF BuiltLate, Entry
  <1>3. /\ f.phase = e.phase /\ f.call = e.call /\ f.view = v
        /\ f.state = s /\ f.owner = e.owner
        /\ f.owner_live = e.owner_live /\ f.adoptable = e.adoptable
        /\ f.destroy_calls = e.destroy_calls
        /\ f.incarnation = e.incarnation
        /\ f.last_close_seq = e.last_close_seq
        /\ f.close_seq = e.close_seq
    BY <1>1 DEF BuiltLate, Entry
  <1>. HIDE DEF f
  <1>4. EntryInv(f, end)
    BY <1>1, <1>2, <1>3, EntryTypes, NoneAssumption DEF EntryInv, Shown
  <1>5. Forward(e, f)
    BY <1>1, <1>3, EntryTypes DEF Forward, EntryInv, Shown
  <1>. QED
    BY <1>3, <1>4, <1>5 DEF f

\* A build that failed leaves a tombstone.
LEMMA BuildLostOK ==
  ASSUME NEW end \in BOOLEAN, NEW e, EntryInv(e, end),
         e.phase = "Opening" \/ (e.phase = "Closing" /\ e.view = None)
  PROVE  LET f == BuildLost(e)
         IN  EntryInv(f, end) /\ Forward(e, f) /\ f.phase = "Destroyed" /\ f.view = e.view
  <1>. DEFINE f == BuildLost(e)
  <1>1. e \in Entry
    BY DEF EntryInv
  <1>2. f \in Entry
    BY <1>1 DEF BuildLost, Entry, Phases
  <1>3. /\ f.phase = "Destroyed" /\ f.call = None /\ f.view = e.view
        /\ f.state = e.state /\ f.owner = e.owner
        /\ f.owner_live = e.owner_live /\ f.adoptable = e.adoptable
        /\ f.destroy_calls = e.destroy_calls
        /\ f.incarnation = e.incarnation
        /\ f.last_close_seq = e.last_close_seq
        /\ f.close_seq = e.close_seq
    BY <1>1 DEF BuildLost, Entry
  <1>. HIDE DEF f
  <1>4. EntryInv(f, end)
    BY <1>1, <1>2, <1>3, EntryTypes DEF EntryInv, Shown
  <1>5. Forward(e, f)
    BY <1>1, <1>3, EntryTypes DEF Forward, EntryInv, Shown
  <1>. QED
    BY <1>3, <1>4, <1>5 DEF f

\* A close request has a number no request of the window had.
LEMMA CloseAskedOK ==
  ASSUME NEW end \in BOOLEAN, NEW e, EntryInv(e, end),
         e.phase = "Open",
         CloseSeqLeft(e)
  PROVE  LET f == CloseAsked(e)
         IN  EntryInv(f, end) /\ Forward(e, f) /\ f.phase = "ClosePending" /\ f.view = e.view
  <1>. DEFINE f == CloseAsked(e)
  <1>1. e \in Entry
    BY DEF EntryInv
  <1>0. e.last_close_seq + 1 \in 0..CloseSeqLimit
    BY <1>1, EntryTypes, LimitsAssumption DEF CloseSeqLeft
  <1>2. f \in Entry
    BY <1>1, <1>0 DEF CloseAsked, Entry, Phases, CloseSeqLeft
  <1>3. /\ f.phase = "ClosePending" /\ f.call = e.call
        /\ f.view = e.view /\ f.state = e.state /\ f.owner = e.owner
        /\ f.owner_live = e.owner_live /\ f.adoptable = e.adoptable
        /\ f.destroy_calls = e.destroy_calls
        /\ f.incarnation = e.incarnation
        /\ f.last_close_seq = e.last_close_seq + 1
        /\ f.close_seq = e.last_close_seq + 1
    BY <1>1 DEF CloseAsked, Entry
  <1>. HIDE DEF f
  <1>4. EntryInv(f, end)
    BY <1>1, <1>2, <1>3, EntryTypes DEF EntryInv, Shown
  <1>5. Forward(e, f)
    BY <1>1, <1>3, EntryTypes DEF Forward, EntryInv, Shown
  <1>. QED
    BY <1>3, <1>4, <1>5 DEF f

\* A vetoed close leaves the window Open.
LEMMA ReopenedOK ==
  ASSUME NEW end \in BOOLEAN, NEW e, EntryInv(e, end),
         e.phase = "ClosePending"
  PROVE  LET f == Reopened(e)
         IN  EntryInv(f, end) /\ Forward(e, f) /\ f.phase = "Open" /\ f.view = e.view
  <1>. DEFINE f == Reopened(e)
  <1>1. e \in Entry
    BY DEF EntryInv
  <1>2. f \in Entry
    BY <1>1, ZeroInRange DEF Reopened, Entry, Phases
  <1>3. /\ f.phase = "Open" /\ f.call = e.call /\ f.view = e.view
        /\ f.state = e.state /\ f.owner = e.owner
        /\ f.owner_live = e.owner_live /\ f.adoptable = e.adoptable
        /\ f.destroy_calls = e.destroy_calls
        /\ f.incarnation = e.incarnation
        /\ f.last_close_seq = e.last_close_seq /\ f.close_seq = 0
    BY <1>1 DEF Reopened, Entry
  <1>. HIDE DEF f
  <1>4. EntryInv(f, end)
    BY <1>1, <1>2, <1>3, EntryTypes DEF EntryInv, Shown
  <1>5. Forward(e, f)
    BY <1>1, <1>3, EntryTypes DEF Forward, EntryInv, Shown
  <1>. QED
    BY <1>3, <1>4, <1>5 DEF f

\* A shown window enters teardown with its view.
LEMMA TornOK ==
  ASSUME NEW end \in BOOLEAN, NEW e, EntryInv(e, end),
         Shown(e),
         ~e.adoptable
  PROVE  LET f == Torn(e)
         IN  EntryInv(f, end) /\ Forward(e, f) /\ f.phase = "Closing" /\ f.view = e.view
  <1>. DEFINE f == Torn(e)
  <1>1. e \in Entry
    BY DEF EntryInv
  <1>2. f \in Entry
    BY <1>1, ZeroInRange DEF Torn, Entry, Phases
  <1>3. /\ f.phase = "Closing" /\ f.call = None /\ f.view = e.view
        /\ f.state = e.state /\ f.owner = e.owner
        /\ f.owner_live = e.owner_live /\ f.adoptable = e.adoptable
        /\ f.destroy_calls = e.destroy_calls
        /\ f.incarnation = e.incarnation
        /\ f.last_close_seq = e.last_close_seq /\ f.close_seq = 0
    BY <1>1 DEF Torn, Entry
  <1>. HIDE DEF f
  <1>4. EntryInv(f, end)
    BY <1>1, <1>2, <1>3, EntryTypes, NoneAssumption DEF EntryInv, Shown
  <1>5. Forward(e, f)
    BY <1>1, <1>3, EntryTypes DEF Forward, EntryInv, Shown
  <1>. QED
    BY <1>3, <1>4, <1>5 DEF f

\* A released window is a tombstone with nothing parked.
LEMMA ReleasedOK ==
  ASSUME NEW end \in BOOLEAN, NEW e, EntryInv(e, end),
         e.phase = "Closing"
  PROVE  LET f == Released(e)
         IN  EntryInv(f, end) /\ Forward(e, f) /\ f.phase = "Destroyed" /\ f.view = e.view
  <1>. DEFINE f == Released(e)
  <1>1. e \in Entry
    BY DEF EntryInv
  <1>0. <<>> \in Seq(PendingWindowCall)
    BY EmptySeq
  <1>2. f \in Entry
    BY <1>1, ZeroInRange, <1>0 DEF Released, Entry, Phases
  <1>3. /\ f.phase = "Destroyed" /\ f.call = e.call /\ f.view = e.view
        /\ f.state = None /\ f.owner = e.owner
        /\ f.owner_live = e.owner_live /\ f.adoptable = FALSE
        /\ f.destroy_calls = <<>> /\ f.incarnation = e.incarnation
        /\ f.last_close_seq = e.last_close_seq
        /\ f.close_seq = e.close_seq
    BY <1>1 DEF Released, Entry
  <1>. HIDE DEF f
  <1>4. EntryInv(f, end)
    BY <1>1, <1>2, <1>3, EntryTypes, LimitsAssumption, EmptySeq DEF EntryInv, Shown
  <1>5. Forward(e, f)
    BY <1>1, <1>3, EntryTypes DEF Forward, EntryInv, Shown
  <1>. QED
    BY <1>3, <1>4, <1>5 DEF f

\* A native fact changes only the state of a shown window.
LEMMA FactUpdatedOK ==
  ASSUME NEW end \in BOOLEAN, NEW e, EntryInv(e, end), NEW a \in Attrs, NEW x \in Values,
         Shown(e)
  PROVE  LET f == [e EXCEPT !.state = [@ EXCEPT ![a] = x]]
         IN  EntryInv(f, end) /\ Forward(e, f) /\ f.phase = e.phase /\ f.view = e.view
  <1>. DEFINE f == [e EXCEPT !.state = [@ EXCEPT ![a] = x]]
  <1>1. e \in Entry
    BY DEF EntryInv
  <1>0. [e.state EXCEPT ![a] = x] \in WindowStates
    BY DEF EntryInv, WindowStates
  <1>2. f \in Entry
    BY <1>1, <1>0 DEF EntryInv, Entry
  <1>3. /\ f.phase = e.phase /\ f.call = e.call /\ f.view = e.view
        /\ f.state = [e.state EXCEPT ![a] = x] /\ f.owner = e.owner
        /\ f.owner_live = e.owner_live /\ f.adoptable = e.adoptable
        /\ f.destroy_calls = e.destroy_calls
        /\ f.incarnation = e.incarnation
        /\ f.last_close_seq = e.last_close_seq
        /\ f.close_seq = e.close_seq
    BY <1>1 DEF EntryInv, Entry
  <1>. HIDE DEF f
  <1>4. EntryInv(f, end)
    BY <1>1, <1>2, <1>3, EntryTypes, <1>0 DEF EntryInv, Shown
  <1>5. Forward(e, f)
    BY <1>1, <1>3, EntryTypes DEF Forward, EntryInv, Shown
  <1>. QED
    BY <1>3, <1>4, <1>5 DEF f

\* A fact for a window in teardown is only counted.
LEMMA FactDroppedOK ==
  ASSUME NEW end \in BOOLEAN, NEW e, EntryInv(e, end)
  PROVE  LET f == [e EXCEPT !.dropped = SaturatingInc(@)]
         IN  EntryInv(f, end) /\ Forward(e, f) /\ f.phase = e.phase /\ f.view = e.view
  <1>. DEFINE f == [e EXCEPT !.dropped = SaturatingInc(@)]
  <1>1. e \in Entry
    BY DEF EntryInv
  <1>0. SaturatingInc(e.dropped) \in 0..DropLimit
    BY <1>1, LimitsAssumption DEF SaturatingInc, Entry
  <1>2. f \in Entry
    BY <1>1, <1>0 DEF EntryInv, Entry
  <1>3. /\ f.phase = e.phase /\ f.call = e.call /\ f.view = e.view
        /\ f.state = e.state /\ f.owner = e.owner
        /\ f.owner_live = e.owner_live /\ f.adoptable = e.adoptable
        /\ f.destroy_calls = e.destroy_calls
        /\ f.incarnation = e.incarnation
        /\ f.last_close_seq = e.last_close_seq
        /\ f.close_seq = e.close_seq
    BY <1>1 DEF EntryInv, Entry
  <1>. HIDE DEF f
  <1>4. EntryInv(f, end)
    BY <1>1, <1>2, <1>3, EntryTypes DEF EntryInv, Shown
  <1>5. Forward(e, f)
    BY <1>1, <1>3, EntryTypes DEF Forward, EntryInv, Shown
  <1>. QED
    BY <1>3, <1>4, <1>5 DEF f

\* A successor takes over a shown window.
LEMMA InheritedOK ==
  ASSUME NEW end \in BOOLEAN, NEW e, EntryInv(e, end), NEW o \in Owners,
         Shown(e),
         ~e.owner_live
  PROVE  LET f == Inherited(e, o)
         IN  EntryInv(f, end) /\ Forward(e, f) /\ f.phase = e.phase /\ f.view = e.view
  <1>. DEFINE f == Inherited(e, o)
  <1>1. e \in Entry
    BY DEF EntryInv
  <1>2. f \in Entry
    BY <1>1 DEF Inherited, Entry
  <1>3. /\ f.phase = e.phase /\ f.call = e.call /\ f.view = e.view
        /\ f.state = e.state /\ f.owner = o /\ f.owner_live = TRUE
        /\ f.adoptable = (e.phase = "Open")
        /\ f.destroy_calls = e.destroy_calls
        /\ f.incarnation = e.incarnation
        /\ f.last_close_seq = e.last_close_seq
        /\ f.close_seq = e.close_seq
    BY <1>1 DEF Inherited, Entry
  <1>. HIDE DEF f
  <1>4. EntryInv(f, end)
    BY <1>1, <1>2, <1>3, EntryTypes DEF EntryInv, Shown
  <1>5. Forward(e, f)
    BY <1>1, <1>3, EntryTypes DEF Forward, EntryInv, Shown
  <1>. QED
    BY <1>3, <1>4, <1>5 DEF f

\* A parked Destroy waits on a window whose view is in teardown.
LEMMA DestroyWaitingOK ==
  ASSUME NEW e, EntryInv(e, FALSE), NEW c \in Correlations,
         e.phase # "Opening", e.phase # "Destroyed", e.owner_live, ~e.adoptable,
         Len(e.destroy_calls) < MAX_PENDING_DESTROYS_PER_WINDOW
  PROVE  LET d == DestroyWaiting(e, [owner |-> e.owner, correlation |-> c])
             f == IF Shown(d) THEN Torn(d) ELSE d
         IN  EntryInv(f, FALSE) /\ Forward(e, f) /\ f.phase = "Closing" /\ f.view = e.view
  <1>. DEFINE call == [owner |-> e.owner, correlation |-> c]
              calls == Append(e.destroy_calls, call)
              d == DestroyWaiting(e, call)
              f == IF Shown(d) THEN Torn(d) ELSE d
  <1>1. e \in Entry
    BY DEF EntryInv
  <1>2. call \in PendingWindowCall
    BY <1>1 DEF Entry, PendingWindowCall
  <1>3. /\ calls \in Seq(PendingWindowCall) /\ calls # <<>>
        /\ Len(calls) = Len(e.destroy_calls) + 1
        /\ \A k \in 1..Len(calls) : calls[k].owner = e.owner
    <2>1. e.destroy_calls \in Seq(PendingWindowCall) /\ Len(e.destroy_calls) \in Nat
      BY <1>1, EntryTypes
    <2>2. \A k \in 1..Len(e.destroy_calls) : e.destroy_calls[k].owner = e.owner
      BY <2>1 DEF EntryInv
    <2>3. /\ calls \in Seq(PendingWindowCall) /\ calls # <<>>
          /\ Len(calls) = Len(e.destroy_calls) + 1
          /\ \A k \in 1..Len(e.destroy_calls) : calls[k] = e.destroy_calls[k]
          /\ calls[Len(e.destroy_calls) + 1] = call
      BY <1>2, <2>1, AppendProperties
    <2>. QED
      BY <2>1, <2>2, <2>3
  <1>. HIDE DEF calls
  <1>4. d \in Entry
    BY <1>1, <1>3 DEF DestroyWaiting, Entry, calls
  <1>5. /\ d.phase = e.phase /\ d.view = e.view /\ d.owner = e.owner
        /\ d.owner_live = e.owner_live /\ d.adoptable = e.adoptable
        /\ d.destroy_calls = calls /\ d.incarnation = e.incarnation
        /\ d.last_close_seq = e.last_close_seq
    BY <1>1 DEF DestroyWaiting, Entry, calls
  <1>. HIDE DEF d
  <1>6. f \in Entry
    BY <1>4, ZeroInRange DEF Torn, Entry, Phases
  <1>7. /\ f.phase = "Closing" /\ f.view = d.view /\ f.owner = d.owner
        /\ f.owner_live = d.owner_live /\ f.adoptable = d.adoptable
        /\ f.destroy_calls = d.destroy_calls /\ f.incarnation = d.incarnation
        /\ f.last_close_seq = d.last_close_seq
    <2>1. Shown(d) \/ d.phase = "Closing"
      BY <1>1, <1>5, EntryTypes DEF Phases, Shown
    <2>. QED
      BY <1>4, <2>1 DEF Torn, Entry, Shown
  <1>8. f.view # None
    BY <1>5, <1>7, NoneAssumption, <1>1, EntryTypes DEF EntryInv, Shown, Phases
  <1>. HIDE DEF f
  <1>9. EntryInv(f, FALSE)
    BY <1>1, <1>3, <1>5, <1>6, <1>7, <1>8, EntryTypes, LimitsAssumption DEF EntryInv, Shown
  <1>10. Forward(e, f)
    BY <1>1, <1>5, <1>7, EntryTypes DEF Forward
  <1>. QED
    BY <1>5, <1>7, <1>9, <1>10 DEF f, d, call

\* A lost owner's window keeps its view but none of its calls; a build it
\* still waits for will only be cleaned up.
LEMMA OrphanedOK ==
  ASSUME NEW end \in BOOLEAN, NEW e, EntryInv(e, end)
  PROVE  LET f == Orphaned(e)
         IN  EntryInv(f, end) /\ Forward(e, f) /\ f.view = e.view
  <1>. DEFINE f == Orphaned(e)
              lost == [e EXCEPT !.owner_live = FALSE, !.adoptable = FALSE,
                                !.destroy_calls = <<>>]
  <1>1. e \in Entry
    BY DEF EntryInv
  <1>2. <<>> \in Seq(PendingWindowCall) /\ Len(<<>>) = 0
    BY EmptySeq
  <1>3. lost \in Entry
    BY <1>1, <1>2 DEF Entry
  <1>4. /\ lost.phase = e.phase /\ lost.view = e.view /\ lost.state = e.state
        /\ lost.owner_live = FALSE /\ lost.adoptable = FALSE
        /\ lost.destroy_calls = <<>> /\ lost.incarnation = e.incarnation
        /\ lost.last_close_seq = e.last_close_seq
    BY <1>1 DEF Entry
  <1>5. f = IF e.phase = "Opening" THEN Torn(lost)
            ELSE IF e.phase = "ClosePending" THEN Reopened(lost) ELSE lost
    BY DEF Orphaned
  <1>. HIDE DEF f, lost
  <1>6. f \in Entry
    <2>1. Torn(lost) \in Entry
      BY <1>3, ZeroInRange DEF Torn, Entry, Phases
    <2>2. Reopened(lost) \in Entry
      BY <1>3, ZeroInRange DEF Reopened, Entry, Phases
    <2>. QED
      BY <1>3, <1>5, <2>1, <2>2
  <1>7. /\ f.phase = IF e.phase = "Opening" THEN "Closing"
                     ELSE IF e.phase = "ClosePending" THEN "Open" ELSE e.phase
        /\ f.view = e.view /\ f.state = e.state /\ f.owner_live = FALSE
        /\ f.adoptable = FALSE /\ f.destroy_calls = <<>>
        /\ f.incarnation = e.incarnation /\ f.last_close_seq = e.last_close_seq
    BY <1>3, <1>4, <1>5 DEF Torn, Reopened, Entry
  <1>8. EntryInv(f, end)
    BY <1>1, <1>2, <1>6, <1>7, EntryTypes, LimitsAssumption DEF EntryInv, Shown, Phases
  <1>9. Forward(e, f)
    BY <1>1, <1>7, EntryTypes DEF Forward
  <1>. QED
    BY <1>7, <1>8, <1>9 DEF f

\* The session end leaves every window in teardown or gone.
LEMMA EndedOK ==
  ASSUME NEW end \in BOOLEAN, NEW e, EntryInv(e, end)
  PROVE  LET f == Ended(e)
         IN  EntryInv(f, TRUE) /\ Forward(e, f) /\ f.view = e.view
  <1>. DEFINE f == Ended(e)
              t == Touched(e)
  <1>1. e \in Entry
    BY DEF EntryInv
  <1>2. /\ t \in Entry /\ EntryInv(t, end)
        /\ t.phase = e.phase /\ t.view = e.view /\ t.adoptable = FALSE
        /\ t.destroy_calls = e.destroy_calls /\ t.owner = e.owner
        /\ t.owner_live = e.owner_live /\ t.last_close_seq = e.last_close_seq
        /\ t.incarnation = e.incarnation
    BY TouchedOK DEF EntryInv, Forward
  <1>3. f = IF e.phase \in {"Opening", "Open", "ClosePending"} THEN Torn(t) ELSE t
    BY DEF Ended
  <1>. HIDE DEF f, t
  <1>4. f \in Entry
    BY <1>2, <1>3, ZeroInRange DEF Torn, Entry, Phases
  <1>5. /\ f.phase = IF e.phase \in {"Opening", "Open", "ClosePending"}
                     THEN "Closing" ELSE e.phase
        /\ f.view = t.view /\ f.adoptable = FALSE /\ f.owner = t.owner
        /\ f.destroy_calls = t.destroy_calls /\ f.owner_live = t.owner_live
        /\ f.incarnation = t.incarnation /\ f.last_close_seq = t.last_close_seq
    BY <1>2, <1>3 DEF Torn, Entry
  <1>6. EntryInv(f, TRUE)
    BY <1>1, <1>2, <1>4, <1>5, EntryTypes DEF EntryInv, Shown, Phases
  <1>7. Forward(e, f)
    BY <1>1, <1>2, <1>5, EntryTypes DEF Forward
  <1>. QED
    BY <1>2, <1>5, <1>6, <1>7 DEF f

\* A new window waits for its build and for nothing else.
LEMMA NewEntryOK ==
  ASSUME NEW o \in Owners, NEW c \in Correlations, NEW n \in 1..IncarnationLimit
  PROVE  LET f == NewEntry(o, c, n)
         IN  /\ EntryInv(f, FALSE) /\ f.phase = "Opening"
             /\ f.view = None /\ f.incarnation = n
  <1>. DEFINE f == NewEntry(o, c, n)
  <1>1. <<>> \in Seq(PendingWindowCall) /\ Len(<<>>) = 0
    BY EmptySeq
  <1>2. [owner |-> o, correlation |-> c] \in PendingWindowCall
    BY DEF PendingWindowCall
  <1>3. f \in Entry
    BY <1>1, <1>2, ZeroInRange DEF NewEntry, Entry, Phases
  <1>4. /\ f.phase = "Opening" /\ f.call = [owner |-> o, correlation |-> c]
        /\ f.view = None /\ f.owner = o /\ f.owner_live = TRUE /\ f.adoptable = FALSE
        /\ f.destroy_calls = <<>> /\ f.incarnation = n
    BY DEF NewEntry
  <1>. HIDE DEF f
  <1>5. EntryInv(f, FALSE)
    BY <1>1, <1>2, <1>3, <1>4, LimitsAssumption DEF EntryInv, Shown
  <1>. QED
    BY <1>4, <1>5 DEF f

-----------------------------------------------------------------------------
(* One step.                                                               *)

(* A step keeps the invariant and moves every window forward.              *)
StepOK ==
  /\ RegistryInv'
  /\ \A j \in 1..last_id : j \in DOMAIN entries' /\ Forward(entries[j], entries'[j])

\* The shape the invariant gives the table: one entry per identity handed out.
LEMMA InvFacts ==
  ASSUME RegistryInv
  PROVE  /\ entries \in [1..last_id -> Entry] /\ DOMAIN entries = 1..last_id
         /\ ending \in BOOLEAN /\ ready \in BOOLEAN /\ deferred_last_window \in BOOLEAN
         /\ last_id \in Nat /\ last_id \in 0..IdLimit
         /\ destroyed_fact_drops \in 0..DropLimit
         /\ \A i \in 1..last_id : entries[i].phase \in Phases
  BY LimitsAssumption, EntryTypes DEF RegistryInv, RegistryTypeOK

\* An entry that does not move is a legal successor of itself.
LEMMA ForwardRefl ==
  ASSUME NEW e \in Entry
  PROVE  Forward(e, e)
  BY EntryTypes DEF Forward

\* A step that replaces one entry by a legal successor, with the same or a
\* fresh view, is a legal step.
LEMMA UpdatePreserves ==
  ASSUME RegistryInv, NEW i \in 1..last_id, NEW f,
         EntryInv(f, ending), Forward(entries[i], f), SetEntry(i, f),
         f.view = entries[i].view \/ WithView(f.view) = {},
         deferred_last_window' \in BOOLEAN, DeferralWaitsForABuild'
  PROVE  StepOK
  <1>1. /\ entries \in [1..last_id -> Entry] /\ f \in Entry
        /\ entries' = [entries EXCEPT ![i] = f]
        /\ UNCHANGED <<ready, ending, last_id, last_incarnation, destroyed_fact_drops>>
    BY DEF RegistryInv, RegistryTypeOK, EntryInv, SetEntry
  <1>2. entries' \in [1..last_id' -> Entry]
    BY <1>1
  <1>3. RegistryTypeOK'
    BY <1>1, <1>2 DEF RegistryInv, RegistryTypeOK
  <1>4. \A j \in 1..last_id : entries'[j] = IF j = i THEN f ELSE entries[j]
    BY <1>1
  <1>5. \A j \in 1..last_id' : EntryInv(entries'[j], ending') /\ entries'[j].incarnation = j
    BY <1>1, <1>4 DEF RegistryInv, Forward
  <1>6. ViewsDistinct'
    <2>1. \A j \in 1..last_id : entries[j].view = f.view => f.view = None \/ j = i
      BY <1>1 DEF RegistryInv, ViewsDistinct, WithView
    <2>. QED
      BY <1>1, <1>4, <2>1 DEF RegistryInv, ViewsDistinct
  <1>7. \A j \in 1..last_id : j \in DOMAIN entries' /\ Forward(entries[j], entries'[j])
    BY <1>1, <1>2, <1>4, ForwardRefl
  <1>. QED
    BY <1>1, <1>3, <1>5, <1>6, <1>7 DEF RegistryInv, StepOK

\* Such a step leaves the deferred check alone when the entry keeps its phase,
\* or when it is in a phase beside which nothing is deferred.
LEMMA QuietUpdate ==
  ASSUME RegistryInv, NEW i \in 1..last_id, NEW f,
         EntryInv(f, ending), Forward(entries[i], f), SetEntry(i, f),
         f.view = entries[i].view \/ WithView(f.view) = {},
         UNCHANGED deferred_last_window,
         f.phase = entries[i].phase \/ entries[i].phase \notin {"Opening", "Destroyed"}
  PROVE  StepOK
  <1>1. DeferralWaitsForABuild'
    <2>1. /\ DOMAIN entries = 1..last_id /\ DOMAIN entries' = 1..last_id
          /\ \A j \in 1..last_id : entries'[j] = IF j = i THEN f ELSE entries[j]
          /\ ending' = ending
      BY InvFacts DEF SetEntry
    <2>2. deferred_last_window =>
            ~ending /\ only_opening_windows(entries) /\ f.phase = entries[i].phase
      BY <2>1 DEF RegistryInv, DeferralWaitsForABuild, only_opening_windows
    <2>. QED
      BY <2>1, <2>2 DEF DeferralWaitsForABuild, only_opening_windows
  <1>. QED
    BY <1>1, UpdatePreserves, InvFacts

\* An admitted call names a live window of its own, in a session that serves.
LEMMA AdmittedOK ==
  ASSUME RegistryInv, NEW o, NEW w \in WindowRef, Admitted(o, w)
  PROVE  /\ w.id \in 1..last_id /\ ~ending
         /\ EntryInv(entries[w.id], ending) /\ EntryInv(entries[w.id], FALSE)
         /\ entries[w.id].owner = o /\ entries[w.id].owner_live
         /\ entries[w.id].phase # "Destroyed"
  <1>1. /\ require_ready /\ w.id \in DOMAIN entries
        /\ entries[w.id].owner = o /\ entries[w.id].owner_live
        /\ entries[w.id].phase # "Destroyed"
    BY DEF Admitted, admitted_entry
  <1>2. ~ending /\ w.id \in 1..last_id
    BY <1>1, InvFacts DEF require_ready
  <1>3. ending = FALSE
    BY <1>2, InvFacts
  <1>. QED
    BY <1>1, <1>2, <1>3 DEF RegistryInv

\* An update of an admitted call's window by a successor of its touched entry.
LEMMA AdmittedUpdate ==
  ASSUME RegistryInv, NEW o, NEW w \in WindowRef, Admitted(o, w), NEW f,
         EntryInv(f, FALSE), Forward(Touched(entries[w.id]), f),
         f.view = entries[w.id].view,
         f.phase = entries[w.id].phase \/ entries[w.id].phase # "Opening",
         SetEntry(w.id, f), UNCHANGED deferred_last_window
  PROVE  StepOK
  <1>. DEFINE e == entries[w.id]
              t == Touched(e)
  <1>1. /\ w.id \in 1..last_id /\ ending = FALSE /\ EntryInv(e, FALSE)
        /\ e.phase # "Destroyed"
    BY AdmittedOK, InvFacts
  <1>2. /\ t.phase = e.phase /\ t.view = e.view /\ t.incarnation = e.incarnation
        /\ t.last_close_seq = e.last_close_seq
    BY <1>1, TouchedOK DEF Forward
  <1>3. Forward(e, f)
    BY <1>2 DEF Forward
  <1>. QED
    BY <1>1, <1>3, QuietUpdate

\* create adopting a surviving window.
LEMMA CreateAdoptsOK ==
  ASSUME RegistryInv, NEW o \in Owners, NEW i \in DOMAIN entries, CreateAdopts(o, i)
  PROVE  StepOK
  <1>1. i \in 1..last_id /\ ending \in BOOLEAN /\ EntryInv(entries[i], ending)
    BY InvFacts DEF RegistryInv
  <1>. QED
    BY <1>1, TouchedOK, QuietUpdate DEF CreateAdopts

\* create starting a build: the one step that adds an entry.
LEMMA CreateBuildsOK ==
  ASSUME RegistryInv, NEW o \in Owners, NEW c \in Correlations, CreateBuilds(o, c)
  PROVE  StepOK
  <1>. DEFINE n == last_id + 1
              f == NewEntry(o, c, n)
  <1>1. /\ DOMAIN entries = 1..last_id /\ entries \in [1..last_id -> Entry]
        /\ last_id \in Nat /\ ending = FALSE /\ last_incarnation = last_id
    BY InvFacts DEF RegistryInv, CreateBuilds, require_ready
  <1>2. Cardinality(DOMAIN entries) = last_id
    BY <1>1, FS_Interval
  <1>3. /\ n <= IdLimit /\ n <= IncarnationLimit
        /\ n <= PROPOSED_MAX_CUMULATIVE_WINDOW_IDS
    BY <1>1, <1>2, LimitsAssumption DEF CreateBuilds, create_error
  <1>4. n \in 1..IncarnationLimit /\ n \in 0..IdLimit /\ n \in 0..IncarnationLimit
    BY <1>1, <1>3, LimitsAssumption
  <1>5. /\ EntryInv(f, FALSE) /\ f \in Entry /\ f.phase = "Opening"
        /\ f.view = None /\ f.incarnation = n
    BY <1>4, NewEntryOK DEF EntryInv
  <1>. HIDE DEF f
  <1>6. /\ last_id' = n /\ last_incarnation' = n
        /\ entries' = [i \in 1..n |-> IF i = n THEN f ELSE entries[i]]
        /\ UNCHANGED <<ready, ending, deferred_last_window, destroyed_fact_drops>>
    <2>1. (DOMAIN entries) \cup {n} = 1..n
      BY <1>1
    <2>. QED
      BY <1>1, <2>1 DEF CreateBuilds, f
  <1>7. entries' \in [1..last_id' -> Entry]
    BY <1>1, <1>5, <1>6
  <1>8. RegistryTypeOK'
    BY <1>4, <1>6, <1>7 DEF RegistryInv, RegistryTypeOK
  <1>9. /\ \A i \in 1..last_id : i \in 1..n /\ i # n /\ entries'[i] = entries[i]
        /\ n \in 1..n /\ entries'[n] = f
        /\ \A i \in 1..n : i # n => i \in 1..last_id
    BY <1>1, <1>6
  <1>10. \A i \in 1..n : EntryInv(entries'[i], FALSE) /\ entries'[i].incarnation = i
    BY <1>1, <1>5, <1>9 DEF RegistryInv
  <1>11. ViewsDistinct'
    BY <1>5, <1>6, <1>9 DEF RegistryInv, ViewsDistinct
  <1>12. DeferralWaitsForABuild'
    BY <1>1, <1>5, <1>6, <1>9 DEF RegistryInv, DeferralWaitsForABuild, only_opening_windows
  <1>13. \A j \in 1..last_id : j \in DOMAIN entries' /\ Forward(entries[j], entries'[j])
    BY <1>1, <1>6, <1>9, ForwardRefl
  <1>. QED
    BY <1>1, <1>3, <1>6, <1>8, <1>10, <1>11, <1>12, <1>13 DEF RegistryInv, StepOK

\* An admitted setter.
LEMMA SetterOK ==
  ASSUME RegistryInv, NEW o \in Owners, NEW w \in WindowRef,
         Admitted(o, w), SetEntry(w.id, Touched(entries[w.id])),
         UNCHANGED deferred_last_window
  PROVE  StepOK
  <1>1. EntryInv(entries[w.id], FALSE)
    BY AdmittedOK
  <1>2. LET t == Touched(entries[w.id])
        IN  EntryInv(t, FALSE) /\ t.view = entries[w.id].view /\ t.phase = entries[w.id].phase
    BY <1>1, TouchedOK
  <1>3. Touched(entries[w.id]) \in Entry
    BY <1>2 DEF EntryInv
  <1>. QED
    BY <1>2, <1>3, ForwardRefl, AdmittedUpdate

\* An admitted close request.
LEMMA RequestCloseOK ==
  ASSUME RegistryInv, NEW o \in Owners, NEW w \in WindowRef, RequestClose(o, w)
  PROVE  StepOK
  <1>. DEFINE e == entries[w.id]
              t == Touched(e)
  <1>1. Admitted(o, w) /\ EntryInv(e, FALSE) /\ e.phase = "Open" /\ CloseSeqLeft(e)
    BY AdmittedOK DEF RequestClose
  <1>2. EntryInv(t, FALSE) /\ t.phase = "Open" /\ CloseSeqLeft(t) /\ t.view = e.view
    BY <1>1, TouchedOK DEF CloseSeqLeft
  <1>3. LET f == CloseAsked(t) IN EntryInv(f, FALSE) /\ Forward(t, f) /\ f.view = e.view
    BY <1>2, CloseAskedOK
  <1>. QED
    BY <1>1, <1>3, AdmittedUpdate DEF RequestClose

\* The role's answer to a close request.
LEMMA CloseReplyOK ==
  ASSUME RegistryInv, NEW o \in Owners, NEW w \in WindowRef,
         NEW seq, NEW verdict, CloseReply(o, w, seq, verdict)
  PROVE  StepOK
  <1>. DEFINE e == entries[w.id]
              t == Touched(e)
  <1>1. Admitted(o, w) /\ EntryInv(e, FALSE) /\ UNCHANGED deferred_last_window
    BY AdmittedOK DEF CloseReply
  <1>2. /\ EntryInv(t, FALSE) /\ t.phase = e.phase /\ t.view = e.view /\ ~t.adoptable
    BY <1>1, TouchedOK
  <1>3. CASE ~ReplyIsCurrent(w, seq)
    BY <1>1, <1>3, SetterOK DEF CloseReply
  <1>4. CASE ReplyIsCurrent(w, seq) /\ verdict = "Veto"
    <2>1. LET f == Reopened(t)
          IN  EntryInv(f, FALSE) /\ Forward(t, f) /\ f.view = e.view /\ SetEntry(w.id, f)
      BY <1>2, <1>4, ReopenedOK DEF CloseReply, ReplyIsCurrent
    <2>. QED
      BY <1>1, <1>4, <2>1, AdmittedUpdate DEF ReplyIsCurrent
  <1>5. CASE ReplyIsCurrent(w, seq) /\ verdict # "Veto"
    <2>1. LET f == Torn(t)
          IN  EntryInv(f, FALSE) /\ Forward(t, f) /\ f.view = e.view /\ SetEntry(w.id, f)
      BY <1>2, <1>5, TornOK DEF CloseReply, ReplyIsCurrent, Shown
    <2>. QED
      BY <1>1, <1>5, <2>1, AdmittedUpdate DEF ReplyIsCurrent
  <1>. QED
    BY <1>3, <1>4, <1>5

\* An admitted destroy, first or parked.
LEMMA DestroyOK ==
  ASSUME RegistryInv, NEW o \in Owners, NEW w \in WindowRef, NEW c \in Correlations,
         Destroy(o, w, c)
  PROVE  StepOK
  <1>. DEFINE e == entries[w.id]
              t == Touched(e)
              d == DestroyWaiting(t, [owner |-> o, correlation |-> c])
              f == IF Shown(d) THEN Torn(d) ELSE d
  <1>1. /\ Admitted(o, w) /\ EntryInv(e, FALSE) /\ e.owner = o /\ e.owner_live
        /\ e.phase # "Destroyed" /\ UNCHANGED deferred_last_window
    BY AdmittedOK DEF Destroy
  <1>2. /\ EntryInv(t, FALSE) /\ t.phase = e.phase /\ t.view = e.view /\ ~t.adoptable
        /\ t.owner = o /\ t.owner_live /\ t.destroy_calls = e.destroy_calls
    BY <1>1, TouchedOK
  <1>3. e.phase # "Opening" /\ Len(e.destroy_calls) < MAX_PENDING_DESTROYS_PER_WINDOW
    <2>1. /\ ~(Len(e.destroy_calls) >= MAX_PENDING_DESTROYS_PER_WINDOW)
          /\ e.phase # "Opening"
      BY DEF Destroy, destroy_error
    <2>2. Len(e.destroy_calls) \in Nat
      BY <1>1, EntryTypes DEF EntryInv
    <2>. QED
      BY <2>1, <2>2, LimitsAssumption
  <1>. HIDE DEF t
  <1>4. EntryInv(f, FALSE) /\ Forward(t, f) /\ f.view = e.view
    BY <1>1, <1>2, <1>3, DestroyWaitingOK
  <1>5. SetEntry(w.id, f)
    BY DEF Destroy, t
  <1>. HIDE DEF f
  <1>. QED
    BY <1>1, <1>3, <1>4, <1>5, AdmittedUpdate DEF t

\* Every call of the application role.
LEMMA AppCallOK ==
  ASSUME RegistryInv, NEW o \in Owners, AppCall(o)
  PROVE  StepOK
  <1>1. CASE \E i \in DOMAIN entries : CreateAdopts(o, i)
    BY <1>1, CreateAdoptsOK
  <1>2. CASE \E c \in Correlations : ~has_pending_call(o, c) /\ CreateBuilds(o, c)
    BY <1>2, CreateBuildsOK
  <1>3. ASSUME NEW w \in WindowRef,
               Setter(o, w) \/ RequestCloseIdle(o, w) \/ DestroyRefused(o, w)
        PROVE  StepOK
    BY <1>3, SetterOK DEF Setter, RequestCloseIdle, DestroyRefused
  <1>4. ASSUME NEW w \in WindowRef, RequestClose(o, w)
        PROVE  StepOK
    BY <1>4, RequestCloseOK
  <1>5. ASSUME NEW w \in WindowRef, NEW seq, NEW d, CloseReply(o, w, seq, d)
        PROVE  StepOK
    BY <1>5, CloseReplyOK
  <1>6. ASSUME NEW w \in WindowRef, NEW c \in Correlations, Destroy(o, w, c)
        PROVE  StepOK
    BY <1>6, DestroyOK
  <1>. QED
    BY <1>1, <1>2, <1>3, <1>4, <1>5, <1>6 DEF AppCall

\* A build that comes back to a window still waiting for it.
LEMMA BuiltCreatesOK ==
  ASSUME RegistryInv, NEW i \in DOMAIN entries, NEW build,
         NEW v \in Views, NEW s \in WindowStates,
         WithView(v) = {}, BuiltCreates(i, build, v, s)
  PROVE  StepOK
  <1>1. /\ i \in 1..last_id /\ ending \in BOOLEAN /\ EntryInv(entries[i], ending)
        /\ entries[i].phase = "Opening"
    BY InvFacts DEF RegistryInv, BuiltCreates
  <1>2. LET f == Opened(entries[i], v, s)
        IN  EntryInv(f, ending) /\ Forward(entries[i], f) /\ f.view = v
    BY <1>1, OpenedOK
  <1>3. DeferralWaitsForABuild' /\ deferred_last_window' \in BOOLEAN
    BY DEF DeferralWaitsForABuild, BuiltCreates
  <1>. QED
    BY <1>1, <1>2, <1>3, UpdatePreserves DEF BuiltCreates

\* A build that comes back to a window already in teardown.
LEMMA BuiltCleansUpOK ==
  ASSUME RegistryInv, NEW i \in DOMAIN entries, NEW build,
         NEW v \in Views, NEW s \in WindowStates,
         WithView(v) = {}, BuiltCleansUp(i, build, v, s)
  PROVE  StepOK
  <1>1. /\ i \in 1..last_id /\ ending \in BOOLEAN /\ EntryInv(entries[i], ending)
        /\ entries[i].phase = "Closing" /\ entries[i].view = None
    BY InvFacts DEF RegistryInv, BuiltCleansUp
  <1>2. LET f == BuiltLate(entries[i], v, s)
        IN  /\ EntryInv(f, ending) /\ Forward(entries[i], f)
            /\ f.view = v /\ f.phase = "Closing"
    BY <1>1, BuiltLateOK
  <1>. QED
    BY <1>1, <1>2, QuietUpdate DEF BuiltCleansUp

\* A failed build, which may settle the deferred check.
LEMMA BuildFailsOK ==
  ASSUME RegistryInv, NEW i \in DOMAIN entries, NEW build, BuildFails(i, build)
  PROVE  StepOK
  <1>. DEFINE e == entries[i]
              f == BuildLost(e)
  <1>0. /\ e.phase = "Opening" \/ (e.phase = "Closing" /\ e.view = None)
        /\ SetEntry(i, f)
        /\ deferred_last_window' \in BOOLEAN
        /\ deferred_last_window' => deferred_last_window /\ ~FailureIsLast(i)
    <2>1. e.phase = "Opening" \/ (e.phase = "Closing" /\ e.view = None)
      BY Zenon DEF BuildFails
    <2>2. SetEntry(i, f)
      BY Zenon DEF BuildFails
    <2>3. deferred_last_window' = (deferred_last_window /\ ~FailureIsLast(i))
      BY Zenon DEF BuildFails
    <2>4. /\ deferred_last_window' \in BOOLEAN
          /\ deferred_last_window' => deferred_last_window /\ ~FailureIsLast(i)
      BY <2>3
    <2>. QED
      BY Zenon, <2>1, <2>2, <2>4
  <1>1. /\ i \in 1..last_id /\ ending \in BOOLEAN /\ EntryInv(e, ending)
        /\ deferred_last_window \in BOOLEAN
    BY InvFacts DEF RegistryInv
  <1>2. /\ EntryInv(f, ending) /\ Forward(e, f) /\ f.view = e.view
        /\ f.phase = "Destroyed"
    BY <1>0, <1>1, BuildLostOK
  <1>. HIDE DEF f
  <1>3. /\ DOMAIN entries = 1..last_id /\ DOMAIN entries' = 1..last_id
        /\ \A j \in 1..last_id : entries'[j] = IF j = i THEN f ELSE entries[j]
        /\ ending' = ending
    BY <1>0, <1>1, InvFacts DEF SetEntry
  <1>4. ASSUME deferred_last_window'
        PROVE  ~ending /\ only_opening_windows(entries')
    <2>1. ~ending /\ only_opening_windows(entries) /\ ~FailureIsLast(i)
      BY <1>0, <1>1, <1>4 DEF RegistryInv, DeferralWaitsForABuild
    <2>2. e.phase = "Opening"
      BY <1>0, <1>1, <1>3, <2>1 DEF only_opening_windows
    <2>3. FailedCall(i) # None
      BY <1>0, <1>1, <2>1, <2>2, NoneAssumption DEF FailedCall, EntryInv, PendingWindowCall
    <2>4. PICK j \in (DOMAIN entries) \ {i} : entries[j].phase # "Destroyed"
      BY <1>0, <1>1, <1>4, <2>1, <2>3 DEF FailureIsLast
    <2>5. entries[j].phase = "Opening"
      BY <2>1, <2>4 DEF only_opening_windows
    <2>. QED
      BY <1>2, <1>3, <2>1, <2>4, <2>5 DEF only_opening_windows
  <1>5. DeferralWaitsForABuild' /\ deferred_last_window' \in BOOLEAN
    BY <1>0, <1>1, <1>3, <1>4 DEF DeferralWaitsForABuild
  <1>. QED
    BY <1>0, <1>1, <1>2, <1>5, UpdatePreserves

\* A native fact about a shown window.
LEMMA FactUpdatesOK ==
  ASSUME RegistryInv, NEW i \in DOMAIN entries, NEW v, NEW a \in Attrs, NEW x \in Values,
         FactUpdates(i, v, a, x)
  PROVE  StepOK
  <1>1. /\ i \in 1..last_id /\ ending \in BOOLEAN /\ EntryInv(entries[i], ending)
        /\ Shown(entries[i])
    BY InvFacts DEF RegistryInv, FactUpdates
  <1>2. LET f == [entries[i] EXCEPT !.state = [@ EXCEPT ![a] = x]]
        IN  /\ EntryInv(f, ending) /\ Forward(entries[i], f)
            /\ f.phase = entries[i].phase /\ f.view = entries[i].view
    BY <1>1, FactUpdatedOK
  <1>. QED
    BY <1>1, <1>2, QuietUpdate DEF FactUpdates

\* A step that leaves every entry alone.
LEMMA IdlePreserves ==
  ASSUME RegistryInv, UNCHANGED <<ending, last_id, last_incarnation, entries>>,
         UNCHANGED deferred_last_window,
         ready' \in BOOLEAN, ending => ~ready',
         destroyed_fact_drops' \in 0..DropLimit
  PROVE  StepOK
  <1>1. RegistryTypeOK' /\ ViewsDistinct' /\ DeferralWaitsForABuild'
    BY DEF RegistryInv, RegistryTypeOK, ViewsDistinct, DeferralWaitsForABuild
  <1>2. \A j \in 1..last_id : j \in DOMAIN entries' /\ Forward(entries[j], entries'[j])
    BY InvFacts, ForwardRefl
  <1>. QED
    BY <1>1, <1>2 DEF RegistryInv, StepOK

\* A native fact about a window in teardown.
LEMMA FactDropsOK ==
  ASSUME RegistryInv, NEW i \in DOMAIN entries, NEW v, FactDrops(i, v)
  PROVE  StepOK
  <1>1. i \in 1..last_id /\ ending \in BOOLEAN /\ EntryInv(entries[i], ending)
    BY InvFacts DEF RegistryInv
  <1>2. CASE SetEntry(i, [entries[i] EXCEPT !.dropped = SaturatingInc(@)])
    BY <1>1, <1>2, FactDroppedOK, QuietUpdate DEF FactDrops
  <1>3. CASE /\ destroyed_fact_drops' = SaturatingInc(destroyed_fact_drops)
             /\ UNCHANGED <<ready, ending, last_id, last_incarnation, entries>>
    <2>1. destroyed_fact_drops' \in 0..DropLimit
      BY <1>3, InvFacts, LimitsAssumption DEF SaturatingInc
    <2>. QED
      BY <1>3, <2>1, InvFacts, IdlePreserves DEF RegistryInv, FactDrops
  <1>. QED
    BY <1>2, <1>3 DEF FactDrops

\* The user's close button.
LEMMA NativeCloseOK ==
  ASSUME RegistryInv, NEW i \in DOMAIN entries, NEW v, NativeClose(i, v)
  PROVE  StepOK
  <1>1. /\ i \in 1..last_id /\ ending \in BOOLEAN /\ EntryInv(entries[i], ending)
        /\ entries[i].phase = "Open" /\ CloseSeqLeft(entries[i])
    BY InvFacts DEF RegistryInv, NativeClose
  <1>. QED
    BY <1>1, CloseAskedOK, QuietUpdate DEF NativeClose

\* A released view, which may defer or settle the last-window check.
LEMMA NativeReleasedOK ==
  ASSUME RegistryInv, NEW i \in DOMAIN entries, NEW v, NativeReleased(i, v)
  PROVE  StepOK
  <1>1. /\ i \in 1..last_id /\ ending \in BOOLEAN /\ EntryInv(entries[i], ending)
        /\ entries[i].phase = "Closing" /\ DOMAIN entries = 1..last_id
        /\ SetEntry(i, Released(entries[i])) /\ ending' = ending
    BY InvFacts DEF RegistryInv, NativeReleased, SetEntry
  <1>2. LET f == Released(entries[i])
        IN  EntryInv(f, ending) /\ Forward(entries[i], f) /\ f.view = entries[i].view
    BY <1>1, ReleasedOK
  <1>3. deferred_last_window = FALSE
    BY <1>1, InvFacts DEF RegistryInv, DeferralWaitsForABuild, only_opening_windows
  <1>4. deferred_last_window' \in BOOLEAN
    BY <1>3 DEF NativeReleased, only_opening_windows
  <1>5. deferred_last_window' => ~ending /\ only_opening_windows(entries')
    BY <1>1, <1>3 DEF NativeReleased
  <1>6. DeferralWaitsForABuild'
    BY <1>1, <1>5 DEF DeferralWaitsForABuild
  <1>. QED
    BY <1>1, <1>2, <1>4, <1>6, UpdatePreserves

\* Every event of the native side.
LEMMA NativeInputOK ==
  ASSUME RegistryInv, NativeInput
  PROVE  StepOK
  BY BuiltCreatesOK, BuiltCleansUpOK, BuildFailsOK, FactUpdatesOK, FactDropsOK,
     NativeCloseOK, NativeReleasedOK DEF NativeInput

-----------------------------------------------------------------------------
(* Steps over all entries.                                                 *)

\* A step that replaces every entry by a legal successor with the same view.
LEMMA MapPreserves ==
  ASSUME RegistryInv, DOMAIN entries' = 1..last_id, ending' \in BOOLEAN,
         entries' = [i \in DOMAIN entries |-> entries'[i]],
         \A i \in 1..last_id : /\ EntryInv(entries'[i], ending')
                               /\ Forward(entries[i], entries'[i])
                               /\ entries'[i].view = entries[i].view,
         UNCHANGED <<last_id, last_incarnation, destroyed_fact_drops>>,
         ready' \in BOOLEAN, ending' => ~ready',
         deferred_last_window' \in BOOLEAN, DeferralWaitsForABuild'
  PROVE  StepOK
  <1>1. entries' \in [1..last_id' -> Entry]
    BY InvFacts DEF EntryInv
  <1>2. RegistryTypeOK'
    BY <1>1 DEF RegistryInv, RegistryTypeOK
  <1>3. ViewsDistinct'
    BY DEF RegistryInv, ViewsDistinct
  <1>4. \A i \in 1..last_id' : EntryInv(entries'[i], ending') /\ entries'[i].incarnation = i
    BY DEF RegistryInv, Forward
  <1>. QED
    BY <1>2, <1>3, <1>4 DEF RegistryInv, StepOK

\* The role's process is lost: its builds are orphaned, its calls dropped.
LEMMA RoleLostOK ==
  ASSUME RegistryInv, NEW o \in Owners, role_lost(o)
  PROVE  StepOK
  <1>1. /\ DOMAIN entries = 1..last_id /\ DOMAIN entries' = 1..last_id
        /\ entries' = [i \in DOMAIN entries |-> entries'[i]]
        /\ ending \in BOOLEAN /\ ending' = ending
        /\ ready' \in BOOLEAN /\ (ending' => ~ready')
        /\ \A i \in 1..last_id : entries[i] \in Entry /\ EntryInv(entries[i], ending)
    BY InvFacts DEF RegistryInv, role_lost
  <1>2. \A i \in 1..last_id : /\ EntryInv(entries'[i], ending')
                              /\ Forward(entries[i], entries'[i])
                              /\ entries'[i].view = entries[i].view
    <2>. TAKE i \in 1..last_id
    <2>1. entries'[i] = IF i \in OwnedLive(o) THEN Orphaned(entries[i]) ELSE entries[i]
      BY <1>1 DEF role_lost
    <2>. QED
      BY <1>1, <2>1, OrphanedOK, ForwardRefl
  <1>3. deferred_last_window' \in BOOLEAN
    BY DEF role_lost
  <1>4. DeferralWaitsForABuild'
    <2>1. deferred_last_window' => deferred_last_window /\ OwnedLive(o) = {}
      BY InvFacts DEF role_lost
    <2>2. OwnedLive(o) = {} => \A i \in 1..last_id : entries'[i] = entries[i]
      BY <1>1 DEF role_lost
    <2>. QED
      BY <1>1, <2>1, <2>2 DEF RegistryInv, DeferralWaitsForABuild, only_opening_windows
  <1>. QED
    BY <1>1, <1>2, <1>3, <1>4, MapPreserves DEF role_lost

\* A successor takes the surviving windows over.
LEMMA SubscribeOK ==
  ASSUME RegistryInv, NEW o \in Owners, subscribe_successor(o)
  PROVE  StepOK
  <1>1. /\ DOMAIN entries = 1..last_id /\ DOMAIN entries' = 1..last_id
        /\ entries' = [i \in DOMAIN entries |-> entries'[i]]
        /\ ending \in BOOLEAN /\ ending' = ending
        /\ ready' \in BOOLEAN /\ (ending' => ~ready')
        /\ deferred_last_window' \in BOOLEAN
        /\ \A i \in 1..last_id : entries[i] \in Entry /\ EntryInv(entries[i], ending)
    BY InvFacts DEF RegistryInv, subscribe_successor
  <1>2. \A i \in 1..last_id : /\ EntryInv(entries'[i], ending')
                              /\ Forward(entries[i], entries'[i])
                              /\ entries'[i].view = entries[i].view
                              /\ entries'[i].phase = entries[i].phase
    <2>. TAKE i \in 1..last_id
    <2>1. entries'[i] = IF ~entries[i].owner_live /\ Shown(entries[i])
                        THEN Inherited(entries[i], o) ELSE entries[i]
      BY <1>1 DEF subscribe_successor
    <2>. QED
      BY <1>1, <2>1, InheritedOK, ForwardRefl
  <1>3. DeferralWaitsForABuild'
    BY <1>1, <1>2 DEF RegistryInv, DeferralWaitsForABuild, only_opening_windows,
                      subscribe_successor
  <1>. QED
    BY <1>1, <1>2, <1>3, MapPreserves DEF subscribe_successor

\* The session end tears every window down.
LEMMA SessionEndOK ==
  ASSUME RegistryInv, session_end
  PROVE  StepOK
  <1>1. /\ DOMAIN entries = 1..last_id /\ DOMAIN entries' = 1..last_id
        /\ entries' = [i \in DOMAIN entries |-> entries'[i]]
        /\ ending \in BOOLEAN /\ ending' = TRUE /\ ready' = FALSE
        /\ deferred_last_window' = FALSE
        /\ \A i \in 1..last_id : EntryInv(entries[i], ending)
    BY InvFacts DEF RegistryInv, session_end
  <1>2. \A i \in 1..last_id : /\ EntryInv(entries'[i], ending')
                              /\ Forward(entries[i], entries'[i])
                              /\ entries'[i].view = entries[i].view
    <2>. TAKE i \in 1..last_id
    <2>1. entries'[i] = Ended(entries[i])
      BY <1>1 DEF session_end
    <2>. QED
      BY <1>1, <2>1, EndedOK
  <1>3. DeferralWaitsForABuild'
    BY <1>1 DEF DeferralWaitsForABuild
  <1>. QED
    BY <1>1, <1>2, <1>3, MapPreserves DEF session_end

\* Every step of the session itself.
LEMMA SessionOK ==
  ASSUME RegistryInv, Session
  PROVE  StepOK
  <1>1. CASE mark_ready
    BY <1>1, InvFacts, IdlePreserves DEF mark_ready
  <1>2. CASE take_destroyed_fact_drops
    BY <1>2, InvFacts, ZeroInRange, IdlePreserves DEF take_destroyed_fact_drops, RegistryInv
  <1>. QED
    BY <1>1, <1>2, RoleLostOK, SubscribeOK, SessionEndOK DEF Session

-----------------------------------------------------------------------------
(* Theorems.                                                               *)

\* The empty registry satisfies the invariant.
LEMMA InitOK == RegistryInit => RegistryInv
  <1>. SUFFICES ASSUME RegistryInit PROVE RegistryInv
    OBVIOUS
  <1>1. 1..last_id = {}
    BY DEF RegistryInit
  <1>2. entries \in [1..last_id -> Entry]
    BY <1>1 DEF RegistryInit
  <1>3. RegistryTypeOK
    <2>1. last_id \in 0..IdLimit /\ last_incarnation \in 0..IncarnationLimit
      BY LimitsAssumption DEF RegistryInit
    <2>2. destroyed_fact_drops \in 0..DropLimit
      BY ZeroInRange DEF RegistryInit
    <2>3. ready \in BOOLEAN /\ ending \in BOOLEAN /\ deferred_last_window \in BOOLEAN
      BY DEF RegistryInit
    <2>. QED
      BY <1>2, <2>1, <2>2, <2>3 DEF RegistryTypeOK
  <1>. QED
    BY <1>1, <1>3, LimitsAssumption
    DEF RegistryInit, RegistryInv, ViewsDistinct, DeferralWaitsForABuild

\* Every step of the registry is a legal one.
LEMMA NextOK ==
  ASSUME RegistryInv, RegistryNext
  PROVE  StepOK
  BY AppCallOK, NativeInputOK, SessionOK DEF RegistryNext

\* A step that leaves the registry alone preserves the invariant.
LEMMA StutterOK ==
  ASSUME RegistryInv, UNCHANGED registryVars
  PROVE  RegistryInv'
  BY InvFacts, IdlePreserves DEF registryVars, RegistryInv, StepOK

\* RegistryInv is an invariant: the shape of an entry in each phase, the type
\* of the registry's state, the identity counters and the deferred check.
THEOREM InvariantHolds == RegistrySpec => []RegistryInv
  <1>1. RegistryInit => RegistryInv
    BY InitOK
  <1>2. RegistryInv /\ [RegistryNext]_registryVars => RegistryInv'
    BY NextOK, StutterOK DEF StepOK
  <1>. QED
    BY <1>1, <1>2, PTL DEF RegistrySpec

\* The registry's state keeps its type: every window id up to the last minted
\* one has an entry, and no counter leaves its integer range.
THEOREM TypeOK == RegistrySpec => []RegistryTypeOK
  <1>1. RegistryInv => RegistryTypeOK
    BY DEF RegistryInv
  <1>. QED
    BY <1>1, InvariantHolds, PTL

\* Every call the registry retains has a live owner to answer and a native
\* receipt that will answer it.
THEOREM RetainedCalls == RegistrySpec => []CallsAwaitAReceipt
  <1>1. RegistryInv => CallsAwaitAReceipt
    <2>. SUFFICES ASSUME RegistryInv, NEW i \in DOMAIN entries
                  PROVE  LET e == entries[i]
                         IN  /\ e.phase = "Opening" =>
                                  /\ e.owner_live /\ ~ending
                                  /\ e.call # None /\ e.call.owner = e.owner
                             /\ e.destroy_calls # <<>> =>
                                  /\ e.owner_live /\ e.phase = "Closing" /\ e.view # None
                                  /\ \A k \in 1..Len(e.destroy_calls) :
                                       e.destroy_calls[k].owner = e.owner
      BY DEF CallsAwaitAReceipt
    <2>1. EntryInv(entries[i], ending)
      BY InvFacts DEF RegistryInv
    <2>. QED
      BY <2>1, NoneAssumption DEF EntryInv, PendingWindowCall
  <1>. QED
    BY <1>1, InvariantHolds, PTL

\* A deferred LastWindowClosed always has a build left that will settle it.
THEOREM DeferralSettles == RegistrySpec => []DeferralWaitsForABuild
  <1>1. RegistryInv => DeferralWaitsForABuild
    BY DEF RegistryInv
  <1>. QED
    BY <1>1, InvariantHolds, PTL

\* The pending-Destroy budget and the cumulative identity budget hold for
\* every limit.
THEOREM Budgets == RegistrySpec => []BudgetsHold
  <1>1. RegistryInv => BudgetsHold
    BY InvFacts DEF RegistryInv, BudgetsHold, EntryInv
  <1>. QED
    BY <1>1, InvariantHolds, PTL

\* A view and a build token name at most one window, tombstones included.
THEOREM Lookups == RegistrySpec => []LookupsUnambiguous
  <1>1. RegistryInv => LookupsUnambiguous
    BY InvFacts DEF RegistryInv, LookupsUnambiguous, ViewsDistinct
  <1>. QED
    BY <1>1, InvariantHolds, PTL

\* After the session end has started every window is in teardown or gone.
THEOREM Ending == RegistrySpec => []EndingTearsDownAll
  <1>1. RegistryInv => EndingTearsDownAll
    BY InvFacts DEF RegistryInv, EndingTearsDownAll, EntryInv, Shown, Phases
  <1>. QED
    BY <1>1, InvariantHolds, PTL

\* Only a shown window of the marked owner can be adopted.
THEOREM Adoption == RegistrySpec => []AdoptionIsSound
  <1>1. RegistryInv => AdoptionIsSound
    BY InvFacts DEF RegistryInv, AdoptionIsSound, EntryInv
  <1>. QED
    BY <1>1, InvariantHolds, PTL

\* No step forgets a window, reissues its identity, brings it back from
\* teardown or from the dead, or numbers two of its close requests alike.
THEOREM Lifecycle == RegistrySpec => LifecycleOnlyForward
  <1>1. RegistryInv /\ [RegistryNext]_registryVars =>
          [\A i \in DOMAIN entries :
             /\ i \in DOMAIN entries'
             /\ entries'[i].incarnation = entries[i].incarnation
             /\ entries[i].phase = "Closing" => entries'[i].phase \in {"Closing", "Destroyed"}
             /\ entries[i].phase = "Destroyed" =>
                  entries'[i].phase = "Destroyed" /\ entries'[i].view = entries[i].view
             /\ entries[i].phase # "ClosePending" /\ entries'[i].phase = "ClosePending"
                  => entries'[i].close_seq > entries[i].last_close_seq
             /\ entries'[i].last_close_seq >= entries[i].last_close_seq]_registryVars
    BY NextOK, InvFacts DEF StepOK, Forward
  <1>. QED
    BY <1>1, InvariantHolds, PTL DEF RegistrySpec, LifecycleOnlyForward

-----------------------------------------------------------------------------
(* Retained correlations.                                                  *)

(* The successor f of an entry e retains no call that e did not retain.    *)
NoNewCalls(e, f) ==
  /\ f.phase = "Opening" => e.phase = "Opening" /\ f.call = e.call
  /\ f.destroy_calls = e.destroy_calls \/ f.destroy_calls = <<>>

\* A step that only lets calls go keeps the retained correlations distinct.
LEMMA CallsOnlyGo ==
  ASSUME CorrelationsParkedOnce, DOMAIN entries' = DOMAIN entries,
         \A i \in DOMAIN entries : NoNewCalls(entries[i], entries'[i])
  PROVE  CorrelationsParkedOnce'
  <1>. SUFFICES ASSUME NEW i \in DOMAIN entries, NEW j \in DOMAIN entries
                PROVE
      /\ i # j /\ entries'[i].phase = "Opening" /\ entries'[j].phase = "Opening"
           => entries'[i].call # entries'[j].call
      /\ \A k \in 1..Len(entries'[i].destroy_calls) :
           /\ entries'[j].phase = "Opening" =>
                entries'[i].destroy_calls[k] # entries'[j].call
           /\ \A l \in 1..Len(entries'[j].destroy_calls) :
                entries'[i].destroy_calls[k] = entries'[j].destroy_calls[l] => i = j /\ k = l
    BY DEF CorrelationsParkedOnce
  <1>1. NoNewCalls(entries[i], entries'[i]) /\ NoNewCalls(entries[j], entries'[j])
    OBVIOUS
  <1>2. i # j /\ entries'[i].phase = "Opening" /\ entries'[j].phase = "Opening"
          => entries'[i].call # entries'[j].call
    BY <1>1 DEF NoNewCalls, CorrelationsParkedOnce
  <1>3. ASSUME NEW k \in 1..Len(entries'[i].destroy_calls)
        PROVE  /\ entries'[j].phase = "Opening" =>
                    entries'[i].destroy_calls[k] # entries'[j].call
               /\ \A l \in 1..Len(entries'[j].destroy_calls) :
                    entries'[i].destroy_calls[k] = entries'[j].destroy_calls[l]
                      => i = j /\ k = l
    <2>1. entries'[i].destroy_calls = entries[i].destroy_calls
      BY <1>1, <1>3 DEF NoNewCalls
    <2>2. ASSUME NEW l \in 1..Len(entries'[j].destroy_calls)
          PROVE  entries'[j].destroy_calls = entries[j].destroy_calls
      BY <1>1, <2>2 DEF NoNewCalls
    <2>. QED
      BY <1>1, <1>3, <2>1, <2>2 DEF NoNewCalls, CorrelationsParkedOnce
  <1>. QED
    BY <1>2, <1>3

\* So does a step that replaces one entry by one that retains nothing new.
LEMMA EntryOnlyGoes ==
  ASSUME CorrelationsParkedOnce, RegistryInv, NEW i \in DOMAIN entries, NEW f,
         SetEntry(i, f), NoNewCalls(entries[i], f)
  PROVE  CorrelationsParkedOnce'
  <1>1. /\ DOMAIN entries' = DOMAIN entries
        /\ \A j \in DOMAIN entries : entries'[j] = IF j = i THEN f ELSE entries[j]
    BY InvFacts DEF SetEntry
  <1>2. \A j \in DOMAIN entries : NoNewCalls(entries[j], entries'[j])
    BY <1>1 DEF NoNewCalls
  <1>. QED
    BY <1>1, <1>2, CallsOnlyGo

\* Only NewEntry and DestroyWaiting retain a call.
LEMMA OperatorsRetainNothing ==
  ASSUME NEW e \in Entry
  PROVE  /\ NoNewCalls(e, Touched(e))
         /\ \A v, s : NoNewCalls(e, Opened(e, v, s)) /\ NoNewCalls(e, BuiltLate(e, v, s))
         /\ NoNewCalls(e, BuildLost(e))
         /\ NoNewCalls(e, CloseAsked(e)) /\ NoNewCalls(e, CloseAsked(Touched(e)))
         /\ NoNewCalls(e, Reopened(Touched(e))) /\ NoNewCalls(e, Torn(Touched(e)))
         /\ NoNewCalls(e, Released(e)) /\ NoNewCalls(e, Orphaned(e))
         /\ \A o : NoNewCalls(e, Inherited(e, o))
         /\ NoNewCalls(e, Ended(e))
  <1>. USE DEF NoNewCalls, Entry
  <1>1. NoNewCalls(e, Touched(e)) /\ NoNewCalls(e, BuildLost(e)) /\ NoNewCalls(e, CloseAsked(e))
    BY DEF Touched, BuildLost, CloseAsked
  <1>2. \A v, s : NoNewCalls(e, Opened(e, v, s)) /\ NoNewCalls(e, BuiltLate(e, v, s))
    BY DEF Opened, BuiltLate
  <1>3. NoNewCalls(e, CloseAsked(Touched(e)))
    BY DEF Touched, CloseAsked
  <1>4. NoNewCalls(e, Reopened(Touched(e))) /\ NoNewCalls(e, Torn(Touched(e)))
    BY DEF Touched, Reopened, Torn
  <1>5. NoNewCalls(e, Released(e))
    BY DEF Released
  <1>6. NoNewCalls(e, Orphaned(e))
    BY DEF Orphaned, Torn, Reopened
  <1>7. \A o : NoNewCalls(e, Inherited(e, o))
    BY DEF Inherited
  <1>8. NoNewCalls(e, Ended(e))
    BY DEF Ended, Torn, Touched
  <1>. QED
    BY <1>1, <1>2, <1>3, <1>4, <1>5, <1>6, <1>7, <1>8

\* create retains a correlation that nothing retained.
LEMMA CreateParks ==
  ASSUME CorrelationsParkedOnce, RegistryInv, NEW o \in Owners, NEW c \in Correlations,
         ~has_pending_call(o, c), CreateBuilds(o, c)
  PROVE  CorrelationsParkedOnce'
  <1>. DEFINE n == last_id + 1
              call == [owner |-> o, correlation |-> c]
  <1>1. /\ DOMAIN entries = 1..last_id /\ last_id \in Nat
        /\ DOMAIN entries' = DOMAIN entries \cup {n} /\ n \notin DOMAIN entries
        /\ \A i \in DOMAIN entries : entries'[i] = entries[i]
        /\ entries'[n] = NewEntry(o, c, last_incarnation + 1)
    BY InvFacts DEF CreateBuilds
  <1>2. /\ entries'[n].phase = "Opening" /\ entries'[n].call = call
        /\ entries'[n].destroy_calls = <<>>
    BY <1>1 DEF NewEntry
  <1>3. \A i \in DOMAIN entries :
          /\ entries[i].phase = "Opening" => entries[i].call # call
          /\ \A k \in 1..Len(entries[i].destroy_calls) : entries[i].destroy_calls[k] # call
    BY DEF has_pending_call
  <1>. HIDE DEF n, call
  <1>4. 1..Len(entries'[n].destroy_calls) = {}
    BY <1>2
  <1>5. \A i, j \in DOMAIN entries' :
          i # j /\ entries'[i].phase = "Opening" /\ entries'[j].phase = "Opening"
            => entries'[i].call # entries'[j].call
    BY <1>1, <1>2, <1>3 DEF CorrelationsParkedOnce
  <1>6. ASSUME NEW i \in DOMAIN entries', NEW j \in DOMAIN entries',
               NEW k \in 1..Len(entries'[i].destroy_calls)
        PROVE  /\ entries'[j].phase = "Opening" =>
                    entries'[i].destroy_calls[k] # entries'[j].call
               /\ \A l \in 1..Len(entries'[j].destroy_calls) :
                    entries'[i].destroy_calls[k] = entries'[j].destroy_calls[l]
                      => i = j /\ k = l
    <2>1. /\ i \in DOMAIN entries /\ entries'[i] = entries[i]
          /\ k \in 1..Len(entries[i].destroy_calls)
      BY <1>1, <1>4
    <2>2. CASE j = n
      BY <1>2, <1>3, <1>4, <2>1, <2>2
    <2>3. CASE j \in DOMAIN entries
      BY <1>1, <2>1, <2>3 DEF CorrelationsParkedOnce
    <2>. QED
      BY <1>1, <2>2, <2>3
  <1>. QED
    BY <1>5, <1>6 DEF CorrelationsParkedOnce

\* destroy parks a correlation that nothing retained.
LEMMA DestroyParks ==
  ASSUME CorrelationsParkedOnce, RegistryInv, NEW o \in Owners, NEW w \in WindowRef,
         NEW c \in Correlations, ~has_pending_call(o, c), Destroy(o, w, c)
  PROVE  CorrelationsParkedOnce'
  <1>. DEFINE e == entries[w.id]
              call == [owner |-> o, correlation |-> c]
              d == DestroyWaiting(Touched(e), call)
              f == IF Shown(d) THEN Torn(d) ELSE d
  <1>1. w.id \in DOMAIN entries /\ e \in Entry /\ e.destroy_calls \in Seq(PendingWindowCall)
    BY AdmittedOK, InvFacts, EntryTypes DEF Destroy, EntryInv
  <1>2. /\ f.phase = "Opening" => e.phase = "Opening" /\ f.call = e.call
        /\ f.destroy_calls = Append(e.destroy_calls, call)
    <2>1. /\ d.phase = e.phase /\ d.call = e.call
          /\ d.destroy_calls = Append(e.destroy_calls, call)
      BY <1>1 DEF DestroyWaiting, Touched, Entry
    <2>2. Torn(d).phase = "Closing" /\ Torn(d).destroy_calls = d.destroy_calls
      BY <1>1 DEF DestroyWaiting, Touched, Entry, Torn
    <2>. QED
      BY <2>1, <2>2
  <1>3. /\ DOMAIN entries' = DOMAIN entries
        /\ \A j \in DOMAIN entries : entries'[j] = IF j = w.id THEN f ELSE entries[j]
    BY <1>1, InvFacts DEF Destroy, SetEntry
  <1>4. \A i \in DOMAIN entries :
          /\ entries[i].phase = "Opening" => entries[i].call # call
          /\ \A k \in 1..Len(entries[i].destroy_calls) : entries[i].destroy_calls[k] # call
    BY DEF has_pending_call
  <1>5. call \in PendingWindowCall
    BY DEF PendingWindowCall
  <1>. HIDE DEF f, d, call
  <1>6. \A j \in DOMAIN entries : entries'[j].phase = "Opening" =>
          entries[j].phase = "Opening" /\ entries'[j].call = entries[j].call
    BY <1>2, <1>3
  <1>7. \A j \in DOMAIN entries : \A k \in 1..Len(entries'[j].destroy_calls) :
          \/ k \in 1..Len(entries[j].destroy_calls)
               /\ entries'[j].destroy_calls[k] = entries[j].destroy_calls[k]
          \/ /\ j = w.id /\ k = Len(e.destroy_calls) + 1
             /\ entries'[j].destroy_calls[k] = call
    BY <1>1, <1>2, <1>3, <1>5, SMTT(20)
  <1>. QED
    BY <1>3, <1>4, <1>6, <1>7 DEF CorrelationsParkedOnce

\* No step of the registry retains a correlation twice.
LEMMA NextParks ==
  ASSUME CorrelationsParkedOnce, RegistryInv, RegistryNext
  PROVE  CorrelationsParkedOnce'
  <1>0. /\ DOMAIN entries = 1..last_id
        /\ \A i \in DOMAIN entries : entries[i] \in Entry
    BY InvFacts
  <1>1. ASSUME NEW o \in Owners, AppCall(o)
        PROVE  CorrelationsParkedOnce'
    <2>1. ASSUME NEW i \in DOMAIN entries, CreateAdopts(o, i)
          PROVE  CorrelationsParkedOnce'
      BY <1>0, <2>1, OperatorsRetainNothing, EntryOnlyGoes DEF CreateAdopts
    <2>2. ASSUME NEW w \in WindowRef,
                 \/ Setter(o, w) \/ RequestClose(o, w) \/ RequestCloseIdle(o, w)
                 \/ DestroyRefused(o, w)
          PROVE  CorrelationsParkedOnce'
      <3>1. w.id \in DOMAIN entries
        BY <1>0, <2>2, AdmittedOK DEF Setter, RequestClose, RequestCloseIdle, DestroyRefused
      <3>. QED
        BY <1>0, <2>2, <3>1, OperatorsRetainNothing, EntryOnlyGoes
        DEF Setter, RequestClose, RequestCloseIdle, DestroyRefused
    <2>3. ASSUME NEW w \in WindowRef, NEW seq, NEW d, CloseReply(o, w, seq, d)
          PROVE  CorrelationsParkedOnce'
      <3>1. w.id \in DOMAIN entries
        BY <1>0, <2>3, AdmittedOK DEF CloseReply
      <3>. QED
        BY <1>0, <2>3, <3>1, OperatorsRetainNothing, EntryOnlyGoes DEF CloseReply
    <2>. QED
      BY <1>1, <2>1, <2>2, <2>3, CreateParks, DestroyParks DEF AppCall
  <1>2. ASSUME NativeInput
        PROVE  CorrelationsParkedOnce'
    <2>1. ASSUME NEW i \in DOMAIN entries, NEW build, NEW v, NEW s,
                 BuiltCreates(i, build, v, s) \/ BuiltCleansUp(i, build, v, s)
          PROVE  CorrelationsParkedOnce'
      BY <1>0, <2>1, OperatorsRetainNothing, EntryOnlyGoes DEF BuiltCreates, BuiltCleansUp
    <2>2. ASSUME NEW i \in DOMAIN entries, NEW build, BuildFails(i, build)
          PROVE  CorrelationsParkedOnce'
      <3>1. SetEntry(i, BuildLost(entries[i]))
        BY <2>2, Zenon DEF BuildFails
      <3>. QED
        BY <1>0, <3>1, OperatorsRetainNothing, EntryOnlyGoes
    <2>3. ASSUME NEW i \in DOMAIN entries, NEW v, NEW a, NEW x, FactUpdates(i, v, a, x)
          PROVE  CorrelationsParkedOnce'
      <3>1. NoNewCalls(entries[i], [entries[i] EXCEPT !.state = [@ EXCEPT ![a] = x]])
        BY <1>0 DEF NoNewCalls, Entry
      <3>. QED
        BY <1>0, <2>3, <3>1, EntryOnlyGoes DEF FactUpdates
    <2>4. ASSUME NEW i \in DOMAIN entries, NEW v, FactDrops(i, v)
          PROVE  CorrelationsParkedOnce'
      <3>1. NoNewCalls(entries[i], [entries[i] EXCEPT !.dropped = SaturatingInc(@)])
        BY <1>0 DEF NoNewCalls, Entry
      <3>2. CASE UNCHANGED entries
        BY <3>2 DEF CorrelationsParkedOnce
      <3>. QED
        BY <1>0, <2>4, <3>1, <3>2, EntryOnlyGoes DEF FactDrops
    <2>5. ASSUME NEW i \in DOMAIN entries, NEW v, NativeClose(i, v) \/ NativeReleased(i, v)
          PROVE  CorrelationsParkedOnce'
      BY <1>0, <2>5, OperatorsRetainNothing, EntryOnlyGoes DEF NativeClose, NativeReleased
    <2>. QED
      BY <1>2, <2>1, <2>2, <2>3, <2>4, <2>5 DEF NativeInput
  <1>3. ASSUME Session
        PROVE  CorrelationsParkedOnce'
    <2>1. CASE UNCHANGED entries
      BY <2>1 DEF CorrelationsParkedOnce
    <2>2. ASSUME NEW o \in Owners, role_lost(o)
          PROVE  CorrelationsParkedOnce'
      <3>1. /\ DOMAIN entries' = DOMAIN entries
            /\ \A i \in DOMAIN entries :
                 entries'[i] = entries[i] \/ entries'[i] = Orphaned(entries[i])
        BY <2>2 DEF role_lost
      <3>. QED
        BY <1>0, <3>1, OperatorsRetainNothing, CallsOnlyGo DEF NoNewCalls
    <2>3. ASSUME NEW o \in Owners, subscribe_successor(o)
          PROVE  CorrelationsParkedOnce'
      <3>1. /\ DOMAIN entries' = DOMAIN entries
            /\ \A i \in DOMAIN entries :
                 entries'[i] = entries[i] \/ entries'[i] = Inherited(entries[i], o)
        BY <2>3 DEF subscribe_successor
      <3>. QED
        BY <1>0, <3>1, OperatorsRetainNothing, CallsOnlyGo DEF NoNewCalls
    <2>4. CASE session_end
      BY <1>0, <2>4, OperatorsRetainNothing, CallsOnlyGo DEF session_end
    <2>. QED
      BY <1>3, <2>1, <2>2, <2>3, <2>4 DEF Session, mark_ready, take_destroyed_fact_drops
  <1>. QED
    BY <1>1, <1>2, <1>3 DEF RegistryNext

\* No (owner, correlation) is retained twice, by two windows or by one: no call
\* is answered twice (has_pending_call, create, destroy).
THEOREM ParkedOnce == RegistrySpec => []CorrelationsParkedOnce
  <1>1. RegistryInit => CorrelationsParkedOnce
    BY DEF RegistryInit, CorrelationsParkedOnce
  <1>2. CorrelationsParkedOnce /\ RegistryInv /\ [RegistryNext]_registryVars
          => CorrelationsParkedOnce'
    <2>1. CASE UNCHANGED registryVars
      BY <2>1 DEF registryVars, CorrelationsParkedOnce
    <2>. QED
      BY <2>1, NextParks
  <1>. QED
    BY <1>1, <1>2, InvariantHolds, PTL DEF RegistrySpec

=============================================================================
