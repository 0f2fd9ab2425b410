--------------------------- MODULE WindowRegistry ---------------------------
(***************************************************************************)
(* The window registry of one app session                                  *)
(* (crates/keld-core/src/app_session/window_registry.rs): identities,      *)
(* native facts, adoption by a successor generation and the two-phase      *)
(* close.  The registry performs no I/O; its parent router                 *)
(* (module WindowSession) consumes what each operation returns.            *)
(*                                                                         *)
(* Every operation of the registry is an action here, split by outcome.    *)
(* Outcomes that change nothing (a refusal, a coalesced fact, a            *)
(* diagnostic) are stuttering steps of this module; the router, which      *)
(* answers them, names them through the predicates below.                  *)
(*                                                                         *)
(* A native window is a view and a state.  Phase::X(payload) of the source *)
(* is the field "phase" together with the fields call, view, state and     *)
(* close_seq, which hold None (or 0) in the phases that do not carry them. *)
(***************************************************************************)
EXTENDS Naturals, Sequences, FiniteSets

CONSTANTS
  Owners,         \* WindowOwner: the links of the successive role generations
  Correlations,   \* CorrelationId of an app call
  Views,          \* WebviewId minted by the UI thread
  Attrs,          \* the attributes of WindowState: bounds, focused, ...
  Values,         \* the values an attribute can take
  None,           \* the absent option
  IdLimit,                              \* u32::MAX, the last WindowId
  IncarnationLimit,                     \* u64::MAX, the last WindowGeneration
  CloseSeqLimit,                        \* u64::MAX, the last close_seq
  DropLimit,                            \* u64::MAX, where drop counters saturate
  MAX_PENDING_DESTROYS_PER_WINDOW,      \* 64
  PROPOSED_MAX_CUMULATIVE_WINDOW_IDS    \* 1024

ASSUME LimitsAssumption ==
  /\ IdLimit \in Nat /\ IncarnationLimit \in Nat
  /\ CloseSeqLimit \in Nat /\ DropLimit \in Nat
  /\ MAX_PENDING_DESTROYS_PER_WINDOW \in Nat
  /\ PROPOSED_MAX_CUMULATIVE_WINDOW_IDS \in Nat

ASSUME NoneAssumption ==
  /\ None \notin Views
  /\ None \notin [owner : Owners, correlation : Correlations]
  /\ None \notin [Attrs -> Values]

VARIABLES
  ready,                  \* the registry serves calls
  ending,                 \* the session end has started
  last_id,                \* last minted WindowId
  last_incarnation,       \* last minted WindowGeneration, also the build token
  entries,                \* WindowId -> Entry, tombstones included
  deferred_last_window,   \* LastWindowClosed waits for an Opening window
  destroyed_fact_drops    \* facts that named a tombstone

registryVars == <<ready, ending, last_id, last_incarnation, entries,
                  deferred_last_window, destroyed_fact_drops>>

-----------------------------------------------------------------------------
Phases == {"Opening", "Open", "ClosePending", "Closing", "Destroyed"}
WindowStates == [Attrs -> Values]
PendingWindowCall == [owner : Owners, correlation : Correlations]
WindowRef == [id : 1..IdLimit, incarnation : 1..IncarnationLimit]

Entry == [incarnation : 1..IncarnationLimit,
          owner : Owners,
          owner_live : BOOLEAN,
          adoptable : BOOLEAN,
          created : BOOLEAN,
          dropped : 0..DropLimit,
          last_close_seq : 0..CloseSeqLimit,
          destroy_calls : Seq(PendingWindowCall),
          phase : Phases,
          call : PendingWindowCall \cup {None},
          view : Views \cup {None},
          state : WindowStates \cup {None},
          close_seq : 0..CloseSeqLimit]

\* Type invariant: every identity handed out has an entry, tombstones included,
\* and no counter of the registry leaves its integer type.
RegistryTypeOK ==
  /\ ready \in BOOLEAN
  /\ ending \in BOOLEAN
  /\ last_id \in 0..IdLimit
  /\ last_incarnation \in 0..IncarnationLimit
  /\ entries \in [1..last_id -> Entry]
  /\ deferred_last_window \in BOOLEAN
  /\ destroyed_fact_drops \in 0..DropLimit

-----------------------------------------------------------------------------
(* Predicates over the entries.                                            *)

\* Phase::Open | Phase::ClosePending
Shown(e) == e.phase \in {"Open", "ClosePending"}

has_live_windows(es) == \E i \in DOMAIN es : es[i].phase # "Destroyed"

only_opening_windows(es) ==
  /\ \E i \in DOMAIN es : es[i].phase = "Opening"
  /\ \A i \in DOMAIN es : es[i].phase \in {"Opening", "Destroyed"}

\* The first entry, in WindowId order, with property P: values_mut().find().
IsFirst(i, S) == i \in S /\ \A j \in S : i <= j

WithBuild(build) == {i \in DOMAIN entries : entries[i].incarnation = build}
WithView(v) == {i \in DOMAIN entries : entries[i].view = v}

require_ready == ready /\ ~ending

\* The code admitted_entry returns: "ok" or a WindowError.
admitted_entry(o, w) ==
  IF ~require_ready THEN "NotReady"
  ELSE IF \/ w.id \notin DOMAIN entries
          \/ entries[w.id].incarnation # w.incarnation
          \/ entries[w.id].phase = "Destroyed" THEN "StaleWindow"
  ELSE IF ~entries[w.id].owner_live \/ entries[w.id].owner # o THEN "WrongOwner"
  ELSE "ok"

Admitted(o, w) == admitted_entry(o, w) = "ok"

\* Mutant: only admitted Creates count as pending.
has_pending_call_CreatesOnly(o, c) ==
  \E i \in DOMAIN entries :
    entries[i].phase = "Opening" /\ entries[i].call = [owner |-> o, correlation |-> c]

has_pending_call(o, c) ==
  \E i \in DOMAIN entries :
    LET call == [owner |-> o, correlation |-> c]
    IN  \/ entries[i].phase = "Opening" /\ entries[i].call = call
        \/ \E k \in 1..Len(entries[i].destroy_calls) :
             entries[i].destroy_calls[k] = call

Adoptable(o) == {i \in DOMAIN entries :
                   /\ entries[i].owner_live /\ entries[i].owner = o
                   /\ entries[i].adoptable /\ Shown(entries[i])}

-----------------------------------------------------------------------------
(* What each operation makes of one entry.                                 *)

NewEntry(o, c, incarnation) ==
  [incarnation |-> incarnation, owner |-> o, owner_live |-> TRUE,
   adoptable |-> FALSE, created |-> FALSE, dropped |-> 0,
   last_close_seq |-> 0, destroy_calls |-> <<>>, phase |-> "Opening",
   call |-> [owner |-> o, correlation |-> c],
   view |-> None, state |-> None, close_seq |-> 0]

\* An admitted call spends the adoption mark.
Touched(e) == [e EXCEPT !.adoptable = FALSE]

Opened(e, v, s) == [e EXCEPT !.phase = "Open", !.created = TRUE, !.call = None,
                             !.view = v, !.state = s]

BuiltLate(e, v, s) == [e EXCEPT !.view = v, !.state = s]

BuildLost(e) == [e EXCEPT !.phase = "Destroyed", !.call = None]

CloseAsked(e) == [e EXCEPT !.phase = "ClosePending",
                           !.last_close_seq = e.last_close_seq + 1,
                           !.close_seq = e.last_close_seq + 1]

\* Mutant: a veto restarts the close sequence.
Reopened_ForgetsSeq(e) == [e EXCEPT !.phase = "Open", !.close_seq = 0, !.last_close_seq = 0]

Reopened(e) == [e EXCEPT !.phase = "Open", !.close_seq = 0]

\* Phase::Closing, from Opening (no view yet) or with the view kept.
Torn(e) == [e EXCEPT !.phase = "Closing", !.close_seq = 0, !.call = None]

DestroyWaiting(e, call) == [e EXCEPT !.destroy_calls = Append(@, call)]

Released(e) == [e EXCEPT !.phase = "Destroyed", !.adoptable = FALSE,
                         !.dropped = 0, !.destroy_calls = <<>>,
                         !.state = None]

\* Mutant: the lost owner's Destroy calls stay parked.
Orphaned_KeepsCalls(e) ==
  LET lost == [e EXCEPT !.owner_live = FALSE, !.adoptable = FALSE]
  IN  IF e.phase = "Opening" THEN Torn(lost)
      ELSE IF e.phase = "ClosePending" THEN Reopened(lost)
      ELSE lost

\* role_lost on one of the lost owner's entries.
Orphaned(e) ==
  LET lost == [e EXCEPT !.owner_live = FALSE, !.adoptable = FALSE,
                        !.destroy_calls = <<>>]
  IN  IF e.phase = "Opening" THEN Torn(lost)
      ELSE IF e.phase = "ClosePending" THEN Reopened(lost)
      ELSE lost

\* subscribe_successor on a surviving window.
Inherited(e, o) == [e EXCEPT !.owner = o, !.owner_live = TRUE,
                             !.adoptable = (e.phase = "Open")]

\* session_end on one entry.
Ended(e) ==
  IF e.phase \in {"Opening", "Open", "ClosePending"}
  THEN Torn(Touched(e)) ELSE Touched(e)

-----------------------------------------------------------------------------
RegistryInit ==
  /\ ready = FALSE
  /\ ending = FALSE
  /\ last_id = 0
  /\ last_incarnation = 0
  /\ entries = [i \in 1..0 |-> None]
  /\ deferred_last_window = FALSE
  /\ destroyed_fact_drops = 0

mark_ready ==
  /\ ~ending
  /\ ready' = TRUE
  /\ UNCHANGED <<ending, last_id, last_incarnation, entries,
                 deferred_last_window, destroyed_fact_drops>>

\* Only the entries change.
SetEntry(i, e) ==
  /\ entries' = [entries EXCEPT ![i] = e]
  /\ UNCHANGED <<ready, ending, last_id, last_incarnation, destroyed_fact_drops>>

\* create, CreateOutcome::Adopted
CreateAdopts(o, i) ==
  /\ require_ready
  /\ IsFirst(i, Adoptable(o))
  /\ SetEntry(i, Touched(entries[i]))
  /\ UNCHANGED deferred_last_window

\* The WindowError create returns once nothing can be adopted, or "ok".
create_error ==
  IF last_id + 1 > IdLimit THEN "Exhausted"
  ELSE IF last_incarnation + 1 > IncarnationLimit THEN "Exhausted"
  ELSE IF Cardinality(DOMAIN entries) >= PROPOSED_MAX_CUMULATIVE_WINDOW_IDS
       THEN "SessionWindowCapacity"
  ELSE "ok"

\* create, CreateOutcome::Build: the build token is the new incarnation.
CreateBuilds(o, c) ==
  /\ require_ready
  /\ Adoptable(o) = {}
  /\ create_error = "ok"
  /\ last_id' = last_id + 1
  /\ last_incarnation' = last_incarnation + 1
  /\ entries' = [i \in (DOMAIN entries) \cup {last_id + 1} |->
                   IF i = last_id + 1 THEN NewEntry(o, c, last_incarnation + 1)
                   ELSE entries[i]]
  /\ UNCHANGED <<ready, ending, deferred_last_window, destroyed_fact_drops>>

\* Mutant: a window that opens leaves the deferred check set.
BuiltCreates_KeepsDeferral(i, build, v, s) ==
  /\ IsFirst(i, WithBuild(build))
  /\ entries[i].phase = "Opening"
  /\ SetEntry(i, Opened(entries[i], v, s))
  /\ UNCHANGED deferred_last_window

\* native_built, BuildOutcome::Created
BuiltCreates(i, build, v, s) ==
  /\ IsFirst(i, WithBuild(build))
  /\ entries[i].phase = "Opening"
  /\ SetEntry(i, Opened(entries[i], v, s))
  /\ deferred_last_window' = FALSE

\* native_built, BuildOutcome::Cleanup: the build outlived its window.
BuiltCleansUp(i, build, v, s) ==
  /\ IsFirst(i, WithBuild(build))
  /\ entries[i].phase = "Closing" /\ entries[i].view = None
  /\ SetEntry(i, BuiltLate(entries[i], v, s))
  /\ UNCHANGED deferred_last_window

\* The call native_failed still has to answer, or None.
FailedCall(i) == IF entries[i].owner_live /\ ~ending THEN entries[i].call ELSE None

\* native_failed reports LastWindowClosed: the deferred check is consumed.
FailureIsLast(i) ==
  /\ deferred_last_window
  /\ FailedCall(i) # None
  /\ \A j \in (DOMAIN entries) \ {i} : entries[j].phase = "Destroyed"

\* native_failed
BuildFails(i, build) ==
  /\ IsFirst(i, WithBuild(build))
  /\ \/ entries[i].phase = "Opening"
     \/ entries[i].phase = "Closing" /\ entries[i].view = None
  /\ SetEntry(i, BuildLost(entries[i]))
  /\ deferred_last_window' = (deferred_last_window /\ ~FailureIsLast(i))

\* set_maximized, set_full_screen: an admitted setter spends the adoption mark,
\* also when the phase then refuses it.
Setter(o, w) ==
  /\ Admitted(o, w)
  /\ SetEntry(w.id, Touched(entries[w.id]))
  /\ UNCHANGED deferred_last_window

\* native_fact on a shown window, from native_bounds, native_focus,
\* native_maximized and native_full_screen.
FactUpdates(i, v, a, x) ==
  /\ IsFirst(i, WithView(v))
  /\ Shown(entries[i])
  /\ SetEntry(i, [entries[i] EXCEPT !.state = [@ EXCEPT ![a] = x]])
  /\ UNCHANGED deferred_last_window

SaturatingInc(n) == IF n < DropLimit THEN n + 1 ELSE n

\* native_fact on a window in teardown or on a tombstone.
FactDrops(i, v) ==
  /\ IsFirst(i, WithView(v))
  /\ \/ /\ entries[i].phase = "Closing"
        /\ SetEntry(i, [entries[i] EXCEPT !.dropped = SaturatingInc(@)])
     \/ /\ entries[i].phase = "Destroyed"
        /\ destroyed_fact_drops' = SaturatingInc(destroyed_fact_drops)
        /\ UNCHANGED <<ready, ending, last_id, last_incarnation, entries>>
  /\ UNCHANGED deferred_last_window

CloseSeqLeft(e) == e.last_close_seq + 1 <= CloseSeqLimit

\* Mutant: a pending close request is asked again.
NativeClose_Again(i, v) ==
  /\ IsFirst(i, WithView(v))
  /\ Shown(entries[i])
  /\ CloseSeqLeft(entries[i])
  /\ SetEntry(i, CloseAsked(entries[i]))
  /\ UNCHANGED deferred_last_window

\* native_close that starts a close request (begin_close on Open).
NativeClose(i, v) ==
  /\ IsFirst(i, WithView(v))
  /\ entries[i].phase = "Open"
  /\ CloseSeqLeft(entries[i])
  /\ SetEntry(i, CloseAsked(entries[i]))
  /\ UNCHANGED deferred_last_window

\* request_close that starts a close request.
RequestClose(o, w) ==
  /\ Admitted(o, w)
  /\ entries[w.id].phase = "Open"
  /\ CloseSeqLeft(entries[w.id])
  /\ SetEntry(w.id, CloseAsked(Touched(entries[w.id])))
  /\ UNCHANGED deferred_last_window

\* Any other admitted request_close: merged, already closing or refused.
RequestCloseIdle(o, w) ==
  /\ Admitted(o, w)
  /\ ~(entries[w.id].phase = "Open" /\ CloseSeqLeft(entries[w.id]))
  /\ SetEntry(w.id, Touched(entries[w.id]))
  /\ UNCHANGED deferred_last_window

ReplyIsCurrent(w, seq) ==
  entries[w.id].phase = "ClosePending" /\ entries[w.id].close_seq = seq

\* close_reply with verdict "Allow" or "Veto".
CloseReply(o, w, seq, verdict) ==
  /\ Admitted(o, w)
  /\ LET e == Touched(entries[w.id])
     IN  SetEntry(w.id, IF ~ReplyIsCurrent(w, seq) THEN e
                        ELSE IF verdict = "Veto" THEN Reopened(e)
                        ELSE Torn(e))
  /\ UNCHANGED deferred_last_window

\* The WindowError destroy returns for an admitted call, or "ok".
destroy_error(w) ==
  IF Len(entries[w.id].destroy_calls) >= MAX_PENDING_DESTROYS_PER_WINDOW
  THEN "PendingDestroyCapacity"
  ELSE IF entries[w.id].phase = "Opening" THEN "StaleWindow"
  ELSE "ok"

\* destroy: the reply waits for native_released.
Destroy(o, w, c) ==
  /\ Admitted(o, w)
  /\ destroy_error(w) = "ok"
  /\ LET e == DestroyWaiting(Touched(entries[w.id]), [owner |-> o, correlation |-> c])
     IN  SetEntry(w.id, IF Shown(e) THEN Torn(e) ELSE e)
  /\ UNCHANGED deferred_last_window

\* destroy refused after admission.
DestroyRefused(o, w) ==
  /\ Admitted(o, w)
  /\ destroy_error(w) # "ok"
  /\ SetEntry(w.id, Touched(entries[w.id]))
  /\ UNCHANGED deferred_last_window

\* native_released writes Destroyed to the entry's owner.
ReleaseHasFact(i) == entries[i].created /\ entries[i].owner_live

\* ... and reports LastWindowClosed.
ReleaseIsLast(i) ==
  /\ ReleaseHasFact(i) /\ ~ending
  /\ \A j \in (DOMAIN entries) \ {i} : entries[j].phase = "Destroyed"

\* Mutant: the check is never deferred.
NativeReleased_NoDeferral(i, v) ==
  /\ IsFirst(i, WithView(v))
  /\ entries[i].phase = "Closing" /\ entries[i].view # None
  /\ SetEntry(i, Released(entries[i]))
  /\ deferred_last_window' = (deferred_last_window /\ ~ReleaseIsLast(i))

\* native_released of a window in teardown.
NativeReleased(i, v) ==
  /\ IsFirst(i, WithView(v))
  /\ entries[i].phase = "Closing" /\ entries[i].view # None
  /\ SetEntry(i, Released(entries[i]))
  /\ deferred_last_window' =
       IF ~ReleaseHasFact(i) \/ ending THEN deferred_last_window
       ELSE IF ReleaseIsLast(i) THEN FALSE
       ELSE deferred_last_window \/ only_opening_windows(entries')

OwnedLive(o) == {i \in DOMAIN entries : entries[i].owner = o /\ entries[i].owner_live}

role_lost(o) ==
  /\ entries' = [i \in DOMAIN entries |->
                   IF i \in OwnedLive(o) THEN Orphaned(entries[i]) ELSE entries[i]]
  /\ deferred_last_window' = (deferred_last_window /\ OwnedLive(o) = {})
  /\ UNCHANGED <<ready, ending, last_id, last_incarnation, destroyed_fact_drops>>

subscribe_successor(o) ==
  /\ entries' = [i \in DOMAIN entries |->
                   IF ~entries[i].owner_live /\ Shown(entries[i])
                   THEN Inherited(entries[i], o) ELSE entries[i]]
  /\ UNCHANGED <<ready, ending, last_id, last_incarnation,
                 deferred_last_window, destroyed_fact_drops>>

\* Mutant: a window closed during the recovery gap is not replayed.
Replayed_OpenOnly(o, es) ==
  {i \in DOMAIN es : es[i].phase = "Open" /\ es[i].owner_live /\ es[i].owner = o}

\* The windows replay(o) describes in its Created events.
Replayed(o, es) == {i \in DOMAIN es : Shown(es[i]) /\ es[i].owner_live /\ es[i].owner = o}

take_destroyed_fact_drops ==
  /\ destroyed_fact_drops' = 0
  /\ UNCHANGED <<ready, ending, last_id, last_incarnation, entries,
                 deferred_last_window>>

session_end ==
  /\ ending' = TRUE
  /\ ready' = FALSE
  /\ deferred_last_window' = FALSE
  /\ entries' = [i \in DOMAIN entries |-> Ended(entries[i])]
  /\ UNCHANGED <<last_id, last_incarnation, destroyed_fact_drops>>

\* The views session_end hands out for teardown.
SessionTeardowns == {entries[i].view : i \in {j \in DOMAIN entries : Shown(entries[j])}}

-----------------------------------------------------------------------------
(* The registry alone, under any caller that keeps the router's contract:  *)
(* a correlation is not admitted while it is pending, and the UI thread    *)
(* never reuses a view.                                                    *)

Verdicts == {"Allow", "Veto"}

AppCall(o) ==
  \/ \E i \in DOMAIN entries : CreateAdopts(o, i)
  \/ \E c \in Correlations : ~has_pending_call(o, c) /\ CreateBuilds(o, c)
  \/ \E w \in WindowRef :
       \/ Setter(o, w)
       \/ RequestClose(o, w)
       \/ RequestCloseIdle(o, w)
       \/ \E seq \in 0..CloseSeqLimit, d \in Verdicts : CloseReply(o, w, seq, d)
       \/ \E c \in Correlations : ~has_pending_call(o, c) /\ Destroy(o, w, c)
       \/ DestroyRefused(o, w)

NativeInput ==
  \/ \E i \in DOMAIN entries, build \in 1..IncarnationLimit :
       \/ \E v \in Views, s \in WindowStates :
            /\ WithView(v) = {}
            /\ BuiltCreates(i, build, v, s) \/ BuiltCleansUp(i, build, v, s)
       \/ BuildFails(i, build)
  \/ \E i \in DOMAIN entries, v \in Views :
       \/ \E a \in Attrs, x \in Values : FactUpdates(i, v, a, x)
       \/ FactDrops(i, v)
       \/ NativeClose(i, v)
       \/ NativeReleased(i, v)

Session ==
  \/ mark_ready
  \/ \E o \in Owners : role_lost(o) \/ subscribe_successor(o)
  \/ take_destroyed_fact_drops
  \/ session_end

RegistryNext == (\E o \in Owners : AppCall(o)) \/ NativeInput \/ Session

RegistrySpec == RegistryInit /\ [][RegistryNext]_registryVars

-----------------------------------------------------------------------------
(* Safety.                                                                 *)

\* A correlation the registry retains (an admitted Create in Opening, an
\* admitted Destroy in destroy_calls) always has a live owner to answer and a
\* native receipt that will answer it: a Create is retained only while its
\* build is outstanding, a Destroy only on a window whose view is in teardown.
CallsAwaitAReceipt ==
  \A i \in DOMAIN entries :
    LET e == entries[i]
    IN  /\ e.phase = "Opening" =>
             /\ e.owner_live /\ ~ending
             /\ e.call # None /\ e.call.owner = e.owner
        /\ e.destroy_calls # <<>> =>
             /\ e.owner_live /\ e.phase = "Closing" /\ e.view # None
             /\ \A k \in 1..Len(e.destroy_calls) : e.destroy_calls[k].owner = e.owner

\* No (owner, correlation) is retained twice, so no call is answered twice.
CorrelationsParkedOnce ==
  \A i, j \in DOMAIN entries :
    /\ i # j /\ entries[i].phase = "Opening" /\ entries[j].phase = "Opening"
         => entries[i].call # entries[j].call
    /\ \A k \in 1..Len(entries[i].destroy_calls) :
         /\ entries[j].phase = "Opening" => entries[i].destroy_calls[k] # entries[j].call
         /\ \A l \in 1..Len(entries[j].destroy_calls) :
              entries[i].destroy_calls[k] = entries[j].destroy_calls[l] => i = j /\ k = l

\* deferred_last_window is set only while every live window is still Opening,
\* so the outcome of a build always settles it: no LastWindowClosed is owed
\* with nothing left to trigger it, and none is owed beside a shown window.
DeferralWaitsForABuild ==
  deferred_last_window => ~ending /\ only_opening_windows(entries)

\* The pending-Destroy budget and the cumulative identity budget are never
\* exceeded, however long a native release stalls.
BudgetsHold ==
  /\ last_id <= PROPOSED_MAX_CUMULATIVE_WINDOW_IDS
  /\ \A i \in DOMAIN entries :
       Len(entries[i].destroy_calls) <= MAX_PENDING_DESTROYS_PER_WINDOW

\* The lookups by view and by build token are unambiguous: no two entries,
\* tombstones included, share a view or an incarnation, and both counters
\* move together.
LookupsUnambiguous ==
  /\ last_incarnation = last_id
  /\ \A i, j \in DOMAIN entries :
       i # j => /\ entries[i].incarnation # entries[j].incarnation
                /\ entries[i].view = entries[j].view => entries[i].view = None

\* Once the session end has started nothing is served and every window is in
\* teardown or gone, builds that finish late included.
EndingTearsDownAll ==
  ending => /\ ~ready
            /\ \A i \in DOMAIN entries : entries[i].phase \in {"Closing", "Destroyed"}

\* The adoption mark names a window a successor can really take over: its own,
\* still shown, in a session that is not ending.
AdoptionIsSound ==
  \A i \in DOMAIN entries :
    entries[i].adoptable => entries[i].owner_live /\ Shown(entries[i]) /\ ~ending

\* What a phase implies about the rest of its entry, end being "ending".
EntryInv(e, end) ==
  /\ e \in Entry
  /\ e.phase = "Opening" =>
       /\ e.call \in PendingWindowCall /\ e.call.owner = e.owner
       /\ e.view = None /\ e.owner_live /\ ~end /\ e.destroy_calls = <<>>
  /\ Shown(e) =>
       /\ e.view \in Views /\ e.state \in WindowStates
       /\ ~end /\ e.destroy_calls = <<>>
  /\ e.phase = "Closing" /\ e.view = None => ~e.owner_live \/ end
  /\ e.destroy_calls # <<>> =>
       /\ e.owner_live /\ e.phase = "Closing" /\ e.view # None
       /\ \A k \in 1..Len(e.destroy_calls) : e.destroy_calls[k].owner = e.owner
  /\ e.adoptable => e.owner_live /\ Shown(e)
  /\ Len(e.destroy_calls) <= MAX_PENDING_DESTROYS_PER_WINDOW

\* A view names one window, tombstones included.
ViewsDistinct ==
  \A i, j \in 1..last_id :
    i # j /\ entries[i].view = entries[j].view => entries[i].view = None

\* What the registry knows is consistent, across windows and with the session:
\* each phase fixes what its entry holds, an ended session shows and builds
\* nothing, the two identity counters name the entries, no two windows share a
\* view, the budgets hold, and a deferred LastWindowClosed waits for a build.
\* This is the inductive invariant of the proofs.
RegistryInv ==
  /\ RegistryTypeOK
  /\ last_incarnation = last_id
  /\ last_id <= PROPOSED_MAX_CUMULATIVE_WINDOW_IDS
  /\ ending => ~ready
  /\ \A i \in 1..last_id : EntryInv(entries[i], ending) /\ entries[i].incarnation = i
  /\ ViewsDistinct
  /\ DeferralWaitsForABuild

\* What no step may do to a window: forget it, reissue its identity, bring it
\* back from teardown or from the dead, or number two of its close requests
\* alike (a late reply to one would settle the other).
LifecycleOnlyForward ==
  [][\A i \in DOMAIN entries :
       /\ i \in DOMAIN entries'
       /\ entries'[i].incarnation = entries[i].incarnation
       /\ entries[i].phase = "Closing" => entries'[i].phase \in {"Closing", "Destroyed"}
       /\ entries[i].phase = "Destroyed" =>
            entries'[i].phase = "Destroyed" /\ entries'[i].view = entries[i].view
       /\ entries[i].phase # "ClosePending" /\ entries'[i].phase = "ClosePending"
            => entries'[i].close_seq > entries[i].last_close_seq
       /\ entries'[i].last_close_seq >= entries[i].last_close_seq]_registryVars

=============================================================================
