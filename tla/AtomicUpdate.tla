---------------------------- MODULE AtomicUpdate ----------------------------
(***************************************************************************)
(* What an update promises to an installation, without journal, leases,    *)
(* crashes or recovery: a version is tried once, at most one at a time; it *)
(* either becomes the known-good version, in one step that also selects it *)
(* and keeps its predecessor, or leaves nothing behind but the raised      *)
(* trust floor.  UpdateActivation implements it.                           *)
(***************************************************************************)
EXTENDS Naturals

CONSTANTS
  Baseline,    \* the installed version
  Candidates,  \* the versions an update may offer
  None

VARIABLES
  floor,     \* no version at or below the floor is ever tried (again)
  known,     \* the last known good version
  previous,  \* the known good version before it, or None
  selected,  \* the version a start runs, or None when its record is unreadable
  trying     \* the version on trial, or None

atomicVars == <<floor, known, previous, selected, trying>>

AtomicInit ==
  /\ floor = Baseline
  /\ known = Baseline
  /\ previous = None
  /\ selected = Baseline
  /\ trying = None

\* A newer version is put on trial; the floor rises for good.
Try(v) ==
  /\ trying = None
  /\ selected # None
  /\ v > floor
  /\ floor' = v
  /\ trying' = v
  /\ UNCHANGED <<known, previous, selected>>

\* The version on trial becomes known good and selected.
Commit ==
  /\ trying # None
  /\ known' = trying
  /\ previous' = known
  /\ selected' = trying
  /\ trying' = None
  /\ UNCHANGED floor

\* The version on trial fails; nothing else changes.
Fail ==
  /\ trying # None
  /\ trying' = None
  /\ UNCHANGED <<floor, known, previous, selected>>

\* The record of the selected version is lost, and restored from the known good.
Lose ==
  /\ trying = None
  /\ selected' = None
  /\ UNCHANGED <<floor, known, previous, trying>>

Restore ==
  /\ selected = None
  /\ selected' = known
  /\ UNCHANGED <<floor, known, previous, trying>>

AtomicNext ==
  \/ \E v \in Candidates : Try(v)
  \/ Commit
  \/ Fail
  \/ Lose
  \/ Restore

AtomicSpec == AtomicInit /\ [][AtomicNext]_atomicVars
=============================================================================
