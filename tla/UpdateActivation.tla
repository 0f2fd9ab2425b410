-------------------------- MODULE UpdateActivation --------------------------
(***************************************************************************)
(* Installing an update on Windows (crates/keld-update/src): the journaled *)
(* transaction that publishes a staged version, raises the trust floor,    *)
(* selects the version, waits for its health and then commits it or rolls  *)
(* back, and the recovery that continues it after a crash                  *)
(* (activation.rs, windows_baseline/activate.rs, windows_baseline/load.rs, *)
(* windows_extraction.rs).                                                 *)
(*                                                                         *)
(* The installation directory is the only state that survives.  Every      *)
(* record is replaced by one write-through rename, so one durable write is *)
(* one action, and a crash falls between any two of them.  One owner at a  *)
(* time holds the share-zero writer lease; its transaction repeats the     *)
(* slots it has read or written, so the model reads the directory.         *)
(*                                                                         *)
(* A version stands for its whole artifact identity.  The coordinator that *)
(* launches the candidate, and the keeper that attests that a process      *)
(* family is gone, are external.                                           *)
(***************************************************************************)
EXTENDS Naturals, FiniteSets

CONSTANTS
  Baseline,     \* the installed version
  Candidates,   \* the versions an update may offer
  StageNames,   \* the random names of extracted stages
  None,
  MaxAttempts,  \* bound: attempts begun
  MaxCrashes,   \* bound: owners lost, each by a crash or by a refused step
  MaxSteps      \* MAX_STEPS_PER_RUN

Versions == {Baseline} \cup Candidates

ASSUME VersionsAssumption ==
  /\ Baseline \in Nat
  /\ Candidates \subseteq Nat
  /\ \A v \in Candidates : v > Baseline
  /\ None \notin Versions

Phases == {"PublishPending", "AwaitingHealth", "HealthAccepted", "RollbackPending"}

\* ActivationJournal.  attempt is the attempt identity; channels stands for the
\* health and the lifecycle channel identities, which are minted together.
Journals ==
  [attempt : Nat, channels : Nat, candidate : Versions,
   rollback_target : Versions, prior_floor : Versions,
   prior_last_known_good : Versions,
   prior_previous_known_good : Versions \cup {None}, phase : Phases]

ASSUME NoneAssumption == None \notin StageNames /\ None \notin Journals

ASSUME BoundsAssumption ==
  MaxAttempts \in Nat /\ MaxCrashes \in Nat /\ MaxSteps \in Nat

VARIABLES
  \* the installation directory
  version_floor,
  current,              \* None: absent or does not decode
  last_known_good,
  previous_known_good,  \* or None
  journal,              \* the activation journal, or None
  versions,             \* each version directory: "absent", "intact" or "damaged"
  stages,               \* completed stages, by name
  \* the holder of the writer lease
  owner,                \* what it does next; "none" when the lease is free
  draft,                \* minted, not yet journaled
  stage,                \* Transaction::stage
  steps,                \* iterations of the current advance()
  \* the world
  launched,             \* the live owner has launched its candidate
  families,             \* live process families: the baseline's host and candidates
  attempts, mints,      \* attempt and channel identities minted so far
  crashes

slotVars == <<version_floor, current, last_known_good, previous_known_good>>
dirVars == <<versions, stages>>
ownerVars == <<owner, draft, stage, steps>>
worldVars == <<launched, families>>
countVars == <<attempts, mints, crashes>>
vars == <<version_floor, current, last_known_good, previous_known_good, journal,
          versions, stages, owner, draft, stage, steps, launched, families,
          attempts, mints, crashes>>

Stages == [name : StageNames, version : Candidates, intact : BOOLEAN]

OwnerStates ==
  {"none", "staged", "minted", "advancing", "replacing", "waiting", "accepted"}

Copies == {"absent", "intact", "damaged"}

\* Type invariant.  The comment at MAX_STEPS_PER_RUN counts the longest run of
\* advance() as five iterations; a run that reached the limit would refuse.
InstallTypeOK ==
  /\ version_floor \in Versions
  /\ current \in Versions \cup {None}
  /\ last_known_good \in Versions
  /\ previous_known_good \in Versions \cup {None}
  /\ journal \in Journals \cup {None}
  /\ versions \in [Versions -> Copies]
  /\ stages \subseteq Stages
  /\ owner \in OwnerStates
  /\ draft \in Journals \cup {None}
  /\ stage \in StageNames \cup {None}
  /\ steps \in 0 .. 5
  /\ launched \in BOOLEAN
  /\ families \subseteq [attempt : Nat, channels : Nat, version : Versions]
  /\ attempts \in Nat /\ mints \in Nat /\ crashes \in Nat

-----------------------------------------------------------------------------
\* What the loaders admit.

Slots == {current, last_known_good, previous_known_good} \ {None}

Present == {v \in Versions : versions[v] # "absent"}

AllIntact(vs) == \A v \in vs : versions[v] = "intact"

\* validate_writer_pointer_context, for the pointer cur in the place of current.
PointerContext(cur) ==
  /\ last_known_good = Baseline \/ previous_known_good # None
  /\ cur # None
  /\ cur \in {last_known_good, previous_known_good}
  /\ cur <= version_floor /\ last_known_good <= version_floor
  /\ previous_known_good # None => previous_known_good < last_known_good

\* The writer loader, the startup selection and, with last-known-good standing as
\* current, the repair: no journal, valid pointers, and only referenced versions.
Admits(cur) ==
  LET selected == {cur, last_known_good, previous_known_good} \ {None} IN
  /\ journal = None
  /\ PointerContext(cur)
  /\ Present \subseteq selected
  /\ AllIntact(selected)

\* validate_activation_journal.
ValidJournal(j) ==
  /\ j.candidate > j.prior_floor
  /\ j.rollback_target <= j.prior_floor /\ j.prior_last_known_good <= j.prior_floor
  /\ j.prior_previous_known_good # None =>
       j.prior_previous_known_good < j.prior_last_known_good
  /\ j.rollback_target \in {j.prior_last_known_good, j.prior_previous_known_good}

PriorSlots(j) ==
  /\ last_known_good = j.prior_last_known_good
  /\ previous_known_good = j.prior_previous_known_good

CommitSlots(j) ==
  \/ /\ last_known_good = j.prior_last_known_good
     /\ previous_known_good \in {j.prior_previous_known_good, j.prior_last_known_good}
  \/ /\ last_known_good = j.candidate
     /\ previous_known_good = j.prior_last_known_good

\* classify_protected_recovery_state.
Classify(j) ==
  CASE ~ValidJournal(j) -> "Refuse"
    [] ValidJournal(j) /\ j.phase = "PublishPending" ->
         IF ~PriorSlots(j) THEN "Refuse"
         ELSE IF current = j.rollback_target /\ version_floor = j.prior_floor
              THEN "ResumeAtPriorFloor"
         ELSE IF current = j.rollback_target /\ version_floor = j.candidate
              THEN "ResumeAtCandidateFloor"
         ELSE IF current = j.candidate /\ version_floor = j.candidate
              THEN "ResumeCandidateHealth" ELSE "Refuse"
    [] ValidJournal(j) /\ j.phase = "AwaitingHealth" ->
         IF PriorSlots(j) /\ version_floor = j.candidate /\ current = j.candidate
         THEN "Rollback" ELSE "Refuse"
    [] ValidJournal(j) /\ j.phase = "HealthAccepted" ->
         IF version_floor = j.candidate /\ current = j.candidate /\ CommitSlots(j)
         THEN "FinishCommit" ELSE "Refuse"
    [] ValidJournal(j) /\ j.phase = "RollbackPending" ->
         IF /\ version_floor = j.candidate /\ PriorSlots(j)
            /\ current \in {j.candidate, j.rollback_target}
         THEN "FinishRollback" ELSE "Refuse"

\* retirement_due: the version the journal lets go, or None.
RetirementDue(j) ==
  IF /\ j.phase = "HealthAccepted" /\ last_known_good = j.candidate
     /\ previous_known_good = j.prior_last_known_good
  THEN j.prior_previous_known_good
  ELSE IF j.phase = "RollbackPending" /\ current = j.rollback_target
  THEN j.candidate ELSE None

RetireeGone_Ignored(j) == FALSE
RetireeGone(j) == RetirementDue(j) = None \/ RetirementDue(j) \notin Present

Location(j) ==
  IF j.candidate \in Present THEN "Published"
  ELSE IF stage # None THEN "Staged" ELSE "Absent"

CommitStep(j) ==
  IF last_known_good = j.candidate
  THEN IF RetireeGone(j) THEN "RemoveJournal" ELSE "RetireVersion"
  ELSE IF previous_known_good = j.prior_last_known_good THEN "CommitCandidate"
  ELSE "PreservePriorKnownGood"

RollbackStep_SkipsRestore(j) ==
  IF RetireeGone(j) THEN "RemoveJournal" ELSE "RetireVersion"
RollbackStep(j) ==
  IF current = j.candidate THEN "RestoreRollbackTarget"
  ELSE IF RetireeGone(j) THEN "RemoveJournal" ELSE "RetireVersion"

\* next_activation_step: forward progress and recovery take the same next step.
NextStep(j) ==
  CASE Classify(j) = "Refuse" -> "Refuse"
    [] Classify(j) = "ResumeAtPriorFloor" ->
         IF Location(j) = "Published" THEN "AdvanceFloor"
         ELSE IF Location(j) = "Staged" THEN "PublishCandidate" ELSE "AbandonAttempt"
    [] Classify(j) = "ResumeAtCandidateFloor" ->
         IF Location(j) = "Published" THEN "SelectCandidate" ELSE "Refuse"
    [] Classify(j) = "ResumeCandidateHealth" -> "EnterAwaitingHealth"
    [] Classify(j) = "Rollback" -> "AwaitHealth"
    [] Classify(j) = "FinishCommit" -> CommitStep(j)
    [] Classify(j) = "FinishRollback" -> RollbackStep(j)

Unpublished(j) == j.phase = "PublishPending" /\ version_floor = j.prior_floor

\* load_windows_recovery_inspection: the state it admits for recovery.  Only the
\* version about to be retired and an unverified candidate need not be intact.
RecoveryAdmits_PinsRetiree(j) ==
  LET byName == IF Unpublished(j) THEN {j.candidate} ELSE {}
      selected == (Slots \cup {j.candidate, j.rollback_target, j.prior_last_known_good,
                               j.prior_previous_known_good}) \ (byName \cup {None})
  IN
  /\ current # None
  /\ Classify(j) # "Refuse"
  /\ j.prior_last_known_good = Baseline \/ j.prior_previous_known_good # None
  /\ \A v \in Slots : v <= version_floor
  /\ Present \subseteq selected \cup byName
  /\ AllIntact(selected)
RecoveryAdmits(j) ==
  LET byName == {RetirementDue(j)} \cup (IF Unpublished(j) THEN {j.candidate} ELSE {})
      selected == (Slots \cup {j.candidate, j.rollback_target, j.prior_last_known_good,
                               j.prior_previous_known_good}) \ (byName \cup {None})
  IN
  /\ current # None
  /\ Classify(j) # "Refuse"
  /\ j.prior_last_known_good = Baseline \/ j.prior_previous_known_good # None
  /\ \A v \in Slots : v <= version_floor
  /\ Present \subseteq selected \cup byName
  /\ AllIntact(selected)

\* find_candidate_stage: names are random, so any exact copy may be the lowest.
StagesOf(v) == {s.name : s \in {t \in stages : t.version = v}}

FoundStage(v, found) ==
  IF StagesOf(v) = {} THEN found = None ELSE found \in StagesOf(v)

\* A true statement of the keeper: the family of this pair of identities is gone.
Retired(attempt, channels) ==
  ~ \E f \in families : f.attempt = attempt /\ f.channels = channels

-----------------------------------------------------------------------------
\* Every refusal, crash and resolution releases the lease.
ReleaseLease ==
  /\ owner' = "none"
  /\ draft' = None
  /\ stage' = None
  /\ steps' = 0
  /\ launched' = FALSE

\* The writer loader takes the lease; a verified extraction becomes a completed
\* stage (ExtractedWindowsStage::complete).
CompleteStage(v, name) ==
  /\ owner = "none"
  /\ Admits(current)
  /\ attempts < MaxAttempts
  /\ v > version_floor
  /\ v \notin Present
  /\ name \notin {s.name : s \in stages}
  /\ stages' = stages \cup {[name |-> name, version |-> v, intact |-> TRUE]}
  /\ owner' = "staged"
  /\ stage' = name
  /\ UNCHANGED <<slotVars, journal, versions, draft, steps, worldVars, countVars>>

\* WindowsActivationWriteSnapshot::begin_activation mints and writes nothing.
BeginActivation ==
  /\ owner = "staged"
  /\ \E s \in stages :
       /\ s.name = stage
       /\ draft' = [attempt |-> attempts + 1, channels |-> mints + 1,
                    candidate |-> s.version, rollback_target |-> current,
                    prior_floor |-> version_floor,
                    prior_last_known_good |-> last_known_good,
                    prior_previous_known_good |-> previous_known_good,
                    phase |-> "PublishPending"]
       /\ s.version \notin Slots
  /\ ValidJournal(draft')
  /\ owner' = "minted"
  /\ attempts' = attempts + 1
  /\ mints' = mints + 1
  /\ UNCHANGED <<slotVars, journal, dirVars, stage, steps, worldVars, crashes>>

\* WindowsMintedAttempt::journal: the fresh record, or the re-mint record.
JournalAttempt ==
  /\ owner = "minted"
  /\ journal' = draft
  /\ draft' = None
  /\ owner' = "advancing"
  /\ steps' = 0
  /\ UNCHANGED <<slotVars, dirVars, stage, worldVars, countVars>>

\* One iteration of Transaction::advance.
Due(s) ==
  /\ owner = "advancing"
  /\ steps < MaxSteps
  /\ NextStep(journal) = s

Step(s) == Due(s) /\ steps' = steps + 1

\* publish_candidate: one rename.
PublishStage ==
  \E s \in stages :
    /\ s.name = stage
    /\ versions' = [versions EXCEPT ![journal.candidate] =
                      IF s.intact THEN "intact" ELSE "damaged"]
    /\ stages' = stages \ {s}
    /\ stage' = None

PublishCandidate ==
  /\ Step("PublishCandidate")
  /\ PublishStage
  /\ UNCHANGED <<slotVars, journal, owner, draft, worldVars, countVars>>

\* validate_publication_census: a foreign version keeps the journal and refuses.
PublicationCensus == Present \subseteq Slots \cup {journal.candidate}

\* ensure_candidate_pinned finds the copy intact; then the floor is written.  The
\* pin keeps the copy as verified in between.
AdvanceFloor_Unverified ==
  /\ Step("AdvanceFloor")
  /\ PublicationCensus
  /\ version_floor' = journal.candidate
  /\ UNCHANGED <<current, last_known_good, previous_known_good, journal, dirVars,
                 owner, draft, stage, worldVars, countVars>>
AdvanceFloor ==
  /\ Step("AdvanceFloor")
  /\ PublicationCensus
  /\ versions[journal.candidate] = "intact"
  /\ version_floor' = journal.candidate
  /\ UNCHANGED <<current, last_known_good, previous_known_good, journal, dirVars,
                 owner, draft, stage, worldVars, countVars>>

InUse(v) == \E f \in families : f.version = v

\* retire: refuses a referenced version, then renames the directory away, which the
\* operating system refuses while a process runs from it.
Retire(v) ==
  /\ v \notin Slots
  /\ v \in Present
  /\ ~InUse(v)
  /\ versions' = [versions EXCEPT ![v] = "absent"]

\* ensure_candidate_pinned finds the copy damaged: retired, next copy looked up.
RetireDamaged ==
  /\ \/ Step("AdvanceFloor")
     \/ /\ owner = "replacing" /\ UNCHANGED steps
  /\ PublicationCensus
  /\ versions[journal.candidate] = "damaged"
  /\ Retire(journal.candidate)
  /\ FoundStage(journal.candidate, stage')
  /\ owner' = "replacing"
  /\ UNCHANGED <<slotVars, journal, stages, draft, worldVars, countVars>>

ReplaceCopy ==
  /\ owner = "replacing"
  /\ stage # None
  /\ PublishStage
  /\ UNCHANGED <<slotVars, journal, owner, draft, steps, worldVars, countVars>>

ReplacementVerified ==
  /\ owner = "replacing"
  /\ PublicationCensus
  /\ versions[journal.candidate] = "intact"
  /\ version_floor' = journal.candidate
  /\ owner' = "advancing"
  /\ UNCHANGED <<current, last_known_good, previous_known_good, journal, dirVars,
                 draft, stage, steps, worldVars, countVars>>

\* remove_journal_as: the journal goes first, then leftovers, which may fail or be
\* cut short anywhere.
RemoveJournalAndLeftovers ==
  /\ journal' = None
  /\ stages' \in SUBSET stages
  /\ ReleaseLease

\* With no copy left the attempt is abandoned, and the caller gets the refusal.
NoCopyLeft ==
  /\ owner = "replacing"
  /\ stage = None
  /\ journal.candidate \notin Present
  /\ RemoveJournalAndLeftovers
  /\ UNCHANGED <<slotVars, versions, families, countVars>>

\* Recovery finds neither a published nor a staged candidate.
AbandonAttempt ==
  /\ Due("AbandonAttempt")
  /\ RemoveJournalAndLeftovers
  /\ UNCHANGED <<slotVars, versions, families, countVars>>

SelectCandidate_NotRecorded ==
  /\ Step("SelectCandidate")
  /\ UNCHANGED <<slotVars, journal, dirVars, owner, draft, stage, worldVars, countVars>>
SelectCandidate ==
  /\ Step("SelectCandidate")
  /\ current' = journal.candidate
  /\ UNCHANGED <<version_floor, last_known_good, previous_known_good, journal, dirVars,
                 owner, draft, stage, worldVars, countVars>>

WritePhase(phase) == journal' = [journal EXCEPT !.phase = phase]

EnterAwaitingHealth ==
  /\ Step("EnterAwaitingHealth")
  /\ WritePhase("AwaitingHealth")
  /\ UNCHANGED <<slotVars, dirVars, owner, draft, stage, worldVars, countVars>>

\* advance() returns the live attempt to the coordinator.
AwaitHealth ==
  /\ Step("AwaitHealth")
  /\ owner' = "waiting"
  /\ UNCHANGED <<slotVars, journal, dirVars, draft, stage, worldVars, countVars>>

PreservePriorKnownGood ==
  /\ Step("PreservePriorKnownGood")
  /\ previous_known_good' = journal.prior_last_known_good
  /\ UNCHANGED <<version_floor, current, last_known_good, journal, dirVars,
                 owner, draft, stage, worldVars, countVars>>

CommitCandidate ==
  /\ Step("CommitCandidate")
  /\ last_known_good' = journal.candidate
  /\ UNCHANGED <<version_floor, current, previous_known_good, journal, dirVars,
                 owner, draft, stage, worldVars, countVars>>

RestoreRollbackTarget ==
  /\ Step("RestoreRollbackTarget")
  /\ current' = journal.rollback_target
  /\ UNCHANGED <<version_floor, last_known_good, previous_known_good, journal, dirVars,
                 owner, draft, stage, worldVars, countVars>>

RetireVersion ==
  /\ Step("RetireVersion")
  /\ Retire(RetirementDue(journal))
  /\ UNCHANGED <<slotVars, journal, stages, owner, draft, stage, worldVars, countVars>>

\* The rename is refused; the journal stays for a later recovery.
RetireRefused ==
  /\ Due("RetireVersion")
  /\ InUse(RetirementDue(journal))
  /\ ReleaseLease
  /\ UNCHANGED <<slotVars, journal, dirVars, families, countVars>>

RemoveJournal ==
  /\ Due("RemoveJournal")
  /\ RemoveJournalAndLeftovers
  /\ UNCHANGED <<slotVars, versions, families, countVars>>

-----------------------------------------------------------------------------
\* The live attempt at its health decision, and the coordinator's side (external).

LaunchCandidate ==
  /\ owner = "waiting"
  /\ ~launched
  /\ launched' = TRUE
  /\ families' = families \cup {[attempt |-> journal.attempt,
                                 channels |-> journal.channels,
                                 version |-> journal.candidate]}
  /\ UNCHANGED <<slotVars, journal, dirVars, ownerVars, countVars>>

\* A process family ends: its application is closed, fails, or is ended by its keeper.
FamilyExits(f) ==
  /\ families' = families \ {f}
  /\ UNCHANGED <<slotVars, journal, dirVars, ownerVars, launched, countVars>>

\* WindowsActivationAttempt::accept_health with the receipt of a live candidate.
AcceptHealth(f) ==
  /\ owner = "waiting"
  /\ f.attempt = journal.attempt
  /\ f.channels = journal.channels
  /\ f.version = journal.candidate
  /\ WritePhase("HealthAccepted")
  /\ owner' = "accepted"
  /\ UNCHANGED <<slotVars, dirVars, draft, stage, steps, worldVars, countVars>>

\* WindowsHealthAcceptedAttempt::complete.
Complete ==
  /\ owner = "accepted"
  /\ owner' = "advancing"
  /\ steps' = 0
  /\ launched' = FALSE
  /\ UNCHANGED <<slotVars, journal, dirVars, draft, stage, families, countVars>>

\* require_retirement_binding: the evidence names this attempt and its channel.
RetirementBound_AnyOwner == \E c \in 0 .. mints : Retired(journal.attempt, c)
RetirementBound == Retired(journal.attempt, journal.channels)

\* WindowsActivationAttempt::roll_back.
RollBack ==
  /\ owner = "waiting"
  /\ RetirementBound
  /\ WritePhase("RollbackPending")
  /\ owner' = "advancing"
  /\ steps' = 0
  /\ launched' = FALSE
  /\ UNCHANGED <<slotVars, dirVars, draft, stage, families, countVars>>

-----------------------------------------------------------------------------
\* Recovery: the next owner takes the free lease and inspects the journal.

Inspect == owner = "none" /\ journal # None /\ RecoveryAdmits(journal)

\* Transaction::remint, with the stage located by the inspection.
Remint ==
  /\ journal.phase = "PublishPending"
  /\ IF Unpublished(journal) /\ journal.candidate \notin Present
     THEN FoundStage(journal.candidate, stage')
     ELSE stage' = None
  /\ draft' = [journal EXCEPT !.channels = mints + 1]
  /\ mints' = mints + 1
  /\ owner' = "minted"
  /\ UNCHANGED <<slotVars, journal, dirVars, steps, worldVars, attempts, crashes>>

\* WindowsRecoveryInspection::resume_unlaunched.
ResumeUnlaunched == Inspect /\ Remint

\* WindowsRecoveryInspection::recover.
Recover ==
  /\ Inspect
  /\ RetirementBound
  /\ \/ Remint
     \/ /\ journal.phase # "PublishPending"
        /\ IF journal.phase = "AwaitingHealth"
           THEN WritePhase("RollbackPending")
           ELSE UNCHANGED journal
        /\ owner' = "advancing"
        /\ UNCHANGED <<slotVars, dirVars, draft, stage, steps, worldVars, countVars>>

\* repair_invalid_current, the writer of a per-user start.
RepairInvalidCurrent ==
  /\ owner = "none"
  /\ current = None
  /\ Admits(last_known_good)
  /\ current' = last_known_good
  /\ UNCHANGED <<version_floor, last_known_good, previous_known_good, journal, dirVars,
                 ownerVars, worldVars, countVars>>

-----------------------------------------------------------------------------
\* Faults.

\* The owner is lost between two durable writes, or one of its steps refuses.
Crash ==
  /\ owner # "none"
  /\ crashes < MaxCrashes
  /\ crashes' = crashes + 1
  /\ ReleaseLease
  /\ UNCHANGED <<slotVars, journal, dirVars, families, attempts, mints>>

\* A copy that no one has verified since its rename, or a stage, goes bad.
DamageStage(s) ==
  /\ s.intact
  /\ stages' = (stages \ {s}) \cup {[s EXCEPT !.intact = FALSE]}
  /\ UNCHANGED <<slotVars, journal, versions, ownerVars, worldVars, countVars>>

DamageCandidate ==
  /\ journal # None
  /\ Unpublished(journal)
  /\ versions[journal.candidate] = "intact"
  /\ versions' = [versions EXCEPT ![journal.candidate] = "damaged"]
  /\ UNCHANGED <<slotVars, journal, stages, ownerVars, worldVars, countVars>>

\* The current record becomes unreadable while no update is pending.
LoseCurrent ==
  /\ owner = "none"
  /\ journal = None
  /\ current # None
  /\ current' = None
  /\ UNCHANGED <<version_floor, last_known_good, previous_known_good, journal, dirVars,
                 ownerVars, worldVars, countVars>>

-----------------------------------------------------------------------------
\* The committed baseline of the initializer, with its host running.
Init ==
  /\ version_floor = Baseline
  /\ current = Baseline
  /\ last_known_good = Baseline
  /\ previous_known_good = None
  /\ journal = None
  /\ versions = [v \in Versions |-> IF v = Baseline THEN "intact" ELSE "absent"]
  /\ stages = {}
  /\ owner = "none" /\ draft = None /\ stage = None /\ steps = 0
  /\ launched = FALSE
  /\ families = {[attempt |-> 0, channels |-> 0, version |-> Baseline]}
  /\ attempts = 0 /\ mints = 0 /\ crashes = 0

Advance ==
  \/ PublishCandidate
  \/ AdvanceFloor
  \/ RetireDamaged
  \/ ReplaceCopy
  \/ ReplacementVerified
  \/ NoCopyLeft
  \/ AbandonAttempt
  \/ SelectCandidate
  \/ EnterAwaitingHealth
  \/ AwaitHealth
  \/ PreservePriorKnownGood
  \/ CommitCandidate
  \/ RestoreRollbackTarget
  \/ RetireVersion
  \/ RetireRefused
  \/ RemoveJournal

Begin ==
  \/ \E v \in Candidates, name \in StageNames : CompleteStage(v, name)
  \/ BeginActivation
  \/ JournalAttempt

Resolve ==
  \/ LaunchCandidate
  \/ \E f \in families : AcceptHealth(f)
  \/ RollBack
  \/ Complete

Restart ==
  \/ ResumeUnlaunched
  \/ Recover
  \/ RepairInvalidCurrent

Faults ==
  \/ Crash
  \/ \E s \in stages : DamageStage(s)
  \/ DamageCandidate
  \/ LoseCurrent

Next ==
  \/ Begin
  \/ Advance
  \/ Resolve
  \/ Restart
  \/ Faults
  \/ \E f \in families : FamilyExits(f)

Spec == Init /\ [][Next]_vars

\* The owner's code runs on; a pending journal is picked up by a later start; a
\* process family ends sooner or later.  Nothing makes a candidate healthy.
FairSpec ==
  /\ Spec
  /\ WF_vars(JournalAttempt)
  /\ WF_vars(Advance)
  /\ WF_vars(Complete)
  /\ WF_vars(RollBack)
  /\ WF_vars(Recover \/ ResumeUnlaunched)
  /\ WF_vars(\E f \in families : FamilyExits(f))

-----------------------------------------------------------------------------
\* The inductive invariant.

\* With no journal: current is the last known good version or unreadable, and the
\* versions on disk are exactly the known good ones.
RestInv ==
  LET kept == {last_known_good, previous_known_good} \ {None} IN
  journal = None =>
    /\ owner \in {"none", "staged", "minted"}
    /\ current = last_known_good \/ (current = None /\ owner = "none")
    /\ PointerContext(last_known_good)
    /\ Present = kept /\ AllIntact(kept)
    /\ owner = "minted" =>
         /\ draft # None /\ draft.phase = "PublishPending"
         /\ draft.candidate \in Candidates /\ ValidJournal(draft)
         /\ PriorSlots(draft) /\ draft.prior_floor = version_floor
         /\ draft.rollback_target = last_known_good

\* With a journal: the slots and the candidate's copy agree with its phase, and the
\* directory holds the prior known good versions and perhaps the candidate.
PhaseInv(j) ==
  \/ /\ j.phase = "PublishPending" /\ PriorSlots(j)
     /\ \/ version_floor = j.prior_floor /\ current = j.rollback_target
        \/ /\ version_floor = j.candidate /\ versions[j.candidate] = "intact"
           /\ current \in {j.candidate, j.rollback_target}
  \/ /\ j.phase = "AwaitingHealth" /\ PriorSlots(j)
     /\ version_floor = j.candidate /\ current = j.candidate
     /\ versions[j.candidate] = "intact"
  \/ /\ j.phase = "HealthAccepted" /\ CommitSlots(j)
     /\ version_floor = j.candidate /\ current = j.candidate
     /\ versions[j.candidate] = "intact"
  \/ /\ j.phase = "RollbackPending" /\ PriorSlots(j)
     /\ version_floor = j.candidate
     /\ \/ current = j.candidate /\ versions[j.candidate] = "intact"
        \/ current = j.rollback_target /\ versions[j.candidate] # "damaged"

PendingInv ==
  journal # None =>
    /\ owner # "staged"
    /\ journal.candidate \in Candidates /\ ValidJournal(journal)
    /\ journal.rollback_target = journal.prior_last_known_good
    /\ journal.prior_last_known_good = Baseline
         \/ journal.prior_previous_known_good # None
    /\ PhaseInv(journal)
    /\ Present \subseteq {journal.candidate, journal.prior_last_known_good,
                         journal.prior_previous_known_good}
    /\ versions[journal.prior_last_known_good] = "intact"
    /\ journal.prior_previous_known_good # None =>
         \/ versions[journal.prior_previous_known_good] = "intact"
         \/ /\ RetirementDue(journal) = journal.prior_previous_known_good
            /\ versions[journal.prior_previous_known_good] = "absent"
    /\ owner = "minted" =>
         /\ journal.phase = "PublishPending"
         /\ draft # None /\ draft = [journal EXCEPT !.channels = draft.channels]
    /\ owner = "replacing" => Unpublished(journal)
    /\ owner = "waiting" => journal.phase = "AwaitingHealth"
    /\ owner = "accepted" => journal.phase = "HealthAccepted"

\* A family of the candidate on trial is the one this attempt's owner launched.
FamilyInv ==
  \A f \in families :
    /\ f.version <= version_floor
    /\ journal # None /\ f.version = journal.candidate =>
         /\ journal.phase \in {"AwaitingHealth", "HealthAccepted"}
         /\ f.attempt = journal.attempt /\ f.channels = journal.channels

\* How far an advance() has come bounds the iterations it has used.
StepsUsed(j) ==
  CASE j.phase = "PublishPending" ->
         IF version_floor = j.prior_floor
         THEN IF owner = "replacing" THEN 2
              ELSE IF j.candidate \in Present THEN 1 ELSE 0
         ELSE IF current = j.rollback_target THEN 2 ELSE 3
    [] j.phase = "AwaitingHealth" -> IF owner = "waiting" THEN 5 ELSE 4
    [] j.phase = "HealthAccepted" ->
         IF owner = "accepted" THEN 5
         ELSE IF last_known_good = j.candidate
              THEN IF RetireeGone(j) THEN 3 ELSE 2
              ELSE IF previous_known_good = j.prior_last_known_good THEN 1 ELSE 0
    [] j.phase = "RollbackPending" ->
         IF current = j.candidate THEN 0 ELSE IF RetireeGone(j) THEN 2 ELSE 1

StepsInv ==
  /\ journal = None => steps = 0
  /\ owner \in {"none", "staged", "minted"} => steps = 0
  /\ journal # None => steps <= StepsUsed(journal)

\* After every durable write, whoever made it and wherever a crash falls, journal,
\* pointers, floor, the copies on disk and the running families fit one phase of one
\* attempt (next_activation_step, classify_protected_recovery_state), and advance()
\* never uses up MAX_STEPS_PER_RUN.
ActivationInv ==
  /\ InstallTypeOK
  /\ RestInv
  /\ PendingInv
  /\ FamilyInv
  /\ StepsInv

-----------------------------------------------------------------------------
\* Properties.

\* Wherever the owner is lost, the next start is admitted: with no journal the
\* selection or, for an unreadable current, the repair finds valid pointers, no
\* foreign version and every referenced version intact; with a journal the recovery
\* inspection admits it.  A running transaction never meets a state it must refuse.
\* (recovery_decision, load_windows_recovery_inspection, select_committed_package)
StartAdmitted ==
  /\ journal = None /\ owner = "none" =>
       Admits(IF current = None THEN last_known_good ELSE current)
  /\ journal # None /\ owner = "none" => RecoveryAdmits(journal)
  /\ owner = "advancing" => NextStep(journal) # "Refuse"

\* There is always a way back: each of the pointers names an intact version, and
\* while an attempt is pending so does its rollback target.
WayBackKept ==
  /\ AllIntact(Slots)
  /\ journal # None => AllIntact({journal.rollback_target})

\* A rollback is journaled only once the candidate's process family is gone: no
\* process runs a version that is being deselected and retired, even when evidence
\* for an earlier owner of the same attempt is at hand (require_retirement_binding).
RollbackAfterExit ==
  journal # None /\ journal.phase = "RollbackPending" => ~InUse(journal.candidate)

\* The trial, commit and failure of a version are atomic for everyone who reads the
\* installation through its journal: what is known good, what it replaced and what a
\* start selects change together when HealthAccepted becomes durable, or not at all.
Accepted == journal # None /\ journal.phase = "HealthAccepted"

Atomic == INSTANCE AtomicUpdate WITH
  floor <- version_floor,
  known <- IF Accepted THEN journal.candidate ELSE last_known_good,
  previous <- IF Accepted THEN journal.prior_last_known_good ELSE previous_known_good,
  selected <- IF journal = None THEN current
              ELSE IF Accepted THEN journal.candidate ELSE journal.rollback_target,
  trying <- IF /\ journal # None
               /\ journal.phase \in {"AwaitingHealth", "PublishPending"}
               /\ version_floor = journal.candidate
            THEN journal.candidate ELSE None

\* The journaled transaction with all its crashes implements AtomicUpdate.
AtomicToReaders == Atomic!AtomicSpec

\* With finitely many crashes every journaled attempt is resolved.
AttemptsResolve == journal # None ~> journal = None

=============================================================================
