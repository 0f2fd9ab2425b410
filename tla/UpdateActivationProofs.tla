----------------------- MODULE UpdateActivationProofs -----------------------
(***************************************************************************)
(* Proofs about the update transaction, for every set of versions and      *)
(* stages and every bound on attempts, crashes and iterations.             *)
(*                                                                         *)
(* ActivationInv is inductive as the run checks it.  The argument: the     *)
(* phase of the journal fixes the slots, the floor and the candidate's     *)
(* copy (PhaseInv), so next_activation_step can only answer the step meant *)
(* for that state (NextStepPending, NextStepResolved); each action moves   *)
(* one of them and lands in the same or the next phase.  Admission after a *)
(* crash, the way back, the exit before a rollback and the refinement of   *)
(* AtomicUpdate follow from the invariant.                                 *)
(***************************************************************************)
EXTENDS UpdateActivation, TLAPS

-----------------------------------------------------------------------------
\* Journals.

\* Versions are numbers, and None is neither a version, a journal nor a stage.
LEMMA VersionOrder ==
  /\ Versions \subseteq Nat
  /\ None \notin Versions
  /\ None \notin Journals
  /\ None \notin StageNames
BY VersionsAssumption, NoneAssumption DEF Versions

\* The fields of a well-typed journal, one by one.
LEMMA JournalFields ==
  ASSUME NEW j \in Journals
  PROVE  /\ j # None
         /\ j.attempt \in Nat /\ j.channels \in Nat
         /\ j.candidate \in Versions /\ j.rollback_target \in Versions
         /\ j.prior_floor \in Versions /\ j.prior_last_known_good \in Versions
         /\ j.prior_previous_known_good \in Versions \cup {None}
         /\ j.phase \in Phases
BY NoneAssumption DEF Journals

\* A journal validate_activation_journal admits names distinct versions.
LEMMA ValidOrder ==
  ASSUME NEW j \in Journals, ValidJournal(j)
  PROVE  /\ j.candidate # j.prior_floor
         /\ j.candidate # j.rollback_target
         /\ j.candidate # j.prior_last_known_good
         /\ j.candidate # j.prior_previous_known_good
         /\ j.prior_last_known_good # j.prior_previous_known_good
<1>1. /\ j.candidate \in Nat /\ j.rollback_target \in Nat /\ j.prior_floor \in Nat
      /\ j.prior_last_known_good \in Nat
      /\ j.prior_previous_known_good = None \/ j.prior_previous_known_good \in Nat
      /\ j.candidate # None /\ j.prior_last_known_good # None
  BY JournalFields, VersionOrder
<1> QED
  BY <1>1 DEF ValidJournal

\* Its candidate is newer than the prior floor and the prior known good version.
LEMMA PriorBelow ==
  ASSUME NEW j \in Journals, ValidJournal(j)
  PROVE  /\ j.candidate \in Nat /\ j.prior_last_known_good \in Nat /\ j.prior_floor \in Nat
         /\ j.prior_floor < j.candidate
         /\ j.prior_last_known_good < j.candidate
<1>1. /\ j.candidate \in Nat /\ j.prior_floor \in Nat
      /\ j.prior_last_known_good \in Nat
  BY JournalFields, VersionOrder
<1> QED
  BY <1>1 DEF ValidJournal

\* What classify_protected_recovery_state answers for every journal PendingInv admits;
\* it refuses none of them.
LEMMA ClassifyPending ==
  ASSUME InstallTypeOK, PendingInv, journal # None
  PROVE  /\ journal \in Journals
         /\ journal.phase = "PublishPending" =>
              /\ current = journal.rollback_target \/ current = journal.candidate
              /\ version_floor = journal.prior_floor \/ version_floor = journal.candidate
              /\ Classify(journal) =
                   IF version_floor = journal.prior_floor THEN "ResumeAtPriorFloor"
                   ELSE IF current = journal.rollback_target
                   THEN "ResumeAtCandidateFloor" ELSE "ResumeCandidateHealth"
         /\ journal.phase = "AwaitingHealth" => Classify(journal) = "Rollback"
         /\ journal.phase = "HealthAccepted" => Classify(journal) = "FinishCommit"
         /\ journal.phase = "RollbackPending" => Classify(journal) = "FinishRollback"
<1>1. journal \in Journals
  BY DEF InstallTypeOK
<1>2. ValidJournal(journal) /\ PhaseInv(journal)
  BY DEF PendingInv
<1>3. journal.phase = "PublishPending" =>
              /\ current = journal.rollback_target \/ current = journal.candidate
              /\ version_floor = journal.prior_floor \/ version_floor = journal.candidate
              /\ Classify(journal) =
                   IF version_floor = journal.prior_floor THEN "ResumeAtPriorFloor"
                   ELSE IF current = journal.rollback_target
                   THEN "ResumeAtCandidateFloor" ELSE "ResumeCandidateHealth"
  BY <1>1, <1>2, ValidOrder DEF PhaseInv, Classify
<1>4. journal.phase = "AwaitingHealth" => Classify(journal) = "Rollback"
  BY <1>2 DEF PhaseInv, Classify
<1>5. journal.phase = "HealthAccepted" => Classify(journal) = "FinishCommit"
  BY <1>2 DEF PhaseInv, Classify
<1>6. journal.phase = "RollbackPending" => Classify(journal) = "FinishRollback"
  BY <1>2 DEF PhaseInv, Classify
<1> QED
  BY <1>1, <1>3, <1>4, <1>5, <1>6

\* next_activation_step refuses no admitted journal, and each of its forward steps is
\* taken in the one state it is meant for.
LEMMA NextStepPending ==
  ASSUME InstallTypeOK, PendingInv, journal # None
  PROVE  /\ NextStep(journal) # "Refuse"
         /\ NextStep(journal) \in {"PublishCandidate", "AdvanceFloor", "AbandonAttempt",
                                   "SelectCandidate", "EnterAwaitingHealth"} =>
              journal.phase = "PublishPending"
         /\ NextStep(journal) \in {"PublishCandidate", "AdvanceFloor", "AbandonAttempt"} =>
              version_floor = journal.prior_floor /\ current = journal.rollback_target
         /\ NextStep(journal) \in {"PublishCandidate", "AbandonAttempt"} =>
              journal.candidate \notin Present
         /\ NextStep(journal) = "AdvanceFloor" => journal.candidate \in Present
         /\ NextStep(journal) = "SelectCandidate" =>
              version_floor = journal.candidate /\ current = journal.rollback_target
         /\ NextStep(journal) = "EnterAwaitingHealth" =>
              version_floor = journal.candidate /\ current = journal.candidate
<1>1. CASE journal.phase = "PublishPending"
  <2>1. /\ journal \in Journals
        /\ current = journal.rollback_target \/ current = journal.candidate
        /\ version_floor = journal.prior_floor \/ version_floor = journal.candidate
        /\ Classify(journal) =
             IF version_floor = journal.prior_floor THEN "ResumeAtPriorFloor"
             ELSE IF current = journal.rollback_target
             THEN "ResumeAtCandidateFloor" ELSE "ResumeCandidateHealth"
    BY <1>1, ClassifyPending
  <2>2. CASE version_floor = journal.prior_floor
    <3>1. current = journal.rollback_target
      BY <1>1, <2>1, <2>2, ValidOrder DEF PendingInv, PhaseInv
    <3>2. NextStep(journal) = IF Location(journal) = "Published" THEN "AdvanceFloor"
             ELSE IF Location(journal) = "Staged" THEN "PublishCandidate"
             ELSE "AbandonAttempt"
      BY <2>1, <2>2 DEF NextStep
    <3> QED
      BY <1>1, <2>2, <3>1, <3>2 DEF Location
  <2>3. CASE version_floor # journal.prior_floor
    <3>1. journal.candidate \in Present
      BY <1>1, <2>1, <2>3, JournalFields DEF PendingInv, PhaseInv, Present
    <3>2. NextStep(journal) = IF current = journal.rollback_target
                              THEN "SelectCandidate" ELSE "EnterAwaitingHealth"
      BY <2>1, <2>3, <3>1 DEF NextStep, Location
    <3> QED
      BY <1>1, <2>1, <2>3, <3>1, <3>2
  <2> QED
    BY <2>2, <2>3
<1>2. CASE journal.phase # "PublishPending"
  <2>1. /\ journal.phase = "AwaitingHealth" => NextStep(journal) = "AwaitHealth"
        /\ journal.phase = "HealthAccepted" => NextStep(journal) = CommitStep(journal)
        /\ journal.phase = "RollbackPending" => NextStep(journal) = RollbackStep(journal)
    BY ClassifyPending DEF NextStep
  <2> QED
    BY <1>2, <2>1, ClassifyPending, JournalFields DEF Phases, CommitStep, RollbackStep
<1> QED
  BY <1>1, <1>2

\* The same for the steps after the health decision.
LEMMA NextStepResolved ==
  ASSUME InstallTypeOK, PendingInv, journal # None
  PROVE  /\ NextStep(journal) = "AwaitHealth" <=> journal.phase = "AwaitingHealth"
         /\ NextStep(journal) = "PreservePriorKnownGood" =>
              /\ journal.phase = "HealthAccepted"
              /\ last_known_good = journal.prior_last_known_good
              /\ previous_known_good # journal.prior_last_known_good
              /\ previous_known_good = journal.prior_previous_known_good
         /\ NextStep(journal) = "CommitCandidate" =>
              /\ journal.phase = "HealthAccepted"
              /\ last_known_good = journal.prior_last_known_good
              /\ previous_known_good = journal.prior_last_known_good
         /\ NextStep(journal) = "RestoreRollbackTarget" =>
              /\ journal.phase = "RollbackPending" /\ current = journal.candidate
         /\ NextStep(journal) \in {"RetireVersion", "RemoveJournal"} =>
              \/ /\ journal.phase = "HealthAccepted"
                 /\ last_known_good = journal.candidate
                 /\ previous_known_good = journal.prior_last_known_good
                 /\ RetirementDue(journal) = journal.prior_previous_known_good
              \/ /\ journal.phase = "RollbackPending"
                 /\ current = journal.rollback_target
                 /\ RetirementDue(journal) = journal.candidate
         /\ NextStep(journal) = "RetireVersion" => ~RetireeGone(journal)
         /\ NextStep(journal) = "RemoveJournal" => RetireeGone(journal)
<1>1. CASE journal.phase = "PublishPending"
  <2>1. NextStep(journal) \in {"PublishCandidate", "AdvanceFloor", "AbandonAttempt",
                               "SelectCandidate", "EnterAwaitingHealth"}
    <3>1. Classify(journal) \in {"ResumeAtPriorFloor", "ResumeAtCandidateFloor",
                                 "ResumeCandidateHealth"}
      BY <1>1, ClassifyPending
    <3>2. NextStep(journal) # "Refuse"
      BY NextStepPending
    <3> QED
      BY <3>1, <3>2 DEF NextStep
  <2> QED
    BY <1>1, <2>1
<1>2. CASE journal.phase = "AwaitingHealth"
  <2>1. NextStep(journal) = "AwaitHealth"
    BY <1>2, ClassifyPending DEF NextStep
  <2> QED
    BY <1>2, <2>1
<1>3. CASE journal.phase = "HealthAccepted"
  <2>1. NextStep(journal) = CommitStep(journal)
    BY <1>3, ClassifyPending DEF NextStep
  <2>2. CommitSlots(journal) /\ ValidJournal(journal) /\ journal \in Journals
    BY <1>3 DEF PendingInv, PhaseInv, InstallTypeOK
  <2>3. journal.candidate # journal.prior_last_known_good
    BY <2>2, ValidOrder
  <2> QED
    BY <1>3, <2>1, <2>2, <2>3 DEF CommitStep, CommitSlots, RetirementDue
<1>4. CASE journal.phase = "RollbackPending"
  <2>1. NextStep(journal) = RollbackStep(journal)
    BY <1>4, ClassifyPending DEF NextStep
  <2>2. current = journal.candidate \/ current = journal.rollback_target
    BY <1>4 DEF PendingInv, PhaseInv
  <2> QED
    BY <1>4, <2>1, <2>2 DEF RollbackStep, RetirementDue
<1> QED
  BY <1>1, <1>2, <1>3, <1>4, ClassifyPending, JournalFields DEF Phases

-----------------------------------------------------------------------------
\* The actions preserve the invariant.

\* What the proofs below use of a pending journal.
LEMMA PendingFacts ==
  ASSUME ActivationInv, journal # None
  PROVE  /\ journal \in Journals
         /\ ValidJournal(journal)
         /\ journal.candidate \in Versions
         /\ journal.prior_last_known_good \in Versions
         /\ journal.rollback_target = journal.prior_last_known_good
         /\ journal.prior_previous_known_good \in Versions \cup {None}
         /\ journal.phase \in Phases
         /\ journal.candidate # journal.prior_floor
         /\ journal.candidate # journal.prior_last_known_good
         /\ journal.candidate # journal.prior_previous_known_good
         /\ journal.prior_last_known_good # journal.prior_previous_known_good
<1>1. journal \in Journals /\ ValidJournal(journal)
      /\ journal.rollback_target = journal.prior_last_known_good
  BY DEF ActivationInv, InstallTypeOK, PendingInv
<1> QED
  BY <1>1, JournalFields, ValidOrder

\* An owner past its durable journal record still has the journal.
LEMMA OwnedJournal ==
  ASSUME ActivationInv,
         owner \in {"advancing", "replacing", "waiting", "accepted"}
  PROVE  journal # None
BY DEF ActivationInv, RestInv

\* publish_candidate puts a copy of the candidate, intact or not, beside the known good
\* versions and uses up the first iteration.
LEMMA PublishCandidateOK ==
  ASSUME ActivationInv, PublishCandidate
  PROVE  ActivationInv'
<1> USE DEF PublishCandidate, Step, Due, slotVars, worldVars, countVars
<1>1. journal # None /\ journal' = journal
  BY OwnedJournal
<1>2. /\ journal.phase = "PublishPending" /\ version_floor = journal.prior_floor
      /\ current = journal.rollback_target /\ journal.candidate \notin Present
  BY <1>1, NextStepPending DEF ActivationInv
<1>3. PICK s \in stages :
        /\ versions' = [versions EXCEPT ![journal.candidate] =
                          IF s.intact THEN "intact" ELSE "damaged"]
        /\ stages' = stages \ {s}
        /\ stage' = None
  BY DEF PublishStage
<1>4. journal.candidate \in Present'
  BY <1>1, <1>3, PendingFacts DEF Present, ActivationInv, InstallTypeOK
<1>5. steps = 0 /\ steps' = 1
  BY <1>1, <1>2 DEF ActivationInv, StepsInv, StepsUsed, InstallTypeOK
<1>6. InstallTypeOK'
  BY <1>1, <1>3, <1>5, PendingFacts DEF ActivationInv, InstallTypeOK, Copies
<1>7. RestInv'
  BY <1>1 DEF RestInv
<1>8. PendingInv'
  BY <1>1, <1>2, <1>3, PendingFacts
  DEF ActivationInv, InstallTypeOK, PendingInv, PhaseInv, PriorSlots, Present, RetirementDue,
      Unpublished, ValidJournal
<1>9. FamilyInv'
  BY DEF ActivationInv, FamilyInv
<1>10. StepsInv'
  BY <1>1, <1>2, <1>4, <1>5 DEF StepsInv, StepsUsed
<1> QED
  BY <1>6, <1>7, <1>8, <1>9, <1>10 DEF ActivationInv

\* The floor rises to an intact candidate; no running family exceeds it.
LEMMA AdvanceFloorOK ==
  ASSUME ActivationInv, AdvanceFloor
  PROVE  ActivationInv'
<1> USE DEF AdvanceFloor, Step, Due, dirVars, worldVars, countVars
<1>1. journal # None /\ journal' = journal
  BY OwnedJournal
<1>2. /\ journal.phase = "PublishPending" /\ version_floor = journal.prior_floor
      /\ current = journal.rollback_target /\ journal.candidate \in Present
  BY <1>1, NextStepPending DEF ActivationInv
<1>3. steps \in 0 .. 1 /\ steps' = steps + 1
  BY <1>1, <1>2 DEF ActivationInv, StepsInv, StepsUsed, InstallTypeOK
<1>4. InstallTypeOK'
  BY <1>1, <1>3, PendingFacts DEF ActivationInv, InstallTypeOK
<1>5. RestInv'
  BY <1>1 DEF RestInv
<1>6. PendingInv'
  BY <1>1, <1>2, PendingFacts
  DEF ActivationInv, InstallTypeOK, PendingInv, PhaseInv, PriorSlots, Present, RetirementDue,
      Unpublished, ValidJournal
<1>7. FamilyInv'
  BY <1>1, <1>2, PendingFacts, VersionOrder
  DEF ActivationInv, InstallTypeOK, FamilyInv, ValidJournal
<1>8. StepsInv'
  BY <1>1, <1>2, <1>3, PendingFacts DEF StepsInv, StepsUsed
<1> QED
  BY <1>4, <1>5, <1>6, <1>7, <1>8 DEF ActivationInv

\* ensure_candidate_pinned retires a damaged copy: the pointers do not name it.
LEMMA RetireDamagedOK ==
  ASSUME ActivationInv, RetireDamaged
  PROVE  ActivationInv'
<1> USE DEF RetireDamaged, Step, Due, slotVars, worldVars, countVars
<1>1. journal # None /\ journal' = journal
  BY OwnedJournal
<1>2. /\ journal.phase = "PublishPending" /\ version_floor = journal.prior_floor
      /\ current = journal.rollback_target
  BY <1>1, NextStepPending, PendingFacts
  DEF ActivationInv, PendingInv, PhaseInv, Unpublished
<1>3. /\ versions' = [versions EXCEPT ![journal.candidate] = "absent"]
      /\ owner' = "replacing"
  BY DEF Retire
<1>4. steps \in 0 .. 2 /\ steps' \in 0 .. 2
  BY <1>1, <1>2 DEF ActivationInv, StepsInv, StepsUsed, InstallTypeOK
<1>5. stage' \in StageNames \cup {None}
  BY DEF FoundStage, StagesOf, ActivationInv, InstallTypeOK, Stages
<1>6. InstallTypeOK'
  BY <1>1, <1>3, <1>4, <1>5, PendingFacts
  DEF ActivationInv, InstallTypeOK, Copies, OwnerStates
<1>7. RestInv'
  BY <1>1 DEF RestInv
<1>8. PendingInv'
  BY <1>1, <1>2, <1>3, PendingFacts, JournalFields
  DEF ActivationInv, InstallTypeOK, PendingInv, PhaseInv, PriorSlots, CommitSlots, Present,
      RetirementDue, Unpublished, ValidJournal
<1>9. FamilyInv'
  BY DEF ActivationInv, FamilyInv
<1>10. StepsInv'
  BY <1>1, <1>2, <1>3, <1>4 DEF StepsInv, StepsUsed
<1> QED
  BY <1>6, <1>7, <1>8, <1>9, <1>10 DEF ActivationInv

\* The replacement is another unverified copy.
LEMMA ReplaceCopyOK ==
  ASSUME ActivationInv, ReplaceCopy
  PROVE  ActivationInv'
<1> USE DEF ReplaceCopy, slotVars, worldVars, countVars
<1>1. journal # None /\ journal' = journal
  BY OwnedJournal
<1>2. /\ journal.phase = "PublishPending" /\ version_floor = journal.prior_floor
      /\ current = journal.rollback_target
  BY <1>1, PendingFacts DEF ActivationInv, PendingInv, PhaseInv, Unpublished
<1>3. PICK s \in stages :
        /\ versions' = [versions EXCEPT ![journal.candidate] =
                          IF s.intact THEN "intact" ELSE "damaged"]
        /\ stages' = stages \ {s}
        /\ stage' = None
  BY DEF PublishStage
<1>4. InstallTypeOK'
  BY <1>1, <1>3, PendingFacts DEF ActivationInv, InstallTypeOK, Copies
<1>5. RestInv'
  BY <1>1 DEF RestInv
<1>6. PendingInv'
  BY <1>1, <1>2, <1>3, PendingFacts, JournalFields
  DEF ActivationInv, InstallTypeOK, PendingInv, PhaseInv, PriorSlots, CommitSlots, Present,
      RetirementDue, Unpublished, ValidJournal
<1>7. FamilyInv'
  BY DEF ActivationInv, FamilyInv
<1>8. StepsInv'
  BY <1>1, <1>2 DEF ActivationInv, StepsInv, StepsUsed
<1> QED
  BY <1>4, <1>5, <1>6, <1>7, <1>8 DEF ActivationInv

\* A verified replacement raises the floor as the first copy would have.
LEMMA ReplacementVerifiedOK ==
  ASSUME ActivationInv, ReplacementVerified
  PROVE  ActivationInv'
<1> USE DEF ReplacementVerified, dirVars, worldVars, countVars
<1>1. journal # None /\ journal' = journal
  BY OwnedJournal
<1>2. /\ journal.phase = "PublishPending" /\ version_floor = journal.prior_floor
      /\ current = journal.rollback_target
  BY <1>1, PendingFacts DEF ActivationInv, PendingInv, PhaseInv, Unpublished
<1>3. InstallTypeOK'
  BY <1>1, PendingFacts DEF ActivationInv, InstallTypeOK, OwnerStates
<1>4. RestInv'
  BY <1>1 DEF RestInv
<1>5. PendingInv'
  BY <1>1, <1>2, PendingFacts, JournalFields
  DEF ActivationInv, InstallTypeOK, PendingInv, PhaseInv, PriorSlots, CommitSlots, Present,
      RetirementDue, Unpublished, ValidJournal
<1>6. FamilyInv'
  BY <1>1, <1>2, PendingFacts, VersionOrder
  DEF ActivationInv, InstallTypeOK, FamilyInv, ValidJournal
<1>7. StepsInv'
  BY <1>1, <1>2, PendingFacts DEF ActivationInv, StepsInv, StepsUsed
<1> QED
  BY <1>3, <1>4, <1>5, <1>6, <1>7 DEF ActivationInv

\* The state of a released lease is well typed.
LEMMA ReleasedTypes ==
  ASSUME ReleaseLease
  PROVE  /\ owner' \in OwnerStates /\ draft' = None /\ stage' = None
         /\ steps' \in 0 .. 5 /\ launched' \in BOOLEAN
<1>1. launched' \in BOOLEAN
  BY DEF ReleaseLease
<1>2. /\ owner' \in OwnerStates /\ draft' = None /\ stage' = None
      /\ steps' \in 0 .. 5
  BY DEF ReleaseLease, OwnerStates
<1> QED
  BY <1>1, <1>2

\* Removing the journal ends in a state of rest when the slots are those of one.
LEMMA JournalRemoved ==
  ASSUME ActivationInv, journal # None, RemoveJournalAndLeftovers,
         UNCHANGED <<slotVars, versions, families, countVars>>,
         current = last_known_good,
         PointerContext(last_known_good),
         Present = {last_known_good, previous_known_good} \ {None},
         AllIntact({last_known_good, previous_known_good} \ {None})
  PROVE  ActivationInv'
<1> USE DEF RemoveJournalAndLeftovers, slotVars, countVars
<1>1. stages' \subseteq Stages
  BY DEF ActivationInv, InstallTypeOK
<1>2. InstallTypeOK'
  BY <1>1, ReleasedTypes DEF ActivationInv, InstallTypeOK
<1>3. RestInv'
  BY DEF ReleaseLease, RestInv, PointerContext, Present, AllIntact
<1>4. PendingInv' /\ FamilyInv' /\ StepsInv'
  BY DEF ReleaseLease, ActivationInv, PendingInv, FamilyInv, StepsInv
<1> QED
  BY <1>2, <1>3, <1>4 DEF ActivationInv

\* An attempt abandoned before its floor leaves exactly the prior versions and slots.
LEMMA AbandonedOK ==
  ASSUME ActivationInv, journal # None, Unpublished(journal),
         journal.candidate \notin Present,
         RemoveJournalAndLeftovers,
         UNCHANGED <<slotVars, versions, families, countVars>>
  PROVE  ActivationInv'
<1>1. /\ PriorSlots(journal) /\ version_floor = journal.prior_floor
      /\ current = journal.rollback_target
  BY PendingFacts DEF ActivationInv, PendingInv, PhaseInv, Unpublished
<1>2. RetirementDue(journal) = None
  BY DEF RetirementDue, Unpublished
<1>3. journal.prior_previous_known_good # None =>
        versions[journal.prior_previous_known_good] = "intact"
  BY <1>2 DEF ActivationInv, PendingInv
<1>4. versions[journal.prior_last_known_good] = "intact"
  BY DEF ActivationInv, PendingInv
<1>5. /\ last_known_good = journal.prior_last_known_good
      /\ previous_known_good = journal.prior_previous_known_good
  BY <1>1 DEF PriorSlots
<1>6. Present = {last_known_good, previous_known_good} \ {None}
  BY <1>3, <1>4, <1>5, PendingFacts, VersionOrder DEF ActivationInv, PendingInv, Present
<1>7. AllIntact({last_known_good, previous_known_good} \ {None})
  BY <1>3, <1>4, <1>5 DEF AllIntact
<1>8. PointerContext(last_known_good)
  BY <1>1, <1>5, PendingFacts, VersionOrder
  DEF ActivationInv, PendingInv, PointerContext, ValidJournal
<1> QED
  BY <1>1, <1>5, <1>6, <1>7, <1>8, PendingFacts, JournalRemoved

\* ensure_candidate_pinned runs out of copies.
LEMMA NoCopyLeftOK ==
  ASSUME ActivationInv, NoCopyLeft
  PROVE  ActivationInv'
<1>1. journal # None
  BY OwnedJournal DEF NoCopyLeft
<1>2. Unpublished(journal)
  BY <1>1 DEF NoCopyLeft, ActivationInv, PendingInv
<1> QED
  BY <1>1, <1>2, AbandonedOK DEF NoCopyLeft

\* Recovery finds no copy of an unpublished candidate.
LEMMA AbandonAttemptOK ==
  ASSUME ActivationInv, AbandonAttempt
  PROVE  ActivationInv'
<1>1. journal # None
  BY OwnedJournal DEF AbandonAttempt, Due
<1>2. Unpublished(journal) /\ journal.candidate \notin Present
  BY <1>1, NextStepPending DEF AbandonAttempt, Due, ActivationInv, Unpublished
<1> QED
  BY <1>1, <1>2, AbandonedOK DEF AbandonAttempt

\* current moves to the candidate the floor already names.
LEMMA SelectCandidateOK ==
  ASSUME ActivationInv, SelectCandidate
  PROVE  ActivationInv'
<1> USE DEF SelectCandidate, Step, Due, dirVars, worldVars, countVars
<1>1. journal # None /\ journal' = journal
  BY OwnedJournal
<1>2. /\ journal.phase = "PublishPending" /\ version_floor = journal.candidate
      /\ current = journal.rollback_target
  BY <1>1, NextStepPending DEF ActivationInv
<1>3. steps \in 0 .. 2 /\ steps' = steps + 1
  BY <1>1, <1>2, PendingFacts DEF ActivationInv, StepsInv, StepsUsed, InstallTypeOK
<1>4. InstallTypeOK'
  BY <1>1, <1>3, PendingFacts DEF ActivationInv, InstallTypeOK
<1>5. RestInv'
  BY <1>1 DEF RestInv
<1>6. PendingInv'
  BY <1>1, <1>2, PendingFacts, JournalFields
  DEF ActivationInv, InstallTypeOK, PendingInv, PhaseInv, PriorSlots, CommitSlots, Present,
      RetirementDue, Unpublished, ValidJournal
<1>7. FamilyInv'
  BY DEF ActivationInv, FamilyInv
<1>8. StepsInv'
  BY <1>1, <1>2, <1>3, PendingFacts DEF StepsInv, StepsUsed
<1> QED
  BY <1>4, <1>5, <1>6, <1>7, <1>8 DEF ActivationInv

\* write_journal replaces the phase and keeps every other field.
LEMMA PhaseWritten ==
  ASSUME NEW phase \in Phases, journal \in Journals, WritePhase(phase)
  PROVE  /\ journal' \in Journals /\ journal' # None
         /\ journal'.phase = phase
         /\ journal'.attempt = journal.attempt /\ journal'.channels = journal.channels
         /\ journal'.candidate = journal.candidate
         /\ journal'.rollback_target = journal.rollback_target
         /\ journal'.prior_floor = journal.prior_floor
         /\ journal'.prior_last_known_good = journal.prior_last_known_good
         /\ journal'.prior_previous_known_good = journal.prior_previous_known_good
BY NoneAssumption DEF WritePhase, Journals

\* The journal enters AwaitingHealth with no family of the candidate running.
LEMMA EnterAwaitingHealthOK ==
  ASSUME ActivationInv, EnterAwaitingHealth
  PROVE  ActivationInv'
<1> USE DEF EnterAwaitingHealth, Step, Due, slotVars, dirVars, worldVars, countVars
<1>1. journal # None /\ journal \in Journals
  BY OwnedJournal, PendingFacts
<1>2. /\ journal.phase = "PublishPending" /\ version_floor = journal.candidate
      /\ current = journal.candidate
  BY <1>1, NextStepPending DEF ActivationInv
<1>3. /\ journal'.phase = "AwaitingHealth" /\ journal'.attempt = journal.attempt
      /\ journal'.channels = journal.channels /\ journal'.candidate = journal.candidate
      /\ journal'.rollback_target = journal.rollback_target
      /\ journal'.prior_floor = journal.prior_floor
      /\ journal'.prior_last_known_good = journal.prior_last_known_good
      /\ journal'.prior_previous_known_good = journal.prior_previous_known_good
      /\ journal' \in Journals /\ journal' # None
  BY <1>1, PhaseWritten DEF Phases
<1>4. steps \in 0 .. 3 /\ steps' = steps + 1
  BY <1>1, <1>2, PendingFacts DEF ActivationInv, StepsInv, StepsUsed, InstallTypeOK
<1>5. InstallTypeOK'
  BY <1>3, <1>4, PendingFacts DEF ActivationInv, InstallTypeOK
<1>6. RestInv'
  BY <1>3 DEF RestInv
<1>7. PendingInv'
  BY <1>1, <1>2, <1>3, PendingFacts, JournalFields
  DEF ActivationInv, InstallTypeOK, PendingInv, PhaseInv, PriorSlots, CommitSlots, Present,
      RetirementDue, Unpublished, ValidJournal
<1>8. FamilyInv'
  BY <1>1, <1>2, <1>3 DEF ActivationInv, FamilyInv
<1>9. StepsInv'
  BY <1>1, <1>2, <1>3, <1>4 DEF StepsInv, StepsUsed
<1> QED
  BY <1>5, <1>6, <1>7, <1>8, <1>9 DEF ActivationInv

\* advance() hands the attempt over after at most five iterations.
LEMMA AwaitHealthOK ==
  ASSUME ActivationInv, AwaitHealth
  PROVE  ActivationInv'
<1> USE DEF AwaitHealth, Step, Due, slotVars, dirVars, worldVars, countVars
<1>1. journal # None /\ journal' = journal
  BY OwnedJournal
<1>2. journal.phase = "AwaitingHealth"
  BY <1>1, NextStepResolved DEF ActivationInv
<1>3. steps \in 0 .. 4 /\ steps' = steps + 1
  BY <1>1, <1>2, PendingFacts DEF ActivationInv, StepsInv, StepsUsed, InstallTypeOK
<1>4. InstallTypeOK'
  BY <1>1, <1>3, PendingFacts DEF ActivationInv, InstallTypeOK, OwnerStates
<1>5. RestInv'
  BY <1>1 DEF RestInv
<1>6. PendingInv'
  BY <1>1, <1>2, PendingFacts, JournalFields
  DEF ActivationInv, InstallTypeOK, PendingInv, PhaseInv, PriorSlots, CommitSlots, Present,
      RetirementDue, Unpublished, ValidJournal
<1>7. FamilyInv'
  BY DEF ActivationInv, FamilyInv
<1>8. StepsInv'
  BY <1>1, <1>2, <1>3 DEF StepsInv, StepsUsed
<1> QED
  BY <1>4, <1>5, <1>6, <1>7, <1>8 DEF ActivationInv

\* First commit write: the prior known good version becomes the previous one.
LEMMA PreservePriorKnownGoodOK ==
  ASSUME ActivationInv, PreservePriorKnownGood
  PROVE  ActivationInv'
<1> USE DEF PreservePriorKnownGood, Step, Due, dirVars, worldVars, countVars
<1>1. journal # None /\ journal' = journal
  BY OwnedJournal
<1>2. /\ journal.phase = "HealthAccepted"
      /\ last_known_good = journal.prior_last_known_good
      /\ previous_known_good # journal.prior_last_known_good
  BY <1>1, NextStepResolved DEF ActivationInv
<1>3. steps \in 0 .. 0 /\ steps' = steps + 1
  BY <1>1, <1>2, PendingFacts DEF ActivationInv, StepsInv, StepsUsed, InstallTypeOK
<1>4. InstallTypeOK'
  BY <1>1, <1>3, PendingFacts DEF ActivationInv, InstallTypeOK
<1>5. RestInv'
  BY <1>1 DEF RestInv
<1>6. PendingInv'
  BY <1>1, <1>2, PendingFacts, JournalFields
  DEF ActivationInv, InstallTypeOK, PendingInv, PhaseInv, PriorSlots, CommitSlots, Present,
      RetirementDue, Unpublished, ValidJournal
<1>7. FamilyInv'
  BY DEF ActivationInv, FamilyInv
<1>8. StepsInv'
  BY <1>1, <1>2, <1>3, PendingFacts DEF StepsInv, StepsUsed
<1> QED
  BY <1>4, <1>5, <1>6, <1>7, <1>8 DEF ActivationInv

\* Second commit write: the candidate becomes the last known good version.
LEMMA CommitCandidateOK ==
  ASSUME ActivationInv, CommitCandidate
  PROVE  ActivationInv'
<1> USE DEF CommitCandidate, Step, Due, dirVars, worldVars, countVars
<1>1. journal # None /\ journal' = journal
  BY OwnedJournal
<1>2. /\ journal.phase = "HealthAccepted"
      /\ last_known_good = journal.prior_last_known_good
      /\ previous_known_good = journal.prior_last_known_good
  BY <1>1, NextStepResolved DEF ActivationInv
<1>3. steps \in 0 .. 1 /\ steps' = steps + 1
  BY <1>1, <1>2, PendingFacts DEF ActivationInv, StepsInv, StepsUsed, InstallTypeOK
<1>4. InstallTypeOK'
  BY <1>1, <1>3, PendingFacts DEF ActivationInv, InstallTypeOK
<1>5. RestInv'
  BY <1>1 DEF RestInv
<1>6. PendingInv'
  BY <1>1, <1>2, PendingFacts, JournalFields
  DEF ActivationInv, InstallTypeOK, PendingInv, PhaseInv, PriorSlots, CommitSlots, Present,
      RetirementDue, Unpublished, ValidJournal
<1>7. FamilyInv'
  BY DEF ActivationInv, FamilyInv
<1>8. StepsInv'
  BY <1>1, <1>2, <1>3, PendingFacts DEF StepsInv, StepsUsed
<1> QED
  BY <1>4, <1>5, <1>6, <1>7, <1>8 DEF ActivationInv

\* Rollback moves current back before anything is retired.
LEMMA RestoreRollbackTargetOK ==
  ASSUME ActivationInv, RestoreRollbackTarget
  PROVE  ActivationInv'
<1> USE DEF RestoreRollbackTarget, Step, Due, dirVars, worldVars, countVars
<1>1. journal # None /\ journal' = journal
  BY OwnedJournal
<1>2. journal.phase = "RollbackPending" /\ current = journal.candidate
  BY <1>1, NextStepResolved DEF ActivationInv
<1>3. steps \in 0 .. 0 /\ steps' = steps + 1
  BY <1>1, <1>2, PendingFacts DEF ActivationInv, StepsInv, StepsUsed, InstallTypeOK
<1>4. InstallTypeOK'
  BY <1>1, <1>3, PendingFacts DEF ActivationInv, InstallTypeOK
<1>5. RestInv'
  BY <1>1 DEF RestInv
<1>6. PendingInv'
  BY <1>1, <1>2, PendingFacts, JournalFields
  DEF ActivationInv, InstallTypeOK, PendingInv, PhaseInv, PriorSlots, CommitSlots, Present,
      RetirementDue, Unpublished, ValidJournal
<1>7. FamilyInv'
  BY DEF ActivationInv, FamilyInv
<1>8. StepsInv'
  BY <1>1, <1>2, <1>3, PendingFacts DEF StepsInv, StepsUsed
<1> QED
  BY <1>4, <1>5, <1>6, <1>7, <1>8 DEF ActivationInv

\* The version retired is the one the journal lets go, in either direction.
LEMMA RetireVersionOK ==
  ASSUME ActivationInv, RetireVersion
  PROVE  ActivationInv'
<1> USE DEF RetireVersion, Step, Due, slotVars, worldVars, countVars
<1>1. journal # None /\ journal' = journal
  BY OwnedJournal
<1>2. /\ RetirementDue(journal) \notin Slots /\ RetirementDue(journal) \in Present
      /\ versions' = [versions EXCEPT ![RetirementDue(journal)] = "absent"]
  BY DEF Retire
<1>3. \/ /\ journal.phase = "HealthAccepted" /\ last_known_good = journal.candidate
         /\ previous_known_good = journal.prior_last_known_good
         /\ RetirementDue(journal) = journal.prior_previous_known_good
      \/ /\ journal.phase = "RollbackPending" /\ current = journal.rollback_target
         /\ RetirementDue(journal) = journal.candidate
  BY <1>1, NextStepResolved DEF ActivationInv
<1>4. ~RetireeGone(journal) /\ RetireeGone(journal)'
  BY <1>1, <1>2, <1>3, NextStepResolved, PendingFacts
  DEF ActivationInv, InstallTypeOK, RetireeGone, RetirementDue, Present
<1>5. steps \in 0 .. 2 /\ steps' = steps + 1 /\ (journal.phase = "RollbackPending" => steps <= 1)
  BY <1>1, <1>3, <1>4, PendingFacts DEF ActivationInv, StepsInv, StepsUsed, InstallTypeOK
<1>6. InstallTypeOK'
  BY <1>1, <1>2, <1>5, PendingFacts DEF ActivationInv, InstallTypeOK, Copies, Present
<1>7. RestInv'
  BY <1>1 DEF RestInv
<1>8. PendingInv'
  BY <1>1, <1>2, <1>3, PendingFacts, JournalFields
  DEF ActivationInv, InstallTypeOK, PendingInv, PhaseInv, PriorSlots, CommitSlots, Present,
      RetirementDue, Unpublished, ValidJournal
<1>9. FamilyInv'
  BY DEF ActivationInv, FamilyInv
<1>10. StepsInv'
  BY <1>1, <1>3, <1>4, <1>5, PendingFacts DEF StepsInv, StepsUsed
<1> QED
  BY <1>6, <1>7, <1>8, <1>9, <1>10 DEF ActivationInv

\* Releasing the lease between two durable writes, whoever held it, keeps the invariant.
LEMMA LeaseLost ==
  ASSUME ActivationInv, ReleaseLease, crashes' \in Nat,
         UNCHANGED <<slotVars, journal, dirVars, families, attempts, mints>>
  PROVE  ActivationInv'
<1> USE DEF slotVars, dirVars
<1>1. InstallTypeOK'
  BY ReleasedTypes DEF ActivationInv, InstallTypeOK
<1>2. RestInv'
  BY DEF ActivationInv, RestInv, ReleaseLease, PointerContext, Present, AllIntact
<1>3. PendingInv'
  BY DEF ActivationInv, PendingInv, PhaseInv, PriorSlots, CommitSlots, Present, RetirementDue,
     ValidJournal, ReleaseLease
<1>4. FamilyInv'
  BY DEF ActivationInv, FamilyInv
<1>5. StepsInv'
  <2>1. journal # None => StepsUsed(journal)' \in Nat
    BY PendingFacts DEF StepsUsed, Phases
  <2> QED
    BY <2>1 DEF ReleaseLease, StepsInv
<1> QED
  BY <1>1, <1>2, <1>3, <1>4, <1>5 DEF ActivationInv

\* A retirement the operating system refuses leaves the journal for recovery.
LEMMA RetireRefusedOK ==
  ASSUME ActivationInv, RetireRefused
  PROVE  ActivationInv'
BY LeaseLost DEF RetireRefused, countVars, ActivationInv, InstallTypeOK

\* A crash falls between any two durable writes.
LEMMA CrashOK ==
  ASSUME ActivationInv, Crash
  PROVE  ActivationInv'
BY LeaseLost DEF Crash, ActivationInv, InstallTypeOK

\* remove_journal after a commit or a rollback leaves a state of rest: the retired
\* version is gone and the pointers name what is on disk.
LEMMA RemoveJournalOK ==
  ASSUME ActivationInv, RemoveJournal
  PROVE  ActivationInv'
<1>1. journal # None
  BY OwnedJournal DEF RemoveJournal, Due
<1>2. /\ RetireeGone(journal)
      /\ \/ /\ journal.phase = "HealthAccepted" /\ last_known_good = journal.candidate
            /\ previous_known_good = journal.prior_last_known_good
            /\ RetirementDue(journal) = journal.prior_previous_known_good
         \/ /\ journal.phase = "RollbackPending" /\ current = journal.rollback_target
            /\ RetirementDue(journal) = journal.candidate
  BY <1>1, NextStepResolved DEF ActivationInv, RemoveJournal, Due
<1>3. CASE journal.phase = "HealthAccepted"
  <2>1. /\ current = last_known_good /\ version_floor = journal.candidate
        /\ versions[journal.candidate] = "intact"
    BY <1>1, <1>2, <1>3 DEF ActivationInv, PendingInv, PhaseInv
  <2>2. journal.prior_previous_known_good \notin Present
    BY <1>1, <1>2, <1>3, VersionOrder DEF RetireeGone, Present
  <2>3. Present = {last_known_good, previous_known_good} \ {None}
    BY <1>1, <1>2, <1>3, <2>1, <2>2, PendingFacts, VersionOrder
    DEF ActivationInv, PendingInv, Present
  <2>4. AllIntact({last_known_good, previous_known_good} \ {None})
    BY <1>1, <1>2, <1>3, <2>1 DEF ActivationInv, PendingInv, AllIntact
  <2>5. PointerContext(last_known_good)
    BY <1>1, <1>2, <1>3, <2>1, PendingFacts, PriorBelow, VersionOrder DEF PointerContext
  <2> QED
    BY <1>1, <2>1, <2>3, <2>4, <2>5, JournalRemoved DEF RemoveJournal
<1>4. CASE journal.phase = "RollbackPending"
  <2>1. /\ last_known_good = journal.prior_last_known_good
        /\ previous_known_good = journal.prior_previous_known_good
        /\ current = last_known_good /\ version_floor = journal.candidate
    BY <1>1, <1>2, <1>4, PendingFacts DEF ActivationInv, PendingInv, PhaseInv, PriorSlots
  <2>2. journal.candidate \notin Present /\ RetirementDue(journal) = journal.candidate
    BY <1>1, <1>2, <1>4, PendingFacts, VersionOrder DEF RetireeGone
  <2>3. /\ versions[journal.prior_last_known_good] = "intact"
        /\ journal.prior_previous_known_good # None =>
             versions[journal.prior_previous_known_good] = "intact"
    BY <1>1, <2>2, PendingFacts DEF ActivationInv, PendingInv
  <2>4. Present = {last_known_good, previous_known_good} \ {None}
    BY <1>1, <2>1, <2>2, <2>3, PendingFacts, VersionOrder
    DEF ActivationInv, PendingInv, Present
  <2>5. AllIntact({last_known_good, previous_known_good} \ {None})
    BY <2>1, <2>3 DEF AllIntact
  <2>6. PointerContext(last_known_good)
    BY <1>1, <2>1, PendingFacts, JournalFields, VersionOrder
    DEF ActivationInv, PendingInv, PointerContext, ValidJournal
  <2> QED
    BY <1>1, <2>1, <2>4, <2>5, <2>6, JournalRemoved DEF RemoveJournal
<1> QED
  BY <1>2, <1>3, <1>4

\* The launched family carries the identities of the journal.
LEMMA LaunchCandidateOK ==
  ASSUME ActivationInv, LaunchCandidate
  PROVE  ActivationInv'
<1> USE DEF LaunchCandidate, slotVars, dirVars, ownerVars, countVars
<1>1. journal # None /\ journal' = journal
  BY OwnedJournal
<1>2. journal.phase = "AwaitingHealth" /\ version_floor = journal.candidate
  BY <1>1 DEF ActivationInv, PendingInv, PhaseInv
<1>3. families' \subseteq [attempt : Nat, channels : Nat, version : Versions]
  BY <1>1, PendingFacts, JournalFields DEF ActivationInv, InstallTypeOK
<1>4. launched' \in BOOLEAN
  OBVIOUS
<1>5. InstallTypeOK'
  BY <1>1, <1>3, <1>4, PendingFacts DEF ActivationInv, InstallTypeOK
<1>6. RestInv'
  BY <1>1 DEF RestInv
<1>7. PendingInv'
  BY <1>1, <1>2, PendingFacts, JournalFields
  DEF ActivationInv, InstallTypeOK, PendingInv, PhaseInv, PriorSlots, CommitSlots, Present,
      RetirementDue, Unpublished, ValidJournal
<1>8. FamilyInv'
  BY <1>1, <1>2, PendingFacts, VersionOrder DEF ActivationInv, FamilyInv
<1>9. StepsInv'
  BY <1>1 DEF ActivationInv, StepsInv, StepsUsed, RetireeGone, RetirementDue, Present
<1> QED
  BY <1>5, <1>6, <1>7, <1>8, <1>9 DEF ActivationInv

\* A family ends at any time.
LEMMA FamilyExitsOK ==
  ASSUME ActivationInv, NEW f \in families, FamilyExits(f)
  PROVE  ActivationInv'
<1> USE DEF FamilyExits, slotVars, dirVars, ownerVars, countVars
<1>1. InstallTypeOK'
  BY DEF ActivationInv, InstallTypeOK
<1>2. RestInv'
  BY DEF ActivationInv, RestInv, PointerContext, Present, AllIntact, PriorSlots, ValidJournal
<1>3. PendingInv'
  BY DEF ActivationInv, PendingInv, PhaseInv, PriorSlots, CommitSlots, Present,
      RetirementDue, Unpublished, ValidJournal
<1>4. FamilyInv'
  BY DEF ActivationInv, FamilyInv
<1>5. StepsInv'
  BY DEF ActivationInv, StepsInv, StepsUsed, RetireeGone, RetirementDue, Present
<1> QED
  BY <1>1, <1>2, <1>3, <1>4, <1>5 DEF ActivationInv

\* accept_health records the decision before any slot changes.
LEMMA AcceptHealthOK ==
  ASSUME ActivationInv, NEW f \in families, AcceptHealth(f)
  PROVE  ActivationInv'
<1> USE DEF AcceptHealth, slotVars, dirVars, worldVars, countVars
<1>1. /\ journal # None /\ journal \in Journals
      /\ journal.phase = "AwaitingHealth" /\ PriorSlots(journal)
      /\ version_floor = journal.candidate /\ current = journal.candidate
      /\ versions[journal.candidate] = "intact"
  BY OwnedJournal, PendingFacts DEF ActivationInv, PendingInv, PhaseInv
<1>2. /\ journal'.phase = "HealthAccepted" /\ journal'.attempt = journal.attempt
      /\ journal'.channels = journal.channels /\ journal'.candidate = journal.candidate
      /\ journal'.rollback_target = journal.rollback_target
      /\ journal'.prior_floor = journal.prior_floor
      /\ journal'.prior_last_known_good = journal.prior_last_known_good
      /\ journal'.prior_previous_known_good = journal.prior_previous_known_good
      /\ journal' \in Journals /\ journal' # None
  BY <1>1, PhaseWritten DEF Phases
<1>3. InstallTypeOK'
  BY <1>2 DEF ActivationInv, InstallTypeOK, OwnerStates
<1>4. RestInv'
  BY <1>2 DEF RestInv
<1>5. PendingInv'
  BY <1>1, <1>2, PendingFacts, JournalFields
  DEF ActivationInv, InstallTypeOK, PendingInv, PhaseInv, PriorSlots, CommitSlots, Present,
      RetirementDue, Unpublished, ValidJournal
<1>6. FamilyInv'
  BY <1>1, <1>2 DEF ActivationInv, FamilyInv
<1>7. StepsInv'
  BY <1>1, <1>2 DEF ActivationInv, StepsInv, StepsUsed
<1> QED
  BY <1>3, <1>4, <1>5, <1>6, <1>7 DEF ActivationInv

\* complete() starts the commit with a fresh iteration count.
LEMMA CompleteOK ==
  ASSUME ActivationInv, Complete
  PROVE  ActivationInv'
<1> USE DEF Complete, slotVars, dirVars, countVars
<1>1. journal # None /\ journal' = journal
  BY OwnedJournal
<1>2. journal.phase = "HealthAccepted"
  BY <1>1 DEF ActivationInv, PendingInv
<1>3. launched' \in BOOLEAN
  OBVIOUS
<1>4. steps' = 0 /\ owner' \in OwnerStates
  BY DEF OwnerStates
<1>5. InstallTypeOK'
  BY <1>1, <1>3, <1>4 DEF ActivationInv, InstallTypeOK
<1>6. RestInv'
  BY <1>1 DEF RestInv
<1>7. PendingInv'
  BY <1>1, <1>2, PendingFacts, JournalFields
  DEF ActivationInv, InstallTypeOK, PendingInv, PhaseInv, PriorSlots, CommitSlots, Present,
      RetirementDue, Unpublished, ValidJournal
<1>8. FamilyInv'
  BY DEF ActivationInv, FamilyInv
<1>9. StepsInv'
  BY <1>1, <1>2 DEF StepsInv, StepsUsed
<1> QED
  BY <1>5, <1>6, <1>7, <1>8, <1>9 DEF ActivationInv

\* roll_back journals only once the family bound to this attempt is gone, and that is
\* the only family of the candidate.
LEMMA RollBackOK ==
  ASSUME ActivationInv, RollBack
  PROVE  ActivationInv'
<1> USE DEF RollBack, slotVars, dirVars, countVars
<1>1. /\ journal # None /\ journal \in Journals
      /\ journal.phase = "AwaitingHealth" /\ PriorSlots(journal)
      /\ version_floor = journal.candidate /\ current = journal.candidate
      /\ versions[journal.candidate] = "intact"
  BY OwnedJournal, PendingFacts DEF ActivationInv, PendingInv, PhaseInv
<1>2. /\ journal'.phase = "RollbackPending" /\ journal'.attempt = journal.attempt
      /\ journal'.channels = journal.channels /\ journal'.candidate = journal.candidate
      /\ journal'.rollback_target = journal.rollback_target
      /\ journal'.prior_floor = journal.prior_floor
      /\ journal'.prior_last_known_good = journal.prior_last_known_good
      /\ journal'.prior_previous_known_good = journal.prior_previous_known_good
      /\ journal' \in Journals /\ journal' # None
  BY <1>1, PhaseWritten DEF Phases
<1>3. launched' \in BOOLEAN
  OBVIOUS
<1>4. steps' = 0 /\ owner' \in OwnerStates
  BY DEF OwnerStates
<1>5. InstallTypeOK'
  BY <1>2, <1>3, <1>4 DEF ActivationInv, InstallTypeOK
<1>6. RestInv'
  BY <1>2 DEF RestInv
<1>7. PendingInv'
  BY <1>1, <1>2, PendingFacts, JournalFields
  DEF ActivationInv, InstallTypeOK, PendingInv, PhaseInv, PriorSlots, CommitSlots, Present,
      RetirementDue, Unpublished, ValidJournal
<1>8. FamilyInv'
  BY <1>1, <1>2 DEF ActivationInv, FamilyInv, RetirementBound, Retired
<1>9. StepsInv'
  BY <1>1, <1>2 DEF StepsInv, StepsUsed
<1> QED
  BY <1>5, <1>6, <1>7, <1>8, <1>9 DEF ActivationInv

\* A re-mint drafts the journal with new channels and writes nothing.
LEMMA RemintOK ==
  ASSUME ActivationInv, owner = "none", journal # None, Remint
  PROVE  ActivationInv'
<1> USE DEF Remint, slotVars, dirVars, worldVars
<1>1. journal # None /\ journal \in Journals /\ journal' = journal
  BY PendingFacts
<1>2. stage' \in StageNames \cup {None}
  BY DEF FoundStage, StagesOf, ActivationInv, InstallTypeOK, Stages
<1>3. /\ draft' \in Journals /\ draft' # None /\ mints' \in Nat
      /\ draft' = [journal EXCEPT !.channels = draft'.channels]
  BY <1>1, NoneAssumption DEF Journals, ActivationInv, InstallTypeOK
<1>4. steps = 0 /\ steps' = 0
  BY DEF ActivationInv, StepsInv
<1>5. InstallTypeOK'
  BY <1>1, <1>2, <1>3, <1>4 DEF ActivationInv, InstallTypeOK, OwnerStates
<1>6. RestInv'
  BY <1>1 DEF RestInv
<1>7. PendingInv'
  BY <1>1, <1>3, PendingFacts, JournalFields
  DEF ActivationInv, InstallTypeOK, PendingInv, PhaseInv, PriorSlots, CommitSlots, Present,
      RetirementDue, Unpublished, ValidJournal
<1>8. FamilyInv'
  BY DEF ActivationInv, FamilyInv
<1>9. StepsInv'
  BY <1>1, <1>4 DEF StepsInv, StepsUsed
<1> QED
  BY <1>5, <1>6, <1>7, <1>8, <1>9 DEF ActivationInv

\* resume_unlaunched is a re-mint.
LEMMA ResumeUnlaunchedOK ==
  ASSUME ActivationInv, ResumeUnlaunched
  PROVE  ActivationInv'
BY RemintOK DEF ResumeUnlaunched, Inspect

\* recover() re-mints, or turns AwaitingHealth into a rollback, or continues the commit
\* or the rollback a crash interrupted.
LEMMA RecoverOK ==
  ASSUME ActivationInv, Recover
  PROVE  ActivationInv'
<1> USE DEF Recover, Inspect, slotVars, dirVars, worldVars, countVars
<1>1. CASE Remint
  BY <1>1, RemintOK
<1>2. CASE ~Remint
  <2>1. /\ journal # None /\ journal \in Journals /\ journal.phase # "PublishPending"
        /\ owner' = "advancing" /\ steps' = 0
        /\ UNCHANGED <<version_floor, current, last_known_good, previous_known_good, versions,
                       stages, draft, stage, launched, families, attempts, mints, crashes>>
    BY <1>2, PendingFacts DEF ActivationInv, StepsInv
  <2>2. /\ journal'.phase = IF journal.phase = "AwaitingHealth" THEN "RollbackPending"
                            ELSE journal.phase
        /\ journal'.attempt = journal.attempt
        /\ journal'.channels = journal.channels /\ journal'.candidate = journal.candidate
        /\ journal'.rollback_target = journal.rollback_target
        /\ journal'.prior_floor = journal.prior_floor
        /\ journal'.prior_last_known_good = journal.prior_last_known_good
        /\ journal'.prior_previous_known_good = journal.prior_previous_known_good
        /\ journal' \in Journals /\ journal' # None
    BY <1>2, <2>1, PhaseWritten DEF Phases
  <2>3. InstallTypeOK'
    BY <2>1, <2>2 DEF ActivationInv, InstallTypeOK, OwnerStates
  <2>4. RestInv'
    BY <2>2 DEF RestInv
  <2>5. PendingInv'
    BY <2>1, <2>2, PendingFacts
    DEF ActivationInv, InstallTypeOK, PendingInv, PhaseInv, PriorSlots, CommitSlots, Present,
        RetirementDue, ValidJournal
  <2>6. FamilyInv'
    BY <2>1, <2>2 DEF ActivationInv, FamilyInv, RetirementBound, Retired
  <2>7. StepsInv'
    <3>1. StepsUsed(journal)' \in Nat
      BY <2>2, JournalFields DEF StepsUsed, Phases
    <3> QED
      BY <2>1, <2>2, <3>1 DEF StepsInv
  <2> QED
    BY <2>3, <2>4, <2>5, <2>6, <2>7 DEF ActivationInv
<1> QED
  BY <1>1, <1>2

\* repair_invalid_current writes the pointer a state of rest has.
LEMMA RepairInvalidCurrentOK ==
  ASSUME ActivationInv, RepairInvalidCurrent
  PROVE  ActivationInv'
<1> USE DEF RepairInvalidCurrent, dirVars, ownerVars, worldVars, countVars
<1>1. journal = None /\ journal' = None /\ owner = "none"
  BY DEF Admits
<1>2. InstallTypeOK'
  BY DEF ActivationInv, InstallTypeOK
<1>3. RestInv'
  BY <1>1 DEF ActivationInv, RestInv, PointerContext, Present, AllIntact, PriorSlots, ValidJournal
<1>4. PendingInv'
  BY <1>1 DEF PendingInv
<1>5. FamilyInv'
  BY DEF ActivationInv, FamilyInv
<1>6. StepsInv'
  BY <1>1 DEF ActivationInv, StepsInv
<1> QED
  BY <1>2, <1>3, <1>4, <1>5, <1>6 DEF ActivationInv

\* An unreadable current record at rest is the only slot that may be None.
LEMMA LoseCurrentOK ==
  ASSUME ActivationInv, LoseCurrent
  PROVE  ActivationInv'
<1> USE DEF LoseCurrent, dirVars, ownerVars, worldVars, countVars
<1>1. journal = None /\ journal' = None /\ owner = "none"
  BY DEF Admits
<1>2. InstallTypeOK'
  BY DEF ActivationInv, InstallTypeOK
<1>3. RestInv'
  BY <1>1 DEF ActivationInv, RestInv, PointerContext, Present, AllIntact, PriorSlots, ValidJournal
<1>4. PendingInv'
  BY <1>1 DEF PendingInv
<1>5. FamilyInv'
  BY DEF ActivationInv, FamilyInv
<1>6. StepsInv'
  BY <1>1 DEF ActivationInv, StepsInv
<1> QED
  BY <1>2, <1>3, <1>4, <1>5, <1>6 DEF ActivationInv

\* A stage may be damaged at any time.
LEMMA DamageStageOK ==
  ASSUME ActivationInv, NEW s \in stages, DamageStage(s)
  PROVE  ActivationInv'
<1> USE DEF DamageStage, slotVars, ownerVars, worldVars, countVars
<1>1. stages' \subseteq Stages
  BY DEF ActivationInv, InstallTypeOK, Stages
<1>2. InstallTypeOK'
  BY <1>1 DEF ActivationInv, InstallTypeOK
<1>3. RestInv'
  BY DEF ActivationInv, RestInv, PointerContext, Present, AllIntact, PriorSlots, ValidJournal
<1>4. PendingInv'
  BY DEF ActivationInv, PendingInv, PhaseInv, PriorSlots, CommitSlots, Present,
      RetirementDue, Unpublished, ValidJournal
<1>5. FamilyInv'
  BY DEF ActivationInv, FamilyInv
<1>6. StepsInv'
  BY DEF ActivationInv, StepsInv, StepsUsed, RetireeGone, RetirementDue, Present
<1> QED
  BY <1>2, <1>3, <1>4, <1>5, <1>6 DEF ActivationInv

\* An unverified copy may be damaged: nothing relies on it below the floor.
LEMMA DamageCandidateOK ==
  ASSUME ActivationInv, DamageCandidate
  PROVE  ActivationInv'
<1> USE DEF DamageCandidate, slotVars, ownerVars, worldVars, countVars
<1>1. /\ journal # None /\ journal' = journal /\ journal.phase = "PublishPending"
      /\ version_floor = journal.prior_floor /\ current = journal.rollback_target
  BY PendingFacts DEF ActivationInv, PendingInv, PhaseInv, Unpublished
<1>2. journal.candidate \in Present /\ journal.candidate \in Present'
  BY PendingFacts DEF Present, ActivationInv, InstallTypeOK
<1>3. InstallTypeOK'
  BY <1>1, PendingFacts DEF ActivationInv, InstallTypeOK, Copies
<1>4. RestInv'
  BY <1>1 DEF RestInv
<1>5. PendingInv'
  BY <1>1, PendingFacts, JournalFields
  DEF ActivationInv, InstallTypeOK, PendingInv, PhaseInv, PriorSlots, CommitSlots, Present,
      RetirementDue, Unpublished, ValidJournal
<1>6. FamilyInv'
  BY DEF ActivationInv, FamilyInv
<1>7. StepsInv'
  BY <1>1, <1>2 DEF ActivationInv, StepsInv, StepsUsed
<1> QED
  BY <1>3, <1>4, <1>5, <1>6, <1>7 DEF ActivationInv

\* The writer loader admits only a readable current.
LEMMA CompleteStageOK ==
  ASSUME ActivationInv, NEW v \in Candidates, NEW name \in StageNames, CompleteStage(v, name)
  PROVE  ActivationInv'
<1> USE DEF CompleteStage, slotVars, worldVars, countVars
<1>1. journal = None /\ journal' = None /\ current = last_known_good
  BY DEF Admits, PointerContext, ActivationInv, RestInv
<1>2. stages' \subseteq Stages
  <2>1. TRUE \in BOOLEAN
    OBVIOUS
  <2>2. [name |-> name, version |-> v, intact |-> TRUE] \in Stages
    BY <2>1 DEF Stages
  <2> QED
    BY <2>2 DEF ActivationInv, InstallTypeOK
<1>3. InstallTypeOK'
  BY <1>1, <1>2 DEF ActivationInv, InstallTypeOK, OwnerStates
<1>4. RestInv'
  BY <1>1 DEF ActivationInv, RestInv, PointerContext, Present, AllIntact, PriorSlots, ValidJournal
<1>5. PendingInv'
  BY <1>1 DEF PendingInv
<1>6. FamilyInv'
  BY DEF ActivationInv, FamilyInv
<1>7. StepsInv'
  BY <1>1 DEF ActivationInv, StepsInv
<1> QED
  BY <1>3, <1>4, <1>5, <1>6, <1>7 DEF ActivationInv

\* begin_activation drafts a valid journal of the present slots.
LEMMA BeginActivationOK ==
  ASSUME ActivationInv, BeginActivation
  PROVE  ActivationInv'
<1> USE DEF BeginActivation, slotVars, dirVars, worldVars
<1>1. journal = None /\ journal' = None /\ current = last_known_good
  BY DEF ActivationInv, RestInv, PendingInv
<1>2. PICK s \in stages :
        draft' = [attempt |-> attempts + 1, channels |-> mints + 1,
                  candidate |-> s.version, rollback_target |-> current,
                  prior_floor |-> version_floor,
                  prior_last_known_good |-> last_known_good,
                  prior_previous_known_good |-> previous_known_good,
                  phase |-> "PublishPending"]
  OBVIOUS
<1>3. s.version \in Candidates
  BY DEF ActivationInv, InstallTypeOK, Stages
<1>4. draft' \in Journals /\ draft' # None
  BY <1>1, <1>2, <1>3, NoneAssumption DEF Journals, Phases, ActivationInv, InstallTypeOK, Versions
<1>5. InstallTypeOK'
  BY <1>1, <1>4 DEF ActivationInv, InstallTypeOK, OwnerStates
<1>6. RestInv'
  BY <1>1, <1>2, <1>3, <1>4 DEF ActivationInv, RestInv, PointerContext, Present, AllIntact, PriorSlots, ValidJournal
<1>7. PendingInv'
  BY <1>1 DEF PendingInv
<1>8. FamilyInv'
  BY DEF ActivationInv, FamilyInv
<1>9. StepsInv'
  BY <1>1 DEF ActivationInv, StepsInv
<1> QED
  BY <1>5, <1>6, <1>7, <1>8, <1>9 DEF ActivationInv

\* The first durable write of an attempt: a fresh journal finds the slots it was drafted
\* from, and a re-minted one changes only the channels, which no family carries yet.
LEMMA JournalAttemptOK ==
  ASSUME ActivationInv, JournalAttempt
  PROVE  ActivationInv'
<1> USE DEF JournalAttempt, slotVars, dirVars, worldVars, countVars
<1>1. /\ draft \in Journals /\ draft # None /\ draft.phase = "PublishPending"
      /\ journal' = draft /\ ValidJournal(draft) /\ draft.candidate \in Candidates
      /\ draft.rollback_target = draft.prior_last_known_good
      /\ draft.prior_last_known_good = Baseline \/ draft.prior_previous_known_good # None
  <2>1. CASE journal = None
    BY <2>1 DEF ActivationInv, InstallTypeOK, RestInv, PriorSlots, PointerContext
  <2>2. CASE journal # None
    <3>1. /\ draft \in Journals /\ draft # None /\ journal \in Journals
          /\ draft = [journal EXCEPT !.channels = draft.channels]
      BY <2>2 DEF ActivationInv, InstallTypeOK, PendingInv
    <3>2. /\ draft.phase = journal.phase /\ draft.candidate = journal.candidate
          /\ draft.rollback_target = journal.rollback_target
          /\ draft.prior_floor = journal.prior_floor
          /\ draft.prior_last_known_good = journal.prior_last_known_good
          /\ draft.prior_previous_known_good = journal.prior_previous_known_good
      BY <3>1 DEF Journals
    <3> QED
      BY <2>2, <3>1, <3>2 DEF ActivationInv, PendingInv, ValidJournal
  <2> QED
    BY <2>1, <2>2
<1>2. InstallTypeOK'
  BY <1>1 DEF ActivationInv, InstallTypeOK, OwnerStates
<1>3. RestInv'
  BY <1>1 DEF RestInv
<1>4. PendingInv' /\ FamilyInv'
  <2>1. CASE journal = None
    <3>1. /\ last_known_good = draft.prior_last_known_good
          /\ previous_known_good = draft.prior_previous_known_good
          /\ version_floor = draft.prior_floor
          /\ current = draft.rollback_target
          /\ Present = {last_known_good, previous_known_good} \ {None}
          /\ AllIntact({last_known_good, previous_known_good} \ {None})
      BY <2>1 DEF ActivationInv, RestInv, PriorSlots
    <3>2. PendingInv'
      BY <1>1, <3>1, JournalFields, VersionOrder
      DEF PendingInv, PhaseInv, PriorSlots, Present, AllIntact, RetirementDue, ValidJournal
    <3>3. \A f \in families : f.version \in Nat
      BY VersionOrder DEF ActivationInv, InstallTypeOK
    <3>4. FamilyInv'
      BY <1>1, <3>1, <3>3, PriorBelow DEF ActivationInv, FamilyInv
    <3> QED
      BY <3>2, <3>4
  <2>2. CASE journal # None
    <3>1. /\ draft = [journal EXCEPT !.channels = draft.channels] /\ journal \in Journals
          /\ journal.phase = "PublishPending"
      BY <2>2 DEF ActivationInv, InstallTypeOK, PendingInv
    <3>2. /\ draft.phase = journal.phase /\ draft.candidate = journal.candidate
          /\ draft.rollback_target = journal.rollback_target
          /\ draft.prior_floor = journal.prior_floor
          /\ draft.prior_last_known_good = journal.prior_last_known_good
          /\ draft.prior_previous_known_good = journal.prior_previous_known_good
      BY <1>1, <3>1 DEF Journals
    <3>3. PendingInv'
      BY <1>1, <2>2, <3>2, JournalFields
      DEF ActivationInv, PendingInv, PhaseInv, PriorSlots, Present, RetirementDue, ValidJournal
    <3>4. FamilyInv'
      BY <1>1, <2>2, <3>1, <3>2 DEF ActivationInv, FamilyInv
    <3> QED
      BY <3>3, <3>4
  <2> QED
    BY <2>1, <2>2
<1>5. StepsInv'
  BY <1>1 DEF StepsInv, StepsUsed
<1> QED
  BY <1>2, <1>3, <1>4, <1>5 DEF ActivationInv

-----------------------------------------------------------------------------
\* The invariant.

\* The initializer's installation is at rest.
LEMMA InitOK == Init => ActivationInv
<1> SUFFICES ASSUME Init PROVE ActivationInv
  OBVIOUS
<1> USE DEF Init
<1>1. launched \in BOOLEAN
  OBVIOUS
<1>2. InstallTypeOK
  BY <1>1, VersionsAssumption DEF InstallTypeOK, Versions, Copies, OwnerStates
<1>3. RestInv
  BY VersionsAssumption
  DEF RestInv, PointerContext, Present, AllIntact, Versions
<1>4. PendingInv /\ FamilyInv /\ StepsInv
  BY VersionsAssumption DEF PendingInv, FamilyInv, StepsInv
<1> QED
  BY <1>2, <1>3, <1>4 DEF ActivationInv

\* The invariant depends on the state only.
LEMMA StutterOK ==
  ASSUME ActivationInv, UNCHANGED vars
  PROVE  ActivationInv'
BY DEF vars, ActivationInv, InstallTypeOK, RestInv, PendingInv, PhaseInv, FamilyInv, StepsInv,
       StepsUsed, PriorSlots, CommitSlots, PointerContext, Present, AllIntact, RetirementDue,
       RetireeGone, Unpublished, ValidJournal

\* Every action preserves the invariant.
LEMMA NextOK ==
  ASSUME ActivationInv, Next
  PROVE  ActivationInv'
<1>1. CASE Begin
  BY <1>1, CompleteStageOK, BeginActivationOK, JournalAttemptOK DEF Begin
<1>2. CASE Advance
  BY <1>2, PublishCandidateOK, AdvanceFloorOK, RetireDamagedOK, ReplaceCopyOK,
     ReplacementVerifiedOK, NoCopyLeftOK, AbandonAttemptOK, SelectCandidateOK,
     EnterAwaitingHealthOK, AwaitHealthOK, PreservePriorKnownGoodOK, CommitCandidateOK,
     RestoreRollbackTargetOK, RetireVersionOK, RetireRefusedOK, RemoveJournalOK DEF Advance
<1>3. CASE Resolve
  BY <1>3, LaunchCandidateOK, AcceptHealthOK, RollBackOK, CompleteOK DEF Resolve
<1>4. CASE Restart
  BY <1>4, ResumeUnlaunchedOK, RecoverOK, RepairInvalidCurrentOK DEF Restart
<1>5. CASE Faults
  BY <1>5, CrashOK, DamageStageOK, DamageCandidateOK, LoseCurrentOK DEF Faults
<1>6. CASE \E f \in families : FamilyExits(f)
  BY <1>6, FamilyExitsOK
<1> QED
  BY <1>1, <1>2, <1>3, <1>4, <1>5, <1>6 DEF Next

\* Journal, pointers, floor, copies, running families and iteration count fit one phase
\* of one attempt after every durable write and every crash, for every set of versions,
\* every number of attempts, crashes and stages.
THEOREM ActivationHolds == Spec => []ActivationInv
<1>1. Init => ActivationInv
  BY InitOK
<1>2. ActivationInv /\ [Next]_vars => ActivationInv'
  BY NextOK, StutterOK
<1> QED
  BY <1>1, <1>2, PTL DEF Spec

-----------------------------------------------------------------------------
\* What follows from it.

\* load_windows_recovery_inspection admits every journal the invariant admits.
LEMMA RecoveryAdmitted ==
  ASSUME ActivationInv, journal # None
  PROVE  RecoveryAdmits(journal)
<1> DEFINE due == RetirementDue(journal)
           byName == {due} \cup (IF Unpublished(journal) THEN {journal.candidate} ELSE {})
           held == Slots \cup {journal.candidate, journal.rollback_target,
                               journal.prior_last_known_good,
                               journal.prior_previous_known_good}
           selected == held \ (byName \cup {None})
<1>1. PhaseInv(journal) /\ PendingInv /\ InstallTypeOK
  BY DEF ActivationInv, PendingInv
<1>2. Classify(journal) # "Refuse"
  BY <1>1, ClassifyPending, PendingFacts DEF Phases
<1>3. /\ current \in {journal.candidate, journal.prior_last_known_good}
      /\ last_known_good \in {journal.candidate, journal.prior_last_known_good}
      /\ previous_known_good \in {journal.prior_last_known_good,
                                  journal.prior_previous_known_good}
  BY <1>1, PendingFacts DEF PhaseInv, PriorSlots, CommitSlots
<1>4. current # None
  BY <1>3, PendingFacts, VersionOrder
<1>5. \A v \in Slots : v <= version_floor
  <2>1. /\ journal.prior_last_known_good <= version_floor
        /\ journal.prior_previous_known_good # None =>
             journal.prior_previous_known_good <= version_floor
        /\ version_floor # journal.prior_floor => journal.candidate <= version_floor
    <3>1. /\ journal.prior_last_known_good \in Nat /\ journal.candidate \in Nat
          /\ journal.prior_previous_known_good # None =>
               journal.prior_previous_known_good \in Nat
          /\ journal.prior_floor \in Nat
      BY PendingFacts, PriorBelow, VersionOrder
    <3>2. version_floor \in {journal.prior_floor, journal.candidate}
      BY <1>1 DEF PhaseInv
    <3>3. ValidJournal(journal)
      BY PendingFacts
    <3> QED
      BY <3>1, <3>2, <3>3 DEF ValidJournal
  <2>2. version_floor = journal.prior_floor =>
          /\ current = journal.prior_last_known_good
          /\ last_known_good = journal.prior_last_known_good
    BY <1>1, PendingFacts DEF PhaseInv, PriorSlots
  <2> QED
    BY <1>3, <2>1, <2>2, PendingFacts DEF Slots
<1>6. Present \subseteq selected \cup byName
  BY VersionOrder DEF ActivationInv, PendingInv, Present
<1>7. AllIntact(selected)
  <2>1. versions[journal.prior_last_known_good] = "intact"
    BY <1>1 DEF PendingInv
  <2>2. journal.prior_previous_known_good \in selected =>
          versions[journal.prior_previous_known_good] = "intact"
    BY <1>1 DEF PendingInv
  <2>3. journal.candidate \in selected => versions[journal.candidate] = "intact"
    BY <1>1, PendingFacts DEF PhaseInv, Unpublished, RetirementDue
  <2>4. selected \subseteq {journal.candidate, journal.prior_last_known_good,
                            journal.prior_previous_known_good}
    BY <1>3, PendingFacts DEF Slots
  <2> QED
    BY <2>1, <2>2, <2>3, <2>4 DEF AllIntact
<1> QED
  BY <1>2, <1>4, <1>5, <1>6, <1>7 DEF RecoveryAdmits, ActivationInv, PendingInv

\* No start is ever refused: the selection, the repair or the recovery inspection admits
\* the directory wherever the owner was lost, and advance() meets no state it must refuse
\* (recovery_decision, load_windows_recovery_inspection, select_committed_package).
THEOREM StartsAdmitted == Spec => []StartAdmitted
<1>1. ActivationInv => StartAdmitted
  <2> SUFFICES ASSUME ActivationInv PROVE StartAdmitted
    OBVIOUS
  <2>1. journal = None /\ owner = "none" =>
          Admits(IF current = None THEN last_known_good ELSE current)
    BY VersionOrder DEF ActivationInv, RestInv, Admits, PointerContext, AllIntact, InstallTypeOK
  <2>2. journal # None => RecoveryAdmits(journal)
    BY RecoveryAdmitted
  <2>3. owner = "advancing" => NextStep(journal) # "Refuse"
    BY OwnedJournal, NextStepPending DEF ActivationInv
  <2> QED
    BY <2>1, <2>2, <2>3 DEF StartAdmitted
<1> QED
  BY <1>1, ActivationHolds, PTL

\* Every pointer, and the rollback target of a pending attempt, names an intact version:
\* nothing is retired that a start may still need (retire, remove_journal).
THEOREM WayBack == Spec => []WayBackKept
<1>1. ActivationInv => WayBackKept
  <2>1. ASSUME ActivationInv, journal = None
        PROVE  AllIntact(Slots)
    BY <2>1 DEF ActivationInv, RestInv, Slots, AllIntact
  <2>2. ASSUME ActivationInv, journal # None
        PROVE  AllIntact(Slots) /\ AllIntact({journal.rollback_target})
    <3>1. PhaseInv(journal) /\ PendingInv
      BY <2>2 DEF ActivationInv, PendingInv
    <3>2. versions[journal.prior_last_known_good] = "intact"
      BY <2>2, <3>1 DEF PendingInv
    <3>3. /\ current = journal.candidate => versions[journal.candidate] = "intact"
          /\ last_known_good = journal.candidate => versions[journal.candidate] = "intact"
      BY <2>2, <3>1, PendingFacts DEF PhaseInv, PriorSlots
    <3>4. previous_known_good = journal.prior_previous_known_good
            /\ previous_known_good # None =>
          versions[previous_known_good] = "intact"
      BY <2>2, <3>1, PendingFacts DEF PendingInv, RetirementDue
    <3>5. /\ current \in {journal.candidate, journal.prior_last_known_good}
          /\ last_known_good \in {journal.candidate, journal.prior_last_known_good}
          /\ previous_known_good \in {journal.prior_last_known_good,
                                      journal.prior_previous_known_good}
      BY <2>2, <3>1, PendingFacts DEF PhaseInv, PriorSlots, CommitSlots
    <3> QED
      BY <2>2, <3>2, <3>3, <3>4, <3>5, PendingFacts DEF AllIntact, Slots
  <2> QED
    BY <2>1, <2>2 DEF WayBackKept
<1> QED
  BY <1>1, ActivationHolds, PTL

\* No family of the candidate runs once its rollback is journaled
\* (require_retirement_binding).
THEOREM RollbackExits == Spec => []RollbackAfterExit
<1>1. ActivationInv => RollbackAfterExit
  BY DEF ActivationInv, FamilyInv, RollbackAfterExit, InUse
<1> QED
  BY <1>1, ActivationHolds, PTL

-----------------------------------------------------------------------------
\* The refinement of AtomicUpdate.

\* What readers see depends on the slots and the journal only.
LEMMA ReadersUnmoved ==
  ASSUME UNCHANGED <<version_floor, current, last_known_good, previous_known_good, journal>>
  PROVE  UNCHANGED Atomic!atomicVars
BY DEF Atomic!atomicVars, Accepted

\* Raising the floor puts the candidate on trial.
LEMMA FloorStep ==
  ASSUME ActivationInv, journal # None, Unpublished(journal),
         version_floor' = journal.candidate,
         UNCHANGED <<current, last_known_good, previous_known_good, journal>>
  PROVE  Atomic!AtomicNext
<1>1. /\ journal.phase = "PublishPending" /\ version_floor = journal.prior_floor
      /\ journal.candidate \in Candidates /\ journal.rollback_target \in Versions
  BY PendingFacts DEF ActivationInv, PendingInv, Unpublished
<1>2. /\ version_floor \in Nat /\ journal.candidate \in Nat
      /\ journal.candidate > version_floor /\ journal.candidate # version_floor
  BY <1>1, PendingFacts, PriorBelow DEF ValidJournal
<1>3. Atomic!Try(journal.candidate)
  BY <1>1, <1>2, VersionOrder DEF Atomic!Try, Accepted
<1> QED
  BY <1>1, <1>3 DEF Atomic!AtomicNext

\* A journaled attempt below its floor is invisible to readers.
LEMMA JournaledUnmoved ==
  ASSUME ActivationInv, JournalAttempt
  PROVE  UNCHANGED Atomic!atomicVars
<1> USE DEF JournalAttempt, slotVars
<1>1. CASE journal = None
  <2>1. /\ draft # None /\ draft.phase = "PublishPending" /\ ValidJournal(draft)
        /\ draft.prior_floor = version_floor /\ draft.rollback_target = current
        /\ draft \in Journals
    BY <1>1 DEF ActivationInv, RestInv, InstallTypeOK
  <2>2. version_floor # draft.candidate
    BY <2>1, ValidOrder
  <2> QED
    BY <1>1, <2>1, <2>2 DEF Atomic!atomicVars, Accepted
<1>2. CASE journal # None
  <2>1. /\ draft = [journal EXCEPT !.channels = draft.channels] /\ journal \in Journals
        /\ draft # None /\ journal.phase = "PublishPending"
    BY <1>2 DEF ActivationInv, InstallTypeOK, PendingInv
  <2>2. /\ draft.phase = journal.phase /\ draft.candidate = journal.candidate
        /\ draft.rollback_target = journal.rollback_target
    BY <2>1 DEF Journals
  <2> QED
    BY <1>2, <2>1, <2>2 DEF Atomic!atomicVars, Accepted
<1> QED
  BY <1>1, <1>2

\* So is its removal.
LEMMA AbandonedUnmoved ==
  ASSUME ActivationInv, journal # None, Unpublished(journal), journal' = None,
         UNCHANGED slotVars
  PROVE  UNCHANGED Atomic!atomicVars
<1>1. /\ journal.phase = "PublishPending" /\ current = journal.rollback_target
      /\ version_floor # journal.candidate
  BY PendingFacts DEF ActivationInv, PendingInv, PhaseInv, Unpublished
<1> QED
  BY <1>1 DEF slotVars, Atomic!atomicVars, Accepted

\* Removing the journal of a resolved attempt shows readers what it already said.
LEMMA RemovedUnmoved ==
  ASSUME ActivationInv, RemoveJournal
  PROVE  UNCHANGED Atomic!atomicVars
<1>1. journal # None /\ journal' = None /\ UNCHANGED slotVars
  BY OwnedJournal DEF RemoveJournal, Due, RemoveJournalAndLeftovers
<1>2. \/ /\ journal.phase = "HealthAccepted" /\ last_known_good = journal.candidate
         /\ previous_known_good = journal.prior_last_known_good
         /\ current = journal.candidate
      \/ /\ journal.phase = "RollbackPending" /\ current = journal.rollback_target
  BY <1>1, NextStepResolved DEF ActivationInv, PendingInv, PhaseInv, RemoveJournal, Due
<1> QED
  BY <1>1, <1>2 DEF slotVars, Atomic!atomicVars, Accepted

\* Journaling the rollback is the failure of the trial.
LEMMA TrialFails ==
  ASSUME ActivationInv, journal # None, journal.phase = "AwaitingHealth",
         WritePhase("RollbackPending"), UNCHANGED slotVars
  PROVE  Atomic!AtomicNext
<1>1. journal \in Journals /\ version_floor = journal.candidate /\ journal.candidate # None
  BY PendingFacts, VersionOrder DEF ActivationInv, PendingInv, PhaseInv
<1>2. /\ journal' # None /\ journal'.phase = "RollbackPending"
      /\ journal'.rollback_target = journal.rollback_target
  BY <1>1, PhaseWritten DEF Phases
<1>3. Atomic!Fail
  BY <1>1, <1>2 DEF Atomic!Fail, Accepted, slotVars
<1> QED
  BY <1>3 DEF Atomic!AtomicNext

\* Journaling the accepted health is the commit; the slots follow later.
LEMMA TrialCommits ==
  ASSUME ActivationInv, NEW f \in families, AcceptHealth(f)
  PROVE  Atomic!AtomicNext
<1>1. /\ journal # None /\ journal \in Journals /\ journal.phase = "AwaitingHealth"
      /\ version_floor = journal.candidate /\ journal.candidate # None
      /\ last_known_good = journal.prior_last_known_good
  BY OwnedJournal, PendingFacts, VersionOrder
  DEF ActivationInv, PendingInv, PhaseInv, PriorSlots, AcceptHealth
<1>2. /\ journal' # None /\ journal'.phase = "HealthAccepted"
      /\ journal'.candidate = journal.candidate
      /\ journal'.prior_last_known_good = journal.prior_last_known_good
      /\ UNCHANGED slotVars
  BY <1>1, PhaseWritten DEF Phases, AcceptHealth
<1>3. Atomic!Commit
  BY <1>1, <1>2 DEF Atomic!Commit, Accepted, slotVars
<1> QED
  BY <1>3 DEF Atomic!AtomicNext

\* Each iteration of advance() is a step of AtomicUpdate or invisible to readers.
LEMMA AdvanceMaps ==
  ASSUME ActivationInv, Advance
  PROVE  Atomic!AtomicNext \/ UNCHANGED Atomic!atomicVars
<1> USE DEF Step, Due, slotVars, worldVars, countVars, dirVars
<1>1. CASE \/ PublishCandidate \/ RetireDamaged \/ ReplaceCopy \/ AwaitHealth
           \/ RetireVersion \/ RetireRefused
  BY <1>1, ReadersUnmoved
  DEF PublishCandidate, RetireDamaged, ReplaceCopy, AwaitHealth, RetireVersion, RetireRefused
<1>2. CASE AdvanceFloor
  <2>1. journal # None /\ Unpublished(journal)
    BY <1>2, OwnedJournal, NextStepPending DEF AdvanceFloor, ActivationInv, Unpublished
  <2> QED
    BY <1>2, <2>1, FloorStep DEF AdvanceFloor
<1>3. CASE ReplacementVerified
  <2>1. journal # None /\ Unpublished(journal)
    BY <1>3, OwnedJournal DEF ReplacementVerified, ActivationInv, PendingInv
  <2> QED
    BY <1>3, <2>1, FloorStep DEF ReplacementVerified
<1>4. CASE NoCopyLeft
  <2>1. journal # None /\ Unpublished(journal)
    BY <1>4, OwnedJournal DEF NoCopyLeft, ActivationInv, PendingInv
  <2> QED
    BY <1>4, <2>1, AbandonedUnmoved DEF NoCopyLeft, RemoveJournalAndLeftovers
<1>5. CASE AbandonAttempt
  <2>1. journal # None /\ Unpublished(journal)
    BY <1>5, OwnedJournal, NextStepPending DEF AbandonAttempt, ActivationInv, Unpublished
  <2> QED
    BY <1>5, <2>1, AbandonedUnmoved DEF AbandonAttempt, RemoveJournalAndLeftovers
<1>6. CASE SelectCandidate \/ RestoreRollbackTarget
  <2>1. journal # None
    BY <1>6, OwnedJournal DEF SelectCandidate, RestoreRollbackTarget
  <2>2. UNCHANGED <<version_floor, last_known_good, previous_known_good, journal>>
    BY <1>6 DEF SelectCandidate, RestoreRollbackTarget
  <2> QED
    BY <2>1, <2>2 DEF Atomic!atomicVars, Accepted
<1>7. CASE EnterAwaitingHealth
  <2>1. journal # None /\ journal \in Journals /\ journal.phase = "PublishPending"
    BY <1>7, OwnedJournal, PendingFacts, NextStepPending DEF EnterAwaitingHealth, ActivationInv
  <2>2. /\ journal' # None /\ journal'.phase = "AwaitingHealth"
        /\ journal'.candidate = journal.candidate
        /\ journal'.rollback_target = journal.rollback_target
        /\ UNCHANGED <<version_floor, current, last_known_good, previous_known_good>>
    BY <1>7, <2>1, PhaseWritten DEF EnterAwaitingHealth, Phases
  <2> QED
    BY <2>1, <2>2 DEF Atomic!atomicVars, Accepted
<1>8. CASE PreservePriorKnownGood \/ CommitCandidate
  <2>1. journal # None /\ journal.phase = "HealthAccepted"
    BY <1>8, OwnedJournal, NextStepResolved
    DEF PreservePriorKnownGood, CommitCandidate, ActivationInv
  <2>2. UNCHANGED <<version_floor, current, journal>>
    BY <1>8 DEF PreservePriorKnownGood, CommitCandidate
  <2> QED
    BY <2>1, <2>2 DEF Atomic!atomicVars, Accepted
<1>9. CASE RemoveJournal
  BY <1>9, RemovedUnmoved
<1> QED
  BY <1>1, <1>2, <1>3, <1>4, <1>5, <1>6, <1>7, <1>8, <1>9 DEF Advance

\* So is each start.
LEMMA RestartMaps ==
  ASSUME ActivationInv, Restart
  PROVE  Atomic!AtomicNext \/ UNCHANGED Atomic!atomicVars
<1> USE DEF slotVars
<1>1. CASE Remint
  BY <1>1, ReadersUnmoved DEF Remint
<1>2. CASE Recover /\ ~Remint
  <2>1. journal # None /\ journal.phase # "PublishPending" /\ UNCHANGED slotVars
    BY <1>2 DEF Recover, Inspect
  <2>2. CASE journal.phase = "AwaitingHealth"
    BY <1>2, <2>1, <2>2, TrialFails DEF Recover
  <2>3. CASE journal.phase # "AwaitingHealth"
    BY <1>2, <2>1, <2>3, ReadersUnmoved DEF Recover
  <2> QED
    BY <2>2, <2>3
<1>3. CASE RepairInvalidCurrent
  <2>1. Atomic!Restore
    BY <1>3 DEF RepairInvalidCurrent, Admits, Atomic!Restore, Accepted
  <2> QED
    BY <2>1 DEF Atomic!AtomicNext
<1> QED
  BY <1>1, <1>2, <1>3 DEF Restart, ResumeUnlaunched

\* So is every step.
LEMMA NextMaps ==
  ASSUME ActivationInv, [Next]_vars
  PROVE  [Atomic!AtomicNext]_Atomic!atomicVars
<1> USE DEF slotVars
<1>1. CASE Begin
  <2>1. CASE \E v \in Candidates, name \in StageNames : CompleteStage(v, name)
    BY <2>1, ReadersUnmoved DEF CompleteStage
  <2>2. CASE BeginActivation
    BY <2>2, ReadersUnmoved DEF BeginActivation
  <2>3. CASE JournalAttempt
    BY <2>3, JournaledUnmoved
  <2> QED
    BY <1>1, <2>1, <2>2, <2>3 DEF Begin
<1>2. CASE Advance
  BY <1>2, AdvanceMaps
<1>3. CASE Resolve
  <2>1. CASE LaunchCandidate \/ Complete
    BY <2>1, ReadersUnmoved DEF LaunchCandidate, Complete
  <2>2. CASE \E f \in families : AcceptHealth(f)
    BY <2>2, TrialCommits
  <2>3. CASE RollBack
    <3>1. journal # None /\ journal.phase = "AwaitingHealth"
      BY <2>3, OwnedJournal DEF RollBack, ActivationInv, PendingInv
    <3> QED
      BY <2>3, <3>1, TrialFails DEF RollBack
  <2> QED
    BY <1>3, <2>1, <2>2, <2>3 DEF Resolve
<1>4. CASE Restart
  BY <1>4, RestartMaps
<1>5. CASE Faults
  <2>1. CASE Crash \/ DamageCandidate \/ \E s \in stages : DamageStage(s)
    BY <2>1, ReadersUnmoved DEF Crash, DamageCandidate, DamageStage
  <2>2. CASE LoseCurrent
    <3>1. Atomic!Lose
      BY <2>2 DEF LoseCurrent, Atomic!Lose, Accepted
    <3> QED
      BY <3>1 DEF Atomic!AtomicNext
  <2> QED
    BY <1>5, <2>1, <2>2 DEF Faults
<1>6. CASE \E f \in families : FamilyExits(f)
  BY <1>6, ReadersUnmoved DEF FamilyExits
<1>7. CASE UNCHANGED vars
  BY <1>7, ReadersUnmoved DEF vars
<1> QED
  BY <1>1, <1>2, <1>3, <1>4, <1>5, <1>6, <1>7 DEF Next

\* The journaled transaction, with every crash and recovery, implements AtomicUpdate:
\* trial, commit and failure are atomic for everyone who reads through the journal.
THEOREM ImplementsAtomicUpdate == Spec => AtomicToReaders
<1>1. Init => Atomic!AtomicInit
  BY VersionsAssumption DEF Init, Atomic!AtomicInit, Accepted
<1>2. ActivationInv /\ [Next]_vars => [Atomic!AtomicNext]_Atomic!atomicVars
  BY NextMaps
<1> QED
  BY <1>1, <1>2, ActivationHolds, PTL DEF Spec, AtomicToReaders, Atomic!AtomicSpec

=============================================================================
