----------------------- MODULE PrimaryRecoveryProofs -----------------------
(***************************************************************************)
(* Proofs about the recovery of the primary role, for any crash limit and  *)
(* any set of inputs.  The argument is one inductive invariant,            *)
(* RecoveryInv.  Its centre is RevokedInv and BoundInv: the supervisor     *)
(* numbers its generations in order and revokes each one once, so the      *)
(* revocations on their way are the numbers that follow the last one       *)
(* applied, and a link on its way, held or installed is younger than the   *)
(* one before it.  LostInv follows the evidence of an ended link from the  *)
(* reader or the filesystem worker over the owner to the supervisor, and   *)
(* ReadyInv the arming of recovery back to Ready.                          *)
(***************************************************************************)
EXTENDS PrimaryRecovery, SequenceTheorems, TLAPS

-----------------------------------------------------------------------------
(* The inductive invariant.                                                *)

(* The supervised generation has not been revoked yet.                     *)
Unrevoked == {"waiting"} \cup Revoking

(* Every generation but the first was paid for with a crash, and one that  *)
(* may still be spawned is within the policy.                              *)
CrashInv ==
  /\ sup \in Unrevoked => crashes = attempt - 1
  /\ sup \in {"backoff", "gate", "prepared"} => crashes = attempt /\ attempt < MaxCrashes

(* A restart is asked for, in every place on its way to the supervisor,    *)
(* only of a generation whose link has ended.                              *)
LostInv ==
  /\ restart_attempt # 0 => link[restart_attempt] = "broken"
  /\ sup = "restarting" => link[attempt] = "broken"
  /\ \A a \in Attempts : reader[a] \in {"ended", "latched", "failing"} => link[a] = "broken"
  /\ \A k \in DOMAIN commands :
       commands[k].kind \in {"fail", "fail_retired"} =>
         commands[k].by \in Attempts /\ link[commands[k].by] = "broken"
  /\ worker \in {"working", "told"} => fs_attempt \in Attempts
  /\ worker = "told" => link[fs_attempt] = "broken"
  /\ owner = "rebind" => held \in Attempts /\ link[held] = "broken"

(* Recovery follows Ready, and Ready the attached router.                  *)
ReadyInv ==
  /\ pre_ready_link_failed => ~window_ready
  /\ \/ attempt > 1 \/ sup = "prepared" \/ gate = "armed"
     \/ \E k \in DOMAIN commands : commands[k].kind = "arm"
     => window_ready
  /\ window_ready => attached
  /\ main = "loop" => attached

(* Links are handed over once each and in order, after the first; the      *)
(* installed one is older than any still on its way.                       *)
BoundInv ==
  /\ link[1] # "none"
  /\ current <= attempt
  /\ held # 0 => held > 1 /\ held <= attempt /\ held > current /\ link[held] # "none"
  /\ current # 0 => link[current] # "none"
  /\ \A k \in DOMAIN bounds :
       /\ bounds[k] > 1 /\ bounds[k] <= attempt
       /\ bounds[k] > current /\ bounds[k] > held /\ link[bounds[k]] # "none"
       /\ \A j \in DOMAIN bounds : j < k => bounds[j] < bounds[k]

(* The owner hears of every revocation once and in order, and an installed *)
(* generation of a running session is one it has not heard revoked.        *)
RevokedInv ==
  owner # "exited" =>
    /\ \A k \in DOMAIN events : events[k] = last_revoked_attempt + k
    /\ LET revoked == last_revoked_attempt + Len(events) IN
       /\ sup \in Unrevoked => revoked = attempt - 1
       /\ sup \in {"backoff", "gate", "prepared", "crashloop", "failed"} => revoked = attempt
       /\ sup = "stopped" => revoked \in {attempt, attempt + 1}
    /\ running /\ current # 0 => current > last_revoked_attempt
    /\ owner = "drain" => current = 0 /\ held > last_revoked_attempt
    /\ owner \in {"redrain", "drain", "rebind"} <=> held # 0

(* The inductive invariant: the type, and the parts above.                 *)
RecoveryInv ==
  /\ RecoveryTypeOK
  /\ CrashInv
  /\ LostInv
  /\ ReadyInv
  /\ BoundInv
  /\ RevokedInv
  /\ RevokedBeforeBound

-----------------------------------------------------------------------------
(* Facts about links, the channels and the readers.                        *)

(* A step in which no link is taken back, and no ended one comes alive.    *)
LinksOnlyEnd ==
  /\ link' \in [Attempts -> {"none", "open", "broken"}]
  /\ \A a \in Attempts : /\ link[a] # "none" => link'[a] # "none"
                         /\ link[a] = "broken" => link'[a] = "broken"

\* Closing a link ends it if it was open and changes no other.
LEMMA CloseEnds ==
  ASSUME SupervisorTypeOK, NEW a \in 0 .. MaxCrashes, link' = Closed(a)
  PROVE  /\ LinksOnlyEnd
         /\ a \in Attempts /\ link[a] # "none" => link'[a] = "broken"
  BY MaxCrashesAssumption DEF SupervisorTypeOK, Attempts, LinksOnlyEnd, Closed

(* A step that adds at most one command to the owner's channel.            *)
AtMostAdds(kind, by) ==
  /\ commands' \in Seq(Commands)
  /\ \A k \in DOMAIN commands' :
       \/ k \in DOMAIN commands /\ commands'[k] = commands[k]
       \/ commands'[k].kind = kind /\ commands'[k].by = by

\* A command sent to the owner is the only one added to its channel.
LEMMA SendAdds ==
  ASSUME RecoveryTypeOK, NEW kind, NEW by, Command(kind, by) \in Commands, Send(kind, by)
  PROVE  AtMostAdds(kind, by)
<1>1. commands \in Seq(Commands)
  BY DEF RecoveryTypeOK
<1>2. CASE OwnerGone
  BY <1>1, <1>2 DEF Send, AtMostAdds
<1>3. CASE ~OwnerGone
  <2>1. commands' = Append(commands, Command(kind, by))
    BY <1>3 DEF Send
  <2>2. \A k \in DOMAIN commands' :
          \/ k \in DOMAIN commands /\ commands'[k] = commands[k]
          \/ commands'[k] = Command(kind, by)
    BY <1>1, <2>1, AppendProperties
  <2>3. commands' \in Seq(Commands)
    BY <1>1, <2>1, AppendProperties
  <2>4. Command(kind, by).kind = kind /\ Command(kind, by).by = by
    BY DEF Command
  <2> QED
    BY <2>2, <2>3, <2>4 DEF AtMostAdds
<1> QED
  BY <1>2, <1>3

\* The owner takes the first command and leaves the others in order.
LEMMA TakeRemoves ==
  ASSUME RecoveryTypeOK, NEW kind, Takes(kind)
  PROVE  /\ commands' \in Seq(Commands)
         /\ Head(commands) \in Commands
         /\ commands # <<>> /\ Head(commands) = commands[1] /\ 1 \in DOMAIN commands
         /\ \A k \in DOMAIN commands' :
              k + 1 \in DOMAIN commands /\ commands'[k] = commands[k + 1]
<1>1. commands \in Seq(Commands) /\ commands # <<>> /\ commands' = Tail(commands)
  BY DEF RecoveryTypeOK, Takes
<1> QED
  BY <1>1, HeadTailProperties

\* The entries of a sequence and their positions.
LEMMA Entries ==
  ASSUME NEW S, NEW queue \in Seq(S)
  PROVE  \A k \in DOMAIN queue : queue[k] \in S /\ k \in Nat /\ k <= Len(queue)
<1>1. Len(queue) \in Nat /\ DOMAIN queue = 1 .. Len(queue)
  BY LenProperties
<1> QED
  BY <1>1, ElementOfSeq

\* The entries of a sequence with one more at its end.
LEMMA Appended ==
  ASSUME NEW S, NEW queue \in Seq(S), NEW last \in S
  PROVE  /\ Append(queue, last) \in Seq(S)
         /\ Len(queue) \in Nat /\ Len(Append(queue, last)) = Len(queue) + 1
         /\ \A k \in DOMAIN queue : queue[k] \in S /\ k \in Nat /\ k <= Len(queue)
         /\ \A k \in DOMAIN Append(queue, last) :
              \/ k \in DOMAIN queue /\ Append(queue, last)[k] = queue[k]
              \/ k = Len(queue) + 1 /\ Append(queue, last)[k] = last
<1>1. /\ Len(queue) \in Nat /\ DOMAIN queue = 1 .. Len(queue)
      /\ \A k \in 1 .. Len(queue) : queue[k] \in S
  BY LenProperties, ElementOfSeq
<1>2. /\ Append(queue, last) \in Seq(S) /\ Len(Append(queue, last)) = Len(queue) + 1
      /\ \A k \in 1 .. Len(queue) : Append(queue, last)[k] = queue[k]
      /\ Append(queue, last)[Len(queue) + 1] = last
  BY AppendProperties
<1>3. DOMAIN Append(queue, last) = 1 .. Len(queue) + 1
  BY <1>2, LenProperties
<1>4. \A k \in 1 .. Len(queue) + 1 : k \in 1 .. Len(queue) \/ k = Len(queue) + 1
  BY <1>1
<1> QED
  BY <1>1, <1>2, <1>3, <1>4

\* The entries of a sequence without its first.
LEMMA Tailed ==
  ASSUME NEW S, NEW queue \in Seq(S), queue # <<>>
  PROVE  /\ Tail(queue) \in Seq(S)
         /\ Len(queue) \in Nat \ {0} /\ Len(Tail(queue)) = Len(queue) - 1
         /\ Head(queue) = queue[1] /\ Head(queue) \in S /\ 1 \in DOMAIN queue
         /\ \A k \in DOMAIN Tail(queue) :
              k \in Nat \ {0} /\ k + 1 \in DOMAIN queue /\ Tail(queue)[k] = queue[k + 1]
<1>1. /\ Len(queue) \in Nat \ {0} /\ DOMAIN queue = 1 .. Len(queue)
  BY LenProperties, EmptySeq
<1>2. /\ Tail(queue) \in Seq(S) /\ Len(Tail(queue)) = Len(queue) - 1
      /\ \A k \in 1 .. Len(Tail(queue)) : Tail(queue)[k] = queue[k + 1]
      /\ Head(queue) = queue[1] /\ Head(queue) \in S
  BY HeadTailProperties
<1>3. DOMAIN Tail(queue) = 1 .. Len(queue) - 1
  BY <1>2, LenProperties
<1>4. \A k \in 1 .. Len(queue) - 1 : k \in Nat \ {0} /\ k + 1 \in 1 .. Len(queue)
  BY <1>1
<1> QED
  BY <1>1, <1>2, <1>3, <1>4

\* While the owner lives, the revocations on their way are the next ones, in
\* order.
LEMMA RevokedInOrder ==
  ASSUME RevokedInv, owner # "exited"
  PROVE  \A k \in DOMAIN events : events[k] = last_revoked_attempt + k
  BY DEF RevokedInv

\* A link on its way belongs to a generation.
LEMMA BoundsNumbered ==
  ASSUME SupervisorTypeOK
  PROVE  \A k \in DOMAIN bounds : bounds[k] \in Attempts
  BY Entries DEF SupervisorTypeOK

(* Readers that step away from the report of an ended link, or to it with   *)
(* the evidence.                                                           *)
ReadersKeepEvidence ==
  /\ reader' \in [Attempts -> {"none", "reading", "ended", "latched", "failing", "quitting",
                               "tail", "done"}]
  /\ \A a \in Attempts : reader'[a] \in {"ended", "latched", "failing"} =>
       reader[a] \in {"ended", "latched", "failing"} \/ link[a] = "broken"

\* A reader that moves comes to report an ended link only with the evidence.
LEMMA ReaderMoves ==
  ASSUME RecoveryTypeOK, NEW a,
         NEW place \in {"ended", "latched", "failing", "tail", "quitting", "reading", "done"},
         reader' = [reader EXCEPT ![a] = place],
         place \in {"ended", "latched", "failing"} =>
           reader[a] \in {"ended", "latched", "failing"} \/ link[a] = "broken"
  PROVE  ReadersKeepEvidence
  BY DEF RecoveryTypeOK, ReadersKeepEvidence

-----------------------------------------------------------------------------
(* The role process and the supervisor keep the invariant.                 *)

\* The exit of a child ends its link.
LEMMA ChildExitsOK ==
  ASSUME RecoveryInv, NEW code \in {"zero", "crash"}, ChildExits(code), UNCHANGED otherVars
  PROVE  RecoveryInv'
<1> USE MaxCrashesAssumption DEF RecoveryInv, RecoveryTypeOK, SupervisorTypeOK,
      Attempts, ChildExits, flagVars, Closed, otherVars
<1>1. RecoveryTypeOK'
  BY DEF LostInv
<1>2. CrashInv' /\ LostInv' /\ ReadyInv' /\ BoundInv' /\ RevokedInv' /\ RevokedBeforeBound'
  BY DEF CrashInv, LostInv, ReadyInv, BoundInv, RevokedInv, RevokedBeforeBound
<1> QED
  BY <1>1, <1>2

\* A link that drops was open.
LEMMA LinkDropsOK ==
  ASSUME RecoveryInv, LinkDrops, UNCHANGED otherVars
  PROVE  RecoveryInv'
<1> USE MaxCrashesAssumption DEF RecoveryInv, RecoveryTypeOK, SupervisorTypeOK,
      Attempts, LinkDrops, loopVars, flagVars, Closed, otherVars
<1>1. RecoveryTypeOK'
  OBVIOUS
<1>2. CrashInv' /\ LostInv' /\ ReadyInv' /\ BoundInv' /\ RevokedInv' /\ RevokedBeforeBound'
  BY DEF CrashInv, LostInv, ReadyInv, BoundInv, RevokedInv, RevokedBeforeBound
<1> QED
  BY <1>1, <1>2

\* poll_admission: the link handed over is younger than all that are
\* installed, held or on their way, because those were handed over before.
LEMMA SendBoundOK ==
  ASSUME RecoveryInv, SendBound, UNCHANGED otherVars
  PROVE  RecoveryInv'
<1> USE MaxCrashesAssumption DEF RecoveryInv, RecoveryTypeOK, SupervisorTypeOK, Attempts
<1>1. /\ sup \in Unrevoked /\ link[attempt] = "none" /\ bounds' = Append(bounds, attempt)
      /\ link' = [link EXCEPT ![attempt] = IF child = "alive" THEN "open" ELSE "broken"]
      /\ UNCHANGED <<loopVars, flagVars, events, otherVars>>
  BY DEF SendBound, Unrevoked
<1> USE <1>1 DEF loopVars, flagVars, otherVars
<1>2. LinksOnlyEnd /\ link'[attempt] # "none"
  BY DEF LinksOnlyEnd
<1>3. SupervisorTypeOK'
  BY <1>2, Appended DEF LinksOnlyEnd
<1>4. RecoveryTypeOK'
  BY <1>3
<1>5. CrashInv' /\ ReadyInv' /\ RevokedBeforeBound'
  BY DEF CrashInv, ReadyInv, RevokedBeforeBound
<1>6. LostInv'
  BY <1>2 DEF LostInv, LinksOnlyEnd
<1>7. BoundInv'
  <2>1. /\ attempt > 1 /\ attempt > current /\ attempt > held
        /\ \A k \in DOMAIN bounds : bounds[k] < attempt
    <3>1. attempt # 1 /\ attempt # current /\ attempt # held
      BY DEF BoundInv
    <3>2. attempt > 1 /\ attempt > current /\ attempt > held
      BY <3>1 DEF BoundInv
    <3>3. ASSUME NEW k \in DOMAIN bounds PROVE bounds[k] < attempt
      <4>1. bounds[k] \in Attempts /\ bounds[k] # attempt /\ bounds[k] <= attempt
        BY <3>3, ElementOfSeq, Appended DEF BoundInv
      <4> QED
        BY <4>1
    <3> QED
      BY <3>2, <3>3
  <2>2. ASSUME NEW k \in DOMAIN bounds'
        PROVE  \/ k \in DOMAIN bounds /\ bounds'[k] = bounds[k]
               \/ k = Len(bounds) + 1 /\ bounds'[k] = attempt
    BY <2>2, Appended
  <2> HIDE <1>1
  <2>3. ASSUME NEW k \in DOMAIN bounds', NEW j \in DOMAIN bounds', j < k
        PROVE  bounds'[j] < bounds'[k]
    <3>1. j \in DOMAIN bounds /\ bounds'[j] = bounds[j]
      <4>1. \/ k \in DOMAIN bounds \/ k = Len(bounds) + 1
        BY <2>2
      <4>2. Len(bounds) \in Nat /\ \A i \in DOMAIN bounds : i \in Nat /\ i <= Len(bounds)
        BY Appended
      <4> QED
        BY <2>2, <2>3, <4>1, <4>2
    <3> QED
      BY <2>1, <2>2, <2>3, <3>1 DEF BoundInv
  <2>4. ASSUME NEW k \in DOMAIN bounds'
        PROVE  /\ bounds'[k] > 1 /\ bounds'[k] <= attempt
               /\ bounds'[k] > current /\ bounds'[k] > held /\ link'[bounds'[k]] # "none"
    <3>1. CASE k \in DOMAIN bounds /\ bounds'[k] = bounds[k]
      <4>1. bounds[k] \in Attempts
        BY <3>1, Appended
      <4> QED
        BY <1>2, <3>1, <4>1 DEF BoundInv, LinksOnlyEnd
    <3>2. CASE bounds'[k] = attempt
      BY <1>2, <2>1, <3>2
    <3> QED
      BY <2>2, <2>4, <3>1, <3>2
  <2> QED
    BY <1>1, <1>2, <2>3, <2>4 DEF BoundInv, LinksOnlyEnd
<1>8. RevokedInv'
  BY DEF RevokedInv
<1> QED
  BY <1>4, <1>5, <1>6, <1>7, <1>8

\* An observed exit voids the pending restart.
LEMMA ObserveExitOK ==
  ASSUME RecoveryInv, ObserveExit, UNCHANGED otherVars
  PROVE  RecoveryInv'
<1> USE MaxCrashesAssumption DEF RecoveryInv, RecoveryTypeOK, SupervisorTypeOK,
      Attempts, ObserveExit, otherVars
<1>1. RecoveryTypeOK'
  BY DEF Revoking, Terminal
<1>2. CrashInv' /\ LostInv' /\ ReadyInv' /\ BoundInv' /\ RevokedBeforeBound'
  BY DEF CrashInv, LostInv, ReadyInv, BoundInv, RevokedBeforeBound, Unrevoked, Revoking
<1>3. RevokedInv'
  BY DEF RevokedInv, Unrevoked, Revoking
<1> QED
  BY <1>1, <1>2, <1>3

\* An observed shutdown leads to a revocation.
LEMMA ObserveShutdownOK ==
  ASSUME RecoveryInv, ObserveShutdown, UNCHANGED otherVars
  PROVE  RecoveryInv'
<1> USE MaxCrashesAssumption DEF RecoveryInv, RecoveryTypeOK, SupervisorTypeOK,
      Attempts, ObserveShutdown, flagVars, otherVars
<1>1. RecoveryTypeOK'
  BY DEF Revoking, Terminal
<1>2. CrashInv' /\ LostInv' /\ ReadyInv' /\ BoundInv' /\ RevokedBeforeBound'
  BY DEF CrashInv, LostInv, ReadyInv, BoundInv, RevokedBeforeBound, Unrevoked, Revoking
<1>3. RevokedInv'
  BY DEF RevokedInv, Unrevoked, Revoking
<1> QED
  BY <1>1, <1>2, <1>3

\* take_restart_for_attempt: a restart of this attempt was asked for after
\* its link ended.
LEMMA ObserveRestartOK ==
  ASSUME RecoveryInv, ObserveRestart, UNCHANGED otherVars
  PROVE  RecoveryInv'
<1> USE MaxCrashesAssumption DEF RecoveryInv, RecoveryTypeOK, SupervisorTypeOK,
      Attempts, ObserveRestart, TakesRestart, otherVars
<1>1. RecoveryTypeOK'
  BY DEF Revoking, Terminal
<1>2. CrashInv' /\ LostInv' /\ ReadyInv' /\ BoundInv' /\ RevokedBeforeBound'
  BY DEF CrashInv, LostInv, ReadyInv, BoundInv, RevokedBeforeBound, Unrevoked, Revoking
<1>3. RevokedInv'
  BY DEF RevokedInv, Unrevoked, Revoking
<1> QED
  BY <1>1, <1>2, <1>3

\* A child that is not admitted is revoked without a link.
LEMMA AdmissionFailsOK ==
  ASSUME RecoveryInv, AdmissionFails, UNCHANGED otherVars
  PROVE  RecoveryInv'
<1> USE MaxCrashesAssumption DEF RecoveryInv, RecoveryTypeOK, SupervisorTypeOK,
      Attempts, AdmissionFails, flagVars, otherVars
<1>1. RecoveryTypeOK'
  BY DEF Revoking, Terminal
<1>2. CrashInv' /\ LostInv' /\ ReadyInv' /\ BoundInv' /\ RevokedBeforeBound'
  BY DEF CrashInv, LostInv, ReadyInv, BoundInv, RevokedBeforeBound, Unrevoked, Revoking
<1>3. RevokedInv'
  BY DEF RevokedInv, Unrevoked, Revoking
<1> QED
  BY <1>1, <1>2, <1>3

\* revoke: the next revocation in order is sent; a restart that follows has
\* been counted as a crash and is within the policy.
LEMMA RevokeOK ==
  ASSUME RecoveryInv, Revoke, UNCHANGED otherVars
  PROVE  RecoveryInv'
<1> USE MaxCrashesAssumption DEF RecoveryInv, RecoveryTypeOK, SupervisorTypeOK, Attempts
<1>1. /\ sup \in Revoking /\ link' = Closed(attempt) /\ events' = Append(events, attempt)
      /\ child' \in {"zero", "crash", "reaped"}
      /\ \/ /\ sup' = AfterRevoke
            /\ crashes' = IF sup \in {"crashed", "restarting"} THEN crashes + 1 ELSE crashes
         \/ sup' = "failed" /\ UNCHANGED crashes
      /\ UNCHANGED <<attempt, flagVars, bounds, otherVars>>
  BY DEF Revoke
<1> USE <1>1 DEF flagVars, otherVars
<1>2. LinksOnlyEnd
  BY CloseEnds
<1>3. /\ crashes = attempt - 1
      /\ sup' \in {"stopped", "failed"} \/
         (sup' \in {"crashloop", "backoff"} /\ crashes' = attempt
            /\ (sup' = "backoff" => attempt < MaxCrashes))
      /\ crashes' \in 0 .. MaxCrashes
  BY SMTT(20) DEF CrashInv, Unrevoked, Revoking, AfterRevoke
<1>4. SupervisorTypeOK'
  BY <1>2, <1>3, Appended DEF LinksOnlyEnd, Terminal
<1>5. RecoveryTypeOK'
  BY <1>4
<1>6. CrashInv' /\ ReadyInv' /\ RevokedBeforeBound'
  <2>1. sup' \notin Unrevoked /\ sup' # "prepared"
    BY <1>3 DEF Unrevoked, Revoking
  <2>2. CrashInv'
    BY <1>3, <2>1 DEF CrashInv
  <2>3. ReadyInv'
    BY <2>1 DEF ReadyInv
  <2>4. RevokedBeforeBound'
    BY DEF RevokedBeforeBound
  <2> QED
    BY <2>2, <2>3, <2>4
<1>7. LostInv'
  BY <1>2, <1>3 DEF LostInv, LinksOnlyEnd
<1>8. BoundInv'
  BY <1>2, SMTT(20) DEF BoundInv, LinksOnlyEnd
<1>9. RevokedInv'
  <2> SUFFICES ASSUME owner' # "exited" PROVE RevokedInv'
    BY DEF RevokedInv
  <2>1. last_revoked_attempt + Len(events) = attempt - 1
    BY DEF RevokedInv, Unrevoked
  <2>2. /\ Len(events) \in Nat /\ Len(events') = Len(events) + 1
        /\ \A k \in DOMAIN events' :
             \/ k \in DOMAIN events /\ events'[k] = events[k]
             \/ k = Len(events) + 1 /\ events'[k] = attempt
    BY Appended
  <2>3. \A k \in DOMAIN events' : events'[k] = last_revoked_attempt + k
    <3> HIDE <1>1
    <3>1. owner # "exited"
      BY <1>1
    <3>2. \A k \in DOMAIN events : events[k] = last_revoked_attempt + k
      BY <3>1, RevokedInOrder
    <3>3. last_revoked_attempt \in Nat /\ attempt \in Nat
      OBVIOUS
    <3> HIDE DEF RecoveryInv
    <3> QED
      BY <2>1, <2>2, <3>2, <3>3
  <2> QED
    BY <1>3, <2>1, <2>2, <2>3 DEF RevokedInv, Unrevoked, Revoking
<1> QED
  BY <1>5, <1>6, <1>7, <1>8, <1>9

\* The back-off ends at the recovery gate or in a stop.
LEMMA BackoffOK ==
  ASSUME RecoveryInv, Backoff, UNCHANGED otherVars
  PROVE  RecoveryInv'
<1> USE MaxCrashesAssumption DEF RecoveryInv, RecoveryTypeOK, SupervisorTypeOK,
      Attempts, Backoff, flagVars, StopRequested, otherVars
<1>1. RecoveryTypeOK'
  BY DEF Revoking, Terminal
<1>2. CrashInv' /\ LostInv' /\ ReadyInv' /\ BoundInv' /\ RevokedBeforeBound'
  BY DEF CrashInv, LostInv, ReadyInv, BoundInv, RevokedBeforeBound, Unrevoked, Revoking
<1>3. RevokedInv'
  BY DEF RevokedInv, Unrevoked, Revoking
<1> QED
  BY <1>1, <1>2, <1>3

\* A successor is prepared only under an armed gate, hence after Ready.
LEMMA AllowRestartOK ==
  ASSUME RecoveryInv, AllowRestart, UNCHANGED otherVars
  PROVE  RecoveryInv'
<1> USE MaxCrashesAssumption DEF RecoveryInv, RecoveryTypeOK, SupervisorTypeOK,
      Attempts, AllowRestart, flagVars, StopRequested, otherVars
<1>1. RecoveryTypeOK'
  BY DEF Revoking, Terminal
<1>2. CrashInv' /\ LostInv' /\ ReadyInv' /\ BoundInv' /\ RevokedBeforeBound'
  BY DEF CrashInv, LostInv, ReadyInv, BoundInv, RevokedBeforeBound, Unrevoked, Revoking
<1>3. RevokedInv'
  BY DEF RevokedInv, Unrevoked, Revoking
<1> QED
  BY <1>1, <1>2, <1>3

\* The successor's number is within the policy, and its predecessor has been
\* revoked.
LEMMA SpawnOK ==
  ASSUME RecoveryInv, Spawn, UNCHANGED otherVars
  PROVE  RecoveryInv'
<1> USE MaxCrashesAssumption DEF RecoveryInv, RecoveryTypeOK, SupervisorTypeOK,
      Attempts, Spawn, flagVars, StopRequested, otherVars
<1>1. RecoveryTypeOK'
  BY DEF Revoking, Terminal, CrashInv
<1>2. CrashInv' /\ LostInv' /\ ReadyInv' /\ BoundInv' /\ RevokedInv' /\ RevokedBeforeBound'
  BY DEF CrashInv, LostInv, ReadyInv, BoundInv, RevokedInv, RevokedBeforeBound
<1> QED
  BY <1>1, <1>2

\* A prepared generation that is revoked unused is the next one to be
\* revoked.
LEMMA SpawnStoppedOK ==
  ASSUME RecoveryInv, SpawnStopped, UNCHANGED otherVars
  PROVE  RecoveryInv'
<1> USE MaxCrashesAssumption DEF RecoveryInv, RecoveryTypeOK, SupervisorTypeOK, Attempts
<1>1. /\ sup = "prepared" /\ sup' = "stopped"
      /\ events' = events \/ events' = Append(events, attempt + 1)
      /\ UNCHANGED <<attempt, child, crashes, flagVars, bounds, link, otherVars>>
  BY DEF SpawnStopped
<1> USE <1>1 DEF flagVars, otherVars
<1>2. attempt + 1 \in Attempts
  BY DEF CrashInv
<1>3. SupervisorTypeOK'
  <2>1. Append(events, attempt + 1) \in Seq(Attempts)
    BY <1>2, Appended
  <2>2. events' \in Seq(Attempts)
    BY <2>1
  <2> QED
    BY <2>2 DEF Terminal
<1>4. RecoveryTypeOK'
  BY <1>3
<1>5. CrashInv' /\ ReadyInv' /\ LostInv' /\ BoundInv' /\ RevokedBeforeBound'
  BY DEF CrashInv, ReadyInv, LostInv, BoundInv, RevokedBeforeBound, Unrevoked, Revoking
<1>6. RevokedInv'
  <2> SUFFICES ASSUME owner' # "exited" PROVE RevokedInv'
    BY DEF RevokedInv
  <2>1. last_revoked_attempt + Len(events) = attempt
    BY DEF RevokedInv
  <2>2. CASE events' = events
    BY <2>1, <2>2 DEF RevokedInv, Unrevoked, Revoking
  <2>3. CASE events' = Append(events, attempt + 1)
    <3>1. /\ Len(events) \in Nat /\ Len(events') = Len(events) + 1
          /\ \A k \in DOMAIN events' :
               \/ k \in DOMAIN events /\ events'[k] = events[k]
               \/ k = Len(events) + 1 /\ events'[k] = attempt + 1
      BY <1>2, <2>3, Appended
    <3>2. \A k \in DOMAIN events' : events'[k] = last_revoked_attempt + k
      <4> HIDE <1>1
      <4>1. owner # "exited"
        BY <1>1
      <4>2. \A k \in DOMAIN events : events[k] = last_revoked_attempt + k
        BY <4>1, RevokedInOrder
      <4>3. last_revoked_attempt \in Nat /\ attempt \in Nat
        OBVIOUS
      <4> HIDE DEF RecoveryInv
      <4> QED
        BY <2>1, <3>1, <4>2, <4>3
    <3> QED
      BY <2>1, <3>1, <3>2 DEF RevokedInv, Unrevoked, Revoking
  <2> QED
    BY <2>2, <2>3
<1> QED
  BY <1>4, <1>5, <1>6

\* A failed spawn is terminal.
LEMMA SpawnFailsOK ==
  ASSUME RecoveryInv, SpawnFails, UNCHANGED otherVars
  PROVE  RecoveryInv'
<1> USE MaxCrashesAssumption DEF RecoveryInv, RecoveryTypeOK, SupervisorTypeOK,
      Attempts, SpawnFails, flagVars, otherVars
<1>1. RecoveryTypeOK'
  BY DEF Revoking, Terminal
<1>2. CrashInv' /\ LostInv' /\ ReadyInv' /\ BoundInv' /\ RevokedBeforeBound'
  BY DEF CrashInv, LostInv, ReadyInv, BoundInv, RevokedBeforeBound, Unrevoked, Revoking
<1>3. RevokedInv'
  BY DEF RevokedInv, Unrevoked, Revoking
<1> QED
  BY <1>1, <1>2, <1>3

-----------------------------------------------------------------------------
(* The owner thread keeps the invariant.                                   *)

\* apply_generation_update: the revocation received is the next one, and the
\* installed generation of a running session leaves with it.
LEMMA ApplyRevokedOK ==
  ASSUME RecoveryInv, ApplyRevoked
  PROVE  RecoveryInv'
<1> USE MaxCrashesAssumption DEF RecoveryInv, RecoveryTypeOK, SupervisorTypeOK, Attempts
<1> DEFINE a == Head(events)
<1>1. /\ owner \in {"events", "redrain"} /\ events # <<>> /\ events' = Tail(events)
      /\ last_revoked_attempt' =
           IF attached /\ a > last_revoked_attempt THEN a ELSE last_revoked_attempt
      /\ UNCHANGED <<loopVars, restart_attempt, accepted_shutdown, bounds, commands,
                     window_ready, recovery_armed, pre_ready_link_failed,
                     last_window_closed, sessionVars, reader, coord, fsVars, tailVars, main>>
  BY DEF ApplyRevoked
<1>2. /\ events' \in Seq(Attempts) /\ a \in Attempts /\ a = events[1]
      /\ Len(events) \in Nat \ {0} /\ Len(events') = Len(events) - 1
      /\ 1 \in DOMAIN events
      /\ \A k \in DOMAIN events' :
           k \in Nat \ {0} /\ k + 1 \in DOMAIN events /\ events'[k] = events[k + 1]
  <2>1. events \in Seq(Attempts) /\ events # <<>> /\ events' = Tail(events)
    BY <1>1
  <2> HIDE DEF RecoveryInv, Attempts
  <2> QED
    BY <2>1, Tailed
<1>3. last_revoked_attempt' \in 0 .. MaxCrashes
  BY <1>1, <1>2
<1>4. CASE ~attached \/ ~window_ready
  <2>1. /\ owner' = "exited" /\ fault' = "before_ready" /\ held' = 0 /\ gate' = "denied"
        /\ shutdown' = TRUE /\ loop_end' \in {"none", "fatal", "quit"}
        /\ link' = link \/ link' = Closed(held)
        /\ UNCHANGED <<current, attached>>
    BY <1>4 DEF ApplyRevoked, Terminate, Ends
  <2>2. LinksOnlyEnd
    BY <2>1, CloseEnds DEF LinksOnlyEnd
  <2> HIDE DEF a
  <2> USE DEF loopVars, sessionVars, fsVars, tailVars
  <2>3. shutdown' \in BOOLEAN
    BY <2>1
  <2>4. SupervisorTypeOK'
    BY <1>1, <1>2, <2>1, <2>2, <2>3 DEF LinksOnlyEnd
  <2>5. RecoveryTypeOK'
    BY <1>1, <1>3, <2>1, <2>4
  <2>6. CrashInv' /\ ReadyInv' /\ RevokedBeforeBound' /\ RevokedInv'
    BY <1>1, <2>1 DEF CrashInv, ReadyInv, RevokedBeforeBound, RevokedInv
  <2>7. LostInv'
    BY <1>1, <2>1, <2>2, SMTT(20) DEF LostInv, LinksOnlyEnd
  <2>8. BoundInv'
    <3>1. held' = 0 /\ UNCHANGED <<attempt, current, bounds>>
      BY <1>1, <2>1
    <3>2. \A k \in DOMAIN bounds : bounds[k] \in Attempts /\ bounds[k] > 0
      BY BoundsNumbered
    <3> QED
      BY <2>2, <3>1, <3>2 DEF BoundInv, LinksOnlyEnd
  <2> QED
    BY <2>5, <2>6, <2>7, <2>8
<1>5. CASE attached /\ window_ready
  <2>1. /\ \/ running /\ current = a /\ current' = 0 /\ link' = Closed(current)
           \/ ~(running /\ current = a) /\ UNCHANGED <<current, link>>
        /\ UNCHANGED <<owner, held, attached, fault, gate, shutdown, loop_end>>
    BY <1>5 DEF ApplyRevoked, RetireCurrent, ownerVars
  <2>2. LinksOnlyEnd
    BY <2>1, CloseEnds DEF LinksOnlyEnd
  <2>3. a = last_revoked_attempt + 1 /\ last_revoked_attempt' = a
    <3>1. events[1] = last_revoked_attempt + 1
      BY <1>1, <1>2 DEF RevokedInv
    <3> QED
      BY <1>1, <1>2, <1>5, <3>1
  <2>4. \A k \in DOMAIN events' : events'[k] = last_revoked_attempt' + k
    <3> TAKE k \in DOMAIN events'
    <3>1. k + 1 \in DOMAIN events /\ events'[k] = events[k + 1]
      BY <1>2
    <3>2. events[k + 1] = last_revoked_attempt + (k + 1)
      BY <1>1, <3>1 DEF RevokedInv
    <3> QED
      BY <1>2, <2>3, <3>1, <3>2
  <2> HIDE DEF a
  <2> USE DEF loopVars, sessionVars, fsVars, tailVars
  <2>5. SupervisorTypeOK'
    BY <1>1, <1>2, <2>1, <2>2 DEF LinksOnlyEnd
  <2>6. RecoveryTypeOK'
    BY <1>1, <1>3, <2>1, <2>5
  <2>7. CrashInv' /\ ReadyInv' /\ RevokedBeforeBound'
    BY <1>1, <2>1 DEF CrashInv, ReadyInv, RevokedBeforeBound
  <2>8. LostInv'
    BY <1>1, <2>1, <2>2 DEF LostInv, LinksOnlyEnd
  <2>9. BoundInv'
    <3>1. current' \in {0, current} /\ UNCHANGED <<attempt, held, bounds>>
      BY <1>1, <2>1
    <3>2. \A k \in DOMAIN bounds : bounds[k] \in Attempts /\ bounds[k] > 0
      BY BoundsNumbered
    <3> QED
      BY <2>2, <3>1, <3>2 DEF BoundInv, LinksOnlyEnd
  <2>10. running' /\ current' # 0 => current' > last_revoked_attempt'
    BY <1>1, <1>2, <2>1, <2>3 DEF RevokedInv
  <2>11. last_revoked_attempt' + Len(events') = last_revoked_attempt + Len(events)
    BY <1>2, <2>3
  <2>12. RevokedInv'
    BY <1>1, <2>1, <2>4, <2>10, <2>11 DEF RevokedInv
  <2> QED
    BY <2>6, <2>7, <2>8, <2>9, <2>12
<1> QED
  BY <1>4, <1>5

\* The owner turns to the links.
LEMMA EventsDrainedOK ==
  ASSUME RecoveryInv, EventsDrained
  PROVE  RecoveryInv'
<1> USE MaxCrashesAssumption DEF RecoveryInv, RecoveryTypeOK, SupervisorTypeOK,
      Attempts, EventsDrained, supervisorVars, routerVars, sessionVars, fsVars, tailVars
<1>1. RecoveryTypeOK'
  OBVIOUS
<1>2. CrashInv' /\ LostInv' /\ ReadyInv' /\ BoundInv' /\ RevokedInv' /\ RevokedBeforeBound'
  BY DEF CrashInv, LostInv, ReadyInv, BoundInv, RevokedInv, RevokedBeforeBound
<1> QED
  BY <1>1, <1>2

\* The link taken is the oldest on its way and younger than the installed
\* one.
LEMMA TakeBoundOK ==
  ASSUME RecoveryInv, TakeBound
  PROVE  RecoveryInv'
<1> USE MaxCrashesAssumption DEF RecoveryInv, RecoveryTypeOK, SupervisorTypeOK, Attempts
<1>1. /\ owner = "bounds"
      /\ UNCHANGED <<loopVars, flagVars, events, link, attached, fault, commands, routerVars,
                     sessionVars, reader, coord, fsVars, tailVars, main, loop_end>>
  BY DEF TakeBound
<1> USE <1>1 DEF loopVars, flagVars, routerVars, sessionVars, fsVars, tailVars
<1>2. CASE bounds = <<>>
  <2>1. owner' = "outcome" /\ UNCHANGED <<held, bounds>>
    BY <1>2 DEF TakeBound
  <2> QED
    BY <2>1 DEF CrashInv, LostInv, ReadyInv, BoundInv, RevokedInv, RevokedBeforeBound
<1>3. CASE bounds # <<>>
  <2>1. owner' = "redrain" /\ held' = Head(bounds) /\ bounds' = Tail(bounds)
    BY <1>3 DEF TakeBound
  <2>2. /\ bounds' \in Seq(Attempts) /\ Len(bounds) \in Nat \ {0}
        /\ 1 \in DOMAIN bounds
        /\ \A k \in DOMAIN bounds' :
             k \in Nat \ {0} /\ k + 1 \in DOMAIN bounds /\ bounds'[k] = bounds[k + 1]
        /\ held' = bounds[1] /\ held' \in Attempts
    BY <1>3, <2>1, Tailed
  <2>3. RecoveryTypeOK'
    BY <2>1, <2>2
  <2>4. CrashInv' /\ ReadyInv' /\ LostInv' /\ RevokedBeforeBound'
    BY <2>1 DEF CrashInv, ReadyInv, LostInv, RevokedBeforeBound
  <2>5. BoundInv'
    <3>1. /\ held' > 1 /\ held' <= attempt /\ held' > current /\ link[held'] # "none"
      BY <2>2 DEF BoundInv
    <3>2. ASSUME NEW k \in DOMAIN bounds'
          PROVE  /\ bounds'[k] > 1 /\ bounds'[k] <= attempt
                 /\ bounds'[k] > current /\ bounds'[k] > held' /\ link[bounds'[k]] # "none"
                 /\ \A j \in DOMAIN bounds' : j < k => bounds'[j] < bounds'[k]
      <4>1. /\ k + 1 \in DOMAIN bounds /\ 1 \in DOMAIN bounds /\ 1 < k + 1
            /\ bounds'[k] = bounds[k + 1]
        BY <2>2, <3>2, SMTT(20)
      <4>2. ASSUME NEW j \in DOMAIN bounds', j < k PROVE bounds'[j] < bounds'[k]
        <5>1. j + 1 \in DOMAIN bounds /\ bounds'[j] = bounds[j + 1] /\ j + 1 < k + 1
          BY <2>2, <3>2, <4>2, SMTT(20)
        <5> QED
          BY <4>1, <5>1 DEF BoundInv
      <4> QED
        BY <2>2, <4>1, <4>2 DEF BoundInv
    <3> QED
      BY <3>1, <3>2 DEF BoundInv
  <2>6. RevokedInv'
    BY <2>1, <2>2 DEF RevokedInv
  <2> QED
    BY <2>3, <2>4, <2>5, <2>6
<1> QED
  BY <1>2, <1>3

\* A held link that was not revoked meets no installed generation: every
\* older one was revoked, and those revocations have been drained.
LEMMA CheckBoundOK ==
  ASSUME RecoveryInv, CheckBound
  PROVE  RecoveryInv'
<1> USE MaxCrashesAssumption DEF RecoveryInv, RecoveryTypeOK, SupervisorTypeOK,
      Attempts, CheckBound, loopVars, routerVars, sessionVars, fsVars, tailVars,
      Terminate, Ends, RefuseBound
<1>1. LinksOnlyEnd
  BY CloseEnds DEF LinksOnlyEnd, BoundInv
<1>2. SupervisorTypeOK'
  BY <1>1 DEF LinksOnlyEnd
<1>3. {window_ready, recovery_armed, pre_ready_link_failed, last_window_closed,
       running, reader_stop}' \subseteq BOOLEAN
  BY <1>1 DEF LinksOnlyEnd
<1>4. RecoveryTypeOK'
  BY <1>1, <1>2, <1>3 DEF LinksOnlyEnd
<1>5. CrashInv' /\ LostInv' /\ ReadyInv' /\ BoundInv' /\ RevokedInv'
  BY <1>1 DEF CrashInv, LostInv, ReadyInv, BoundInv, RevokedInv, LinksOnlyEnd
<1>6. RevokedBeforeBound'
  BY <1>1 DEF CrashInv, LostInv, ReadyInv, BoundInv, RevokedInv, RevokedBeforeBound,
     Unrevoked, Revoking, Terminal, LinksOnlyEnd
<1> QED
  BY <1>4, <1>5, <1>6

\* The held generation is installed where none is, or dropped; a failed
\* replay leaves the evidence for its restart.
LEMMA InstallBoundOK ==
  ASSUME RecoveryInv, InstallBound
  PROVE  RecoveryInv'
<1> USE MaxCrashesAssumption DEF RecoveryInv, RecoveryTypeOK, SupervisorTypeOK, Attempts
<1>1. /\ owner = "drain"
      /\ UNCHANGED <<loopVars, accepted_shutdown, events, bounds, commands, window_ready,
                     recovery_armed, last_revoked_attempt, pre_ready_link_failed,
                     last_window_closed, sessionVars, coord, fsVars, tailVars, main,
                     restart_attempt, attached>>
  BY DEF InstallBound, RefuseBound, ReplayFails
<1> USE <1>1 DEF loopVars, sessionVars, fsVars, tailVars
<1>2. current = 0 /\ held > last_revoked_attempt /\ held \in Attempts
  BY DEF RevokedInv
<1>3. \/ /\ owner' = "bounds" /\ held' = 0 /\ link' = Closed(held)
         /\ UNCHANGED <<current, reader, fault, gate, shutdown, loop_end>>
      \/ /\ link[held] = "broken" /\ link' = Closed(held) /\ owner' = "rebind"
         /\ UNCHANGED <<current, reader, held, fault, gate, shutdown, loop_end>>
      \/ /\ owner' = "exited" /\ fault' = "bind" /\ held' = 0 /\ gate' = "denied"
         /\ shutdown' = TRUE /\ link' = Closed(held)
         /\ loop_end' \in {"none", "fatal", "quit"} /\ UNCHANGED <<current, reader>>
      \/ /\ current' = held /\ reader' = [reader EXCEPT ![held] = "reading"]
         /\ owner' = "bounds" /\ held' = 0
         /\ UNCHANGED <<fault, gate, shutdown, link, loop_end>>
  BY <1>2 DEF InstallBound, RefuseBound, ReplayFails, Terminate, Ends
<1>4. LinksOnlyEnd
  BY <1>2, <1>3, CloseEnds DEF LinksOnlyEnd
<1>5. ReadersKeepEvidence
  BY <1>3, ReaderMoves DEF ReadersKeepEvidence
<1>6. shutdown' \in BOOLEAN
  BY <1>3
<1>7. RecoveryTypeOK'
  BY <1>2, <1>3, <1>4, <1>5, <1>6 DEF LinksOnlyEnd, ReadersKeepEvidence
<1>8. CrashInv' /\ ReadyInv' /\ RevokedBeforeBound'
  BY <1>3 DEF CrashInv, ReadyInv, RevokedBeforeBound
<1>9. LostInv'
  BY <1>2, <1>3, <1>4, <1>5 DEF LostInv, LinksOnlyEnd, ReadersKeepEvidence
<1>10. BoundInv'
  <2>1. held <= attempt /\ link[held] # "none"
    BY <1>2 DEF BoundInv
  <2>2. /\ current' \in {0, held} /\ held' \in {0, held} /\ (held' # 0 => current' = 0)
    BY <1>2, <1>3
  <2>3. \A k \in DOMAIN bounds : bounds[k] > held /\ bounds[k] > 0
    BY <1>2 DEF BoundInv
  <2> QED
    BY <1>2, <1>4, <2>1, <2>2, <2>3 DEF BoundInv, LinksOnlyEnd
<1>11. RevokedInv'
  BY <1>2, <1>3 DEF RevokedInv
<1> QED
  BY <1>7, <1>8, <1>9, <1>10, <1>11

\* The restart of a generation whose replay failed is the restart of a lost
\* one.
LEMMA RestartFailedBoundOK ==
  ASSUME RecoveryInv, RestartFailedBound
  PROVE  RecoveryInv'
<1> USE MaxCrashesAssumption DEF RecoveryInv, RecoveryTypeOK, SupervisorTypeOK,
      Attempts, RestartFailedBound, loopVars, routerVars, sessionVars, fsVars, tailVars,
      Terminate, Ends
<1>1. SupervisorTypeOK'
  OBVIOUS
<1>2. {window_ready, recovery_armed, pre_ready_link_failed, last_window_closed,
       running, reader_stop}' \subseteq BOOLEAN
  OBVIOUS
<1>3. RecoveryTypeOK'
  BY <1>1, <1>2
<1>4. CrashInv' /\ LostInv' /\ ReadyInv' /\ BoundInv' /\ RevokedInv' /\ RevokedBeforeBound'
  BY DEF CrashInv, LostInv, ReadyInv, BoundInv, RevokedInv, RevokedBeforeBound
<1> QED
  BY <1>3, <1>4

\* A terminal outcome ends the owner, and no gate is armed by it.
LEMMA TakeOutcomeOK ==
  ASSUME RecoveryInv, TakeOutcome
  PROVE  RecoveryInv'
<1> USE MaxCrashesAssumption DEF RecoveryInv, RecoveryTypeOK, SupervisorTypeOK,
      Attempts, TakeOutcome, loopVars, routerVars, sessionVars, fsVars, tailVars, Ends,
      Terminal
<1>1. RecoveryTypeOK'
  OBVIOUS
<1>2. CrashInv' /\ LostInv' /\ ReadyInv' /\ BoundInv' /\ RevokedInv' /\ RevokedBeforeBound'
  BY DEF CrashInv, LostInv, ReadyInv, BoundInv, RevokedInv, RevokedBeforeBound
<1> QED
  BY <1>1, <1>2

\* With no command the owner starts over.
LEMMA PollTimeoutOK ==
  ASSUME RecoveryInv, PollTimeout
  PROVE  RecoveryInv'
<1> USE MaxCrashesAssumption DEF RecoveryInv, RecoveryTypeOK, SupervisorTypeOK,
      Attempts, PollTimeout, supervisorVars, routerVars, sessionVars, fsVars, tailVars
<1>1. RecoveryTypeOK'
  OBVIOUS
<1>2. CrashInv' /\ LostInv' /\ ReadyInv' /\ BoundInv' /\ RevokedInv' /\ RevokedBeforeBound'
  BY DEF CrashInv, LostInv, ReadyInv, BoundInv, RevokedInv, RevokedBeforeBound
<1> QED
  BY <1>1, <1>2

\* The router is attached and never detached.
LEMMA AttachRouterOK ==
  ASSUME RecoveryInv, AttachRouter
  PROVE  RecoveryInv'
<1> USE MaxCrashesAssumption DEF RecoveryInv, RecoveryTypeOK, SupervisorTypeOK,
      Attempts, AttachRouter, flagVars, Takes, loopVars, sessionVars
<1>1. RecoveryTypeOK'
  OBVIOUS
<1>2. CrashInv' /\ LostInv' /\ ReadyInv' /\ BoundInv' /\ RevokedInv' /\ RevokedBeforeBound'
  BY DEF CrashInv, LostInv, ReadyInv, BoundInv, RevokedInv, RevokedBeforeBound
<1> QED
  BY <1>1, <1>2

\* arm: an arm command on the channel means that Ready was published.
LEMMA ArmRecoveryOK ==
  ASSUME RecoveryInv, ArmRecovery
  PROVE  RecoveryInv'
<1> USE MaxCrashesAssumption DEF RecoveryInv, RecoveryTypeOK, SupervisorTypeOK,
      Attempts, ArmRecovery, Takes, loopVars, sessionVars
<1>1. RecoveryTypeOK'
  OBVIOUS
<1>2. CrashInv' /\ LostInv' /\ ReadyInv' /\ BoundInv' /\ RevokedInv' /\ RevokedBeforeBound'
  BY DEF CrashInv, LostInv, ReadyInv, BoundInv, RevokedInv, RevokedBeforeBound
<1> QED
  BY <1>1, <1>2

\* A denied gate is not armed.
LEMMA DenyRecoveryOK ==
  ASSUME RecoveryInv, DenyRecovery
  PROVE  RecoveryInv'
<1> USE MaxCrashesAssumption DEF RecoveryInv, RecoveryTypeOK, SupervisorTypeOK,
      Attempts, DenyRecovery, Takes, loopVars, sessionVars
<1>1. RecoveryTypeOK'
  OBVIOUS
<1>2. CrashInv' /\ LostInv' /\ ReadyInv' /\ BoundInv' /\ RevokedInv' /\ RevokedBeforeBound'
  BY DEF CrashInv, LostInv, ReadyInv, BoundInv, RevokedInv, RevokedBeforeBound
<1> QED
  BY <1>1, <1>2

\* The report of an ended link asks for the restart of that generation only.
LEMMA FailGenerationOK ==
  ASSUME RecoveryInv, FailGeneration
  PROVE  RecoveryInv'
<1> USE MaxCrashesAssumption DEF RecoveryInv, RecoveryTypeOK, SupervisorTypeOK,
      Attempts, FailGeneration, Takes, loopVars, sessionVars, LinkFailureRestarts
<1>1. RecoveryTypeOK'
  BY SMTT(20) DEF LostInv
<1>2. CrashInv' /\ ReadyInv' /\ RevokedInv' /\ RevokedBeforeBound'
  BY DEF CrashInv, ReadyInv, RevokedInv, RevokedBeforeBound
<1>3. LostInv'
  BY DEF LostInv
<1>4. BoundInv'
  BY DEF BoundInv
<1> QED
  BY <1>1, <1>2, <1>3, <1>4

\* recover_retired_fs_generation asks for the restart of a generation whose
\* answer could not be written.
LEMMA FailRetiredGenerationOK ==
  ASSUME RecoveryInv, FailRetiredGeneration
  PROVE  RecoveryInv'
<1> USE MaxCrashesAssumption DEF RecoveryInv, RecoveryTypeOK, SupervisorTypeOK,
      Attempts, FailRetiredGeneration, Takes, loopVars, sessionVars
<1>1. RecoveryTypeOK'
  OBVIOUS
<1>2. CrashInv' /\ LostInv' /\ ReadyInv' /\ BoundInv' /\ RevokedInv' /\ RevokedBeforeBound'
  BY DEF CrashInv, LostInv, ReadyInv, BoundInv, RevokedInv, RevokedBeforeBound
<1> QED
  BY <1>1, <1>2

\* An accepted shutdown denies recovery.
LEMMA PrepareAcceptedShutdownOK ==
  ASSUME RecoveryInv, PrepareAcceptedShutdown
  PROVE  RecoveryInv'
<1> USE MaxCrashesAssumption DEF RecoveryInv, RecoveryTypeOK, SupervisorTypeOK,
      Attempts, PrepareAcceptedShutdown, Takes, loopVars, sessionVars
<1>1. RecoveryTypeOK'
  OBVIOUS
<1>2. CrashInv' /\ LostInv' /\ ReadyInv' /\ BoundInv' /\ RevokedInv' /\ RevokedBeforeBound'
  BY DEF CrashInv, LostInv, ReadyInv, BoundInv, RevokedInv, RevokedBeforeBound
<1> QED
  BY <1>1, <1>2

\* The shutdown command denies recovery and stops the supervisor.
LEMMA ShutdownCommandOK ==
  ASSUME RecoveryInv, ShutdownCommand
  PROVE  RecoveryInv'
<1> USE MaxCrashesAssumption DEF RecoveryInv, RecoveryTypeOK, SupervisorTypeOK,
      Attempts, ShutdownCommand, Takes, loopVars, sessionVars
<1>1. RecoveryTypeOK'
  BY SMTT(20)
<1>2. CrashInv' /\ ReadyInv' /\ RevokedInv' /\ RevokedBeforeBound'
  BY DEF CrashInv, ReadyInv, RevokedInv, RevokedBeforeBound
<1>3. LostInv'
  BY DEF LostInv
<1>4. BoundInv'
  BY DEF BoundInv
<1> QED
  BY <1>1, <1>2, <1>3, <1>4

\* The owner ends with the supervisor.
LEMMA ShutdownDoneOK ==
  ASSUME RecoveryInv, ShutdownDone
  PROVE  RecoveryInv'
<1> USE MaxCrashesAssumption DEF RecoveryInv, RecoveryTypeOK, SupervisorTypeOK,
      Attempts, ShutdownDone, supervisorVars, routerVars, sessionVars, fsVars, tailVars,
      Terminal
<1>1. RecoveryTypeOK'
  OBVIOUS
<1>2. CrashInv' /\ LostInv' /\ ReadyInv' /\ BoundInv' /\ RevokedInv' /\ RevokedBeforeBound'
  BY DEF CrashInv, LostInv, ReadyInv, BoundInv, RevokedInv, RevokedBeforeBound
<1> QED
  BY <1>1, <1>2

-----------------------------------------------------------------------------
(* The window event coordinator keeps the invariant.                       *)

\* Ready is published only for a generation whose link had not been found
\* ended, and the arm command follows it.
LEMMA SignalReadyOK ==
  ASSUME RecoveryInv, SignalReady
  PROVE  RecoveryInv'
<1> USE MaxCrashesAssumption DEF RecoveryInv, RecoveryTypeOK, SupervisorTypeOK, Attempts
<1>1. /\ main = "loop"
      /\ UNCHANGED <<loopVars, flagVars, events, bounds, ownerVars, recovery_armed,
                     last_revoked_attempt, pre_ready_link_failed, last_window_closed,
                     sessionVars, reader, fsVars, tailVars, main>>
  BY DEF SignalReady
<1> USE <1>1 DEF loopVars, flagVars, ownerVars, sessionVars, fsVars, tailVars
<1>2. \/ /\ coord' = "ready" /\ window_ready' = window_ready
         /\ UNCHANGED <<commands, current, link, loop_end>>
      \/ /\ current' = 0 /\ link' = Closed(current) /\ Send("deny", 0)
         /\ loop_end' \in {"none", "fatal", "quit"} /\ coord' = "done"
         /\ window_ready' = window_ready
      \/ /\ ~pre_ready_link_failed /\ window_ready' = TRUE /\ Send("arm", 0)
         /\ coord' \in {"done", "arming"} /\ loop_end' \in {"none", "fatal", "quit"}
         /\ UNCHANGED <<current, link>>
  BY DEF SignalReady, RetireCurrent, Ends, ReadyRefused
<1>3. LinksOnlyEnd
  BY <1>2, CloseEnds DEF LinksOnlyEnd
<1>4. /\ commands' \in Seq(Commands)
      /\ \A k \in DOMAIN commands' :
           \/ k \in DOMAIN commands /\ commands'[k] = commands[k]
           \/ commands'[k].kind \in {"deny", "arm"}
      /\ \A k \in DOMAIN commands' :
           commands'[k].kind = "arm" =>
             window_ready' \/ (k \in DOMAIN commands /\ commands[k].kind = "arm")
  <2>1. Command("deny", 0) \in Commands /\ Command("arm", 0) \in Commands
    BY DEF Command, Commands
  <2> QED
    BY <1>2, <2>1, SendAdds DEF AtMostAdds
<1>5. window_ready' \in BOOLEAN /\ (window_ready => window_ready')
  <2>1. CASE window_ready' = window_ready
    BY <2>1
  <2>2. CASE window_ready' = TRUE
    BY <2>2
  <2> QED
    BY <1>2, <2>1, <2>2
<1>6. RecoveryTypeOK'
  BY <1>2, <1>3, <1>4, <1>5 DEF LinksOnlyEnd
<1>7. CrashInv' /\ RevokedBeforeBound' /\ RevokedInv'
  BY <1>2 DEF CrashInv, RevokedBeforeBound, RevokedInv
<1>8. LostInv'
  <2>1. \A k \in DOMAIN commands' :
          commands'[k].kind \in {"fail", "fail_retired"} =>
            k \in DOMAIN commands /\ commands'[k] = commands[k]
    BY <1>4
  <2> QED
    BY <1>3, <2>1 DEF LostInv, LinksOnlyEnd
<1>9. ReadyInv'
  BY <1>2, <1>4, <1>5 DEF ReadyInv
<1>10. BoundInv'
  BY <1>2, <1>3 DEF BoundInv, LinksOnlyEnd
<1> QED
  BY <1>6, <1>7, <1>8, <1>9, <1>10

\* The second store of the arm acknowledgement changes nothing else.
LEMMA ReadyArmedOK ==
  ASSUME RecoveryInv, ReadyArmed
  PROVE  RecoveryInv'
<1> USE MaxCrashesAssumption DEF RecoveryInv, RecoveryTypeOK, SupervisorTypeOK,
      Attempts, ReadyArmed, supervisorVars, ownerVars, sessionVars, fsVars, tailVars
<1>1. RecoveryTypeOK'
  OBVIOUS
<1>2. CrashInv' /\ LostInv' /\ ReadyInv' /\ BoundInv' /\ RevokedInv' /\ RevokedBeforeBound'
  BY DEF CrashInv, LostInv, ReadyInv, BoundInv, RevokedInv, RevokedBeforeBound
<1> QED
  BY <1>1, <1>2

\* A failed arm denies recovery.
LEMMA ArmFailsOK ==
  ASSUME RecoveryInv, ArmFails
  PROVE  RecoveryInv'
<1> USE MaxCrashesAssumption DEF RecoveryInv, RecoveryTypeOK, SupervisorTypeOK,
      Attempts, ArmFails, supervisorVars, ownerVars, routerVars, sessionVars, fsVars,
      tailVars, Ends, Unanswered, OwnerGone
<1>1. Command("deny", 0) \in Commands
  BY DEF Command, Commands, LostInv
<1>2. AtMostAdds("deny", 0)
  BY <1>1, SendAdds
<1>3. SupervisorTypeOK'
  BY <1>2 DEF AtMostAdds
<1>4. {window_ready, recovery_armed, pre_ready_link_failed, last_window_closed,
       running, reader_stop}' \subseteq BOOLEAN
  BY <1>2 DEF AtMostAdds
<1>5. RecoveryTypeOK'
  BY <1>2, <1>3, <1>4 DEF AtMostAdds
<1>6. CrashInv' /\ BoundInv' /\ RevokedInv' /\ RevokedBeforeBound'
  BY <1>2 DEF CrashInv, BoundInv, RevokedInv, RevokedBeforeBound
<1>7. LostInv'
  BY <1>2 DEF LostInv, AtMostAdds
<1>8. ReadyInv'
  BY <1>2 DEF ReadyInv, AtMostAdds
<1> QED
  BY <1>5, <1>6, <1>7, <1>8

\* LastWindowClosed retires a generation it cannot be written to.
LEMMA SignalLastWindowClosedOK ==
  ASSUME RecoveryInv, SignalLastWindowClosed
  PROVE  RecoveryInv'
<1> USE MaxCrashesAssumption DEF RecoveryInv, RecoveryTypeOK, SupervisorTypeOK,
      Attempts, SignalLastWindowClosed, loopVars, flagVars, ownerVars, sessionVars,
      fsVars, tailVars, Ends, RetireCurrent, WriteFails
<1>1. LinksOnlyEnd
  BY CloseEnds DEF LinksOnlyEnd, BoundInv
<1>2. RecoveryTypeOK'
  BY <1>1 DEF LinksOnlyEnd
<1>3. CrashInv' /\ ReadyInv' /\ RevokedInv' /\ RevokedBeforeBound'
  BY <1>1 DEF CrashInv, ReadyInv, RevokedInv, RevokedBeforeBound
<1>4. LostInv'
  BY <1>1 DEF LostInv, LinksOnlyEnd
<1>5. BoundInv'
  BY <1>1, SMTT(20) DEF BoundInv, LinksOnlyEnd
<1> QED
  BY <1>2, <1>3, <1>4, <1>5

-----------------------------------------------------------------------------
(* The readers keep the invariant.                                         *)

\* A stopped reader reports nothing.
LEMMA ReaderStopsOK ==
  ASSUME RecoveryInv, NEW a \in Attempts, ReaderStops(a)
  PROVE  RecoveryInv'
<1> USE MaxCrashesAssumption DEF RecoveryInv, RecoveryTypeOK, SupervisorTypeOK,
      Attempts, ReaderStops, routerVars, sessionVars, tailVars, ReaderAt,
      supervisorVars, ownerVars, fsVars
<1>1. RecoveryTypeOK'
  OBVIOUS
<1>2. CrashInv' /\ LostInv' /\ ReadyInv' /\ BoundInv' /\ RevokedInv' /\ RevokedBeforeBound'
  BY DEF CrashInv, LostInv, ReadyInv, BoundInv, RevokedInv, RevokedBeforeBound
<1> QED
  BY <1>1, <1>2

\* A reader that saw its link's end has the evidence.
LEMMA ReaderSeesEofOK ==
  ASSUME RecoveryInv, NEW a \in Attempts, ReaderSeesEof(a)
  PROVE  RecoveryInv'
<1> USE MaxCrashesAssumption DEF RecoveryInv, RecoveryTypeOK, SupervisorTypeOK, Attempts
<1>1. CASE running
  <2>1. /\ reader[a] = "reading" /\ link[a] = "broken"
        /\ reader' = [reader EXCEPT ![a] = "ended"]
        /\ loop_end' \in {"none", "fatal", "quit"}
        /\ UNCHANGED <<loopVars, flagVars, events, bounds, link, ownerVars, coord, fsVars,
                       main>>
        /\ UNCHANGED <<commands, routerVars, sessionVars, tailVars>>
    BY <1>1 DEF ReaderSeesEof, loopVars, flagVars, ownerVars, routerVars, sessionVars,
       fsVars, tailVars, Ends, ReaderAt, supervisorVars
  <2>2. ReadersKeepEvidence
    BY <2>1, ReaderMoves DEF LostInv
  <2> USE DEF loopVars, flagVars, ownerVars, routerVars, sessionVars, fsVars, tailVars
  <2>3. SupervisorTypeOK'
    BY <1>1, <2>1, <2>2 DEF ReadersKeepEvidence
  <2>4. {window_ready, recovery_armed, pre_ready_link_failed, last_window_closed,
         running, reader_stop}' \subseteq BOOLEAN
    BY <1>1, <2>1, <2>2 DEF ReadersKeepEvidence
  <2>5. RecoveryTypeOK'
    BY <1>1, <2>1, <2>2, <2>3, <2>4 DEF ReadersKeepEvidence
  <2>6. CrashInv' /\ LostInv' /\ ReadyInv' /\ BoundInv' /\ RevokedInv' /\ RevokedBeforeBound'
    BY <1>1, <2>1, <2>2 DEF CrashInv, LostInv, ReadyInv, BoundInv, RevokedInv,
       RevokedBeforeBound, ReadersKeepEvidence
  <2> QED
    BY <2>5, <2>6
<1>2. CASE ~running
  <2>1. /\ reader' = [reader EXCEPT ![a] = "done"]
        /\ loop_end' \in {"none", "fatal", "quit"}
        /\ UNCHANGED <<loopVars, flagVars, events, bounds, link, ownerVars, coord, fsVars,
                       main>>
        /\ UNCHANGED <<commands, routerVars, sessionVars, tailVars>>
    BY <1>2 DEF ReaderSeesEof, loopVars, flagVars, ownerVars, routerVars, sessionVars,
       fsVars, tailVars, Ends, ReaderAt, supervisorVars
  <2>2. ReadersKeepEvidence
    BY <2>1, ReaderMoves DEF LostInv
  <2> USE DEF loopVars, flagVars, ownerVars, routerVars, sessionVars, fsVars, tailVars
  <2>3. SupervisorTypeOK'
    BY <1>2, <2>1, <2>2 DEF ReadersKeepEvidence
  <2>4. {window_ready, recovery_armed, pre_ready_link_failed, last_window_closed,
         running, reader_stop}' \subseteq BOOLEAN
    BY <1>2, <2>1, <2>2 DEF ReadersKeepEvidence
  <2>5. RecoveryTypeOK'
    BY <1>2, <2>1, <2>2, <2>3, <2>4 DEF ReadersKeepEvidence
  <2>6. CrashInv' /\ LostInv' /\ ReadyInv' /\ BoundInv' /\ RevokedInv' /\ RevokedBeforeBound'
    BY <1>2, <2>1, <2>2 DEF CrashInv, LostInv, ReadyInv, BoundInv, RevokedInv,
       RevokedBeforeBound, ReadersKeepEvidence
  <2> QED
    BY <2>5, <2>6
<1> QED
  BY <1>1, <1>2

\* latch_pre_ready_link_failure: set only while Ready is not published.
LEMMA ReaderLatchesOK ==
  ASSUME RecoveryInv, NEW a \in Attempts, ReaderLatches(a)
  PROVE  RecoveryInv'
<1> USE MaxCrashesAssumption DEF RecoveryInv, RecoveryTypeOK, SupervisorTypeOK,
      Attempts, ReaderLatches, sessionVars, tailVars, ReaderAt, supervisorVars,
      ownerVars, fsVars
<1>1. RecoveryTypeOK'
  OBVIOUS
<1>2. CrashInv' /\ LostInv' /\ ReadyInv' /\ BoundInv' /\ RevokedInv' /\ RevokedBeforeBound'
  BY DEF CrashInv, LostInv, ReadyInv, BoundInv, RevokedInv, RevokedBeforeBound
<1> QED
  BY <1>1, <1>2

\* link_failed: the report names a generation whose link has ended.
LEMMA ReaderReportsOK ==
  ASSUME RecoveryInv, NEW a \in Attempts, ReaderReports(a)
  PROVE  RecoveryInv'
<1> USE MaxCrashesAssumption DEF RecoveryInv, RecoveryTypeOK, SupervisorTypeOK, Attempts
<1>1. CASE OwnerGone
  <2>1. /\ reader' = [reader EXCEPT ![a] = "done"]
        /\ loop_end' \in {"none", "fatal", "quit"}
        /\ UNCHANGED commands
        /\ UNCHANGED <<loopVars, flagVars, events, bounds, link, ownerVars, coord, fsVars,
                       main>>
        /\ UNCHANGED <<routerVars, sessionVars, tailVars>>
    BY <1>1 DEF ReaderReports, loopVars, flagVars, ownerVars, routerVars, sessionVars,
       fsVars, tailVars, OwnerGone, Send, ReaderAt, supervisorVars, ReaderEnds, Ends
  <2>2. ReadersKeepEvidence
    BY <2>1, ReaderMoves DEF LostInv
  <2> USE DEF loopVars, flagVars, ownerVars, routerVars, sessionVars, fsVars, tailVars
  <2>3. SupervisorTypeOK'
    BY <1>1, <2>1, <2>2 DEF ReadersKeepEvidence
  <2>4. {window_ready, recovery_armed, pre_ready_link_failed, last_window_closed,
         running, reader_stop}' \subseteq BOOLEAN
    BY <1>1, <2>1, <2>2 DEF ReadersKeepEvidence
  <2>5. RecoveryTypeOK'
    BY <1>1, <2>1, <2>2, <2>3, <2>4 DEF ReadersKeepEvidence
  <2>6. CrashInv' /\ LostInv' /\ ReadyInv' /\ BoundInv' /\ RevokedInv' /\ RevokedBeforeBound'
    BY <1>1, <2>1, <2>2 DEF CrashInv, LostInv, ReadyInv, BoundInv, RevokedInv,
       RevokedBeforeBound, ReadersKeepEvidence
  <2> QED
    BY <2>5, <2>6
<1>2. CASE ~OwnerGone
  <2>1. /\ reader[a] = "latched"
        /\ reader' = [reader EXCEPT ![a] = "failing"]
        /\ Send("fail", a)
        /\ UNCHANGED loop_end
        /\ UNCHANGED <<loopVars, flagVars, events, bounds, link, ownerVars, coord, fsVars,
                       main>>
        /\ UNCHANGED <<routerVars, sessionVars, tailVars>>
    BY <1>2 DEF ReaderReports, loopVars, flagVars, ownerVars, routerVars, sessionVars,
       fsVars, tailVars, OwnerGone, ReaderAt, supervisorVars, ReaderEnds, Ends
  <2>2. ReadersKeepEvidence
    BY <2>1, ReaderMoves DEF LostInv
  <2>3. Command("fail", a) \in Commands
    BY DEF Command, Commands
  <2>4. AtMostAdds("fail", a)
    BY <2>1, <2>3, SendAdds
  <2> USE DEF loopVars, flagVars, ownerVars, routerVars, sessionVars, fsVars, tailVars
  <2>5. SupervisorTypeOK'
    BY <1>2, <2>1, <2>2, <2>4 DEF ReadersKeepEvidence, AtMostAdds
  <2>6. {window_ready, recovery_armed, pre_ready_link_failed, last_window_closed,
         running, reader_stop}' \subseteq BOOLEAN
    BY <1>2, <2>1, <2>2, <2>4 DEF ReadersKeepEvidence, AtMostAdds
  <2>7. RecoveryTypeOK'
    BY <1>2, <2>1, <2>2, <2>4, <2>5, <2>6 DEF ReadersKeepEvidence, AtMostAdds
  <2>8. CrashInv' /\ BoundInv' /\ RevokedInv' /\ RevokedBeforeBound'
    BY <1>2, <2>1, <2>2, <2>4 DEF CrashInv, BoundInv, RevokedInv, RevokedBeforeBound,
       ReadersKeepEvidence
  <2>9. LostInv'
    BY <1>2, <2>1, <2>2, <2>4, SMTT(20) DEF LostInv, ReadersKeepEvidence, AtMostAdds
  <2>10. ReadyInv'
    BY <1>2, <2>1, <2>2, <2>4 DEF ReadyInv, ReadersKeepEvidence, AtMostAdds
  <2> QED
    BY <2>7, <2>8, <2>9, <2>10
<1> QED
  BY <1>1, <1>2

\* A reader that is not answered returns.
LEMMA ReaderWaitFailsOK ==
  ASSUME RecoveryInv, NEW a \in Attempts, ReaderWaitFails(a)
  PROVE  RecoveryInv'
<1> USE MaxCrashesAssumption DEF RecoveryInv, RecoveryTypeOK, SupervisorTypeOK,
      Attempts, ReaderWaitFails, routerVars, sessionVars, tailVars, Unanswered,
      OwnerGone, ReaderAt, supervisorVars, ownerVars, fsVars, ReaderEnds, Ends
<1>1. RecoveryTypeOK'
  OBVIOUS
<1>2. CrashInv' /\ LostInv' /\ ReadyInv' /\ BoundInv' /\ RevokedInv' /\ RevokedBeforeBound'
  BY DEF CrashInv, LostInv, ReadyInv, BoundInv, RevokedInv, RevokedBeforeBound
<1> QED
  BY <1>1, <1>2

\* A reader whose answer cannot be written returns.
LEMMA ReaderWriteFailsOK ==
  ASSUME RecoveryInv, NEW a \in Attempts, ReaderWriteFails(a)
  PROVE  RecoveryInv'
<1> USE MaxCrashesAssumption DEF RecoveryInv, RecoveryTypeOK, SupervisorTypeOK,
      Attempts, ReaderWriteFails, routerVars, sessionVars, tailVars, Ends, ReaderAt,
      supervisorVars, ownerVars, fsVars
<1>1. RecoveryTypeOK'
  OBVIOUS
<1>2. CrashInv' /\ LostInv' /\ ReadyInv' /\ BoundInv' /\ RevokedInv' /\ RevokedBeforeBound'
  BY DEF CrashInv, LostInv, ReadyInv, BoundInv, RevokedInv, RevokedBeforeBound
<1> QED
  BY <1>1, <1>2

\* A reader that reads Quit waits for the filesystem worker.
LEMMA ReaderQuitsOK ==
  ASSUME RecoveryInv, NEW a \in Attempts, ReaderQuits(a)
  PROVE  RecoveryInv'
<1> USE MaxCrashesAssumption DEF RecoveryInv, RecoveryTypeOK, SupervisorTypeOK,
      Attempts, ReaderQuits, routerVars, sessionVars, tailVars, ReaderAt,
      supervisorVars, ownerVars, fsVars
<1>1. RecoveryTypeOK'
  OBVIOUS
<1>2. CrashInv' /\ LostInv' /\ ReadyInv' /\ BoundInv' /\ RevokedInv' /\ RevokedBeforeBound'
  BY DEF CrashInv, LostInv, ReadyInv, BoundInv, RevokedInv, RevokedBeforeBound
<1> QED
  BY <1>1, <1>2

\* The claim of a Quit ends the running session.
LEMMA ReaderClaimsOK ==
  ASSUME RecoveryInv, NEW a \in Attempts, ReaderClaims(a)
  PROVE  RecoveryInv'
<1> USE MaxCrashesAssumption DEF RecoveryInv, RecoveryTypeOK, SupervisorTypeOK, Attempts
<1>1. CASE running /\ current = a
  <2>1. /\ reader' = [reader EXCEPT ![a] = "tail"]
        /\ running' = FALSE /\ reader_stop' = TRUE /\ tail' = "claimed" /\ claimant' = a
        /\ UNCHANGED <<loopVars, flagVars, events, bounds, link, ownerVars, coord, fsVars,
                       main>>
        /\ UNCHANGED <<commands, routerVars, loop_end>>
    BY <1>1 DEF ReaderClaims, loopVars, flagVars, ownerVars, routerVars, sessionVars,
       fsVars, tailVars, ReaderAt, supervisorVars
  <2>2. ReadersKeepEvidence
    BY <2>1, ReaderMoves DEF LostInv
  <2> USE DEF loopVars, flagVars, ownerVars, routerVars, sessionVars, fsVars, tailVars
  <2>3. SupervisorTypeOK'
    BY <1>1, <2>1, <2>2 DEF ReadersKeepEvidence
  <2>4. {window_ready, recovery_armed, pre_ready_link_failed, last_window_closed,
         running, reader_stop}' \subseteq BOOLEAN
    BY <1>1, <2>1, <2>2 DEF ReadersKeepEvidence
  <2>5. RecoveryTypeOK'
    BY <1>1, <2>1, <2>2, <2>3, <2>4 DEF ReadersKeepEvidence
  <2>6. CrashInv' /\ LostInv' /\ ReadyInv' /\ BoundInv' /\ RevokedInv' /\ RevokedBeforeBound'
    BY <1>1, <2>1, <2>2 DEF CrashInv, LostInv, ReadyInv, BoundInv, RevokedInv,
       RevokedBeforeBound, ReadersKeepEvidence
  <2> QED
    BY <2>5, <2>6
<1>2. CASE ~(running /\ current = a)
  <2>1. /\ reader' = [reader EXCEPT ![a] = "done"]
        /\ UNCHANGED <<loopVars, flagVars, events, bounds, link, ownerVars, coord, fsVars,
                       main>>
        /\ UNCHANGED <<commands, routerVars, sessionVars, tailVars, loop_end>>
    BY <1>2 DEF ReaderClaims, loopVars, flagVars, ownerVars, routerVars, sessionVars,
       fsVars, tailVars, ReaderAt, supervisorVars
  <2>2. ReadersKeepEvidence
    BY <2>1, ReaderMoves DEF LostInv
  <2> USE DEF loopVars, flagVars, ownerVars, routerVars, sessionVars, fsVars, tailVars
  <2>3. SupervisorTypeOK'
    BY <1>2, <2>1, <2>2 DEF ReadersKeepEvidence
  <2>4. {window_ready, recovery_armed, pre_ready_link_failed, last_window_closed,
         running, reader_stop}' \subseteq BOOLEAN
    BY <1>2, <2>1, <2>2 DEF ReadersKeepEvidence
  <2>5. RecoveryTypeOK'
    BY <1>2, <2>1, <2>2, <2>3, <2>4 DEF ReadersKeepEvidence
  <2>6. CrashInv' /\ LostInv' /\ ReadyInv' /\ BoundInv' /\ RevokedInv' /\ RevokedBeforeBound'
    BY <1>2, <2>1, <2>2 DEF CrashInv, LostInv, ReadyInv, BoundInv, RevokedInv,
       RevokedBeforeBound, ReadersKeepEvidence
  <2> QED
    BY <2>5, <2>6
<1> QED
  BY <1>1, <1>2

-----------------------------------------------------------------------------
(* The filesystem worker keeps the invariant.                              *)

\* A call belongs to the generation that is current.
LEMMA FsCallOK ==
  ASSUME RecoveryInv, NEW a \in Attempts, FsCall(a)
  PROVE  RecoveryInv'
<1> USE MaxCrashesAssumption DEF RecoveryInv, RecoveryTypeOK, SupervisorTypeOK,
      Attempts, FsCall, FsStep, loopVars, flagVars, ownerVars, sessionVars, tailVars
<1>1. RecoveryTypeOK'
  OBVIOUS
<1>2. CrashInv' /\ LostInv' /\ ReadyInv' /\ BoundInv' /\ RevokedInv' /\ RevokedBeforeBound'
  BY DEF CrashInv, LostInv, ReadyInv, BoundInv, RevokedInv, RevokedBeforeBound
<1> QED
  BY <1>1, <1>2

\* An answer that cannot be written is the evidence of its generation's loss.
LEMMA FsReplyOK ==
  ASSUME RecoveryInv, FsReply
  PROVE  RecoveryInv'
<1> USE MaxCrashesAssumption DEF RecoveryInv, RecoveryTypeOK, SupervisorTypeOK,
      Attempts, FsReply, RetireCurrent, FsStep, loopVars, flagVars, ownerVars,
      sessionVars, tailVars
<1>1. LinksOnlyEnd
  BY CloseEnds DEF LinksOnlyEnd, BoundInv
<1>2. RecoveryTypeOK'
  BY <1>1 DEF LinksOnlyEnd
<1>3. CrashInv' /\ ReadyInv' /\ RevokedInv' /\ RevokedBeforeBound'
  BY <1>1 DEF CrashInv, ReadyInv, RevokedInv, RevokedBeforeBound
<1>4. LostInv'
  BY <1>1 DEF LostInv, LinksOnlyEnd
<1>5. BoundInv'
  BY <1>1 DEF BoundInv, LinksOnlyEnd
<1> QED
  BY <1>2, <1>3, <1>4, <1>5

\* fail_retired_generation: the report names the generation whose answer
\* failed.
LEMMA FsReportsOK ==
  ASSUME RecoveryInv, FsReports
  PROVE  RecoveryInv'
<1> USE MaxCrashesAssumption DEF RecoveryInv, RecoveryTypeOK, SupervisorTypeOK,
      Attempts, FsReports, Ends, OwnerGone, FsStep, loopVars, flagVars, ownerVars,
      sessionVars, tailVars
<1>1. Command("fail_retired", fs_attempt) \in Commands
  BY DEF Command, Commands, LostInv
<1>2. AtMostAdds("fail_retired", fs_attempt)
  BY <1>1, SendAdds
<1>3. SupervisorTypeOK'
  BY <1>2 DEF AtMostAdds
<1>4. {window_ready, recovery_armed, pre_ready_link_failed, last_window_closed,
       running, reader_stop}' \subseteq BOOLEAN
  BY <1>2 DEF AtMostAdds
<1>5. RecoveryTypeOK'
  BY <1>2, <1>3, <1>4 DEF AtMostAdds
<1>6. CrashInv' /\ BoundInv' /\ RevokedInv' /\ RevokedBeforeBound'
  BY <1>2 DEF CrashInv, BoundInv, RevokedInv, RevokedBeforeBound
<1>7. LostInv'
  BY <1>2 DEF LostInv, AtMostAdds
<1>8. ReadyInv'
  BY <1>2 DEF ReadyInv, AtMostAdds
<1> QED
  BY <1>5, <1>6, <1>7, <1>8

\* The worker forgets the failed write once it is answered.
LEMMA FsClearsOK ==
  ASSUME RecoveryInv, FsClears
  PROVE  RecoveryInv'
<1> USE MaxCrashesAssumption DEF RecoveryInv, RecoveryTypeOK, SupervisorTypeOK,
      Attempts, FsClears, FsStep, loopVars, flagVars, ownerVars, sessionVars, tailVars
<1>1. RecoveryTypeOK'
  OBVIOUS
<1>2. CrashInv' /\ LostInv' /\ ReadyInv' /\ BoundInv' /\ RevokedInv' /\ RevokedBeforeBound'
  BY DEF CrashInv, LostInv, ReadyInv, BoundInv, RevokedInv, RevokedBeforeBound
<1> QED
  BY <1>1, <1>2

\* A worker that is refused or not answered ends the session.
LEMMA FsWaitFailsOK ==
  ASSUME RecoveryInv, FsWaitFails
  PROVE  RecoveryInv'
<1> USE MaxCrashesAssumption DEF RecoveryInv, RecoveryTypeOK, SupervisorTypeOK,
      Attempts, FsWaitFails, Ends, Unanswered, OwnerGone, FsStep, loopVars, flagVars,
      ownerVars, sessionVars, tailVars
<1>1. RecoveryTypeOK'
  OBVIOUS
<1>2. CrashInv' /\ LostInv' /\ ReadyInv' /\ BoundInv' /\ RevokedInv' /\ RevokedBeforeBound'
  BY DEF CrashInv, LostInv, ReadyInv, BoundInv, RevokedInv, RevokedBeforeBound
<1> QED
  BY <1>1, <1>2

-----------------------------------------------------------------------------
(* The accepted shutdown keeps the invariant.                              *)

\* The tail asks the owner to prepare, or fails with it.
LEMMA TailPreparesOK ==
  ASSUME RecoveryInv, TailPrepares
  PROVE  RecoveryInv'
<1> USE MaxCrashesAssumption DEF RecoveryInv, RecoveryTypeOK, SupervisorTypeOK, Attempts
<1>1. CASE OwnerGone
  <2>1. /\ reader' = [reader EXCEPT ![claimant] = "done"]
        /\ tail' \in {"preparing", "accepted", "closed", "stopping", "done"}
        /\ loop_end' \in {"none", "fatal", "quit"}
        /\ UNCHANGED <<loopVars, flagVars, events, bounds, ownerVars, window_ready,
                       recovery_armed, last_revoked_attempt, pre_ready_link_failed,
                       last_window_closed, coord, fsVars, claimant, main>>
        /\ UNCHANGED <<commands, current, link, sessionVars>>
    BY <1>1 DEF TailPrepares, loopVars, flagVars, ownerVars, routerVars, sessionVars,
       fsVars, tailVars, OwnerGone, Send, TailStep, TailFails, ReaderEnds, Ends,
       ReaderReturns
  <2>2. ReadersKeepEvidence
    BY <2>1, ReaderMoves DEF LostInv
  <2> USE DEF loopVars, flagVars, ownerVars, routerVars, sessionVars, fsVars, tailVars
  <2>3. SupervisorTypeOK'
    BY <1>1, <2>1, <2>2 DEF ReadersKeepEvidence
  <2>4. {window_ready, recovery_armed, pre_ready_link_failed, last_window_closed,
         running, reader_stop}' \subseteq BOOLEAN
    BY <1>1, <2>1, <2>2 DEF ReadersKeepEvidence
  <2>5. RecoveryTypeOK'
    BY <1>1, <2>1, <2>2, <2>3, <2>4 DEF ReadersKeepEvidence
  <2>6. CrashInv' /\ LostInv' /\ ReadyInv' /\ BoundInv' /\ RevokedInv' /\ RevokedBeforeBound'
    BY <1>1, <2>1, <2>2 DEF CrashInv, LostInv, ReadyInv, BoundInv, RevokedInv,
       RevokedBeforeBound, ReadersKeepEvidence
  <2> QED
    BY <2>5, <2>6
<1>2. CASE ~OwnerGone
  <2>1. /\ Send("prepare", claimant)
        /\ tail' \in {"preparing", "accepted", "closed", "stopping", "done"}
        /\ UNCHANGED <<loopVars, flagVars, events, bounds, ownerVars, window_ready,
                       recovery_armed, last_revoked_attempt, pre_ready_link_failed,
                       last_window_closed, coord, fsVars, claimant, main>>
        /\ UNCHANGED <<current, link, sessionVars, reader, loop_end>>
    BY <1>2 DEF TailPrepares, loopVars, flagVars, ownerVars, routerVars, sessionVars,
       fsVars, tailVars, OwnerGone, TailStep, TailFails, ReaderEnds, Ends, ReaderReturns
  <2>2. Command("prepare", claimant) \in Commands
    BY DEF Command, Commands
  <2>3. AtMostAdds("prepare", claimant)
    BY <2>1, <2>2, SendAdds
  <2> USE DEF loopVars, flagVars, ownerVars, routerVars, sessionVars, fsVars, tailVars
  <2>4. SupervisorTypeOK'
    BY <1>2, <2>1, <2>3 DEF AtMostAdds
  <2>5. {window_ready, recovery_armed, pre_ready_link_failed, last_window_closed,
         running, reader_stop}' \subseteq BOOLEAN
    BY <1>2, <2>1, <2>3 DEF AtMostAdds
  <2>6. RecoveryTypeOK'
    BY <1>2, <2>1, <2>3, <2>4, <2>5 DEF AtMostAdds
  <2>7. CrashInv' /\ BoundInv' /\ RevokedInv' /\ RevokedBeforeBound'
    BY <1>2, <2>1, <2>3 DEF CrashInv, BoundInv, RevokedInv, RevokedBeforeBound
  <2>8. LostInv'
    BY <1>2, <2>1, <2>3 DEF LostInv, AtMostAdds
  <2>9. ReadyInv'
    BY <1>2, <2>1, <2>3 DEF ReadyInv, AtMostAdds
  <2> QED
    BY <2>6, <2>7, <2>8, <2>9
<1> QED
  BY <1>1, <1>2

\* A tail that is not answered fails.
LEMMA TailWaitFailsOK ==
  ASSUME RecoveryInv, TailWaitFails
  PROVE  RecoveryInv'
<1> USE MaxCrashesAssumption DEF RecoveryInv, RecoveryTypeOK, SupervisorTypeOK, Attempts
<1>1. /\ reader' = [reader EXCEPT ![claimant] = "done"]
      /\ tail' \in {"preparing", "accepted", "closed", "stopping", "done"}
      /\ loop_end' \in {"none", "fatal", "quit"}
      /\ UNCHANGED <<loopVars, flagVars, events, bounds, ownerVars, window_ready,
                     recovery_armed, last_revoked_attempt, pre_ready_link_failed,
                     last_window_closed, coord, fsVars, claimant, main>>
      /\ UNCHANGED <<commands, current, link, sessionVars>>
  BY DEF TailWaitFails, loopVars, flagVars, ownerVars, routerVars, sessionVars, fsVars,
     tailVars, Unanswered, OwnerGone, TailFails, ReaderEnds, Ends, TailStep,
     ReaderReturns
<1>2. ReadersKeepEvidence
  BY <1>1, ReaderMoves DEF LostInv
<1> USE DEF loopVars, flagVars, ownerVars, routerVars, sessionVars, fsVars, tailVars
<1>3. SupervisorTypeOK'
  BY <1>1, <1>2 DEF ReadersKeepEvidence
<1>4. {window_ready, recovery_armed, pre_ready_link_failed, last_window_closed,
       running, reader_stop}' \subseteq BOOLEAN
  BY <1>1, <1>2 DEF ReadersKeepEvidence
<1>5. RecoveryTypeOK'
  BY <1>1, <1>2, <1>3, <1>4 DEF ReadersKeepEvidence
<1>6. CrashInv' /\ LostInv' /\ ReadyInv' /\ BoundInv' /\ RevokedInv' /\ RevokedBeforeBound'
  BY <1>1, <1>2 DEF CrashInv, LostInv, ReadyInv, BoundInv, RevokedInv,
     RevokedBeforeBound, ReadersKeepEvidence
<1> QED
  BY <1>5, <1>6

\* The accepting hold writes the answer or fails.
LEMMA TailAcceptsOK ==
  ASSUME RecoveryInv, TailAccepts
  PROVE  RecoveryInv'
<1> USE MaxCrashesAssumption DEF RecoveryInv, RecoveryTypeOK, SupervisorTypeOK, Attempts
<1>1. CASE current = 0 \/ WriteFails
  <2>1. /\ reader' = [reader EXCEPT ![claimant] = "done"]
        /\ tail' \in {"preparing", "accepted", "closed", "stopping", "done"}
        /\ loop_end' \in {"none", "fatal", "quit"}
        /\ UNCHANGED <<loopVars, flagVars, events, bounds, ownerVars, window_ready,
                       recovery_armed, last_revoked_attempt, pre_ready_link_failed,
                       last_window_closed, coord, fsVars, claimant, main>>
        /\ UNCHANGED <<commands, current, link, sessionVars>>
    BY <1>1 DEF TailAccepts, loopVars, flagVars, ownerVars, routerVars, sessionVars,
       fsVars, tailVars, WriteFails, TailStep, TailFails, ReaderEnds, Ends,
       ReaderReturns
  <2>2. ReadersKeepEvidence
    BY <2>1, ReaderMoves DEF LostInv
  <2> USE DEF loopVars, flagVars, ownerVars, routerVars, sessionVars, fsVars, tailVars
  <2>3. SupervisorTypeOK'
    BY <1>1, <2>1, <2>2 DEF ReadersKeepEvidence
  <2>4. {window_ready, recovery_armed, pre_ready_link_failed, last_window_closed,
         running, reader_stop}' \subseteq BOOLEAN
    BY <1>1, <2>1, <2>2 DEF ReadersKeepEvidence
  <2>5. RecoveryTypeOK'
    BY <1>1, <2>1, <2>2, <2>3, <2>4 DEF ReadersKeepEvidence
  <2>6. CrashInv' /\ LostInv' /\ ReadyInv' /\ BoundInv' /\ RevokedInv' /\ RevokedBeforeBound'
    BY <1>1, <2>1, <2>2 DEF CrashInv, LostInv, ReadyInv, BoundInv, RevokedInv,
       RevokedBeforeBound, ReadersKeepEvidence
  <2> QED
    BY <2>5, <2>6
<1>2. CASE ~(current = 0 \/ WriteFails)
  <2>1. /\ tail' \in {"preparing", "accepted", "closed", "stopping", "done"}
        /\ UNCHANGED <<loopVars, flagVars, events, bounds, ownerVars, window_ready,
                       recovery_armed, last_revoked_attempt, pre_ready_link_failed,
                       last_window_closed, coord, fsVars, claimant, main>>
        /\ UNCHANGED <<commands, current, link, sessionVars, reader, loop_end>>
    BY <1>2 DEF TailAccepts, loopVars, flagVars, ownerVars, routerVars, sessionVars,
       fsVars, tailVars, WriteFails, TailStep, TailFails, ReaderEnds, Ends,
       ReaderReturns
  <2> USE DEF loopVars, flagVars, ownerVars, routerVars, sessionVars, fsVars, tailVars
  <2>2. SupervisorTypeOK'
    BY <1>2, <2>1
  <2>3. {window_ready, recovery_armed, pre_ready_link_failed, last_window_closed,
         running, reader_stop}' \subseteq BOOLEAN
    BY <1>2, <2>1
  <2>4. RecoveryTypeOK'
    BY <1>2, <2>1, <2>2, <2>3
  <2>5. CrashInv' /\ LostInv' /\ ReadyInv' /\ BoundInv' /\ RevokedInv' /\ RevokedBeforeBound'
    BY <1>2, <2>1 DEF CrashInv, LostInv, ReadyInv, BoundInv, RevokedInv,
       RevokedBeforeBound
  <2> QED
    BY <2>4, <2>5
<1> QED
  BY <1>1, <1>2

\* The tail closes the link of the generation it removes.
LEMMA TailClosesOK ==
  ASSUME RecoveryInv, TailCloses
  PROVE  RecoveryInv'
<1> USE MaxCrashesAssumption DEF RecoveryInv, RecoveryTypeOK, SupervisorTypeOK, Attempts
<1>1. CASE current = 0
  <2>1. /\ reader' = [reader EXCEPT ![claimant] = "done"]
        /\ tail' \in {"preparing", "accepted", "closed", "stopping", "done"}
        /\ loop_end' \in {"none", "fatal", "quit"}
        /\ UNCHANGED <<loopVars, flagVars, events, bounds, ownerVars, window_ready,
                       recovery_armed, last_revoked_attempt, pre_ready_link_failed,
                       last_window_closed, coord, fsVars, claimant, main>>
        /\ UNCHANGED <<commands, current, link, sessionVars>>
    BY <1>1 DEF TailCloses, loopVars, flagVars, ownerVars, routerVars, sessionVars,
       fsVars, tailVars, RetireCurrent, TailStep, TailFails, ReaderEnds, Ends,
       ReaderReturns
  <2>2. ReadersKeepEvidence
    BY <2>1, ReaderMoves DEF LostInv
  <2> USE DEF loopVars, flagVars, ownerVars, routerVars, sessionVars, fsVars, tailVars
  <2>3. SupervisorTypeOK'
    BY <1>1, <2>1, <2>2 DEF ReadersKeepEvidence
  <2>4. {window_ready, recovery_armed, pre_ready_link_failed, last_window_closed,
         running, reader_stop}' \subseteq BOOLEAN
    BY <1>1, <2>1, <2>2 DEF ReadersKeepEvidence
  <2>5. RecoveryTypeOK'
    BY <1>1, <2>1, <2>2, <2>3, <2>4 DEF ReadersKeepEvidence
  <2>6. CrashInv' /\ LostInv' /\ ReadyInv' /\ BoundInv' /\ RevokedInv' /\ RevokedBeforeBound'
    BY <1>1, <2>1, <2>2 DEF CrashInv, LostInv, ReadyInv, BoundInv, RevokedInv,
       RevokedBeforeBound, ReadersKeepEvidence
  <2> QED
    BY <2>5, <2>6
<1>2. CASE current # 0
  <2>1. /\ tail' \in {"preparing", "accepted", "closed", "stopping", "done"}
        /\ current' = 0 /\ link' = Closed(current)
        /\ UNCHANGED <<loopVars, flagVars, events, bounds, ownerVars, window_ready,
                       recovery_armed, last_revoked_attempt, pre_ready_link_failed,
                       last_window_closed, coord, fsVars, claimant, main>>
        /\ UNCHANGED <<commands, sessionVars, reader, loop_end>>
    BY <1>2 DEF TailCloses, loopVars, flagVars, ownerVars, routerVars, sessionVars,
       fsVars, tailVars, RetireCurrent, TailStep, TailFails, ReaderEnds, Ends,
       ReaderReturns
  <2>2. LinksOnlyEnd
    BY <2>1, CloseEnds
  <2> USE DEF loopVars, flagVars, ownerVars, routerVars, sessionVars, fsVars, tailVars
  <2>3. SupervisorTypeOK'
    BY <1>2, <2>1, <2>2 DEF LinksOnlyEnd
  <2>4. {window_ready, recovery_armed, pre_ready_link_failed, last_window_closed,
         running, reader_stop}' \subseteq BOOLEAN
    BY <1>2, <2>1, <2>2 DEF LinksOnlyEnd
  <2>5. RecoveryTypeOK'
    BY <1>2, <2>1, <2>2, <2>3, <2>4 DEF LinksOnlyEnd
  <2>6. CrashInv' /\ LostInv' /\ ReadyInv' /\ BoundInv' /\ RevokedInv' /\ RevokedBeforeBound'
    BY <1>2, <2>1, <2>2 DEF CrashInv, LostInv, ReadyInv, BoundInv, RevokedInv,
       RevokedBeforeBound, LinksOnlyEnd
  <2> QED
    BY <2>5, <2>6
<1> QED
  BY <1>1, <1>2

\* The tail asks for the shutdown.
LEMMA TailStopsOK ==
  ASSUME RecoveryInv, TailStops
  PROVE  RecoveryInv'
<1> USE MaxCrashesAssumption DEF RecoveryInv, RecoveryTypeOK, SupervisorTypeOK,
      Attempts, TailStops, sessionVars, OwnerGone, TailStep, loopVars, flagVars,
      ownerVars, fsVars
<1>1. Command("shutdown", claimant) \in Commands
  BY DEF Command, Commands, LostInv
<1>2. AtMostAdds("shutdown", claimant)
  BY <1>1, SendAdds
<1>3. SupervisorTypeOK'
  BY <1>2 DEF AtMostAdds
<1>4. {window_ready, recovery_armed, pre_ready_link_failed, last_window_closed,
       running, reader_stop}' \subseteq BOOLEAN
  BY <1>2 DEF AtMostAdds
<1>5. RecoveryTypeOK'
  BY <1>2, <1>3, <1>4 DEF AtMostAdds
<1>6. CrashInv' /\ BoundInv' /\ RevokedInv' /\ RevokedBeforeBound'
  BY <1>2 DEF CrashInv, BoundInv, RevokedInv, RevokedBeforeBound
<1>7. LostInv'
  BY <1>2 DEF LostInv, AtMostAdds
<1>8. ReadyInv'
  BY <1>2 DEF ReadyInv, AtMostAdds
<1> QED
  BY <1>5, <1>6, <1>7, <1>8

\* The tail ends with the owner.
LEMMA TailEndsOK ==
  ASSUME RecoveryInv, TailEnds
  PROVE  RecoveryInv'
<1> USE MaxCrashesAssumption DEF RecoveryInv, RecoveryTypeOK, SupervisorTypeOK, Attempts
<1>1. /\ reader' = [reader EXCEPT ![claimant] = "done"]
      /\ tail' \in {"preparing", "accepted", "closed", "stopping", "done"}
      /\ loop_end' \in {"none", "fatal", "quit"}
      /\ UNCHANGED <<loopVars, flagVars, events, bounds, ownerVars, window_ready,
                     recovery_armed, last_revoked_attempt, pre_ready_link_failed,
                     last_window_closed, coord, fsVars, claimant, main>>
      /\ UNCHANGED <<commands, current, link, sessionVars>>
  BY DEF TailEnds, loopVars, flagVars, ownerVars, routerVars, sessionVars, fsVars,
     tailVars, Ends, OwnerGone, TailStep, ReaderReturns
<1>2. ReadersKeepEvidence
  BY <1>1, ReaderMoves DEF LostInv
<1> USE DEF loopVars, flagVars, ownerVars, routerVars, sessionVars, fsVars, tailVars
<1>3. SupervisorTypeOK'
  BY <1>1, <1>2 DEF ReadersKeepEvidence
<1>4. {window_ready, recovery_armed, pre_ready_link_failed, last_window_closed,
       running, reader_stop}' \subseteq BOOLEAN
  BY <1>1, <1>2 DEF ReadersKeepEvidence
<1>5. RecoveryTypeOK'
  BY <1>1, <1>2, <1>3, <1>4 DEF ReadersKeepEvidence
<1>6. CrashInv' /\ LostInv' /\ ReadyInv' /\ BoundInv' /\ RevokedInv' /\ RevokedBeforeBound'
  BY <1>1, <1>2 DEF CrashInv, LostInv, ReadyInv, BoundInv, RevokedInv,
     RevokedBeforeBound, ReadersKeepEvidence
<1> QED
  BY <1>5, <1>6

\* A late answer ends the tail.
LEMMA TailTimeoutOK ==
  ASSUME RecoveryInv, TailTimeout
  PROVE  RecoveryInv'
<1> USE MaxCrashesAssumption DEF RecoveryInv, RecoveryTypeOK, SupervisorTypeOK, Attempts
<1>1. /\ reader' = [reader EXCEPT ![claimant] = "done"]
      /\ tail' \in {"preparing", "accepted", "closed", "stopping", "done"}
      /\ loop_end' \in {"none", "fatal", "quit"}
      /\ UNCHANGED <<loopVars, flagVars, events, bounds, ownerVars, window_ready,
                     recovery_armed, last_revoked_attempt, pre_ready_link_failed,
                     last_window_closed, coord, fsVars, claimant, main>>
      /\ UNCHANGED <<commands, current, link, sessionVars>>
  BY DEF TailTimeout, loopVars, flagVars, ownerVars, routerVars, sessionVars, fsVars,
     tailVars, Ends, TailStep, ReaderReturns
<1>2. ReadersKeepEvidence
  BY <1>1, ReaderMoves DEF LostInv
<1> USE DEF loopVars, flagVars, ownerVars, routerVars, sessionVars, fsVars, tailVars
<1>3. SupervisorTypeOK'
  BY <1>1, <1>2 DEF ReadersKeepEvidence
<1>4. {window_ready, recovery_armed, pre_ready_link_failed, last_window_closed,
       running, reader_stop}' \subseteq BOOLEAN
  BY <1>1, <1>2 DEF ReadersKeepEvidence
<1>5. RecoveryTypeOK'
  BY <1>1, <1>2, <1>3, <1>4 DEF ReadersKeepEvidence
<1>6. CrashInv' /\ LostInv' /\ ReadyInv' /\ BoundInv' /\ RevokedInv' /\ RevokedBeforeBound'
  BY <1>1, <1>2 DEF CrashInv, LostInv, ReadyInv, BoundInv, RevokedInv,
     RevokedBeforeBound, ReadersKeepEvidence
<1> QED
  BY <1>5, <1>6

-----------------------------------------------------------------------------
(* The main thread keeps the invariant.                                    *)

\* attach_router sends the router to the owner.
LEMMA MainAttachesOK ==
  ASSUME RecoveryInv, MainAttaches
  PROVE  RecoveryInv'
<1> USE MaxCrashesAssumption DEF RecoveryInv, RecoveryTypeOK, SupervisorTypeOK,
      Attempts, MainAttaches, OwnerGone, MainStep, loopVars, flagVars, ownerVars,
      fsVars, tailVars
<1>1. Command("attach", 0) \in Commands
  BY DEF Command, Commands, LostInv
<1>2. AtMostAdds("attach", 0)
  BY <1>1, SendAdds
<1>3. SupervisorTypeOK'
  BY <1>2 DEF AtMostAdds
<1>4. {window_ready, recovery_armed, pre_ready_link_failed, last_window_closed,
       running, reader_stop}' \subseteq BOOLEAN
  BY <1>2 DEF AtMostAdds
<1>5. RecoveryTypeOK'
  BY <1>2, <1>3, <1>4 DEF AtMostAdds
<1>6. CrashInv' /\ BoundInv' /\ RevokedInv' /\ RevokedBeforeBound'
  BY <1>2 DEF CrashInv, BoundInv, RevokedInv, RevokedBeforeBound
<1>7. LostInv'
  BY <1>2 DEF LostInv, AtMostAdds
<1>8. ReadyInv'
  BY <1>2 DEF ReadyInv, AtMostAdds
<1> QED
  BY <1>5, <1>6, <1>7, <1>8

\* A router that is not attached never runs the window loop.
LEMMA AttachFailsOK ==
  ASSUME RecoveryInv, AttachFails
  PROVE  RecoveryInv'
<1> USE MaxCrashesAssumption DEF RecoveryInv, RecoveryTypeOK, SupervisorTypeOK,
      Attempts, AttachFails, Unanswered, OwnerGone, MainStep, loopVars, flagVars,
      ownerVars, fsVars, tailVars
<1>1. RecoveryTypeOK'
  OBVIOUS
<1>2. CrashInv' /\ LostInv' /\ ReadyInv' /\ BoundInv' /\ RevokedInv' /\ RevokedBeforeBound'
  BY DEF CrashInv, LostInv, ReadyInv, BoundInv, RevokedInv, RevokedBeforeBound
<1> QED
  BY <1>1, <1>2

\* The window loop returns to the teardown.
LEMMA LoopReturnsOK ==
  ASSUME RecoveryInv, LoopReturns
  PROVE  RecoveryInv'
<1> USE MaxCrashesAssumption DEF RecoveryInv, RecoveryTypeOK, SupervisorTypeOK,
      Attempts, LoopReturns, MainStep, loopVars, flagVars, ownerVars, fsVars, tailVars
<1>1. RecoveryTypeOK'
  OBVIOUS
<1>2. CrashInv' /\ LostInv' /\ ReadyInv' /\ BoundInv' /\ RevokedInv' /\ RevokedBeforeBound'
  BY DEF CrashInv, LostInv, ReadyInv, BoundInv, RevokedInv, RevokedBeforeBound
<1> QED
  BY <1>1, <1>2

\* stop_and_join retires the installed generation.
LEMMA RouterStopsOK ==
  ASSUME RecoveryInv, RouterStops
  PROVE  RecoveryInv'
<1> USE MaxCrashesAssumption DEF RecoveryInv, RecoveryTypeOK, SupervisorTypeOK,
      Attempts, RouterStops, RetireCurrent, MainStep, loopVars, flagVars, ownerVars,
      fsVars, tailVars
<1>1. LinksOnlyEnd
  BY CloseEnds DEF LinksOnlyEnd, BoundInv
<1>2. RecoveryTypeOK'
  BY <1>1 DEF LinksOnlyEnd
<1>3. CrashInv' /\ ReadyInv' /\ RevokedInv' /\ RevokedBeforeBound'
  BY <1>1 DEF CrashInv, ReadyInv, RevokedInv, RevokedBeforeBound
<1>4. LostInv'
  BY <1>1 DEF LostInv, LinksOnlyEnd
<1>5. BoundInv'
  BY <1>1, SMTT(20) DEF BoundInv, LinksOnlyEnd
<1> QED
  BY <1>2, <1>3, <1>4, <1>5

\* The readers and the worker are joined.
LEMMA RouterJoinedOK ==
  ASSUME RecoveryInv, RouterJoined
  PROVE  RecoveryInv'
<1> USE MaxCrashesAssumption DEF RecoveryInv, RecoveryTypeOK, SupervisorTypeOK,
      Attempts, RouterJoined, MainStep, loopVars, flagVars, ownerVars, fsVars, tailVars
<1>1. RecoveryTypeOK'
  OBVIOUS
<1>2. CrashInv' /\ LostInv' /\ ReadyInv' /\ BoundInv' /\ RevokedInv' /\ RevokedBeforeBound'
  BY DEF CrashInv, LostInv, ReadyInv, BoundInv, RevokedInv, RevokedBeforeBound
<1> QED
  BY <1>1, <1>2

\* The teardown asks the owner for the shutdown.
LEMMA OwnerShutdownOK ==
  ASSUME RecoveryInv, OwnerShutdown
  PROVE  RecoveryInv'
<1> USE MaxCrashesAssumption DEF RecoveryInv, RecoveryTypeOK, SupervisorTypeOK,
      Attempts, OwnerShutdown, OwnerGone, MainStep, loopVars, flagVars, ownerVars,
      fsVars, tailVars
<1>1. Command("shutdown", 0) \in Commands
  BY DEF Command, Commands, LostInv
<1>2. AtMostAdds("shutdown", 0)
  BY <1>1, SendAdds
<1>3. SupervisorTypeOK'
  BY <1>2 DEF AtMostAdds
<1>4. {window_ready, recovery_armed, pre_ready_link_failed, last_window_closed,
       running, reader_stop}' \subseteq BOOLEAN
  BY <1>2 DEF AtMostAdds
<1>5. RecoveryTypeOK'
  BY <1>2, <1>3, <1>4 DEF AtMostAdds
<1>6. CrashInv' /\ BoundInv' /\ RevokedInv' /\ RevokedBeforeBound'
  BY <1>2 DEF CrashInv, BoundInv, RevokedInv, RevokedBeforeBound
<1>7. LostInv'
  BY <1>2 DEF LostInv, AtMostAdds
<1>8. ReadyInv'
  BY <1>2 DEF ReadyInv, AtMostAdds
<1> QED
  BY <1>5, <1>6, <1>7, <1>8

\* The owner's answer, or its end, releases the main thread.
LEMMA OwnerAnswersOK ==
  ASSUME RecoveryInv, OwnerAnswers
  PROVE  RecoveryInv'
<1> USE MaxCrashesAssumption DEF RecoveryInv, RecoveryTypeOK, SupervisorTypeOK,
      Attempts, OwnerAnswers, Unanswered, OwnerGone, MainStep, loopVars, flagVars,
      ownerVars, fsVars, tailVars
<1>1. RecoveryTypeOK'
  OBVIOUS
<1>2. CrashInv' /\ LostInv' /\ ReadyInv' /\ BoundInv' /\ RevokedInv' /\ RevokedBeforeBound'
  BY DEF CrashInv, LostInv, ReadyInv, BoundInv, RevokedInv, RevokedBeforeBound
<1> QED
  BY <1>1, <1>2

\* The owner is joined.
LEMMA OwnerJoinedOK ==
  ASSUME RecoveryInv, OwnerJoined
  PROVE  RecoveryInv'
<1> USE MaxCrashesAssumption DEF RecoveryInv, RecoveryTypeOK, SupervisorTypeOK,
      Attempts, OwnerJoined, OwnerGone, MainStep, loopVars, flagVars, ownerVars, fsVars,
      tailVars, Terminal
<1>1. RecoveryTypeOK'
  OBVIOUS
<1>2. CrashInv' /\ LostInv' /\ ReadyInv' /\ BoundInv' /\ RevokedInv' /\ RevokedBeforeBound'
  BY DEF CrashInv, LostInv, ReadyInv, BoundInv, RevokedInv, RevokedBeforeBound
<1> QED
  BY <1>1, <1>2

-----------------------------------------------------------------------------
(* The theorems.                                                           *)

\* The first generation runs, is installed and has an open link; nothing is on
\* its way.
LEMMA InitOK == Init => RecoveryInv
<1> SUFFICES ASSUME Init PROVE RecoveryInv
  OBVIOUS
<1> USE MaxCrashesAssumption DEF Init, SupervisorInit, Attempts
<1>1. 1 \in Attempts /\ 1 \in 0 .. MaxCrashes /\ 0 \in 0 .. MaxCrashes
  OBVIOUS
<1>2. SupervisorTypeOK
  <2>1. shutdown \in BOOLEAN /\ accepted_shutdown \in BOOLEAN
    BY Zenon
  <2>2. events \in Seq(Attempts) /\ bounds \in Seq(Attempts)
    OBVIOUS
  <2> QED
    BY <1>1, <2>1, <2>2 DEF SupervisorTypeOK, Revoking, Terminal
<1>3. {window_ready, recovery_armed, pre_ready_link_failed, last_window_closed, running,
       reader_stop} \subseteq BOOLEAN
  OBVIOUS
<1>4. RecoveryTypeOK
  <2>1. attached \in BOOLEAN
    BY Zenon
  <2>2. commands \in Seq(Commands)
    OBVIOUS
  <2> HIDE DEF SupervisorInit
  <2> QED
    BY <1>1, <1>2, <1>3, <2>1, <2>2 DEF RecoveryTypeOK
<1>5. CrashInv /\ LostInv /\ ReadyInv /\ RevokedBeforeBound
  BY <1>1 DEF CrashInv, LostInv, ReadyInv, RevokedBeforeBound
<1>6. BoundInv
  BY <1>1 DEF BoundInv
<1>7. RevokedInv
  BY DEF RevokedInv, Unrevoked, Revoking
<1> QED
  BY <1>4, <1>5, <1>6, <1>7 DEF RecoveryInv

\* A step that changes nothing keeps the invariant.
LEMMA StutterOK ==
  ASSUME RecoveryInv, UNCHANGED vars
  PROVE  RecoveryInv'
<1> USE DEF RecoveryInv, vars, supervisorVars
<1>1. RecoveryTypeOK'
  BY DEF RecoveryTypeOK, SupervisorTypeOK
<1>2. CrashInv' /\ LostInv' /\ ReadyInv' /\ RevokedBeforeBound'
  BY DEF CrashInv, LostInv, ReadyInv, RevokedBeforeBound
<1>3. BoundInv' /\ RevokedInv'
  BY DEF BoundInv, RevokedInv
<1> QED
  BY <1>1, <1>2, <1>3

\* Every step of the supervisor, the owner or another thread of the session keeps
\* the invariant.
LEMMA NextOK == RecoveryInv /\ [Next]_vars => RecoveryInv'
<1> SUFFICES ASSUME RecoveryInv, [Next]_vars PROVE RecoveryInv'
  OBVIOUS
<1>1. CASE RoleNext
  BY <1>1, ChildExitsOK, LinkDropsOK DEF RoleNext, Role
<1>2. CASE SuperviseNext
  BY <1>2, SendBoundOK, ObserveExitOK, ObserveShutdownOK, ObserveRestartOK,
     AdmissionFailsOK, RevokeOK, BackoffOK, AllowRestartOK, SpawnOK, SpawnStoppedOK,
     SpawnFailsOK DEF SuperviseNext, Supervise
<1>3. CASE OwnerNext
  BY <1>3, ApplyRevokedOK, EventsDrainedOK, TakeBoundOK, CheckBoundOK, InstallBoundOK,
     RestartFailedBoundOK, TakeOutcomeOK, PollTimeoutOK, AttachRouterOK, ArmRecoveryOK,
     DenyRecoveryOK, FailGenerationOK, FailRetiredGenerationOK,
     PrepareAcceptedShutdownOK, ShutdownCommandOK, ShutdownDoneOK DEF OwnerNext
<1>4. CASE SignalReady \/ ReadyArmed \/ SignalLastWindowClosed
  BY <1>4, SignalReadyOK, ReadyArmedOK, SignalLastWindowClosedOK
<1>5. ASSUME NEW a \in Attempts, ReaderNext(a) \/ FsCall(a) PROVE RecoveryInv'
  BY <1>5, ReaderStopsOK, ReaderSeesEofOK, ReaderLatchesOK, ReaderReportsOK,
     ReaderWriteFailsOK, ReaderQuitsOK, ReaderClaimsOK, FsCallOK DEF ReaderNext
<1>6. CASE FsNext
  BY <1>6, FsReplyOK, FsReportsOK, FsClearsOK DEF FsNext
<1>7. CASE TailNext \/ TailTimeout
  BY <1>7, TailPreparesOK, TailAcceptsOK, TailClosesOK, TailStopsOK, TailEndsOK,
     TailTimeoutOK DEF TailNext
<1>8. CASE MainNext
  BY <1>8, MainAttachesOK, LoopReturnsOK, RouterStopsOK, RouterJoinedOK,
     OwnerShutdownOK, OwnerJoinedOK DEF MainNext
<1>9. CASE WaitFails
  BY <1>9, ArmFailsOK, FsWaitFailsOK, TailWaitFailsOK, AttachFailsOK, OwnerAnswersOK,
     ReaderWaitFailsOK DEF WaitFails
<1>10. CASE UNCHANGED vars
  BY <1>10, StutterOK
<1> QED
  BY <1>1, <1>2, <1>3, <1>4, <1>5, <1>6, <1>7, <1>8, <1>9, <1>10 DEF Next

\* The recovery keeps its invariant, whatever the crash limit and the inputs.
THEOREM RecoveryHolds == Spec => []RecoveryInv
  BY InitOK, NextOK, PTL DEF Spec

\* RevokedBeforeBound: although a revocation and the successor's link come over
\* channels that are not ordered with each other, the owner never ends the
\* session because a predecessor is still installed or the router is missing.
THEOREM RevokedFirst == Spec => []RevokedBeforeBound
<1>1. RecoveryInv => RevokedBeforeBound
  BY DEF RecoveryInv
<1> QED
  BY <1>1, RecoveryHolds, PTL

\* NoRecoveryBeforeReady: a link that ended before Ready keeps Ready unpublished
\* and recovery unarmed, and no successor is spawned.
THEOREM RecoveryAfterReady == Spec => []NoRecoveryBeforeReady
<1>1. RecoveryInv => NoRecoveryBeforeReady
  <2> SUFFICES ASSUME RecoveryInv, pre_ready_link_failed
               PROVE  ~window_ready /\ gate # "armed" /\ attempt = 1
    BY DEF NoRecoveryBeforeReady
  <2>1. attempt \in 1 .. MaxCrashes /\ ReadyInv
    BY DEF RecoveryInv, RecoveryTypeOK, SupervisorTypeOK, Attempts
  <2>2. ~window_ready /\ gate # "armed" /\ ~(attempt > 1)
    BY <2>1 DEF ReadyInv
  <2> QED
    BY <2>1, <2>2, MaxCrashesAssumption
<1> QED
  BY <1>1, RecoveryHolds, PTL

\* RestartsTheLost: a live child is restarted only when its own generation's link
\* has ended.
THEOREM RestartNeedsLoss == Spec => []RestartsTheLost
<1>1. RecoveryInv => RestartsTheLost
  BY DEF RecoveryInv, LostInv, RestartsTheLost
<1> QED
  BY <1>1, RecoveryHolds, PTL
=============================================================================
