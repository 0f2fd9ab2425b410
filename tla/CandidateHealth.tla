--------------------------- MODULE CandidateHealth ---------------------------
(***************************************************************************)
(* The keld-attempt exchange of an update attempt: the attempt owner holds *)
(* one named-pipe instance, admits the launched candidate on it and        *)
(* decides its health, while other processes may open the same name, the   *)
(* candidate may fail, close or exit at any moment, a watcher may cancel    *)
(* the claim wait, deadlines pass and the owner itself may be lost.         *)
(* UpdateActivation models the attempt this exchange decides: "durable" is *)
(* its HealthAccepted record.                                              *)
(***************************************************************************)
EXTENDS Sequences

CONSTANTS Clients,     \* processes that may open the endpoint
          Candidate,   \* the one the owner launched and retains a pin of
          None

ASSUME CandidateAssumption == Candidate \in Clients /\ None \notin Clients

VARIABLES
  owner,      \* [at, result, eof]: where the owner is, how it ended, Ended{end_of_file}
  server,     \* [cancelled, event, consumed]: the instance's flags and cancel event
  cancelling, \* the step of a cancel in flight; it holds lifecycle and io_issue
  io,         \* the owner's overlapped operation on the instance
  pipe,       \* [state, client, in, out, open]: the instance and its client's end
  client,     \* Client -> where it is in the claim and the health sequence
  exited,     \* processes that have exited
  claim_over, \* the claim deadline has passed
  window,     \* the health window: none, running, ended
  durable,    \* HealthAccepted is on disk
  lapsed      \* history: "watched" when the candidate's end closed under a read of
              \* the window, "exited" when it exited before the window had ended

vars == <<owner, server, cancelling, io, pipe, client, exited, claim_over, window,
          durable, lapsed>>

Reported == {"ReportedReady", "ReportedFailure"}
Admitted == {"Accepted", "Booted", "armed"} \cup Reported

------------------------------------------------------------------------------
(* The pipe instance.                                                      *)

Listening == [state |-> "listening", client |-> None, in |-> <<>>, out |-> <<>>, open |-> FALSE]
Disconnected == [Listening EXCEPT !.state = "disconnected"]
Closed == [Listening EXCEPT !.state = "closed"]

\* lifecycle and io_issue: a cancel holds both from its flag to its CancelIoEx.
Locked == cancelling \in {"flagged", "signalled"}
IoIssue == ~Locked

\* The server stream refuses new I/O once the unconsumed instance is cancelled.
refuse_if_cancelled == server.cancelled /\ ~server.consumed

\* CancelIoEx: an operation that has not completed is aborted.
Completed == IF owner.at = "accepting" THEN pipe.state = "connected"
             ELSE pipe.in # <<>> \/ ~pipe.open
cancel_pending_io == IF io = "issued" /\ ~Completed THEN "aborted" ELSE io

\* Dropping the owner's stream closes its end.  Whether the client can still
\* read what was written is the operating system's choice.
Dropped == {Closed} \cup {[pipe EXCEPT !.state = "draining"]}

------------------------------------------------------------------------------
(* The canceller, driven by the watcher on the launch handle.              *)

\* Nothing happens on a consumed instance; otherwise flag, event, CancelIoEx.
CancelFlag ==
  /\ cancelling = "idle"
  /\ IF server.consumed THEN cancelling' = "done" /\ UNCHANGED server
     ELSE cancelling' = "flagged" /\ server' = [server EXCEPT !.cancelled = TRUE]
  /\ UNCHANGED <<owner, io, pipe, client, exited, claim_over, window, durable, lapsed>>

CancelSignal ==
  /\ cancelling = "flagged"
  /\ cancelling' = "signalled" /\ server' = [server EXCEPT !.event = TRUE]
  /\ UNCHANGED <<owner, io, pipe, client, exited, claim_over, window, durable, lapsed>>

CancelAbort ==
  /\ cancelling = "signalled"
  /\ cancelling' = "done" /\ io' = cancel_pending_io
  /\ UNCHANGED <<owner, server, pipe, client, exited, claim_over, window, durable, lapsed>>

Cancel == CancelFlag \/ CancelSignal \/ CancelAbort

------------------------------------------------------------------------------
(* The owner's claim wait: accept_claim and exchange_one.                  *)

At(place) == [owner EXCEPT !.at = place]
Result(outcome) == [owner EXCEPT !.at = "done", !.result = outcome]
OwnerKeeps == UNCHANGED <<cancelling, client, exited, claim_over, window, durable, lapsed>>

\* The loop reads the cancel before the deadline, and both before each wait.
LoopTop ==
  /\ owner.at = "loop"
  /\ owner' = IF server.cancelled THEN [At("closing") EXCEPT !.result = "ClaimCancelled"]
              ELSE IF claim_over THEN [At("closing") EXCEPT !.result = "ClaimDeadline"]
              ELSE At("connect")
  /\ UNCHANGED <<server, io, pipe>> /\ OwnerKeeps

\* ConnectNamedPipe: a client that opened the new instance already is
\* connected synchronously, whatever the cancel event says.
Connect ==
  /\ owner.at = "connect" /\ IoIssue
  /\ IF pipe.state = "connected"
     THEN /\ owner' = At(IF pipe.open THEN "exchange" ELSE "rearm")
          /\ UNCHANGED <<io, pipe>>
     ELSE /\ owner' = At("accepting") /\ io' = "issued"
          /\ pipe' = Listening
  /\ UNCHANGED server /\ OwnerKeeps

\* wait_for_operation: the cancel event is the first handle, so it wins over a
\* completed connect; the deadline counts only when neither is signalled.
AcceptWakes ==
  /\ owner.at = "accepting"
  /\ \/ server.event
     \/ io = "aborted" \/ pipe.state = "connected" \/ claim_over
  /\ owner' = IF server.event THEN [At("closing") EXCEPT !.result = "ClaimCancelled"]
              ELSE IF io = "aborted" THEN Result("Endpoint")
              ELSE IF pipe.state = "connected"
                   THEN At(IF pipe.open THEN "exchange" ELSE "rearm")
              ELSE [At("closing") EXCEPT !.result = "ClaimDeadline"]
  /\ io' = "none"
  /\ pipe' = IF owner'.at = "done" THEN Closed ELSE pipe
  /\ UNCHANGED server /\ OwnerKeeps

\* close_terminal, behind a cancel in flight.
CloseTerminal ==
  /\ owner.at = "closing" /\ ~Locked
  /\ owner' = At("done") /\ pipe' = Closed /\ io' = "none"
  /\ server' = [server EXCEPT !.consumed = TRUE]
  /\ OwnerKeeps

\* disconnect_for_retry: the refused client is cut off, the instance re-armed.
Rearm_ExtendsDeadline ==
  /\ owner.at = "rearm" /\ ~Locked
  /\ owner' = At("loop") /\ pipe' = Disconnected /\ io' = "none"
  /\ claim_over' = FALSE
  /\ UNCHANGED <<server, cancelling, client, exited, window, durable, lapsed>>

Rearm ==
  /\ owner.at = "rearm" /\ ~Locked
  /\ owner' = At("loop") /\ pipe' = Disconnected /\ io' = "none"
  /\ UNCHANGED server /\ OwnerKeeps

\* A connection starts only before the claim deadline (peer_handshake_window).
Exchange ==
  /\ owner.at = "exchange"
  /\ owner' = IF claim_over THEN [At("closing") EXCEPT !.result = "ClaimDeadline"]
              ELSE At("read_claim")
  /\ UNCHANGED <<server, io, pipe>> /\ OwnerKeeps

\* The stream's absolute deadline is the window's end while the window is
\* observed.  Of the other deadlines nothing is known: each may have passed.
DeadlineMayBeOver == owner.at = "Observing" => window = "ended"

\* read: a cancelled instance refuses.  A deadline that has passed returns
\* ERROR_SEM_TIMEOUT and issues nothing, so such a read says nothing of the
\* connection; the check comes before the issue, so a read may also be issued
\* after its deadline.
Reads == {"read_claim", "read_ack", "Accepted", "Booted", "Observing", "close_wait"}
IssueRead ==
  /\ owner.at \in Reads /\ io = "none"
  /\ \/ refuse_if_cancelled /\ owner' = At("rearm") /\ UNCHANGED io
     \/ ~refuse_if_cancelled /\ DeadlineMayBeOver /\ io' = "elapsed" /\ UNCHANGED owner
     \/ ~refuse_if_cancelled /\ IoIssue /\ io' = "issued" /\ UNCHANGED owner
  /\ UNCHANGED <<server, pipe>> /\ OwnerKeeps

\* The wait for an issued read times out, early perhaps, and cancels it before
\* anything arrived.  The owner acts on that only later.
ReadElapses ==
  /\ owner.at \in Reads /\ io = "issued" /\ ~Completed
  /\ io' = "elapsed"
  /\ UNCHANGED <<owner, server, pipe>> /\ OwnerKeeps

\* What a read returns: a record, the client's end of file, its deadline or the
\* abort.
Returned == io \in {"elapsed", "aborted"} \/ (io = "issued" /\ Completed)
Received(record) == io = "issued" /\ pipe.in # <<>> /\ Head(pipe.in) = record
EndOfFile == io = "issued" /\ pipe.in = <<>> /\ ~pipe.open
Taken == [pipe EXCEPT !.in = IF io = "issued" /\ @ # <<>> THEN Tail(@) ELSE @]

\* KELD-AH1, the claimant check, and the pin still running; anything else
\* refuses the connection.
ReadClaim ==
  /\ owner.at = "read_claim" /\ Returned
  /\ owner' = At(IF Received("Claim") /\ pipe.client = Candidate /\ Candidate \notin exited
                 THEN "write_challenge" ELSE "rearm")
  /\ io' = "none" /\ pipe' = Taken
  /\ UNCHANGED server /\ OwnerKeeps

\* KELD-AC1.  A write fails on a cancelled instance, on a closed connection and
\* once its deadline has passed, which may be at any time.
WriteChallenge ==
  /\ owner.at = "write_challenge" /\ IoIssue
  /\ \/ owner' = At("rearm") /\ UNCHANGED pipe
     \/ /\ ~refuse_if_cancelled /\ pipe.open
        /\ owner' = At("read_ack") /\ pipe' = [pipe EXCEPT !.out = Append(@, "Challenge")]
  /\ UNCHANGED <<server, io>> /\ OwnerKeeps

\* KELD-AA1 must match, the pin must still run, the deadline must not be over.
ReadAcknowledgement ==
  /\ owner.at = "read_ack" /\ Returned
  /\ owner' = IF ~Received("Acknowledgement") \/ Candidate \in exited THEN At("rearm")
              ELSE IF claim_over THEN [At("closing") EXCEPT !.result = "ClaimDeadline"]
              ELSE At("one_shot")
  /\ io' = "none" /\ pipe' = Taken
  /\ UNCHANGED server /\ OwnerKeeps

\* The one-shot, serialised with the cancel on the lifecycle lock.
consume_Unchecked ==
  /\ owner.at = "one_shot" /\ ~Locked
  /\ server' = [server EXCEPT !.consumed = TRUE] /\ owner' = At("write_receipt")
  /\ UNCHANGED <<io, pipe>> /\ OwnerKeeps

consume ==
  /\ owner.at = "one_shot" /\ ~Locked
  /\ IF server.cancelled
     THEN owner' = [At("closing") EXCEPT !.result = "ClaimCancelled"] /\ UNCHANGED server
     ELSE server' = [server EXCEPT !.consumed = TRUE] /\ owner' = At("write_receipt")
  /\ UNCHANGED <<io, pipe>> /\ OwnerKeeps

\* KELD-AR1; a failed write leaves no accepted claimant and drops the endpoint.
WriteReceipt ==
  /\ owner.at = "write_receipt" /\ IoIssue
  /\ \/ owner' = Result("Record") /\ pipe' = Closed
     \/ /\ pipe.open
        /\ owner' = At("Accepted") /\ pipe' = [pipe EXCEPT !.out = Append(@, "Receipt")]
  /\ UNCHANGED <<server, io>> /\ OwnerKeeps

------------------------------------------------------------------------------
(* The owner's health sequence.                                            *)

Ended(at_eof) == [owner EXCEPT !.at = "Ended", !.eof = at_eof]
HealthKeeps == UNCHANGED <<server, cancelling, client, exited, claim_over, lapsed>>

\* read_boot and read_ready: the one admitted record, or the exchange ends.
ReadHealth ==
  /\ owner.at \in {"Accepted", "Booted"} /\ Returned
  /\ owner' = IF owner.at = "Accepted" /\ Received("Boot") THEN At("Booted")
              ELSE IF owner.at = "Booted" /\ Received("Ready") THEN At("Ready")
              ELSE Ended(EndOfFile)
  /\ window' = IF owner'.at = "Ready" THEN "running" ELSE window
  /\ io' = "none" /\ pipe' = Taken
  /\ UNCHANGED durable /\ HealthKeeps

\* HealthWindow::begin: a window that is over before the first wait was never
\* observed and is refused.
begin ==
  /\ owner.at = "Ready"
  /\ owner' = IF window = "ended" THEN Ended(FALSE) ELSE At("Observing")
  /\ UNCHANGED <<io, pipe, window, durable>> /\ HealthKeeps

\* after_read: any byte and any end of file refuse.  A read that elapsed, also
\* one that was never issued, goes on to the launch check when the window has
\* ended by the time the owner acts on it, and reads again when it has not.
after_read_EndOfFileElapses ==
  /\ owner.at = "Observing" /\ Returned
  /\ owner' = IF io # "elapsed" /\ ~EndOfFile THEN Ended(FALSE)
              ELSE IF window = "ended" THEN At("check_launch") ELSE owner
  /\ io' = "none" /\ pipe' = Taken
  /\ UNCHANGED <<window, durable>> /\ HealthKeeps

after_read ==
  /\ owner.at = "Observing" /\ Returned
  /\ owner' = IF io # "elapsed" THEN Ended(EndOfFile)
              ELSE IF window = "ended" THEN At("check_launch") ELSE owner
  /\ io' = "none" /\ pipe' = Taken
  /\ UNCHANGED <<window, durable>> /\ HealthKeeps

after_launch_check ==
  /\ owner.at = "check_launch"
  /\ owner' = IF Candidate \in exited THEN Ended(FALSE) ELSE At("Healthy")
  /\ UNCHANGED <<io, pipe, window, durable>> /\ HealthKeeps

\* The caller makes HealthAccepted durable between the window and KELD-AK1
\* (WindowsActivationAttempt::accept_health), which may also refuse, before the
\* record is durable or after.
RecordHealth ==
  /\ owner.at = "Healthy"
  /\ \/ owner' = At("Recorded") /\ durable' = TRUE
     \/ owner' = At("Unrecorded") /\ durable' \in BOOLEAN
  /\ UNCHANGED <<io, pipe, window>> /\ HealthKeeps

\* accept: KELD-AK1 accepted, then the wait for the candidate's end of file.
accept ==
  /\ owner.at = "Recorded"
  /\ \/ owner' = Result("WriteFailed") /\ pipe' \in Dropped
     \/ /\ pipe.open
        /\ owner' = At("close_wait") /\ pipe' = [pipe EXCEPT !.out = Append(@, "Accepted")]
  /\ UNCHANGED <<io, window, durable>> /\ HealthKeeps

\* The close wait ends with end of file, bytes or its deadline: none changes
\* the decision.
CloseWaitEnds ==
  /\ owner.at = "close_wait" /\ Returned
  /\ owner' = Result(IF EndOfFile THEN "CandidateClosed" ELSE "DeadlineElapsed")
  /\ io' = "none" /\ pipe' \in Dropped
  /\ UNCHANGED <<window, durable>> /\ HealthKeeps

\* roll_back: after any failure, or when accept_health refused.
roll_back ==
  /\ owner.at \in {"Ended", "Unrecorded"}
  /\ \/ pipe' \in Dropped
     \/ /\ ~owner.eof /\ Candidate \notin exited /\ pipe.open
        /\ pipe' = [pipe EXCEPT !.out = Append(@, "RolledBack"), !.state = "draining"]
  /\ owner' = Result("RolledBack")
  /\ UNCHANGED <<io, window, durable>> /\ HealthKeeps

\* The owner process dies; the instance and its connection close.
OwnerLost ==
  /\ owner.at # "done"
  /\ owner' = Result("Lost") /\ io' = "none" /\ pipe' \in Dropped
  /\ UNCHANGED <<window, durable>> /\ HealthKeeps

OwnerStep ==
  \/ LoopTop \/ Connect \/ AcceptWakes \/ CloseTerminal \/ Rearm \/ Exchange
  \/ IssueRead \/ ReadElapses \/ ReadClaim \/ WriteChallenge \/ ReadAcknowledgement
  \/ consume \/ WriteReceipt
  \/ ReadHealth \/ begin \/ after_read \/ after_launch_check
  \/ RecordHealth \/ accept \/ CloseWaitEnds \/ roll_back

------------------------------------------------------------------------------
(* The clients.                                                            *)

Serves(c) == pipe.client = c /\ pipe.open
\* The client's end is connected and the owner's end has not been closed.
Writable(c) == Serves(c) /\ pipe.state = "connected"
Offered(c, record) == Serves(c) /\ pipe.out # <<>> /\ Head(pipe.out) = record
ClientKeeps == UNCHANGED <<owner, server, cancelling, io, exited, claim_over, window, durable>>

Open(c) ==
  /\ client[c] = "out" /\ c \notin exited
  /\ pipe.state = "listening"
  /\ pipe' = [pipe EXCEPT !.state = "connected", !.client = c, !.open = TRUE]
  /\ client' = [client EXCEPT ![c] = "connected"]
  /\ UNCHANGED lapsed /\ ClientKeeps

\* The next record of the claim and of the health sequence, in the only order
\* the client's phases admit.  A process that is not the candidate may send
\* anything.
Sends(c) ==
  CASE client[c] = "connected" -> {<<"Claim", "claimed">>}
                                    \cup IF c = Candidate THEN {} ELSE {<<"Other", "claimed">>}
    [] client[c] = "Accepted"  -> {<<"Boot", "Booted">>, <<"Failure", "ReportedFailure">>}
    [] client[c] = "Booted"    -> {<<"Ready", "ReportedReady">>, <<"Failure", "ReportedFailure">>}
    [] OTHER -> {}

Send(c) ==
  /\ c \notin exited /\ Writable(c)
  /\ \E s \in Sends(c) :
       /\ pipe' = [pipe EXCEPT !.in = Append(@, s[1])]
       /\ client' = [client EXCEPT ![c] = s[2]]
  /\ UNCHANGED lapsed /\ ClientKeeps

\* claim: KELD-AC1 is answered with KELD-AA1, KELD-AR1 accepts the claimant.
ClaimStep(c) ==
  /\ c \notin exited
  /\ \/ /\ client[c] = "claimed" /\ Offered(c, "Challenge") /\ Writable(c)
        /\ client' = [client EXCEPT ![c] = "acknowledged"]
        /\ pipe' = [pipe EXCEPT !.out = Tail(@), !.in = Append(@, "Acknowledgement")]
     \/ /\ client[c] = "acknowledged" /\ Offered(c, "Receipt")
        /\ client' = [client EXCEPT ![c] = "Accepted"]
        /\ pipe' = [pipe EXCEPT !.out = Tail(@)]
  /\ UNCHANGED lapsed /\ ClientKeeps

ClosedBy(c) == IF pipe.client = c THEN [pipe EXCEPT !.open = FALSE] ELSE pipe
Lapse(c) == lapsed \cup
  IF c = Candidate /\ Serves(c) /\ owner.at = "Observing" /\ io = "issued"
  THEN {"watched"} ELSE {}

\* await_health_accepted: one record, then the connection is closed.  Only
\* KELD-AK1 accepted arms the recovery gate.
await_health_accepted ==
  /\ client[Candidate] \in Reported /\ Candidate \notin exited
  /\ client' = [client EXCEPT ![Candidate] =
       IF Offered(Candidate, "Accepted") THEN "armed" ELSE "unarmed"]
  /\ pipe' = ClosedBy(Candidate) /\ lapsed' = Lapse(Candidate)
  /\ ClientKeeps

\* A client gives up: its claim was refused or cut off, its deadline passed, or
\* its channel is dropped.  The candidate refuses its own start; another
\* process may come back.
GiveUp(c) ==
  /\ client[c] \notin {"out", "armed", "unarmed"} /\ c \notin exited
  /\ client' = [client EXCEPT ![c] = IF c = Candidate THEN "unarmed" ELSE "out"]
  /\ pipe' = ClosedBy(c) /\ lapsed' = Lapse(c)
  /\ ClientKeeps

Exit(c) ==
  /\ c \notin exited
  /\ exited' = exited \cup {c}
  /\ pipe' = ClosedBy(c)
  /\ lapsed' = Lapse(c) \cup IF c = Candidate /\ window # "ended" THEN {"exited"} ELSE {}
  /\ UNCHANGED <<owner, server, cancelling, io, client, claim_over, window, durable>>

ClientStep(c) == Open(c) \/ Send(c) \/ ClaimStep(c) \/ GiveUp(c) \/ Exit(c)

------------------------------------------------------------------------------
(* Time.                                                                   *)

ClaimDeadline ==
  /\ ~claim_over /\ owner.at # "done"
  /\ claim_over' = TRUE
  /\ UNCHANGED <<owner, server, cancelling, io, pipe, client, exited, window, durable, lapsed>>

WindowEnds ==
  /\ window = "running"
  /\ window' = "ended"
  /\ UNCHANGED <<owner, server, cancelling, io, pipe, client, exited, claim_over, durable, lapsed>>

------------------------------------------------------------------------------
Init ==
  /\ owner = [at |-> "loop", result |-> None, eof |-> FALSE]
  /\ server = [cancelled |-> FALSE, event |-> FALSE, consumed |-> FALSE]
  /\ cancelling = "idle" /\ io = "none" /\ pipe = Listening
  /\ client = [c \in Clients |-> "out"] /\ exited = {}
  /\ claim_over = FALSE /\ window = "none" /\ durable = FALSE /\ lapsed = {}

Next == \/ OwnerStep \/ OwnerLost \/ Cancel
        \/ await_health_accepted
        \/ \E c \in Clients : ClientStep(c)
        \/ ClaimDeadline \/ WindowEnds

Spec == Init /\ [][Next]_vars

\* The owner's thread runs, a cancel that began finishes, and time passes.
\* Nothing is assumed of any client or of the watcher.
FairSpec == Spec /\ WF_vars(OwnerStep) /\ WF_vars(CancelSignal \/ CancelAbort)
                 /\ WF_vars(ClaimDeadline) /\ WF_vars(WindowEnds)

------------------------------------------------------------------------------
(* Properties.                                                             *)

\* The cancel and the one-shot exclude each other, whatever the watcher's
\* thread and the owner's are doing when they meet.  After a cancel acted no
\* claimant was or is told it was accepted, and the wait is reported as
\* cancelled (or as over, when the deadline had already decided it), never as
\* a failed Windows call; and nobody but the launched candidate is admitted.
CancelOrOneShot ==
  /\ server.cancelled =>
       /\ \A c \in Clients : client[c] \notin Admitted
       /\ \A k \in DOMAIN pipe.out : pipe.out[k] # "Receipt"
       /\ owner.at = "done" => owner.result \in {"ClaimCancelled", "ClaimDeadline", "Lost"}
  /\ \A c \in Clients \ {Candidate} : client[c] \notin Admitted

\* A commit is earned.  The candidate arms its recovery gate only when
\* HealthAccepted is durable, so no armed candidate is ever rolled back; and
\* health is accepted only of a candidate that reported Ready, whose process ran
\* to the end of the window, and that never closed its end under a read of the
\* window, however early reads elapse and however late the owner acts.  A close
\* while no read is issued can go unseen, so nothing is said of it.
CommitIsEarned ==
  /\ client[Candidate] = "armed" => durable
  /\ durable \/ owner.at \in {"Healthy", "Recorded", "Unrecorded"} =>
       /\ client[Candidate] \in {"ReportedReady", "armed", "unarmed"}
       /\ lapsed = {}

\* However often refused clients come back and whatever the candidate does, the
\* owner's exchange ends: no refusal extends the claim deadline, and every read
\* after it is bounded.
ExchangeEnds == <>(owner.at = "done")
=============================================================================
