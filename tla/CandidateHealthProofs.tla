----------------------- MODULE CandidateHealthProofs -----------------------
(***************************************************************************)
(* Proofs about the keld-attempt exchange: for any set of processes that   *)
(* open the endpoint, a cancel and the one-shot exclude each other, and a  *)
(* commit is earned.  The argument is one inductive invariant, ExchangeInv. *)
(* It follows the two facts a record carries between processes: a receipt  *)
(* waiting in the pipe says that the one-shot was won by the candidate     *)
(* that will read it, and a Ready waiting there says that the candidate    *)
(* sent it.  Every action keeps the invariant, one lemma each.             *)
(***************************************************************************)
EXTENDS CandidateHealth, SequenceTheorems, TLAPS

-----------------------------------------------------------------------------
(* The inductive invariant.                                                *)

(* The owner's places from a connected client on, from the admitted claim  *)
(* on, and from the consumed one-shot on.                                  *)
DecidedPlaces == {"Healthy", "Recorded", "Unrecorded", "close_wait"}
HealthPlaces == DecidedPlaces \cup {"Accepted", "Booted", "Ready", "Observing",
                                    "check_launch", "Ended"}
WonPlaces == HealthPlaces \cup {"write_receipt"}
ClaimedPlaces == WonPlaces \cup {"write_challenge", "read_ack", "one_shot"}
ConnectedPlaces == ClaimedPlaces \cup {"exchange", "read_claim"}
Places == ConnectedPlaces \cup {"loop", "connect", "accepting", "closing", "rearm", "done"}

Undecided == {"ClaimCancelled", "ClaimDeadline", "Lost"}
ClientPlaces == {"out", "connected", "claimed", "acknowledged", "unarmed"} \cup Admitted

(* Records of the exchange, and whether one is still to be read.           *)
Records == {"Claim", "Other", "Boot", "Failure", "Ready", "Acknowledgement", "Challenge",
            "Receipt", "Accepted", "RolledBack"}
Holds(queue, record) == \E k \in DOMAIN queue : queue[k] = record

Results == {None, "Endpoint", "Record", "WriteFailed", "RolledBack", "CandidateClosed",
            "DeadlineElapsed"} \cup Undecided

Owners == [at : Places, result : Results, eof : BOOLEAN]
Servers == [cancelled : BOOLEAN, event : BOOLEAN, consumed : BOOLEAN]
Pipes == [state : {"listening", "connected", "disconnected", "draining", "closed"},
          client : Clients \cup {None}, in : Seq(Records), out : Seq(Records),
          open : BOOLEAN]

(* Every component is at a step of its own code.                           *)
HealthTypeOK ==
  /\ owner \in Owners /\ server \in Servers /\ pipe \in Pipes
  /\ cancelling \in {"idle", "flagged", "signalled", "done"}
  /\ io \in {"none", "issued", "elapsed", "aborted"}
  /\ client \in [Clients -> ClientPlaces]
  /\ exited \subseteq Clients
  /\ claim_over \in BOOLEAN /\ durable \in BOOLEAN
  /\ lapsed \subseteq {"watched", "exited"}
  /\ window \in {"none", "running", "ended"}

(* The one-shot is consumed, and no cancel acted before it.                *)
Won == server.consumed /\ ~server.cancelled

(* The candidate has sent Ready.                                           *)
SaidReady == client[Candidate] \in {"ReportedReady", "armed", "unarmed"}

(* The instance serves the client the owner believes it serves.            *)
PipeInv ==
  /\ pipe.state = "listening" => pipe.in = <<>> /\ pipe.out = <<>>
  /\ owner.at \in ConnectedPlaces => pipe.state = "connected"
  /\ owner.at \in ClaimedPlaces => pipe.client = Candidate
  /\ pipe.client = Candidate => client[Candidate] # "out"

(* Nobody is told of an acceptance, or acts on one, unless the one-shot     *)
(* was won; and an instance no cancel reached ends with no failed call.     *)
OneShotInv ==
  /\ owner.at \in WonPlaces => Won
  /\ Holds(pipe.out, "Receipt") => Won /\ pipe.client = Candidate
  /\ \A c \in Clients : client[c] \in Admitted => Won /\ c = Candidate
  /\ cancelling = "flagged" => server.cancelled
  /\ cancelling = "signalled" => server.event
  /\ io = "aborted" => server.event
  /\ owner.at = "closing" => owner.result \in Undecided
  /\ owner.at = "done" => owner.result \in Undecided \/ Won

(* Health is accepted: the owner is past the launch check, or the record is *)
(* on disk.                                                                *)
Decided == durable \/ owner.at \in DecidedPlaces

(* What the owner has read of the candidate's health is so.                *)
HealthInv ==
  /\ Holds(pipe.in, "Ready") /\ pipe.client = Candidate => SaidReady
  /\ owner.at \in {"Ready", "Observing", "check_launch"} \/ Decided => SaidReady
  /\ owner.at = "check_launch" \/ Decided => window = "ended"
  /\ Decided => lapsed = {}
  /\ "exited" \in lapsed => Candidate \in exited
  /\ "watched" \in lapsed =>
       \/ owner.at \in {"Ended", "done"}
       \/ owner.at = "Observing" /\ io = "issued" /\ ~pipe.open
  /\ Holds(pipe.out, "Accepted") \/ client[Candidate] = "armed" => durable
  /\ owner.at \in {"Recorded", "close_wait"} => durable
  /\ durable => owner.at \in {"Recorded", "Unrecorded", "close_wait", "done"}
  /\ owner.at \in Places \ (DecidedPlaces \cup {"Ready", "Observing", "check_launch", "Ended",
                                              "done"}) => window = "none"

ExchangeInv == HealthTypeOK /\ PipeInv /\ OneShotInv /\ HealthInv

-----------------------------------------------------------------------------
(* Facts about the records of the state and the queues of the pipe.        *)

\* The owner's record stays one when it moves to another place of its code.
LEMMA OwnerMoves ==
  ASSUME owner \in Owners, NEW place \in Places, NEW result \in Results, NEW end \in BOOLEAN
  PROVE  /\ [owner EXCEPT !.at = place] \in Owners
         /\ [[owner EXCEPT !.at = place] EXCEPT !.result = result] \in Owners
         /\ [owner EXCEPT !.at = place, !.result = result] \in Owners
         /\ [owner EXCEPT !.at = place, !.eof = end] \in Owners
  BY DEF Owners

\* Raising one of the instance's flags leaves a record of three flags.
LEMMA ServerMoves ==
  ASSUME server \in Servers
  PROVE  /\ [server EXCEPT !.cancelled = TRUE] \in Servers
         /\ [server EXCEPT !.event = TRUE] \in Servers
         /\ [server EXCEPT !.consumed = TRUE] \in Servers
<1>1. \A flag \in BOOLEAN :
         /\ [server EXCEPT !.cancelled = flag] \in Servers
         /\ [server EXCEPT !.event = flag] \in Servers
         /\ [server EXCEPT !.consumed = flag] \in Servers
  BY DEF Servers
<1> QED
  BY <1>1, Zenon

\* A listening, a disconnected and a closed instance are instances.
LEMMA FixedPipes == Listening \in Pipes /\ Disconnected \in Pipes /\ Closed \in Pipes
<1>1. <<>> \in Seq(Records)
  OBVIOUS
<1>2. Listening \in Pipes
  BY <1>1 DEF Pipes, Listening
<1>3. \A x \in Pipes : /\ [x EXCEPT !.state = "disconnected"] \in Pipes
                       /\ [x EXCEPT !.state = "closed"] \in Pipes
  BY DEF Pipes
<1> QED
  BY <1>2, <1>3 DEF Disconnected, Closed

\* An instance whose queues, client end or state change is still an instance.
LEMMA PipeMoves ==
  ASSUME pipe \in Pipes
  PROVE  /\ [pipe EXCEPT !.state = "draining"] \in Pipes
         /\ pipe.in \in Seq(Records) /\ pipe.out \in Seq(Records)
         /\ \A q \in Seq(Records) :
              [pipe EXCEPT !.in = q] \in Pipes /\ [pipe EXCEPT !.out = q] \in Pipes
         /\ \A q, r \in Seq(Records) : [pipe EXCEPT !.out = q, !.in = r] \in Pipes
         /\ \A c \in Clients, f \in BOOLEAN :
              /\ [pipe EXCEPT !.state = "connected", !.client = c, !.open = f] \in Pipes
              /\ [pipe EXCEPT !.open = f] \in Pipes
  BY DEF Pipes

\* No record is in an empty queue.
LEMMA HoldsNothing == \A record : ~Holds(<<>>, record)
  BY DEF Holds

\* What an appended queue holds it held before, or is the record just
\* written.
LEMMA HoldsAppended ==
  ASSUME NEW queue \in Seq(Records), NEW added \in Records
  PROVE  /\ Append(queue, added) \in Seq(Records)
         /\ \A record : Holds(Append(queue, added), record) =>
                          Holds(queue, record) \/ added = record
  BY AppendProperties DEF Holds

\* Reading a queue removes nothing but its head, which it held.
LEMMA HoldsTail ==
  ASSUME NEW queue \in Seq(Records), queue # <<>>
  PROVE  /\ Tail(queue) \in Seq(Records)
         /\ \A record : Holds(Tail(queue), record) => Holds(queue, record)
         /\ Holds(queue, Head(queue)) /\ Head(queue) \in Records
  BY DEF Holds

\* A record the owner writes changes only what its client can read.
LEMMA OutWritten ==
  ASSUME pipe \in Pipes, NEW record \in Records,
         pipe' = [pipe EXCEPT !.out = Append(@, record)]
  PROVE  /\ pipe' \in Pipes
         /\ pipe'.state = pipe.state /\ pipe'.client = pipe.client
         /\ pipe'.in = pipe.in /\ pipe'.open = pipe.open
         /\ \A r : Holds(pipe'.out, r) => Holds(pipe.out, r) \/ r = record
<1>1. pipe.out \in Seq(Records) /\ Append(pipe.out, record) \in Seq(Records)
  BY PipeMoves, HoldsAppended
<1>2. pipe' \in Pipes
  BY <1>1, PipeMoves
<1>3. /\ pipe'.state = pipe.state /\ pipe'.client = pipe.client
      /\ pipe'.in = pipe.in /\ pipe'.open = pipe.open
      /\ pipe'.out = Append(pipe.out, record)
  OBVIOUS
<1> QED
  BY <1>1, <1>2, <1>3, HoldsAppended

\* A record the client sends changes only what the owner can read.
LEMMA InWritten ==
  ASSUME pipe \in Pipes, NEW record \in Records,
         pipe' = [pipe EXCEPT !.in = Append(@, record)]
  PROVE  /\ pipe' \in Pipes
         /\ pipe'.state = pipe.state /\ pipe'.client = pipe.client
         /\ pipe'.out = pipe.out /\ pipe'.open = pipe.open
         /\ \A r : Holds(pipe'.in, r) => Holds(pipe.in, r) \/ r = record
<1>1. pipe.in \in Seq(Records) /\ Append(pipe.in, record) \in Seq(Records)
  BY PipeMoves, HoldsAppended
<1>2. pipe' \in Pipes
  BY <1>1, PipeMoves
<1>3. /\ pipe'.state = pipe.state /\ pipe'.client = pipe.client
      /\ pipe'.out = pipe.out /\ pipe'.open = pipe.open
      /\ pipe'.in = Append(pipe.in, record)
  OBVIOUS
<1> QED
  BY <1>1, <1>2, <1>3, HoldsAppended

\* Dropping the owner's end leaves a closed instance, or what was written to
\* be drained.
LEMMA PipeDrops ==
  ASSUME pipe \in Pipes, pipe' \in Dropped
  PROVE  /\ pipe' \in Pipes /\ pipe'.state \in {"closed", "draining"}
         /\ \/ /\ pipe'.client = None /\ pipe'.in = <<>> /\ pipe'.out = <<>> /\ ~pipe'.open
            \/ /\ pipe'.client = pipe.client /\ pipe'.in = pipe.in
               /\ pipe'.out = pipe.out /\ pipe'.open = pipe.open
<1>1. CASE pipe' = Closed
  BY <1>1, FixedPipes DEF Closed, Listening
<1>2. CASE pipe' = [pipe EXCEPT !.state = "draining"]
  <2>1. pipe' \in Pipes
    BY <1>2, PipeMoves
  <2>2. /\ pipe'.state = "draining" /\ pipe'.client = pipe.client /\ pipe'.in = pipe.in
        /\ pipe'.out = pipe.out /\ pipe'.open = pipe.open
    BY <1>2
  <2> QED
    BY <2>1, <2>2
<1> QED
  BY <1>1, <1>2 DEF Dropped

-----------------------------------------------------------------------------
(* The canceller keeps the invariant.                                      *)

\* cancel's first step: the flag is raised only on an instance whose one-shot
\* is not consumed, so a won one-shot stays won.
LEMMA CancelFlagOK ==
  ASSUME ExchangeInv, CancelFlag
  PROVE  ExchangeInv'
<1> USE CandidateAssumption DEF ExchangeInv, HealthTypeOK
<1>1. CASE server.consumed
  <2>1. /\ cancelling' = "done" /\ UNCHANGED server
        /\ UNCHANGED <<owner, io, pipe, client, exited, claim_over, window, durable, lapsed>>
    BY <1>1 DEF CancelFlag
  <2>2. HealthTypeOK'
    BY <1>1, <2>1
  <2>3. PipeInv'
    BY <1>1, <2>1 DEF PipeInv
  <2>4. OneShotInv'
    BY <1>1, <2>1 DEF OneShotInv, Won
  <2>5. HealthInv'
    BY <1>1, <2>1 DEF HealthInv, Decided, DecidedPlaces, SaidReady
  <2> QED
    BY <2>2, <2>3, <2>4, <2>5
<1>2. CASE ~server.consumed
  <2>1. /\ cancelling' = "flagged" /\ server' = [server EXCEPT !.cancelled = TRUE]
        /\ UNCHANGED <<owner, io, pipe, client, exited, claim_over, window, durable, lapsed>>
    BY <1>2 DEF CancelFlag
  <2>2. server' \in Servers
    BY <1>2, <2>1, ServerMoves
  <2>3. HealthTypeOK'
    BY <1>2, <2>1, <2>2
  <2>4. PipeInv'
    BY <1>2, <2>1 DEF PipeInv
  <2>5. OneShotInv'
    BY <1>2, <2>1 DEF OneShotInv, Won
  <2>6. HealthInv'
    BY <1>2, <2>1 DEF HealthInv, Decided, DecidedPlaces, SaidReady
  <2> QED
    BY <2>3, <2>4, <2>5, <2>6
<1> QED
  BY <1>1, <1>2

\* cancel's event follows its flag.
LEMMA CancelSignalOK ==
  ASSUME ExchangeInv, CancelSignal
  PROVE  ExchangeInv'
<1> USE CandidateAssumption DEF ExchangeInv, HealthTypeOK, CancelSignal
<1>1. server' \in Servers
  BY ServerMoves
<1>2. HealthTypeOK'
  BY <1>1
<1>3. PipeInv'
  BY DEF PipeInv
<1>4. OneShotInv'
  BY DEF OneShotInv, Won
<1>5. HealthInv'
  BY DEF HealthInv, Decided, DecidedPlaces, SaidReady
<1> QED
  BY <1>2, <1>3, <1>4, <1>5

\* cancel's CancelIoEx aborts an operation only after the event is set.
LEMMA CancelAbortOK ==
  ASSUME ExchangeInv, CancelAbort
  PROVE  ExchangeInv'
<1> USE CandidateAssumption DEF ExchangeInv, HealthTypeOK, CancelAbort, cancel_pending_io,
      Completed
<1>1. HealthTypeOK'
  OBVIOUS
<1>2. PipeInv'
  BY DEF PipeInv
<1>3. OneShotInv'
  BY DEF OneShotInv, Won
<1>4. HealthInv'
  BY DEF HealthInv, Decided, DecidedPlaces, SaidReady
<1> QED
  BY <1>1, <1>2, <1>3, <1>4

-----------------------------------------------------------------------------
(* The owner's claim wait keeps the invariant.                             *)

\* The top of the claim loop leaves it only for the close of an undecided
\* wait.
LEMMA LoopTopOK ==
  ASSUME ExchangeInv, LoopTop
  PROVE  ExchangeInv'
<1> USE CandidateAssumption DEF ExchangeInv, HealthTypeOK, LoopTop, At, OwnerKeeps
<1>1. owner' \in Owners
  BY OwnerMoves DEF Places, DecidedPlaces, HealthPlaces, WonPlaces, ClaimedPlaces,
     ConnectedPlaces, Results, Undecided
<1>2. HealthTypeOK'
  BY <1>1
<1>3. PipeInv'
  BY DEF PipeInv, DecidedPlaces, HealthPlaces, WonPlaces, ClaimedPlaces,
     ConnectedPlaces, Places
<1>4. OneShotInv'
  BY DEF OneShotInv, Won, DecidedPlaces, HealthPlaces, WonPlaces, ClaimedPlaces,
     ConnectedPlaces, Places, Undecided
<1>5. HealthInv'
  BY DEF HealthInv, Decided, SaidReady, DecidedPlaces, HealthPlaces, WonPlaces,
     ClaimedPlaces, ConnectedPlaces, Places
<1> QED
  BY <1>2, <1>3, <1>4, <1>5

\* ConnectNamedPipe serves a client that is there, or clears the instance for
\* the next one.
LEMMA ConnectOK ==
  ASSUME ExchangeInv, Connect
  PROVE  ExchangeInv'
<1> USE CandidateAssumption DEF ExchangeInv, HealthTypeOK, Connect, IoIssue, Locked, At,
      OwnerKeeps
<1>1. owner' \in Owners
  <2>1. \E place \in {"exchange", "rearm", "accepting"} : owner' = [owner EXCEPT !.at = place]
    OBVIOUS
  <2>2. {"exchange", "rearm", "accepting"} \subseteq Places
    BY DEF Places, ConnectedPlaces
  <2> QED
    BY <2>1, <2>2 DEF Owners
<1>2. pipe' \in Pipes
  BY FixedPipes
<1>3. HealthTypeOK'
  BY <1>1, <1>2
<1>4. PipeInv'
  BY DEF PipeInv, Listening, Owners, DecidedPlaces, HealthPlaces, WonPlaces,
     ClaimedPlaces, ConnectedPlaces, Places
<1>5. OneShotInv'
  BY HoldsNothing DEF OneShotInv, Won, Listening, Owners, DecidedPlaces,
     HealthPlaces, WonPlaces, ClaimedPlaces, ConnectedPlaces, Places
<1>6. HealthInv'
  BY HoldsNothing DEF HealthInv, Decided, DecidedPlaces, SaidReady, Listening, Owners
<1> QED
  BY <1>3, <1>4, <1>5, <1>6

\* wait_for_operation never reports a failed call: an abort implies the
\* event, which wins.
LEMMA AcceptWakesOK ==
  ASSUME ExchangeInv, AcceptWakes
  PROVE  ExchangeInv'
<1> USE CandidateAssumption DEF ExchangeInv, HealthTypeOK, AcceptWakes, At, Result,
      OwnerKeeps
<1>1. owner' \in Owners
  BY OwnerMoves DEF Places, DecidedPlaces, HealthPlaces, WonPlaces, ClaimedPlaces,
     ConnectedPlaces, Results, Undecided
<1>2. pipe' \in Pipes
  BY FixedPipes
<1>3. HealthTypeOK'
  BY <1>1, <1>2
<1>4. PipeInv'
  BY DEF PipeInv, Listening, Closed, DecidedPlaces, HealthPlaces, WonPlaces,
     ClaimedPlaces, ConnectedPlaces, Places
<1>5. OneShotInv'
  BY DEF OneShotInv, Won, DecidedPlaces, HealthPlaces, WonPlaces, ClaimedPlaces,
     ConnectedPlaces, Places, Undecided
<1>6. HealthInv'
  BY DEF HealthInv, Decided, OneShotInv, SaidReady, DecidedPlaces, HealthPlaces,
     WonPlaces, ClaimedPlaces, ConnectedPlaces, Places
<1> QED
  BY <1>3, <1>4, <1>5, <1>6

\* close_terminal consumes an instance whose wait was already given up.
LEMMA CloseTerminalOK ==
  ASSUME ExchangeInv, CloseTerminal
  PROVE  ExchangeInv'
<1> USE CandidateAssumption DEF ExchangeInv, HealthTypeOK, CloseTerminal, Locked, At,
      OwnerKeeps
<1>1. owner' \in Owners
  BY OwnerMoves DEF Places, DecidedPlaces, HealthPlaces, WonPlaces, ClaimedPlaces,
     ConnectedPlaces, Results, Undecided
<1>2. server' \in Servers
  BY ServerMoves
<1>3. pipe' \in Pipes
  BY FixedPipes
<1>4. HealthTypeOK'
  BY <1>1, <1>2, <1>3
<1>5. PipeInv'
  BY DEF PipeInv, Listening, Closed, DecidedPlaces, HealthPlaces, WonPlaces,
     ClaimedPlaces, ConnectedPlaces, Places
<1>6. OneShotInv'
  BY HoldsNothing DEF OneShotInv, Won, Listening, Closed, DecidedPlaces,
     HealthPlaces, WonPlaces, ClaimedPlaces, ConnectedPlaces, Places
<1>7. HealthInv'
  BY HoldsNothing DEF HealthInv, Decided, DecidedPlaces, Listening, Closed
<1> QED
  BY <1>4, <1>5, <1>6, <1>7

\* disconnect_for_retry leaves no record of the refused client in the
\* instance.
LEMMA RearmOK ==
  ASSUME ExchangeInv, Rearm
  PROVE  ExchangeInv'
<1> USE CandidateAssumption DEF ExchangeInv, HealthTypeOK, Rearm, Locked, At, OwnerKeeps
<1>1. owner' \in Owners
  BY OwnerMoves DEF Places, DecidedPlaces, HealthPlaces, WonPlaces, ClaimedPlaces,
     ConnectedPlaces, Results, Undecided
<1>2. pipe' \in Pipes
  BY FixedPipes
<1>3. HealthTypeOK'
  BY <1>1, <1>2
<1>4. PipeInv'
  BY DEF PipeInv, Listening, Disconnected, DecidedPlaces, HealthPlaces, WonPlaces,
     ClaimedPlaces, ConnectedPlaces, Places
<1>5. OneShotInv'
  BY HoldsNothing DEF OneShotInv, Won, Listening, Disconnected, DecidedPlaces,
     HealthPlaces, WonPlaces, ClaimedPlaces, ConnectedPlaces, Places
<1>6. HealthInv'
  BY HoldsNothing DEF HealthInv, Decided, Listening, Disconnected, DecidedPlaces,
     HealthPlaces, WonPlaces, ClaimedPlaces, ConnectedPlaces, Places
<1> QED
  BY <1>3, <1>4, <1>5, <1>6

\* A connection that starts too late closes the wait.
LEMMA ExchangeOK ==
  ASSUME ExchangeInv, Exchange
  PROVE  ExchangeInv'
<1> USE CandidateAssumption DEF ExchangeInv, HealthTypeOK, Exchange, At, OwnerKeeps
<1>1. owner' \in Owners
  BY OwnerMoves DEF Places, DecidedPlaces, HealthPlaces, WonPlaces, ClaimedPlaces,
     ConnectedPlaces, Results, Undecided
<1>2. HealthTypeOK'
  BY <1>1
<1>3. PipeInv'
  BY DEF PipeInv, DecidedPlaces, HealthPlaces, WonPlaces, ClaimedPlaces,
     ConnectedPlaces, Places
<1>4. OneShotInv'
  BY DEF OneShotInv, Won, DecidedPlaces, HealthPlaces, WonPlaces, ClaimedPlaces,
     ConnectedPlaces, Places, Undecided
<1>5. HealthInv'
  BY DEF HealthInv, Decided, SaidReady, DecidedPlaces, HealthPlaces, WonPlaces,
     ClaimedPlaces, ConnectedPlaces, Places
<1> QED
  BY <1>2, <1>3, <1>4, <1>5

\* A read is issued or its deadline is over, or a cancelled instance's client is
\* refused; never in the health places.
LEMMA IssueReadOK ==
  ASSUME ExchangeInv, IssueRead
  PROVE  ExchangeInv'
<1> USE CandidateAssumption DEF ExchangeInv, HealthTypeOK, IssueRead, IoIssue, Locked,
      refuse_if_cancelled, DeadlineMayBeOver, Reads, At, OwnerKeeps
<1>1. owner' \in Owners
  BY OwnerMoves DEF Places, DecidedPlaces, HealthPlaces, WonPlaces, ClaimedPlaces,
     ConnectedPlaces, Results, Undecided
<1>2. HealthTypeOK'
  BY <1>1
<1>3. PipeInv'
  BY DEF PipeInv, Owners, DecidedPlaces, HealthPlaces, WonPlaces, ClaimedPlaces,
     ConnectedPlaces, Places
<1>4. OneShotInv'
  BY DEF OneShotInv, Won, Owners, DecidedPlaces, HealthPlaces, WonPlaces,
     ClaimedPlaces, ConnectedPlaces, Places
<1>5. HealthInv'
  BY DEF HealthInv, Decided, OneShotInv, SaidReady, Won, Owners, DecidedPlaces,
     HealthPlaces, WonPlaces, ClaimedPlaces, ConnectedPlaces, Places
<1> QED
  BY <1>2, <1>3, <1>4, <1>5

\* An issued read elapses only before anything arrived and while the client's
\* end is open, so no close it watched is forgotten.
LEMMA ReadElapsesOK ==
  ASSUME ExchangeInv, ReadElapses
  PROVE  ExchangeInv'
<1> USE CandidateAssumption DEF ExchangeInv, HealthTypeOK, ReadElapses, Completed, Reads,
      OwnerKeeps
<1>1. HealthTypeOK'
  OBVIOUS
<1>2. PipeInv'
  BY DEF PipeInv
<1>3. OneShotInv'
  BY DEF OneShotInv, Won
<1>4. HealthInv'
  BY DEF HealthInv, Decided, DecidedPlaces, SaidReady
<1> QED
  BY <1>1, <1>2, <1>3, <1>4

\* Only a claim read from the launched candidate's own connection goes on to
\* the challenge.
LEMMA ReadClaimOK ==
  ASSUME ExchangeInv, ReadClaim
  PROVE  ExchangeInv'
<1> USE CandidateAssumption DEF ExchangeInv, HealthTypeOK, ReadClaim, At, OwnerKeeps,
      Received, Taken
<1>1. owner' \in Owners
  BY OwnerMoves DEF Places, DecidedPlaces, HealthPlaces, WonPlaces, ClaimedPlaces,
     ConnectedPlaces, Results, Undecided
<1>2. pipe' \in Pipes
  BY PipeMoves, HoldsTail
<1>3. HealthTypeOK'
  BY <1>1, <1>2
<1>4. PipeInv'
  BY DEF PipeInv, DecidedPlaces, HealthPlaces, WonPlaces, ClaimedPlaces,
     ConnectedPlaces, Places
<1>5. OneShotInv'
  BY DEF OneShotInv, Won, DecidedPlaces, HealthPlaces, WonPlaces, ClaimedPlaces,
     ConnectedPlaces, Places
<1>6. HealthInv'
  BY HoldsTail DEF HealthInv, Decided, DecidedPlaces, SaidReady, Owners, Pipes
<1> QED
  BY <1>3, <1>4, <1>5, <1>6

\* The challenge is not a receipt.
LEMMA WriteChallengeOK ==
  ASSUME ExchangeInv, WriteChallenge
  PROVE  ExchangeInv'
<1> USE CandidateAssumption DEF ExchangeInv, HealthTypeOK
<1>1. CASE owner' = At("rearm") /\ UNCHANGED pipe
  <2>1. /\ owner.at = "write_challenge"
        /\ owner' = At("rearm") /\ UNCHANGED <<server, io, pipe>>
        /\ UNCHANGED <<cancelling, client, exited, claim_over, window, durable, lapsed>>
    BY <1>1 DEF WriteChallenge, OwnerKeeps
  <2> USE DEF At
  <2>2. owner' \in Owners
    BY <1>1, <2>1, OwnerMoves DEF Places, DecidedPlaces, HealthPlaces, WonPlaces,
       ClaimedPlaces, ConnectedPlaces, Results, Undecided
  <2>3. HealthTypeOK'
    BY <1>1, <2>1, <2>2
  <2>4. PipeInv'
    BY <1>1, <2>1 DEF PipeInv, DecidedPlaces, HealthPlaces, WonPlaces, ClaimedPlaces,
       ConnectedPlaces, Places
  <2>5. OneShotInv'
    BY <1>1, <2>1 DEF OneShotInv, Won, DecidedPlaces, HealthPlaces, WonPlaces,
       ClaimedPlaces, ConnectedPlaces, Places
  <2>6. HealthInv'
    BY <1>1, <2>1 DEF HealthInv, Decided, SaidReady, DecidedPlaces, HealthPlaces,
       WonPlaces, ClaimedPlaces, ConnectedPlaces, Places
  <2> QED
    BY <2>3, <2>4, <2>5, <2>6
<1>2. CASE /\ owner' = At("read_ack")
           /\ pipe' = [pipe EXCEPT !.out = Append(@, "Challenge")]
  <2>1. /\ owner.at = "write_challenge"
        /\ owner' = At("read_ack") /\ pipe' = [pipe EXCEPT !.out = Append(@, "Challenge")]
        /\ UNCHANGED <<server, io>>
        /\ UNCHANGED <<cancelling, client, exited, claim_over, window, durable, lapsed>>
    BY <1>2 DEF WriteChallenge, OwnerKeeps
  <2> USE DEF At
  <2>2. owner' \in Owners
    BY <1>2, <2>1, OwnerMoves DEF Places, DecidedPlaces, HealthPlaces, WonPlaces,
       ClaimedPlaces, ConnectedPlaces, Results, Undecided
  <2>3. pipe' \in Pipes
    BY <1>2, <2>1, OutWritten DEF Records
  <2>4. /\ pipe'.state = pipe.state /\ pipe'.client = pipe.client
         /\ pipe'.in = pipe.in /\ pipe'.open = pipe.open
         /\ \A r : Holds(pipe'.out, r) => Holds(pipe.out, r) \/ r = "Challenge"
    BY <1>2, <2>1, OutWritten DEF Records
  <2>5. HealthTypeOK'
    BY <1>2, <2>1, <2>2, <2>3
  <2>6. PipeInv'
    BY <1>2, <2>1, <2>4 DEF PipeInv, DecidedPlaces, HealthPlaces, WonPlaces,
       ClaimedPlaces, ConnectedPlaces, Places
  <2>7. OneShotInv'
    BY <1>2, <2>1, <2>4 DEF OneShotInv, Won, DecidedPlaces, HealthPlaces, WonPlaces,
       ClaimedPlaces, ConnectedPlaces, Places
  <2>8. HealthInv'
    BY <1>2, <2>1, <2>4 DEF HealthInv, Decided, SaidReady, DecidedPlaces,
       HealthPlaces, WonPlaces, ClaimedPlaces, ConnectedPlaces, Places
  <2> QED
    BY <2>5, <2>6, <2>7, <2>8
<1> QED
  BY <1>1, <1>2 DEF WriteChallenge

\* The acknowledgement leads to the one-shot, the deadline's close or a
\* refusal.
LEMMA ReadAcknowledgementOK ==
  ASSUME ExchangeInv, ReadAcknowledgement
  PROVE  ExchangeInv'
<1> USE CandidateAssumption DEF ExchangeInv, HealthTypeOK, ReadAcknowledgement, At,
      OwnerKeeps, Received, Taken
<1>1. owner' \in Owners
  BY OwnerMoves DEF Places, DecidedPlaces, HealthPlaces, WonPlaces, ClaimedPlaces,
     ConnectedPlaces, Results, Undecided
<1>2. pipe' \in Pipes
  BY PipeMoves, HoldsTail
<1>3. HealthTypeOK'
  BY <1>1, <1>2
<1>4. PipeInv'
  BY DEF PipeInv, DecidedPlaces, HealthPlaces, WonPlaces, ClaimedPlaces,
     ConnectedPlaces, Places
<1>5. OneShotInv'
  BY DEF OneShotInv, Won, DecidedPlaces, HealthPlaces, WonPlaces, ClaimedPlaces,
     ConnectedPlaces, Places, Undecided
<1>6. HealthInv'
  BY HoldsTail DEF HealthInv, Decided, DecidedPlaces, SaidReady, Owners, Pipes
<1> QED
  BY <1>3, <1>4, <1>5, <1>6

\* consume: the one-shot is won only where no cancel was flagged.
LEMMA ConsumeOK ==
  ASSUME ExchangeInv, consume
  PROVE  ExchangeInv'
<1> USE CandidateAssumption DEF ExchangeInv, HealthTypeOK
<1>1. CASE server.cancelled
  <2>1. /\ owner.at = "one_shot"
        /\ owner' = [At("closing") EXCEPT !.result = "ClaimCancelled"]
        /\ UNCHANGED <<server, io, pipe>>
        /\ UNCHANGED <<cancelling, client, exited, claim_over, window, durable, lapsed>>
    BY <1>1 DEF consume, OwnerKeeps
  <2> USE DEF At
  <2>2. owner' \in Owners
    BY <1>1, <2>1, OwnerMoves DEF Places, DecidedPlaces, HealthPlaces, WonPlaces,
       ClaimedPlaces, ConnectedPlaces, Results, Undecided
  <2>3. HealthTypeOK'
    BY <1>1, <2>1, <2>2
  <2>4. PipeInv'
    BY <1>1, <2>1 DEF PipeInv, DecidedPlaces, HealthPlaces, WonPlaces, ClaimedPlaces,
       ConnectedPlaces, Places
  <2>5. OneShotInv'
    BY <1>1, <2>1 DEF OneShotInv, Won, DecidedPlaces, HealthPlaces, WonPlaces,
       ClaimedPlaces, ConnectedPlaces, Places, Undecided
  <2>6. HealthInv'
    BY <1>1, <2>1 DEF HealthInv, Decided, SaidReady, DecidedPlaces, HealthPlaces,
       WonPlaces, ClaimedPlaces, ConnectedPlaces, Places
  <2> QED
    BY <2>3, <2>4, <2>5, <2>6
<1>2. CASE ~server.cancelled
  <2>1. /\ owner.at = "one_shot" /\ owner' = At("write_receipt")
        /\ server' = [server EXCEPT !.consumed = TRUE]
        /\ UNCHANGED <<io, pipe>>
        /\ UNCHANGED <<cancelling, client, exited, claim_over, window, durable, lapsed>>
    BY <1>2 DEF consume, OwnerKeeps
  <2> USE DEF At
  <2>2. owner' \in Owners
    BY <1>2, <2>1, OwnerMoves DEF Places, DecidedPlaces, HealthPlaces, WonPlaces,
       ClaimedPlaces, ConnectedPlaces, Results, Undecided
  <2>3. server' \in Servers
    BY <1>2, <2>1, ServerMoves
  <2>4. HealthTypeOK'
    BY <1>2, <2>1, <2>2, <2>3
  <2>5. PipeInv'
    BY <1>2, <2>1 DEF PipeInv, DecidedPlaces, HealthPlaces, WonPlaces, ClaimedPlaces,
       ConnectedPlaces, Places
  <2>6. OneShotInv'
    BY <1>2, <2>1 DEF OneShotInv, Won
  <2>7. HealthInv'
    BY <1>2, <2>1 DEF HealthInv, Decided, SaidReady, DecidedPlaces, HealthPlaces,
       WonPlaces, ClaimedPlaces, ConnectedPlaces, Places
  <2> QED
    BY <2>4, <2>5, <2>6, <2>7
<1> QED
  BY <1>1, <1>2

\* The only writer of a receipt holds the won one-shot and serves the
\* candidate.
LEMMA WriteReceiptOK ==
  ASSUME ExchangeInv, WriteReceipt
  PROVE  ExchangeInv'
<1> USE CandidateAssumption DEF ExchangeInv, HealthTypeOK
<1>1. CASE owner' = At("Accepted") /\ pipe' = [pipe EXCEPT !.out = Append(@, "Receipt")]
  <2>1. /\ owner.at = "write_receipt" /\ owner' = At("Accepted")
        /\ pipe' = [pipe EXCEPT !.out = Append(@, "Receipt")]
        /\ UNCHANGED <<server, io>>
        /\ UNCHANGED <<cancelling, client, exited, claim_over, window, durable, lapsed>>
    BY <1>1 DEF WriteReceipt, OwnerKeeps
  <2> USE DEF At, Result
  <2>2. owner' \in Owners
    BY <1>1, <2>1, OwnerMoves DEF Places, DecidedPlaces, HealthPlaces, WonPlaces,
       ClaimedPlaces, ConnectedPlaces, Results, Undecided
  <2>3. pipe' \in Pipes
    BY <1>1, <2>1, OutWritten DEF Records
  <2>4. /\ pipe'.state = pipe.state /\ pipe'.client = pipe.client
         /\ pipe'.in = pipe.in /\ pipe'.open = pipe.open
         /\ \A r : Holds(pipe'.out, r) => Holds(pipe.out, r) \/ r = "Receipt"
    BY <1>1, <2>1, OutWritten DEF Records
  <2>5. HealthTypeOK'
    BY <1>1, <2>1, <2>2, <2>3
  <2>6. PipeInv'
    BY <1>1, <2>1, <2>4 DEF PipeInv, DecidedPlaces, HealthPlaces, WonPlaces,
       ClaimedPlaces, ConnectedPlaces, Places
  <2>7. OneShotInv'
    BY <1>1, <2>1, <2>4 DEF OneShotInv, PipeInv, Won, DecidedPlaces, HealthPlaces,
       WonPlaces, ClaimedPlaces, ConnectedPlaces, Places
  <2>8. HealthInv'
    BY <1>1, <2>1, <2>4 DEF HealthInv, Decided, SaidReady, DecidedPlaces,
       HealthPlaces, WonPlaces, ClaimedPlaces, ConnectedPlaces, Places
  <2> QED
    BY <2>5, <2>6, <2>7, <2>8
<1>2. CASE owner' = Result("Record") /\ pipe' = Closed
  <2>1. /\ owner.at = "write_receipt" /\ owner' = Result("Record") /\ pipe' = Closed
        /\ UNCHANGED <<server, io>>
        /\ UNCHANGED <<cancelling, client, exited, claim_over, window, durable, lapsed>>
    BY <1>2 DEF WriteReceipt, OwnerKeeps
  <2> USE DEF At, Result
  <2>2. owner' \in Owners
    <3>1. "done" \in Places /\ "Record" \in Results
      BY DEF Places, Results
    <3> QED
      BY <2>1, <3>1, OwnerMoves
  <2>3. pipe' \in Pipes
    BY <1>2, <2>1, FixedPipes
  <2>4. HealthTypeOK'
    BY <1>2, <2>1, <2>2, <2>3
  <2>5. PipeInv'
    BY <1>2, <2>1 DEF PipeInv, Listening, Closed, DecidedPlaces, HealthPlaces,
       WonPlaces, ClaimedPlaces, ConnectedPlaces, Places
  <2>6. OneShotInv'
    BY <1>2, <2>1, HoldsNothing DEF OneShotInv, Won, Listening, Closed,
       DecidedPlaces, HealthPlaces, WonPlaces, ClaimedPlaces, ConnectedPlaces, Places
  <2>7. HealthInv'
    BY <1>2, <2>1, HoldsNothing DEF HealthInv, Decided, DecidedPlaces, Listening,
       Closed
  <2> QED
    BY <2>4, <2>5, <2>6, <2>7
<1> QED
  BY <1>1, <1>2 DEF WriteReceipt

-----------------------------------------------------------------------------
(* The owner's health sequence keeps the invariant.                        *)

\* read_boot and read_ready: the Ready the owner reads, the candidate sent.
LEMMA ReadHealthOK ==
  ASSUME ExchangeInv, ReadHealth
  PROVE  ExchangeInv'
<1> USE CandidateAssumption DEF ExchangeInv, HealthTypeOK, ReadHealth, At, Received,
      EndOfFile, Taken, Ended, HealthKeeps
<1>1. owner' \in Owners
  BY OwnerMoves DEF Places, DecidedPlaces, HealthPlaces, WonPlaces, ClaimedPlaces,
     ConnectedPlaces, Results, Undecided
<1>2. pipe' \in Pipes
  BY PipeMoves, HoldsTail
<1>3. HealthTypeOK'
  BY <1>1, <1>2
<1>4. PipeInv'
  BY DEF PipeInv, DecidedPlaces, HealthPlaces, WonPlaces, ClaimedPlaces,
     ConnectedPlaces, Places
<1>5. OneShotInv'
  BY DEF OneShotInv, Won, DecidedPlaces, HealthPlaces, WonPlaces, ClaimedPlaces,
     ConnectedPlaces, Places
<1>6. HealthInv'
  BY HoldsTail DEF HealthInv, Decided, PipeInv, SaidReady, Pipes, DecidedPlaces,
     HealthPlaces, WonPlaces, ClaimedPlaces, ConnectedPlaces, Places
<1> QED
  BY <1>3, <1>4, <1>5, <1>6

\* begin: the observation starts on a window that is not over.
LEMMA BeginOK ==
  ASSUME ExchangeInv, begin
  PROVE  ExchangeInv'
<1> USE CandidateAssumption DEF ExchangeInv, HealthTypeOK, begin, At, Ended, HealthKeeps
<1>1. owner' \in Owners
  BY OwnerMoves DEF Places, DecidedPlaces, HealthPlaces, WonPlaces, ClaimedPlaces,
     ConnectedPlaces, Results, Undecided
<1>2. HealthTypeOK'
  BY <1>1
<1>3. PipeInv'
  BY DEF PipeInv, DecidedPlaces, HealthPlaces, WonPlaces, ClaimedPlaces,
     ConnectedPlaces, Places
<1>4. OneShotInv'
  BY DEF OneShotInv, Won, DecidedPlaces, HealthPlaces, WonPlaces, ClaimedPlaces,
     ConnectedPlaces, Places
<1>5. HealthInv'
  BY DEF HealthInv, Decided, DecidedPlaces, SaidReady
<1> QED
  BY <1>2, <1>3, <1>4, <1>5

\* after_read: a close that an issued read watched is the end of file it returns,
\* and only an elapsed read goes on to the launch check.
LEMMA AfterReadOK ==
  ASSUME ExchangeInv, after_read
  PROVE  ExchangeInv'
<1> USE CandidateAssumption DEF ExchangeInv, HealthTypeOK, after_read, At, EndOfFile,
      Returned, Completed, Taken, Ended, HealthKeeps
<1>1. owner' \in Owners
  BY OwnerMoves DEF Places, DecidedPlaces, HealthPlaces, WonPlaces, ClaimedPlaces,
     ConnectedPlaces, Results, Undecided
<1>2. pipe' \in Pipes
  BY PipeMoves, HoldsTail
<1>3. HealthTypeOK'
  BY <1>1, <1>2
<1>4. PipeInv'
  BY DEF PipeInv, DecidedPlaces, HealthPlaces, WonPlaces, ClaimedPlaces,
     ConnectedPlaces, Places
<1>5. OneShotInv'
  BY DEF OneShotInv, Won, DecidedPlaces, HealthPlaces, WonPlaces, ClaimedPlaces,
     ConnectedPlaces, Places
<1>6. HealthInv'
  BY DEF HealthInv, Decided, PipeInv, SaidReady, DecidedPlaces, HealthPlaces,
     WonPlaces, ClaimedPlaces, ConnectedPlaces, Places
<1> QED
  BY <1>3, <1>4, <1>5, <1>6

\* after_launch_check turns an observed window into health or an end.
LEMMA AfterLaunchCheckOK ==
  ASSUME ExchangeInv, after_launch_check
  PROVE  ExchangeInv'
<1> USE CandidateAssumption DEF ExchangeInv, HealthTypeOK, after_launch_check, At, Ended,
      HealthKeeps
<1>1. owner' \in Owners
  BY OwnerMoves DEF Places, DecidedPlaces, HealthPlaces, WonPlaces, ClaimedPlaces,
     ConnectedPlaces, Results, Undecided
<1>2. HealthTypeOK'
  BY <1>1
<1>3. PipeInv'
  BY DEF PipeInv, DecidedPlaces, HealthPlaces, WonPlaces, ClaimedPlaces,
     ConnectedPlaces, Places
<1>4. OneShotInv'
  BY DEF OneShotInv, Won, DecidedPlaces, HealthPlaces, WonPlaces, ClaimedPlaces,
     ConnectedPlaces, Places
<1>5. HealthInv'
  BY DEF HealthInv, Decided, DecidedPlaces, SaidReady
<1> QED
  BY <1>2, <1>3, <1>4, <1>5

\* HealthAccepted becomes durable only of a candidate found healthy.
LEMMA RecordHealthOK ==
  ASSUME ExchangeInv, RecordHealth
  PROVE  ExchangeInv'
<1> USE CandidateAssumption DEF ExchangeInv, HealthTypeOK, RecordHealth, At, HealthKeeps
<1>1. owner' \in Owners
  <2>1. {"Recorded", "Unrecorded"} \subseteq Places
    BY DEF Places, ConnectedPlaces, ClaimedPlaces, WonPlaces, HealthPlaces, DecidedPlaces
  <2>2. owner' = At("Recorded") \/ owner' = At("Unrecorded")
    OBVIOUS
  <2> QED
    BY <2>1, <2>2 DEF Owners
<1>2. HealthTypeOK'
  BY <1>1
<1>3. PipeInv'
  BY DEF PipeInv, Owners, DecidedPlaces, HealthPlaces, WonPlaces, ClaimedPlaces,
     ConnectedPlaces
<1>4. OneShotInv'
  BY DEF OneShotInv, Won, Owners, DecidedPlaces, HealthPlaces, WonPlaces
<1>5. HealthInv'
  BY DEF HealthInv, Decided, DecidedPlaces, SaidReady, Owners
<1> QED
  BY <1>2, <1>3, <1>4, <1>5

\* accept: the acceptance is sent only once it is durable.
LEMMA AcceptOK ==
  ASSUME ExchangeInv, accept
  PROVE  ExchangeInv'
<1> USE CandidateAssumption DEF ExchangeInv, HealthTypeOK
<1>1. CASE owner' = At("close_wait") /\ pipe' = [pipe EXCEPT !.out = Append(@, "Accepted")]
  <2>1. /\ owner.at = "Recorded" /\ owner' = At("close_wait")
        /\ pipe' = [pipe EXCEPT !.out = Append(@, "Accepted")]
        /\ UNCHANGED <<io, window, durable>>
        /\ UNCHANGED <<server, cancelling, client, exited, claim_over, lapsed>>
    BY <1>1 DEF accept, HealthKeeps
  <2> USE DEF At, Result
  <2>2. owner' \in Owners
    BY <1>1, <2>1, OwnerMoves DEF Places, DecidedPlaces, HealthPlaces, WonPlaces,
       ClaimedPlaces, ConnectedPlaces, Results, Undecided
  <2>3. pipe' \in Pipes
    BY <1>1, <2>1, OutWritten DEF Records
  <2>4. /\ pipe'.state = pipe.state /\ pipe'.client = pipe.client
         /\ pipe'.in = pipe.in /\ pipe'.open = pipe.open
         /\ \A r : Holds(pipe'.out, r) => Holds(pipe.out, r) \/ r = "Accepted"
    BY <1>1, <2>1, OutWritten DEF Records
  <2>5. HealthTypeOK'
    BY <1>1, <2>1, <2>2, <2>3
  <2>6. PipeInv'
    BY <1>1, <2>1, <2>4 DEF PipeInv, DecidedPlaces, HealthPlaces, WonPlaces,
       ClaimedPlaces, ConnectedPlaces, Places
  <2>7. OneShotInv'
    BY <1>1, <2>1, <2>4 DEF OneShotInv, Won, DecidedPlaces, HealthPlaces, WonPlaces,
       ClaimedPlaces, ConnectedPlaces, Places
  <2>8. HealthInv'
    BY <1>1, <2>1, <2>4 DEF HealthInv, Decided, DecidedPlaces, SaidReady
  <2> QED
    BY <2>5, <2>6, <2>7, <2>8
<1>2. CASE owner' = Result("WriteFailed") /\ pipe' \in Dropped
  <2>1. /\ owner.at = "Recorded"
        /\ owner' = Result("WriteFailed") /\ pipe' \in Dropped
        /\ UNCHANGED <<io, window, durable>>
        /\ UNCHANGED <<server, cancelling, client, exited, claim_over, lapsed>>
    BY <1>2 DEF accept, HealthKeeps
  <2> USE DEF At, Result
  <2>2. owner' \in Owners
    <3>1. "done" \in Places /\ "WriteFailed" \in Results
      BY DEF Places, Results
    <3> QED
      BY <2>1, <3>1, OwnerMoves
  <2>3. pipe' \in Pipes
    BY <1>2, <2>1, PipeDrops
  <2>4. /\ pipe'.state \in {"closed", "draining"}
         /\ \/ /\ pipe'.client = None /\ pipe'.in = <<>> /\ pipe'.out = <<>> /\ ~pipe'.open
            \/ /\ pipe'.client = pipe.client /\ pipe'.in = pipe.in
               /\ pipe'.out = pipe.out /\ pipe'.open = pipe.open
    BY <1>2, <2>1, PipeDrops
  <2>5. HealthTypeOK'
    BY <1>2, <2>1, <2>2, <2>3
  <2>6. PipeInv'
    BY <1>2, <2>1, <2>4 DEF PipeInv, DecidedPlaces, HealthPlaces, WonPlaces,
       ClaimedPlaces, ConnectedPlaces, Places
  <2>7. OneShotInv'
    BY <1>2, <2>1, <2>4, HoldsNothing DEF OneShotInv, Won, DecidedPlaces,
       HealthPlaces, WonPlaces, ClaimedPlaces, ConnectedPlaces, Places
  <2>8. HealthInv'
    BY <1>2, <2>1, <2>4 DEF HealthInv, Decided, DecidedPlaces, SaidReady
  <2> QED
    BY <2>5, <2>6, <2>7, <2>8
<1> QED
  BY <1>1, <1>2 DEF accept

\* The end of the close wait decides nothing.
LEMMA CloseWaitEndsOK ==
  ASSUME ExchangeInv, CloseWaitEnds
  PROVE  ExchangeInv'
<1> USE CandidateAssumption DEF ExchangeInv, HealthTypeOK, CloseWaitEnds, Result,
      EndOfFile, HealthKeeps
<1>1. owner' \in Owners
  BY OwnerMoves DEF Places, DecidedPlaces, HealthPlaces, WonPlaces, ClaimedPlaces,
     ConnectedPlaces, Results, Undecided
<1>2. pipe' \in Pipes
  BY PipeDrops
<1>3. /\ pipe'.state \in {"closed", "draining"}
       /\ \/ /\ pipe'.client = None /\ pipe'.in = <<>> /\ pipe'.out = <<>> /\ ~pipe'.open
          \/ /\ pipe'.client = pipe.client /\ pipe'.in = pipe.in
             /\ pipe'.out = pipe.out /\ pipe'.open = pipe.open
  BY PipeDrops
<1>4. HealthTypeOK'
  BY <1>1, <1>2
<1>5. PipeInv'
  BY <1>3 DEF PipeInv, DecidedPlaces, HealthPlaces, WonPlaces, ClaimedPlaces,
     ConnectedPlaces, Places
<1>6. OneShotInv'
  BY <1>3, HoldsNothing DEF OneShotInv, Won, DecidedPlaces, HealthPlaces, WonPlaces,
     ClaimedPlaces, ConnectedPlaces, Places
<1>7. HealthInv'
  BY <1>3, HoldsNothing DEF HealthInv, Decided, DecidedPlaces, SaidReady
<1> QED
  BY <1>4, <1>5, <1>6, <1>7

\* roll_back tells the candidate of a rollback and of nothing else.
LEMMA RollBackOK ==
  ASSUME ExchangeInv, roll_back
  PROVE  ExchangeInv'
<1> USE CandidateAssumption DEF ExchangeInv, HealthTypeOK
<1>1. /\ owner.at \in {"Ended", "Unrecorded"}
      /\ owner' = Result("RolledBack")
      /\ UNCHANGED <<io, window, durable>>
      /\ UNCHANGED <<server, cancelling, client, exited, claim_over, lapsed>>
  BY DEF roll_back, HealthKeeps
<1>2. /\ pipe' \in Pipes /\ pipe'.state \in {"closed", "draining"}
      /\ \/ /\ pipe'.client = None /\ pipe'.in = <<>> /\ pipe'.out = <<>> /\ ~pipe'.open
         \/ /\ pipe'.client = pipe.client /\ pipe'.in = pipe.in /\ pipe'.open = pipe.open
            /\ \A r : Holds(pipe'.out, r) => Holds(pipe.out, r) \/ r = "RolledBack"
  <2>1. CASE pipe' \in Dropped
    BY <2>1, PipeDrops
  <2>2. CASE pipe' = [pipe EXCEPT !.out = Append(@, "RolledBack"), !.state = "draining"]
    <3>1. /\ Append(pipe.out, "RolledBack") \in Seq(Records)
          /\ \A r : Holds(Append(pipe.out, "RolledBack"), r) =>
                      Holds(pipe.out, r) \/ r = "RolledBack"
      BY PipeMoves, HoldsAppended DEF Records
    <3>2. /\ pipe' \in Pipes /\ pipe'.state = "draining" /\ pipe'.client = pipe.client
          /\ pipe'.in = pipe.in /\ pipe'.open = pipe.open
          /\ pipe'.out = Append(pipe.out, "RolledBack")
      BY <2>2, <3>1 DEF Pipes
    <3> QED
      BY <3>1, <3>2
  <2> QED
    BY <2>1, <2>2 DEF roll_back
<1>3. owner' \in Owners
  BY <1>1, OwnerMoves DEF Result, Places, Results
<1>4. HealthTypeOK'
  BY <1>1, <1>2, <1>3
<1>5. PipeInv'
  BY <1>1, <1>2 DEF PipeInv, Result, DecidedPlaces, HealthPlaces, WonPlaces,
     ClaimedPlaces, ConnectedPlaces, Places
<1>6. OneShotInv'
  BY <1>1, <1>2, HoldsNothing DEF OneShotInv, Won, Result, DecidedPlaces,
     HealthPlaces, WonPlaces, ClaimedPlaces, ConnectedPlaces, Places
<1>7. HealthInv'
  BY <1>1, <1>2, HoldsNothing DEF HealthInv, Decided, DecidedPlaces, SaidReady,
     Result
<1> QED
  BY <1>4, <1>5, <1>6, <1>7

\* The owner's death leaves at most what it had written.
LEMMA OwnerLostOK ==
  ASSUME ExchangeInv, OwnerLost
  PROVE  ExchangeInv'
<1> USE CandidateAssumption DEF ExchangeInv, HealthTypeOK, OwnerLost, Result, HealthKeeps
<1>1. owner' \in Owners
  BY OwnerMoves DEF Places, DecidedPlaces, HealthPlaces, WonPlaces, ClaimedPlaces,
     ConnectedPlaces, Results, Undecided
<1>2. pipe' \in Pipes
  BY PipeDrops
<1>3. /\ pipe'.state \in {"closed", "draining"}
       /\ \/ /\ pipe'.client = None /\ pipe'.in = <<>> /\ pipe'.out = <<>> /\ ~pipe'.open
          \/ /\ pipe'.client = pipe.client /\ pipe'.in = pipe.in
             /\ pipe'.out = pipe.out /\ pipe'.open = pipe.open
  BY PipeDrops
<1>4. HealthTypeOK'
  BY <1>1, <1>2
<1>5. PipeInv'
  BY <1>3 DEF PipeInv, DecidedPlaces, HealthPlaces, WonPlaces, ClaimedPlaces,
     ConnectedPlaces, Places
<1>6. OneShotInv'
  BY <1>3, HoldsNothing DEF OneShotInv, Won, DecidedPlaces, HealthPlaces, WonPlaces,
     ClaimedPlaces, ConnectedPlaces, Places, Undecided
<1>7. HealthInv'
  BY <1>3, HoldsNothing DEF HealthInv, Decided, DecidedPlaces, SaidReady
<1> QED
  BY <1>4, <1>5, <1>6, <1>7

-----------------------------------------------------------------------------
(* The clients keep the invariant.                                         *)

\* A client opens only a listening instance, whose queues are empty.
LEMMA OpenOK ==
  ASSUME ExchangeInv, NEW c \in Clients, Open(c)
  PROVE  ExchangeInv'
<1> USE CandidateAssumption DEF ExchangeInv, HealthTypeOK, Open, ClientKeeps
<1>1. pipe' \in Pipes
  BY PipeMoves
<1>2. HealthTypeOK'
  BY <1>1 DEF ClientPlaces
<1>3. PipeInv'
  BY DEF PipeInv, DecidedPlaces, HealthPlaces, WonPlaces, ClaimedPlaces,
     ConnectedPlaces, Places
<1>4. OneShotInv'
  BY HoldsNothing DEF OneShotInv, PipeInv, Won, Admitted, Reported
<1>5. HealthInv'
  BY HoldsNothing DEF HealthInv, PipeInv, Decided, SaidReady, DecidedPlaces,
     HealthPlaces, WonPlaces, ClaimedPlaces, ConnectedPlaces
<1> QED
  BY <1>2, <1>3, <1>4, <1>5

\* A Ready is sent only by a client that is then in ReportedReady.
LEMMA SendOK ==
  ASSUME ExchangeInv, NEW c \in Clients, Send(c)
  PROVE  ExchangeInv'
<1> USE CandidateAssumption DEF ExchangeInv, HealthTypeOK
<1>1. PICK s \in Sends(c) :
        /\ pipe' = [pipe EXCEPT !.in = Append(@, s[1])]
        /\ client' = [client EXCEPT ![c] = s[2]]
  BY DEF Send
<1>2. /\ pipe.client = c /\ pipe.open /\ pipe.state = "connected"
      /\ UNCHANGED <<owner, server, cancelling, io, exited, claim_over, window, durable, lapsed>>
  BY DEF Send, Writable, Serves, ClientKeeps
<1>3. /\ s[1] \in Records /\ s[2] \in ClientPlaces
      /\ client[c] # "out" /\ s[2] \notin {"out", "armed"}
      /\ s[2] \in Admitted => client[c] \in Admitted
      /\ s[1] = "Ready" => s[2] = "ReportedReady"
      /\ client[c] \notin {"ReportedReady", "armed", "unarmed"}
  BY DEF Sends, Records, ClientPlaces, Admitted, Reported
<1>4. /\ pipe' \in Pipes /\ pipe'.state = pipe.state /\ pipe'.client = pipe.client
      /\ pipe'.out = pipe.out /\ pipe'.open = pipe.open
      /\ \A r : Holds(pipe'.in, r) => Holds(pipe.in, r) \/ r = s[1]
  BY <1>1, <1>3, InWritten
<1>5. /\ client' \in [Clients -> ClientPlaces] /\ client'[c] = s[2]
      /\ \A d \in Clients : d # c => client'[d] = client[d]
  BY <1>1, <1>3
<1>6. HealthTypeOK'
  BY <1>2, <1>4, <1>5
<1>7. PipeInv'
  BY <1>2, <1>3, <1>4, <1>5 DEF PipeInv
<1>8. OneShotInv'
  BY <1>2, <1>3, <1>4, <1>5 DEF OneShotInv, Won
<1>9. HealthInv'
  BY <1>2, <1>3, <1>4, <1>5 DEF HealthInv, Decided, DecidedPlaces, SaidReady
<1> QED
  BY <1>6, <1>7, <1>8, <1>9

\* claim: a receipt in the queue is the candidate's, from a won one-shot.
LEMMA ClaimStepOK ==
  ASSUME ExchangeInv, NEW c \in Clients, ClaimStep(c)
  PROVE  ExchangeInv'
<1> USE CandidateAssumption DEF ExchangeInv, HealthTypeOK
<1>1. /\ pipe.client = c /\ pipe.open /\ pipe.out \in Seq(Records) /\ pipe.out # <<>>
      /\ UNCHANGED <<owner, server, cancelling, io, exited, claim_over, window, durable, lapsed>>
  BY PipeMoves DEF ClaimStep, Offered, Serves, ClientKeeps
<1>2. /\ Tail(pipe.out) \in Seq(Records)
      /\ \A r : Holds(Tail(pipe.out), r) => Holds(pipe.out, r)
      /\ Holds(pipe.out, Head(pipe.out))
  BY <1>1, HoldsTail
<1>3. CASE /\ client[c] = "claimed"
           /\ client' = [client EXCEPT ![c] = "acknowledged"]
           /\ pipe' = [pipe EXCEPT !.out = Tail(@), !.in = Append(@, "Acknowledgement")]
  <2>1. /\ Append(pipe.in, "Acknowledgement") \in Seq(Records)
        /\ \A r : Holds(Append(pipe.in, "Acknowledgement"), r) =>
                    Holds(pipe.in, r) \/ r = "Acknowledgement"
    BY PipeMoves, HoldsAppended DEF Records
  <2>2. /\ pipe' \in Pipes /\ pipe'.state = pipe.state /\ pipe'.client = pipe.client
        /\ pipe'.open = pipe.open /\ pipe'.out = Tail(pipe.out)
        /\ pipe'.in = Append(pipe.in, "Acknowledgement")
    BY <1>2, <1>3, <2>1 DEF Pipes
  <2>3. /\ client' \in [Clients -> ClientPlaces] /\ client'[c] = "acknowledged"
        /\ \A d \in Clients : d # c => client'[d] = client[d]
    BY <1>3 DEF ClientPlaces
  <2>4. pipe.state # "listening"
    BY <1>1 DEF PipeInv
  <2>5. HealthTypeOK' /\ PipeInv'
    BY <1>1, <1>3, <2>2, <2>3, <2>4 DEF PipeInv
  <2>6. OneShotInv'
    BY <1>1, <1>2, <1>3, <2>1, <2>2, <2>3 DEF OneShotInv, Won, Admitted, Reported
  <2>7. HealthInv'
    BY <1>1, <1>2, <1>3, <2>1, <2>2, <2>3 DEF HealthInv, Decided, DecidedPlaces,
       SaidReady
  <2> QED
    BY <2>5, <2>6, <2>7
<1>4. CASE /\ client[c] = "acknowledged" /\ Head(pipe.out) = "Receipt"
           /\ client' = [client EXCEPT ![c] = "Accepted"]
           /\ pipe' = [pipe EXCEPT !.out = Tail(@)]
  <2>1. c = Candidate /\ Won
    BY <1>1, <1>2, <1>4 DEF OneShotInv
  <2>2. /\ pipe' \in Pipes /\ pipe'.state = pipe.state /\ pipe'.client = pipe.client
        /\ pipe'.open = pipe.open /\ pipe'.out = Tail(pipe.out) /\ pipe'.in = pipe.in
    BY <1>2, <1>4 DEF Pipes
  <2>3. /\ client' \in [Clients -> ClientPlaces] /\ client'[c] = "Accepted"
        /\ \A d \in Clients : d # c => client'[d] = client[d]
    BY <1>4 DEF ClientPlaces, Admitted
  <2>4. pipe.state # "listening"
    BY <1>1 DEF PipeInv
  <2>5. HealthTypeOK' /\ PipeInv'
    BY <1>1, <1>4, <2>2, <2>3, <2>4 DEF PipeInv
  <2>6. OneShotInv'
    BY <1>1, <1>2, <2>1, <2>2, <2>3 DEF OneShotInv, Won
  <2>7. HealthInv'
    BY <1>1, <1>2, <1>4, <2>1, <2>2, <2>3 DEF HealthInv, Decided, DecidedPlaces,
       SaidReady
  <2> QED
    BY <2>5, <2>6, <2>7
<1> QED
  BY <1>3, <1>4 DEF ClaimStep, Offered

\* await_health_accepted arms the gate only on an Accepted record, which was
\* durable.
LEMMA AwaitHealthAcceptedOK ==
  ASSUME ExchangeInv, await_health_accepted
  PROVE  ExchangeInv'
<1> USE CandidateAssumption DEF ExchangeInv, HealthTypeOK, await_health_accepted, Offered,
      Serves, ClientKeeps, ClosedBy, Lapse, Reported
<1>1. pipe' \in Pipes
  BY PipeMoves
<1>2. HealthTypeOK'
  BY <1>1 DEF ClientPlaces, Admitted, Reported
<1>3. PipeInv'
  BY DEF PipeInv
<1>4. OneShotInv'
  BY DEF OneShotInv, Won, Admitted, Reported
<1>5. HealthInv'
  BY HoldsTail DEF HealthInv, Decided, DecidedPlaces, SaidReady, Pipes
<1> QED
  BY <1>2, <1>3, <1>4, <1>5

\* A client that gives up is admitted no more; the candidate does not come
\* back.
LEMMA GiveUpOK ==
  ASSUME ExchangeInv, NEW c \in Clients, GiveUp(c)
  PROVE  ExchangeInv'
<1> USE CandidateAssumption DEF ExchangeInv, HealthTypeOK, GiveUp, ClientKeeps, ClosedBy,
      Lapse, Serves
<1>1. pipe' \in Pipes
  BY PipeMoves
<1>2. HealthTypeOK'
  BY <1>1 DEF ClientPlaces
<1>3. PipeInv'
  BY DEF PipeInv
<1>4. OneShotInv'
  BY DEF OneShotInv, Won, Admitted, Reported
<1>5. HealthInv'
  BY DEF HealthInv, Decided, DecidedPlaces, SaidReady
<1> QED
  BY <1>2, <1>3, <1>4, <1>5

\* An exit closes the client's end and nothing else.
LEMMA ExitOK ==
  ASSUME ExchangeInv, NEW c \in Clients, Exit(c)
  PROVE  ExchangeInv'
<1> USE CandidateAssumption DEF ExchangeInv, HealthTypeOK, Exit, ClosedBy, Lapse, Serves
<1>1. pipe' \in Pipes
  BY PipeMoves
<1>2. HealthTypeOK'
  BY <1>1
<1>3. PipeInv'
  BY DEF PipeInv
<1>4. OneShotInv'
  BY DEF OneShotInv, Won
<1>5. HealthInv'
  BY DEF HealthInv, Decided, DecidedPlaces, SaidReady
<1> QED
  BY <1>2, <1>3, <1>4, <1>5

-----------------------------------------------------------------------------
(* Time keeps the invariant.                                               *)

\* The claim deadline decides nothing by itself.
LEMMA ClaimDeadlineOK ==
  ASSUME ExchangeInv, ClaimDeadline
  PROVE  ExchangeInv'
<1> USE CandidateAssumption DEF ExchangeInv, HealthTypeOK, ClaimDeadline
<1>1. HealthTypeOK'
  OBVIOUS
<1>2. PipeInv'
  BY DEF PipeInv
<1>3. OneShotInv'
  BY DEF OneShotInv, Won
<1>4. HealthInv'
  BY DEF HealthInv, Decided, DecidedPlaces, SaidReady
<1> QED
  BY <1>1, <1>2, <1>3, <1>4

\* The window ends only after it began to run.
LEMMA WindowEndsOK ==
  ASSUME ExchangeInv, WindowEnds
  PROVE  ExchangeInv'
<1> USE CandidateAssumption DEF ExchangeInv, HealthTypeOK, WindowEnds
<1>1. HealthTypeOK'
  OBVIOUS
<1>2. PipeInv'
  BY DEF PipeInv
<1>3. OneShotInv'
  BY DEF OneShotInv, Won
<1>4. HealthInv'
  BY DEF HealthInv, Decided, DecidedPlaces, SaidReady
<1> QED
  BY <1>1, <1>2, <1>3, <1>4

-----------------------------------------------------------------------------
(* The theorems.                                                           *)

\* The endpoint is armed, nobody has opened it and nothing has been decided.
LEMMA InitOK == Init => ExchangeInv
<1> SUFFICES ASSUME Init PROVE ExchangeInv
  OBVIOUS
<1> USE CandidateAssumption DEF Init
<1>1. owner \in Owners /\ server \in Servers
  BY DEF Owners, Servers, Places, Results
<1>2. pipe \in Pipes
  BY FixedPipes
<1>3. HealthTypeOK
  BY <1>1, <1>2 DEF HealthTypeOK, ClientPlaces
<1>4. PipeInv
  BY DEF PipeInv, Listening, DecidedPlaces, HealthPlaces, WonPlaces, ClaimedPlaces,
     ConnectedPlaces
<1>5. OneShotInv
  BY HoldsNothing DEF OneShotInv, Listening, DecidedPlaces, HealthPlaces, WonPlaces,
     Admitted, Reported
<1>6. HealthInv
  BY HoldsNothing DEF HealthInv, Decided, DecidedPlaces, Listening
<1> QED
  BY <1>3, <1>4, <1>5, <1>6 DEF ExchangeInv

\* A step that changes nothing keeps the invariant.
LEMMA StutterOK ==
  ASSUME ExchangeInv, UNCHANGED vars
  PROVE  ExchangeInv'
  BY DEF ExchangeInv, HealthTypeOK, PipeInv, OneShotInv, HealthInv, Decided,
     DecidedPlaces, SaidReady, Won, vars

\* Every step of the owner, a client, the canceller or the clock keeps the
\* invariant.
LEMMA NextOK == ExchangeInv /\ [Next]_vars => ExchangeInv'
<1> SUFFICES ASSUME ExchangeInv, [Next]_vars PROVE ExchangeInv'
  OBVIOUS
<1>1. CASE OwnerStep
  BY <1>1, LoopTopOK, ConnectOK, AcceptWakesOK, CloseTerminalOK, RearmOK, ExchangeOK,
     IssueReadOK, ReadElapsesOK, ReadClaimOK, WriteChallengeOK, ReadAcknowledgementOK, ConsumeOK,
     WriteReceiptOK, ReadHealthOK, BeginOK, AfterReadOK, AfterLaunchCheckOK,
     RecordHealthOK, AcceptOK, CloseWaitEndsOK, RollBackOK DEF OwnerStep
<1>2. CASE OwnerLost
  BY <1>2, OwnerLostOK
<1>3. CASE Cancel
  BY <1>3, CancelFlagOK, CancelSignalOK, CancelAbortOK DEF Cancel
<1>4. CASE await_health_accepted
  BY <1>4, AwaitHealthAcceptedOK
<1>5. ASSUME NEW c \in Clients, ClientStep(c) PROVE ExchangeInv'
  BY <1>5, OpenOK, SendOK, ClaimStepOK, GiveUpOK, ExitOK DEF ClientStep
<1>6. CASE ClaimDeadline \/ WindowEnds
  BY <1>6, ClaimDeadlineOK, WindowEndsOK
<1>7. CASE UNCHANGED vars
  BY <1>7, StutterOK
<1> QED
  BY <1>1, <1>2, <1>3, <1>4, <1>5, <1>6, <1>7 DEF Next

\* The exchange keeps its invariant, whatever processes open the endpoint.
THEOREM ExchangeHolds == Spec => []ExchangeInv
  BY InitOK, NextOK, PTL DEF Spec

\* CancelOrOneShot: after a cancel acted no claimant was or will be told that it
\* was accepted and the wait ends undecided; nobody but the launched candidate
\* is ever admitted.
THEOREM CancelExcludesOneShot == Spec => []CancelOrOneShot
<1>1. ExchangeInv => CancelOrOneShot
  BY DEF ExchangeInv, OneShotInv, CancelOrOneShot, Won, Holds, Undecided
<1> QED
  BY <1>1, ExchangeHolds, PTL

\* CommitIsEarned: an armed candidate is one whose HealthAccepted is durable, and
\* health is accepted only of a candidate that reported Ready, ran to the end of
\* the window and never closed its end under a read of the window.
THEOREM CommitEarned == Spec => []CommitIsEarned
<1>1. ExchangeInv => CommitIsEarned
  BY DEF ExchangeInv, HealthInv, Decided, DecidedPlaces, CommitIsEarned, SaidReady
<1> QED
  BY <1>1, ExchangeHolds, PTL
=============================================================================
