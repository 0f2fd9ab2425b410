---------------------------- MODULE AuthSession ----------------------------
(***************************************************************************)
(* Authentication calls of the macOS host session (auth_router.rs and its  *)
(* callers in app_session.rs): the reader that admits a call, the worker   *)
(* that owns the broker and publishes its answers, the retirement of the   *)
(* generation that called, and the end of the session by lifecycle Quit.   *)
(*                                                                         *)
(* A ticket is one of the session's reservations, free again once its last *)
(* owner has dropped it.  Every hold of the transition guard is one step,  *)
(* except the reader's admission, which holds the guard from the           *)
(* reservation to the send while others run without the guard.  Attempt    *)
(* numbers are never used again, so a call only knows whether the          *)
(* generation it came from is still the current one.                       *)
(***************************************************************************)
EXTENDS AuthBroker, Sequences, SequencesExt

CONSTANT CallCapacity  \* AUTH_CALL_CAPACITY

ASSUME CapacityAssumption == CallCapacity \in Nat \ {0}

VARIABLES
  router,      \* [current, stage]: is there a generation, and how far Quit is
  calls,       \* per ticket, the call it was last reserved for: [current, answers]
  pending,     \* tickets that are owed an answer
  queue,       \* the worker's bounded channel
  tail,        \* accepting is its negation
  completion,  \* [drained, asked]
  reader,      \* [up, ticket]: the current generation's reader
  worker,      \* the worker thread's locals
  operations,  \* the worker's physical operations: [lease, callers]
  broker,
  ui           \* [quits, fatal, stopped]: the window loop and its owner

vars == <<router, calls, pending, queue, tail, completion, reader, worker,
          operations, broker, ui>>

Tickets == 1..CallCapacity

Init ==
  /\ router = [current |-> TRUE, stage |-> "running"]
  /\ calls = [t \in Tickets |-> [current |-> FALSE, answers |-> 1]]
  /\ pending = {}
  /\ queue = << >>
  /\ tail = FALSE
  /\ completion = [drained |-> FALSE, asked |-> FALSE]
  /\ reader = [up |-> TRUE, ticket |-> None]
  /\ worker = [pc |-> "top", todo |-> {}, outbox |-> {}, polled |-> None, progress |-> None,
               work |-> None, started |-> FALSE, failure |-> FALSE, fault |-> FALSE]
  /\ operations = << >>
  /\ broker = NewBroker
  /\ ui = [quits |-> 0, fatal |-> FALSE, stopped |-> FALSE]

Running == router.stage = "running"

TransitionFree == reader.ticket = None

CurrentCalls == {t \in Tickets : calls[t].current}

(* The tickets some owner still holds: a ticket counts until its last clone is dropped. *)
Used ==
  (pending \union ToSet(queue) \union worker.outbox \union {worker.work, reader.ticket}
    \union UNION {{operations[id].lease} \union operations[id].callers :
                    id \in DOMAIN operations}) \ {None}

-----------------------------------------------------------------------------
(* The reader *)

(* A reader that fails while its generation is current ends the session. *)
ReaderFails ==
  /\ reader' = [up |-> FALSE, ticket |-> None]
  /\ ui' = [ui EXCEPT !.fatal = TRUE]

ReaderAtCall == reader.up /\ TransitionFree /\ Running

(* At capacity the reader answers the call itself and nothing changes. *)
reserve ==
  \E t \in Tickets \ Used :
    /\ ~tail
    /\ \A u \in 1..(t - 1) : u \in Used
    /\ calls' = [calls EXCEPT ![t] = [current |-> TRUE, answers |-> 0]]
    /\ pending' = pending \union {t}
    /\ reader' = [reader EXCEPT !.ticket = t]
    /\ UNCHANGED ui

(* A duplicate correlation, a payload that does not decode, or a session that *)
(* no longer accepts.                                                         *)
Rejected ==
  /\ ReaderFails
  /\ UNCHANGED <<calls, pending>>

Call ==
  /\ ReaderAtCall
  /\ reserve \/ Rejected
  /\ UNCHANGED <<router, queue, tail, completion, worker, operations, broker>>

(* The channel is as deep as the budget, so it is never full; a worker that has *)
(* returned may or may not have dropped its receiver yet.                       *)
Send ==
  /\ reader.ticket # None
  /\ \/ /\ worker.pc # "ended"
        /\ queue' = Append(queue, reader.ticket)
        /\ reader' = [reader EXCEPT !.ticket = None]
        /\ UNCHANGED <<pending, ui>>
     \/ /\ worker.pc = "ended"
        /\ reader' = [reader EXCEPT !.ticket = None]
        /\ UNCHANGED <<pending, queue, ui>>
     \/ /\ worker.pc = "ended"
        /\ pending' = pending \ {reader.ticket}
        /\ ReaderFails
        /\ UNCHANGED queue
  /\ UNCHANGED <<router, calls, tail, completion, worker, operations, broker>>

-----------------------------------------------------------------------------
(* The worker *)

(* record_failure closes the session and reports its first failure. *)
record_failure(w) ==
  /\ tail' = TRUE
  /\ worker' = [w EXCEPT !.failure = TRUE]
  /\ ui' = [ui EXCEPT !.fatal = @ \/ ~w.failure]

NoFailure(w) == worker' = w /\ UNCHANGED <<tail, ui>>

(* The callers of the operations an event names are handed to publication. *)
Emitted(w, ids) == [w EXCEPT !.outbox = @ \union UNION {operations[id].callers : id \in ids}]

WithoutCallers(ids) ==
  [id \in DOMAIN operations |->
     IF id \in ids THEN [operations[id] EXCEPT !.callers = {}] ELSE operations[id]]

LoopTop ==
  LET stopped == stop_for_host_tail(broker)
      stops == tail /\ ~worker.started
      told == IF stops THEN stopped.emit ELSE {}
  IN /\ worker.pc = "top"
     /\ worker' = Emitted([worker EXCEPT !.pc = "poll", !.started = @ \/ tail,
                                         !.todo = DOMAIN operations], told)
     /\ broker' = IF stops THEN stopped.broker ELSE broker
     /\ operations' = WithoutCallers(told)
     /\ UNCHANGED <<router, calls, pending, queue, tail, completion, reader, ui>>

(* After the publication of a poll's events: only Drained releases an operation *)
(* and its lease; otherwise the callers that are not owed an answer detach.     *)
Polled(ops, w, owed) ==
  CASE w.outbox # {} \/ w.polled = None -> ops
    [] w.outbox = {} /\ w.polled # None /\ w.progress = "Drained" ->
         [id \in DOMAIN ops \ {w.polled} |-> ops[id]]
    [] OTHER -> [ops EXCEPT ![w.polled].callers = @ \intersect owed]

(* With nothing left to publish the worker polls the next operation, or, after *)
(* the answer to a request, starts over.                                       *)
Continued(w) ==
  IF w.outbox # {} THEN [w EXCEPT !.pc = "publish"]
  ELSE [w EXCEPT !.pc = IF w.polled = None THEN "top" ELSE "poll",
                 !.polled = None, !.progress = None]

PollOf(id) ==
  /\ worker.pc = "poll"
  /\ id \in worker.todo
  /\ \E out \in poll(broker, id) :
       LET w == Emitted([worker EXCEPT !.todo = @ \ {id}, !.polled = id,
                                       !.progress = out.progress,
                                       !.fault = @ \/ out.progress = "MissingTokenOwner"],
                        out.emit)
       IN /\ broker' = out.broker
          /\ operations' = Polled(WithoutCallers(out.emit), w, pending)
          /\ IF out.progress \in {"HostFault", "MissingTokenOwner"}
             THEN record_failure(Continued(w))
             ELSE NoFailure(Continued(w))
  /\ UNCHANGED <<router, calls, pending, queue, completion, reader>>

Poll == \E id \in worker.todo : PollOf(id)

Answered(told) ==
  [t \in Tickets |-> IF t \in told THEN [calls[t] EXCEPT !.answers = @ + 1] ELSE calls[t]]

(* A call of a retired generation is owed nothing more: it counts as answered. *)
Retired(call) ==
  [call EXCEPT !.current = FALSE, !.answers = IF @ = 0 THEN 1 ELSE @]

(* retire_current_generation_locked, after the answers to some of its calls. *)
RetiresCurrent(told) ==
  /\ calls' = [t \in Tickets |-> Retired(Answered(told)[t])]
  /\ pending' = pending \ CurrentCalls
  /\ router' = [router EXCEPT !.current = FALSE]
  /\ reader' = [reader EXCEPT !.up = FALSE]

Owed(t) == calls[t].current /\ Running /\ t \in pending

(* The answer goes to the caller's own generation, if it still is current and  *)
(* owed it.  A write that fails retires the generation, and the owner that is  *)
(* told of it may refuse.                                                      *)
publish_auth(t) ==
  LET w == Continued([worker EXCEPT !.outbox = @ \ {t}])
  IN \/ /\ ~Owed(t)
        /\ NoFailure(w)
        /\ UNCHANGED <<router, calls, pending, reader>>
     \/ /\ Owed(t)
        /\ calls' = Answered({t})
        /\ pending' = pending \ {t}
        /\ NoFailure(w)
        /\ UNCHANGED <<router, reader>>
     \/ /\ Owed(t)
        /\ RetiresCurrent({})
        /\ NoFailure(w) \/ record_failure(w)

Publish ==
  /\ worker.pc = "publish"
  /\ TransitionFree
  /\ \E t \in worker.outbox :
       /\ publish_auth(t)
       /\ operations' = Polled(operations, [worker EXCEPT !.outbox = @ \ {t}], pending')
  /\ UNCHANGED <<queue, completion, broker>>

Receive ==
  /\ worker.pc = "poll"
  /\ worker.todo = {}
  /\ ~(worker.started /\ DOMAIN operations = {})
  /\ \/ /\ queue = << >>
        /\ worker' = [worker EXCEPT !.pc = "top"]
        /\ UNCHANGED queue
     \/ /\ queue # << >>
        /\ worker' = [worker EXCEPT !.pc = "enter", !.work = Head(queue)]
        /\ queue' = Tail(queue)
  /\ UNCHANGED <<router, calls, pending, tail, completion, reader, operations, broker, ui>>

Admissible(t) ==
  ~worker.started /\ ~tail /\ Running /\ calls[t].current /\ t \in pending

dispatch_result(t, out) ==
  LET w == [worker EXCEPT !.pc = "top", !.work = None]
      known == out.operation \in DOMAIN operations
      sound == (out.state = "Leader") # known
      entry == [lease |-> t, callers |-> {t}]
  IN CASE out.state = "Ready" ->
            /\ NoFailure([w EXCEPT !.pc = "publish", !.outbox = {t}])
            /\ UNCHANGED operations
       [] out.state = "HostFault" ->
            /\ record_failure(w)
            /\ UNCHANGED operations
       [] out.state = "MissingTokenOwner" ->
            /\ record_failure([w EXCEPT !.fault = TRUE])
            /\ UNCHANGED operations
       [] OTHER ->
            /\ operations' = [id \in DOMAIN operations \union {out.operation} |->
                 CASE id # out.operation -> operations[id]
                   [] id = out.operation /\ known ->
                        [operations[id] EXCEPT !.callers = @ \union {t}]
                   [] OTHER -> entry]
            /\ IF sound THEN NoFailure(w) ELSE record_failure([w EXCEPT !.fault = TRUE])

enter_auth_request ==
  LET t == worker.work
  IN /\ worker.pc = "enter"
     /\ TransitionFree
     /\ \/ /\ ~Admissible(t)
           /\ pending' = pending \ {t}
           /\ NoFailure([worker EXCEPT !.pc = "top", !.work = None])
           /\ UNCHANGED <<operations, broker>>
        \/ /\ Admissible(t)
           /\ \E request \in Requests : \E out \in handle_request(broker, request) :
                /\ broker' = out.broker
                /\ dispatch_result(t, out)
           /\ UNCHANGED pending
     /\ UNCHANGED <<router, calls, queue, completion, reader>>

(* finish_worker_tail, up to the drained queue. *)
DrainQueue ==
  /\ worker.pc = "poll"
  /\ worker.todo = {}
  /\ worker.started
  /\ DOMAIN operations = {}
  /\ pending' = pending \ ToSet(queue)
  /\ queue' = << >>
  /\ worker' = [worker EXCEPT !.pc = "finish"]
  /\ UNCHANGED <<router, calls, tail, completion, reader, operations, broker, ui>>

physically_drained_Unasked ==
  /\ completion' = [completion EXCEPT !.drained = TRUE]
  /\ UNCHANGED ui

physically_drained ==
  /\ completion' = [completion EXCEPT !.drained = TRUE]
  /\ ui' = [ui EXCEPT !.quits = IF completion.asked THEN @ + 1 ELSE @]

(* A lease that is left is an error that nobody is told of. *)
finish_worker_tail ==
  LET left == Used \ pending
      clean == left = {} /\ ~worker.failure
  IN /\ worker.pc = "finish"
     /\ pending' = {}
     /\ worker' = [worker EXCEPT !.pc = "ended", !.fault = @ \/ (left # {} /\ ~worker.failure)]
     /\ IF clean THEN physically_drained ELSE UNCHANGED <<completion, ui>>
     /\ UNCHANGED <<router, calls, queue, tail, reader, operations, broker>>

-----------------------------------------------------------------------------
(* Generations *)

(* answer_pending_calls_locked comes first: an answer is attempted, and the link *)
(* may not carry it.                                                             *)
retire_generation ==
  /\ TransitionFree
  /\ Running
  /\ router.current
  /\ RetiresCurrent(pending \intersect CurrentCalls)
  /\ UNCHANGED <<queue, tail, completion, worker, operations, broker, ui>>

install_generation ==
  /\ TransitionFree
  /\ Running
  /\ ~router.current
  /\ ~ui.stopped
  /\ router' = [router EXCEPT !.current = TRUE]
  /\ reader' = [up |-> TRUE, ticket |-> None]
  /\ UNCHANGED <<calls, pending, queue, tail, completion, worker, operations, broker, ui>>

-----------------------------------------------------------------------------
(* Lifecycle Quit, on the reader's thread, and the window loop *)

(* reserve_guarded stops the readers before Quit is accepted. *)
ReserveQuit ==
  /\ reader.up
  /\ TransitionFree
  /\ Running
  /\ router.current
  /\ router' = [router EXCEPT !.stage = "reserved"]
  /\ reader' = [reader EXCEPT !.up = FALSE]
  /\ UNCHANGED <<calls, pending, queue, tail, completion, worker, operations, broker, ui>>

(* The primary owner prepares; a failure ends the reader with Fatal. *)
AcceptQuit ==
  /\ router.stage = "reserved"
  /\ \/ /\ router' = [router EXCEPT !.stage = "accepted"]
        /\ UNCHANGED ui
     \/ /\ router' = [router EXCEPT !.stage = "failed"]
        /\ ui' = [ui EXCEPT !.fatal = @ \/ router.current]
  /\ UNCHANGED <<calls, pending, queue, tail, completion, reader, worker, operations, broker>>

retire_auth_for_quit ==
  /\ router.stage = "accepted"
  /\ calls' = Answered(pending \intersect CurrentCalls)
  /\ pending' = pending \ CurrentCalls
  /\ tail' = TRUE
  /\ router' = [router EXCEPT !.stage = "retired"]
  /\ UNCHANGED <<queue, completion, reader, worker, operations, broker, ui>>

quit_after_drain_AtOnce ==
  /\ tail' = TRUE
  /\ completion' = [completion EXCEPT !.asked = TRUE]
  /\ ui' = [ui EXCEPT !.quits = @ + 1]

quit_after_drain ==
  /\ tail' = TRUE
  /\ completion' = [completion EXCEPT !.asked = TRUE]
  /\ ui' = [ui EXCEPT !.quits = IF completion.drained /\ ~completion.asked THEN @ + 1 ELSE @]

(* finish_quit_link_and_tail and finish_tail. *)
FinishQuit ==
  /\ router.stage = "retired"
  /\ router' = [current |-> FALSE, stage |-> "closed"]
  /\ \/ /\ router.current
        /\ quit_after_drain
     \/ /\ router.current
        /\ ui' = [ui EXCEPT !.fatal = TRUE]
        /\ UNCHANGED <<tail, completion>>
     \/ /\ ~router.current
        /\ UNCHANGED <<tail, completion, ui>>
  /\ UNCHANGED <<calls, pending, queue, reader, worker, operations, broker>>

(* Every turn of the window loop looks at the session; it takes no guard. *)
prepare_auth_presentation_drive ==
  /\ ~ui.stopped
  /\ ~Running
  /\ ~tail
  /\ tail' = TRUE
  /\ UNCHANGED <<router, calls, pending, queue, completion, reader, worker, operations, broker, ui>>

(* The loop has returned, and its owner tears the session down. *)
stop_and_join ==
  /\ ui.quits > 0 \/ ui.fatal
  /\ ~ui.stopped
  /\ TransitionFree
  /\ tail' = TRUE
  /\ RetiresCurrent({})
  /\ ui' = [ui EXCEPT !.stopped = TRUE]
  /\ UNCHANGED <<queue, completion, worker, operations, broker>>

-----------------------------------------------------------------------------
WorkerStep ==
  \/ LoopTop \/ Poll \/ Publish \/ Receive \/ enter_auth_request
  \/ DrainQueue \/ finish_worker_tail

QuitStep == AcceptQuit \/ retire_auth_for_quit \/ FinishQuit

Next ==
  \/ Call \/ Send \/ WorkerStep
  \/ retire_generation \/ install_generation
  \/ ReserveQuit \/ QuitStep
  \/ prepare_auth_presentation_drive \/ stop_and_join

Spec == Init /\ [][Next]_vars

(* A job changes: its operation ended, or one of its deadlines passed. *)
PhysicalProgress == Poll /\ broker' # broker

(* Threads run, the window loop obeys its commands, and a job that is polled    *)
(* again and again ends or runs into a deadline; nothing is assumed of the role *)
(* or of cleanup that was not proved by its deadline.                           *)
Fairness ==
  /\ WF_vars(Send)
  /\ WF_vars(WorkerStep)
  /\ WF_vars(QuitStep \/ stop_and_join)
  /\ SF_vars(PhysicalProgress)

FairSpec == Spec /\ Fairness

-----------------------------------------------------------------------------
(* Properties *)

(* The faults auth_router.rs and controller.rs keep an error path for cannot    *)
(* happen: a flight always has a job to join, a leader is always new, leases    *)
(* never outlive the drain of a session that did not fail, and every physical   *)
(* job is polled by an operation that holds its lease.                          *)
NoOwnerFault ==
  /\ ~worker.fault
  /\ DOMAIN broker.jobs \subseteq DOMAIN operations

(* An account's refresh credential is used by one exchange at a time, an        *)
(* exchange never carries a credential that the provider has already replaced,  *)
(* and no flight waits for a refresh that nobody runs.                          *)
SingleExchange ==
  LET exchanges == {j \in DOMAIN broker.jobs :
                      broker.jobs[j].kind = "token" /\ broker.jobs[j].phase = "http"}
  IN /\ \A j, k \in exchanges :
          /\ broker.jobs[j].credential = "current"
          /\ j # k => broker.jobs[j].account # broker.jobs[k].account
     /\ ~broker.stopping =>
          \A a \in 1..MaxAccounts :
            broker.accounts[a].refresh_owner \in exchanges \union {None}

(* Across joins, retirements and late completions a call is answered at most    *)
(* once; while the session runs, a call of the current generation that has no   *)
(* answer is still pending and somebody still carries its ticket.               *)
CallersAccountedFor ==
  LET carried == ToSet(queue) \union worker.outbox \union {worker.work, reader.ticket}
                   \union UNION {operations[id].callers : id \in DOMAIN operations}
  IN \A t \in Tickets :
       /\ calls[t].answers <= 1
       /\ (calls[t].answers = 0 /\ calls[t].current /\ Running /\ ~tail) => t \in pending \intersect carried

(* The window loop is told to quit once, after Quit has asked for it and the    *)
(* worker has drained every physical operation, in whichever order they come.   *)
QuitAfterDrain ==
  /\ ui.quits <= 1
  /\ ui.quits = 1 => completion.asked /\ worker.pc = "ended" /\ DOMAIN broker.jobs = {}

(* Once Quit has asked, the loop is told to quit or that the session failed.    *)
QuitReachesLoop == completion.asked ~> (ui.quits > 0 \/ ui.fatal)

=============================================================================
