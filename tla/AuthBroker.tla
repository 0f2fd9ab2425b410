----------------------------- MODULE AuthBroker -----------------------------
(***************************************************************************)
(* The native side of authentication: the account registry with its        *)
(* single-flight refreshes (keld-native/src/auth/registry.rs) and the      *)
(* controller that owns the physical operations, a sign-in prompt or an    *)
(* HTTP exchange (controller.rs).  One thread calls it, so a broker is a   *)
(* value; an operation that depends on the provider, the browser or the    *)
(* clock is the set of its outcomes.                                       *)
(*                                                                         *)
(* Responses are abstracted to "the operation has been answered", so the   *)
(* account's cached token is only a request that may be answered at once.  *)
(* A flight is named by the operation that owns it.  The names of what is  *)
(* gone are used again: a model has no bound on the requests it serves.    *)
(***************************************************************************)
EXTENDS Naturals, FiniteSets

CONSTANTS
  Scopes,       \* canonical scope sets of a token request
  MaxAccounts   \* bound: accounts that are signed in at once

ASSUME BrokerAssumption == Scopes # {} /\ MaxAccounts \in Nat

None == 0  \* no operation, no account

Begin == [kind |-> "begin"]

TokenOf(account, scope) == [kind |-> "token", account |-> account, scope |-> scope]

Requests == {Begin} \union {TokenOf(a, s) : a \in 1..MaxAccounts, s \in Scopes}

NoFlights == [s \in Scopes |-> None]

(* jobs: the operations that are physically alive. *)
NewBroker ==
  [accounts |-> [a \in 1..MaxAccounts |->
                   [live |-> FALSE, refresh |-> FALSE, flights |-> NoFlights,
                    refresh_owner |-> None]],
   jobs |-> << >>, stopping |-> FALSE]

Resolves(b, account) == b.accounts[account].live

(* A name that no job, flight or owner has. *)
next_id(b) ==
  LET named == DOMAIN b.jobs \union
               UNION {{acct.refresh_owner} \union {acct.flights[s] : s \in Scopes} :
                        acct \in {b.accounts[a] : a \in 1..MaxAccounts}}
  IN CHOOSE id \in 1..(Cardinality(named) + 1) :
       id \notin named /\ \A n \in 1..(id - 1) : n \in named

-----------------------------------------------------------------------------
(* registry.rs *)

(* The scope under which an operation's flight is admitted, as a set. *)
current_key(acct, id) == {s \in Scopes : acct.flights[s] = id}

(* The owner of the refresh is the one flight in phase Active. *)
remove_flight(acct, id) ==
  [acct EXCEPT !.flights = [s \in Scopes |-> IF @[s] = id THEN None ELSE @[s]],
               !.refresh_owner = IF @ = id THEN None ELSE @]

(* The accounts a completed sign-in may become. *)
Unregistered(b) ==
  {a \in 1..MaxAccounts : ~b.accounts[a].live /\ \A j \in DOMAIN b.jobs : b.jobs[j].account # a}

(* A provider may give no refresh credential. *)
register_completed_begin(b, a, refreshable) ==
  [b EXCEPT !.accounts[a] = [live |-> TRUE, refresh |-> refreshable, flights |-> NoFlights,
                             refresh_owner |-> None]]

abandon_KeepsFlight(b, id) ==
  LET a == b.jobs[id].account
      known == Resolves(b, a) /\ current_key(b.accounts[a], id) # {}
  IN [broker |-> b, emit |-> IF known THEN {id} ELSE {}]

(* abandon: the flight goes, whoever owns the refresh; no event if it is gone already. *)
abandon(b, id) ==
  LET a == b.jobs[id].account
      known == Resolves(b, a) /\ current_key(b.accounts[a], id) # {}
  IN [broker |-> IF known THEN [b EXCEPT !.accounts[a] = remove_flight(@, id)] ELSE b,
      emit   |-> IF known THEN {id} ELSE {}]

(* The flight of a job is still admitted. *)
Flying(b, id) ==
  LET a == b.jobs[id].account
  IN ~b.stopping /\ Resolves(b, a) /\ current_key(b.accounts[a], id) # {}

OwnsRefresh(b, id) == Flying(b, id) /\ b.accounts[b.jobs[id].account].refresh_owner = id

(* A reply with a new refresh credential replaces the old one, also for whoever *)
(* else is using it.                                                            *)
finish_success(b, id, rotated) ==
  LET a == b.jobs[id].account
      done == [b EXCEPT
                 !.accounts[a] = remove_flight(@, id),
                 !.jobs = [j \in DOMAIN @ |->
                    IF rotated /\ @[j].account = a /\ @[j].credential = "current"
                    THEN [@[j] EXCEPT !.credential = "replaced"] ELSE @[j]]]
  IN IF OwnsRefresh(b, id) THEN [broker |-> done, emit |-> {id}]
                           ELSE [broker |-> b, emit |-> {}]

finish_failure_AnswersOwner(b, id, invalid_grant) ==
  LET a == b.jobs[id].account
  IN CASE ~OwnsRefresh(b, id) -> [broker |-> b, emit |-> {}]
       [] OwnsRefresh(b, id) /\ invalid_grant ->
            [broker |-> [b EXCEPT !.accounts[a].live = FALSE,
                                  !.accounts[a].flights = NoFlights,
                                  !.accounts[a].refresh_owner = None],
             emit |-> {id}]
       [] OTHER -> [broker |-> [b EXCEPT !.accounts[a] = remove_flight(@, id)],
                    emit |-> {id}]

(* invalid_grant evicts the account and answers all its flights at once. *)
finish_failure(b, id, invalid_grant) ==
  LET a == b.jobs[id].account
      flights == {b.accounts[a].flights[s] : s \in Scopes} \ {None}
  IN CASE ~OwnsRefresh(b, id) -> [broker |-> b, emit |-> {}]
       [] OwnsRefresh(b, id) /\ invalid_grant ->
            [broker |-> [b EXCEPT !.accounts[a].live = FALSE,
                                  !.accounts[a].flights = NoFlights,
                                  !.accounts[a].refresh_owner = None],
             emit |-> flights]
       [] OTHER -> [broker |-> [b EXCEPT !.accounts[a] = remove_flight(@, id)],
                    emit |-> {id}]

-----------------------------------------------------------------------------
(* controller.rs: admission of a request *)

NewJob(kind, account, phase) ==
  [kind |-> kind, account |-> account, phase |-> phase, credential |-> "none",
   forced |-> FALSE, logical_done |-> FALSE]

WithJob(b, job) ==
  LET new == next_id(b)
  IN [b EXCEPT !.jobs = [id \in (DOMAIN @) \union {new} |-> IF id = new THEN job ELSE @[id]]]

Answer(b) == [broker |-> b, state |-> "Ready", operation |-> None]

(* A deadline the clock cannot hold, or a presentation that is gone. *)
Faulted(b) == [broker |-> b, state |-> "HostFault", operation |-> None]

(* Denied by the guard, misconfigured, stopping or not startable: answered at once. *)
begin_allowed(b) ==
  IF b.stopping THEN {Answer(b)}
  ELSE {Answer(b), Faulted(b)} \union
       {[broker |-> WithJob(b, NewJob("begin", None, "prompt")),
         state |-> "Leader", operation |-> next_id(b)]}

Leads(b, a, s) ==
  [broker |-> [WithJob(b, NewJob("token", a, "waiting")) EXCEPT
                 !.accounts[a].flights[s] = next_id(b)],
   state |-> "Leader", operation |-> next_id(b)]

(* A caller joins the job that owns the flight of its scope. *)
Joins(b, a, s) ==
  LET flight == b.accounts[a].flights[s]
      owned == flight \in DOMAIN b.jobs
  IN [broker |-> b, state |-> IF owned THEN "Follower" ELSE "MissingTokenOwner",
      operation |-> flight]

(* A cached token, a guard denial or a missing client answers at once. *)
token_allowed(b, a, s) ==
  CASE ~Resolves(b, a) \/ b.stopping -> {Answer(b)}
    [] OTHER ->
         {Answer(b)} \union
         {IF b.accounts[a].flights[s] = None THEN Leads(b, a, s) ELSE Joins(b, a, s)}

handle_request(b, request) ==
  IF request.kind = "begin" THEN begin_allowed(b)
  ELSE token_allowed(b, request.account, request.scope)

-----------------------------------------------------------------------------
(* controller.rs: poll *)

Stay(b) == {[broker |-> b, emit |-> {}, progress |-> "Pending"]}

(* Cleanup that is not proved closes admission and keeps the job. *)
Unproved(b) ==
  {[broker |-> [b EXCEPT !.stopping = TRUE], emit |-> {}, progress |-> "HostFault"]}

(* A started flight whose exchange is gone: MissingTokenOwner. *)
OwnerMissing(b) ==
  {[broker |-> [b EXCEPT !.stopping = TRUE], emit |-> {}, progress |-> "MissingTokenOwner"]}

Drained(b, id, emit) ==
  {[broker |-> [b EXCEPT !.jobs = [j \in DOMAIN @ \ {id} |-> @[j]]],
    emit |-> emit, progress |-> "Drained"]}

(* The job goes on with another physical operation. *)
Continues(b, id, phase, credential) ==
  Stay([b EXCEPT !.jobs[id].phase = phase, !.jobs[id].credential = credential])

(* The events of the flights a registry operation completed: one for each job *)
(* that owns such a flight and has not been answered.                         *)
emit_token(result, id) ==
  LET b == result.broker
      told == {f \in result.emit \intersect DOMAIN b.jobs : ~b.jobs[f].logical_done}
      marked == [b EXCEPT !.jobs = [j \in DOMAIN @ |->
                   IF j \in told THEN [@[j] EXCEPT !.logical_done = TRUE] ELSE @[j]]]
  IN Drained(marked, id, told)

(* The sign-in prompt is the system's or the browser's; a sign-in that succeeds *)
(* while admission is closed registers no account.                              *)
poll_begin(b, id) ==
  LET job == b.jobs[id]
      failed == Drained(b, id, {id})
      signedIn == IF b.stopping THEN {}
                  ELSE UNION {Drained(register_completed_begin(b, a, refreshable), id, {id}) :
                                a \in Unregistered(b), refreshable \in BOOLEAN}
  IN CASE job.forced -> Drained(b, id, IF job.logical_done THEN {} ELSE {id})
       [] ~job.forced /\ job.phase = "prompt" -> failed \union Continues(b, id, "http", "none")
       [] OTHER -> failed \union signedIn

try_start_Unserialized(b, id) ==
  LET a == b.jobs[id].account
      started == [b EXCEPT !.accounts[a].refresh_owner = id]
  IN CASE ~Flying(b, id) -> Drained(b, id, {})
       [] Flying(b, id) /\ ~b.accounts[a].refresh -> emit_token(abandon(b, id), id)
       [] OTHER -> emit_token(abandon(started, id), id)
                     \union Continues(started, id, "http", "current")

(* One refresh at a time for an account; the exchange may fail to start. *)
try_start(b, id) ==
  LET a == b.jobs[id].account
      refresher == b.accounts[a].refresh_owner
      started == [b EXCEPT !.accounts[a].refresh_owner = id]
  IN CASE ~Flying(b, id) -> Drained(b, id, {})
       [] Flying(b, id) /\ refresher = id -> OwnerMissing(b)
       [] Flying(b, id) /\ refresher \notin {id, None} -> Stay(b)
       [] Flying(b, id) /\ refresher = None /\ ~b.accounts[a].refresh ->
            emit_token(abandon(b, id), id)
       [] OTHER -> emit_token(abandon(started, id), id)
                     \union Continues(started, id, "http", "current")

(* A waiting job's deadline may have passed whenever it is polled. *)
start_token(b, id) ==
  IF b.jobs[id].forced THEN emit_token(abandon(b, id), id)
  ELSE emit_token(abandon(b, id), id) \union try_start(b, id)

finish_token_http(b, id) ==
  CASE b.jobs[id].logical_done -> Drained(b, id, {})
    [] ~b.jobs[id].logical_done /\ b.jobs[id].forced -> emit_token(abandon(b, id), id)
    [] OTHER ->
         UNION ({emit_token(finish_failure(b, id, invalid_grant), id) : invalid_grant \in BOOLEAN}
                \union {emit_token(finish_success(b, id, rotated), id) : rotated \in BOOLEAN})

(* A physical operation that has not ended is pending, and one whose cleanup *)
(* deadline has passed without proof is a fault, whatever else it could be.   *)
Physical(b, ended) == Stay(b) \union Unproved(b) \union ended

poll(b, id) ==
  CASE id \notin DOMAIN b.jobs -> Drained(b, id, {})
    [] id \in DOMAIN b.jobs /\ b.jobs[id].phase = "waiting" -> start_token(b, id)
    [] id \in DOMAIN b.jobs /\ b.jobs[id].kind = "begin" -> Physical(b, poll_begin(b, id))
    [] OTHER -> Physical(b, finish_token_http(b, id))

-----------------------------------------------------------------------------
(* controller.rs: the end of the host session *)

(* Every flight completes and every unanswered job is answered; the physical  *)
(* operations are cancelled and remain until a poll drains them.              *)
stop_for_host_tail(b) ==
  LET flights == UNION {{b.accounts[a].flights[s] : s \in Scopes} :
                          a \in {x \in 1..MaxAccounts : b.accounts[x].live}}
      told == {j \in DOMAIN b.jobs : /\ ~b.jobs[j].logical_done
                                     /\ b.jobs[j].kind = "begin" \/ j \in flights}
  IN [broker |-> [b EXCEPT
        !.stopping = TRUE,
        !.accounts = [a \in DOMAIN b.accounts |->
                        [b.accounts[a] EXCEPT !.flights = NoFlights, !.refresh_owner = None]],
        !.jobs = [j \in DOMAIN b.jobs |->
                    [b.jobs[j] EXCEPT !.forced = TRUE,
                                      !.logical_done = b.jobs[j].logical_done \/ j \in told]]],
      emit |-> told]

=============================================================================
