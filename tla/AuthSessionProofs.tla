-------------------------- MODULE AuthSessionProofs --------------------------
(***************************************************************************)
(* Proofs about the authentication calls of a session, for any set of      *)
(* scopes, any number of accounts and any call capacity.                   *)
(*                                                                         *)
(* The argument has two layers.  BrokerInv is about the broker alone:      *)
(* while it accepts work, every unanswered token job holds a flight, every *)
(* flight belongs to such a job, and the one exchange of an account is its *)
(* refresh owner.  Each operation of the broker keeps it (PollOK,          *)
(* HandleOK, StopOK), and those lemmas also say what an operation tells    *)
(* its caller.  AuthInv adds the session: the worker's operations are the  *)
(* broker's jobs, but for the one whose answers are being published; a     *)
(* ticket that is owed an answer has none, and is carried by somebody.     *)
(***************************************************************************)
EXTENDS AuthSession, FiniteSetTheorems, SequenceTheorems, WellFoundedInduction, TLAPS

-----------------------------------------------------------------------------
(* The broker's invariant.                                                 *)

Accounts == 1..MaxAccounts

Names == Nat \ {0}

AccountRecords ==
  [live : BOOLEAN, refresh : BOOLEAN, flights : [Scopes -> Nat], refresh_owner : Nat]

Jobs ==
  [kind : {"begin", "token"}, account : Nat, phase : {"prompt", "waiting", "http"},
   credential : {"none", "current", "replaced"}, forced : BOOLEAN, logical_done : BOOLEAN]

BrokerTypeOK(b) ==
  /\ b \in [accounts : [Accounts -> AccountRecords], jobs : [DOMAIN b.jobs -> Jobs],
            stopping : BOOLEAN]
  /\ DOMAIN b.jobs \subseteq Names
  /\ IsFiniteSet(DOMAIN b.jobs)

Exchange(job) == job.kind = "token" /\ job.phase = "http"

(* A sign-in has no account yet; only an exchange carries a credential.    *)
JobOK(job) ==
  /\ job.kind = "begin" => job.account = None /\ job.phase # "waiting"
  /\ job.kind = "token" => job.account \in Accounts /\ job.phase # "prompt"
  /\ job.credential = IF Exchange(job) THEN "current" ELSE "none"

HasFlight(b, a, j) == \E s \in Scopes : b.accounts[a].flights[s] = j

(* What holds of the jobs D while the broker accepts work.                 *)
AcceptingOK(b, D) ==
  /\ \A j \in D :
       /\ ~b.jobs[j].forced
       /\ b.jobs[j].logical_done => b.jobs[j].phase = "waiting"
       /\ b.jobs[j].kind = "token" /\ ~b.jobs[j].logical_done =>
            b.accounts[b.jobs[j].account].live /\ HasFlight(b, b.jobs[j].account, j)
       /\ Exchange(b.jobs[j]) => b.accounts[b.jobs[j].account].refresh_owner = j
  /\ \A a \in Accounts, s \in Scopes :
       b.accounts[a].flights[s] # None =>
         /\ b.accounts[a].flights[s] \in D
         /\ b.jobs[b.accounts[a].flights[s]].kind = "token"
         /\ b.jobs[b.accounts[a].flights[s]].account = a
         /\ ~b.jobs[b.accounts[a].flights[s]].logical_done
  /\ \A a \in Accounts :
       b.accounts[a].refresh_owner # None =>
         /\ b.accounts[a].refresh_owner \in D
         /\ Exchange(b.jobs[b.accounts[a].refresh_owner])
         /\ b.jobs[b.accounts[a].refresh_owner].account = a

OneExchange(b, D) ==
  \A j, k \in D :
    Exchange(b.jobs[j]) /\ Exchange(b.jobs[k]) /\ b.jobs[j].account = b.jobs[k].account => j = k

JobsOK(b, D) ==
  /\ \A j \in D : JobOK(b.jobs[j])
  /\ OneExchange(b, D)
  /\ ~b.stopping => AcceptingOK(b, D)

BrokerInv(b) == BrokerTypeOK(b) /\ JobsOK(b, DOMAIN b.jobs)

-----------------------------------------------------------------------------
(* The session's invariant.                                                *)

Operations == [lease : Tickets, callers : SUBSET Tickets]

Workers ==
  [pc : {"top", "poll", "publish", "enter", "finish", "ended"},
   todo : SUBSET Names, outbox : SUBSET Tickets, polled : Nat,
   progress : {None, "Pending", "Drained", "HostFault"}, work : Tickets \cup {None},
   started : BOOLEAN, failure : BOOLEAN, fault : BOOLEAN]

AuthTypeOK ==
  /\ router \in [current : BOOLEAN,
                 stage : {"running", "reserved", "accepted", "failed", "retired", "closed"}]
  /\ calls \in [Tickets -> [current : BOOLEAN, answers : Nat]]
  /\ pending \subseteq Tickets
  /\ queue \in Seq(Tickets)
  /\ tail \in BOOLEAN
  /\ completion \in [drained : BOOLEAN, asked : BOOLEAN]
  /\ reader \in [up : BOOLEAN, ticket : Tickets \cup {None}]
  /\ worker \in Workers
  /\ operations \in [DOMAIN operations -> Operations]
  /\ ui \in [quits : Nat, fatal : BOOLEAN, stopped : BOOLEAN]

(* The operation whose job is gone and whose answers are being published.  *)
Publishing ==
  IF worker.pc = "publish" /\ worker.polled # None /\ worker.progress = "Drained"
  THEN {worker.polled} ELSE {}

(* Physical operations and the worker that polls them.  While the session  *)
(* accepts calls, an operation that has been answered, or whose answers    *)
(* are published, has no callers.                                          *)
WorkerInv ==
  /\ DOMAIN operations = DOMAIN broker.jobs \cup Publishing
  /\ Publishing \cap DOMAIN broker.jobs = {}
  /\ worker.pc = "poll" => worker.todo \subseteq DOMAIN operations
  /\ worker.pc = "publish" /\ worker.polled # None =>
       /\ worker.polled \in DOMAIN operations
       /\ worker.todo \subseteq DOMAIN operations \ {worker.polled}
  /\ worker.pc # "publish" => worker.polled = None
  /\ worker.outbox # {} =>
       worker.pc = "publish" \/ (worker.pc = "poll" /\ tail /\ worker.todo # {})
  /\ worker.pc = "enter" <=> worker.work # None
  /\ worker.pc \in {"finish", "ended"} => worker.started /\ DOMAIN operations = {}
  /\ worker.started => tail
  /\ worker.failure => tail
  /\ broker.stopping => tail
  /\ ~worker.fault
  /\ ~tail => \A id \in DOMAIN operations :
       id \in Publishing \/ broker.jobs[id].logical_done => operations[id].callers = {}

(* After the end of admission only a failed session has calls on their way. *)
ReaderInv ==
  /\ reader.ticket # None => Running /\ (tail => worker.failure)
  /\ worker.pc \in {"finish", "ended"} /\ ~worker.failure => queue = << >>

Carried ==
  ToSet(queue) \union worker.outbox \union {worker.work, reader.ticket}
    \union UNION {operations[id].callers : id \in DOMAIN operations}

(* A call that is owed an answer has none and is current; while the session *)
(* accepts calls, one that has no answer is owed it and is carried.        *)
CallsInv ==
  /\ \A t \in pending : calls[t].current /\ calls[t].answers = 0
  /\ \A t \in Tickets : calls[t].answers <= 1
  /\ ~tail /\ Running => \A t \in Tickets :
       calls[t].answers = 0 /\ calls[t].current => t \in pending \intersect Carried

(* The loop is told to quit when the second of drain and request comes.    *)
QuitInv ==
  /\ completion.drained => worker.pc = "ended"
  /\ completion.asked => router.stage = "closed"
  /\ ui.quits = IF completion.drained /\ completion.asked THEN 1 ELSE 0

AuthInv ==
  /\ AuthTypeOK
  /\ BrokerInv(broker)
  /\ WorkerInv
  /\ ReaderInv
  /\ CallsInv
  /\ QuitInv

-----------------------------------------------------------------------------
(* The operations of the broker.                                           *)

\* A nonempty set of naturals has a least element.
LEMMA LeastElement ==
  ASSUME NEW T \in SUBSET Nat, T # {}
  PROVE  \E x \in T : \A y \in T : ~(y < x)
<1>1. \E x \in T : \A y \in T : ~(<<y, x>> \in OpToRel(<, Nat))
  BY NatLessThanWellFounded, WFMin
<1> QED
  BY <1>1 DEF OpToRel

\* next_id: while the broker accepts work, a new operation has a name that no
\* job has.
LEMMA FreshName ==
  ASSUME NEW b, BrokerInv(b), ~b.stopping
  PROVE  next_id(b) \in Names /\ next_id(b) \notin DOMAIN b.jobs
<1> DEFINE named == DOMAIN b.jobs \union
               UNION {{acct.refresh_owner} \union {acct.flights[s] : s \in Scopes} :
                        acct \in {b.accounts[a] : a \in 1..MaxAccounts}}
           n == Cardinality(named) + 1
           T == {id \in 1..n : id \notin named}
<1>1. named \subseteq DOMAIN b.jobs \union {0}
  BY DEF BrokerInv, JobsOK, AcceptingOK, Accounts, None
<1>2. IsFiniteSet(named) /\ Cardinality(named) \in Nat
  <2>1. IsFiniteSet(DOMAIN b.jobs \union {0})
    BY FS_AddElement DEF BrokerInv, BrokerTypeOK
  <2> QED
    BY <1>1, <2>1, FS_Subset, FS_CardinalityType
<1>3. T # {}
  <2> SUFFICES ASSUME T = {} PROVE FALSE
    OBVIOUS
  <2> HIDE DEF named
  <2>1. 1..n \subseteq named
    OBVIOUS
  <2>2. Cardinality(1..n) <= Cardinality(named)
    BY <1>2, <2>1, FS_Subset
  <2>3. Cardinality(1..n) = n
    BY <1>2, FS_Interval
  <2> QED
    BY <1>2, <2>2, <2>3
<1>4. PICK x \in T : \A y \in T : ~(y < x)
  <2> HIDE DEF named
  <2>1. T \in SUBSET Nat
    BY <1>2
  <2> HIDE DEF T
  <2> QED
    BY <1>3, <2>1, LeastElement
<1>5. x \in 1..n /\ x \notin named /\ \A m \in 1..(x - 1) : m \in named
  <2> HIDE DEF named
  <2> QED
    BY <1>2, <1>4
<1>6. next_id(b) \in 1..n /\ next_id(b) \notin named
  BY <1>5 DEF next_id
<1> QED
  BY <1>2, <1>6 DEF Names

\* A drained job leaves the rest of the broker as it is.
LEMMA DrainedEffect ==
  ASSUME NEW c, BrokerTypeOK(c), NEW id, NEW told, NEW out \in Drained(c, id, told)
  PROVE  /\ BrokerTypeOK(out.broker)
         /\ out.broker.accounts = c.accounts /\ out.broker.stopping = c.stopping
         /\ DOMAIN out.broker.jobs = DOMAIN c.jobs \ {id}
         /\ \A j \in DOMAIN c.jobs \ {id} : out.broker.jobs[j] = c.jobs[j]
         /\ out.emit = told /\ out.progress = "Drained"
<1> DEFINE left == [j \in DOMAIN c.jobs \ {id} |-> c.jobs[j]]
<1>1. /\ out.broker = [c EXCEPT !.jobs = left]
      /\ out.emit = told /\ out.progress = "Drained"
  BY DEF Drained
<1>2. DOMAIN left = DOMAIN c.jobs \ {id} /\ \A j \in DOMAIN c.jobs \ {id} : left[j] = c.jobs[j]
  OBVIOUS
<1>3. IsFiniteSet(DOMAIN left)
  BY <1>2, FS_RemoveElement DEF BrokerTypeOK
<1>4. left \in [DOMAIN left -> Jobs]
  BY DEF BrokerTypeOK
<1> HIDE DEF left
<1>5. /\ out.broker.accounts = c.accounts /\ out.broker.stopping = c.stopping
      /\ out.broker.jobs = left
  BY <1>1 DEF BrokerTypeOK
<1>6. BrokerTypeOK(out.broker)
  BY <1>1, <1>2, <1>3, <1>4, <1>5 DEF BrokerTypeOK
<1> QED
  BY <1>1, <1>2, <1>5, <1>6

\* What holds of the jobs that stay holds of the broker without the drained one.
LEMMA DrainedOK ==
  ASSUME NEW c, BrokerTypeOK(c), NEW id, NEW told, NEW out \in Drained(c, id, told),
         JobsOK(c, DOMAIN c.jobs \ {id})
  PROVE  BrokerInv(out.broker)
<1> DEFINE d == out.broker
<1>1. /\ BrokerTypeOK(d) /\ d.accounts = c.accounts /\ d.stopping = c.stopping
      /\ DOMAIN d.jobs = DOMAIN c.jobs \ {id}
      /\ \A j \in DOMAIN d.jobs : d.jobs[j] = c.jobs[j]
  BY DrainedEffect
<1> HIDE DEF d
<1>2. \A j \in DOMAIN d.jobs : JobOK(d.jobs[j])
  BY <1>1 DEF JobsOK
<1>3. OneExchange(d, DOMAIN d.jobs)
  BY <1>1 DEF JobsOK, OneExchange
<1>4. ASSUME ~d.stopping PROVE AcceptingOK(d, DOMAIN d.jobs)
  BY <1>1, <1>4 DEF JobsOK, AcceptingOK, HasFlight
<1>5. BrokerInv(d)
  BY <1>1, <1>2, <1>3, <1>4 DEF BrokerInv, JobsOK
<1> QED
  BY <1>5 DEF d

\* emit_token marks the jobs it answers and drains the polled one.
LEMMA EmitEffect ==
  ASSUME NEW c, BrokerTypeOK(c), NEW flights, NEW id,
         NEW out \in emit_token([broker |-> c, emit |-> flights], id)
  PROVE  /\ BrokerTypeOK(out.broker)
         /\ out.broker.accounts = c.accounts /\ out.broker.stopping = c.stopping
         /\ DOMAIN out.broker.jobs = DOMAIN c.jobs \ {id}
         /\ \A j \in DOMAIN c.jobs \ {id} :
              out.broker.jobs[j] = IF j \in out.emit
                                   THEN [c.jobs[j] EXCEPT !.logical_done = TRUE]
                                   ELSE c.jobs[j]
         /\ out.emit = {f \in flights \cap DOMAIN c.jobs : ~c.jobs[f].logical_done}
         /\ out.progress = "Drained"
<1> DEFINE told == {f \in flights \cap DOMAIN c.jobs : ~c.jobs[f].logical_done}
           after == [j \in DOMAIN c.jobs |->
                       IF j \in told THEN [c.jobs[j] EXCEPT !.logical_done = TRUE] ELSE c.jobs[j]]
           marked == [c EXCEPT !.jobs = after]
<1>1. out \in Drained(marked, id, told)
  BY DEF emit_token
<1>2. /\ DOMAIN after = DOMAIN c.jobs
      /\ \A j \in DOMAIN c.jobs :
           after[j] = IF j \in told THEN [c.jobs[j] EXCEPT !.logical_done = TRUE] ELSE c.jobs[j]
  OBVIOUS
<1>3. after \in [DOMAIN after -> Jobs]
  <2> SUFFICES ASSUME NEW j \in DOMAIN c.jobs
               PROVE  [c.jobs[j] EXCEPT !.logical_done = TRUE] \in Jobs /\ c.jobs[j] \in Jobs
    OBVIOUS
  <2> QED
    BY DEF BrokerTypeOK, Jobs
<1> HIDE DEF after, told
<1>4. /\ BrokerTypeOK(marked) /\ marked.accounts = c.accounts
      /\ marked.stopping = c.stopping /\ marked.jobs = after
  BY <1>2, <1>3 DEF BrokerTypeOK
<1> HIDE DEF marked
<1>5. /\ BrokerTypeOK(out.broker)
      /\ out.broker.accounts = c.accounts /\ out.broker.stopping = c.stopping
      /\ DOMAIN out.broker.jobs = DOMAIN c.jobs \ {id}
      /\ \A j \in DOMAIN c.jobs \ {id} : out.broker.jobs[j] = after[j]
      /\ out.emit = told /\ out.progress = "Drained"
  BY <1>1, <1>2, <1>4, DrainedEffect
<1> QED
  BY <1>2, <1>5 DEF told

-----------------------------------------------------------------------------
(* Polling a job.                                                          *)

(* What the worker may rely on when the poll of a job returns.             *)
Polls(b, id, out) ==
  /\ BrokerInv(out.broker)
  /\ out.progress \in {"Pending", "HostFault", "Drained"}
  /\ DOMAIN out.broker.jobs = IF out.progress = "Drained" THEN DOMAIN b.jobs \ {id}
                                                          ELSE DOMAIN b.jobs
  /\ out.emit \subseteq DOMAIN b.jobs
  /\ out.broker.stopping => b.stopping \/ out.progress = "HostFault"
  /\ b.stopping => out.broker.stopping
  /\ ~out.broker.stopping =>
       /\ \A j \in DOMAIN out.broker.jobs :
            out.broker.jobs[j].logical_done => b.jobs[j].logical_done \/ j \in out.emit
       /\ out.progress = "Drained" => id \in out.emit \/ b.jobs[id].logical_done

(* c is b, but for the account and the job of a token operation.           *)
Beside(b, c, id) ==
  /\ BrokerTypeOK(c)
  /\ c.stopping = b.stopping
  /\ DOMAIN c.jobs = DOMAIN b.jobs
  /\ \A j \in DOMAIN b.jobs \ {id} : c.jobs[j] = b.jobs[j]
  /\ c.jobs[id].logical_done = b.jobs[id].logical_done

\* A job that no account names may go.
LEMMA Unnamed ==
  ASSUME NEW b, BrokerInv(b), NEW id \in DOMAIN b.jobs,
         ~b.stopping => \A a \in Accounts : ~HasFlight(b, a, id) /\ b.accounts[a].refresh_owner # id
  PROVE  JobsOK(b, DOMAIN b.jobs \ {id})
<1>1. (\A j \in DOMAIN b.jobs \ {id} : JobOK(b.jobs[j])) /\ OneExchange(b, DOMAIN b.jobs \ {id})
  BY DEF BrokerInv, JobsOK, OneExchange
<1>2. ASSUME ~b.stopping PROVE AcceptingOK(b, DOMAIN b.jobs \ {id})
  BY <1>2 DEF BrokerInv, JobsOK, AcceptingOK, HasFlight
<1> QED
  BY <1>1, <1>2 DEF JobsOK

\* While the broker accepts work only a live account has flights, and only a
\* token job is named by one.
LEMMA FlightOf ==
  ASSUME NEW b, BrokerInv(b), ~b.stopping, NEW id \in DOMAIN b.jobs, NEW a \in Accounts,
         HasFlight(b, a, id) \/ b.accounts[a].refresh_owner = id
  PROVE  /\ b.jobs[id].kind = "token" /\ b.jobs[id].account = a
         /\ b.accounts[a].live /\ HasFlight(b, a, id) /\ ~b.jobs[id].logical_done
<1>1. id # None
  BY DEF BrokerInv, BrokerTypeOK, Names, None
<1>2. b.jobs[id].kind = "token" /\ b.jobs[id].account = a /\ ~b.jobs[id].logical_done
  BY <1>1 DEF BrokerInv, JobsOK, AcceptingOK, HasFlight, Exchange
<1> QED
  BY <1>2 DEF BrokerInv, JobsOK, AcceptingOK

\* remove_flight takes one name out of an account.
LEMMA RemoveEffect ==
  ASSUME NEW acct \in AccountRecords, NEW id
  PROVE  /\ remove_flight(acct, id) \in AccountRecords
         /\ remove_flight(acct, id).live = acct.live
         /\ \A s \in Scopes : remove_flight(acct, id).flights[s] =
                                IF acct.flights[s] = id THEN None ELSE acct.flights[s]
         /\ remove_flight(acct, id).refresh_owner =
              IF acct.refresh_owner = id THEN None ELSE acct.refresh_owner
BY DEF remove_flight, AccountRecords, None

(* No account of c names id, and otherwise c has the accounts of b.        *)
Forgets(b, c, a, id) ==
  /\ c.accounts[a].live = b.accounts[a].live
  /\ \A x \in Accounts \ {a} : c.accounts[x] = b.accounts[x]
  /\ \A s \in Scopes : c.accounts[a].flights[s] =
       IF b.accounts[a].flights[s] = id THEN None ELSE b.accounts[a].flights[s]
  /\ c.accounts[a].refresh_owner =
       IF b.accounts[a].refresh_owner = id THEN None ELSE b.accounts[a].refresh_owner

\* The accounts of b that name other jobs than id name the same ones in c, and
\* none of c names id: then c accepts work for those jobs as b did.
LEMMA OthersKeep ==
  ASSUME NEW b, NEW c, NEW D, NEW id, AcceptingOK(b, D),
         \A j \in D : b.jobs[j].kind = "token" => b.jobs[j].account \in Accounts,
         \A j \in D \ {id} : c.jobs[j] = b.jobs[j],
         \A x \in Accounts : c.accounts[x].live = b.accounts[x].live,
         \A x \in Accounts, s \in Scopes :
           /\ c.accounts[x].flights[s] # id
           /\ c.accounts[x].flights[s] # None =>
                c.accounts[x].flights[s] = b.accounts[x].flights[s]
           /\ b.accounts[x].flights[s] # id =>
                c.accounts[x].flights[s] = b.accounts[x].flights[s],
         \A x \in Accounts :
           /\ c.accounts[x].refresh_owner # id
           /\ c.accounts[x].refresh_owner # None =>
                c.accounts[x].refresh_owner = b.accounts[x].refresh_owner
           /\ b.accounts[x].refresh_owner # id =>
                c.accounts[x].refresh_owner = b.accounts[x].refresh_owner
  PROVE  AcceptingOK(c, D \ {id})
<1>1. ASSUME NEW j \in D \ {id}
      PROVE  /\ ~c.jobs[j].forced
             /\ c.jobs[j].logical_done => c.jobs[j].phase = "waiting"
             /\ c.jobs[j].kind = "token" /\ ~c.jobs[j].logical_done =>
                  c.accounts[c.jobs[j].account].live /\ HasFlight(c, c.jobs[j].account, j)
             /\ Exchange(c.jobs[j]) => c.accounts[c.jobs[j].account].refresh_owner = j
  <2>1. j \in D /\ j # id /\ c.jobs[j] = b.jobs[j]
    OBVIOUS
  <2>2. /\ ~b.jobs[j].forced
        /\ b.jobs[j].logical_done => b.jobs[j].phase = "waiting"
        /\ b.jobs[j].kind = "token" /\ ~b.jobs[j].logical_done =>
             b.accounts[b.jobs[j].account].live /\ HasFlight(b, b.jobs[j].account, j)
        /\ Exchange(b.jobs[j]) => b.accounts[b.jobs[j].account].refresh_owner = j
    BY <2>1 DEF AcceptingOK
  <2>3. \A x \in Accounts : HasFlight(b, x, j) => HasFlight(c, x, j)
    BY <2>1 DEF HasFlight
  <2>4. CASE b.jobs[j].kind = "token"
    BY <2>1, <2>2, <2>3, <2>4
  <2>5. CASE b.jobs[j].kind # "token"
    BY <2>1, <2>2, <2>5 DEF Exchange
  <2> QED
    BY <2>4, <2>5
<1>2. ASSUME NEW x \in Accounts, NEW s \in Scopes, c.accounts[x].flights[s] # None
      PROVE  /\ c.accounts[x].flights[s] \in D \ {id}
             /\ c.jobs[c.accounts[x].flights[s]].kind = "token"
             /\ c.jobs[c.accounts[x].flights[s]].account = x
             /\ ~c.jobs[c.accounts[x].flights[s]].logical_done
  <2>1. c.accounts[x].flights[s] = b.accounts[x].flights[s] /\ c.accounts[x].flights[s] # id
    BY <1>2
  <2> QED
    BY <1>2, <2>1 DEF AcceptingOK
<1>3. ASSUME NEW x \in Accounts, c.accounts[x].refresh_owner # None
      PROVE  /\ c.accounts[x].refresh_owner \in D \ {id}
             /\ Exchange(c.jobs[c.accounts[x].refresh_owner])
             /\ c.jobs[c.accounts[x].refresh_owner].account = x
  <2>1. c.accounts[x].refresh_owner = b.accounts[x].refresh_owner /\ c.accounts[x].refresh_owner # id
    BY <1>3
  <2> QED
    BY <1>3, <2>1 DEF AcceptingOK
<1> QED
  BY <1>1, <1>2, <1>3 DEF AcceptingOK

\* The other jobs keep their flights when a job loses its own.
LEMMA WithoutFlight ==
  ASSUME NEW b, BrokerInv(b), NEW id \in DOMAIN b.jobs, b.jobs[id].kind = "token",
         NEW c, Beside(b, c, id), Forgets(b, c, b.jobs[id].account, id)
  PROVE  JobsOK(c, DOMAIN c.jobs \ {id})
<1> DEFINE a == b.jobs[id].account
<1>1. a \in Accounts /\ id # None
  BY DEF BrokerInv, JobsOK, JobOK, BrokerTypeOK, Names, None
<1>3. /\ \A x \in Accounts : c.accounts[x].live = b.accounts[x].live
      /\ \A x \in Accounts \ {a} : c.accounts[x] = b.accounts[x]
      /\ \A s \in Scopes : c.accounts[a].flights[s] =
           IF b.accounts[a].flights[s] = id THEN None ELSE b.accounts[a].flights[s]
      /\ c.accounts[a].refresh_owner =
           IF b.accounts[a].refresh_owner = id THEN None ELSE b.accounts[a].refresh_owner
  BY <1>1 DEF Forgets
<1>4. \A j \in DOMAIN c.jobs \ {id} : c.jobs[j] = b.jobs[j]
  BY DEF Beside
<1>5. \A j \in DOMAIN c.jobs \ {id} : JobOK(c.jobs[j])
  BY <1>4 DEF BrokerInv, JobsOK, Beside
<1>6. OneExchange(c, DOMAIN c.jobs \ {id})
  BY <1>4 DEF BrokerInv, JobsOK, Beside, OneExchange
<1>7. ASSUME ~c.stopping PROVE AcceptingOK(c, DOMAIN c.jobs \ {id})
  <2>1. AcceptingOK(b, DOMAIN b.jobs) /\ DOMAIN c.jobs = DOMAIN b.jobs /\ ~b.stopping
    BY <1>7 DEF BrokerInv, JobsOK, Beside
  <2>2. \A x \in Accounts \ {a} : ~HasFlight(b, x, id) /\ b.accounts[x].refresh_owner # id
    BY <1>1, <2>1 DEF AcceptingOK, HasFlight
  <2>3. ASSUME NEW x \in Accounts, NEW s \in Scopes
        PROVE  /\ c.accounts[x].flights[s] # id
               /\ c.accounts[x].flights[s] # None =>
                    c.accounts[x].flights[s] = b.accounts[x].flights[s]
               /\ b.accounts[x].flights[s] # id =>
                    c.accounts[x].flights[s] = b.accounts[x].flights[s]
    BY <1>1, <1>3, <2>2 DEF HasFlight
  <2>4. ASSUME NEW x \in Accounts
        PROVE  /\ c.accounts[x].refresh_owner # id
               /\ c.accounts[x].refresh_owner # None =>
                    c.accounts[x].refresh_owner = b.accounts[x].refresh_owner
               /\ b.accounts[x].refresh_owner # id =>
                    c.accounts[x].refresh_owner = b.accounts[x].refresh_owner
    BY <1>1, <1>3, <2>2
  <2>5. \A j \in DOMAIN b.jobs : b.jobs[j].kind = "token" => b.jobs[j].account \in Accounts
    BY DEF BrokerInv, JobsOK, JobOK
  <2>6. /\ \A x \in Accounts : c.accounts[x].live = b.accounts[x].live
        /\ \A j \in DOMAIN b.jobs \ {id} : c.jobs[j] = b.jobs[j]
    BY <1>3, <1>4, <2>1
  <2>7. AcceptingOK(c, DOMAIN b.jobs \ {id})
    <3> HIDE DEF a
    <3> QED
      BY ONLY <2>1, <2>3, <2>4, <2>5, <2>6, OthersKeep
  <2> QED
    BY <2>1, <2>7
<1> QED
  BY <1>5, <1>6, <1>7 DEF JobsOK

\* Two brokers with the same accounts and the same jobs in D agree on D.
LEMMA SameJobs ==
  ASSUME NEW c, NEW d, NEW D, JobsOK(c, D), d.accounts = c.accounts, d.stopping = c.stopping,
         \A j \in D : d.jobs[j] = c.jobs[j]
  PROVE  JobsOK(d, D)
<1>1. (\A j \in D : JobOK(d.jobs[j])) /\ OneExchange(d, D)
  BY DEF JobsOK, OneExchange
<1>2. ASSUME ~d.stopping PROVE AcceptingOK(d, D)
  BY <1>2 DEF JobsOK, AcceptingOK, HasFlight
<1> QED
  BY <1>1, <1>2 DEF JobsOK

\* The events of at most the polled job.
LEMMA EmitPolls ==
  ASSUME NEW b, BrokerInv(b), NEW id \in DOMAIN b.jobs, NEW c, Beside(b, c, id),
         JobsOK(c, DOMAIN c.jobs \ {id}), NEW flights \in SUBSET {id},
         ~b.stopping => id \in flights \/ b.jobs[id].logical_done,
         NEW out \in emit_token([broker |-> c, emit |-> flights], id)
  PROVE  Polls(b, id, out)
<1> DEFINE d == out.broker
<1>1. BrokerTypeOK(c) /\ DOMAIN c.jobs = DOMAIN b.jobs /\ c.stopping = b.stopping
  BY DEF Beside
<1>2. /\ BrokerTypeOK(d) /\ d.accounts = c.accounts /\ d.stopping = c.stopping
      /\ DOMAIN d.jobs = DOMAIN c.jobs \ {id}
      /\ \A j \in DOMAIN c.jobs \ {id} :
           d.jobs[j] = IF j \in out.emit
                       THEN [c.jobs[j] EXCEPT !.logical_done = TRUE] ELSE c.jobs[j]
      /\ out.emit = {f \in flights \cap DOMAIN c.jobs : ~c.jobs[f].logical_done}
      /\ out.progress = "Drained"
  BY <1>1, EmitEffect
<1> HIDE DEF d
<1>3. \A j \in DOMAIN d.jobs : d.jobs[j] = c.jobs[j] /\ d.jobs[j] = b.jobs[j]
  BY <1>1, <1>2 DEF Beside
<1>4. JobsOK(d, DOMAIN d.jobs)
  BY <1>2, <1>3, SameJobs
<1>5. out.emit \subseteq DOMAIN b.jobs
  BY <1>1, <1>2
<1>6. ~b.stopping => id \in out.emit \/ b.jobs[id].logical_done
  BY <1>1, <1>2 DEF Beside
<1>7. BrokerInv(d) /\ d.stopping = b.stopping /\ DOMAIN d.jobs = DOMAIN b.jobs \ {id}
  BY <1>1, <1>2, <1>4 DEF BrokerInv
<1> QED
  BY <1>2, <1>3, <1>5, <1>6, <1>7 DEF Polls, d

\* abandon releases the job's flight, and knows it unless it was answered.
LEMMA AbandonEffect ==
  ASSUME NEW b, BrokerInv(b), NEW id \in DOMAIN b.jobs, b.jobs[id].kind = "token"
  PROVE  \E c, flights :
           /\ abandon(b, id) = [broker |-> c, emit |-> flights]
           /\ Beside(b, c, id) /\ JobsOK(c, DOMAIN c.jobs \ {id})
           /\ flights \in SUBSET {id}
           /\ ~b.stopping => id \in flights \/ b.jobs[id].logical_done
<1> DEFINE a == b.jobs[id].account
           known == Resolves(b, a) /\ current_key(b.accounts[a], id) # {}
           c == [b EXCEPT !.accounts[a] = remove_flight(@, id)]
<1>1. a \in Accounts /\ b.accounts \in [Accounts -> AccountRecords]
  BY DEF BrokerInv, JobsOK, JobOK, BrokerTypeOK
<1>2. CASE known
  <2>1. abandon(b, id) = [broker |-> c, emit |-> {id}]
    BY <1>2 DEF abandon
  <2>2. /\ c.accounts = [b.accounts EXCEPT ![a] = remove_flight(@, id)]
        /\ c.jobs = b.jobs /\ c.stopping = b.stopping
    BY DEF BrokerInv, BrokerTypeOK
  <2>3. c.accounts \in [Accounts -> AccountRecords]
    BY <1>1, <2>2, RemoveEffect
  <2>4. BrokerTypeOK(c)
    BY <2>2, <2>3 DEF BrokerInv, BrokerTypeOK
  <2>5. Beside(b, c, id)
    BY <2>2, <2>4 DEF Beside
  <2>6. Forgets(b, c, a, id)
    BY <1>1, <2>2, RemoveEffect DEF Forgets
  <2>7. JobsOK(c, DOMAIN c.jobs \ {id})
    BY <2>5, <2>6, WithoutFlight
  <2> HIDE DEF c
  <2> QED
    BY <2>1, <2>5, <2>7
<1>3. CASE ~known
  <2>1. abandon(b, id) = [broker |-> b, emit |-> {}]
    BY <1>3 DEF abandon
  <2>2. Beside(b, b, id)
    BY DEF Beside, BrokerInv
  <2>3. ASSUME ~b.stopping
        PROVE  /\ \A x \in Accounts : ~HasFlight(b, x, id) /\ b.accounts[x].refresh_owner # id
               /\ b.jobs[id].logical_done
    <3>1. ~(b.accounts[a].live /\ HasFlight(b, a, id))
      BY <1>3 DEF Resolves, current_key, HasFlight
    <3>2. \A x \in Accounts : ~HasFlight(b, x, id) /\ b.accounts[x].refresh_owner # id
      BY <2>3, <3>1, FlightOf
    <3> QED
      BY <2>3, <3>1, <3>2 DEF BrokerInv, JobsOK, AcceptingOK
  <2>4. JobsOK(b, DOMAIN b.jobs \ {id})
    BY <2>3, Unnamed
  <2>5. {} \in SUBSET {id} /\ (~b.stopping => id \in {} \/ b.jobs[id].logical_done)
    BY <2>3
  <2> QED
    BY <2>1, <2>2, <2>4, <2>5, Zenon
<1> QED
  BY <1>2, <1>3

\* A job that gives its flight up is drained, and its callers are answered.
LEMMA AbandonPolls ==
  ASSUME NEW b, BrokerInv(b), NEW id \in DOMAIN b.jobs, b.jobs[id].kind = "token",
         NEW out \in emit_token(abandon(b, id), id)
  PROVE  Polls(b, id, out)
<1>1. PICK c, flights :
           /\ abandon(b, id) = [broker |-> c, emit |-> flights]
           /\ Beside(b, c, id) /\ JobsOK(c, DOMAIN c.jobs \ {id})
           /\ flights \in SUBSET {id}
           /\ ~b.stopping => id \in flights \/ b.jobs[id].logical_done
  BY AbandonEffect
<1>2. out \in emit_token([broker |-> c, emit |-> flights], id)
  BY <1>1
<1> QED
  BY <1>1, <1>2, EmitPolls

\* A job that no account names is drained, answered or not owed an answer.
LEMMA DrainPolls ==
  ASSUME NEW b, BrokerInv(b), NEW id \in DOMAIN b.jobs, NEW told \in SUBSET {id},
         ~b.stopping =>
           /\ \A a \in Accounts : ~HasFlight(b, a, id) /\ b.accounts[a].refresh_owner # id
           /\ id \in told \/ b.jobs[id].logical_done,
         NEW out \in Drained(b, id, told)
  PROVE  Polls(b, id, out)
<1>1. JobsOK(b, DOMAIN b.jobs \ {id}) /\ BrokerTypeOK(b)
  BY Unnamed DEF BrokerInv
<1>2. BrokerInv(out.broker)
  BY <1>1, DrainedOK
<1>3. /\ out.broker.stopping = b.stopping
      /\ DOMAIN out.broker.jobs = DOMAIN b.jobs \ {id}
      /\ \A j \in DOMAIN b.jobs \ {id} : out.broker.jobs[j] = b.jobs[j]
      /\ out.emit = told /\ out.progress = "Drained"
  BY <1>1, DrainedEffect
<1> QED
  BY <1>2, <1>3 DEF Polls

\* A job that is still running.
LEMMA StayPolls ==
  ASSUME NEW b, BrokerInv(b), NEW id \in DOMAIN b.jobs, NEW out \in Stay(b)
  PROVE  Polls(b, id, out)
<1>1. out.broker = b /\ out.emit = {} /\ out.progress = "Pending"
  BY DEF Stay
<1> QED
  BY <1>1 DEF Polls

\* Unproved cleanup closes admission and keeps every job.
LEMMA UnprovedPolls ==
  ASSUME NEW b, BrokerInv(b), NEW id \in DOMAIN b.jobs, NEW out \in Unproved(b)
  PROVE  Polls(b, id, out)
<1> DEFINE d == [b EXCEPT !.stopping = TRUE]
<1>1. out.broker = d /\ out.emit = {} /\ out.progress = "HostFault"
  BY DEF Unproved
<1>2. /\ d.accounts = b.accounts /\ d.jobs = b.jobs /\ d.stopping = TRUE
      /\ BrokerTypeOK(d)
  BY DEF BrokerInv, BrokerTypeOK
<1> HIDE DEF d
<1>3. BrokerInv(d)
  BY <1>2 DEF BrokerInv, JobsOK, OneExchange
<1> QED
  BY <1>1, <1>2, <1>3 DEF Polls

\* A job that goes on with another physical operation keeps everything but its
\* phase and its credential.
LEMMA ContinueEffect ==
  ASSUME NEW b, BrokerTypeOK(b), NEW id \in DOMAIN b.jobs,
         NEW phase \in {"prompt", "waiting", "http"},
         NEW credential \in {"none", "current", "replaced"},
         NEW out \in Continues(b, id, phase, credential)
  PROVE  LET c == out.broker IN
         /\ out \in Stay(c)
         /\ BrokerTypeOK(c) /\ c.accounts = b.accounts /\ c.stopping = b.stopping
         /\ DOMAIN c.jobs = DOMAIN b.jobs
         /\ \A j \in DOMAIN b.jobs \ {id} : c.jobs[j] = b.jobs[j]
         /\ c.jobs[id].kind = b.jobs[id].kind /\ c.jobs[id].account = b.jobs[id].account
         /\ c.jobs[id].phase = phase /\ c.jobs[id].credential = credential
         /\ c.jobs[id].forced = b.jobs[id].forced
         /\ c.jobs[id].logical_done = b.jobs[id].logical_done
<1> DEFINE job == [[b.jobs[id] EXCEPT !.phase = phase] EXCEPT !.credential = credential]
           c == [b EXCEPT !.jobs = [b.jobs EXCEPT ![id] = job]]
<1>1. b.jobs[id] \in Jobs /\ b.jobs \in [DOMAIN b.jobs -> Jobs]
  BY DEF BrokerTypeOK
<1>2. /\ job \in Jobs /\ job.kind = b.jobs[id].kind /\ job.account = b.jobs[id].account
      /\ job.phase = phase /\ job.credential = credential
      /\ job.forced = b.jobs[id].forced /\ job.logical_done = b.jobs[id].logical_done
  BY <1>1 DEF Jobs
<1>3. [b EXCEPT !.jobs[id].phase = phase, !.jobs[id].credential = credential] = c
  BY <1>1 DEF BrokerTypeOK, Jobs
<1>4. out \in Stay(c) /\ out.broker = c
  BY <1>3 DEF Continues, Stay
<1> HIDE DEF job
<1>5. /\ c.jobs = [b.jobs EXCEPT ![id] = job]
      /\ c.accounts = b.accounts /\ c.stopping = b.stopping
  BY DEF BrokerTypeOK
<1>6. BrokerTypeOK(c)
  BY <1>1, <1>2, <1>5 DEF BrokerTypeOK
<1> HIDE DEF c
<1> QED
  BY <1>1, <1>2, <1>4, <1>5, <1>6

\* The poll of a job that moved.
LEMMA MovedPolls ==
  ASSUME NEW b, NEW id \in DOMAIN b.jobs, NEW c, BrokerInv(c), c.stopping = b.stopping,
         DOMAIN c.jobs = DOMAIN b.jobs,
         \A j \in DOMAIN b.jobs : c.jobs[j].logical_done = b.jobs[j].logical_done,
         NEW out \in Stay(c)
  PROVE  Polls(b, id, out)
<1>1. out.broker = c /\ out.emit = {} /\ out.progress = "Pending"
  BY DEF Stay
<1> QED
  BY <1>1 DEF Polls

\* A sign-in that is approved goes on with its HTTP exchange.
LEMMA ApprovedPolls ==
  ASSUME NEW b, BrokerInv(b), NEW id \in DOMAIN b.jobs, b.jobs[id].kind = "begin",
         b.jobs[id].phase = "prompt", NEW out \in Continues(b, id, "http", "none")
  PROVE  Polls(b, id, out)
<1> DEFINE c == out.broker
<1>1. /\ out \in Stay(c)
      /\ BrokerTypeOK(c) /\ c.accounts = b.accounts /\ c.stopping = b.stopping
      /\ DOMAIN c.jobs = DOMAIN b.jobs
      /\ \A j \in DOMAIN b.jobs \ {id} : c.jobs[j] = b.jobs[j]
      /\ c.jobs[id].kind = b.jobs[id].kind /\ c.jobs[id].account = b.jobs[id].account
      /\ c.jobs[id].phase = "http" /\ c.jobs[id].credential = "none"
      /\ c.jobs[id].forced = b.jobs[id].forced
      /\ c.jobs[id].logical_done = b.jobs[id].logical_done
  BY ContinueEffect DEF BrokerInv
<1> HIDE DEF c
<1>2. \A j \in DOMAIN c.jobs :
        /\ c.jobs[j].kind = b.jobs[j].kind /\ c.jobs[j].account = b.jobs[j].account
        /\ c.jobs[j].forced = b.jobs[j].forced
        /\ c.jobs[j].logical_done = b.jobs[j].logical_done
        /\ Exchange(c.jobs[j]) <=> Exchange(b.jobs[j])
  BY <1>1 DEF Exchange
<1>3. \A j \in DOMAIN c.jobs : JobOK(c.jobs[j])
  <2>1. JobOK(b.jobs[id]) /\ \A j \in DOMAIN b.jobs \ {id} : JobOK(b.jobs[j])
    BY DEF BrokerInv, JobsOK
  <2>2. JobOK(c.jobs[id])
    BY <1>1, <2>1 DEF JobOK, Exchange
  <2> QED
    BY <1>1, <2>1, <2>2
<1>4. OneExchange(c, DOMAIN c.jobs)
  BY <1>1, <1>2 DEF BrokerInv, JobsOK, OneExchange
<1>5. ASSUME ~c.stopping PROVE AcceptingOK(c, DOMAIN c.jobs)
  <2>1. AcceptingOK(b, DOMAIN b.jobs) /\ ~b.stopping
    BY <1>1, <1>5 DEF BrokerInv, JobsOK
  <2>2. ~b.jobs[id].logical_done
    BY <2>1 DEF AcceptingOK
  <2>3. \A j \in DOMAIN c.jobs : c.jobs[j].logical_done => c.jobs[j].phase = "waiting"
    BY <1>1, <2>1, <2>2 DEF AcceptingOK
  <2>4. \A a, j : HasFlight(b, a, j) <=> HasFlight(c, a, j)
    BY <1>1 DEF HasFlight
  <2>5. \A j \in DOMAIN c.jobs :
          /\ ~c.jobs[j].forced
          /\ c.jobs[j].kind = "token" /\ ~c.jobs[j].logical_done =>
               c.accounts[c.jobs[j].account].live /\ HasFlight(c, c.jobs[j].account, j)
          /\ Exchange(c.jobs[j]) => c.accounts[c.jobs[j].account].refresh_owner = j
    BY <1>1, <1>2, <2>1, <2>4 DEF AcceptingOK
  <2>6. ASSUME NEW x \in Accounts, NEW s \in Scopes, NEW f, f = c.accounts[x].flights[s],
               f # None
        PROVE  /\ f \in DOMAIN c.jobs /\ c.jobs[f].kind = "token"
               /\ c.jobs[f].account = x /\ ~c.jobs[f].logical_done
    <3>1. f = b.accounts[x].flights[s] /\ DOMAIN c.jobs = DOMAIN b.jobs
      BY ONLY <1>1, <2>6
    <3>2. /\ f \in DOMAIN b.jobs /\ b.jobs[f].kind = "token"
          /\ b.jobs[f].account = x /\ ~b.jobs[f].logical_done
      BY ONLY <2>1, <2>6, <3>1 DEF AcceptingOK
    <3> QED
      BY ONLY <1>2, <3>1, <3>2
  <2>7. \A a \in Accounts :
          c.accounts[a].refresh_owner # None =>
            /\ c.accounts[a].refresh_owner \in DOMAIN c.jobs
            /\ Exchange(c.jobs[c.accounts[a].refresh_owner])
            /\ c.jobs[c.accounts[a].refresh_owner].account = a
    BY <1>1, <1>2, <2>1 DEF AcceptingOK
  <2> QED
    BY <2>3, <2>5, <2>6, <2>7 DEF AcceptingOK
<1>6. BrokerInv(c)
  BY <1>1, <1>3, <1>4, <1>5 DEF BrokerInv, JobsOK
<1> QED
  BY <1>1, <1>2, <1>6, MovedPolls

\* A completed sign-in registers an account that no job names.
LEMMA SignedInPolls ==
  ASSUME NEW b, BrokerInv(b), ~b.stopping, NEW id \in DOMAIN b.jobs,
         b.jobs[id].kind = "begin", NEW a \in Unregistered(b), NEW refreshable \in BOOLEAN,
         NEW out \in Drained(register_completed_begin(b, a, refreshable), id, {id})
  PROVE  Polls(b, id, out)
<1> DEFINE acct == [live |-> TRUE, refresh |-> refreshable, flights |-> NoFlights,
                    refresh_owner |-> None]
           c == [b EXCEPT !.accounts[a] = acct]
<1>1. /\ a \in Accounts /\ ~b.accounts[a].live
      /\ \A j \in DOMAIN b.jobs : b.jobs[j].account # a
  BY DEF Unregistered, Accounts
<1>2. /\ acct \in AccountRecords /\ acct.refresh_owner = None
      /\ \A s \in Scopes : acct.flights[s] = None
  BY DEF AccountRecords, NoFlights, None
<1>3. out \in Drained(c, id, {id})
  BY DEF register_completed_begin
<1> HIDE DEF acct
<1>4. /\ BrokerTypeOK(c) /\ c.jobs = b.jobs /\ c.stopping = b.stopping
      /\ c.accounts[a] = acct
      /\ \A x \in Accounts \ {a} : c.accounts[x] = b.accounts[x]
  BY <1>1, <1>2 DEF BrokerInv, BrokerTypeOK
<1> HIDE DEF c
<1>5. AcceptingOK(b, DOMAIN b.jobs)
  BY DEF BrokerInv, JobsOK
<1>6. \A x \in Accounts : ~HasFlight(b, x, id) /\ b.accounts[x].refresh_owner # id
  BY FlightOf
<1>7. JobsOK(b, DOMAIN b.jobs \ {id})
  BY <1>6, Unnamed
<1>8. AcceptingOK(c, DOMAIN c.jobs \ {id})
  <2>1. AcceptingOK(b, DOMAIN b.jobs \ {id})
    BY <1>7 DEF JobsOK
  <2>2. \A j \in DOMAIN b.jobs : b.jobs[j].kind = "token" => b.jobs[j].account \in Accounts \ {a}
    BY <1>1 DEF BrokerInv, JobsOK, JobOK
  <2>3. ASSUME NEW j \in DOMAIN c.jobs \ {id}
        PROVE  /\ ~c.jobs[j].forced
               /\ c.jobs[j].logical_done => c.jobs[j].phase = "waiting"
               /\ c.jobs[j].kind = "token" /\ ~c.jobs[j].logical_done =>
                    c.accounts[c.jobs[j].account].live /\ HasFlight(c, c.jobs[j].account, j)
               /\ Exchange(c.jobs[j]) => c.accounts[c.jobs[j].account].refresh_owner = j
    <3>1. c.jobs[j] = b.jobs[j] /\ j \in DOMAIN b.jobs \ {id}
      BY ONLY <1>4, <2>3
    <3>2. /\ ~b.jobs[j].forced
          /\ b.jobs[j].logical_done => b.jobs[j].phase = "waiting"
          /\ b.jobs[j].kind = "token" /\ ~b.jobs[j].logical_done =>
               b.accounts[b.jobs[j].account].live /\ HasFlight(b, b.jobs[j].account, j)
          /\ Exchange(b.jobs[j]) => b.accounts[b.jobs[j].account].refresh_owner = j
      BY ONLY <2>1, <3>1 DEF AcceptingOK
    <3>3. b.jobs[j].kind = "token" =>
            /\ c.accounts[b.jobs[j].account] = b.accounts[b.jobs[j].account]
            /\ HasFlight(c, b.jobs[j].account, j) <=> HasFlight(b, b.jobs[j].account, j)
      BY ONLY <1>4, <2>2, <3>1 DEF HasFlight
    <3> QED
      BY ONLY <3>1, <3>2, <3>3 DEF Exchange
  <2>4. ASSUME NEW x \in Accounts, NEW s \in Scopes, c.accounts[x].flights[s] # None
        PROVE  x # a /\ c.accounts[x].flights[s] = b.accounts[x].flights[s]
    BY <1>2, <1>4, <2>4
  <2>5. ASSUME NEW x \in Accounts, c.accounts[x].refresh_owner # None
        PROVE  x # a /\ c.accounts[x].refresh_owner = b.accounts[x].refresh_owner
    BY <1>2, <1>4, <2>5
  <2> QED
    BY <1>4, <2>1, <2>3, <2>4, <2>5 DEF AcceptingOK
<1>9. JobsOK(c, DOMAIN c.jobs \ {id})
  BY <1>4, <1>7, <1>8 DEF JobsOK, OneExchange
<1>10. BrokerInv(out.broker)
  BY <1>3, <1>4, <1>9, DrainedOK
<1>11. /\ out.broker.stopping = c.stopping
       /\ DOMAIN out.broker.jobs = DOMAIN c.jobs \ {id}
       /\ \A j \in DOMAIN c.jobs \ {id} : out.broker.jobs[j] = c.jobs[j]
       /\ out.emit = {id} /\ out.progress = "Drained"
  BY <1>3, <1>4, DrainedEffect
<1> QED
  BY <1>4, <1>10, <1>11 DEF Polls

\* poll_begin
LEMMA BeginPolls ==
  ASSUME NEW b, BrokerInv(b), NEW id \in DOMAIN b.jobs, b.jobs[id].kind = "begin",
         NEW out \in poll_begin(b, id)
  PROVE  Polls(b, id, out)
<1>1. ~b.stopping =>
        /\ \A a \in Accounts : ~HasFlight(b, a, id) /\ b.accounts[a].refresh_owner # id
        /\ ~b.jobs[id].forced
  BY FlightOf DEF BrokerInv, JobsOK, AcceptingOK
<1>2. CASE b.jobs[id].forced
  <2>1. PICK told \in SUBSET {id} : out \in Drained(b, id, told)
    BY <1>2 DEF poll_begin
  <2> QED
    BY <1>1, <1>2, <2>1, DrainPolls
<1>3. CASE out \in Drained(b, id, {id})
  <2>1. {id} \in SUBSET {id} /\ id \in {id}
    OBVIOUS
  <2> QED
    BY <1>1, <1>3, <2>1, DrainPolls
<1>4. CASE b.jobs[id].phase = "prompt" /\ out \in Continues(b, id, "http", "none")
  BY <1>4, ApprovedPolls
<1>5. CASE ~b.stopping /\ \E a \in Unregistered(b), refreshable \in BOOLEAN :
             out \in Drained(register_completed_begin(b, a, refreshable), id, {id})
  BY <1>5, SignedInPolls
<1> QED
  BY <1>2, <1>3, <1>4, <1>5 DEF poll_begin

(* A broker whose account a is refreshed by id.                            *)
Started(b, a, id) == [b EXCEPT !.accounts[a].refresh_owner = id]

\* An account with its refresh owner set is otherwise as it was.
LEMMA StartedEffect ==
  ASSUME NEW b, BrokerTypeOK(b), NEW id \in DOMAIN b.jobs, NEW a \in Accounts
  PROVE  LET c == Started(b, a, id) IN
         /\ BrokerTypeOK(c) /\ c.jobs = b.jobs /\ c.stopping = b.stopping
         /\ \A x \in Accounts \ {a} : c.accounts[x] = b.accounts[x]
         /\ c.accounts[a].live = b.accounts[a].live
         /\ c.accounts[a].flights = b.accounts[a].flights
         /\ c.accounts[a].refresh_owner = id
<1> DEFINE acct == [b.accounts[a] EXCEPT !.refresh_owner = id]
           c == Started(b, a, id)
<1>1. b.accounts \in [Accounts -> AccountRecords] /\ id \in Nat
  BY DEF BrokerTypeOK, Names
<1>2. /\ acct \in AccountRecords /\ acct.live = b.accounts[a].live
      /\ acct.flights = b.accounts[a].flights /\ acct.refresh_owner = id
  BY <1>1 DEF AccountRecords
<1>3. c = [b EXCEPT !.accounts = [b.accounts EXCEPT ![a] = acct]]
  BY DEF BrokerTypeOK, Started
<1> HIDE DEF acct, c
<1>4. /\ c.accounts = [b.accounts EXCEPT ![a] = acct]
      /\ c.jobs = b.jobs /\ c.stopping = b.stopping
  BY <1>3 DEF BrokerTypeOK
<1>5. c.accounts \in [Accounts -> AccountRecords]
  BY <1>1, <1>2, <1>4
<1>6. BrokerTypeOK(c)
  BY <1>3, <1>4, <1>5 DEF BrokerTypeOK
<1> QED
  BY <1>1, <1>2, <1>4, <1>6 DEF acct, c

\* The exchange of a waiting job starts: its account has no other one.
LEMMA StartPolls ==
  ASSUME NEW b, BrokerInv(b), ~b.stopping, NEW id \in DOMAIN b.jobs,
         b.jobs[id].kind = "token", b.jobs[id].phase = "waiting",
         NEW a, a = b.jobs[id].account, HasFlight(b, a, id),
         b.accounts[a].refresh_owner = None,
         NEW out \in Continues([b EXCEPT !.accounts[a].refresh_owner = id], id, "http", "current")
  PROVE  Polls(b, id, out)
<1> DEFINE started == Started(b, a, id)
           c == out.broker
<1>1. a \in Accounts /\ id # None
  BY DEF BrokerInv, JobsOK, JobOK, BrokerTypeOK, Names, None
<1>2. /\ BrokerTypeOK(started) /\ started.jobs = b.jobs /\ started.stopping = b.stopping
      /\ \A x \in Accounts \ {a} : started.accounts[x] = b.accounts[x]
      /\ started.accounts[a].live = b.accounts[a].live
      /\ started.accounts[a].flights = b.accounts[a].flights
      /\ started.accounts[a].refresh_owner = id
  BY <1>1, StartedEffect DEF BrokerInv
<1>3. /\ out \in Stay(c)
      /\ BrokerTypeOK(c) /\ c.accounts = started.accounts /\ c.stopping = b.stopping
      /\ DOMAIN c.jobs = DOMAIN b.jobs
      /\ \A j \in DOMAIN b.jobs \ {id} : c.jobs[j] = b.jobs[j]
      /\ c.jobs[id].kind = b.jobs[id].kind /\ c.jobs[id].account = b.jobs[id].account
      /\ c.jobs[id].phase = "http" /\ c.jobs[id].credential = "current"
      /\ c.jobs[id].forced = b.jobs[id].forced
      /\ c.jobs[id].logical_done = b.jobs[id].logical_done
  <2>1. out \in Continues(started, id, "http", "current") /\ id \in DOMAIN started.jobs
    BY <1>2 DEF Started
  <2> HIDE DEF started
  <2>2. /\ out \in Stay(c)
        /\ BrokerTypeOK(c) /\ c.accounts = started.accounts /\ c.stopping = started.stopping
        /\ DOMAIN c.jobs = DOMAIN started.jobs
        /\ \A j \in DOMAIN started.jobs \ {id} : c.jobs[j] = started.jobs[j]
        /\ c.jobs[id].kind = started.jobs[id].kind
        /\ c.jobs[id].account = started.jobs[id].account
        /\ c.jobs[id].phase = "http" /\ c.jobs[id].credential = "current"
        /\ c.jobs[id].forced = started.jobs[id].forced
        /\ c.jobs[id].logical_done = started.jobs[id].logical_done
    <3>1. "http" \in {"prompt", "waiting", "http"} /\ "current" \in {"none", "current", "replaced"}
      OBVIOUS
    <3> QED
      BY ONLY <1>2, <2>1, <3>1, ContinueEffect
  <2> QED
    BY <1>2, <2>2
<1> HIDE DEF started
<1> HIDE DEF c
<1>4. AcceptingOK(b, DOMAIN b.jobs) /\ ~c.stopping
  BY <1>3 DEF BrokerInv, JobsOK
<1>5. b.accounts[a].live /\ ~b.jobs[id].logical_done
  BY <1>1, FlightOf
<1>6. \A j \in DOMAIN b.jobs : JobOK(b.jobs[j])
  BY DEF BrokerInv, JobsOK
<1>7. \A j \in DOMAIN b.jobs : Exchange(b.jobs[j]) => b.jobs[j].account \in Accounts \ {a}
  BY <1>1, <1>4, <1>6 DEF AcceptingOK, JobOK, Exchange, BrokerInv, BrokerTypeOK, Names, None
<1>8. \A j \in DOMAIN c.jobs : JobOK(c.jobs[j])
  <2>1. JobOK(c.jobs[id])
    BY <1>1, <1>3 DEF JobOK, Exchange
  <2> QED
    BY <1>3, <1>6, <2>1
<1>9. OneExchange(c, DOMAIN c.jobs)
  BY <1>3, <1>7 DEF BrokerInv, JobsOK, OneExchange
<1>10. \A x \in Accounts : \A j : HasFlight(c, x, j) <=> HasFlight(b, x, j)
  BY <1>1, <1>2, <1>3 DEF HasFlight
<1>11. AcceptingOK(c, DOMAIN c.jobs)
  <2>1. ASSUME NEW j \in DOMAIN c.jobs
        PROVE  /\ ~c.jobs[j].forced
               /\ c.jobs[j].logical_done => c.jobs[j].phase = "waiting"
               /\ c.jobs[j].kind = "token" /\ ~c.jobs[j].logical_done =>
                    c.accounts[c.jobs[j].account].live /\ HasFlight(c, c.jobs[j].account, j)
               /\ Exchange(c.jobs[j]) => c.accounts[c.jobs[j].account].refresh_owner = j
    <3>1. CASE j = id
      <4>1. /\ c.jobs[id].account = a /\ c.accounts[a].live /\ HasFlight(c, a, id)
            /\ c.accounts[a].refresh_owner = id
        BY <1>1, <1>2, <1>3, <1>5, <1>10
      <4>2. ~b.jobs[id].forced
        BY <1>4 DEF AcceptingOK
      <4> QED
        BY <1>3, <1>5, <3>1, <4>1, <4>2
    <3>2. CASE j # id
      <4>1. j \in DOMAIN b.jobs /\ c.jobs[j] = b.jobs[j]
        BY <1>3, <3>2
      <4>2. /\ ~b.jobs[j].forced
            /\ b.jobs[j].logical_done => b.jobs[j].phase = "waiting"
            /\ b.jobs[j].kind = "token" /\ ~b.jobs[j].logical_done =>
                 b.accounts[b.jobs[j].account].live /\ HasFlight(b, b.jobs[j].account, j)
            /\ Exchange(b.jobs[j]) => b.accounts[b.jobs[j].account].refresh_owner = j
        BY <1>4, <4>1 DEF AcceptingOK
      <4>3. b.jobs[j].kind = "token" => b.jobs[j].account \in Accounts
        BY <1>6, <4>1 DEF JobOK
      <4>4. \A x \in Accounts : c.accounts[x].live = b.accounts[x].live
        BY <1>1, <1>2, <1>3
      <4>5. Exchange(b.jobs[j]) =>
              c.accounts[b.jobs[j].account].refresh_owner = b.accounts[b.jobs[j].account].refresh_owner
        BY <1>2, <1>3, <1>7, <4>1
      <4> QED
        BY <1>10, <4>1, <4>2, <4>3, <4>4, <4>5
    <3> QED
      BY <3>1, <3>2
  <2>2. ASSUME NEW x \in Accounts, NEW s \in Scopes, c.accounts[x].flights[s] # None
        PROVE  /\ c.accounts[x].flights[s] \in DOMAIN c.jobs
               /\ c.jobs[c.accounts[x].flights[s]].kind = "token"
               /\ c.jobs[c.accounts[x].flights[s]].account = x
               /\ ~c.jobs[c.accounts[x].flights[s]].logical_done
    <3>1. c.accounts[x].flights[s] = b.accounts[x].flights[s]
      BY <1>1, <1>2, <1>3
    <3>2. /\ b.accounts[x].flights[s] \in DOMAIN b.jobs
          /\ b.jobs[b.accounts[x].flights[s]].kind = "token"
          /\ b.jobs[b.accounts[x].flights[s]].account = x
          /\ ~b.jobs[b.accounts[x].flights[s]].logical_done
      BY <1>4, <2>2, <3>1 DEF AcceptingOK
    <3> QED
      BY <1>3, <3>1, <3>2
  <2>3. ASSUME NEW x \in Accounts, c.accounts[x].refresh_owner # None
        PROVE  /\ c.accounts[x].refresh_owner \in DOMAIN c.jobs
               /\ Exchange(c.jobs[c.accounts[x].refresh_owner])
               /\ c.jobs[c.accounts[x].refresh_owner].account = x
    <3>1. CASE x = a
      BY <1>2, <1>3, <3>1 DEF Exchange
    <3>2. CASE x # a
      <4>1. c.accounts[x].refresh_owner = b.accounts[x].refresh_owner
        BY <1>2, <1>3, <3>2
      <4>2. /\ b.accounts[x].refresh_owner \in DOMAIN b.jobs
            /\ Exchange(b.jobs[b.accounts[x].refresh_owner])
            /\ b.jobs[b.accounts[x].refresh_owner].account = x
        BY <1>4, <2>3, <4>1 DEF AcceptingOK
      <4> QED
        BY <1>3, <3>2, <4>1, <4>2
    <3> QED
      BY <3>1, <3>2
  <2> QED
    BY <2>1, <2>2, <2>3 DEF AcceptingOK
<1>12. BrokerInv(c)
  BY <1>3, <1>8, <1>9, <1>11 DEF BrokerInv, JobsOK
<1>13. \A j \in DOMAIN b.jobs : c.jobs[j].logical_done = b.jobs[j].logical_done
  BY <1>3
<1> QED
  BY <1>3, <1>12, <1>13, MovedPolls

\* An exchange that cannot be started gives its flight up.
LEMMA NotStartedPolls ==
  ASSUME NEW b, BrokerInv(b), ~b.stopping, NEW id \in DOMAIN b.jobs,
         b.jobs[id].kind = "token",
         NEW a, a = b.jobs[id].account, HasFlight(b, a, id),
         b.accounts[a].refresh_owner = None,
         NEW out \in emit_token(abandon(Started(b, a, id), id), id)
  PROVE  Polls(b, id, out)
<1> DEFINE started == Started(b, a, id)
           c == [started EXCEPT !.accounts[a] = remove_flight(@, id)]
<1>1. a \in Accounts /\ id # None /\ id \in DOMAIN b.jobs /\ BrokerTypeOK(b)
  BY DEF BrokerInv, JobsOK, JobOK, BrokerTypeOK, Names, None
<1>2. /\ BrokerTypeOK(started) /\ started.jobs = b.jobs /\ started.stopping = b.stopping
      /\ \A x \in Accounts \ {a} : started.accounts[x] = b.accounts[x]
      /\ started.accounts[a].refresh_owner = id
      /\ started.accounts[a].live = b.accounts[a].live
      /\ started.accounts[a].flights = b.accounts[a].flights
  BY <1>1, StartedEffect DEF BrokerInv
<1> HIDE DEF started
<1>3. b.accounts[a].live
  BY <1>1, FlightOf
<1>4. abandon(started, id) = [broker |-> c, emit |-> {id}]
  <2>1. Resolves(started, a) /\ current_key(started.accounts[a], id) # {}
    BY <1>2, <1>3 DEF Resolves, current_key, HasFlight
  <2> QED
    BY <1>2, <2>1 DEF abandon
<1>6. started.accounts \in [Accounts -> AccountRecords]
  BY <1>2 DEF BrokerTypeOK
<1>7. /\ c.accounts = [started.accounts EXCEPT ![a] = remove_flight(@, id)]
      /\ c.jobs = b.jobs /\ c.stopping = b.stopping
  BY <1>2 DEF BrokerTypeOK
<1>8. Forgets(b, c, a, id)
  <2> HIDE DEF c
  <2>1. /\ c.accounts[a] = remove_flight(started.accounts[a], id)
        /\ \A x \in Accounts \ {a} : c.accounts[x] = started.accounts[x]
    BY <1>1, <1>6, <1>7
  <2>2. started.accounts[a] \in AccountRecords
    BY <1>1, <1>6
  <2>3. /\ c.accounts[a].live = started.accounts[a].live
        /\ \A s \in Scopes : c.accounts[a].flights[s] =
             IF started.accounts[a].flights[s] = id THEN None ELSE started.accounts[a].flights[s]
        /\ c.accounts[a].refresh_owner = None
    <3> DEFINE acct == started.accounts[a]
               gone == remove_flight(acct, id)
    <3> HIDE DEF acct
    <3>1. /\ gone.live = acct.live
          /\ \A s \in Scopes : gone.flights[s] = IF acct.flights[s] = id THEN None ELSE acct.flights[s]
          /\ gone.refresh_owner = IF acct.refresh_owner = id THEN None ELSE acct.refresh_owner
      BY ONLY <2>2, RemoveEffect DEF acct
    <3> HIDE DEF gone
    <3>2. c.accounts[a] = gone /\ acct.refresh_owner = id /\ acct = started.accounts[a]
      BY <1>2, <2>1 DEF acct, gone
    <3> QED
      BY ONLY <3>1, <3>2
  <2> QED
    BY <1>1, <1>2, <2>1, <2>3 DEF Forgets
<1>9. c.accounts \in [Accounts -> AccountRecords]
  BY <1>1, <1>6, <1>7, RemoveEffect
<1>10. BrokerTypeOK(c)
  BY <1>1, <1>2, <1>7, <1>9 DEF BrokerTypeOK
<1> HIDE DEF c
<1>11. Beside(b, c, id)
  BY <1>7, <1>10 DEF Beside
<1>12. JobsOK(c, DOMAIN c.jobs \ {id})
  BY <1>8, <1>11, WithoutFlight
<1>13. out \in emit_token([broker |-> c, emit |-> {id}], id)
  BY <1>4 DEF started
<1>14. {id} \in SUBSET {id} /\ id \in {id}
  OBVIOUS
<1> QED
  BY <1>11, <1>12, <1>13, <1>14, EmitPolls

\* try_start: nobody waits for an owner that is missing, because the owner of a
\* refresh has its exchange.
LEMMA TryStartPolls ==
  ASSUME NEW b, BrokerInv(b), NEW id \in DOMAIN b.jobs, b.jobs[id].phase = "waiting",
         NEW out \in try_start(b, id)
  PROVE  Polls(b, id, out)
<1> DEFINE a == b.jobs[id].account
<1>1. b.jobs[id].kind = "token" /\ a \in Accounts /\ id # None
  BY DEF BrokerInv, BrokerTypeOK, Jobs, JobsOK, JobOK, Names, None
<1>2. Flying(b, id) <=> ~b.stopping /\ b.accounts[a].live /\ HasFlight(b, a, id)
  BY DEF HasFlight, current_key, Flying, Resolves
<1>3. CASE ~Flying(b, id)
  <2>1. out \in Drained(b, id, {})
    BY <1>3 DEF try_start
  <2>2. ASSUME ~b.stopping
        PROVE  /\ \A x \in Accounts : ~HasFlight(b, x, id) /\ b.accounts[x].refresh_owner # id
               /\ b.jobs[id].logical_done
    <3>1. ~(b.accounts[a].live /\ HasFlight(b, a, id))
      BY <1>2, <1>3, <2>2
    <3>2. \A x \in Accounts : ~HasFlight(b, x, id) /\ b.accounts[x].refresh_owner # id
      BY <2>2, <3>1, FlightOf
    <3> QED
      BY <1>1, <2>2, <3>1, <3>2 DEF BrokerInv, JobsOK, AcceptingOK
  <2>3. {} \in SUBSET {id}
    OBVIOUS
  <2> QED
    BY <2>1, <2>2, <2>3, DrainPolls
<1>4. CASE Flying(b, id)
  <2>1. ~b.stopping /\ HasFlight(b, a, id) /\ AcceptingOK(b, DOMAIN b.jobs)
    BY <1>2, <1>4 DEF BrokerInv, JobsOK
  <2>2. b.accounts[a].refresh_owner # id
    BY <1>1, <2>1 DEF AcceptingOK, Exchange
  <2>3. CASE b.accounts[a].refresh_owner # None
    <3>1. out \in Stay(b)
      BY <1>4, <2>2, <2>3 DEF try_start
    <3> QED
      BY <3>1, StayPolls
  <2>4. CASE b.accounts[a].refresh_owner = None
    <3>1. \/ out \in emit_token(abandon(b, id), id)
          \/ out \in emit_token(abandon(Started(b, a, id), id), id)
          \/ out \in Continues([b EXCEPT !.accounts[a].refresh_owner = id], id, "http", "current")
      BY <1>1, <1>4, <2>2, <2>4 DEF try_start, Started
    <3> QED
      BY <1>1, <2>1, <2>4, <3>1, AbandonPolls, NotStartedPolls, StartPolls
  <2> QED
    BY <2>3, <2>4
<1> QED
  BY <1>3, <1>4

\* The owner of a refresh is its account's exchange, and has not been answered.
LEMMA OwnerOf ==
  ASSUME NEW b, BrokerInv(b), NEW id \in DOMAIN b.jobs, b.jobs[id].kind = "token",
         OwnsRefresh(b, id)
  PROVE  /\ ~b.stopping /\ b.jobs[id].account \in Accounts /\ id # None
         /\ HasFlight(b, b.jobs[id].account, id)
         /\ \A j \in DOMAIN b.jobs :
              Exchange(b.jobs[j]) /\ b.jobs[j].account = b.jobs[id].account => j = id
<1> DEFINE a == b.jobs[id].account
<1>1. ~b.stopping /\ id # None /\ a \in Accounts
  BY DEF OwnsRefresh, Flying, BrokerInv, JobsOK, JobOK, BrokerTypeOK, Names, None
<1>2. b.accounts[a].refresh_owner = id /\ HasFlight(b, a, id)
  BY DEF OwnsRefresh, Flying, current_key, HasFlight
<1>3. \A j \in DOMAIN b.jobs : Exchange(b.jobs[j]) => b.accounts[b.jobs[j].account].refresh_owner = j
  BY <1>1 DEF BrokerInv, JobsOK, AcceptingOK
<1> HIDE DEF a
<1> QED
  BY <1>1, <1>2, <1>3 DEF a

\* A refresh that fails for now gives its flight up.
LEMMA FailedPolls ==
  ASSUME NEW b, BrokerInv(b), NEW id \in DOMAIN b.jobs, b.jobs[id].kind = "token",
         OwnsRefresh(b, id), NEW out \in emit_token(finish_failure(b, id, FALSE), id)
  PROVE  Polls(b, id, out)
<1>1. finish_failure(b, id, FALSE) = abandon(b, id)
  <2>1. Resolves(b, b.jobs[id].account) /\ current_key(b.accounts[b.jobs[id].account], id) # {}
    BY DEF OwnsRefresh, Flying
  <2> QED
    BY <2>1 DEF finish_failure, abandon
<1> QED
  BY <1>1, AbandonPolls

\* A refresh that succeeds gives its flight up; a new refresh credential
\* replaces nobody else's, because the account has no other exchange.
LEMMA SuccessPolls ==
  ASSUME NEW b, BrokerInv(b), NEW id \in DOMAIN b.jobs, b.jobs[id].kind = "token",
         OwnsRefresh(b, id), NEW rotated \in BOOLEAN,
         NEW out \in emit_token(finish_success(b, id, rotated), id)
  PROVE  Polls(b, id, out)
<1> DEFINE a == b.jobs[id].account
           after == [j \in DOMAIN b.jobs |->
                      IF rotated /\ b.jobs[j].account = a /\ b.jobs[j].credential = "current"
                      THEN [b.jobs[j] EXCEPT !.credential = "replaced"] ELSE b.jobs[j]]
           accounts == [b.accounts EXCEPT ![a] = remove_flight(@, id)]
           c == [[b EXCEPT !.accounts = accounts] EXCEPT !.jobs = after]
<1>1. /\ a \in Accounts
      /\ \A j \in DOMAIN b.jobs : Exchange(b.jobs[j]) /\ b.jobs[j].account = a => j = id
  BY OwnerOf
<1>2. BrokerTypeOK(b) /\ \A j \in DOMAIN b.jobs : JobOK(b.jobs[j])
  BY DEF BrokerInv, JobsOK
<1>3. \A j \in DOMAIN b.jobs \ {id} : after[j] = b.jobs[j]
  BY <1>1, <1>2 DEF JobOK
<1>4. \A j \in DOMAIN b.jobs : after[j] \in Jobs /\ after[j].logical_done = b.jobs[j].logical_done
  BY <1>2 DEF BrokerTypeOK, Jobs
<1>5. finish_success(b, id, rotated) = [broker |-> c, emit |-> {id}]
  BY <1>1, <1>2 DEF finish_success, BrokerTypeOK
<1>6. b.accounts \in [Accounts -> AccountRecords]
  BY <1>2 DEF BrokerTypeOK
<1>7. accounts \in [Accounts -> AccountRecords]
  BY <1>1, <1>6, RemoveEffect
<1>8. DOMAIN after = DOMAIN b.jobs
  OBVIOUS
<1>9. after \in [DOMAIN after -> Jobs]
  BY <1>4
<1> HIDE DEF after
<1>10. /\ accounts[a] = remove_flight(b.accounts[a], id)
       /\ \A x \in Accounts \ {a} : accounts[x] = b.accounts[x]
  BY <1>1, <1>6
<1> HIDE DEF accounts
<1>11. /\ BrokerTypeOK(c) /\ c.accounts = accounts /\ c.jobs = after
       /\ c.stopping = b.stopping
  BY <1>2, <1>7, <1>8, <1>9 DEF BrokerTypeOK
<1> HIDE DEF c
<1>12. Beside(b, c, id)
  BY <1>3, <1>4, <1>8, <1>11 DEF Beside
<1>13. Forgets(b, c, a, id)
  BY <1>1, <1>6, <1>10, <1>11, RemoveEffect DEF Forgets
<1>14. JobsOK(c, DOMAIN c.jobs \ {id})
  BY <1>12, <1>13, WithoutFlight
<1>15. {id} \in SUBSET {id} /\ id \in {id} /\ out \in emit_token([broker |-> c, emit |-> {id}], id)
  BY <1>5
<1> QED
  BY <1>12, <1>14, <1>15, EmitPolls

\* A reply to a refresh that is not the owner's changes no account; it comes
\* after the end of admission only.
LEMMA UnownedPolls ==
  ASSUME NEW b, BrokerInv(b), b.stopping, NEW id \in DOMAIN b.jobs,
         NEW out \in emit_token([broker |-> b, emit |-> {}], id)
  PROVE  Polls(b, id, out)
<1>1. JobsOK(b, DOMAIN b.jobs \ {id})
  BY Unnamed
<1>2. Beside(b, b, id) /\ {} \in SUBSET {id}
  BY DEF Beside, BrokerInv
<1> QED
  BY <1>1, <1>2, EmitPolls

\* invalid_grant evicts the account and answers every job that has a flight of
\* it: none is left that waits for one.
LEMMA EvictedPolls ==
  ASSUME NEW b, BrokerInv(b), NEW id \in DOMAIN b.jobs, b.jobs[id].kind = "token",
         OwnsRefresh(b, id), NEW out \in emit_token(finish_failure(b, id, TRUE), id)
  PROVE  Polls(b, id, out)
<1> DEFINE a == b.jobs[id].account
           flights == {b.accounts[a].flights[s] : s \in Scopes} \ {None}
           c == [b EXCEPT !.accounts[a].live = FALSE, !.accounts[a].flights = NoFlights,
                          !.accounts[a].refresh_owner = None]
           d == out.broker
<1>1. /\ ~b.stopping /\ a \in Accounts /\ id # None /\ HasFlight(b, a, id)
      /\ \A j \in DOMAIN b.jobs : Exchange(b.jobs[j]) /\ b.jobs[j].account = a => j = id
  BY OwnerOf
<1>2. finish_failure(b, id, TRUE) = [broker |-> c, emit |-> flights]
  BY DEF finish_failure
<1>3. /\ BrokerTypeOK(c) /\ c.jobs = b.jobs /\ c.stopping = b.stopping
      /\ \A x \in Accounts \ {a} : c.accounts[x] = b.accounts[x]
      /\ c.accounts[a].refresh_owner = None
      /\ \A s \in Scopes : c.accounts[a].flights[s] = None
  <2> DEFINE acct == [[[b.accounts[a] EXCEPT !.live = FALSE] EXCEPT !.flights = NoFlights]
                        EXCEPT !.refresh_owner = None]
             accounts == [b.accounts EXCEPT ![a] = acct]
  <2>1. BrokerTypeOK(b) /\ b.accounts \in [Accounts -> AccountRecords]
    BY DEF BrokerInv, BrokerTypeOK
  <2>2. /\ acct \in AccountRecords /\ acct.refresh_owner = None
        /\ \A s \in Scopes : acct.flights[s] = None
    BY <1>1, <2>1 DEF AccountRecords, NoFlights, None
  <2>3. c = [b EXCEPT !.accounts = accounts]
    BY <1>1, <2>1 DEF BrokerTypeOK, AccountRecords
  <2> HIDE DEF acct
  <2>4. /\ accounts \in [Accounts -> AccountRecords] /\ accounts[a] = acct
        /\ \A x \in Accounts \ {a} : accounts[x] = b.accounts[x]
    BY <1>1, <2>1, <2>2
  <2> HIDE DEF accounts, c
  <2> QED
    BY <2>1, <2>2, <2>3, <2>4 DEF BrokerTypeOK
<1>4. out \in emit_token([broker |-> c, emit |-> flights], id)
  BY <1>2
<1> HIDE DEF c
<1>5. /\ BrokerTypeOK(d) /\ d.accounts = c.accounts /\ d.stopping = b.stopping
      /\ DOMAIN d.jobs = DOMAIN b.jobs \ {id}
      /\ \A j \in DOMAIN b.jobs \ {id} :
           d.jobs[j] = IF j \in out.emit
                       THEN [b.jobs[j] EXCEPT !.logical_done = TRUE] ELSE b.jobs[j]
      /\ out.emit = {f \in flights \cap DOMAIN b.jobs : ~b.jobs[f].logical_done}
      /\ out.progress = "Drained"
  <2> HIDE DEF flights
  <2> QED
    BY <1>3, <1>4, EmitEffect
<1> HIDE DEF d
<1>6. \A j \in DOMAIN b.jobs : JobOK(b.jobs[j]) /\ b.jobs[j] \in Jobs
  BY DEF BrokerInv, JobsOK, BrokerTypeOK
<1>7. ASSUME NEW j \in DOMAIN d.jobs
      PROVE  /\ j \in DOMAIN b.jobs /\ j # id
             /\ d.jobs[j].kind = b.jobs[j].kind /\ d.jobs[j].account = b.jobs[j].account
             /\ d.jobs[j].phase = b.jobs[j].phase /\ d.jobs[j].forced = b.jobs[j].forced
             /\ d.jobs[j].credential = b.jobs[j].credential
             /\ d.jobs[j].logical_done <=> b.jobs[j].logical_done \/ j \in out.emit
  <2>1. j \in DOMAIN b.jobs /\ j # id /\ b.jobs[j] \in Jobs
    BY <1>5, <1>6, <1>7
  <2>2. CASE j \in out.emit
    <3>1. d.jobs[j] = [b.jobs[j] EXCEPT !.logical_done = TRUE]
      BY <1>5, <2>1, <2>2
    <3> QED
      BY <2>1, <2>2, <3>1 DEF Jobs
  <2>3. CASE j \notin out.emit
    <3>1. d.jobs[j] = b.jobs[j]
      BY <1>5, <2>1, <2>3
    <3> QED
      BY <2>1, <2>3, <3>1
  <2> QED
    BY <2>2, <2>3
<1>8. AcceptingOK(b, DOMAIN b.jobs)
  BY <1>1 DEF BrokerInv, JobsOK
<1>9. \A j \in DOMAIN b.jobs :
        /\ HasFlight(b, a, j) /\ ~b.jobs[j].logical_done => j \in out.emit
        /\ j \in out.emit => HasFlight(b, a, j)
  BY <1>1, <1>5 DEF HasFlight, BrokerInv, BrokerTypeOK, Names, None
<1>10. \A j \in DOMAIN b.jobs : HasFlight(b, a, j) => b.jobs[j].kind = "token" /\ b.jobs[j].account = a
  BY <1>1, FlightOf
<1>11. \A j \in DOMAIN d.jobs : JobOK(d.jobs[j])
  BY <1>6, <1>7 DEF JobOK, Exchange
<1>12. \A j \in DOMAIN d.jobs : Exchange(d.jobs[j]) <=> Exchange(b.jobs[j])
  BY <1>7 DEF Exchange
<1>13. OneExchange(d, DOMAIN d.jobs)
  BY <1>7, <1>12 DEF BrokerInv, JobsOK, OneExchange
<1>14. \A x \in Accounts \ {a} : \A j : HasFlight(d, x, j) <=> HasFlight(b, x, j)
  BY <1>3, <1>5 DEF HasFlight
<1>15. AcceptingOK(d, DOMAIN d.jobs)
  <2>1. ASSUME NEW j \in DOMAIN d.jobs
        PROVE  /\ ~d.jobs[j].forced
               /\ d.jobs[j].logical_done => d.jobs[j].phase = "waiting"
               /\ d.jobs[j].kind = "token" /\ ~d.jobs[j].logical_done =>
                    d.accounts[d.jobs[j].account].live /\ HasFlight(d, d.jobs[j].account, j)
               /\ Exchange(d.jobs[j]) => d.accounts[d.jobs[j].account].refresh_owner = j
    <3>1. /\ ~b.jobs[j].forced
          /\ b.jobs[j].logical_done => b.jobs[j].phase = "waiting"
          /\ b.jobs[j].kind = "token" /\ ~b.jobs[j].logical_done =>
               b.accounts[b.jobs[j].account].live /\ HasFlight(b, b.jobs[j].account, j)
          /\ Exchange(b.jobs[j]) => b.accounts[b.jobs[j].account].refresh_owner = j
      BY <1>7, <1>8, <2>1 DEF AcceptingOK
    <3>2. j \in out.emit => b.jobs[j].phase = "waiting"
      <4>1. j \in out.emit => b.jobs[j].kind = "token" /\ ~Exchange(b.jobs[j])
        BY <1>1, <1>7, <1>9, <1>10
      <4> QED
        BY <1>6, <1>7, <4>1 DEF JobOK, Exchange, Jobs
    <3>3. b.jobs[j].kind = "token" => b.jobs[j].account \in Accounts
      BY <1>6, <1>7 DEF JobOK
    <3>4. CASE b.jobs[j].account = a
      <4>1. ~Exchange(b.jobs[j]) /\ (b.jobs[j].kind = "token" => d.jobs[j].logical_done)
        BY <1>1, <1>7, <1>9, <3>1, <3>4
      <4> QED
        BY <1>7, <1>12, <3>1, <3>2, <4>1
    <3>5. CASE b.jobs[j].account # a
      <4>1. b.jobs[j].kind = "token" =>
              d.accounts[b.jobs[j].account] = b.accounts[b.jobs[j].account]
        BY <1>3, <1>5, <3>3, <3>5
      <4>2. b.jobs[j].kind = "token" /\ HasFlight(b, b.jobs[j].account, j) =>
              HasFlight(d, b.jobs[j].account, j)
        BY <1>14, <3>3, <3>5
      <4>3. Exchange(b.jobs[j]) => b.jobs[j].kind = "token"
        BY DEF Exchange
      <4> QED
        BY <1>7, <1>12, <3>1, <3>2, <4>1, <4>2, <4>3
    <3> QED
      BY <3>4, <3>5
  <2>2. ASSUME NEW x \in Accounts, NEW s \in Scopes, d.accounts[x].flights[s] # None
        PROVE  /\ d.accounts[x].flights[s] \in DOMAIN d.jobs
               /\ d.jobs[d.accounts[x].flights[s]].kind = "token"
               /\ d.jobs[d.accounts[x].flights[s]].account = x
               /\ ~d.jobs[d.accounts[x].flights[s]].logical_done
    <3>1. x # a /\ d.accounts[x] = b.accounts[x]
      BY <1>3, <1>5, <2>2
    <3> DEFINE j == b.accounts[x].flights[s]
    <3>2. /\ j \in DOMAIN b.jobs /\ b.jobs[j].kind = "token" /\ b.jobs[j].account = x
          /\ ~b.jobs[j].logical_done
      BY <1>8, <2>2, <3>1 DEF AcceptingOK
    <3> HIDE DEF j
    <3>3. j # id /\ j \notin out.emit
      BY <1>9, <1>10, <3>1, <3>2
    <3>4. d.accounts[x].flights[s] = j
      BY <3>1 DEF j
    <3> QED
      BY <1>5, <3>2, <3>3, <3>4
  <2>3. ASSUME NEW x \in Accounts, d.accounts[x].refresh_owner # None
        PROVE  /\ d.accounts[x].refresh_owner \in DOMAIN d.jobs
               /\ Exchange(d.jobs[d.accounts[x].refresh_owner])
               /\ d.jobs[d.accounts[x].refresh_owner].account = x
    <3>1. x # a /\ d.accounts[x] = b.accounts[x]
      BY <1>3, <1>5, <2>3
    <3> DEFINE j == b.accounts[x].refresh_owner
    <3>2. j \in DOMAIN b.jobs /\ Exchange(b.jobs[j]) /\ b.jobs[j].account = x
      BY <1>8, <2>3, <3>1 DEF AcceptingOK
    <3> HIDE DEF j
    <3>3. j \in DOMAIN d.jobs
      BY <1>5, <3>1, <3>2
    <3>4. d.accounts[x].refresh_owner = j
      BY <3>1 DEF j
    <3> QED
      BY <1>7, <1>12, <3>2, <3>3, <3>4
  <2> QED
    BY <2>1, <2>2, <2>3 DEF AcceptingOK
<1>16. BrokerInv(d)
  BY <1>5, <1>11, <1>13, <1>15 DEF BrokerInv, JobsOK
<1>17. id \in out.emit \/ b.jobs[id].logical_done
  BY <1>1, <1>9
<1>18. out.emit \subseteq DOMAIN b.jobs
  BY <1>5
<1> QED
  BY <1>1, <1>5, <1>7, <1>16, <1>17, <1>18 DEF Polls, d

\* finish_token_http: an exchange that has not been answered owns the refresh as
\* long as the broker accepts work.
LEMMA FinishPolls ==
  ASSUME NEW b, BrokerInv(b), NEW id \in DOMAIN b.jobs, Exchange(b.jobs[id]),
         NEW out \in finish_token_http(b, id)
  PROVE  Polls(b, id, out)
<1> DEFINE a == b.jobs[id].account
<1>1. b.jobs[id].kind = "token" /\ a \in Accounts
  BY DEF Exchange, BrokerInv, JobsOK, JobOK
<1>2. ~b.stopping => ~b.jobs[id].logical_done /\ ~b.jobs[id].forced /\ OwnsRefresh(b, id)
  BY <1>1 DEF BrokerInv, JobsOK, AcceptingOK, Exchange, OwnsRefresh, Flying, Resolves,
              HasFlight, current_key
<1>3. CASE b.jobs[id].logical_done
  <2>1. out \in Drained(b, id, {}) /\ {} \in SUBSET {id}
    BY <1>3 DEF finish_token_http
  <2> QED
    BY <1>2, <1>3, <2>1, DrainPolls
<1>4. CASE ~b.jobs[id].logical_done /\ b.jobs[id].forced
  <2>1. out \in emit_token(abandon(b, id), id)
    BY <1>4 DEF finish_token_http
  <2> QED
    BY <1>1, <2>1, AbandonPolls
<1>5. CASE ~b.jobs[id].logical_done /\ ~b.jobs[id].forced
  <2>1. \E flag \in BOOLEAN : \/ out \in emit_token(finish_failure(b, id, flag), id)
                              \/ out \in emit_token(finish_success(b, id, flag), id)
    BY <1>5 DEF finish_token_http
  <2>2. CASE OwnsRefresh(b, id)
    BY <1>1, <2>1, <2>2, FailedPolls, EvictedPolls, SuccessPolls
  <2>3. CASE ~OwnsRefresh(b, id)
    <3>1. \A flag \in BOOLEAN : /\ finish_failure(b, id, flag) = [broker |-> b, emit |-> {}]
                                /\ finish_success(b, id, flag) = [broker |-> b, emit |-> {}]
      BY <2>3 DEF finish_failure, finish_success
    <3>2. b.stopping /\ out \in emit_token([broker |-> b, emit |-> {}], id)
      BY <1>2, <2>1, <2>3, <3>1
    <3> QED
      BY <3>2, UnownedPolls
  <2> QED
    BY <2>2, <2>3
<1> QED
  BY <1>3, <1>4, <1>5

\* poll keeps the broker's invariant, and answers whom it drains.
LEMMA PollOK ==
  ASSUME NEW b, BrokerInv(b), NEW id \in DOMAIN b.jobs, NEW out \in poll(b, id)
  PROVE  Polls(b, id, out)
<1>1. JobOK(b.jobs[id]) /\ b.jobs[id] \in Jobs
  BY DEF BrokerInv, BrokerTypeOK, JobsOK
<1>2. CASE b.jobs[id].phase = "waiting"
  <2>1. b.jobs[id].kind = "token"
    BY <1>1, <1>2 DEF JobOK, Jobs
  <2>2. out \in emit_token(abandon(b, id), id) \/ out \in try_start(b, id)
    BY <1>2, <2>1 DEF poll, start_token
  <2> QED
    BY <1>2, <2>1, <2>2, AbandonPolls, TryStartPolls
<1>3. CASE b.jobs[id].phase # "waiting" /\ b.jobs[id].kind = "begin"
  <2>1. out \in Stay(b) \/ out \in Unproved(b) \/ out \in poll_begin(b, id)
    BY <1>3 DEF poll, Physical
  <2> QED
    BY <1>3, <2>1, StayPolls, UnprovedPolls, BeginPolls
<1>4. CASE b.jobs[id].phase # "waiting" /\ b.jobs[id].kind = "token"
  <2>1. Exchange(b.jobs[id])
    BY <1>1, <1>4 DEF JobOK, Jobs, Exchange
  <2>2. out \in Stay(b) \/ out \in Unproved(b) \/ out \in finish_token_http(b, id)
    BY <1>4 DEF poll, Physical
  <2> QED
    BY <2>1, <2>2, StayPolls, UnprovedPolls, FinishPolls
<1> QED
  BY <1>1, <1>2, <1>3, <1>4 DEF Jobs

-----------------------------------------------------------------------------
(* Admitting a request, and the end of admission.                          *)

(* What the worker may rely on when a request is handled.                  *)
Handles(b, out) ==
  /\ BrokerInv(out.broker) /\ out.broker.stopping = b.stopping
  /\ \/ out.state = "Ready" /\ out.broker = b
     \/ /\ out.state = "Leader"
        /\ out.operation \in Names \ DOMAIN b.jobs
        /\ DOMAIN out.broker.jobs = DOMAIN b.jobs \cup {out.operation}
        /\ \A j \in DOMAIN b.jobs : out.broker.jobs[j] = b.jobs[j]
        /\ ~out.broker.jobs[out.operation].logical_done
     \/ /\ out.state = "Follower" /\ out.broker = b
        /\ out.operation \in DOMAIN b.jobs /\ ~b.jobs[out.operation].logical_done

\* A new job has a name of its own.
LEMMA WithJobEffect ==
  ASSUME NEW b, BrokerInv(b), ~b.stopping, NEW job \in Jobs
  PROVE  LET c == WithJob(b, job) IN
         /\ BrokerTypeOK(c) /\ c.accounts = b.accounts /\ c.stopping = b.stopping
         /\ DOMAIN c.jobs = DOMAIN b.jobs \cup {next_id(b)}
         /\ \A j \in DOMAIN b.jobs : c.jobs[j] = b.jobs[j]
         /\ c.jobs[next_id(b)] = job
<1> DEFINE new == next_id(b)
           jobs == [id \in DOMAIN b.jobs \union {new} |-> IF id = new THEN job ELSE b.jobs[id]]
           c == [b EXCEPT !.jobs = jobs]
<1>1. WithJob(b, job) = c
  BY DEF WithJob
<1>2. new \in Names /\ new \notin DOMAIN b.jobs
  BY FreshName
<1>3. BrokerTypeOK(b)
  BY DEF BrokerInv
<1> HIDE DEF new
<1>4. /\ DOMAIN jobs = DOMAIN b.jobs \union {new} /\ jobs[new] = job
      /\ \A j \in DOMAIN b.jobs : jobs[j] = b.jobs[j]
  BY <1>2
<1>5. jobs \in [DOMAIN jobs -> Jobs]
  BY <1>3 DEF BrokerTypeOK
<1> HIDE DEF jobs
<1>6. IsFiniteSet(DOMAIN jobs)
  BY <1>3, <1>4, FS_AddElement DEF BrokerTypeOK
<1>7. /\ BrokerTypeOK(c) /\ c.accounts = b.accounts /\ c.stopping = b.stopping
      /\ c.jobs = jobs
  BY <1>2, <1>3, <1>4, <1>5, <1>6 DEF BrokerTypeOK
<1> HIDE DEF c
<1> QED
  BY <1>1, <1>4, <1>7 DEF new

\* A sign-in starts.
LEMMA BeginHandles ==
  ASSUME NEW b, BrokerInv(b), ~b.stopping, NEW out, out.state = "Leader",
         out.operation = next_id(b),
         out.broker = WithJob(b, NewJob("begin", None, "prompt"))
  PROVE  Handles(b, out)
<1> DEFINE job == NewJob("begin", None, "prompt")
           new == next_id(b)
           c == out.broker
<1>1. job \in Jobs /\ JobOK(job) /\ ~Exchange(job) /\ job.kind = "begin"
      /\ ~job.forced /\ ~job.logical_done
  BY DEF NewJob, Jobs, JobOK, Exchange, None
<1>2. /\ BrokerTypeOK(c) /\ c.accounts = b.accounts /\ c.stopping = b.stopping
      /\ DOMAIN c.jobs = DOMAIN b.jobs \cup {new}
      /\ \A j \in DOMAIN b.jobs : c.jobs[j] = b.jobs[j]
      /\ c.jobs[new] = job
  BY <1>1, WithJobEffect
<1>3. new \in Names \ DOMAIN b.jobs
  BY FreshName
<1> HIDE DEF job, new, c
<1>4. JobsOK(b, DOMAIN b.jobs)
  BY DEF BrokerInv
<1>5. \A j \in DOMAIN c.jobs : JobOK(c.jobs[j])
  BY <1>1, <1>2, <1>4 DEF JobsOK
<1>6. OneExchange(c, DOMAIN c.jobs)
  BY <1>1, <1>2, <1>4 DEF JobsOK, OneExchange
<1>7. AcceptingOK(c, DOMAIN c.jobs)
  <2>1. AcceptingOK(b, DOMAIN b.jobs)
    BY <1>4 DEF JobsOK
  <2>2. \A j \in DOMAIN c.jobs :
          /\ ~c.jobs[j].forced
          /\ c.jobs[j].logical_done => c.jobs[j].phase = "waiting"
          /\ c.jobs[j].kind = "token" /\ ~c.jobs[j].logical_done =>
               c.accounts[c.jobs[j].account].live /\ HasFlight(c, c.jobs[j].account, j)
          /\ Exchange(c.jobs[j]) => c.accounts[c.jobs[j].account].refresh_owner = j
    BY <1>1, <1>2, <2>1 DEF AcceptingOK, HasFlight
  <2> QED
    BY <1>2, <2>1, <2>2 DEF AcceptingOK
<1>8. BrokerInv(c)
  BY <1>2, <1>5, <1>6, <1>7 DEF BrokerInv, JobsOK
<1> QED
  BY <1>1, <1>2, <1>3, <1>8 DEF Handles, new, c

\* A token request leads a new flight of its scope.
LEMMA LeadHandles ==
  ASSUME NEW b, BrokerInv(b), ~b.stopping, NEW a \in Accounts, NEW s \in Scopes,
         b.accounts[a].live, b.accounts[a].flights[s] = None
  PROVE  Handles(b, Leads(b, a, s))
<1> DEFINE job == NewJob("token", a, "waiting")
           new == next_id(b)
           w == WithJob(b, job)
           acct == [b.accounts[a] EXCEPT !.flights = [b.accounts[a].flights EXCEPT ![s] = new]]
           c == [w EXCEPT !.accounts = [b.accounts EXCEPT ![a] = acct]]
<1>1. job \in Jobs /\ JobOK(job) /\ ~Exchange(job) /\ job.kind = "token" /\ job.account = a
      /\ ~job.forced /\ ~job.logical_done
  BY DEF NewJob, Jobs, JobOK, Exchange, Accounts
<1>2. /\ BrokerTypeOK(w) /\ w.accounts = b.accounts /\ w.stopping = b.stopping
      /\ DOMAIN w.jobs = DOMAIN b.jobs \cup {new}
      /\ \A j \in DOMAIN b.jobs : w.jobs[j] = b.jobs[j]
      /\ w.jobs[new] = job
  BY <1>1, WithJobEffect
<1>3. new \in Names \ DOMAIN b.jobs
  BY FreshName
<1>4. /\ Leads(b, a, s).state = "Leader" /\ Leads(b, a, s).operation = new
      /\ Leads(b, a, s).broker = [w EXCEPT !.accounts[a].flights[s] = new]
  BY DEF Leads
<1> HIDE DEF job, new, w
<1>5. b.accounts \in [Accounts -> AccountRecords]
  BY DEF BrokerInv, BrokerTypeOK
<1>6. /\ acct \in AccountRecords /\ acct.live /\ acct.flights[s] = new
      /\ \A t \in Scopes \ {s} : acct.flights[t] = b.accounts[a].flights[t]
      /\ acct.refresh_owner = b.accounts[a].refresh_owner
  BY <1>3, <1>5 DEF AccountRecords, Names
<1>7. [w EXCEPT !.accounts[a].flights[s] = new] = c
  BY <1>2, <1>5 DEF BrokerTypeOK, AccountRecords
<1> HIDE DEF acct
<1>8. /\ BrokerTypeOK(c) /\ c.jobs = w.jobs /\ c.stopping = b.stopping
      /\ c.accounts[a] = acct
      /\ \A x \in Accounts \ {a} : c.accounts[x] = b.accounts[x]
  BY <1>2, <1>5, <1>6 DEF BrokerTypeOK
<1> HIDE DEF c
<1>9. JobsOK(b, DOMAIN b.jobs) /\ AcceptingOK(b, DOMAIN b.jobs)
  BY DEF BrokerInv, JobsOK
<1>10. \A j \in DOMAIN c.jobs : JobOK(c.jobs[j])
  BY <1>1, <1>2, <1>8, <1>9 DEF JobsOK
<1>11. OneExchange(c, DOMAIN c.jobs)
  BY <1>1, <1>2, <1>8, <1>9 DEF JobsOK, OneExchange
<1>12. AcceptingOK(c, DOMAIN c.jobs)
  <2>1. \A x \in Accounts : /\ b.accounts[x].live => c.accounts[x].live
                            /\ c.accounts[x].refresh_owner = b.accounts[x].refresh_owner
    BY <1>6, <1>8
  <2>2. \A x \in Accounts, t \in Scopes :
          \/ c.accounts[x].flights[t] = b.accounts[x].flights[t]
          \/ x = a /\ t = s /\ c.accounts[x].flights[t] = new
    BY <1>6, <1>8
  <2>3. HasFlight(c, a, new)
    BY <1>6, <1>8 DEF HasFlight
  <2>4. ASSUME NEW x \in Accounts, NEW j \in DOMAIN b.jobs, HasFlight(b, x, j)
        PROVE  HasFlight(c, x, j)
    <3>1. j # 0
      BY DEF BrokerInv, BrokerTypeOK, Names
    <3>2. PICK t \in Scopes : b.accounts[x].flights[t] = j
      BY <2>4 DEF HasFlight
    <3>3. ~(x = a /\ t = s)
      BY <3>1, <3>2 DEF None
    <3>4. c.accounts[x].flights[t] = j
      BY <2>2, <3>2, <3>3
    <3> QED
      BY <3>4 DEF HasFlight
  <2>5. \A j \in DOMAIN b.jobs : b.jobs[j].kind = "token" => b.jobs[j].account \in Accounts
    BY <1>9 DEF JobsOK, JobOK
  <2>6. ASSUME NEW j \in DOMAIN c.jobs
        PROVE  /\ ~c.jobs[j].forced
               /\ c.jobs[j].logical_done => c.jobs[j].phase = "waiting"
               /\ c.jobs[j].kind = "token" /\ ~c.jobs[j].logical_done =>
                    c.accounts[c.jobs[j].account].live /\ HasFlight(c, c.jobs[j].account, j)
               /\ Exchange(c.jobs[j]) => c.accounts[c.jobs[j].account].refresh_owner = j
    <3>1. CASE j = new
      BY <1>1, <1>2, <1>6, <1>8, <2>3, <3>1
    <3>2. CASE j # new
      <4>1. j \in DOMAIN b.jobs /\ c.jobs[j] = b.jobs[j]
        BY <1>2, <1>8, <2>6, <3>2
      <4>2. /\ ~b.jobs[j].forced
            /\ b.jobs[j].logical_done => b.jobs[j].phase = "waiting"
            /\ b.jobs[j].kind = "token" /\ ~b.jobs[j].logical_done =>
                 b.accounts[b.jobs[j].account].live /\ HasFlight(b, b.jobs[j].account, j)
            /\ Exchange(b.jobs[j]) => b.accounts[b.jobs[j].account].refresh_owner = j
        BY <1>9, <4>1 DEF AcceptingOK
      <4>3. Exchange(b.jobs[j]) => b.jobs[j].kind = "token"
        BY DEF Exchange
      <4> QED
        BY <2>1, <2>4, <2>5, <4>1, <4>2, <4>3
    <3> QED
      BY <3>1, <3>2
  <2>7. ASSUME NEW x \in Accounts, NEW t \in Scopes, c.accounts[x].flights[t] # None
        PROVE  /\ c.accounts[x].flights[t] \in DOMAIN c.jobs
               /\ c.jobs[c.accounts[x].flights[t]].kind = "token"
               /\ c.jobs[c.accounts[x].flights[t]].account = x
               /\ ~c.jobs[c.accounts[x].flights[t]].logical_done
    <3>1. CASE x = a /\ t = s /\ c.accounts[x].flights[t] = new
      BY <1>1, <1>2, <1>8, <3>1
    <3>2. CASE c.accounts[x].flights[t] = b.accounts[x].flights[t]
      <4> DEFINE j == b.accounts[x].flights[t]
      <4>1. /\ j \in DOMAIN b.jobs /\ b.jobs[j].kind = "token" /\ b.jobs[j].account = x
            /\ ~b.jobs[j].logical_done
        BY <1>9, <2>7, <3>2 DEF AcceptingOK
      <4> QED
        BY <1>2, <1>8, <3>2, <4>1
    <3> QED
      BY <2>2, <3>1, <3>2
  <2>8. ASSUME NEW x \in Accounts, c.accounts[x].refresh_owner # None
        PROVE  /\ c.accounts[x].refresh_owner \in DOMAIN c.jobs
               /\ Exchange(c.jobs[c.accounts[x].refresh_owner])
               /\ c.jobs[c.accounts[x].refresh_owner].account = x
    <3> DEFINE j == b.accounts[x].refresh_owner
    <3>1. c.accounts[x].refresh_owner = j
      BY <2>1
    <3>2. j \in DOMAIN b.jobs /\ Exchange(b.jobs[j]) /\ b.jobs[j].account = x
      BY <1>9, <2>8, <3>1 DEF AcceptingOK
    <3> QED
      BY <1>2, <1>8, <3>1, <3>2
  <2> QED
    BY <2>6, <2>7, <2>8 DEF AcceptingOK
<1>13. BrokerInv(c)
  BY <1>8, <1>10, <1>11, <1>12 DEF BrokerInv, JobsOK
<1>14. Leads(b, a, s).broker = c
  BY <1>4, <1>7
<1> QED
  BY <1>1, <1>2, <1>3, <1>4, <1>8, <1>13, <1>14 DEF Handles

\* handle_request keeps the broker's invariant: a leader is a new job, and a
\* follower's job is there and has not been answered; only a host fault answers
\* nobody.
LEMMA HandleOK ==
  ASSUME NEW b, BrokerInv(b), NEW request \in Requests,
         NEW out \in handle_request(b, request), out # Faulted(b)
  PROVE  Handles(b, out)
<1>1. CASE out = Answer(b)
  BY <1>1 DEF Answer, Handles
<1>2. CASE out # Answer(b) /\ request = Begin
  <2>1. /\ ~b.stopping
        /\ out = [broker |-> WithJob(b, NewJob("begin", None, "prompt")),
                  state |-> "Leader", operation |-> next_id(b)]
    BY <1>2 DEF handle_request, begin_allowed, Begin
  <2> QED
    BY <2>1, BeginHandles
<1>3. ASSUME out # Answer(b), NEW a \in Accounts, NEW s \in Scopes, request = TokenOf(a, s)
      PROVE  Handles(b, out)
  <2>1. /\ ~b.stopping /\ b.accounts[a].live
        /\ out = IF b.accounts[a].flights[s] = None THEN Leads(b, a, s) ELSE Joins(b, a, s)
    BY <1>3 DEF handle_request, token_allowed, TokenOf, Resolves
  <2>2. CASE b.accounts[a].flights[s] = None
    BY <2>1, <2>2, LeadHandles
  <2>3. CASE b.accounts[a].flights[s] # None
    <3>1. /\ b.accounts[a].flights[s] \in DOMAIN b.jobs
          /\ ~b.jobs[b.accounts[a].flights[s]].logical_done
      BY <2>1, <2>3 DEF BrokerInv, JobsOK, AcceptingOK
    <3>2. /\ out.broker = b /\ out.state = "Follower"
          /\ out.operation = b.accounts[a].flights[s]
      BY <2>1, <2>3, <3>1 DEF Joins
    <3> QED
      BY <3>1, <3>2 DEF Handles
  <2> QED
    BY <2>2, <2>3
<1> QED
  BY <1>1, <1>2, <1>3 DEF Requests, Accounts

\* stop_for_host_tail closes admission, keeps every job and answers jobs only.
LEMMA StopOK ==
  ASSUME NEW b, BrokerInv(b)
  PROVE  LET stopped == stop_for_host_tail(b) IN
         /\ BrokerInv(stopped.broker) /\ stopped.broker.stopping
         /\ DOMAIN stopped.broker.jobs = DOMAIN b.jobs
         /\ stopped.emit \subseteq DOMAIN b.jobs
<1> DEFINE flights == UNION {{b.accounts[a].flights[s] : s \in Scopes} :
                              a \in {x \in 1..MaxAccounts : b.accounts[x].live}}
           told == {j \in DOMAIN b.jobs : /\ ~b.jobs[j].logical_done
                                          /\ b.jobs[j].kind = "begin" \/ j \in flights}
           accounts == [a \in DOMAIN b.accounts |->
             [b.accounts[a] EXCEPT !.flights = NoFlights, !.refresh_owner = None]]
           jobs == [j \in DOMAIN b.jobs |->
             [b.jobs[j] EXCEPT !.forced = TRUE,
                               !.logical_done = b.jobs[j].logical_done \/ j \in told]]
           c == [b EXCEPT !.stopping = TRUE, !.accounts = accounts, !.jobs = jobs]
<1>1. /\ told \subseteq DOMAIN b.jobs
      /\ stop_for_host_tail(b).broker = c /\ stop_for_host_tail(b).emit = told
  <2>1. told \subseteq DOMAIN b.jobs
    OBVIOUS
  <2>2. stop_for_host_tail(b) = [broker |-> c, emit |-> told]
    BY Zenon DEF stop_for_host_tail
  <2> HIDE DEF c, told
  <2> QED
    BY <2>1, <2>2
<1> HIDE DEF told
<1>2. BrokerTypeOK(b) /\ \A j \in DOMAIN b.jobs : JobOK(b.jobs[j])
  BY DEF BrokerInv, JobsOK
<1>3. ASSUME NEW j \in DOMAIN b.jobs
      PROVE  /\ jobs[j] \in Jobs
             /\ jobs[j].kind = b.jobs[j].kind /\ jobs[j].account = b.jobs[j].account
             /\ jobs[j].phase = b.jobs[j].phase /\ jobs[j].credential = b.jobs[j].credential
  <2>1. b.jobs[j] \in Jobs
    BY <1>2 DEF BrokerTypeOK
  <2> DEFINE done == b.jobs[j].logical_done \/ j \in told
  <2>2. done \in BOOLEAN
    OBVIOUS
  <2>3. jobs[j] = [b.jobs[j] EXCEPT !.forced = TRUE, !.logical_done = done]
    BY Zenon
  <2> HIDE DEF done, jobs
  <2> QED
    BY <2>1, <2>2, <2>3 DEF Jobs
<1>4. DOMAIN jobs = DOMAIN b.jobs /\ jobs \in [DOMAIN jobs -> Jobs]
  <2> DEFINE val(j) == [b.jobs[j] EXCEPT !.forced = TRUE,
                               !.logical_done = b.jobs[j].logical_done \/ j \in told]
  <2>1. \A j \in DOMAIN b.jobs : val(j) \in Jobs
    BY <1>3, Zenon
  <2>2. jobs = [j \in DOMAIN b.jobs |-> val(j)]
    BY Zenon
  <2> HIDE DEF val, jobs
  <2> QED
    BY <2>1, <2>2
<1> HIDE DEF jobs
<1>5. accounts \in [Accounts -> AccountRecords]
  <2>1. b.accounts \in [Accounts -> AccountRecords] /\ DOMAIN b.accounts = Accounts
    BY <1>2 DEF BrokerTypeOK
  <2>2. NoFlights \in [Scopes -> Nat] /\ None \in Nat
    BY DEF NoFlights, None
  <2>3. ASSUME NEW r \in AccountRecords
        PROVE  [r EXCEPT !.flights = NoFlights, !.refresh_owner = None] \in AccountRecords
    BY <2>2 DEF AccountRecords
  <2> DEFINE val(x) == [b.accounts[x] EXCEPT !.flights = NoFlights, !.refresh_owner = None]
  <2>4. \A x \in Accounts : val(x) \in AccountRecords
    BY <2>1, <2>3, Zenon
  <2>5. accounts = [x \in Accounts |-> val(x)]
    BY <2>1, Zenon
  <2> HIDE DEF val, accounts
  <2> QED
    BY <2>4, <2>5
<1> HIDE DEF accounts
<1>6. BrokerTypeOK(c) /\ c.jobs = jobs /\ c.stopping
  BY <1>2, <1>4, <1>5 DEF BrokerTypeOK
<1> HIDE DEF c
<1>7. \A j \in DOMAIN c.jobs : JobOK(c.jobs[j]) /\ (Exchange(c.jobs[j]) <=> Exchange(b.jobs[j]))
  BY <1>2, <1>3, <1>4, <1>6 DEF JobOK, Exchange
<1>8. OneExchange(c, DOMAIN c.jobs)
  BY <1>3, <1>4, <1>6, <1>7 DEF BrokerInv, JobsOK, OneExchange
<1>9. BrokerInv(c)
  BY <1>6, <1>7, <1>8 DEF BrokerInv, JobsOK
<1> QED
  BY <1>1, <1>4, <1>6, <1>9

-----------------------------------------------------------------------------
(* The steps of the session.                                               *)

\* The worker's channel as the set of what it holds.
LEMMA Sent ==
  ASSUME NEW S, NEW q \in Seq(S), NEW t \in S
  PROVE  Append(q, t) \in Seq(S) /\ ToSet(Append(q, t)) = ToSet(q) \cup {t}
<1>1. /\ Append(q, t) \in Seq(S) /\ Len(Append(q, t)) = Len(q) + 1
      /\ \A i \in 1..Len(q) : Append(q, t)[i] = q[i]
      /\ Append(q, t)[Len(q) + 1] = t
  OBVIOUS
<1>2. DOMAIN q = 1..Len(q) /\ Len(q) \in Nat /\ DOMAIN Append(q, t) = 1..(Len(q) + 1)
  BY <1>1
<1>3. 1..(Len(q) + 1) = 1..Len(q) \cup {Len(q) + 1}
  BY <1>2
<1>4. ASSUME NEW x PROVE x \in ToSet(Append(q, t)) <=> x \in ToSet(q) \/ x = t
  BY <1>1, <1>2, <1>3 DEF ToSet
<1> QED
  BY <1>1, <1>4

\* The worker takes the head of its channel.
LEMMA Taken ==
  ASSUME NEW S, NEW q \in Seq(S), q # << >>
  PROVE  Head(q) \in S /\ Tail(q) \in Seq(S) /\ ToSet(q) = ToSet(Tail(q)) \cup {Head(q)}
<1>1. /\ Len(q) \in Nat /\ Len(q) > 0 /\ DOMAIN q = 1..Len(q)
      /\ Head(q) = q[1] /\ Head(q) \in S /\ Tail(q) \in Seq(S)
      /\ DOMAIN Tail(q) = 1..(Len(q) - 1)
      /\ \A i \in 1..(Len(q) - 1) : Tail(q)[i] = q[i + 1]
  OBVIOUS
<1>2. ASSUME NEW x \in ToSet(q) PROVE x \in ToSet(Tail(q)) \/ x = Head(q)
  <2>1. PICK i \in 1..Len(q) : x = q[i]
    BY <1>1 DEF ToSet
  <2>2. CASE i = 1
    BY <1>1, <2>1, <2>2
  <2>3. CASE i # 1
    <3>1. i - 1 \in 1..(Len(q) - 1) /\ Tail(q)[i - 1] = x
      BY <1>1, <2>1, <2>3
    <3> QED
      BY <1>1, <3>1 DEF ToSet
  <2> QED
    BY <2>2, <2>3
<1>3. Head(q) \in ToSet(q)
  BY <1>1 DEF ToSet
<1>4. ASSUME NEW x \in ToSet(Tail(q)) PROVE x \in ToSet(q)
  <2>1. PICK i \in 1..(Len(q) - 1) : x = Tail(q)[i]
    BY <1>1 DEF ToSet
  <2>2. i + 1 \in 1..Len(q) /\ x = q[i + 1]
    BY <1>1, <2>1
  <2> QED
    BY <1>1, <2>2 DEF ToSet
<1> QED
  BY <1>1, <1>2, <1>3, <1>4

\* A step that leaves the worker, its operations and the broker alone may only
\* end admission.
LEMMA WorkerKept ==
  ASSUME WorkerInv, BrokerInv(broker), UNCHANGED <<worker, operations, broker>>, tail => tail'
  PROVE  WorkerInv' /\ BrokerInv(broker)'
  BY DEF WorkerInv, Publishing

\* A step that leaves the calls alone may only end admission or the session.
LEMMA CallsKept ==
  ASSUME CallsInv, UNCHANGED <<calls, pending, queue, worker, operations, reader.ticket>>,
         tail => tail', Running' => Running
  PROVE  CallsInv'
  BY DEF CallsInv, Carried

\* A call whose generation retires is owed nothing more.
LEMMA RetiredCall ==
  ASSUME NEW call \in [current : BOOLEAN, answers : Nat], call.answers <= 1
  PROVE  /\ Retired(call) \in [current : BOOLEAN, answers : Nat]
         /\ ~Retired(call).current /\ Retired(call).answers = 1
<1>1. call.answers = 0 \/ call.answers = 1
  OBVIOUS
<1>2. Retired(call) = [call EXCEPT !.current = FALSE, !.answers = 1]
  <2>1. CASE call.answers = 0
    BY <2>1 DEF Retired
  <2>2. CASE call.answers = 1
    BY <2>2 DEF Retired
  <2> QED
    BY <1>1, <2>1, <2>2
<1>3. Retired(call).answers = 1 /\ Retired(call).current = FALSE
  BY <1>2
<1>4. Retired(call) \in [current : BOOLEAN, answers : Nat]
  <2> DEFINE no == FALSE
  <2>1. no \in BOOLEAN
    OBVIOUS
  <2>2. Retired(call) = [call EXCEPT !.current = no, !.answers = 1]
    BY <1>2
  <2> HIDE DEF no
  <2>3. [call EXCEPT !.current = no, !.answers = 1] \in [current : BOOLEAN, answers : Nat]
    BY <2>1
  <2> QED
    BY <2>2, <2>3, Zenon
<1> QED
  BY <1>3, <1>4

\* The retirement of a generation answers each of its calls, and none twice.
LEMMA Retirement ==
  ASSUME AuthTypeOK, CallsInv, NEW told \in SUBSET pending, RetiresCurrent(told)
  PROVE  /\ calls' \in [Tickets -> [current : BOOLEAN, answers : Nat]]
         /\ pending' = {}
         /\ router' \in [current : BOOLEAN,
              stage : {"running", "reserved", "accepted", "failed", "retired", "closed"}]
         /\ router'.stage = router.stage
         /\ reader' \in [up : BOOLEAN, ticket : Tickets \cup {None}]
         /\ reader'.ticket = reader.ticket
         /\ CallsInv'
<1>1. /\ calls \in [Tickets -> [current : BOOLEAN, answers : Nat]]
      /\ pending \subseteq Tickets
      /\ \A t \in pending : calls[t].current /\ calls[t].answers = 0
      /\ \A t \in Tickets : calls[t].answers <= 1
  BY DEF AuthTypeOK, CallsInv
<1>2. ASSUME NEW t \in Tickets
      PROVE  /\ calls'[t] \in [current : BOOLEAN, answers : Nat]
             /\ ~calls'[t].current /\ calls'[t].answers <= 1
  <2>1. calls'[t] = Retired(Answered(told)[t])
    BY Zenon DEF RetiresCurrent
  <2>2. CASE t \in told
    <3>1. Answered(told)[t] = [calls[t] EXCEPT !.answers = 1]
      BY <1>1, <2>2 DEF Answered
    <3>2. Answered(told)[t] \in [current : BOOLEAN, answers : Nat] /\ Answered(told)[t].answers <= 1
      BY <1>1, <3>1
    <3> QED
      BY <2>1, <3>2, RetiredCall
  <2>3. CASE t \notin told
    <3>1. Answered(told)[t] = calls[t]
      BY <1>1, <2>3 DEF Answered
    <3>2. Answered(told)[t] \in [current : BOOLEAN, answers : Nat] /\ Answered(told)[t].answers <= 1
      BY <1>1, <3>1
    <3> QED
      BY <2>1, <3>2, RetiredCall
  <2> QED
    BY <2>2, <2>3
<1>3. pending' = {}
  BY <1>1 DEF RetiresCurrent, CurrentCalls
<1>4. DOMAIN calls' = Tickets /\ calls' \in [Tickets -> [current : BOOLEAN, answers : Nat]]
  <2>1. calls' = [t \in Tickets |-> Retired(Answered(told)[t])]
    BY DEF RetiresCurrent
  <2>2. \A t \in Tickets : Retired(Answered(told)[t]) \in [current : BOOLEAN, answers : Nat]
    BY <1>2, <2>1, Zenon
  <2> QED
    BY <2>1, <2>2
<1>5. CallsInv'
  BY <1>2, <1>3 DEF CallsInv
<1>6. /\ router' \in [current : BOOLEAN,
              stage : {"running", "reserved", "accepted", "failed", "retired", "closed"}]
      /\ router'.stage = router.stage
      /\ reader' \in [up : BOOLEAN, ticket : Tickets \cup {None}]
      /\ reader'.ticket = reader.ticket
  BY DEF RetiresCurrent, AuthTypeOK
<1> QED
  BY <1>3, <1>4, <1>5, <1>6

\* A call is admitted, or the reader that admits it fails.
LEMMA CallKeeps ==
  ASSUME AuthInv, Call
  PROVE  AuthInv'
<1>1. /\ reader.ticket = None /\ Running /\ UNCHANGED <<tail, Running>>
      /\ UNCHANGED <<router, queue, tail, completion, worker, operations, broker>>
  BY DEF Call, ReaderAtCall, TransitionFree, Running
<1>2. WorkerInv' /\ BrokerInv(broker)'
  BY <1>1, WorkerKept DEF AuthInv
<1>3. CASE reserve
  <2>1. PICK t \in Tickets \ Used :
          /\ ~tail
          /\ calls' = [calls EXCEPT ![t] = [current |-> TRUE, answers |-> 0]]
          /\ pending' = pending \union {t}
          /\ reader' = [reader EXCEPT !.ticket = t]
          /\ UNCHANGED ui
    BY <1>3 DEF reserve
  <2>2. [current |-> TRUE, answers |-> 0] \in [current : BOOLEAN, answers : Nat]
    OBVIOUS
  <2>3. calls' \in [Tickets -> [current : BOOLEAN, answers : Nat]]
    BY <2>1, <2>2 DEF AuthInv, AuthTypeOK
  <2>4. AuthTypeOK'
    <3>1. reader' \in [up : BOOLEAN, ticket : Tickets \cup {None}]
      BY <2>1 DEF AuthInv, AuthTypeOK
    <3>2. pending' \subseteq Tickets
      BY <2>1 DEF AuthInv, AuthTypeOK
    <3> QED
      BY <1>1, <2>1, <2>3, <3>1, <3>2 DEF AuthInv, AuthTypeOK
  <2>5. ReaderInv'
    BY <1>1, <2>1 DEF AuthInv, ReaderInv
  <2>6. /\ calls'[t].current /\ calls'[t].answers = 0
        /\ \A u \in Tickets \ {t} : calls'[u] = calls[u]
    BY <2>1 DEF AuthInv, AuthTypeOK
  <2>7. reader'.ticket = t
    BY <2>1 DEF AuthInv, AuthTypeOK
  <2>8. \A u \in Tickets : u \in Carried => u \in Carried'
    BY <1>1, <2>7 DEF Carried, None, Tickets
  <2>9. t \in Carried'
    BY <2>7 DEF Carried
  <2>10. CallsInv'
    <3>1. \A u \in pending' : calls'[u].current /\ calls'[u].answers = 0
      BY <2>1, <2>6 DEF AuthInv, AuthTypeOK, CallsInv
    <3>2. \A u \in Tickets : calls'[u].answers <= 1
      BY <2>6 DEF AuthInv, CallsInv
    <3>3. \A u \in Tickets :
            calls'[u].answers = 0 /\ calls'[u].current => u \in pending' /\ u \in Carried'
      BY <1>1, <2>1, <2>6, <2>8, <2>9 DEF AuthInv, CallsInv
    <3> QED
      BY <3>1, <3>2, <3>3 DEF CallsInv
  <2>11. QuitInv'
    BY <1>1, <2>1 DEF AuthInv, QuitInv
  <2> QED
    BY <1>2, <2>4, <2>5, <2>10, <2>11 DEF AuthInv
<1>4. CASE Rejected
  <2>1. /\ reader' = [up |-> FALSE, ticket |-> None]
        /\ ui' = [ui EXCEPT !.fatal = TRUE]
        /\ UNCHANGED <<calls, pending>>
    BY <1>4 DEF Rejected, ReaderFails
  <2>2. ui' \in [quits : Nat, fatal : BOOLEAN, stopped : BOOLEAN] /\ ui'.quits = ui.quits
    BY <2>1 DEF AuthInv, AuthTypeOK
  <2>3. reader' \in [up : BOOLEAN, ticket : Tickets \cup {None}] /\ reader'.ticket = None
    BY <2>1
  <2>4. AuthTypeOK'
    BY <1>1, <2>1, <2>2, <2>3 DEF AuthInv, AuthTypeOK
  <2>5. CallsInv'
    BY <1>1, <2>1, <2>3, CallsKept DEF AuthInv
  <2> QED
    BY <1>1, <1>2, <2>2, <2>3, <2>4, <2>5 DEF AuthInv, ReaderInv, QuitInv
<1> QED
  BY <1>3, <1>4 DEF Call

\* The reader hands its call over, or finds that the worker has returned.
LEMMA SendKeeps ==
  ASSUME AuthInv, Send
  PROVE  AuthInv'
<1>1. /\ reader.ticket \in Tickets /\ reader.ticket # None /\ Running
      /\ tail => worker.failure
      /\ worker.pc = "ended" => tail
  BY DEF Send, AuthInv, AuthTypeOK, ReaderInv, WorkerInv
<1>2. UNCHANGED <<router, calls, tail, completion, worker, operations, broker, Running>>
  BY DEF Send, Running
<1>3. WorkerInv' /\ BrokerInv(broker)'
  BY <1>2, WorkerKept DEF AuthInv
<1>4. CASE /\ worker.pc # "ended"
           /\ queue' = Append(queue, reader.ticket)
           /\ reader' = [reader EXCEPT !.ticket = None]
           /\ UNCHANGED <<pending, ui>>
  <2>1. queue' \in Seq(Tickets) /\ ToSet(queue') = ToSet(queue) \cup {reader.ticket}
    BY <1>1, <1>4, Sent DEF AuthInv, AuthTypeOK
  <2>2. reader' \in [up : BOOLEAN, ticket : Tickets \cup {None}] /\ reader'.ticket = None
    BY <1>4 DEF AuthInv, AuthTypeOK
  <2>3. AuthTypeOK'
    BY <1>2, <1>4, <2>1, <2>2 DEF AuthInv, AuthTypeOK
  <2>4. ReaderInv'
    BY <1>1, <1>2, <1>4, <2>2 DEF AuthInv, ReaderInv, WorkerInv
  <2>5. \A u \in Carried : u \in Carried'
    BY <1>2, <1>4, <2>1, <2>2 DEF Carried
  <2>6. CallsInv'
    BY <1>2, <1>4, <2>5 DEF AuthInv, CallsInv
  <2> QED
    BY <1>2, <1>3, <1>4, <2>3, <2>4, <2>6 DEF AuthInv, QuitInv
<1>5. CASE /\ worker.pc = "ended"
           /\ reader' = [reader EXCEPT !.ticket = None]
           /\ UNCHANGED <<pending, queue, ui>>
  <2>1. reader' \in [up : BOOLEAN, ticket : Tickets \cup {None}] /\ reader'.ticket = None
    BY <1>5 DEF AuthInv, AuthTypeOK
  <2>2. AuthTypeOK'
    BY <1>2, <1>5, <2>1 DEF AuthInv, AuthTypeOK
  <2>3. CallsInv'
    BY <1>1, <1>2, <1>5 DEF AuthInv, CallsInv
  <2> QED
    BY <1>2, <1>3, <1>5, <2>1, <2>2, <2>3 DEF AuthInv, ReaderInv, QuitInv
<1>6. CASE /\ worker.pc = "ended"
           /\ pending' = pending \ {reader.ticket}
           /\ ReaderFails
           /\ UNCHANGED queue
  <2>1. /\ reader' \in [up : BOOLEAN, ticket : Tickets \cup {None}] /\ reader'.ticket = None
        /\ ui' \in [quits : Nat, fatal : BOOLEAN, stopped : BOOLEAN] /\ ui'.quits = ui.quits
    BY <1>6 DEF AuthInv, AuthTypeOK, ReaderFails
  <2>2. AuthTypeOK'
    BY <1>2, <1>6, <2>1 DEF AuthInv, AuthTypeOK
  <2>3. CallsInv'
    BY <1>1, <1>2, <1>6 DEF AuthInv, CallsInv
  <2> QED
    BY <1>2, <1>3, <1>6, <2>1, <2>2, <2>3 DEF AuthInv, ReaderInv, QuitInv
<1> QED
  BY <1>4, <1>5, <1>6 DEF Send

\* The retirement of the current generation.
LEMMA RetireKeeps ==
  ASSUME AuthInv, retire_generation
  PROVE  AuthInv'
<1>1. /\ reader.ticket = None
      /\ RetiresCurrent(pending \intersect CurrentCalls)
      /\ UNCHANGED <<queue, tail, completion, worker, operations, broker, ui>>
  BY DEF retire_generation, TransitionFree
<1>2. pending \intersect CurrentCalls \in SUBSET pending
  OBVIOUS
<1>3. /\ calls' \in [Tickets -> [current : BOOLEAN, answers : Nat]]
      /\ pending' = {}
      /\ router' \in [current : BOOLEAN,
           stage : {"running", "reserved", "accepted", "failed", "retired", "closed"}]
      /\ router'.stage = router.stage
      /\ reader' \in [up : BOOLEAN, ticket : Tickets \cup {None}]
      /\ reader'.ticket = reader.ticket
      /\ CallsInv'
  BY <1>1, <1>2, Retirement DEF AuthInv
<1>4. WorkerInv' /\ BrokerInv(broker)'
  BY <1>1, WorkerKept DEF AuthInv
<1>5. AuthTypeOK'
  BY <1>1, <1>3 DEF AuthInv, AuthTypeOK
<1> QED
  BY <1>1, <1>3, <1>4, <1>5 DEF AuthInv, ReaderInv, QuitInv

\* A new generation starts with a reader that holds nothing.
LEMMA InstallKeeps ==
  ASSUME AuthInv, install_generation
  PROVE  AuthInv'
<1>1. /\ reader.ticket = None /\ Running
      /\ router' = [router EXCEPT !.current = TRUE]
      /\ reader' = [up |-> TRUE, ticket |-> None]
      /\ UNCHANGED <<calls, pending, queue, tail, completion, worker, operations, broker, ui>>
  BY DEF install_generation, TransitionFree
<1>2. /\ router' \in [current : BOOLEAN,
           stage : {"running", "reserved", "accepted", "failed", "retired", "closed"}]
      /\ router'.stage = router.stage /\ reader'.ticket = None
      /\ reader' \in [up : BOOLEAN, ticket : Tickets \cup {None}]
  BY <1>1 DEF AuthInv, AuthTypeOK
<1>3. AuthTypeOK'
  BY <1>1, <1>2 DEF AuthInv, AuthTypeOK
<1>4. WorkerInv' /\ BrokerInv(broker)'
  BY <1>1, WorkerKept DEF AuthInv
<1>5. CallsInv'
  BY <1>1, <1>2, CallsKept DEF AuthInv, Running
<1> QED
  BY <1>1, <1>2, <1>3, <1>4, <1>5 DEF AuthInv, ReaderInv, QuitInv

\* Quit is reserved when no call is being admitted.
LEMMA ReserveQuitKeeps ==
  ASSUME AuthInv, ReserveQuit
  PROVE  AuthInv'
<1>1. /\ reader.ticket = None /\ Running
      /\ router' = [router EXCEPT !.stage = "reserved"]
      /\ reader' = [reader EXCEPT !.up = FALSE]
      /\ UNCHANGED <<calls, pending, queue, tail, completion, worker, operations, broker, ui>>
  BY DEF ReserveQuit, TransitionFree
<1>2. /\ router' \in [current : BOOLEAN,
           stage : {"running", "reserved", "accepted", "failed", "retired", "closed"}]
      /\ router'.stage = "reserved" /\ reader'.ticket = None
      /\ reader' \in [up : BOOLEAN, ticket : Tickets \cup {None}]
  BY <1>1 DEF AuthInv, AuthTypeOK
<1>3. AuthTypeOK'
  BY <1>1, <1>2 DEF AuthInv, AuthTypeOK
<1>4. WorkerInv' /\ BrokerInv(broker)'
  BY <1>1, WorkerKept DEF AuthInv
<1>5. CallsInv'
  BY <1>1, <1>2, CallsKept DEF AuthInv, Running
<1>6. ~completion.asked
  BY <1>1 DEF AuthInv, QuitInv, Running
<1> QED
  BY <1>1, <1>2, <1>3, <1>4, <1>5, <1>6 DEF AuthInv, ReaderInv, QuitInv

\* Once Quit is on its way no reader holds a call.
LEMMA QuitHoldsNothing ==
  ASSUME AuthInv, ~Running
  PROVE  reader.ticket = None
  BY DEF AuthInv, ReaderInv

\* The primary owner prepares, or fails.
LEMMA AcceptQuitKeeps ==
  ASSUME AuthInv, AcceptQuit
  PROVE  AuthInv'
<1>1. /\ router.stage = "reserved"
      /\ UNCHANGED <<calls, pending, queue, tail, completion, reader, worker, operations, broker>>
  BY DEF AcceptQuit
<1>2. reader.ticket = None /\ ~completion.asked
  BY <1>1, QuitHoldsNothing DEF Running, AuthInv, QuitInv
<1>3. /\ router' \in [current : BOOLEAN,
           stage : {"running", "reserved", "accepted", "failed", "retired", "closed"}]
      /\ router'.stage # "running"
  BY DEF AcceptQuit, AuthInv, AuthTypeOK
<1>4. ui' \in [quits : Nat, fatal : BOOLEAN, stopped : BOOLEAN] /\ ui'.quits = ui.quits
  <2>1. ui \in [quits : Nat, fatal : BOOLEAN, stopped : BOOLEAN]
    BY DEF AuthInv, AuthTypeOK
  <2>2. CASE ui' = ui
    BY <2>1, <2>2
  <2>3. CASE ui' # ui
    <3> DEFINE fatal == ui.fatal \/ router.current
    <3>1. fatal \in BOOLEAN
      OBVIOUS
    <3>2. ui' = [ui EXCEPT !.fatal = fatal]
      BY <2>3 DEF AcceptQuit
    <3> HIDE DEF fatal
    <3> QED
      BY <2>1, <3>1, <3>2
  <2> QED
    BY <2>2, <2>3
<1>5. AuthTypeOK'
  BY <1>1, <1>3, <1>4 DEF AuthInv, AuthTypeOK
<1>6. WorkerInv' /\ BrokerInv(broker)'
  BY <1>1, WorkerKept DEF AuthInv
<1>7. CallsInv'
  BY <1>1, <1>3, CallsKept DEF AuthInv, Running
<1> QED
  BY <1>1, <1>2, <1>3, <1>4, <1>5, <1>6, <1>7 DEF AuthInv, ReaderInv, QuitInv

\* Quit answers the calls that are owed an answer and ends admission.
LEMMA RetireForQuitKeeps ==
  ASSUME AuthInv, retire_auth_for_quit
  PROVE  AuthInv'
<1>1. /\ router.stage = "accepted"
      /\ calls' = Answered(pending \intersect CurrentCalls)
      /\ pending' = pending \ CurrentCalls
      /\ tail' = TRUE
      /\ router' = [router EXCEPT !.stage = "retired"]
      /\ UNCHANGED <<queue, completion, reader, worker, operations, broker, ui>>
  BY DEF retire_auth_for_quit
<1>2. reader.ticket = None /\ ~completion.asked
  BY <1>1, QuitHoldsNothing DEF Running, AuthInv, QuitInv
<1>3. /\ router' \in [current : BOOLEAN,
           stage : {"running", "reserved", "accepted", "failed", "retired", "closed"}]
      /\ router'.stage = "retired"
  BY <1>1 DEF AuthInv, AuthTypeOK
<1>4. /\ calls \in [Tickets -> [current : BOOLEAN, answers : Nat]]
      /\ pending \subseteq Tickets
      /\ \A t \in pending : calls[t].current /\ calls[t].answers = 0
      /\ \A t \in Tickets : calls[t].answers <= 1
  BY DEF AuthInv, AuthTypeOK, CallsInv
<1>5. pending' = {}
  BY <1>1, <1>4 DEF CurrentCalls
<1> DEFINE told == pending \intersect CurrentCalls
<1>6. ASSUME NEW t \in Tickets
      PROVE  Answered(told)[t] \in [current : BOOLEAN, answers : Nat] /\ Answered(told)[t].answers <= 1
  <2>1. CASE t \in told
    <3>1. Answered(told)[t] = [calls[t] EXCEPT !.answers = 1]
      BY <1>4, <2>1 DEF Answered
    <3> QED
      BY <1>4, <3>1
  <2>2. CASE t \notin told
    BY <1>4, <2>2 DEF Answered
  <2> QED
    BY <2>1, <2>2
<1>7. calls' = Answered(told)
  BY <1>1
<1>8. calls' \in [Tickets -> [current : BOOLEAN, answers : Nat]]
  <2>1. calls' = [t \in Tickets |-> Answered(told)[t]]
    BY <1>1 DEF Answered
  <2> HIDE DEF told
  <2> QED
    BY <1>6, <2>1
<1>9. AuthTypeOK'
  <2>1. /\ tail' \in BOOLEAN /\ pending' \subseteq Tickets
        /\ UNCHANGED <<queue, completion, reader, worker, operations, broker, ui>>
    BY <1>1, <1>5
  <2> HIDE DEF told
  <2> QED
    BY <1>3, <1>8, <2>1 DEF AuthInv, AuthTypeOK
<1>10. WorkerInv' /\ BrokerInv(broker)'
  BY <1>1, WorkerKept DEF AuthInv
<1>11. CallsInv'
  <2> HIDE DEF told
  <2>1. \A t \in Tickets : calls'[t].answers <= 1
    BY <1>6, <1>7
  <2> QED
    BY <1>1, <1>5, <2>1 DEF CallsInv
<1> QED
  BY <1>1, <1>2, <1>3, <1>9, <1>10, <1>11 DEF AuthInv, ReaderInv, QuitInv

\* The end of Quit asks the window loop to quit once the worker has drained.
LEMMA FinishQuitKeeps ==
  ASSUME AuthInv, FinishQuit
  PROVE  AuthInv'
<1>1. /\ router.stage = "retired"
      /\ router' = [current |-> FALSE, stage |-> "closed"]
      /\ UNCHANGED <<calls, pending, queue, reader, worker, operations, broker>>
  BY DEF FinishQuit
<1>2. reader.ticket = None /\ ~completion.asked /\ ui.quits = 0
  BY <1>1, QuitHoldsNothing DEF Running, AuthInv, QuitInv
<1>3. /\ completion \in [drained : BOOLEAN, asked : BOOLEAN]
      /\ ui \in [quits : Nat, fatal : BOOLEAN, stopped : BOOLEAN]
      /\ tail \in BOOLEAN
  BY DEF AuthInv, AuthTypeOK
<1>4. /\ router' \in [current : BOOLEAN,
           stage : {"running", "reserved", "accepted", "failed", "retired", "closed"}]
      /\ router'.stage = "closed"
  BY <1>1
<1>5. /\ completion' \in [drained : BOOLEAN, asked : BOOLEAN]
      /\ ui' \in [quits : Nat, fatal : BOOLEAN, stopped : BOOLEAN]
      /\ tail' \in BOOLEAN /\ (tail => tail')
      /\ completion'.drained = completion.drained
      /\ ui'.quits = IF completion'.drained /\ completion'.asked THEN 1 ELSE 0
  <2>1. CASE quit_after_drain
    <3>1. /\ tail' = TRUE
          /\ completion' = [completion EXCEPT !.asked = TRUE]
          /\ ui' = [ui EXCEPT !.quits = IF completion.drained THEN 1 ELSE 0]
      BY <1>2, <1>3, <2>1 DEF quit_after_drain
    <3>2. completion' \in [drained : BOOLEAN, asked : BOOLEAN] /\ completion'.asked
          /\ completion'.drained = completion.drained
      BY <1>3, <3>1
    <3>3. CASE completion.drained
      BY <1>3, <3>1, <3>2, <3>3
    <3>4. CASE ~completion.drained
      BY <1>3, <3>1, <3>2, <3>4
    <3> QED
      BY <3>3, <3>4
  <2>2. CASE ui' = [ui EXCEPT !.fatal = TRUE] /\ UNCHANGED <<tail, completion>>
    BY <1>2, <1>3, <2>2
  <2>3. CASE UNCHANGED <<tail, completion, ui>>
    BY <1>2, <1>3, <2>3
  <2> QED
    BY <2>1, <2>2, <2>3 DEF FinishQuit
<1>6. AuthTypeOK'
  BY <1>1, <1>4, <1>5 DEF AuthInv, AuthTypeOK
<1>7. WorkerInv' /\ BrokerInv(broker)'
  BY <1>1, <1>5, WorkerKept DEF AuthInv
<1>8. CallsInv'
  BY <1>1, <1>4, <1>5, CallsKept DEF AuthInv, Running
<1> QED
  BY <1>1, <1>2, <1>4, <1>5, <1>6, <1>7, <1>8 DEF AuthInv, ReaderInv, QuitInv

\* The window loop ends admission when it sees the session leave.
LEMMA DriveKeeps ==
  ASSUME AuthInv, prepare_auth_presentation_drive
  PROVE  AuthInv'
<1>1. /\ ~Running /\ tail' = TRUE
      /\ UNCHANGED <<router, calls, pending, queue, completion, reader, worker, operations,
                     broker, ui>>
  BY DEF prepare_auth_presentation_drive
<1>2. reader.ticket = None
  BY <1>1, QuitHoldsNothing
<1>3. AuthTypeOK'
  BY <1>1 DEF AuthInv, AuthTypeOK
<1>4. WorkerInv' /\ BrokerInv(broker)'
  BY <1>1, WorkerKept DEF AuthInv
<1>5. CallsInv'
  BY <1>1, CallsKept DEF AuthInv, Running
<1> QED
  BY <1>1, <1>2, <1>3, <1>4, <1>5 DEF AuthInv, ReaderInv, QuitInv

\* The loop's owner retires the generation and ends admission.
LEMMA StopKeeps ==
  ASSUME AuthInv, stop_and_join
  PROVE  AuthInv'
<1>1. /\ reader.ticket = None /\ tail' = TRUE
      /\ RetiresCurrent({})
      /\ ui' = [ui EXCEPT !.stopped = TRUE]
      /\ UNCHANGED <<queue, completion, worker, operations, broker>>
  BY DEF stop_and_join, TransitionFree
<1>2. {} \in SUBSET pending
  OBVIOUS
<1>3. /\ calls' \in [Tickets -> [current : BOOLEAN, answers : Nat]]
      /\ pending' = {}
      /\ router' \in [current : BOOLEAN,
           stage : {"running", "reserved", "accepted", "failed", "retired", "closed"}]
      /\ router'.stage = router.stage
      /\ reader' \in [up : BOOLEAN, ticket : Tickets \cup {None}]
      /\ reader'.ticket = reader.ticket
      /\ CallsInv'
  BY <1>1, <1>2, Retirement DEF AuthInv
<1>4. WorkerInv' /\ BrokerInv(broker)'
  BY <1>1, WorkerKept DEF AuthInv
<1>5. ui' \in [quits : Nat, fatal : BOOLEAN, stopped : BOOLEAN] /\ ui'.quits = ui.quits
  BY <1>1 DEF AuthInv, AuthTypeOK
<1>6. AuthTypeOK'
  BY <1>1, <1>3, <1>5 DEF AuthInv, AuthTypeOK
<1> QED
  BY <1>1, <1>3, <1>4, <1>5, <1>6 DEF AuthInv, ReaderInv, QuitInv

(* The worker's locals but for its failure.                                *)
SameLocals(w, v) ==
  /\ v.pc = w.pc /\ v.todo = w.todo /\ v.outbox = w.outbox /\ v.polled = w.polled
  /\ v.progress = w.progress /\ v.work = w.work /\ v.started = w.started /\ v.fault = w.fault

\* A worker's step ends well, or records a failure and ends admission.
LEMMA Outcome ==
  ASSUME AuthTypeOK, NEW w \in Workers, NoFailure(w) \/ record_failure(w)
  PROVE  /\ worker' \in Workers /\ SameLocals(w, worker')
         /\ w.failure => worker'.failure
         /\ worker'.failure => w.failure \/ tail'
         /\ tail' \in BOOLEAN /\ (tail => tail')
         /\ tail' => tail \/ worker'.failure
         /\ ui' \in [quits : Nat, fatal : BOOLEAN, stopped : BOOLEAN] /\ ui'.quits = ui.quits
<1>1. ui \in [quits : Nat, fatal : BOOLEAN, stopped : BOOLEAN] /\ tail \in BOOLEAN
  BY DEF AuthTypeOK
<1>2. CASE NoFailure(w)
  BY <1>1, <1>2 DEF NoFailure, SameLocals
<1>3. CASE record_failure(w)
  <2> DEFINE yes == TRUE
             fatal == ui.fatal \/ ~w.failure
  <2>1. yes \in BOOLEAN /\ fatal \in BOOLEAN
    OBVIOUS
  <2>2. worker' = [w EXCEPT !.failure = yes] /\ ui' = [ui EXCEPT !.fatal = fatal] /\ tail' = TRUE
    BY <1>3 DEF record_failure
  <2>3. worker'.failure
    BY <2>2 DEF Workers
  <2> HIDE DEF yes, fatal
  <2>4. ui' \in [quits : Nat, fatal : BOOLEAN, stopped : BOOLEAN] /\ ui'.quits = ui.quits
    BY <1>1, <2>1, <2>2
  <2>5. worker' \in Workers /\ SameLocals(w, worker')
    BY <2>1, <2>2 DEF Workers, SameLocals
  <2> QED
    BY <2>2, <2>3, <2>4, <2>5
<1> QED
  BY <1>2, <1>3

\* The events of operations hand their callers to publication.
LEMMA EmittedEffect ==
  ASSUME AuthTypeOK, NEW w \in Workers, NEW ids \in SUBSET DOMAIN operations
  PROVE  LET v == Emitted(w, ids) IN
         /\ v \in Workers /\ v.failure = w.failure
         /\ v.outbox = w.outbox \cup UNION {operations[id].callers : id \in ids}
         /\ v.pc = w.pc /\ v.todo = w.todo /\ v.polled = w.polled /\ v.progress = w.progress
         /\ v.work = w.work /\ v.started = w.started /\ v.fault = w.fault
<1> DEFINE out == w.outbox \cup UNION {operations[id].callers : id \in ids}
<1>1. out \in SUBSET Tickets
  BY DEF AuthTypeOK, Operations, Workers
<1>2. Emitted(w, ids) = [w EXCEPT !.outbox = out]
  BY DEF Emitted
<1> HIDE DEF out
<1>3. Emitted(w, ids) \in Workers /\ Emitted(w, ids).failure = w.failure /\ Emitted(w, ids).outbox = out
  BY <1>1, <1>2 DEF Workers
<1>4. LET v == Emitted(w, ids) IN
      /\ v.pc = w.pc /\ v.todo = w.todo /\ v.polled = w.polled /\ v.progress = w.progress
      /\ v.work = w.work /\ v.started = w.started /\ v.fault = w.fault
  BY <1>2 DEF Workers
<1> QED
  BY <1>3, <1>4 DEF out

\* The operations an event names lose their callers, the others nothing.
LEMMA WithoutCallersEffect ==
  ASSUME AuthTypeOK, NEW ids
  PROVE  LET ops == WithoutCallers(ids) IN
         /\ DOMAIN ops = DOMAIN operations /\ ops \in [DOMAIN operations -> Operations]
         /\ \A id \in DOMAIN operations :
              IF id \in ids THEN ops[id].callers = {} ELSE ops[id] = operations[id]
<1> DEFINE none == {}
<1>1. none \in SUBSET Tickets
  OBVIOUS
<1>2. ASSUME NEW id \in DOMAIN operations
      PROVE  /\ WithoutCallers(ids)[id] \in Operations
             /\ id \in ids => WithoutCallers(ids)[id].callers = {}
             /\ id \notin ids => WithoutCallers(ids)[id] = operations[id]
  <2>1. operations[id] \in Operations
    BY DEF AuthTypeOK
  <2>2. CASE id \in ids
    <3>1. WithoutCallers(ids)[id] = [operations[id] EXCEPT !.callers = none]
      BY <2>2 DEF WithoutCallers
    <3>2. WithoutCallers(ids)[id].callers = none
      BY <2>1, <3>1 DEF Operations
    <3> HIDE DEF none
    <3>3. WithoutCallers(ids)[id] \in Operations
      BY <1>1, <2>1, <3>1 DEF Operations
    <3> QED
      BY <2>2, <3>2, <3>3 DEF none
  <2>3. CASE id \notin ids
    BY <2>1, <2>3 DEF WithoutCallers
  <2> QED
    BY <2>2, <2>3
<1>3. DOMAIN WithoutCallers(ids) = DOMAIN operations
      /\ WithoutCallers(ids) = [id \in DOMAIN operations |-> WithoutCallers(ids)[id]]
  BY DEF WithoutCallers
<1> QED
  BY <1>2, <1>3

\* With nothing left to publish the worker goes back to its loop.
LEMMA ContinuedEffect ==
  ASSUME NEW w \in Workers
  PROVE  LET v == Continued(w) IN
         /\ v \in Workers
         /\ v.todo = w.todo /\ v.outbox = w.outbox /\ v.work = w.work
         /\ v.started = w.started /\ v.failure = w.failure /\ v.fault = w.fault
         /\ w.outbox # {} => v.pc = "publish" /\ v.polled = w.polled /\ v.progress = w.progress
         /\ w.outbox = {} =>
              v.polled = None /\ v.pc = IF w.polled = None THEN "top" ELSE "poll"
<1>1. CASE w.outbox # {}
  <2>1. Continued(w) = [w EXCEPT !.pc = "publish"]
    BY <1>1 DEF Continued
  <2> QED
    BY <1>1, <2>1 DEF Workers
<1>2. CASE w.outbox = {}
  <2> DEFINE pc == IF w.polled = None THEN "top" ELSE "poll"
  <2>1. Continued(w) = [w EXCEPT !.pc = pc, !.polled = None, !.progress = None]
    BY <1>2 DEF Continued
  <2>2. pc \in {"top", "poll"}
    OBVIOUS
  <2>3. None \in Nat /\ None \in {None, "Pending", "Drained", "HostFault"}
    BY DEF None
  <2> HIDE DEF pc
  <2>4. Continued(w) \in Workers
    BY <2>1, <2>2, <2>3 DEF Workers
  <2>5. /\ Continued(w).todo = w.todo /\ Continued(w).outbox = w.outbox
        /\ Continued(w).work = w.work /\ Continued(w).started = w.started
        /\ Continued(w).failure = w.failure /\ Continued(w).fault = w.fault
        /\ Continued(w).polled = None /\ Continued(w).pc = pc
    BY <2>1 DEF Workers
  <2> QED
    BY <1>2, <2>4, <2>5 DEF pc
<1> QED
  BY <1>1, <1>2

\* The top of the worker's loop stops the broker once admission has ended.
LEMMA LoopTopKeeps ==
  ASSUME AuthInv, LoopTop
  PROVE  AuthInv'
<1> DEFINE stops == tail /\ ~worker.started
           told == IF stops THEN stop_for_host_tail(broker).emit ELSE {}
           begun == worker.started \/ tail
           w == [worker EXCEPT !.pc = "poll", !.started = begun, !.todo = DOMAIN operations]
<1>1. /\ worker.pc = "top"
      /\ worker' = Emitted(w, told)
      /\ broker' = IF stops THEN stop_for_host_tail(broker).broker ELSE broker
      /\ operations' = WithoutCallers(told)
      /\ UNCHANGED <<router, calls, pending, queue, tail, completion, reader, ui>>
  BY DEF LoopTop
<1>2. AuthTypeOK /\ BrokerInv(broker) /\ WorkerInv /\ ReaderInv /\ CallsInv /\ QuitInv
  BY DEF AuthInv
<1>3. /\ DOMAIN operations = DOMAIN broker.jobs /\ worker.outbox = {} /\ worker.polled = None
      /\ worker.work = None /\ (worker.started => tail)
  BY <1>1, <1>2 DEF WorkerInv, Publishing
<1>4. /\ BrokerInv(broker') /\ DOMAIN broker'.jobs = DOMAIN operations
      /\ told \subseteq DOMAIN operations
      /\ ~tail => broker' = broker /\ told = {}
      /\ broker'.stopping => tail
  <2>1. CASE stops
    BY <1>1, <1>2, <1>3, <2>1, StopOK
  <2>2. CASE ~stops
    BY <1>1, <1>2, <1>3, <2>2 DEF WorkerInv
  <2> QED
    BY <2>1, <2>2
<1>5. begun \in BOOLEAN /\ (begun => tail)
  BY <1>3
<1>6. DOMAIN operations \subseteq Names
  BY <1>2, <1>3 DEF BrokerInv, BrokerTypeOK
<1> HIDE DEF begun
<1>7. /\ w \in Workers /\ w.pc = "poll" /\ w.started = begun /\ w.todo = DOMAIN operations
      /\ w.outbox = {} /\ w.polled = None /\ w.progress = worker.progress /\ w.work = None
      /\ w.failure = worker.failure /\ w.fault = worker.fault
  BY <1>2, <1>3, <1>5, <1>6 DEF AuthTypeOK, Workers
<1> HIDE DEF w, told
<1>8. /\ worker' \in Workers /\ worker'.pc = "poll" /\ worker'.started = begun
      /\ worker'.todo = DOMAIN operations /\ worker'.polled = None /\ worker'.work = None
      /\ worker'.failure = worker.failure /\ worker'.fault = worker.fault
      /\ worker'.outbox = UNION {operations[id].callers : id \in told}
  BY <1>1, <1>2, <1>4, <1>7, EmittedEffect
<1>9. /\ DOMAIN operations' = DOMAIN operations
      /\ operations' \in [DOMAIN operations -> Operations]
      /\ \A id \in DOMAIN operations :
           IF id \in told THEN operations'[id].callers = {} ELSE operations'[id] = operations[id]
  BY <1>1, <1>2, WithoutCallersEffect
<1>10. AuthTypeOK'
  BY <1>1, <1>2, <1>8, <1>9 DEF AuthTypeOK
<1>11. WorkerInv'
  <2>1. Publishing' = {}
    BY <1>8 DEF Publishing
  <2>2. worker'.outbox # {} => tail' /\ worker'.todo # {}
    BY <1>1, <1>4, <1>8
  <2>3. ASSUME ~tail', NEW id \in DOMAIN operations', broker'.jobs[id].logical_done
        PROVE  operations'[id].callers = {}
    BY <1>1, <1>2, <1>4, <1>9, <2>3 DEF WorkerInv
  <2>4. (worker'.failure => tail') /\ ~worker'.fault /\ (worker'.started => tail')
    BY <1>1, <1>2, <1>5, <1>8 DEF WorkerInv
  <2> QED
    BY <1>1, <1>4, <1>8, <1>9, <2>1, <2>2, <2>3, <2>4 DEF WorkerInv
<1>12. ReaderInv'
  BY <1>1, <1>2, <1>8 DEF ReaderInv, Running
<1>13. CallsInv'
  <2>1. ASSUME ~tail, NEW u \in Carried PROVE u \in Carried'
    <3>1. \A id \in DOMAIN operations : operations'[id] = operations[id]
      BY <1>4, <1>9, <2>1
    <3> QED
      BY <1>1, <1>3, <1>8, <1>9, <2>1, <3>1 DEF Carried
  <2> QED
    BY <1>1, <1>2, <2>1 DEF CallsInv, Running
<1>14. QuitInv'
  BY <1>1, <1>2 DEF QuitInv
<1> QED
  BY <1>4, <1>10, <1>11, <1>12, <1>13, <1>14 DEF AuthInv

\* The worker takes a call, or finds none.
LEMMA ReceiveKeeps ==
  ASSUME AuthInv, Receive
  PROVE  AuthInv'
<1>1. /\ worker.pc = "poll" /\ worker.todo = {}
      /\ UNCHANGED <<router, calls, pending, tail, completion, reader, operations, broker, ui>>
  BY DEF Receive
<1>2. AuthTypeOK /\ BrokerInv(broker) /\ WorkerInv /\ ReaderInv /\ CallsInv /\ QuitInv
  BY DEF AuthInv
<1>3. worker.work = None /\ worker.outbox = {} /\ worker.polled = None
  BY <1>1, <1>2 DEF WorkerInv
<1>4. /\ worker' \in Workers
      /\ worker'.todo = {} /\ worker'.outbox = {} /\ worker'.polled = None
      /\ worker'.started = worker.started /\ worker'.failure = worker.failure
      /\ worker'.fault = worker.fault
      /\ worker'.pc \in {"top", "enter"} /\ (worker'.pc = "enter" <=> worker'.work # None)
      /\ queue' \in Seq(Tickets)
      /\ ToSet(queue) \subseteq ToSet(queue') \cup {worker'.work}
  <2>1. CASE queue = << >>
    BY <1>1, <1>2, <1>3, <2>1 DEF Receive, AuthTypeOK, Workers
  <2>2. CASE queue # << >>
    <3>1. /\ Head(queue) \in Tickets /\ Tail(queue) \in Seq(Tickets)
          /\ ToSet(queue) = ToSet(Tail(queue)) \cup {Head(queue)}
      BY <1>2, <2>2, Taken DEF AuthTypeOK
    <3>2. Head(queue) # None
      BY <3>1 DEF Tickets, None
    <3>3. worker' = [worker EXCEPT !.pc = "enter", !.work = Head(queue)] /\ queue' = Tail(queue)
      BY <2>2 DEF Receive
    <3>4. worker'.work = Head(queue) /\ worker'.pc = "enter"
      BY <1>2, <3>3 DEF AuthTypeOK, Workers
    <3>5. /\ worker' \in Workers
          /\ worker'.todo = {} /\ worker'.outbox = {} /\ worker'.polled = None
          /\ worker'.started = worker.started /\ worker'.failure = worker.failure
          /\ worker'.fault = worker.fault
      BY <1>1, <1>2, <1>3, <3>1, <3>3 DEF AuthTypeOK, Workers
    <3> QED
      BY <3>1, <3>2, <3>3, <3>4, <3>5
  <2> QED
    BY <2>1, <2>2
<1>5. AuthTypeOK'
  BY <1>1, <1>2, <1>4 DEF AuthTypeOK
<1>6. Publishing = {} /\ Publishing' = {}
  BY <1>1, <1>4 DEF Publishing
<1>7. WorkerInv'
  BY <1>1, <1>2, <1>4, <1>6 DEF WorkerInv
<1>8. ReaderInv'
  BY <1>1, <1>2, <1>4 DEF ReaderInv, Running
<1>9. ASSUME NEW u \in Tickets, u \in Carried PROVE u \in Carried'
  <2>1. u # None
    BY DEF Tickets, None
  <2> QED
    BY <1>1, <1>3, <1>4, <1>9, <2>1 DEF Carried
<1>10. CallsInv'
  BY <1>1, <1>2, <1>9 DEF CallsInv, Running
<1>11. QuitInv'
  BY <1>1, <1>2, <1>4 DEF QuitInv
<1>12. BrokerInv(broker')
  BY <1>1, <1>2
<1> QED
  BY <1>5, <1>7, <1>8, <1>10, <1>11, <1>12 DEF AuthInv

\* The worker drops what is left in its channel.
LEMMA DrainQueueKeeps ==
  ASSUME AuthInv, DrainQueue
  PROVE  AuthInv'
<1>1. /\ worker.pc = "poll" /\ worker.todo = {} /\ worker.started /\ DOMAIN operations = {}
      /\ pending' = pending \ ToSet(queue)
      /\ queue' = << >>
      /\ worker' = [worker EXCEPT !.pc = "finish"]
      /\ UNCHANGED <<router, calls, tail, completion, reader, operations, broker, ui>>
  BY DEF DrainQueue
<1>2. AuthTypeOK /\ BrokerInv(broker) /\ WorkerInv /\ ReaderInv /\ CallsInv /\ QuitInv
  BY DEF AuthInv
<1>3. /\ worker' \in Workers /\ worker'.pc = "finish" /\ worker'.work = worker.work
      /\ worker'.outbox = worker.outbox /\ worker'.polled = worker.polled
      /\ worker'.started = worker.started /\ worker'.failure = worker.failure
      /\ worker'.fault = worker.fault
  BY <1>1, <1>2 DEF AuthTypeOK, Workers
<1>4. worker.work = None /\ worker.outbox = {} /\ worker.polled = None /\ tail
  BY <1>1, <1>2 DEF WorkerInv
<1>5. queue' \in Seq(Tickets) /\ pending' \subseteq pending
  BY <1>1
<1>6. AuthTypeOK'
  BY <1>1, <1>2, <1>3, <1>5 DEF AuthTypeOK
<1>7. Publishing = {} /\ Publishing' = {}
  BY <1>1, <1>3 DEF Publishing
<1>8. WorkerInv'
  BY <1>1, <1>2, <1>3, <1>4, <1>7 DEF WorkerInv
<1>9. CallsInv'
  BY <1>1, <1>2, <1>4, <1>5 DEF CallsInv
<1>10. ReaderInv'
  BY <1>1, <1>2, <1>3 DEF ReaderInv, Running
<1>11. QuitInv'
  BY <1>1, <1>2 DEF QuitInv
<1>12. BrokerInv(broker')
  BY <1>1, <1>2
<1> QED
  BY <1>6, <1>8, <1>9, <1>10, <1>11, <1>12 DEF AuthInv

\* A session that has not failed leaves no lease behind.
LEMMA FinishTailKeeps ==
  ASSUME AuthInv, finish_worker_tail
  PROVE  AuthInv'
<1> DEFINE left == Used \ pending
           fault == worker.fault \/ (left # {} /\ ~worker.failure)
<1>1. /\ worker.pc = "finish"
      /\ pending' = {}
      /\ worker' = [worker EXCEPT !.pc = "ended", !.fault = fault]
      /\ IF left = {} /\ ~worker.failure THEN physically_drained ELSE UNCHANGED <<completion, ui>>
      /\ UNCHANGED <<router, calls, queue, tail, reader, operations, broker>>
  BY DEF finish_worker_tail
<1>2. AuthTypeOK /\ BrokerInv(broker) /\ WorkerInv /\ ReaderInv /\ CallsInv /\ QuitInv
  BY DEF AuthInv
<1>3. /\ worker.work = None /\ worker.outbox = {} /\ worker.polled = None /\ tail
      /\ worker.started /\ DOMAIN operations = {}
  BY <1>1, <1>2 DEF WorkerInv
<1>4. ~worker.failure => left = {}
  <2> SUFFICES ASSUME ~worker.failure PROVE left = {}
    OBVIOUS
  <2>1. queue = << >> /\ reader.ticket = None
    BY <1>1, <1>2, <1>3 DEF ReaderInv
  <2>2. ToSet(queue) = {}
    BY <2>1 DEF ToSet
  <2> QED
    BY <1>3, <2>1, <2>2 DEF Used
<1>5. ~fault
  BY <1>2, <1>4 DEF WorkerInv
<1> HIDE DEF fault
<1>6. /\ worker'.pc = "ended" /\ worker'.work = worker.work
      /\ worker'.outbox = worker.outbox /\ worker'.polled = worker.polled
      /\ worker'.started = worker.started /\ worker'.failure = worker.failure
      /\ worker'.fault = fault
  BY <1>1, <1>2 DEF AuthTypeOK, Workers
<1>7. worker' \in Workers
  <2>1. fault \in BOOLEAN
    BY DEF fault
  <2> QED
    BY <1>1, <1>2, <2>1 DEF AuthTypeOK, Workers
<1>8. Publishing = {} /\ Publishing' = {}
  BY <1>1, <1>6 DEF Publishing
<1>9. WorkerInv'
  BY <1>1, <1>2, <1>3, <1>5, <1>6, <1>8 DEF WorkerInv
<1>10. /\ completion' \in [drained : BOOLEAN, asked : BOOLEAN]
       /\ ui' \in [quits : Nat, fatal : BOOLEAN, stopped : BOOLEAN]
       /\ QuitInv'
  <2>1. /\ ~completion.drained /\ ui.quits = 0
        /\ completion \in [drained : BOOLEAN, asked : BOOLEAN]
        /\ ui \in [quits : Nat, fatal : BOOLEAN, stopped : BOOLEAN]
    BY <1>1, <1>2 DEF QuitInv, AuthTypeOK
  <2>2. CASE physically_drained
    <3>1. completion' = [completion EXCEPT !.drained = TRUE]
      BY <2>2 DEF physically_drained
    <3>2. completion' \in [drained : BOOLEAN, asked : BOOLEAN] /\ completion'.drained
          /\ completion'.asked = completion.asked
      BY <2>1, <3>1
    <3>3. CASE completion.asked
      <4>1. ui' = [ui EXCEPT !.quits = 1]
        BY <2>1, <2>2, <3>3 DEF physically_drained
      <4>2. ui' \in [quits : Nat, fatal : BOOLEAN, stopped : BOOLEAN] /\ ui'.quits = 1
        BY <2>1, <4>1
      <4> QED
        BY <1>1, <1>2, <1>6, <3>2, <3>3, <4>2 DEF QuitInv
    <3>4. CASE ~completion.asked
      <4>1. ui' = ui
        BY <2>1, <2>2, <3>4 DEF physically_drained
      <4> QED
        BY <1>1, <1>2, <1>6, <2>1, <3>2, <3>4, <4>1 DEF QuitInv
    <3> QED
      BY <3>3, <3>4
  <2>3. CASE UNCHANGED <<completion, ui>>
    BY <1>1, <1>2, <2>1, <2>3 DEF QuitInv
  <2> QED
    BY <1>1, <2>2, <2>3
<1>11. AuthTypeOK'
  <2>1. pending' \subseteq Tickets
    BY <1>1
  <2> QED
    BY <1>1, <1>2, <1>7, <1>10, <2>1 DEF AuthTypeOK
<1>12. CallsInv'
  BY <1>1, <1>2, <1>3 DEF CallsInv
<1>13. ReaderInv'
  BY <1>1, <1>2, <1>6 DEF ReaderInv, Running
<1>14. BrokerInv(broker')
  BY <1>1, <1>2
<1> QED
  BY <1>9, <1>10, <1>11, <1>12, <1>13, <1>14 DEF AuthInv

\* A poll of an operation: what it answers is published before the operation
\* is released, and nobody who waits is dropped.
LEMMA PollKeeps ==
  ASSUME AuthInv, Poll
  PROVE  AuthInv'
<1>1. PICK id \in worker.todo : PollOf(id)
  BY DEF Poll
<1>2. AuthTypeOK /\ BrokerInv(broker) /\ WorkerInv /\ ReaderInv /\ CallsInv /\ QuitInv
  BY DEF AuthInv
<1>3. /\ worker.pc = "poll" /\ worker.polled = None /\ worker.work = None
      /\ worker.todo \subseteq DOMAIN operations
      /\ DOMAIN operations = DOMAIN broker.jobs
      /\ UNCHANGED <<router, calls, pending, queue, completion, reader>>
  BY <1>1, <1>2 DEF PollOf, WorkerInv, Publishing
<1>4. id \in DOMAIN broker.jobs /\ id \in Names
  BY <1>2, <1>3 DEF BrokerInv, BrokerTypeOK
<1> DEFINE w0(out) == [worker EXCEPT !.todo = @ \ {id}, !.polled = id,
                                     !.progress = out.progress,
                                     !.fault = @ \/ out.progress = "MissingTokenOwner"]
           w1(out) == Emitted(w0(out), out.emit)
<1>5. PICK out \in poll(broker, id) :
        /\ broker' = out.broker
        /\ operations' = Polled(WithoutCallers(out.emit), w1(out), pending)
        /\ IF out.progress \in {"HostFault", "MissingTokenOwner"}
           THEN record_failure(Continued(w1(out)))
           ELSE NoFailure(Continued(w1(out)))
  BY <1>1, Zenon DEF PollOf
<1>6. Polls(broker, id, out)
  BY <1>2, <1>4, PollOK
<1>7. /\ BrokerInv(broker') /\ out.progress \in {"Pending", "HostFault", "Drained"}
      /\ DOMAIN broker'.jobs = IF out.progress = "Drained" THEN DOMAIN operations \ {id}
                                                           ELSE DOMAIN operations
      /\ out.emit \subseteq DOMAIN operations
      /\ broker'.stopping => broker.stopping \/ out.progress = "HostFault"
      /\ ~broker'.stopping =>
           /\ \A j \in DOMAIN broker'.jobs :
                broker'.jobs[j].logical_done => broker.jobs[j].logical_done \/ j \in out.emit
           /\ out.progress = "Drained" => id \in out.emit \/ broker.jobs[id].logical_done
  BY <1>3, <1>5, <1>6 DEF Polls
<1> DEFINE w == w1(out)
           ops == WithoutCallers(out.emit)
           shown == UNION {operations[x].callers : x \in out.emit}
<1>8. /\ w0(out) \in Workers /\ w0(out).pc = "poll" /\ w0(out).todo = worker.todo \ {id}
      /\ w0(out).polled = id /\ w0(out).progress = out.progress
      /\ w0(out).outbox = worker.outbox /\ w0(out).work = None
      /\ w0(out).started = worker.started /\ w0(out).failure = worker.failure
      /\ ~w0(out).fault
  <2> DEFINE fault == worker.fault \/ out.progress = "MissingTokenOwner"
  <2>1. fault \in BOOLEAN
    OBVIOUS
  <2>2. ~fault
    BY <1>2, <1>7 DEF WorkerInv
  <2> HIDE DEF fault
  <2>3. w0(out) = [worker EXCEPT !.todo = worker.todo \ {id}, !.polled = id,
                                 !.progress = out.progress, !.fault = fault]
    BY DEF fault
  <2>4. worker \in Workers /\ worker.todo \ {id} \in SUBSET Names /\ id \in Nat
        /\ out.progress \in {None, "Pending", "Drained", "HostFault"}
    BY <1>2, <1>4, <1>7 DEF AuthTypeOK, Workers, Names
  <2> HIDE DEF w0
  <2>5. w0(out) \in Workers
    BY <2>1, <2>3, <2>4 DEF Workers
  <2>6. /\ w0(out).pc = worker.pc /\ w0(out).todo = worker.todo \ {id}
        /\ w0(out).polled = id /\ w0(out).progress = out.progress
        /\ w0(out).outbox = worker.outbox /\ w0(out).work = worker.work
        /\ w0(out).started = worker.started /\ w0(out).failure = worker.failure
        /\ w0(out).fault = fault
    BY <2>3, <2>4 DEF Workers
  <2> QED
    BY <1>3, <2>2, <2>5, <2>6
<1> HIDE DEF w0
<1>9. /\ w \in Workers /\ w.pc = "poll" /\ w.todo = worker.todo \ {id} /\ w.polled = id
      /\ w.progress = out.progress /\ w.outbox = worker.outbox \cup shown /\ w.work = None
      /\ w.started = worker.started /\ w.failure = worker.failure /\ ~w.fault
  BY <1>2, <1>7, <1>8, EmittedEffect
<1>10. /\ DOMAIN ops = DOMAIN operations /\ ops \in [DOMAIN operations -> Operations]
       /\ \A x \in DOMAIN operations :
            IF x \in out.emit THEN ops[x].callers = {} ELSE ops[x] = operations[x]
  BY <1>2, WithoutCallersEffect
<1> HIDE DEF w, ops, w1
<1> DEFINE v == Continued(w)
<1>11. /\ v \in Workers
       /\ v.todo = w.todo /\ v.outbox = w.outbox /\ v.work = w.work
       /\ v.started = w.started /\ v.failure = w.failure /\ v.fault = w.fault
       /\ w.outbox # {} => v.pc = "publish" /\ v.polled = id /\ v.progress = out.progress
       /\ w.outbox = {} => v.polled = None /\ v.pc = "poll"
  <2>1. id # None
    BY <1>4 DEF Names, None
  <2> QED
    BY <1>9, <2>1, ContinuedEffect
<1> HIDE DEF v
<1>12. (NoFailure(v) \/ record_failure(v)) /\ (out.progress = "HostFault" => tail' /\ record_failure(v))
  BY <1>5 DEF v, w, record_failure
<1>13. /\ worker' \in Workers /\ SameLocals(v, worker')
       /\ v.failure => worker'.failure
       /\ worker'.failure => v.failure \/ tail'
       /\ tail' \in BOOLEAN /\ (tail => tail')
       /\ tail' => tail \/ worker'.failure
       /\ ui' \in [quits : Nat, fatal : BOOLEAN, stopped : BOOLEAN] /\ ui'.quits = ui.quits
  BY <1>2, <1>11, <1>12, Outcome
<1>14. /\ worker'.todo = worker.todo \ {id} /\ worker'.outbox = worker.outbox \cup shown
       /\ worker'.work = None /\ worker'.started = worker.started /\ ~worker'.fault
       /\ worker'.outbox # {} =>
            worker'.pc = "publish" /\ worker'.polled = id /\ worker'.progress = out.progress
       /\ worker'.outbox = {} => worker'.polled = None /\ worker'.pc = "poll"
  BY <1>9, <1>11, <1>13 DEF SameLocals
<1>15. /\ worker'.failure => tail'
       /\ worker.failure => worker'.failure
       /\ broker'.stopping => tail'
       /\ worker'.started => tail'
  BY <1>2, <1>7, <1>9, <1>11, <1>12, <1>13, <1>14 DEF WorkerInv
<1>16. /\ worker'.outbox # {} => operations' = ops
       /\ worker'.outbox = {} /\ out.progress = "Drained" =>
            operations' = [x \in DOMAIN ops \ {id} |-> ops[x]]
       /\ worker'.outbox = {} /\ out.progress # "Drained" =>
            operations' = [ops EXCEPT ![id].callers = ops[id].callers \intersect pending]
  <2>1. w.outbox = worker'.outbox /\ w.polled = id /\ w.progress = out.progress /\ w.polled # None
    BY <1>4, <1>9, <1>14 DEF Names, None
  <2>2. operations' = Polled(ops, w, pending)
    BY <1>5 DEF ops, w
  <2>3. CASE worker'.outbox # {}
    BY <2>1, <2>2, <2>3 DEF Polled
  <2>4. CASE worker'.outbox = {} /\ out.progress = "Drained"
    BY <2>1, <2>2, <2>4 DEF Polled
  <2>5. CASE worker'.outbox = {} /\ out.progress # "Drained"
    BY <2>1, <2>2, <2>5 DEF Polled
  <2> QED
    BY <2>3, <2>4, <2>5
<1>17. /\ DOMAIN operations' = IF worker'.outbox = {} /\ out.progress = "Drained"
                               THEN DOMAIN operations \ {id} ELSE DOMAIN operations
       /\ operations' \in [DOMAIN operations' -> Operations]
       /\ \A x \in DOMAIN operations' :
            /\ operations'[x].callers \subseteq operations[x].callers
            /\ x \in out.emit => operations'[x].callers = {}
            /\ x \notin out.emit => operations[x].callers \intersect pending \subseteq operations'[x].callers
  <2>1. CASE worker'.outbox # {}
    BY <1>10, <1>16, <2>1
  <2>2. CASE worker'.outbox = {} /\ out.progress = "Drained"
    BY <1>10, <1>16, <2>2
  <2>3. CASE worker'.outbox = {} /\ out.progress # "Drained"
    <3> DEFINE kept == ops[id].callers \intersect pending
    <3>1. kept \in SUBSET Tickets /\ ops[id] \in Operations /\ kept \subseteq ops[id].callers
      BY <1>3, <1>4, <1>10 DEF Operations
    <3>2. operations' = [ops EXCEPT ![id] = [ops[id] EXCEPT !.callers = kept]]
      BY <1>16, <2>3
    <3> DEFINE entry == [ops[id] EXCEPT !.callers = kept]
    <3> HIDE DEF kept
    <3>3. entry \in Operations /\ entry.callers = kept
      BY <3>1 DEF Operations
    <3> HIDE DEF entry
    <3>4. /\ DOMAIN operations' = DOMAIN operations
          /\ operations' \in [DOMAIN operations -> Operations]
          /\ operations'[id] = entry
          /\ \A x \in DOMAIN operations \ {id} : operations'[x] = ops[x]
      BY <1>3, <1>4, <1>10, <3>2, <3>3 DEF entry
    <3>5. ASSUME NEW x \in DOMAIN operations
          PROVE /\ operations'[x].callers \subseteq operations[x].callers
                /\ x \in out.emit => operations'[x].callers = {}
                /\ x \notin out.emit => operations[x].callers \intersect pending \subseteq operations'[x].callers
      <4>1. CASE x = id
        BY <1>10, <3>1, <3>3, <3>4, <4>1 DEF kept
      <4>2. CASE x # id
        BY <1>10, <3>4, <4>2
      <4> QED
        BY <4>1, <4>2
    <3> QED
      BY <2>3, <3>4, <3>5
  <2> QED
    BY <2>1, <2>2, <2>3
<1>18. AuthTypeOK'
  BY <1>2, <1>3, <1>13, <1>17 DEF AuthTypeOK
<1>19. Publishing' = IF worker'.outbox # {} /\ out.progress = "Drained" THEN {id} ELSE {}
  <2>1. id # None
    BY <1>4 DEF Names, None
  <2> QED
    BY <1>14, <2>1 DEF Publishing
<1>20. WorkerInv'
  <2>1. /\ DOMAIN operations' = DOMAIN broker'.jobs \cup Publishing'
        /\ Publishing' \cap DOMAIN broker'.jobs = {}
    BY <1>3, <1>4, <1>7, <1>17, <1>19
  <2>2. /\ worker'.pc = "poll" => worker'.todo \subseteq DOMAIN operations'
        /\ worker'.pc = "publish" /\ worker'.polled # None =>
             /\ worker'.polled \in DOMAIN operations'
             /\ worker'.todo \subseteq DOMAIN operations' \ {worker'.polled}
        /\ worker'.pc # "publish" => worker'.polled = None
        /\ worker'.outbox # {} => worker'.pc = "publish"
    BY <1>3, <1>4, <1>14, <1>17
  <2>3. worker'.pc \in {"poll", "publish"}
    BY <1>14
  <2>4. ASSUME ~tail', NEW x \in DOMAIN operations',
               x \in Publishing' \/ broker'.jobs[x].logical_done
        PROVE  operations'[x].callers = {}
    <3>1. ~tail /\ ~broker'.stopping
      BY <1>13, <1>15, <2>4
    <3>2. x \in out.emit \/ broker.jobs[x].logical_done
      <4>1. CASE x \in Publishing'
        BY <1>7, <1>19, <3>1, <4>1
      <4>2. CASE x \notin Publishing'
        BY <1>7, <2>1, <2>4, <3>1, <4>2
      <4> QED
        BY <4>1, <4>2
    <3>3. CASE x \in out.emit
      BY <1>17, <3>3
    <3>4. CASE broker.jobs[x].logical_done
      <4>1. x \in DOMAIN operations
        BY <1>17
      <4>2. operations[x].callers = {}
        BY <1>2, <3>1, <3>4, <4>1 DEF WorkerInv
      <4> QED
        BY <1>17, <4>2
    <3> QED
      BY <3>2, <3>3, <3>4
  <2> QED
    BY <1>14, <1>15, <2>1, <2>2, <2>3, <2>4 DEF WorkerInv
<1>21. ReaderInv'
  BY <1>2, <1>3, <1>13, <1>14, <1>15 DEF ReaderInv, Running
<1>22. CallsInv'
  <2>1. ASSUME ~tail', NEW u \in pending, u \in Carried PROVE u \in Carried'
    <3>1. ~tail /\ ~broker'.stopping
      BY <1>13, <1>15, <2>1
    <3>2. CASE u \in ToSet(queue) \cup worker.outbox \cup {reader.ticket}
      BY <1>3, <1>14, <3>2 DEF Carried
    <3>3. CASE \E x \in DOMAIN operations : u \in operations[x].callers
      <4>1. PICK x \in DOMAIN operations : u \in operations[x].callers
        BY <3>3
      <4>2. CASE x \in out.emit
        <5>1. u \in worker'.outbox
          BY <1>14, <4>1, <4>2
        <5> QED
          BY <5>1 DEF Carried
      <4>3. CASE x \notin out.emit
        <5>1. x \in DOMAIN operations'
          <6>1. ~(x = id /\ out.progress = "Drained")
            BY <1>2, <1>7, <3>1, <4>1, <4>3 DEF WorkerInv
          <6> QED
            BY <1>17, <6>1
        <5>2. u \in operations'[x].callers
          BY <1>17, <2>1, <4>1, <4>3, <5>1
        <5> QED
          BY <5>1, <5>2 DEF Carried
      <4> QED
        BY <4>2, <4>3
    <3>4. u # None
      BY <1>2 DEF AuthTypeOK, Tickets, None
    <3> QED
      BY <1>3, <2>1, <3>2, <3>3, <3>4 DEF Carried
  <2> QED
    BY <1>2, <1>3, <1>13, <2>1 DEF CallsInv, Running
<1>23. QuitInv'
  BY <1>2, <1>3, <1>13 DEF QuitInv
<1> QED
  BY <1>7, <1>18, <1>20, <1>21, <1>22, <1>23 DEF AuthInv

\* What publication does to the calls: the answer is sent, is not owed any more,
\* or cannot be carried and retires the generation.
LEMMA PublishedCalls ==
  ASSUME AuthInv, NEW t \in Tickets, publish_auth(t), reader.ticket = None
  PROVE  /\ calls' \in [Tickets -> [current : BOOLEAN, answers : Nat]]
         /\ pending' \subseteq pending
         /\ router' \in [current : BOOLEAN,
              stage : {"running", "reserved", "accepted", "failed", "retired", "closed"}]
         /\ router'.stage = router.stage
         /\ reader' \in [up : BOOLEAN, ticket : Tickets \cup {None}]
         /\ reader'.ticket = None
         /\ \A u \in pending' : calls'[u].current /\ calls'[u].answers = 0
         /\ \A u \in Tickets : calls'[u].answers <= 1
         /\ ~tail /\ Running => \A u \in Tickets :
              calls'[u].answers = 0 /\ calls'[u].current => u # t /\ u \in pending'
<1>1. AuthTypeOK /\ CallsInv
  BY DEF AuthInv
<1>2. CASE ~Owed(t) /\ UNCHANGED <<router, calls, pending, reader>>
  <2>1. ~tail /\ Running => ~(calls[t].answers = 0 /\ calls[t].current)
    BY <1>1, <1>2 DEF CallsInv, Owed
  <2> QED
    BY <1>1, <1>2, <2>1 DEF AuthTypeOK, CallsInv
<1>3. CASE /\ Owed(t)
           /\ calls' = Answered({t})
           /\ pending' = pending \ {t}
           /\ UNCHANGED <<router, reader>>
  <2>1. /\ calls \in [Tickets -> [current : BOOLEAN, answers : Nat]]
        /\ t \in pending /\ calls[t].answers = 0
    BY <1>1, <1>3 DEF AuthTypeOK, CallsInv, Owed
  <2> DEFINE entry == [calls[t] EXCEPT !.answers = 1]
  <2>2. /\ entry \in [current : BOOLEAN, answers : Nat] /\ entry.answers = 1
    BY <2>1
  <2>3. calls' = [u \in Tickets |-> IF u = t THEN entry ELSE calls[u]]
    BY <1>3, <2>1 DEF Answered
  <2> HIDE DEF entry
  <2>4. /\ calls' \in [Tickets -> [current : BOOLEAN, answers : Nat]]
        /\ calls'[t].answers = 1 /\ \A u \in Tickets \ {t} : calls'[u] = calls[u]
    BY <2>1, <2>2, <2>3
  <2>5. /\ \A u \in pending' : calls'[u].current /\ calls'[u].answers = 0
        /\ \A u \in Tickets : calls'[u].answers <= 1
        /\ ~tail /\ Running => \A u \in Tickets :
              calls'[u].answers = 0 /\ calls'[u].current => u # t /\ u \in pending'
    <3>1. /\ pending' = pending \ {t} /\ pending \subseteq Tickets
          /\ \A u \in pending : calls[u].current /\ calls[u].answers = 0
          /\ \A u \in Tickets : calls[u].answers <= 1
          /\ ~tail /\ Running => \A u \in Tickets :
               calls[u].answers = 0 /\ calls[u].current => u \in pending
      BY <1>1, <1>3 DEF AuthTypeOK, CallsInv
    <3>2. calls'[t].answers = 1 /\ \A u \in Tickets \ {t} : calls'[u] = calls[u]
      BY <2>4
    <3> QED
      BY ONLY <3>1, <3>2
  <2>6. /\ pending' \subseteq pending
        /\ router' = router /\ reader' = reader
        /\ router \in [current : BOOLEAN,
             stage : {"running", "reserved", "accepted", "failed", "retired", "closed"}]
        /\ reader \in [up : BOOLEAN, ticket : Tickets \cup {None}]
    BY <1>1, <1>3 DEF AuthTypeOK
  <2> QED
    BY <2>4, <2>5, <2>6
<1>4. CASE RetiresCurrent({})
  <2>1. {} \in SUBSET pending
    OBVIOUS
  <2>2. /\ calls' \in [Tickets -> [current : BOOLEAN, answers : Nat]]
        /\ pending' = {}
        /\ router' \in [current : BOOLEAN,
             stage : {"running", "reserved", "accepted", "failed", "retired", "closed"}]
        /\ router'.stage = router.stage
        /\ reader' \in [up : BOOLEAN, ticket : Tickets \cup {None}]
        /\ reader'.ticket = reader.ticket
        /\ CallsInv'
    BY <1>1, <1>4, <2>1, Retirement
  <2>3. \A u \in Tickets : ~calls'[u].current
    <3>1. ASSUME NEW u \in Tickets PROVE ~calls'[u].current
      <4>1. calls'[u] = Retired(calls[u])
        <5>1. Answered({})[u] = calls[u]
          BY DEF Answered
        <5>2. calls'[u] = Retired(Answered({})[u])
          BY <1>4, Zenon DEF RetiresCurrent
        <5> QED
          BY <5>1, <5>2
      <4> QED
        BY <1>1, <4>1, RetiredCall DEF AuthTypeOK, CallsInv
    <3> QED
      BY <3>1
  <2> QED
    BY <2>2, <2>3 DEF CallsInv
<1> QED
  BY <1>2, <1>3, <1>4 DEF publish_auth

\* Publication of one answer, and what follows the last one.
LEMMA PublishKeeps ==
  ASSUME AuthInv, Publish
  PROVE  AuthInv'
<1>1. PICK t \in worker.outbox :
        /\ publish_auth(t)
        /\ operations' = Polled(operations, [worker EXCEPT !.outbox = @ \ {t}], pending')
  BY DEF Publish
<1>2. AuthTypeOK /\ BrokerInv(broker) /\ WorkerInv /\ ReaderInv /\ CallsInv /\ QuitInv
  BY DEF AuthInv
<1>3. /\ worker.pc = "publish" /\ reader.ticket = None /\ t \in Tickets
      /\ UNCHANGED <<queue, completion, broker>>
  BY <1>2 DEF Publish, TransitionFree, AuthTypeOK, Workers
<1>4. /\ calls' \in [Tickets -> [current : BOOLEAN, answers : Nat]]
      /\ pending' \subseteq pending
      /\ router' \in [current : BOOLEAN,
           stage : {"running", "reserved", "accepted", "failed", "retired", "closed"}]
      /\ router'.stage = router.stage
      /\ reader' \in [up : BOOLEAN, ticket : Tickets \cup {None}]
      /\ reader'.ticket = None
      /\ \A u \in pending' : calls'[u].current /\ calls'[u].answers = 0
      /\ \A u \in Tickets : calls'[u].answers <= 1
      /\ ~tail /\ Running => \A u \in Tickets :
           calls'[u].answers = 0 /\ calls'[u].current => u # t /\ u \in pending'
  BY <1>1, <1>3, PublishedCalls
<1> DEFINE w == [worker EXCEPT !.outbox = worker.outbox \ {t}]
           v == Continued(w)
<1>5. NoFailure(v) \/ record_failure(v)
  BY <1>1, Zenon DEF publish_auth
<1>6. operations' = Polled(operations, w, pending')
  BY <1>1, Zenon
<1>7. /\ w \in Workers /\ w.pc = "publish" /\ w.outbox = worker.outbox \ {t}
      /\ w.todo = worker.todo /\ w.polled = worker.polled /\ w.progress = worker.progress
      /\ w.work = worker.work /\ w.started = worker.started /\ w.failure = worker.failure
      /\ w.fault = worker.fault
  BY <1>2, <1>3 DEF AuthTypeOK, Workers
<1> HIDE DEF w
<1>8. /\ v \in Workers
      /\ v.todo = w.todo /\ v.outbox = w.outbox /\ v.work = w.work
      /\ v.started = w.started /\ v.failure = w.failure /\ v.fault = w.fault
      /\ w.outbox # {} => v.pc = "publish" /\ v.polled = w.polled /\ v.progress = w.progress
      /\ w.outbox = {} => v.polled = None /\ v.pc = IF w.polled = None THEN "top" ELSE "poll"
  BY <1>7, ContinuedEffect
<1> HIDE DEF v
<1>9. /\ worker' \in Workers /\ SameLocals(v, worker')
      /\ v.failure => worker'.failure
      /\ worker'.failure => v.failure \/ tail'
      /\ tail' \in BOOLEAN /\ (tail => tail')
      /\ tail' => tail \/ worker'.failure
      /\ ui' \in [quits : Nat, fatal : BOOLEAN, stopped : BOOLEAN] /\ ui'.quits = ui.quits
  BY <1>2, <1>5, <1>8, Outcome
<1>10. /\ worker'.todo = worker.todo /\ worker'.outbox = worker.outbox \ {t}
       /\ worker'.work = worker.work /\ worker'.started = worker.started
       /\ worker'.fault = worker.fault
       /\ worker'.outbox # {} => /\ worker'.pc = "publish" /\ worker'.polled = worker.polled
                                 /\ worker'.progress = worker.progress
       /\ worker'.outbox = {} => /\ worker'.polled = None
                                 /\ worker'.pc = IF worker.polled = None THEN "top" ELSE "poll"
  BY <1>7, <1>8, <1>9 DEF SameLocals
<1> DEFINE over == worker'.outbox = {} /\ worker.polled # None
           gone == over /\ worker.progress = "Drained"
<1>11. /\ ~over => operations' = operations
       /\ gone => operations' = [x \in DOMAIN operations \ {worker.polled} |-> operations[x]]
       /\ over /\ ~gone => operations' =
            [operations EXCEPT ![worker.polled].callers =
               operations[worker.polled].callers \intersect pending']
  <2>1. /\ w.outbox = worker'.outbox /\ w.polled = worker.polled
        /\ w.progress = worker.progress
    BY <1>7, <1>10
  <2>2. CASE ~over
    BY <1>6, <2>1, <2>2 DEF Polled
  <2>3. CASE gone
    BY <1>6, <2>1, <2>3 DEF Polled
  <2>4. CASE over /\ ~gone
    BY <1>6, <2>1, <2>4 DEF Polled
  <2> QED
    BY <2>2, <2>3, <2>4
<1>12. over => worker.polled \in DOMAIN operations
  BY <1>2, <1>3 DEF WorkerInv
<1>13. /\ DOMAIN operations' = IF gone THEN DOMAIN operations \ {worker.polled}
                                       ELSE DOMAIN operations
       /\ operations' \in [DOMAIN operations' -> Operations]
       /\ \A x \in DOMAIN operations' :
            /\ operations'[x].callers \subseteq operations[x].callers
            /\ operations[x].callers \intersect pending' \subseteq operations'[x].callers
  <2>1. operations \in [DOMAIN operations -> Operations]
    BY <1>2 DEF AuthTypeOK
  <2>2. CASE ~over
    BY <1>11, <2>1, <2>2
  <2>3. CASE gone
    BY <1>11, <2>1, <2>3
  <2>4. CASE over /\ ~gone
    <3> DEFINE id == worker.polled
               kept == operations[id].callers \intersect pending'
               entry == [operations[id] EXCEPT !.callers = kept]
    <3>1. kept \in SUBSET Tickets /\ operations[id] \in Operations
      BY <1>12, <2>1, <2>4 DEF Operations
    <3>2. operations' = [operations EXCEPT ![id] = entry]
      BY <1>11, <2>4
    <3> HIDE DEF kept
    <3>3. entry \in Operations /\ entry.callers = kept
      BY <3>1 DEF Operations
    <3> HIDE DEF entry
    <3>4. /\ DOMAIN operations' = DOMAIN operations
          /\ operations' \in [DOMAIN operations -> Operations]
          /\ operations'[id] = entry
          /\ \A x \in DOMAIN operations \ {id} : operations'[x] = operations[x]
      BY <1>12, <2>1, <2>4, <3>2, <3>3
    <3>5. ASSUME NEW x \in DOMAIN operations
          PROVE /\ operations'[x].callers \subseteq operations[x].callers
                /\ operations[x].callers \intersect pending' \subseteq operations'[x].callers
      <4>1. CASE x = id
        BY <3>3, <3>4, <4>1 DEF kept
      <4>2. CASE x # id
        BY <3>4, <4>2
      <4> QED
        BY <4>1, <4>2
    <3> QED
      BY <2>4, <3>4, <3>5
  <2> QED
    BY <2>2, <2>3, <2>4
<1>14. AuthTypeOK'
  BY <1>2, <1>3, <1>4, <1>9, <1>13 DEF AuthTypeOK
<1>15. Publishing' = IF worker'.outbox # {} THEN Publishing ELSE {}
  BY <1>3, <1>10 DEF Publishing
<1>16. gone => Publishing = {worker.polled}
  BY <1>3 DEF Publishing
<1>17. over /\ ~gone => Publishing = {}
  BY <1>3 DEF Publishing
<1>18. ~over /\ worker'.outbox = {} => Publishing = {}
  BY <1>3 DEF Publishing
<1> HIDE DEF over, gone
<1>19. WorkerInv'
  <2>1. gone => over
    BY DEF gone
  <2>2. over <=> worker'.outbox = {} /\ worker.polled # None
    BY DEF over
  <2>3. /\ DOMAIN operations' = DOMAIN broker'.jobs \cup Publishing'
        /\ Publishing' \cap DOMAIN broker'.jobs = {}
    <3>1. /\ DOMAIN operations = DOMAIN broker.jobs \cup Publishing
          /\ Publishing \cap DOMAIN broker.jobs = {}
      BY <1>2 DEF WorkerInv
    <3> QED
      BY <1>3, <1>13, <1>15, <1>16, <1>17, <1>18, <2>1, <2>2, <3>1
  <2>4. /\ worker'.pc = "poll" => worker'.todo \subseteq DOMAIN operations'
        /\ worker'.pc = "publish" /\ worker'.polled # None =>
             /\ worker'.polled \in DOMAIN operations'
             /\ worker'.todo \subseteq DOMAIN operations' \ {worker'.polled}
        /\ worker'.pc # "publish" => worker'.polled = None
        /\ worker'.outbox # {} => worker'.pc = "publish"
    BY <1>2, <1>3, <1>10, <1>13, <2>1, <2>2 DEF WorkerInv
  <2>5. worker'.pc \in {"poll", "publish", "top"} /\ worker'.work = None /\ ~worker'.fault
    BY <1>2, <1>3, <1>10 DEF WorkerInv
  <2>6. /\ worker'.failure => tail'
        /\ worker'.started => tail'
        /\ broker'.stopping => tail'
    BY <1>2, <1>3, <1>7, <1>8, <1>9, <1>10 DEF WorkerInv
  <2>7. ASSUME ~tail', NEW x \in DOMAIN operations',
               x \in Publishing' \/ broker'.jobs[x].logical_done
        PROVE  operations'[x].callers = {}
    <3>1. ~tail /\ x \in DOMAIN operations /\ (x \in Publishing \/ broker.jobs[x].logical_done)
      BY <1>3, <1>9, <1>13, <1>15, <2>7
    <3>2. operations[x].callers = {}
      BY <1>2, <3>1 DEF WorkerInv
    <3> QED
      BY <1>13, <3>2
  <2> QED
    BY <2>3, <2>4, <2>5, <2>6, <2>7 DEF WorkerInv
<1>20. ReaderInv'
  BY <1>4, <1>10 DEF ReaderInv
<1>21. CallsInv'
  <2>1. ASSUME ~tail', NEW u \in pending', u # t, u \in Carried PROVE u \in Carried'
    <3>1. ~tail
      BY <1>9, <2>1
    <3>2. CASE u \in ToSet(queue) \cup worker.outbox
      BY <1>3, <1>10, <2>1, <3>2 DEF Carried
    <3>3. CASE \E x \in DOMAIN operations : u \in operations[x].callers
      <4>1. PICK x \in DOMAIN operations : u \in operations[x].callers
        BY <3>3
      <4>2. x \in DOMAIN operations'
        <5>1. gone => x # worker.polled
          BY <1>2, <1>16, <3>1, <4>1 DEF WorkerInv
        <5> QED
          BY <1>13, <5>1
      <4>3. u \in operations'[x].callers
        BY <1>13, <2>1, <4>1, <4>2
      <4> QED
        BY <4>2, <4>3 DEF Carried
    <3>4. u # None
      BY <1>2, <1>4 DEF AuthTypeOK, Tickets, None
    <3>5. worker.work = None
      BY <1>2, <1>3 DEF WorkerInv
    <3> QED
      BY <1>3, <2>1, <3>2, <3>3, <3>4, <3>5 DEF Carried
  <2>2. ASSUME ~tail', Running', NEW u \in Tickets, calls'[u].answers = 0, calls'[u].current
        PROVE  u \in pending' /\ u \in Carried'
    <3>1. ~tail /\ Running
      BY <1>4, <1>9, <2>2 DEF Running
    <3>2. u # t /\ u \in pending'
      BY <1>4, <2>2, <3>1
    <3>3. calls[u].answers = 0 /\ calls[u].current
      BY <1>2, <1>4, <3>2 DEF CallsInv
    <3>4. u \in Carried
      BY <1>2, <3>1, <3>3 DEF CallsInv
    <3> QED
      BY <2>1, <2>2, <3>2, <3>4
  <2> QED
    BY <1>4, <2>2 DEF CallsInv
<1>22. QuitInv'
  BY <1>2, <1>3, <1>4, <1>9 DEF QuitInv
<1>23. BrokerInv(broker')
  BY <1>2, <1>3
<1> QED
  BY <1>14, <1>19, <1>20, <1>21, <1>22, <1>23 DEF AuthInv

(* The worker after a request: it publishes the answer or starts over.     *)
Entered(t, out) ==
  IF out.state = "Ready"
  THEN [worker EXCEPT !.pc = "publish", !.work = None, !.outbox = {t}]
  ELSE [worker EXCEPT !.pc = "top", !.work = None]

\* What a request does: it is answered at once, leads a new operation, or joins
\* one that has not been answered; no fault is found.
LEMMA Dispatched ==
  ASSUME AuthInv, worker.pc = "enter", NEW t \in Tickets, NEW out, Handles(broker, out),
         dispatch_result(t, out)
  PROVE  /\ UNCHANGED <<tail, ui>> /\ worker' = Entered(t, out)
         /\ \/ /\ out.state = "Ready"
               /\ UNCHANGED operations
            \/ /\ out.state # "Ready"
               /\ DOMAIN operations' = DOMAIN operations \cup {out.operation}
               /\ \A x \in DOMAIN operations \ {out.operation} : operations'[x] = operations[x]
               /\ operations' \in [DOMAIN operations' -> Operations]
               /\ t \in operations'[out.operation].callers
               /\ out.operation \in DOMAIN operations =>
                    operations[out.operation].callers \subseteq operations'[out.operation].callers
<1>1. AuthTypeOK /\ DOMAIN operations = DOMAIN broker.jobs
  BY DEF AuthInv, WorkerInv, Publishing
<1> DEFINE w == [worker EXCEPT !.pc = "top", !.work = None]
           known == out.operation \in DOMAIN operations
           sound == (out.state = "Leader") # known
           lead == [lease |-> t, callers |-> {t}]
<1>2. CASE out.state = "Ready"
  <2>1. worker' = [w EXCEPT !.pc = "publish", !.outbox = {t}] /\ UNCHANGED <<tail, ui, operations>>
    BY <1>2 DEF dispatch_result, NoFailure
  <2>2. [w EXCEPT !.pc = "publish", !.outbox = {t}] =
        [worker EXCEPT !.pc = "publish", !.work = None, !.outbox = {t}]
    BY <1>1 DEF AuthTypeOK, Workers
  <2>3. worker' = Entered(t, out)
    BY <1>2, <2>1, <2>2, Zenon DEF Entered
  <2> QED
    BY <1>2, <2>1, <2>3
<1>3. CASE out.state # "Ready"
  <2>1. out.state \in {"Leader", "Follower"} /\ (out.state = "Leader" <=> ~known)
    BY <1>1, <1>3 DEF Handles
  <2>2. sound
    BY <2>1
  <2>3. operations' = [x \in DOMAIN operations \union {out.operation} |->
                 CASE x # out.operation -> operations[x]
                   [] x = out.operation /\ known ->
                        [operations[x] EXCEPT !.callers = operations[x].callers \union {t}]
                   [] OTHER -> lead]
    BY <2>1 DEF dispatch_result
  <2>4. worker' = w /\ UNCHANGED <<tail, ui>>
    BY <2>1, <2>2 DEF dispatch_result, NoFailure
  <2>5. /\ DOMAIN operations' = DOMAIN operations \cup {out.operation}
        /\ \A x \in DOMAIN operations \ {out.operation} : operations'[x] = operations[x]
    BY <2>3
  <2>6. /\ operations'[out.operation] \in Operations /\ t \in operations'[out.operation].callers
        /\ known => operations[out.operation].callers \subseteq operations'[out.operation].callers
    <3>1. CASE known
      <4> DEFINE all == operations[out.operation].callers \union {t}
      <4>1. operations'[out.operation] = [operations[out.operation] EXCEPT !.callers = all]
        BY <2>3, <3>1
      <4>2. operations[out.operation] \in Operations
        BY <1>1, <3>1 DEF AuthTypeOK
      <4>3. all \in SUBSET Tickets /\ t \in all /\ operations[out.operation].callers \subseteq all
        BY <4>2 DEF Operations
      <4> HIDE DEF all
      <4> QED
        BY <4>1, <4>2, <4>3 DEF Operations
    <3>2. CASE ~known
      <4>1. operations'[out.operation] = lead
        BY <2>3, <3>2
      <4> QED
        BY <3>2, <4>1 DEF Operations
    <3> QED
      BY <3>1, <3>2
  <2>7. operations' \in [DOMAIN operations' -> Operations]
    <3>1. \A x \in DOMAIN operations' : operations'[x] \in Operations
      BY <1>1, <2>5, <2>6 DEF AuthTypeOK
    <3> DEFINE f(x) == CASE x # out.operation -> operations[x]
                   [] x = out.operation /\ known ->
                        [operations[x] EXCEPT !.callers = operations[x].callers \union {t}]
                   [] OTHER -> lead
    <3>2. operations' = [x \in DOMAIN operations \union {out.operation} |-> f(x)]
      BY <2>3, Zenon
    <3> HIDE DEF f
    <3> QED
      BY <3>1, <3>2
  <2>8. worker' = Entered(t, out)
    BY <1>3, <2>4, Zenon DEF Entered
  <2> QED
    BY <1>3, <2>4, <2>5, <2>6, <2>7, <2>8
<1> QED
  BY <1>2, <1>3

\* A host fault of a request answers nobody and closes the session.
LEMMA FaultKeeps ==
  ASSUME AuthInv, worker.pc = "enter", reader.ticket = None, NEW t,
         dispatch_result(t, Faulted(broker)),
         UNCHANGED <<router, calls, pending, queue, completion, reader, broker>>
  PROVE  AuthInv'
<1> DEFINE v == [worker EXCEPT !.pc = "top", !.work = None]
<1>1. AuthTypeOK /\ BrokerInv(broker) /\ WorkerInv /\ ReaderInv /\ CallsInv /\ QuitInv
  BY DEF AuthInv
<1>2. record_failure(v) /\ UNCHANGED operations
  BY DEF dispatch_result, Faulted
<1>3. /\ v \in Workers /\ v.pc = "top" /\ v.work = None
      /\ v.todo = worker.todo /\ v.outbox = worker.outbox /\ v.polled = worker.polled
      /\ v.started = worker.started /\ v.failure = worker.failure /\ v.fault = worker.fault
  BY <1>1 DEF AuthTypeOK, Workers
<1>4. worker.outbox = {} /\ worker.polled = None /\ Publishing = {}
  BY <1>1 DEF WorkerInv, Publishing
<1> HIDE DEF v
<1>5. /\ worker' \in Workers /\ SameLocals(v, worker')
      /\ ui' \in [quits : Nat, fatal : BOOLEAN, stopped : BOOLEAN] /\ ui'.quits = ui.quits
  BY <1>1, <1>2, <1>3, Outcome
<1>6. tail' = TRUE
  BY <1>2 DEF record_failure
<1>7. /\ worker'.pc = "top" /\ worker'.work = None /\ worker'.outbox = {}
      /\ worker'.polled = None /\ worker'.started = worker.started
      /\ worker'.fault = worker.fault
  BY <1>3, <1>4, <1>5 DEF SameLocals
<1>8. Publishing' = {}
  BY <1>7 DEF Publishing
<1>9. AuthTypeOK'
  BY <1>1, <1>2, <1>5, <1>6 DEF AuthTypeOK
<1>10. WorkerInv'
  BY <1>1, <1>2, <1>4, <1>6, <1>7, <1>8 DEF WorkerInv
<1>11. ReaderInv'
  BY <1>7 DEF ReaderInv
<1>12. CallsInv'
  BY <1>1, <1>6 DEF CallsInv
<1>13. QuitInv'
  BY <1>1, <1>5 DEF QuitInv
<1> QED
  BY <1>1, <1>9, <1>10, <1>11, <1>12, <1>13 DEF AuthInv

\* A call enters the broker, or is dropped because nothing is owed to it.
LEMMA EnterKeeps ==
  ASSUME AuthInv, enter_auth_request
  PROVE  AuthInv'
<1> DEFINE t == worker.work
<1>1. /\ worker.pc = "enter" /\ reader.ticket = None
      /\ UNCHANGED <<router, calls, queue, completion, reader>>
  BY DEF enter_auth_request, TransitionFree
<1>2. AuthTypeOK /\ BrokerInv(broker) /\ WorkerInv /\ ReaderInv /\ CallsInv /\ QuitInv
  BY DEF AuthInv
<1>3. /\ DOMAIN operations = DOMAIN broker.jobs /\ worker.outbox = {} /\ worker.polled = None
      /\ t # None /\ t \in Tickets
  BY <1>1, <1>2 DEF WorkerInv, Publishing, AuthTypeOK, Workers
<1> HIDE DEF t
<1>4. CASE /\ ~Admissible(t)
           /\ pending' = pending \ {t}
           /\ NoFailure([worker EXCEPT !.pc = "top", !.work = None])
           /\ UNCHANGED <<operations, broker>>
  <2>1. worker' = [worker EXCEPT !.pc = "top", !.work = None] /\ UNCHANGED <<tail, ui>>
    BY <1>4 DEF NoFailure
  <2>2. /\ worker' \in Workers /\ worker'.pc = "top" /\ worker'.work = None
        /\ worker'.outbox = {} /\ worker'.polled = None /\ worker'.started = worker.started
        /\ worker'.failure = worker.failure /\ worker'.fault = worker.fault
    BY <1>2, <1>3, <2>1 DEF AuthTypeOK, Workers
  <2>3. AuthTypeOK'
    BY <1>1, <1>2, <1>4, <2>1, <2>2 DEF AuthTypeOK
  <2>4. Publishing = {} /\ Publishing' = {}
    BY <1>1, <2>2 DEF Publishing
  <2>5. WorkerInv'
    BY <1>2, <1>4, <2>1, <2>2, <2>4 DEF WorkerInv
  <2>6. ReaderInv'
    BY <1>1, <2>2 DEF ReaderInv
  <2>7. \A u \in Tickets \ {t} : u \in Carried => u \in Carried'
    BY <1>1, <1>3, <1>4, <2>2 DEF Carried, t
  <2>8. ~tail /\ Running => ~(calls[t].answers = 0 /\ calls[t].current)
    BY <1>2, <1>3, <1>4 DEF CallsInv, WorkerInv, Admissible
  <2>9. CallsInv'
    BY <1>1, <1>2, <1>4, <2>1, <2>7, <2>8 DEF CallsInv, Running
  <2>10. QuitInv'
    BY <1>1, <1>2, <2>1 DEF QuitInv
  <2>11. BrokerInv(broker')
    BY <1>2, <1>4
  <2> QED
    BY <2>3, <2>5, <2>6, <2>9, <2>10, <2>11 DEF AuthInv
<1>5. CASE /\ Admissible(t)
           /\ \E request \in Requests : \E out \in handle_request(broker, request) :
                /\ broker' = out.broker
                /\ dispatch_result(t, out)
           /\ UNCHANGED pending
  <2>0. PICK request \in Requests : \E out \in handle_request(broker, request) :
          broker' = out.broker /\ dispatch_result(t, out)
    BY <1>5
  <2>1. PICK out \in handle_request(broker, request) :
          broker' = out.broker /\ dispatch_result(t, out)
    BY <2>0
  <2>20. CASE out = Faulted(broker)
    <3>1. dispatch_result(t, Faulted(broker)) /\ broker' = broker
      BY <2>1, <2>20 DEF Faulted
    <3> QED
      BY <1>1, <1>5, <3>1, FaultKeeps
  <2> SUFFICES ASSUME out # Faulted(broker) PROVE AuthInv'
    BY <2>20
  <2>2. Handles(broker, out)
    BY <1>2, HandleOK
  <2>3. /\ UNCHANGED <<tail, ui>> /\ worker' = Entered(t, out)
        /\ \/ /\ out.state = "Ready"
              /\ UNCHANGED operations
           \/ /\ out.state # "Ready"
              /\ DOMAIN operations' = DOMAIN operations \cup {out.operation}
              /\ \A x \in DOMAIN operations \ {out.operation} : operations'[x] = operations[x]
              /\ operations' \in [DOMAIN operations' -> Operations]
              /\ t \in operations'[out.operation].callers
              /\ out.operation \in DOMAIN operations =>
                   operations[out.operation].callers \subseteq operations'[out.operation].callers
    BY <1>1, <1>3, <2>1, <2>2, Dispatched
  <2>4. /\ BrokerInv(broker') /\ (broker'.stopping <=> broker.stopping)
    BY <2>1, <2>2 DEF Handles
  <2>5. /\ worker' \in Workers /\ worker'.work = None /\ worker'.polled = None
        /\ worker'.started = worker.started /\ worker'.failure = worker.failure
        /\ worker'.fault = worker.fault
        /\ IF out.state = "Ready" THEN worker'.pc = "publish" /\ worker'.outbox = {t}
                                  ELSE worker'.pc = "top" /\ worker'.outbox = {}
    <3>1. worker \in Workers
      BY <1>2 DEF AuthTypeOK
    <3>2. {t} \in SUBSET Tickets
      BY <1>3
    <3>3. CASE out.state = "Ready"
      <4>1. worker' = [worker EXCEPT !.pc = "publish", !.work = None, !.outbox = {t}]
        BY <2>3, <3>3 DEF Entered
      <4> QED
        BY <1>3, <3>1, <3>2, <3>3, <4>1 DEF Workers
    <3>4. CASE out.state # "Ready"
      <4>1. worker' = [worker EXCEPT !.pc = "top", !.work = None]
        BY <2>3, <3>4 DEF Entered
      <4> QED
        BY <1>3, <3>1, <3>4, <4>1 DEF Workers
    <3> QED
      BY <3>3, <3>4
  <2>6. AuthTypeOK'
    <3>1. operations' \in [DOMAIN operations' -> Operations]
      BY <1>2, <2>3 DEF AuthTypeOK
    <3>2. UNCHANGED <<tail, ui>>
      BY <2>3
    <3> QED
      BY <1>1, <1>2, <1>5, <2>5, <3>1, <3>2 DEF AuthTypeOK
  <2>7. Publishing = {} /\ Publishing' = {}
    BY <1>1, <2>5 DEF Publishing
  <2>8. /\ DOMAIN operations' = DOMAIN broker'.jobs
        /\ ~tail => \A x \in DOMAIN operations' :
             broker'.jobs[x].logical_done => operations'[x].callers = {}
    <3>1. ~tail => \A x \in DOMAIN operations :
             broker.jobs[x].logical_done => operations[x].callers = {}
      BY <1>2 DEF WorkerInv
    <3>2. CASE out.state = "Ready"
      BY <1>3, <2>1, <2>2, <2>3, <3>1, <3>2 DEF Handles
    <3>3. CASE out.state = "Leader"
      <4>1. /\ DOMAIN broker'.jobs = DOMAIN operations \cup {out.operation}
            /\ \A x \in DOMAIN operations : broker'.jobs[x] = broker.jobs[x]
            /\ ~broker'.jobs[out.operation].logical_done
        BY <1>3, <2>1, <2>2, <3>3 DEF Handles
      <4>2. /\ DOMAIN operations' = DOMAIN operations \cup {out.operation}
            /\ \A x \in DOMAIN operations \ {out.operation} : operations'[x] = operations[x]
        BY <2>3, <3>3
      <4> QED
        BY ONLY <3>1, <4>1, <4>2
    <3>4. CASE out.state = "Follower"
      <4>1. /\ broker' = broker /\ out.operation \in DOMAIN operations
            /\ ~broker.jobs[out.operation].logical_done
        BY <1>3, <2>1, <2>2, <3>4 DEF Handles
      <4>2. /\ DOMAIN operations' = DOMAIN operations \cup {out.operation}
            /\ \A x \in DOMAIN operations \ {out.operation} : operations'[x] = operations[x]
        BY <2>3, <3>4
      <4> QED
        BY <1>3, <3>1, <4>1, <4>2
    <3> QED
      BY <2>2, <3>2, <3>3, <3>4 DEF Handles
  <2>9. /\ worker'.outbox # {} => worker'.pc = "publish"
        /\ worker'.pc \in {"top", "publish"}
        /\ UNCHANGED tail
    BY <2>3, <2>5
  <2>10. WorkerInv'
    BY <1>2, <2>4, <2>5, <2>7, <2>8, <2>9 DEF WorkerInv
  <2>11. ReaderInv'
    BY <1>1, <2>9 DEF ReaderInv
  <2>12. ASSUME NEW u \in Tickets, u \in Carried PROVE u \in Carried'
    <3>1. u # None
      BY DEF Tickets, None
    <3>2. CASE u \in ToSet(queue)
      BY <1>1, <3>2 DEF Carried
    <3>3. CASE u = t
      <4>1. CASE out.state = "Ready"
        BY <2>5, <3>3, <4>1 DEF Carried
      <4>2. CASE out.state # "Ready"
        <5>1. out.operation \in DOMAIN operations' /\ t \in operations'[out.operation].callers
          BY <2>3, <4>2
        <5> QED
          BY <3>3, <5>1 DEF Carried
      <4> QED
        BY <4>1, <4>2
    <3>4. CASE \E x \in DOMAIN operations : u \in operations[x].callers
      <4>1. PICK x \in DOMAIN operations : u \in operations[x].callers
        BY <3>4
      <4>2. x \in DOMAIN operations' /\ u \in operations'[x].callers
        BY <2>3, <4>1
      <4> QED
        BY <4>2 DEF Carried
    <3> QED
      BY <1>1, <1>3, <2>12, <3>1, <3>2, <3>3, <3>4 DEF Carried, t
  <2>13. CallsInv'
    BY <1>1, <1>2, <1>5, <2>9, <2>12 DEF CallsInv, Running
  <2>14. QuitInv'
    <3>1. UNCHANGED ui
      BY <2>3
    <3> QED
      BY <1>1, <1>2, <3>1 DEF QuitInv
  <2> QED
    BY <2>4, <2>6, <2>10, <2>11, <2>13, <2>14 DEF AuthInv
<1> QED
  BY <1>4, <1>5 DEF enter_auth_request, t

\* A session starts with an idle worker and a broker without accounts.
LEMMA InitOK ==
  ASSUME Init
  PROVE  AuthInv
<1>1. MaxAccounts \in Nat /\ CallCapacity \in Nat \ {0}
  BY BrokerAssumption, CapacityAssumption
<1>2. /\ broker.jobs = << >> /\ broker.stopping = FALSE
      /\ broker.accounts = [a \in 1..MaxAccounts |->
           [live |-> FALSE, refresh |-> FALSE, flights |-> NoFlights, refresh_owner |-> None]]
      /\ broker = [accounts |-> broker.accounts, jobs |-> broker.jobs, stopping |-> broker.stopping]
  BY DEF Init, NewBroker
<1>3. DOMAIN broker.jobs = {} /\ broker.jobs \in [{} -> Jobs]
  BY <1>2
<1>4. BrokerInv(broker)
  <2>1. NoFlights \in [Scopes -> Nat] /\ \A s \in Scopes : NoFlights[s] = None
    BY DEF NoFlights, None
  <2>2. [live |-> FALSE, refresh |-> FALSE, flights |-> NoFlights, refresh_owner |-> None]
          \in AccountRecords
    BY <2>1 DEF AccountRecords, None
  <2>3. broker.accounts \in [Accounts -> AccountRecords]
    BY <1>2, <2>2 DEF Accounts
  <2>4. BrokerTypeOK(broker)
    <3>1. IsFiniteSet({})
      BY FS_EmptySet
    <3>2. broker.stopping \in BOOLEAN
      BY <1>2
    <3> QED
      BY <1>2, <1>3, <2>3, <3>1, <3>2 DEF BrokerTypeOK
  <2>5. \A a \in Accounts : /\ broker.accounts[a].refresh_owner = None
                            /\ \A s \in Scopes : broker.accounts[a].flights[s] = None
    BY <1>2, <2>1 DEF Accounts
  <2> QED
    BY <1>3, <2>4, <2>5 DEF BrokerInv, JobsOK, OneExchange, AcceptingOK
<1>5. operations = << >> /\ DOMAIN operations = {} /\ operations \in [{} -> Operations]
  BY DEF Init
<1>6. /\ worker.pc = "top" /\ worker.todo = {} /\ worker.outbox = {} /\ worker.polled = None
      /\ worker.work = None /\ ~worker.started /\ ~worker.failure /\ ~worker.fault
  BY DEF Init
<1>7. worker \in Workers
  <2>1. None \in Nat /\ None \in {None, "Pending", "Drained", "HostFault"}
    BY DEF None
  <2> QED
    BY <2>1 DEF Init, Workers
<1>8. \A t \in Tickets : calls[t].answers = 1 /\ ~calls[t].current
  BY DEF Init
<1>9. AuthTypeOK
  <2>1. /\ router \in [current : BOOLEAN,
             stage : {"running", "reserved", "accepted", "failed", "retired", "closed"}]
        /\ completion \in [drained : BOOLEAN, asked : BOOLEAN]
        /\ reader \in [up : BOOLEAN, ticket : Tickets \cup {None}]
        /\ ui \in [quits : Nat, fatal : BOOLEAN, stopped : BOOLEAN]
    <3>1. /\ router = [current |-> TRUE, stage |-> "running"]
          /\ completion = [drained |-> FALSE, asked |-> FALSE]
          /\ reader = [up |-> TRUE, ticket |-> None]
          /\ ui = [quits |-> 0, fatal |-> FALSE, stopped |-> FALSE]
      BY DEF Init
    <3>2. router \in [current : BOOLEAN,
             stage : {"running", "reserved", "accepted", "failed", "retired", "closed"}]
      BY ONLY <3>1
    <3>3. completion \in [drained : BOOLEAN, asked : BOOLEAN]
      BY ONLY <3>1
    <3>4. reader \in [up : BOOLEAN, ticket : Tickets \cup {None}]
      BY ONLY <3>1
    <3>5. ui \in [quits : Nat, fatal : BOOLEAN, stopped : BOOLEAN]
      BY ONLY <3>1
    <3> QED
      BY <3>2, <3>3, <3>4, <3>5
  <2>3. pending \subseteq Tickets /\ queue \in Seq(Tickets) /\ tail \in BOOLEAN
    <3>1. pending = {} /\ queue = << >> /\ tail = FALSE
      BY DEF Init
    <3>2. << >> \in Seq(Tickets)
      OBVIOUS
    <3>3. FALSE \in BOOLEAN
      OBVIOUS
    <3> QED
      BY <3>1, <3>2, <3>3, Zenon
  <2>2. calls \in [Tickets -> [current : BOOLEAN, answers : Nat]]
    BY DEF Init
  <2> QED
    BY <1>5, <1>7, <2>1, <2>2, <2>3 DEF AuthTypeOK
<1>10. Publishing = {}
  BY <1>6 DEF Publishing
<1>11. WorkerInv
  BY <1>2, <1>3, <1>5, <1>6, <1>10 DEF WorkerInv
<1>12. ReaderInv
  BY <1>6 DEF Init, ReaderInv
<1>13. CallsInv
  <2>1. pending = {}
    BY DEF Init
  <2> QED
    BY <1>8, <2>1 DEF CallsInv
<1>14. QuitInv
  <2>1. completion.drained = FALSE /\ completion.asked = FALSE /\ ui.quits = 0
    BY DEF Init
  <2> QED
    BY <2>1 DEF QuitInv
<1> QED
  BY <1>4, <1>9, <1>11, <1>12, <1>13, <1>14 DEF AuthInv

\* Every step keeps the invariant.
LEMMA NextOK ==
  ASSUME AuthInv, [Next]_vars
  PROVE  AuthInv'
<1>1. CASE UNCHANGED vars
  <2>1. WorkerInv' /\ BrokerInv(broker)'
    BY <1>1, WorkerKept DEF AuthInv, vars
  <2>2. CallsInv'
    BY <1>1, CallsKept DEF AuthInv, vars, Running
  <2>3. AuthTypeOK'
    BY <1>1 DEF AuthInv, AuthTypeOK, vars
  <2>4. ReaderInv' /\ QuitInv'
    BY <1>1 DEF AuthInv, ReaderInv, Running, QuitInv, vars
  <2> QED
    BY <2>1, <2>2, <2>3, <2>4 DEF AuthInv
<1>2. CASE Call \/ Send
  BY <1>2, CallKeeps, SendKeeps
<1>3. CASE WorkerStep
  BY <1>3, LoopTopKeeps, PollKeeps, PublishKeeps, ReceiveKeeps, EnterKeeps, DrainQueueKeeps,
     FinishTailKeeps DEF WorkerStep
<1>4. CASE retire_generation \/ install_generation \/ ReserveQuit
  BY <1>4, RetireKeeps, InstallKeeps, ReserveQuitKeeps
<1>5. CASE QuitStep
  BY <1>5, AcceptQuitKeeps, RetireForQuitKeeps, FinishQuitKeeps DEF QuitStep
<1>6. CASE prepare_auth_presentation_drive \/ stop_and_join
  BY <1>6, DriveKeeps, StopKeeps
<1> QED
  BY <1>1, <1>2, <1>3, <1>4, <1>5, <1>6 DEF Next

-----------------------------------------------------------------------------
(* The theorems.                                                           *)

\* The invariant of the session: the worker's operations are the broker's jobs,
\* and a call is owed an answer exactly as long as somebody carries it.
THEOREM AuthHolds == Spec => []AuthInv
<1>1. Init => AuthInv
  BY InitOK
<1>2. AuthInv /\ [Next]_vars => AuthInv'
  BY NextOK
<1> QED
  BY <1>1, <1>2, PTL DEF Spec

\* Whatever the calls, retirements and drains, the error paths for a missing or
\* a second owner are never taken, and no physical job is left unpolled.
THEOREM OwnersSound == Spec => []NoOwnerFault
<1>1. AuthInv => NoOwnerFault
  BY DEF AuthInv, WorkerInv, NoOwnerFault
<1> QED
  BY <1>1, AuthHolds, PTL

\* An account's refresh credential is in use by one exchange at most, and an
\* account that waits for a refresh has one running.
THEOREM ExchangesSingle == Spec => []SingleExchange
<1>1. AuthInv => SingleExchange
  <2> SUFFICES ASSUME AuthInv PROVE SingleExchange
    OBVIOUS
  <2>1. /\ \A j \in DOMAIN broker.jobs : JobOK(broker.jobs[j])
        /\ OneExchange(broker, DOMAIN broker.jobs)
        /\ ~broker.stopping => AcceptingOK(broker, DOMAIN broker.jobs)
    BY DEF AuthInv, BrokerInv, JobsOK
  <2> DEFINE exchanges == {j \in DOMAIN broker.jobs :
                broker.jobs[j].kind = "token" /\ broker.jobs[j].phase = "http"}
  <2>2. \A j, k \in exchanges :
          /\ broker.jobs[j].credential = "current"
          /\ j # k => broker.jobs[j].account # broker.jobs[k].account
    BY <2>1 DEF JobOK, OneExchange, Exchange
  <2>3. ~broker.stopping =>
          \A a \in 1..MaxAccounts : broker.accounts[a].refresh_owner \in exchanges \union {None}
    BY <2>1 DEF AcceptingOK, Exchange, Accounts
  <2> QED
    BY <2>2, <2>3 DEF SingleExchange
<1> QED
  BY <1>1, AuthHolds, PTL

\* No call is answered twice; while the session runs, a call without an answer
\* is pending and somebody carries it.
THEOREM CallersKept == Spec => []CallersAccountedFor
<1>1. AuthInv => CallersAccountedFor
  BY DEF AuthInv, CallsInv, Carried, CallersAccountedFor
<1> QED
  BY <1>1, AuthHolds, PTL

\* The window loop is told to quit at most once, when Quit has asked for it and
\* every physical operation has drained.
THEOREM QuitsAfterDrain == Spec => []QuitAfterDrain
<1>1. AuthInv => QuitAfterDrain
  <2> SUFFICES ASSUME AuthInv PROVE QuitAfterDrain
    OBVIOUS
  <2>1. ui.quits = 0 \/ (ui.quits = 1 /\ completion.drained /\ completion.asked)
    BY DEF AuthInv, QuitInv
  <2>2. completion.drained => worker.pc = "ended"
    BY DEF AuthInv, QuitInv
  <2>3. worker.pc = "ended" => DOMAIN broker.jobs = {}
    BY DEF AuthInv, WorkerInv
  <2> QED
    BY <2>1, <2>2, <2>3 DEF QuitAfterDrain
<1> QED
  BY <1>1, AuthHolds, PTL

=============================================================================
