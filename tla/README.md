# Verification of the keld host

TLA+ models, TLC runs and TLAPS proofs for the host side of
[keld](../src/README.md): the part of `keld-core` that owns an application's
session, the role supervisor and the authentication broker it uses, and the
update of an installation with the exchange that decides a candidate's health. A
host process runs one UI thread with native windows and supervises one
*primary role* process (a *generation*), which may crash and be replaced. The role
drives the host over one authenticated link. An update is a journaled transaction
that any process may have to finish. What is hard is that everything may end, fail
or be replaced while something else is half done.

## The system

| part | state | operations | talks to |
| --- | --- | --- | --- |
| window registry (`window_registry.rs`) | entries with a phase, two identity counters, `ready`, `ending`, the deferred last-window check | create, setters, request_close, close_reply, destroy; native_built/failed/fact/close/released; role_lost, subscribe_successor, replay, session_end | called by the router only |
| window router (`window_router.rs`) | the registry, `subscribed` | subscribe, dispatch, native events, retirement, session end | role link (writes), UI thread (commands), coordinator (facts) |
| UI thread (`keld-wv/src/wkwebview`) | native views, `next_id`, terminal intent | CreateWindow, SetMaximized, SetFullScreen, DestroyWindow, Quit, Fatal; release_all | core, over two FIFOs and a wake bridge |
| generation router (`app_session.rs`) | current generation, reader threads, `window_ready` | install, signal_ready, retire, revoke | primary owner, links |
| session shutdown (`SessionShutdownState`) | cause, reserved cause, tail flags, handover flag, quit admission, reader stops, one condvar | lifecycle_quit, cli_lease_lost, request_handover, the two waits, stop_and_join | every thread |
| filesystem dispatch | calls in flight, admission, worker queue | admit, submit, quiesce, drain | reader threads, one worker |
| primary owner, recovery gate | supervisor, recovery armed or denied | arm, deny, prepare_accepted_shutdown, shutdown_and_wait | role supervisor |
| auth router, native auth | reservations, bounded queue, accounts, flights, physical jobs | begin, get_token, publish, retire, tail, drain | reader, UI thread, provider |
| role supervisor (`keld-runtime`) | attempt, child, crash count, restart and shutdown flags | spawn, admit, restart, revoke, stop | primary owner, over two channels |
| virtual ports (`keld-runtime`) | port queues | send, receive | roles |
| attempt exchange (`keld-ipc`) | one pipe instance, claim, health window | claim, refuse, admit, report, accept, cancel | candidate process, updater |
| KIPC framing (`keld-ipc`) | receiver state | bootstrap, read, write | role process |
| update activation (`keld-update`, helper) | activation journal, pointers, trust floor, versions on disk | begin, journal, advance, accept health, roll back, recover, repair | file system, across crashes |
| guard, pack, compat, cli, host | none that lives on | decisions and tools | files |
| `@keld/api`, `@keld/electron` | client mirror of the windows | calls, event handlers | role link |

`PROJECT.json` lists every part with its status, and under `hazards` the places
where an interleaving, a failure or a late message could break it.

## Modules

* **`WindowRegistry`** is `window_registry.rs`. One action per operation and
  outcome (`CreateAdopts`, `CreateBuilds`, `BuiltCleansUp`, `NativeReleased`, ...).
  The Rust `Phase` payloads are the fields `call`, `view`, `state` and
  `close_seq` of an entry. An outcome that changes nothing (a refusal, a merged
  close, a diagnostic) is a stuttering step. `RegistrySpec` lets any owner call
  anything at any time, under two rules the callers keep: a pending correlation is
  not admitted again, and a view is not reused.
* **`WindowSession`** composes the registry with the router, the link, the
  coordinator thread, the UI thread and the macOS shutdown. Every router handler
  holds the shutdown transition and the writer lock, so it is one step; the two
  FIFOs `commands` and `facts` are where the threads interleave. Every write to
  the role may fail, and the failed generation is then retired before the locks
  are released (`broken`). `app` is the far end of the ordered writer: what the
  role has been told on this link.
* **`WindowStream`** is the abstract promise to a role, per link: each window once,
  facts that change something, one close request at a time, Destroyed last, each
  call answered at most once, LastWindowClosed only when nothing is left.
* **`SessionShutdown`** is how a Linux or Windows session ends, at the grain of one
  hold of the `transition` mutex: the reader threads of two generations, the CLI
  lease observer and the main thread, with the condvar's lost and spurious wakeups.
  The session starts at its first Ready. The primary owner is external: each of
  its two answers may be a failure.
* **`RoleSupervisor`** is the supervisor thread of one role: spawn, admission of its
  link, exit, restart on request, revocation, back-off, crash budget, stop. It speaks
  to its owner over two channels, `bounds` and `events`, which are not ordered with
  each other.
* **`PrimaryRecovery`** extends it with the session side on Linux and Windows: the
  owner thread (drains both channels, installs, retires, answers commands), the Ready
  publication with the pre-Ready latch and the recovery gate, one reader per
  generation, the filesystem worker, Quit, the last window and the teardown by the
  main thread. One action is one hold of the shutdown transition or one access to a
  channel or an atomic. `SessionShutdown` starts at Ready and takes the owner as
  external; this module is the owner, from the first installed generation on.
  **`RecoveryStartup`** adds one history variable for the third violation.
* **`UpdateActivation`** is the Windows installation directory and everything that
  writes it: a staged version, begin, the journal, each step of `advance`, health,
  rollback, recovery, `resume_unlaunched` and `repair_invalid_current`. Every record
  is replaced by one write-through rename, so one action is one durable write and a
  crash falls between any two. The owner's transaction repeats what it has read, so
  the model reads the directory. Process families, and evidence that one is gone,
  are part of the state; who launches them is external.
* **`AtomicUpdate`** is the promise without journal and crashes: try, then commit or
  fail, each in one step. A reader of the directory who honours the journal sees it.
* **`CandidateHealth`** is the `keld-attempt` exchange: the pipe instance with its
  lifecycle and I/O locks, the owner from the claim wait to the close, the candidate,
  other processes that open the same name, the cancelling watcher, deadlines, exits
  and the loss of the owner. Its `durable` is `UpdateActivation`'s HealthAccepted.
* **`AuthBroker`** holds the operators of the authentication controller and account
  registry (no variables: one owner thread calls them), **`AuthSession`** the reader,
  worker, retirement, Quit and window loop around them on macOS. Tickets are the
  session's reservations and operation names are reused once nobody holds them, so
  calls, generations and operations are not bounded.
* **`WindowRegistryProofs`**, **`WindowSessionProofs`**, **`SessionShutdownProofs`**,
  **`PrimaryRecoveryProofs`**, **`UpdateActivationProofs`**, **`CandidateHealthProofs`**
  and **`AuthSessionProofs`** extend the module they are named after and hold its
  inductive invariant, lemmas and theorems; **`WindowRoleProofs`** extends
  `WindowSessionProofs` with what a role is told.

Modules are short because geometry, error texts, encodings and diagnostics are
abstracted; every guard, early return and order of effects is kept. A write is
"told or failed"; a state is a function from attributes to values.

## Runs

| run | module, configuration | shows |
| --- | --- | --- |
| `window_registry` | `WindowRegistry`, two windows, two owners, two correlations, one attribute with two values, close sequence 2, one parked Destroy | the registry under every caller: consistent entries, answerable calls, forward lifecycle; 113,849 states |
| `window_session` | `WindowSession` with `FairSpec`, two windows, two generations, no native state | queues, role and registry agree; the session implements `RegistrySpec` and `WindowStream`; calls settle, teardown completes; 160,582 states |
| `window_facts` | `WindowSession`, one window with native state, two close requests | the role's view and its stream with state facts, vetoes and stale replies; 164,120 states |
| `window_quit` | `WindowSession` without faults | **violated**, see below |
| `session_shutdown` | `SessionShutdown` with `FairSpec`, two generations | one tail, right cause, right order; handover and Quit always end the loop; 102,536 states |
| `lease_loss` | `SessionShutdown` with `FairSpec` | **violated**, see below |
| `primary_recovery` | `PrimaryRecovery`, two crashes, all inputs | no successor over a live predecessor, no recovery for a link lost before Ready, no healthy generation restarted; 3,232,754 states |
| `recovery_liveness` | `PrimaryRecovery` with `FairSpec`, filesystem calls as the only input | losses are resolved and teardown ends: owner, readers, worker and supervisor never wait in a circle; 284,606 states |
| `recovery_startup` | `RecoveryStartup` | **violated**, see below |
| `update_activation` | `UpdateActivation` with `FairSpec`, two versions, three attempts, two crashes | every start admitted, a way back kept, rollback after exit, atomic to readers, attempts resolved; 45,842 states |
| `candidate_health` | `CandidateHealth` with `FairSpec`, the candidate and one other process | cancel or one-shot; a committed candidate reported Ready, ran to the end of the window and never closed under a read of it; the exchange ends; 33,240 states |
| `auth_session` | `AuthSession` with `FairSpec`, two scopes, one account, two reservations | no owner fault, one exchange per credential, callers accounted for, Quit after the drain; 335,878 states |

Deadlock is checked in `window_registry`. The other models describe a session that
ends, so their last state has no successor.

**Bounds.** Two windows are what the last-window rules, the deferral and the
ambiguity of lookups need (one being built, one being released). Two generations
are one recovery: everything the registry knows of an owner is whether it is live
and whether it is the caller. Two correlations allow a reuse. `IdLimit` is above
the identity budget in `window_registry`, so there the budget refuses first, and equal
to it elsewhere; the refusal of an exhausted counter is left to the theorem, which
holds for every value of both. `FactLimit` and `CommandLimit` bound only unsolicited facts and setters;
the queues themselves are unbounded. One filesystem call is in flight at most
because the reader rejects a second one. `MaxCrashes = 2` in `PrimaryRecovery` is one
recovery and then the tripped crash budget; `Inputs` names what a run lets happen
(filesystem calls, Quit, a closed last window, an owner answer later than its deadline), and
the liveness run keeps only the calls, the input its waits are about. In
`UpdateActivation` two versions are an update after an update (so a previous known
good exists to be retired), three attempts a failed one besides, two crashes a crash
during the recovery from a crash; `MaxSteps` is the code's own limit, and
`ActivationInv` shows it is never used up. One other process is enough to occupy the
one pipe instance. Two scopes of one account are what competes for a refresh
credential, two reservations a leader and a follower. The integer limits of the code (`u32`,
`u64`) are constants, so the cases at the limit are reached.

**Fairness.** `WindowSession!Fairness`: the coordinator and the UI loop drain their
queues, the guardian answers the coordinator that waits for recovery to be armed
(with a failure perhaps), whoever holds the locks finishes, and a claimed shutdown runs its bounded
steps; each is a thread that loops on a blocking receive or a straight line of
code. `SessionShutdown!Fairness`: each thread keeps running, a filesystem call
ends (the drains in the code have no deadline and rely on it too), a reader polls
its stop flag, and time passes. `PrimaryRecovery!Fairness`: each thread runs on, and
a wait whose answer can no longer come fails. `UpdateActivation!FairSpec`: the owner
runs on, a later start picks a pending journal up, a process family ends; nothing
makes a candidate healthy. `CandidateHealth`: the owner thread, a begun cancel and
the clock; nothing of clients or the watcher. `AuthSession`: reader, worker and
quitting thread run on, and (strongly) a polled physical job ends, because each has a
deadline of its own. Nothing is assumed of the role, the user, the
lease, or of builds and owner shutdowns succeeding. Spurious wakeups are possible
and never fair, so no liveness result leans on one.

## What the three violations show

* `window_quit`: a window is `Opening` when the host accepts Quit. Its build
  completes, the registry asks for its cleanup, but the UI loop has returned and
  dropped its command receiver. The failed send ends the coordinator, and the
  `Released` facts behind it are never applied: a window that was shown stays
  `Closing`, where the registry's specification (criterion 31) has it reach
  `Destroyed`. The native windows are gone; the receipts and a clean result are
  lost.
* `lease_loss`: `finish_tail` wakes the UI loop after a failed owner shutdown only
  for a Quit, because lease loss has "its own terminal path", the observer. When a
  reader runs the forced tail the observer returns early, and after the owner
  fails no terminal command is sent at all. `QuitEndsLoop` is the same property
  for the Quit, and it holds.
* `recovery_startup`: the documents call the exit of a role before Ready a startup
  failure. When the reader finds the link ended, that is so (`NoRecoveryBeforeReady`).
  But if the role sent a filesystem call and then crashed, the worker's write fails
  first and retires the generation without the latch; Ready then has nobody to be
  written to, counts as published and arms recovery, and a successor is spawned.

Two more divergences have no run.

`WindowsAttemptOwnerChannel::await_health_window` (`channel.rs`, lines 185-187) says
that "Health passes only if, at the window's end, the connection is open", and
`HealthWindow::begin` (`window.rs`, lines 109-112) that a window which was over before the
first wait was never observed. But the deadline is checked again inside the read:
`WindowsNamedPipeStream::read` (lines 1216-1225) returns the timeout without issuing
`ReadFile` once the deadline has passed, and `decide_window` takes it for an elapsed
window. An owner that is delayed between `begin`, or a read that woke early, and the next
read therefore accepts a candidate whose process runs but whose connection closed in the
meantime. `CandidateHealth` has this behaviour (`IssueRead`, second disjunct): with
`lapsed` also recording a close while no read is issued, TLC finds such a candidate
Healthy. `CommitIsEarned` says what the code does guarantee.

The other is in the auth tail. Between the claim of a Quit and the retirement of its
auth calls, the window loop may see that the session no longer runs and stop the auth
tail; the worker's tail clears `pending`, so the later retirement finds nothing and
the caller gets no `generation_retired` error, which
`docs/specs/gh527-worker-owned-blocking-call-transport.md` (lines 1016-1017) says the
host attempts. `AuthSession` has this behaviour; it is listed under `hazards`.

## Proofs

Each proof module has one inductive invariant, one lemma per action that the action
keeps it, and the properties as consequences. The results hold for every value of the
constants; the assumptions on them are the ones the component modules name, and TLC
evaluates those on every run.

**`WindowRegistryProofs`** proves, for every set of owners, correlations, views and
values and every value of the limits, `RegistryInv` (which `window_registry` checks),
and from it `CallsAwaitAReceipt`, `CorrelationsParkedOnce`, the action property
`LifecycleOnlyForward`, and the parts worth a name: `RegistryTypeOK`,
`DeferralWaitsForABuild`, `BudgetsHold`, `LookupsUnambiguous`, `EndingTearsDownAll` and
`AdoptionIsSound`. It assumes that the limits are naturals and that `None` is no view,
no pending call and no state. None of the invariants is inductive alone.
`BudgetsHold` needs to know that `last_id` counts the entries; `CallsAwaitAReceipt`
needs that a Destroy is parked only in teardown, which needs that a window cannot leave
it; the deferred check needs that a failing build had a live caller. `RegistryInv` adds
`EntryInv`, the shape of an entry in each phase, that views are distinct and that both
identity counters are equal. There is one lemma per entry operator (`TouchedOK` ...
`EndedOK`), one about updating a single entry (`UpdatePreserves`) and one about a map
over all entries (`MapPreserves`).

**`WindowSessionProofs`** proves, for every number of generations, windows and views and
every bound on the queues, that the composed session implements `RegistrySpec`
(`RegistryImplemented`), so that what is proved of the registry alone holds in the session
(`SessionInherits`), and `CommandsNameLiveViews` and `QueuesMatchRegistry`. Neither is
inductive: a command is only known to name a live view because of what the facts still in
the other queue say. `QueueInv` is the agreement of the two queues, the registry and the
native windows. A build token is in one queue at most, and its window is unbuilt; a view
is announced by `Built` before anything else is said of it, and nothing follows its
`Released`; a view named by a command exists, and nothing follows its teardown; while both
threads run, what an unbuilt or closing window waits for is in flight. It sees an entry
only through its `Stage` (unbuilt, shown, tearing, gone) and its view, so most registry
operations are shown once to be `Quiet` and leave it alone; what remains is one lemma per
handler that sends, receives or tears down. `InOrderLists` shows that `InOrder`, which
orders the teardown and `release_all`, lists its set without repetition, so that a teardown
of many windows adds each view once. Assumed are `SessionAssumption` (owners and views are
positive numbers, `None` is no owner) and the registry's assumptions.

**`WindowRoleProofs`** proves, under the same assumptions, `SessionTypeOK`,
`RoleAgreesWithRegistry` and `LastWindowTold`, and that the session implements
`WindowStream` (`StreamImplemented`). The invariant, `RoleInv`, adds two things to the
agreement. `LinkInv`: a live entry belongs to the subscribed link, a shown one has been
announced, a link that carries no frames has told its role nothing, and an ending session
no longer reads. `ToldInv`: while LastWindowClosed is owed, a window is left whose end
sends it or the deferred check waits for a build, and once it was told nothing is shown or
closing. `LastWindowTold` alone says nothing of the steps in between, so it is not
inductive; `RoleAgreesWithRegistry` needs `LinkInv` for the release that comes after its
owner was retired, and `CorrelationsParkedOnce` because an answer removes one correlation
from the role's list and must not remove another window's. The invariant sees an entry
only through what it says to the current owner (`Said`) and the calls it retains for it
(`Parks`), so each registry operation is one lemma about these two, and a step about one
window is either heard (`WindowHeard`) or not (`Unheard`). `RoleStep` shows for every
action at once that the invariant is kept and that the step is one of `WindowStream` or
invisible to the role: a failed write and a retirement are its `Disconnect`, the replay of
an accepted subscription its `Replay`.

**`SessionShutdownProofs`** proves, for any set of generations, `OneTail`,
`AdmittedQuitKeepsClaim`, `FsRepliesPrecedeQuitReply`, `LoopQuitsOnce` and
`TeardownAfterTail`. It assumes only that the threads are distinct. `ShutdownInv` says
who may be where once the session is claimed: `ClaimInv`, that an accepted cause is the
claimed one, that a Quit's tail belongs to the reader that claimed and a forced tail to
the thread that began it; then what the lease, the ended tail, the main thread, the Quit
commands sent so far and the filesystem call in flight add. `LoopQuitsOnce` is the case
that needs most of it: two threads may send Quit, and only the claim keeps them apart.

**`PrimaryRecoveryProofs`** proves, for every crash limit of at least one and every set
of inputs, `RevokedBeforeBound`, `NoRecoveryBeforeReady` and `RestartsTheLost`.
`RecoveryInv` orders two channels that are not ordered with each other: revocations on
their way are exactly the numbers that follow the last one applied (`RevokedInv`), and a
link on its way, held by the owner or installed is younger than the one before it
(`BoundInv`), so a link can only be taken up when its predecessor's revocation has been
drained. `LostInv` follows the evidence of an ended link from the reader or the
filesystem worker over the owner to the supervisor; `ReadyInv` follows the arming of
recovery back to Ready; `CrashInv` says that each generation was paid for with a crash.

**`UpdateActivationProofs`** proves, for every set of versions above the baseline, every
set of stages and every bound on attempts, crashes and steps, `ActivationInv`,
`StartAdmitted`, `WayBackKept`, `RollbackAfterExit`, and that the activation implements
`AtomicUpdate` (`AtomicToReaders`). `ActivationInv` is inductive as the run checks it:
the phase of the journal fixes slots, floor and the candidate's copy, so
`next_activation_step` can only answer the step meant for that state; each action moves
one of them and lands in the same or the next phase. It assumes that versions are
naturals above the baseline and that `None` is no version, stage or journal. The
refinement is proved step by step: a step that writes what no reader honours is a
stutter, and the few that a reader sees are one step of `AtomicUpdate` each.

**`CandidateHealthProofs`** proves, for any set of processes that open the pipe's name,
`CancelOrOneShot` and `CommitIsEarned`. It assumes that the candidate is one of them.
`ExchangeInv` says what a record that waits in the pipe implies about its other end: a
receipt, that the candidate who will read it won the one-shot; a Ready, that the
candidate has sent it. The rest ties the owner's place to the pipe, the cancel flag and
the window, and a close under a read of the window to the read that has yet to return
it: the owner decides later, so `CommitIsEarned` alone is not inductive.

**`AuthSessionProofs`** proves, for any non-empty set of scopes, any number of accounts
and any call capacity of at least one, `NoOwnerFault`, `SingleExchange`,
`CallersAccountedFor` and `QuitAfterDrain`. The argument has two layers. `BrokerInv` is
about the broker alone: while it accepts work, each unanswered token job holds a flight,
each flight belongs to such a job, and the one exchange of an account is its refresh
owner; once it stops, only that exchanges are single is left, and that is enough. `PollOK`,
`HandleOK` and `StopOK` say that each operation of the broker keeps it and what it tells
its caller. `AuthInv` adds the session: the worker's operations are the broker's jobs and
the one whose answers are being published (`WorkerInv`); a call that is owed an answer has
none, and is carried by reader, queue, outbox or an operation (`CallsInv`); Quit is sent
exactly when the second of drain and request comes (`QuitInv`). `CallersAccountedFor` is
the case that needs both layers: a caller may join an operation only because a job that
still has a flight has not been answered.

`QueueInv`, `RoleInv`, `ShutdownInv`, `RecoveryInv`, `ExchangeInv` and `AuthInv` were checked with
TLC on the constants of the runs `window_session`, `session_shutdown`, `primary_recovery`,
`candidate_health` and `auth_session` before they were proved.

**Only model-checked.** Every invariant and every action property that a passing run
checks, and every refinement, is stated by a theorem. What is left to TLC is liveness,
which the prover cannot do: `CallsSettle` and `TeardownCompletes`, `QuitReachesLoop`,
`QuitEndsLoop`, `HandoverEnds`, `LossResolved`, `AttemptsResolve`, `ExchangeEnds` and
`TeardownEnds`, under the fairness above. What the three violation runs refute is not a
theorem.

## Not modelled

Mutex poisoning and thread panics (the code maps them to errors that end the
session). By module:

* `WindowSession`: renderer bridges, the auth anchor window, navigation deadlines, the
  startup before the first window. A UI thread whose fact finds no receiver is not told
  apart from one whose loop fails (`UiFails`).
* `SessionShutdown`: the time before Ready (see `PrimaryRecovery`), windows (the Linux
  and Windows hosts have no window service), the echo and auth channels.
* `PrimaryRecovery`: the renderer boot only, so no window registry; Quit is the only
  accepted shutdown (lease and handover are in `SessionShutdown`); a write fails
  exactly when its link is broken; a failing revocation ends the supervisor, whichever
  of its steps failed, and has been reported before; the crash window does not expire. An echo or PING answer is one write of the reader, and when it
  fails after Ready the session ends with Fatal.
* `UpdateActivation`: the machine-wide (UAC) installation; `current` damaged while a
  journal is pending, which the recovery loader refuses, so damage happens at rest or
  to unverified copies only; `repair_windows_unjournaled_versions`, whose case never
  arises here because `RestInv` leaves no unreferenced version; the keeper's duplicate
  of the lease. Two checks that only refuse are left out: that a pending transaction
  belongs to the coordinator image that resumes it (`activate.rs`, lines 775-782) and
  that repair runs from the located executable (`load.rs`, lines 342-350 and 367-383).
  `AttemptsResolve` is therefore about the coordinator that began the transaction.
* `CandidateHealth`: record bytes and transcripts (a record is its kind), failing
  Windows queries; the claimant check passes exactly for the launched candidate. A
  close of the server end keeps or discards what the client has not read. A write may
  fail at any time, since each has a deadline. `accept_health` and `roll_back` have no
  caller outside the tests at this commit; their order, and that a refused `accept_health`
  is rolled back, is taken from their documentation.
* `AuthSession`: the forced tail of a lost lease, the presentation anchor, browser,
  loopback and HTTP (one physical job with three outcomes), token contents (a request
  may be answered at once from the cache), the filesystem drain before Quit. The guard
  denies unresolved accounts. A `SnapshotMismatch` cannot occur, because the host passes
  the snapshot it prepared the broker with; a host fault of `begin` can, and ends the
  session. A retired call counts as answered, since its answer is
  best effort; at capacity the reader answers and nothing changes. That each call is
  answered in the end is not claimed: flights that wait for a refresh are not FIFO.

The parts listed as `not_modelled` in `PROJECT.json`, with the reason
there: file-format and packaging tools are sequential, sandboxes and native file
access live in the operating system, the rest is planned.

## Plan

1. Filesystem dispatch: admission, quiesce, drain, retirement, the bounded worker
   queue; then composed into `SessionShutdown`, which now has one call in flight.
2. Virtual ports and the role registry (`keld-runtime`), the macOS guardian.
3. The KIPC receiver and the client mirror of `@keld/api` against `WindowStream`.
