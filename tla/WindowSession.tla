---------------------------- MODULE WindowSession ----------------------------
(***************************************************************************)
(* The window service of a macOS app session: the router                   *)
(* (crates/keld-core/src/app_session/window_router.rs) that owns the       *)
(* registry, the link of the current role generation, the shutdown state   *)
(* of app_session.rs that ends it, the coordinator thread that feeds       *)
(* native facts to it, and the UI thread                                   *)
(* (crates/keld-wv/src/wkwebview) that owns the native windows.            *)
(*                                                                         *)
(* Threads and locks.  Every router handler runs under the shutdown        *)
(* transition and the current-writer lock, so it is one step; the UI       *)
(* thread takes those locks only in UiStop.  Core and UI talk over two     *)
(* FIFOs: commands (core to UI) and facts (UI to core).                    *)
(*                                                                         *)
(* A failed write retires the generation before the locks are released.    *)
(* That is the flag "broken": while it is set the locks are held, only     *)
(* the UI thread can interleave, and RetireBroken must come next.          *)
(*                                                                         *)
(* app is what the role behind the current link has been told.  It is the  *)
(* far end of the ordered writer, not state of the host; it is blank when  *)
(* no link carries window frames.                                          *)
(***************************************************************************)
EXTENDS WindowRegistry

CONSTANTS
  FactLimit,      \* bound on the facts queue for unsolicited native facts
  CommandLimit    \* bound on the command queue for setters

ASSUME SessionAssumption ==
  /\ FactLimit \in Nat /\ CommandLimit \in Nat
  /\ Owners \subseteq Nat \ {0}
  /\ Views \subseteq Nat \ {0}
  /\ None \notin Owners

VARIABLES
  generation,             \* attempt of the last installed generation, or 0
  current,                \* owner of the current link, or None
  subscribed,             \* WindowSession.subscribed
  window_ready,           \* Ready was published
  session,                \* how far the shutdown has got
  reader_stop,            \* SessionShutdownState.reader_stop
  broken,                 \* a write failed, the locks are still held
  commands,               \* AppWindowCommand, core to UI
  facts,                  \* AppWindowEvent, UI to core
  ui,                     \* the UI loop
  natives,                \* views that exist on the UI thread
  next_view,              \* next_id of the UI thread
  coordinator,            \* the thread that drains facts
  app                     \* what the role was told on this link

linkVars == <<generation, current, subscribed, broken, app>>
hostVars == <<window_ready, session, reader_stop>>
uiVars == <<ui, natives, next_view>>
vars == <<registryVars, linkVars, hostVars, uiVars, commands, facts, coordinator>>

-----------------------------------------------------------------------------
Commands == [cmd : {"CreateWindow"}, build : 1..IncarnationLimit]
              \cup [cmd : {"SetWindow", "DestroyWindow"}, view : Views]
              \cup [cmd : {"Quit", "Fatal"}]

Facts == [fact : {"Built"}, build : 1..IncarnationLimit, view : Views, state : WindowStates]
           \cup [fact : {"BuildFailed"}, build : 1..IncarnationLimit]
           \cup [fact : {"CloseRequested", "Released"}, view : Views]
           \cup [fact : {"State"}, view : Views, attr : Attrs, value : Values]

Unseen == [status |-> "unseen", state |-> None, asked |-> 0]
Gone   == [status |-> "gone", state |-> None, asked |-> 0]
Live(s, n) == [status |-> "live", state |-> s, asked |-> n]

Blank == [seen |-> [i \in 1..IdLimit |-> Unseen], awaiting |-> {},
          told |-> FALSE, clean |-> FALSE]

\* Type invariant: the queues hold only commands and facts the two threads
\* understand, over a registry that keeps its own types.
SessionTypeOK ==
  /\ RegistryTypeOK
  /\ generation \in Owners \cup {0}
  /\ current \in Owners \cup {None}
  /\ subscribed \in Owners \cup {None}
  /\ window_ready \in BOOLEAN
  /\ session \in {"running", "reserved", "accepted", "closed", "ended", "failed"}
  /\ reader_stop \in BOOLEAN /\ broken \in BOOLEAN
  /\ commands \in Seq(Commands)
  /\ facts \in Seq(Facts)
  /\ ui \in {"running", "terminal", "stopping", "released", "exited"}
  /\ natives \subseteq Views
  /\ next_view \in Nat
  /\ coordinator \in {"running", "arming", "failed", "done"}
  /\ DOMAIN app.seen = 1..IdLimit
  /\ app.awaiting \subseteq Correlations
  /\ app.told \in BOOLEAN /\ app.clean \in BOOLEAN

-----------------------------------------------------------------------------
(* Effects.                                                                *)

\* active_owner and the subscription check: o is the live, subscribed link.
Heard(o) == subscribed = o /\ current = o /\ ~reader_stop

\* The link carries window frames.
Connected == current # None /\ ~reader_stop /\ ~broken

\* A write to the current link, after which the role knows a; or it fails.
Wrote(a) ==
  /\ \/ app' = a /\ broken' = FALSE
     \/ app' = Blank /\ broken' = TRUE
  /\ UNCHANGED <<generation, current, subscribed>>

WroteTo(o, a) == IF Heard(o) THEN Wrote(a) ELSE UNCHANGED linkVars

\* No write; the role itself knows a because it made the call.
Knows(a) == app' = a /\ UNCHANGED <<generation, current, subscribed, broken>>

\* window_commands.send; a UI loop that left "running" ignores everything.
Send(cs) == commands' = IF ui = "running" THEN commands \o cs ELSE commands

CreateWindow(build) == [cmd |-> "CreateWindow", build |-> build]
SetWindow(v) == [cmd |-> "SetWindow", view |-> v]
DestroyWindow(v) == [cmd |-> "DestroyWindow", view |-> v]
Quit == [cmd |-> "Quit"]
Fatal == [cmd |-> "Fatal"]

\* A finite set of numbers in increasing order.
InOrder(S) == CHOOSE q \in [1..Cardinality(S) -> S] :
                \A a, b \in 1..Cardinality(S) : a < b => q[a] < q[b]

SessionTeardownCommands ==
  LET ids == InOrder({i \in DOMAIN entries : Shown(entries[i])})
  IN  [k \in DOMAIN ids |-> DestroyWindow(entries[ids[k]].view)]

-----------------------------------------------------------------------------
Init ==
  /\ RegistryInit
  /\ generation = 0 /\ current = None /\ subscribed = None
  /\ window_ready = FALSE
  /\ session = "running" /\ reader_stop = FALSE /\ broken = FALSE
  /\ commands = <<>> /\ facts = <<>>
  /\ ui = "running" /\ natives = {} /\ next_view = 1
  /\ coordinator = "running"
  /\ app = Blank

(* Generations.                                                            *)

\* install_prepared_generation_with_identity.  Once Ready was published it is
\* written to the new link; if that fails the generation is retired at once
\* (it owns no window yet, so role_lost changes nothing).
InstallGeneration ==
  /\ session = "running" /\ ~reader_stop /\ ~broken
  /\ current = None
  /\ generation + 1 \in Owners
  /\ generation' = generation + 1
  /\ \/ /\ current' = generation + 1
        /\ app' = [Blank EXCEPT !.clean =
                     \A i \in DOMAIN entries : entries[i].phase # "Closing"]
     \/ window_ready /\ UNCHANGED <<current, app>>
  /\ UNCHANGED <<registryVars, subscribed, broken, hostVars, uiVars, commands,
                 facts, coordinator>>

\* signal_ready, on the coordinator thread; the Ready write may fail.  After a
\* successful one the thread asks the guardian to arm recovery, and waits.
SignalReady ==
  /\ session = "running" /\ ~broken
  /\ coordinator = "running"
  /\ ~window_ready
  /\ mark_ready
  /\ \/ /\ window_ready' = TRUE
        /\ coordinator' = "arming"
        /\ UNCHANGED <<linkVars, commands, facts>>
     \/ /\ current # None
        /\ broken' = TRUE /\ app' = Blank
        /\ coordinator' = "failed" /\ facts' = <<>>
        /\ Send(<<Fatal>>)
        /\ UNCHANGED <<generation, current, subscribed, window_ready>>
  /\ UNCHANGED <<session, reader_stop, uiVars>>

\* await_recovery_arm, outside the transition: the guardian's answer, or its
\* failure, after which nobody reads what is left in the fact queue.
AwaitRecoveryArm ==
  /\ coordinator = "arming"
  /\ \/ coordinator' = "running" /\ UNCHANGED commands
     \/ coordinator' = "failed" /\ Send(<<Fatal>>)
  /\ UNCHANGED <<registryVars, linkVars, hostVars, uiVars, facts>>

\* retire_current_generation_locked; also ends the subscription.
Retire ==
  /\ role_lost(current)
  /\ current' = None
  /\ subscribed' = IF subscribed = current THEN None ELSE subscribed
  /\ app' = Blank
  /\ broken' = FALSE
  /\ UNCHANGED generation

\* finish_window_write after a failed write.
RetireBroken ==
  /\ broken
  /\ Retire
  /\ UNCHANGED <<hostVars, uiVars, commands, facts, coordinator>>

\* apply_generation_update(Revoked): retire_generation.
RetireGeneration ==
  /\ session = "running" /\ ~broken
  /\ window_ready /\ current # None
  /\ Retire
  /\ UNCHANGED <<hostVars, uiVars, commands, facts, coordinator>>

-----------------------------------------------------------------------------
(* Calls of the role.                                                      *)

\* with_primary_caller_locked
Dispatchable == session = "running" /\ current # None /\ ~reader_stop /\ ~broken

\* The checks of dispatch_window that precede the registry.
CanCall == Dispatchable /\ subscribed = current /\ window_ready

\* Mutant: a repeated Subscribe replays again.
Subscribe_Repeats ==
  /\ Dispatchable
  /\ subscribe_successor(current)
  /\ app' = [app EXCEPT !.seen = [i \in 1..IdLimit |->
               IF i \in DOMAIN entries /\ i \in Replayed(current, entries')
               THEN Live(entries'[i].state, entries'[i].close_seq) ELSE Unseen]]
  /\ subscribed' = current
  /\ UNCHANGED <<generation, current, broken, hostVars, uiVars, commands, facts, coordinator>>

\* subscribe_window for a caller that is not subscribed: inheritance, replay and
\* acceptance are one ordered write.
Subscribe ==
  /\ Dispatchable
  /\ subscribed # current
  /\ subscribe_successor(current)
  /\ \/ /\ app' = [app EXCEPT !.seen = [i \in 1..IdLimit |->
                     IF i \in DOMAIN entries /\ i \in Replayed(current, entries')
                     THEN Live(entries'[i].state, entries'[i].close_seq) ELSE Unseen]]
        /\ broken' = FALSE
     \/ app' = Blank /\ broken' = TRUE
  /\ subscribed' = current
  /\ UNCHANGED <<generation, current, hostVars, uiVars, commands, facts, coordinator>>

\* Any call answered without effect, a repeated Subscribe or a refusal, whose
\* answer cannot be written; and dispatch_window's correlation reuse.
LinkFails ==
  /\ Dispatchable
  /\ broken' = TRUE /\ app' = Blank
  /\ UNCHANGED <<registryVars, generation, current, subscribed, hostVars, uiVars,
                 commands, facts, coordinator>>

RefOf(i) == [id |-> i, incarnation |-> entries[i].incarnation]

CallCreate ==
  /\ \/ \E i \in DOMAIN entries :
          /\ CreateAdopts(current, i)
          /\ Wrote(app) /\ UNCHANGED commands
     \/ \E c \in Correlations :
          /\ ~has_pending_call(current, c)
          /\ CreateBuilds(current, c)
          /\ Send(<<CreateWindow(last_incarnation + 1)>>)
          /\ Knows([app EXCEPT !.awaiting = @ \cup {c}])

\* Mutant: a setter is sent to a window in teardown.
CallSetter_AnyPhase(i) ==
  /\ Len(commands) < CommandLimit
  /\ Setter(current, RefOf(i))
  /\ IF entries[i].view # None THEN Send(<<SetWindow(entries[i].view)>>) ELSE UNCHANGED commands
  /\ Wrote(app)

\* send_window_setter: the command precedes the reply.
CallSetter(i) ==
  /\ Len(commands) < CommandLimit
  /\ Setter(current, RefOf(i))
  /\ IF Shown(entries[i]) THEN Send(<<SetWindow(entries[i].view)>>) ELSE UNCHANGED commands
  /\ Wrote(app)

CallRequestClose(i) ==
  /\ \/ /\ RequestClose(current, RefOf(i))
        /\ Wrote([app EXCEPT !.seen[i].asked = entries'[i].close_seq])
     \/ RequestCloseIdle(current, RefOf(i)) /\ Wrote(app)
  /\ UNCHANGED commands

\* Mutant: a lost acknowledgement returns before the teardown command.
CallCloseReply_EarlyReturn(i, seq, verdict) ==
  /\ CloseReply(current, RefOf(i), seq, verdict)
  /\ IF ReplyIsCurrent(RefOf(i), seq)
     THEN Wrote([app EXCEPT !.seen[i].asked = 0])
     ELSE Wrote(app)
  /\ IF ReplyIsCurrent(RefOf(i), seq) /\ verdict = "Allow" /\ ~broken'
     THEN Send(<<DestroyWindow(entries[i].view)>>) ELSE UNCHANGED commands

\* An accepted Allow sends the teardown even when its reply is lost.
CallCloseReply(i, seq, verdict) ==
  /\ CloseReply(current, RefOf(i), seq, verdict)
  /\ IF ReplyIsCurrent(RefOf(i), seq)
     THEN Wrote([app EXCEPT !.seen[i].asked = 0])
     ELSE Wrote(app)
  /\ IF ReplyIsCurrent(RefOf(i), seq) /\ verdict = "Allow"
     THEN Send(<<DestroyWindow(entries[i].view)>>) ELSE UNCHANGED commands

CallDestroy(i) ==
  \/ \E c \in Correlations :
       /\ ~has_pending_call(current, c)
       /\ Destroy(current, RefOf(i), c)
       /\ IF Shown(entries[i]) THEN Send(<<DestroyWindow(entries[i].view)>>)
          ELSE UNCHANGED commands
       /\ Knows([app EXCEPT !.awaiting = @ \cup {c}, !.seen[i].asked = 0])
  \/ /\ DestroyRefused(current, RefOf(i))
     /\ Wrote(app) /\ UNCHANGED commands

\* dispatch_window
DispatchWindow ==
  /\ CanCall
  /\ \/ CallCreate
     \/ \E i \in DOMAIN entries :
          \/ CallSetter(i)
          \/ CallRequestClose(i)
          \/ \E seq \in 1..CloseSeqLimit, d \in Verdicts : CallCloseReply(i, seq, d)
          \/ CallDestroy(i)
  /\ UNCHANGED <<hostVars, uiVars, facts, coordinator>>

-----------------------------------------------------------------------------
(* The coordinator: coordinate_window_events and window_native_event.  An   *)
(* input the registry answers with a diagnostic is not a step here;         *)
(* NativeInputsExpected says it never comes.                                *)

OnBuilt(f) ==
  \/ \E i \in DOMAIN entries :
       /\ BuiltCreates(i, f.build, f.view, f.state)
       /\ WroteTo(entries[i].call.owner,
                  [app EXCEPT !.seen[i] = Live(f.state, 0), !.told = FALSE,
                              !.awaiting = @ \ {entries[i].call.correlation}])
       /\ facts' = Tail(facts) /\ UNCHANGED <<commands, coordinator>>
  \/ \E i \in DOMAIN entries :
       /\ BuiltCleansUp(i, f.build, f.view, f.state)
       /\ UNCHANGED linkVars
       /\ IF ui = "exited"   \* the command receiver is gone: the send fails
          THEN /\ coordinator' = "failed" /\ facts' = <<>>
               /\ UNCHANGED commands
          ELSE /\ Send(<<DestroyWindow(f.view)>>)
               /\ facts' = Tail(facts) /\ UNCHANGED coordinator

\* window_build_failed_locked
OnBuildFailed(f) ==
  /\ \E i \in DOMAIN entries :
       /\ BuildFails(i, f.build)
       /\ IF FailedCall(i) = None THEN UNCHANGED linkVars
          ELSE WroteTo(entries[i].owner,
                 [app EXCEPT !.awaiting = @ \ {entries[i].call.correlation},
                             !.told = @ \/ FailureIsLast(i)])
  /\ facts' = Tail(facts) /\ UNCHANGED <<commands, coordinator>>

\* window_native_close_locked
OnCloseRequested(f) ==
  /\ \/ \E i \in DOMAIN entries :
          /\ NativeClose(i, f.view)
          /\ IF entries[i].owner_live
             THEN WroteTo(entries[i].owner,
                          [app EXCEPT !.seen[i].asked = entries'[i].close_seq])
             ELSE UNCHANGED linkVars
     \/ /\ ~\E i \in WithView(f.view) :
              entries[i].phase = "Open" /\ CloseSeqLeft(entries[i])
        /\ UNCHANGED <<registryVars, linkVars>>
  /\ facts' = Tail(facts) /\ UNCHANGED <<commands, coordinator>>

\* window_released_locked: Destroyed, LastWindowClosed, then the Destroy replies.
OnReleased(f) ==
  /\ \E i \in DOMAIN entries :
       LET answered == {entries[i].destroy_calls[k].correlation :
                          k \in DOMAIN entries[i].destroy_calls}
       IN  /\ NativeReleased(i, f.view)
           /\ IF ReleaseHasFact(i)
              THEN WroteTo(entries[i].owner,
                     [app EXCEPT !.seen[i] = Gone, !.told = @ \/ ReleaseIsLast(i),
                                 !.awaiting = @ \ answered])
              ELSE UNCHANGED linkVars
  /\ facts' = Tail(facts) /\ UNCHANGED <<commands, coordinator>>

\* Mutant: a fact is not written while a close request is pending.
OnState_OpenOnly(f) ==
  /\ \E i \in DOMAIN entries :
       \/ /\ FactUpdates(i, f.view, f.attr, f.value)
          /\ IF entries[i].phase = "Open" /\ entries[i].state[f.attr] # f.value
             THEN WroteTo(entries[i].owner, [app EXCEPT !.seen[i].state = entries'[i].state])
             ELSE UNCHANGED linkVars
       \/ FactDrops(i, f.view) /\ UNCHANGED linkVars
  /\ facts' = Tail(facts) /\ UNCHANGED <<commands, coordinator>>

OnState(f) ==
  /\ \E i \in DOMAIN entries :
       \/ /\ FactUpdates(i, f.view, f.attr, f.value)
          /\ IF entries[i].owner_live /\ entries[i].state[f.attr] # f.value
             THEN WroteTo(entries[i].owner, [app EXCEPT !.seen[i].state = entries'[i].state])
             ELSE UNCHANGED linkVars
       \/ FactDrops(i, f.view) /\ UNCHANGED linkVars
  /\ facts' = Tail(facts) /\ UNCHANGED <<commands, coordinator>>

WindowNativeEvent ==
  /\ coordinator = "running" /\ ~broken
  /\ facts # <<>>
  /\ LET f == Head(facts)
     IN  \/ f.fact = "Built" /\ OnBuilt(f)
         \/ f.fact = "BuildFailed" /\ OnBuildFailed(f)
         \/ f.fact = "CloseRequested" /\ OnCloseRequested(f)
         \/ f.fact = "Released" /\ OnReleased(f)
         \/ f.fact = "State" /\ OnState(f)
  /\ UNCHANGED <<hostVars, uiVars>>

\* finish_window_facts: the UI thread hung up and the queue is drained.
CoordinatorEnds ==
  /\ coordinator = "running" /\ facts = <<>> /\ ui = "exited"
  /\ take_destroyed_fact_drops
  /\ coordinator' = "done"
  /\ UNCHANGED <<linkVars, hostVars, uiVars, commands, facts>>

-----------------------------------------------------------------------------
(* Shutdown: lifecycle_quit and cli_lease_lost, as far as windows see them. *)

ReserveShutdown ==
  /\ session = "running" /\ ~broken
  /\ session' = "reserved"
  /\ reader_stop' = TRUE
  /\ app' = Blank
  /\ UNCHANGED <<registryVars, generation, current, subscribed, broken, window_ready,
                 uiVars, commands, facts, coordinator>>

\* Accepted: end_window_session_guarded in the same hold.
AcceptShutdown ==
  /\ session = "reserved" /\ ~broken
  /\ session' = "accepted"
  /\ session_end
  /\ Send(SessionTeardownCommands)
  /\ UNCHANGED <<linkVars, window_ready, reader_stop, uiVars,
                 facts, coordinator>>

\* prepare_accepted_shutdown fails, or the Quit reply was not written or the
\* filesystem drain failed after the windows were ended; the claimant's thread
\* sends Fatal.
ShutdownFails ==
  /\ session \in {"reserved", "accepted"} /\ ~broken
  /\ session' = "failed"
  /\ Send(<<Fatal>>)
  /\ UNCHANGED <<registryVars, linkVars, window_ready, reader_stop, uiVars, facts, coordinator>>

\* finish_quit_link_and_tail, or the link close of the forced tail.
CloseLink ==
  /\ session = "accepted" /\ ~broken
  /\ session' = "closed"
  /\ IF current # None THEN Retire ELSE UNCHANGED <<registryVars, linkVars>>
  /\ UNCHANGED <<window_ready, reader_stop, uiVars, commands,
                 facts, coordinator>>

\* Mutant: a failed owner shutdown does not wake the UI loop.
FinishTail_NoWake ==
  /\ session = "closed" /\ ~broken
  /\ session' = "ended"
  /\ Send(<<Quit>>) \/ UNCHANGED commands
  /\ UNCHANGED <<registryVars, linkVars, window_ready, reader_stop, uiVars, facts, coordinator>>

\* finish_tail: Quit, or Fatal when the role owner cannot be shut down.
FinishTail ==
  /\ session = "closed" /\ ~broken
  /\ session' = "ended"
  /\ Send(<<Quit>>) \/ Send(<<Fatal>>)
  /\ UNCHANGED <<registryVars, linkVars, window_ready, reader_stop, uiVars, facts, coordinator>>

-----------------------------------------------------------------------------
(* The UI thread.                                                          *)

\* managed_windows::send.  A coordinator that failed has dropped the receiver: the
\* fact is then read by nobody, and the loop's own end is UiFails.
UiSends(f) == facts' = Append(facts, f)

\* Mutant: a view id is spent only when the build fails.
UiCreateWindow_ReusesView ==
  \/ /\ next_view \in Views
     /\ natives' = natives \cup {next_view}
     /\ \E s \in WindowStates :
          UiSends([fact |-> "Built", build |-> Head(commands).build, view |-> next_view,
                   state |-> s])
     /\ UNCHANGED next_view
  \/ /\ UiSends([fact |-> "BuildFailed", build |-> Head(commands).build])
     /\ next_view' = IF next_view \in Views THEN next_view + 1 ELSE next_view
     /\ UNCHANGED natives

\* managed_windows::command(CreateWindow): built or failed; a view id is spent
\* either way unless the counter is exhausted.
UiCreateWindow ==
  LET build == Head(commands).build
  IN  \/ /\ next_view \in Views
         /\ natives' = natives \cup {next_view}
         /\ \E s \in WindowStates :
              UiSends([fact |-> "Built", build |-> build, view |-> next_view, state |-> s])
         /\ next_view' = next_view + 1
      \/ /\ UiSends([fact |-> "BuildFailed", build |-> build])
         /\ next_view' = IF next_view \in Views THEN next_view + 1 ELSE next_view
         /\ UNCHANGED natives

\* SetMaximized and SetFullScreen on a view that exists; managed_view would
\* otherwise fail and end the loop.
UiSetWindow ==
  /\ Head(commands).view \in natives
  /\ UNCHANGED <<facts, natives, next_view>>

\* Mutant: the native window is released without a receipt.
UiDestroyWindow_NoReceipt ==
  /\ Head(commands).view \in natives
  /\ natives' = natives \ {Head(commands).view}
  /\ UNCHANGED <<facts, next_view>>

\* release: the native window is gone before its receipt is sent.
UiDestroyWindow ==
  LET v == Head(commands).view
  IN  /\ v \in natives
      /\ natives' = natives \ {v}
      /\ UiSends([fact |-> "Released", view |-> v])
      /\ UNCHANGED next_view

UiCommand ==
  /\ ui = "running" /\ commands # <<>>
  /\ \/ Head(commands).cmd = "CreateWindow" /\ UiCreateWindow
     \/ Head(commands).cmd = "SetWindow" /\ UiSetWindow
     \/ Head(commands).cmd = "DestroyWindow" /\ UiDestroyWindow
  /\ commands' = Tail(commands)
  /\ UNCHANGED <<registryVars, linkVars, hostVars, ui, coordinator>>

\* The user closes a window, or the window moves or changes (emit_state).
UiNativeEvent ==
  /\ ui = "running" /\ Len(facts) < FactLimit
  /\ \E v \in natives :
       \/ UiSends([fact |-> "CloseRequested", view |-> v])
       \/ \E a \in Attrs, x \in Values :
            UiSends([fact |-> "State", view |-> v, attr |-> a, value |-> x])
  /\ UNCHANGED <<registryVars, linkVars, hostVars, uiVars, commands, coordinator>>

\* The wake bridge raises terminal intent as soon as it has forwarded Quit or
\* Fatal, ahead of the commands still queued; those are then discarded.
UiTerminal ==
  /\ ui = "running"
  /\ \E k \in DOMAIN commands : commands[k] \in {Quit, Fatal}
  /\ ui' = "terminal" /\ commands' = <<>>
  /\ UNCHANGED <<registryVars, linkVars, hostVars, natives, next_view, facts, coordinator>>

\* The loop fails (LoopDestroyed, an out-of-band native close), or another
\* owner in the host gives up and sends Fatal.
UiFails ==
  /\ ui = "running"
  /\ ui' = "terminal" /\ commands' = <<>>
  /\ UNCHANGED <<registryVars, linkVars, hostVars, natives, next_view, facts, coordinator>>

\* The main-owner service of the stopping loop: window_main_owner_stopping.
UiStop ==
  /\ ui = "terminal" /\ ~broken
  /\ ui' = "stopping"
  /\ session_end
  /\ reader_stop' = TRUE
  /\ app' = Blank
  /\ UNCHANGED <<generation, current, subscribed, broken, window_ready, session,
                 natives, next_view, commands, facts, coordinator>>

\* release_all
UiReleaseAll ==
  /\ ui = "stopping"
  /\ ui' = "released"
  /\ natives' = {}
  /\ LET order == InOrder(natives)
     IN  facts' = facts \o [k \in DOMAIN order |-> [fact |-> "Released", view |-> order[k]]]
  /\ UNCHANGED <<registryVars, linkVars, hostVars, next_view, commands, coordinator>>

\* The wake bridge stops, which drops the command receiver, and the loop returns.
UiExit ==
  /\ ui = "released"
  /\ ui' = "exited"
  /\ UNCHANGED <<registryVars, linkVars, hostVars, natives, next_view, commands, facts,
                 coordinator>>

-----------------------------------------------------------------------------
Next ==
  \/ InstallGeneration \/ SignalReady \/ AwaitRecoveryArm
  \/ RetireBroken \/ RetireGeneration
  \/ Subscribe \/ LinkFails \/ DispatchWindow
  \/ WindowNativeEvent \/ CoordinatorEnds
  \/ ReserveShutdown \/ AcceptShutdown \/ ShutdownFails \/ CloseLink \/ FinishTail
  \/ UiCommand \/ UiNativeEvent \/ UiTerminal \/ UiFails
  \/ UiStop \/ UiReleaseAll \/ UiExit

Spec == Init /\ [][Next]_vars

\* The coordinator and the UI loop keep draining their queues, a lock holder
\* finishes, and a reserved shutdown runs its bounded steps to the end.  Nothing
\* is assumed of the role, the user or the native builds' outcomes.
Fairness ==
  /\ WF_vars(AwaitRecoveryArm \/ WindowNativeEvent \/ CoordinatorEnds)
  /\ WF_vars(UiCommand \/ UiTerminal)
  /\ WF_vars(UiStop \/ UiReleaseAll \/ UiExit)
  /\ WF_vars(RetireBroken)
  /\ WF_vars(AcceptShutdown \/ ShutdownFails \/ CloseLink \/ FinishTail)

FairSpec == Spec /\ Fairness

\* A session without faults: no write fails, recovery is armed, and the UI loop
\* leaves "running" only for the Quit of an accepted shutdown.
FaultFree ==
  /\ ~broken'
  /\ coordinator = "arming" => coordinator' # "failed"
  /\ ui = "running" /\ ui' # "running" => \E k \in DOMAIN commands : commands[k] = Quit

FaultFreeSpec == Init /\ [][Next /\ FaultFree]_vars

-----------------------------------------------------------------------------
(* Safety.                                                                 *)

\* The calls of owner o the registry still owes an answer.
Owed(o) ==
  {c \in Correlations : has_pending_call(o, c)}

\* What the registry knows of window i, as the current link should have it.
Described(i) ==
  IF i \notin DOMAIN entries \/ current = None THEN Unseen
  ELSE LET e == entries[i]
       IN  IF e.owner # current \/ ~e.owner_live \/ ~e.created THEN Unseen
           ELSE IF e.phase = "Destroyed" THEN Gone
           ELSE Live(e.state, e.close_seq)

\* The ordered writer never loses, reorders or invents anything: while the link
\* is up the role knows of every window exactly what the registry holds (the
\* last fact, the pending close_seq, the end), has one outstanding answer for
\* every correlation the registry parked, and no other.  A stale reply, a
\* release after retirement or a missed replay would break it.
RoleAgreesWithRegistry ==
  Connected =>
    /\ app.awaiting = Owed(current)
    /\ IF subscribed = current
       THEN \A i \in 1..IdLimit : app.seen[i] = Described(i)
       ELSE app = [Blank EXCEPT !.clean = app.clean]

CommandViews(name) ==
  {commands[k].view : k \in {j \in DOMAIN commands : commands[j].cmd = name}}
FactBuilds == {facts[k].build : k \in {j \in DOMAIN facts : facts[j].fact \in {"Built", "BuildFailed"}}}
CommandBuilds == {commands[k].build : k \in {j \in DOMAIN commands : commands[j].cmd = "CreateWindow"}}
FactViews(name) == {facts[k].view : k \in {j \in DOMAIN facts : facts[j].fact = name}}

\* A command that names a view the UI thread does not own ends the whole
\* session (managed_view fails the loop).  None is ever queued: no setter
\* follows the teardown of its window, and no view is torn down twice.
CommandsNameLiveViews ==
  \A k \in DOMAIN commands :
    commands[k].cmd \in {"SetWindow", "DestroyWindow"} =>
      /\ commands[k].view \in natives
      /\ \A j \in 1..(k - 1) : commands[j] # DestroyWindow(commands[k].view)

\* The next native input always meets a registry that expects it: no build
\* result without its Opening (or torn down) window, no release of a window
\* that is not being torn down, no fact about a view that is not mapped.
NativeInputsExpected ==
  facts # <<>> =>
    LET f == Head(facts)
    IN  IF f.fact \in {"Built", "BuildFailed"}
        THEN \E i \in WithBuild(f.build) :
               entries[i].phase = "Opening" \/ (entries[i].phase = "Closing" /\ entries[i].view = None)
        ELSE \E i \in WithView(f.view) :
               f.fact = "Released" => entries[i].phase = "Closing"

\* The coordinator will read the facts that are queued.
Draining == coordinator \in {"running", "arming"}

\* Nothing is stranded while both threads run.  A window that is not yet built
\* has exactly one of its build command and its build result in flight; a
\* window in teardown has its DestroyWindow or its receipt in flight; a view
\* on the UI thread belongs to a live window or its build result is in flight.
NothingStranded ==
  ui = "running" /\ Draining =>
    /\ \A i \in DOMAIN entries :
         LET e == entries[i]
             unbuilt == e.phase = "Opening" \/ (e.phase = "Closing" /\ e.view = None)
         IN  /\ unbuilt <=> e.incarnation \in CommandBuilds \cup FactBuilds
             /\ CommandBuilds \cap FactBuilds = {}
             /\ e.phase = "Closing" /\ e.view # None =>
                  e.view \in CommandViews("DestroyWindow") \cup FactViews("Released")
    /\ \A v \in natives :
         \/ v \in FactViews("Built")
         \/ \E i \in WithView(v) : entries[i].phase # "Destroyed"

\* The two queues and the registry agree, whichever thread runs next: what is
\* in flight is expected, and what is expected is in flight.
QueuesMatchRegistry == NativeInputsExpected /\ NothingStranded

\* When every window of the session is gone, the role that watched the last one
\* go has been told LastWindowClosed, also when the end came through a failed
\* build (the deferred check), and it is never told while a window is shown or
\* closing.  A link that was installed while a retired generation's window was
\* still in teardown is excepted: that release reports to nobody.
LastWindowTold ==
  Connected =>
    /\ app.clean /\ ~has_live_windows(entries)
         /\ (\E i \in 1..IdLimit : app.seen[i] = Gone) => app.told
    /\ app.told => \A i \in DOMAIN entries : entries[i].phase \in {"Opening", "Destroyed"}

\* The router and the UI thread keep the contract the registry alone assumes
\* (no correlation admitted twice, no view reused): every step of the session
\* is a step of the registry's own specification, so what is proved of that
\* specification holds here.
RegistryImplemented == RegistrySpec

WS == INSTANCE WindowStream WITH
        Windows <- 1..IdLimit, States <- WindowStates, CloseSeqs <- 1..CloseSeqLimit,
        NoState <- None, connected <- Connected, seen <- app.seen,
        awaiting <- app.awaiting, told <- app.told

\* The session implements the ordered stream a role is promised.
StreamImplemented == WS!Spec

\* Every admitted call is answered, or its link ends: no Create or Destroy hangs
\* on a window stuck between the two queues.
CallsSettle == \A c \in Correlations : c \in app.awaiting ~> c \notin app.awaiting

\* An ended session really ends: once a shutdown is claimed or the UI loop has
\* turned terminal, no native window survives and both threads come to rest.
TeardownCompletes ==
  session # "running" \/ ui # "running"
    ~> ui = "exited" /\ natives = {} /\ ~Draining

\* Criterion 31: a window that was shown when the host accepted Quit reaches
\* Destroyed; at the latest when the UI loop and the coordinator have ended.
QuitDestroysWindows ==
  session = "ended" /\ ui = "exited" /\ ~Draining
    => \A i \in DOMAIN entries : entries[i].created => entries[i].phase = "Destroyed"

=============================================================================
