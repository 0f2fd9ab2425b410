------------------------- MODULE WindowSessionProofs -------------------------
(***************************************************************************)
(* Proofs about the window service of a session, for every number of       *)
(* generations, windows and views and every value of the limits.           *)
(*                                                                         *)
(* The core thread and the UI thread meet only in two queues.  QueueInv    *)
(* says what a queued command or fact implies about the registry and the   *)
(* native windows: a build token is in one queue at most and its window is *)
(* unbuilt, a view is announced by Built before anything else is said of   *)
(* it and nothing follows its Released, and a view named by a command      *)
(* exists.  It speaks of an entry only through its Stage and its view, so  *)
(* most operations of the registry do not touch it (Quiet).                *)
(***************************************************************************)
EXTENDS WindowSession, WindowRegistryProofs, WellFoundedInduction

-----------------------------------------------------------------------------
(* The invariant of the queues.                                            *)

(* How far the native window of an entry has got.                          *)
Stage(e) ==
  CASE Shown(e) -> "shown"
    [] e.phase = "Destroyed" -> "gone"
    [] e.phase \in {"Opening", "Closing"} /\ e.view = None -> "unbuilt"
    [] OTHER -> "tearing"

Mapped(v) == \E i \in 1..last_id : entries[i].view = v

IsBuild(f) == f.fact \in {"Built", "BuildFailed"}

About(f, v) == f.fact # "BuildFailed" /\ f.view = v

Announces(f, v) == f.fact = "Built" /\ f.view = v

QueueTypeOK ==
  /\ current \in Owners \cup {None}
  /\ generation \in Nat
  /\ commands \in Seq(Commands)
  /\ facts \in Seq(Facts)
  /\ ui \in {"running", "terminal", "stopping", "released", "exited"}
  /\ natives \subseteq Views
  /\ next_view \in Nat
  /\ coordinator \in {"running", "arming", "failed", "done"}
  /\ window_ready \in BOOLEAN

(* What is in flight.                                                      *)
Queued(c) == \E k \in 1..Len(commands) : commands[k] = c

Resulting(b) == \E k \in 1..Len(facts) : IsBuild(facts[k]) /\ facts[k].build = b

Announced(v) == \E k \in 1..Len(facts) : Announces(facts[k], v)

Receipted(v) == \E k \in 1..Len(facts) : facts[k].fact = "Released" /\ facts[k].view = v

(* A build result belongs to an unbuilt window, and its view is new to the *)
(* registry.                                                               *)
BuildOK(f) ==
  /\ IsBuild(f) => f.build \in 1..last_id /\ Stage(entries[f.build]) = "unbuilt"
  /\ f.fact = "Built" =>
       /\ f.view < next_view /\ ~Mapped(f.view)
       /\ f.view \in natives \/ ui \in {"released", "exited"}

(* A receipt comes from a window in teardown.                              *)
ReceiptOK(f) ==
  f.fact = "Released" =>
    /\ f.view \notin natives
    /\ ending \/ Mapped(f.view)
    /\ \A i \in 1..last_id : entries[i].view = f.view => Stage(entries[i]) = "tearing"

FactsOK == \A k \in 1..Len(facts) : BuildOK(facts[k]) /\ ReceiptOK(facts[k])

(* A view is mapped, or announced ahead of what else is said of it.        *)
FactsAnnounced ==
  \A k \in 1..Len(facts) :
    ~IsBuild(facts[k]) =>
      Mapped(facts[k].view) \/ \E j \in 1..(k - 1) : Announces(facts[j], facts[k].view)

(* Fact g may come after fact f.                                           *)
FactFollows(f, g) ==
  /\ IsBuild(f) /\ IsBuild(g) => f.build # g.build
  /\ f.fact = "Built" => ~Announces(g, f.view)
  /\ f.fact = "Released" => ~About(g, f.view)

FactsOrdered == \A j, k \in 1..Len(facts) : j < k => FactFollows(facts[j], facts[k])

CreateOK(c) ==
  c.cmd = "CreateWindow" =>
    /\ c.build \in 1..last_id /\ Stage(entries[c.build]) = "unbuilt"
    /\ ~Resulting(c.build)

ViewOK(c) ==
  /\ c.cmd \in {"SetWindow", "DestroyWindow"} => c.view \in natives
  /\ c.cmd = "DestroyWindow" =>
       \E i \in 1..last_id : entries[i].view = c.view /\ Stage(entries[i]) = "tearing"

CommandsOK ==
  /\ ui # "running" => commands = << >>
  /\ \A k \in 1..Len(commands) : CreateOK(commands[k]) /\ ViewOK(commands[k])

(* Command d may come after command c.                                     *)
CommandFollows(c, d) ==
  /\ c.cmd = "CreateWindow" /\ d.cmd = "CreateWindow" => c.build # d.build
  /\ c.cmd = "DestroyWindow" /\ d.cmd \in {"SetWindow", "DestroyWindow"} => c.view # d.view

CommandsOrdered ==
  \A j, k \in 1..Len(commands) : j < k => CommandFollows(commands[j], commands[k])

(* The native windows are the shown ones and those whose build result or   *)
(* teardown is on its way.                                                 *)
NativesOK ==
  /\ \A v \in natives :
       /\ v < next_view
       /\ Announced(v) \/ \E i \in 1..last_id : entries[i].view = v /\ Stage(entries[i]) # "gone"
  /\ \A i \in 1..last_id :
       /\ entries[i].view # None => entries[i].view < next_view
       /\ Stage(entries[i]) = "shown" => entries[i].view \in natives
  /\ ui \in {"stopping", "released", "exited"} => ending
  /\ ui \in {"released", "exited"} => natives = {}

(* No window comes before Ready; the coordinator ends after the UI loop.   *)
ThreadsOK ==
  /\ ~window_ready => last_id = 0
  /\ coordinator = "done" => ui = "exited"

(* What is expected is in flight.                                          *)
InFlight ==
  ui = "running" /\ Draining =>
    \A i \in 1..last_id :
      /\ Stage(entries[i]) = "unbuilt" => Queued(CreateWindow(i)) \/ Resulting(i)
      /\ Stage(entries[i]) = "tearing" =>
           Queued(DestroyWindow(entries[i].view)) \/ Receipted(entries[i].view)

QueueInv ==
  /\ QueueTypeOK
  /\ FactsOK /\ FactsAnnounced /\ FactsOrdered
  /\ CommandsOK /\ CommandsOrdered
  /\ NativesOK /\ ThreadsOK /\ InFlight

-----------------------------------------------------------------------------
(* Sequences and orderings.                                                *)

\* A nonempty set of naturals has a least element.
LEMMA Least ==
  ASSUME NEW T \in SUBSET Nat, T # {}
  PROVE  \E x \in T : \A y \in T : x <= y
<1>1. \E x \in T : \A y \in T : ~(<<y, x>> \in OpToRel(<, Nat))
  BY NatLessThanWellFounded, WFMin, Zenon
<1>2. \E x \in T : \A y \in T : ~(y < x)
  BY <1>1 DEF OpToRel
<1> QED
  BY <1>2

Increasing(q, n, S) ==
  /\ q \in [1..n -> S]
  /\ \A a, b \in 1..n : a < b => q[a] < q[b]

\* A finite set of naturals can be listed in increasing order.
LEMMA CanOrder ==
  \A n \in Nat : \A S \in SUBSET Nat :
    IsFiniteSet(S) /\ Cardinality(S) = n => \E q : Increasing(q, n, S)
<1> DEFINE Bad == {n \in Nat : \E S \in SUBSET Nat :
                     IsFiniteSet(S) /\ Cardinality(S) = n /\ ~\E q : Increasing(q, n, S)}
<1>1. SUFFICES ASSUME Bad # {} PROVE FALSE
  OBVIOUS
<1>2. PICK n \in Bad : \A m \in Bad : n <= m
  BY <1>1, Least
<1>3. PICK S \in SUBSET Nat :
        IsFiniteSet(S) /\ Cardinality(S) = n /\ ~\E q : Increasing(q, n, S)
  BY <1>2
<1>4. CASE n = 0
  <2>1. Increasing([x \in 1..0 |-> x], 0, S)
    BY DEF Increasing
  <2> QED
    BY <1>3, <1>4, <2>1
<1>5. CASE n # 0
  <2>1. S # {}
    BY <1>3, <1>5, FS_EmptySet
  <2>2. PICK x \in S : \A y \in S : x <= y
    BY <2>1, Least
  <2>3. IsFiniteSet(S \ {x}) /\ Cardinality(S \ {x}) = n - 1
    BY <1>3, FS_RemoveElement
  <2>4. n - 1 \in Nat /\ n - 1 \notin Bad
    BY <1>2, <1>5
  <2>5. PICK q : Increasing(q, n - 1, S \ {x})
    BY <2>3, <2>4
  <2> DEFINE r == [k \in 1..n |-> IF k = 1 THEN x ELSE q[k - 1]]
  <2>6. \A k \in 1..n : k # 1 => k - 1 \in 1..(n - 1) /\ r[k] = q[k - 1] /\ q[k - 1] \in S \ {x}
    BY <2>4, <2>5 DEF Increasing
  <2>7. r[1] = x /\ r \in [1..n -> S]
    BY <2>4, <2>6
  <2> HIDE DEF r
  <2>8. ASSUME NEW a \in 1..n, NEW b \in 1..n, a < b
        PROVE  r[a] < r[b]
    <3>1. b # 1 /\ r[b] = q[b - 1] /\ q[b - 1] \in S \ {x} /\ b - 1 \in 1..(n - 1)
      BY <2>6, <2>8
    <3>2. CASE a = 1
      <4>1. x \in Nat /\ q[b - 1] \in Nat /\ x <= q[b - 1] /\ x # q[b - 1]
        BY <1>3, <2>2, <3>1
      <4> QED
        BY <2>7, <3>1, <3>2, <4>1
    <3>3. CASE a # 1
      <4>1. r[a] = q[a - 1] /\ a - 1 \in 1..(n - 1) /\ a - 1 < b - 1
        BY <2>6, <2>8, <3>3
      <4> QED
        BY <2>5, <3>1, <4>1 DEF Increasing
    <3> QED
      BY <3>2, <3>3
  <2>9. Increasing(r, n, S)
    BY <2>7, <2>8 DEF Increasing
  <2> QED
    BY <1>3, <2>9
<1> QED
  BY <1>4, <1>5

\* InOrder lists every element once.
LEMMA InOrderLists ==
  ASSUME NEW S \in SUBSET Nat, IsFiniteSet(S)
  PROVE  LET n == Cardinality(S)
             q == InOrder(S)
         IN  /\ n \in Nat /\ q \in [1..n -> S]
             /\ \A a, b \in 1..n : q[a] = q[b] => a = b
             /\ \A x \in S : \E a \in 1..n : q[a] = x
<1> DEFINE n == Cardinality(S)
           q == InOrder(S)
<1>1. n \in Nat
  BY FS_CardinalityType
<1>2. \E r \in [1..n -> S] : \A a, b \in 1..n : a < b => r[a] < r[b]
  BY <1>1, CanOrder DEF Increasing
<1>3. q \in [1..n -> S] /\ \A a, b \in 1..n : a < b => q[a] < q[b]
  BY <1>2 DEF InOrder
<1> HIDE DEF q
<1>4. \A a, b \in 1..n : q[a] = q[b] => a = b
  <2> SUFFICES ASSUME NEW a \in 1..n, NEW b \in 1..n, q[a] = q[b], a # b PROVE FALSE
    OBVIOUS
  <2>1. q[a] \in Nat /\ q[b] \in Nat
    BY <1>3
  <2>2. a < b \/ b < a
    BY <1>1
  <2> QED
    BY <1>3, <2>1, <2>2
<1>5. q \in Injection(1..n, S)
  BY <1>3, <1>4 DEF Injection, IsInjective
<1>6. IsFiniteSet(1..n) /\ Cardinality(1..n) = n
  BY <1>1, FS_Interval
<1>7. q \in Surjection(1..n, S)
  BY <1>5, <1>6, FS_Injection
<1> QED
  BY <1>1, <1>3, <1>4, <1>7 DEF q, Surjection


\* The fields of a fact, by its kind.
LEMMA FactTypes ==
  ASSUME NEW f \in Facts
  PROVE  /\ f.fact \in {"Built", "BuildFailed", "CloseRequested", "Released", "State"}
         /\ IsBuild(f) => f.build \in 1..IncarnationLimit
         /\ f.fact # "BuildFailed" => f.view \in Views /\ f.view \in Nat /\ f.view # None
         /\ f.fact = "Built" => f.state \in WindowStates
         /\ f.fact = "State" => f.attr \in Attrs /\ f.value \in Values
  BY SessionAssumption, NoneAssumption DEF Facts, IsBuild

\* The fields of a command, by its kind.
LEMMA CommandTypes ==
  ASSUME NEW c \in Commands
  PROVE  /\ c.cmd \in {"CreateWindow", "SetWindow", "DestroyWindow", "Quit", "Fatal"}
         /\ c.cmd = "CreateWindow" => c.build \in 1..IncarnationLimit /\ c = CreateWindow(c.build)
         /\ c.cmd \in {"SetWindow", "DestroyWindow"} => c.view \in Views /\ c.view \in Nat
         /\ c.cmd = "DestroyWindow" => c = DestroyWindow(c.view)
         /\ c.cmd = "Quit" => c = Quit
         /\ c.cmd = "Fatal" => c = Fatal
  BY SessionAssumption DEF Commands, CreateWindow, DestroyWindow, Quit, Fatal

\* The queues as functions of a position.
LEMMA Queues ==
  ASSUME QueueTypeOK
  PROVE  /\ Len(facts) \in Nat /\ DOMAIN facts = 1..Len(facts)
         /\ \A k \in 1..Len(facts) : facts[k] \in Facts
         /\ Len(commands) \in Nat /\ DOMAIN commands = 1..Len(commands)
         /\ \A k \in 1..Len(commands) : commands[k] \in Commands
  BY LenProperties, ElementOfSeq DEF QueueTypeOK

-----------------------------------------------------------------------------
(* Stages.                                                                 *)

\* What the stage of an entry says about its phase and its view.
LEMMA StageMeans ==
  ASSUME NEW end \in BOOLEAN, NEW e, EntryInv(e, end)
  PROVE  /\ Stage(e) \in {"shown", "gone", "unbuilt", "tearing"}
         /\ Stage(e) = "shown" <=> Shown(e)
         /\ Stage(e) = "shown" => e.view \in Views /\ ~end
         /\ Stage(e) = "gone" <=> e.phase = "Destroyed"
         /\ Stage(e) = "unbuilt" <=>
              e.phase = "Opening" \/ (e.phase = "Closing" /\ e.view = None)
         /\ Stage(e) = "unbuilt" => e.view = None
         /\ Stage(e) = "tearing" <=> e.phase = "Closing" /\ e.view # None
         /\ e.view # None => e.view \in Views /\ e.view \in Nat
  <1>1. e.phase \in Phases /\ e.view \in Views \cup {None}
    BY DEF EntryInv, Entry
  <1>2. e.phase = "Opening" => e.view = None
    BY DEF EntryInv
  <1>3. Shown(e) => e.view \in Views /\ ~end
    BY DEF EntryInv
  <1> QED
    BY <1>1, <1>2, <1>3, SessionAssumption DEF Stage, Shown, Phases

SameWindow(e, f) == Stage(f) = Stage(e) /\ f.view = e.view

\* The operations that leave the native window of an entry where it is.
LEMMA SameOps ==
  ASSUME NEW e \in Entry
  PROVE  /\ SameWindow(e, Touched(e))
         /\ e.phase = "Open" => SameWindow(e, CloseAsked(e)) /\ SameWindow(e, CloseAsked(Touched(e)))
         /\ e.phase = "ClosePending" => SameWindow(e, Reopened(e)) /\ SameWindow(e, Reopened(Touched(e)))
         /\ \A o : SameWindow(e, Inherited(e, o))
         /\ \A s : SameWindow(e, [e EXCEPT !.state = s])
         /\ \A n : SameWindow(e, [e EXCEPT !.dropped = n])
         /\ \A c : SameWindow(e, DestroyWaiting(Touched(e), c))
  <1>1. SameWindow(e, Touched(e))
    BY DEF SameWindow, Stage, Shown, Touched, Entry
  <1>2. ASSUME e.phase = "Open"
        PROVE  SameWindow(e, CloseAsked(e)) /\ SameWindow(e, CloseAsked(Touched(e)))
    BY <1>2 DEF SameWindow, Stage, Shown, Touched, CloseAsked, Entry
  <1>3. ASSUME e.phase = "ClosePending"
        PROVE  SameWindow(e, Reopened(e)) /\ SameWindow(e, Reopened(Touched(e)))
    BY <1>3 DEF SameWindow, Stage, Shown, Touched, Reopened, Entry
  <1>4. \A o : SameWindow(e, Inherited(e, o))
    BY DEF SameWindow, Stage, Shown, Inherited, Entry
  <1>5. \A s : SameWindow(e, [e EXCEPT !.state = s])
    BY DEF SameWindow, Stage, Shown, Entry
  <1>6. \A n : SameWindow(e, [e EXCEPT !.dropped = n])
    BY DEF SameWindow, Stage, Shown, Entry
  <1>7. \A c : SameWindow(e, DestroyWaiting(Touched(e), c))
    BY DEF SameWindow, Stage, Shown, DestroyWaiting, Touched, Entry
  <1> QED
    BY <1>1, <1>2, <1>3, <1>4, <1>5, <1>6, <1>7

\* role_lost takes a window's build away from its caller, not from the queues.
LEMMA SameOrphaned ==
  ASSUME NEW end \in BOOLEAN, NEW e, EntryInv(e, end)
  PROVE  SameWindow(e, Orphaned(e))
  <1> DEFINE lost == [e EXCEPT !.owner_live = FALSE, !.adoptable = FALSE, !.destroy_calls = <<>>]
  <1>1. e \in Entry /\ (e.phase = "Opening" => e.view = None)
    BY DEF EntryInv
  <1>2. /\ lost.phase = e.phase /\ lost.view = e.view
        /\ Torn(lost).phase = "Closing" /\ Torn(lost).view = e.view
        /\ Reopened(lost).phase = "Open" /\ Reopened(lost).view = e.view
    BY <1>1 DEF Torn, Reopened, Entry
  <1>3. Orphaned(e) = IF e.phase = "Opening" THEN Torn(lost)
                      ELSE IF e.phase = "ClosePending" THEN Reopened(lost) ELSE lost
    BY DEF Orphaned
  <1> HIDE DEF lost
  <1>4. CASE e.phase = "Opening"
    BY <1>1, <1>2, <1>3, <1>4 DEF SameWindow, Stage, Shown
  <1>5. CASE e.phase = "ClosePending"
    BY <1>2, <1>3, <1>5 DEF SameWindow, Stage, Shown
  <1>6. CASE e.phase \notin {"Opening", "ClosePending"}
    BY <1>2, <1>3, <1>6 DEF SameWindow, Stage, Shown
  <1> QED
    BY <1>4, <1>5, <1>6

\* Teardown of a shown window, and what the end of the session makes of one.
LEMMA TornStage ==
  ASSUME NEW end \in BOOLEAN, NEW e, EntryInv(e, end)
  PROVE  /\ Shown(e) => /\ Stage(Torn(e)) = "tearing" /\ Torn(e).view = e.view
                        /\ Stage(Torn(Touched(e))) = "tearing" /\ Torn(Touched(e)).view = e.view
                        /\ \A c : LET t == Torn(DestroyWaiting(Touched(e), c))
                                  IN  Stage(t) = "tearing" /\ t.view = e.view
         /\ Ended(e).view = e.view
         /\ Stage(Ended(e)) = IF Shown(e) THEN "tearing" ELSE Stage(e)
  <1>1. e \in Entry /\ (e.phase = "Opening" => e.view = None) /\ (Shown(e) => e.view # None)
    BY NoneAssumption DEF EntryInv
  <1>2. /\ Torn(e).phase = "Closing" /\ Torn(e).view = e.view
        /\ Torn(Touched(e)).phase = "Closing" /\ Torn(Touched(e)).view = e.view
        /\ Touched(e).phase = e.phase /\ Touched(e).view = e.view
        /\ \A c : LET t == Torn(DestroyWaiting(Touched(e), c))
                  IN  t.phase = "Closing" /\ t.view = e.view
    BY <1>1 DEF Torn, Touched, DestroyWaiting, Entry
  <1>3. ASSUME NEW t, t.phase = "Closing", t.view = e.view, Shown(e)
        PROVE  Stage(t) = "tearing"
    BY <1>1, <1>3 DEF Stage, Shown
  <1>4. Shown(e) => /\ Stage(Torn(e)) = "tearing" /\ Torn(e).view = e.view
                    /\ Stage(Torn(Touched(e))) = "tearing" /\ Torn(Touched(e)).view = e.view
                    /\ \A c : LET t == Torn(DestroyWaiting(Touched(e), c))
                              IN  Stage(t) = "tearing" /\ t.view = e.view
    BY <1>2, <1>3
  <1>5. CASE e.phase \in {"Opening", "Open", "ClosePending"}
    <2>1. Ended(e) = Torn(Touched(e))
      BY <1>5 DEF Ended
    <2>2. CASE Shown(e)
      BY <1>4, <2>1, <2>2
    <2>3. CASE ~Shown(e)
      BY <1>1, <1>2, <1>5, <2>1, <2>3 DEF Stage, Shown
    <2> QED
      BY <1>4, <2>2, <2>3
  <1>6. CASE e.phase \notin {"Opening", "Open", "ClosePending"}
    <2>1. Ended(e) = Touched(e) /\ ~Shown(e)
      BY <1>6 DEF Ended, Shown
    <2> QED
      BY <1>2, <1>4, <2>1 DEF Stage, Shown
  <1> QED
    BY <1>5, <1>6


-----------------------------------------------------------------------------
(* Steps that leave the native windows where they are.                     *)

Quiet ==
  /\ UNCHANGED <<last_id, ending>>
  /\ \A i \in 1..last_id : SameWindow(entries[i], entries'[i])

UiIdle == UNCHANGED <<ui, natives, next_view>>

\* One entry replaced by one with the same native window.
LEMMA QuietSet ==
  ASSUME RegistryInv, NEW i \in 1..last_id, NEW f, SetEntry(i, f), SameWindow(entries[i], f)
  PROVE  Quiet
  <1>1. \A j \in 1..last_id : entries'[j] = IF j = i THEN f ELSE entries[j]
    BY InvFacts DEF SetEntry
  <1> QED
    BY <1>1 DEF Quiet, SetEntry, SameWindow

\* Operations of a role that do not touch a native window.
LEMMA QuietCalls ==
  ASSUME RegistryInv, NEW o \in Owners
  PROVE  /\ \A i \in DOMAIN entries : CreateAdopts(o, i) => Quiet
         /\ \A w \in WindowRef :
              /\ Setter(o, w) => Quiet
              /\ RequestClose(o, w) => Quiet
              /\ RequestCloseIdle(o, w) => Quiet
              /\ DestroyRefused(o, w) => Quiet
              /\ \A seq, d : CloseReply(o, w, seq, d)
                   /\ ~(ReplyIsCurrent(w, seq) /\ d = "Allow") /\ d \in Verdicts => Quiet
              /\ \A c : Destroy(o, w, c) /\ ~Shown(entries[w.id]) => Quiet
  <1>0. DOMAIN entries = 1..last_id /\ \A i \in 1..last_id : entries[i] \in Entry
    BY InvFacts
  <1>1. ASSUME NEW i \in DOMAIN entries, CreateAdopts(o, i)
        PROVE  Quiet
    BY <1>0, <1>1, SameOps, QuietSet DEF CreateAdopts
  <1>2. ASSUME NEW w \in WindowRef, Admitted(o, w)
        PROVE  w.id \in 1..last_id /\ entries[w.id] \in Entry
    BY <1>0, <1>2, AdmittedOK
  <1>3. ASSUME NEW w \in WindowRef,
               Setter(o, w) \/ RequestCloseIdle(o, w) \/ DestroyRefused(o, w)
        PROVE  Quiet
    <2>1. Admitted(o, w) /\ SetEntry(w.id, Touched(entries[w.id]))
      BY <1>3 DEF Setter, RequestCloseIdle, DestroyRefused
    <2> QED
      BY <1>2, <2>1, SameOps, QuietSet
  <1>4. ASSUME NEW w \in WindowRef, RequestClose(o, w)
        PROVE  Quiet
    <2>1. /\ Admitted(o, w) /\ SetEntry(w.id, CloseAsked(Touched(entries[w.id])))
          /\ entries[w.id].phase = "Open"
      BY <1>4 DEF RequestClose
    <2> QED
      BY <1>2, <2>1, SameOps, QuietSet
  <1>5. ASSUME NEW w \in WindowRef, NEW seq, NEW d \in Verdicts, CloseReply(o, w, seq, d),
               ~(ReplyIsCurrent(w, seq) /\ d = "Allow")
        PROVE  Quiet
    <2>1. Admitted(o, w)
      BY <1>5 DEF CloseReply
    <2>2. CASE ~ReplyIsCurrent(w, seq)
      <3>1. SetEntry(w.id, Touched(entries[w.id]))
        BY <1>5, <2>2 DEF CloseReply
      <3> QED
        BY <1>2, <2>1, <3>1, SameOps, QuietSet
    <2>3. CASE ReplyIsCurrent(w, seq)
      <3>1. d = "Veto"
        BY <1>5, <2>3 DEF Verdicts
      <3>2. SetEntry(w.id, Reopened(Touched(entries[w.id])))
        BY <1>5, <2>3, <3>1 DEF CloseReply
      <3>3. entries[w.id].phase = "ClosePending"
        BY <2>3 DEF ReplyIsCurrent
      <3> QED
        BY <1>2, <2>1, <3>2, <3>3, SameOps, QuietSet
    <2> QED
      BY <2>2, <2>3
  <1>6. ASSUME NEW w \in WindowRef, NEW c, Destroy(o, w, c), ~Shown(entries[w.id])
        PROVE  Quiet
    <2> DEFINE e == DestroyWaiting(Touched(entries[w.id]), [owner |-> o, correlation |-> c])
    <2>1. Admitted(o, w) /\ SetEntry(w.id, IF Shown(e) THEN Torn(e) ELSE e)
      BY <1>6 DEF Destroy
    <2>2. w.id \in 1..last_id /\ entries[w.id] \in Entry
      BY <1>2, <2>1
    <2>3. e.phase = entries[w.id].phase
      BY <2>2 DEF DestroyWaiting, Touched, Entry
    <2>4. SetEntry(w.id, e)
      BY <1>6, <2>1, <2>3 DEF Shown
    <2>5. SameWindow(entries[w.id], e)
      BY <2>2, SameOps
    <2> QED
      BY <2>2, <2>4, <2>5, QuietSet
  <1> QED
    BY <1>1, <1>3, <1>4, <1>5, <1>6

\* The other operations that do not touch a native window: facts, the loss of a
\* role and its succession.
LEMMA QuietInputs ==
  ASSUME RegistryInv
  PROVE  /\ \A i \in DOMAIN entries : \A v : FactDrops(i, v) => Quiet
         /\ \A i \in DOMAIN entries : \A v : NativeClose(i, v) => Quiet
         /\ \A i \in DOMAIN entries : \A v, a, x : FactUpdates(i, v, a, x) => Quiet
         /\ \A o : role_lost(o) => Quiet
         /\ \A o : subscribe_successor(o) => Quiet
         /\ mark_ready => Quiet
         /\ take_destroyed_fact_drops => Quiet
         /\ UNCHANGED registryVars => Quiet
  <1>0. DOMAIN entries = 1..last_id /\ \A i \in 1..last_id : entries[i] \in Entry
    BY InvFacts
  <1>1. ASSUME NEW i \in DOMAIN entries, NEW v, FactDrops(i, v)
        PROVE  Quiet
    <2>1. CASE entries[i].phase = "Closing"
      BY <1>0, <1>1, <2>1, SameOps, QuietSet DEF FactDrops
    <2>2. CASE entries[i].phase # "Closing"
      BY <1>1, <2>2 DEF FactDrops, Quiet, SameWindow
    <2> QED
      BY <2>1, <2>2
  <1>2. ASSUME NEW i \in DOMAIN entries, NEW v, NativeClose(i, v)
        PROVE  Quiet
    BY <1>0, <1>2, SameOps, QuietSet DEF NativeClose
  <1>3. ASSUME NEW i \in DOMAIN entries, NEW v, NEW a, NEW x, FactUpdates(i, v, a, x)
        PROVE  Quiet
    <2>1. SetEntry(i, [entries[i] EXCEPT !.state = [entries[i].state EXCEPT ![a] = x]])
      BY <1>3 DEF FactUpdates
    <2>2. SameWindow(entries[i], [entries[i] EXCEPT !.state = [entries[i].state EXCEPT ![a] = x]])
      BY <1>0, SameOps
    <2> QED
      BY <1>0, <2>1, <2>2, QuietSet
  <1>4. ASSUME NEW o, role_lost(o)
        PROVE  Quiet
    <2>1. \A i \in 1..last_id : SameWindow(entries[i], Orphaned(entries[i]))
      BY InvFacts, SameOrphaned DEF RegistryInv
    <2> QED
      BY <1>0, <1>4, <2>1 DEF role_lost, Quiet, SameWindow
  <1>5. ASSUME NEW o, subscribe_successor(o)
        PROVE  Quiet
    <2>1. \A i \in 1..last_id : SameWindow(entries[i], Inherited(entries[i], o))
      BY <1>0, SameOps
    <2> QED
      BY <1>0, <1>5, <2>1 DEF subscribe_successor, Quiet, SameWindow
  <1>6. mark_ready \/ take_destroyed_fact_drops \/ UNCHANGED registryVars => Quiet
    BY DEF mark_ready, take_destroyed_fact_drops, registryVars, Quiet, SameWindow
  <1> QED
    BY <1>1, <1>2, <1>3, <1>4, <1>5, <1>6

(* What the steps of the core thread do to the native windows: shown ones go *)
(* into teardown, new ones are unbuilt.                                    *)
Grown ==
  /\ last_id' \in Nat /\ last_id <= last_id' /\ (ending => ending')
  /\ \A i \in 1..last_id :
       /\ entries'[i].view = entries[i].view
       /\ \/ Stage(entries'[i]) = Stage(entries[i])
          \/ Stage(entries[i]) = "shown" /\ Stage(entries'[i]) = "tearing"
  /\ \A i \in 1..last_id' :
       i \notin 1..last_id => entries'[i].view = None /\ Stage(entries'[i]) = "unbuilt"

\* A quiet step is one of these.
LEMMA QuietGrown ==
  ASSUME RegistryInv, Quiet
  PROVE  Grown
  <1>1. last_id \in Nat /\ last_id' = last_id /\ ending' = ending
    BY InvFacts DEF Quiet
  <1>2. \A i \in 1..last_id :
          entries'[i].view = entries[i].view /\ Stage(entries'[i]) = Stage(entries[i])
    BY DEF Quiet, SameWindow
  <1>3. \A i \in 1..last_id' : i \in 1..last_id
    BY <1>1
  <1> QED
    BY <1>1, <1>2, <1>3 DEF Grown

\* The facts in flight and the native windows stay expected when windows are
\* created and torn down, and so do the commands.
LEMMA GrownKeeps ==
  ASSUME RegistryInv, QueueInv, Grown, facts' = facts,
         \/ UiIdle
         \/ ui = "terminal" /\ ui' = "stopping" /\ ending' /\ UNCHANGED <<natives, next_view>>
  PROVE  /\ FactsOK' /\ FactsAnnounced' /\ FactsOrdered' /\ NativesOK'
         /\ \A c \in Commands : CreateOK(c) => CreateOK(c)'
         /\ \A c \in Commands : ViewOK(c) => ViewOK(c)'
         /\ \A i \in 1..last_id : i \in 1..last_id'
  <1>1. /\ natives' = natives /\ next_view' = next_view /\ facts' = facts
        /\ ui' \in {"released", "exited"} <=> ui \in {"released", "exited"}
        /\ ui' = "stopping" /\ ui # "stopping" => ending'
        /\ last_id \in Nat /\ last_id' \in Nat /\ last_id <= last_id' /\ (ending => ending')
        /\ natives \subseteq Views
    BY InvFacts DEF UiIdle, Grown, QueueInv, QueueTypeOK
  <1>2. \A i \in 1..last_id : i \in 1..last_id' /\ entries'[i].view = entries[i].view
    BY <1>1 DEF Grown
  <1>3. \A v : v # None => (Mapped(v)' <=> Mapped(v))
    BY <1>1, <1>2 DEF Mapped, Grown
  <1>4. \A k \in 1..Len(facts) : facts[k] \in Facts
    BY Queues DEF QueueInv
  <1>5. \A i \in 1..last_id : Stage(entries[i]) # "shown" => Stage(entries'[i]) = Stage(entries[i])
    BY DEF Grown
  <1>6. \A v : \A i \in 1..last_id' : entries'[i].view = v /\ v # None =>
          i \in 1..last_id /\ entries[i].view = v
    BY <1>2 DEF Grown
  <1>7. FactsOK'
    <2> SUFFICES ASSUME NEW k \in 1..Len(facts)
                 PROVE  BuildOK(facts[k])' /\ ReceiptOK(facts[k])'
      BY <1>1 DEF FactsOK
    <2>1. BuildOK(facts[k]) /\ ReceiptOK(facts[k]) /\ facts'[k] = facts[k]
      BY <1>1 DEF QueueInv, FactsOK
    <2>2. facts[k].fact \in {"Built", "Released"} => facts[k].view # None
      BY <1>4, FactTypes
    <2>3. BuildOK(facts[k])'
      BY <1>1, <1>2, <1>3, <1>5, <2>1, <2>2 DEF BuildOK
    <2>4. ReceiptOK(facts[k])'
      BY <1>1, <1>3, <1>5, <1>6, <2>1, <2>2 DEF ReceiptOK
    <2> QED
      BY <2>3, <2>4
  <1>8. FactsAnnounced' /\ FactsOrdered'
    <2>1. \A k \in 1..Len(facts) : ~IsBuild(facts[k]) => facts[k].view # None
      BY <1>4, FactTypes DEF IsBuild
    <2> QED
      BY <1>1, <1>3, <2>1 DEF QueueInv, FactsAnnounced, FactsOrdered
  <1>9. NativesOK'
    <2>1. \A v \in natives : v # None
      BY <1>1, NoneAssumption
    <2>2. \A v : Announced(v)' <=> Announced(v)
      BY <1>1 DEF Announced
    <2>3. \A i \in 1..last_id : Stage(entries'[i]) # "gone" \/ Stage(entries[i]) = "gone"
      BY DEF Grown
    <2>4. \A v \in natives : v < next_view /\ (Announced(v)' \/
            \E i \in 1..last_id' : entries'[i].view = v /\ Stage(entries'[i]) # "gone")
      BY <1>2, <2>2, <2>3 DEF QueueInv, NativesOK
    <2>5. \A i \in 1..last_id' :
            /\ entries'[i].view # None => entries'[i].view < next_view
            /\ Stage(entries'[i]) = "shown" => entries'[i].view \in natives
      <3> SUFFICES ASSUME NEW i \in 1..last_id'
                   PROVE  /\ entries'[i].view # None => entries'[i].view < next_view
                          /\ Stage(entries'[i]) = "shown" => entries'[i].view \in natives
        OBVIOUS
      <3>1. CASE i \in 1..last_id
        BY <3>1 DEF Grown, QueueInv, NativesOK
      <3>2. CASE i \notin 1..last_id
        BY <3>2 DEF Grown
      <3> QED
        BY <3>1, <3>2
    <2> QED
      BY <1>1, <2>4, <2>5 DEF QueueInv, NativesOK
  <1>10. \A c \in Commands : CreateOK(c) => CreateOK(c)'
    BY <1>1, <1>2, <1>5 DEF CreateOK, Resulting
  <1>11. \A c \in Commands : ViewOK(c) => ViewOK(c)'
    BY <1>1, <1>2, <1>5 DEF ViewOK
  <1> QED
    BY <1>2, <1>7, <1>8, <1>9, <1>10, <1>11


-----------------------------------------------------------------------------
(* Steps of the core thread that send commands.                            *)

\* The command queue after a send.
LEMMA SendKeeps ==
  ASSUME QueueInv, UiIdle, NEW cs \in Seq(Commands), Send(cs),
         \A c \in Commands : CreateOK(c) => CreateOK(c)',
         \A c \in Commands : ViewOK(c) => ViewOK(c)',
         ui = "running" => \A m \in 1..Len(cs) : CreateOK(cs[m])' /\ ViewOK(cs[m])',
         ui = "running" => \A k \in 1..Len(commands), m \in 1..Len(cs) :
                             CommandFollows(commands[k], cs[m]),
         \A m, n \in 1..Len(cs) : m < n => CommandFollows(cs[m], cs[n])
  PROVE  /\ commands' \in Seq(Commands) /\ CommandsOK' /\ CommandsOrdered'
         /\ \A c : Queued(c) => Queued(c)'
         /\ ui = "running" => \A m \in 1..Len(cs) : Queued(cs[m])'
  <1>1. /\ commands \in Seq(Commands) /\ ui' = ui /\ Len(commands) \in Nat /\ Len(cs) \in Nat
        /\ \A k \in 1..Len(commands) : commands[k] \in Commands
    BY Queues, LenProperties DEF QueueInv, QueueTypeOK, UiIdle
  <1>2. \A k \in 1..Len(commands) : CreateOK(commands[k]) /\ ViewOK(commands[k])
    BY DEF QueueInv, CommandsOK
  <1>3. CASE ui # "running"
    <2>1. commands' = commands
      BY <1>3 DEF Send
    <2>2. \A k \in 1..Len(commands) : CreateOK(commands[k])' /\ ViewOK(commands[k])'
      BY <1>1, <1>2, <2>1
    <2> QED
      BY <1>1, <1>3, <2>1, <2>2 DEF QueueInv, CommandsOK, CommandsOrdered, Queued
  <1>4. CASE ui = "running"
    <2> DEFINE n == Len(commands)
    <2>1. commands' = commands \o cs
      BY <1>4 DEF Send
    <2>2. /\ commands' \in Seq(Commands) /\ Len(commands') = n + Len(cs)
          /\ \A k \in 1..(n + Len(cs)) :
               commands'[k] = IF k <= n THEN commands[k] ELSE cs[k - n]
      BY <1>1, <2>1, ConcatProperties
    <2>3. /\ \A k \in 1..n : commands'[k] = commands[k] /\ k \in 1..Len(commands')
          /\ \A m \in 1..Len(cs) : commands'[n + m] = cs[m] /\ n + m \in 1..Len(commands')
          /\ \A k \in 1..Len(commands') :
               k \notin 1..n => k - n \in 1..Len(cs) /\ commands'[k] = cs[k - n]
      <3> HIDE DEF n
      <3>1. n \in Nat /\ Len(cs) \in Nat /\ Len(commands') = n + Len(cs)
        BY <1>1, <2>2 DEF n
      <3>2. \A k \in 1..n : k \in 1..(n + Len(cs)) /\ k <= n
        BY <3>1
      <3>3. \A m \in 1..Len(cs) : n + m \in 1..(n + Len(cs)) /\ ~(n + m <= n) /\ n + m - n = m
        BY <3>1
      <3>4. \A k \in 1..(n + Len(cs)) : k \notin 1..n => ~(k <= n) /\ k - n \in 1..Len(cs)
        BY <3>1
      <3> QED
        BY ONLY <2>2, <3>1, <3>2, <3>3, <3>4
    <2>4. \A k \in 1..n : CreateOK(commands[k]) /\ ViewOK(commands[k]) /\ commands[k] \in Commands
      BY <1>1, <1>2
    <2>5. ASSUME NEW k \in 1..Len(commands')
          PROVE  (CreateOK(commands[k]))' /\ (ViewOK(commands[k]))'
      <3>1. CASE k \in 1..n
        <4>1. PICK c \in Commands : c = commands[k] /\ CreateOK(c) /\ ViewOK(c)
          BY <2>4, <3>1
        <4>2. CreateOK(c)' /\ ViewOK(c)' /\ c = commands'[k]
          BY <2>3, <3>1, <4>1
        <4> QED
          BY <4>2
      <3>2. CASE k \notin 1..n
        <4>1. PICK c : c = cs[k - n] /\ CreateOK(c)' /\ ViewOK(c)' /\ c = commands'[k]
          BY <1>4, <2>3, <3>2
        <4> QED
          BY <4>1
      <3> QED
        BY <3>1, <3>2
    <2>6. ASSUME NEW j \in 1..Len(commands'), NEW k \in 1..Len(commands'), j < k
          PROVE  CommandFollows(commands'[j], commands'[k])
      <3>1. CASE k \in 1..n
        <4>1. j \in 1..n
          BY <1>1, <2>2, <2>6, <3>1
        <4> QED
          BY <2>3, <2>6, <3>1, <4>1 DEF QueueInv, CommandsOrdered
      <3>2. CASE k \notin 1..n /\ j \in 1..n
        BY <1>4, <2>3, <3>2
      <3>3. CASE k \notin 1..n /\ j \notin 1..n
        <4>1. /\ k - n \in 1..Len(cs) /\ commands'[k] = cs[k - n]
              /\ j - n \in 1..Len(cs) /\ commands'[j] = cs[j - n]
          BY <2>3, <3>3
        <4>2. j - n < k - n
          BY <1>1, <2>2, <2>6
        <4> QED
          BY <4>1, <4>2
      <3> QED
        BY <3>1, <3>2, <3>3
    <2>7. CommandsOK' /\ CommandsOrdered'
      BY <1>1, <1>4, <2>5, <2>6 DEF CommandsOK, CommandsOrdered
    <2>8. \A c : Queued(c) => Queued(c)'
      BY <2>3 DEF Queued
    <2>9. \A m \in 1..Len(cs) : Queued(cs[m])'
      BY <2>3 DEF Queued
    <2> QED
      BY <2>2, <2>7, <2>8, <2>9
  <1> QED
    BY <1>3, <1>4

\* A step of the core thread that creates and tears down windows keeps the
\* invariant when it sends the command for each.
LEMMA CoreStep ==
  ASSUME RegistryInv, QueueInv, Grown, UiIdle, facts' = facts,
         NEW cs \in Seq(Commands), Send(cs),
         ui = "running" => \A m \in 1..Len(cs) : CreateOK(cs[m])' /\ ViewOK(cs[m])',
         ui = "running" => \A k \in 1..Len(commands), m \in 1..Len(cs) :
                             CommandFollows(commands[k], cs[m]),
         \A m, n \in 1..Len(cs) : m < n => CommandFollows(cs[m], cs[n]),
         ui = "running" =>
           /\ \A i \in 1..last_id : Stage(entries'[i]) # Stage(entries[i]) =>
                \E m \in 1..Len(cs) : cs[m] = DestroyWindow(entries[i].view)
           /\ \A i \in 1..last_id' : i \notin 1..last_id =>
                \E m \in 1..Len(cs) : cs[m] = CreateWindow(i),
         current' \in Owners \cup {None}, generation' \in Nat, window_ready' \in BOOLEAN,
         ThreadsOK', coordinator' \in {"running", "arming", "failed", "done"},
         (Draining' => Draining) \/ ui = "exited"
  PROVE  QueueInv'
  <1>1. /\ FactsOK' /\ FactsAnnounced' /\ FactsOrdered' /\ NativesOK'
        /\ \A c \in Commands : CreateOK(c) => CreateOK(c)'
        /\ \A c \in Commands : ViewOK(c) => ViewOK(c)'
    BY GrownKeeps
  <1>2. /\ commands' \in Seq(Commands) /\ CommandsOK' /\ CommandsOrdered'
        /\ \A c : Queued(c) => Queued(c)'
        /\ ui = "running" => \A m \in 1..Len(cs) : Queued(cs[m])'
    BY <1>1, SendKeeps
  <1>3. QueueTypeOK'
    BY <1>2 DEF QueueInv, QueueTypeOK, UiIdle
  <1>4. InFlight'
    <2>1. SUFFICES ASSUME ui = "running", Draining, NEW i \in 1..last_id'
          PROVE  /\ Stage(entries'[i]) = "unbuilt" => Queued(CreateWindow(i))' \/ Resulting(i)'
                 /\ Stage(entries'[i]) = "tearing" =>
                      (Queued(DestroyWindow(entries[i].view)))' \/ Receipted(entries[i].view)'
      BY DEF InFlight, UiIdle
    <2>2. \A x : (Resulting(x) => Resulting(x)') /\ (Receipted(x) => Receipted(x)')
      BY DEF Resulting, Receipted
    <2>3. CASE i \notin 1..last_id
      <3>1. Stage(entries'[i]) = "unbuilt" /\ Queued(CreateWindow(i))'
        BY <1>2, <2>1, <2>3 DEF Grown, CreateWindow
      <3> QED
        BY <3>1
    <2>4. CASE i \in 1..last_id /\ Stage(entries'[i]) # Stage(entries[i])
      <3>1. Stage(entries'[i]) = "tearing" /\ entries'[i].view = entries[i].view
        BY <2>4 DEF Grown
      <3>2. PICK m \in 1..Len(cs) : cs[m] = DestroyWindow(entries[i].view)
        BY <2>1, <2>4
      <3>3. (Queued(DestroyWindow(entries[i].view)))'
        BY <1>2, <2>1, <3>1, <3>2 DEF DestroyWindow
      <3> QED
        BY <3>1, <3>3
    <2>5. CASE i \in 1..last_id /\ Stage(entries'[i]) = Stage(entries[i])
      <3>1. entries'[i].view = entries[i].view
        BY <2>5 DEF Grown
      <3>2. /\ Stage(entries[i]) = "unbuilt" => Queued(CreateWindow(i)) \/ Resulting(i)
            /\ Stage(entries[i]) = "tearing" =>
                 Queued(DestroyWindow(entries[i].view)) \/ Receipted(entries[i].view)
        BY <2>1, <2>5 DEF QueueInv, InFlight
      <3>3. Queued(CreateWindow(i)) => Queued(CreateWindow(i))'
        BY <1>2 DEF CreateWindow
      <3>4. Queued(DestroyWindow(entries[i].view)) => (Queued(DestroyWindow(entries[i].view)))'
        BY <1>2, <3>1 DEF DestroyWindow
      <3>5. Receipted(entries[i].view) => (Receipted(entries[i].view))'
        BY <2>2, <3>1
      <3> QED
        BY <2>2, <2>5, <3>2, <3>3, <3>4, <3>5
    <2> QED
      BY <2>3, <2>4, <2>5
  <1> QED
    BY <1>1, <1>2, <1>3, <1>4 DEF QueueInv


\* A quiet step without commands keeps the invariant.
LEMMA QuietStep ==
  ASSUME RegistryInv, QueueInv, Quiet, UiIdle, UNCHANGED <<commands, facts, window_ready>>,
         current' \in Owners \cup {None}, generation' \in Nat,
         \/ coordinator' = coordinator
         \/ ui = "exited" /\ coordinator' = "done"
         \/ coordinator = "arming" /\ coordinator' = "running"
  PROVE  QueueInv'
  <1>1. << >> \in Seq(Commands) /\ Len(<< >>) = 0
    BY EmptySeq
  <1>2. Send(<< >>)
    BY ConcatEmptySeq DEF Send, QueueInv, QueueTypeOK
  <1>3. last_id' = last_id /\ ui' = ui
    BY DEF Quiet, UiIdle
  <1>4. ThreadsOK'
    BY <1>3 DEF QueueInv, ThreadsOK
  <1>5. Grown
    BY QuietGrown
  <1>6. /\ \A i \in 1..last_id : Stage(entries'[i]) = Stage(entries[i])
        /\ \A i \in 1..last_id' : i \in 1..last_id
    BY <1>3 DEF Quiet, SameWindow
  <1>7. window_ready' \in BOOLEAN /\ coordinator' \in {"running", "arming", "failed", "done"}
    BY DEF QueueInv, QueueTypeOK
  <1>8. (Draining' => Draining) \/ ui = "exited"
    BY DEF Draining
  <1>9. \A m \in 1..Len(<< >>) : FALSE
    BY <1>1
  <1> QED
    BY <1>1, <1>2, <1>4, <1>5, <1>6, <1>7, <1>8, <1>9, CoreStep

\* A step that sends one command c, quiet or with its effect on the registry.
LEMMA OneCommand ==
  ASSUME RegistryInv, QueueInv, Grown, UiIdle, UNCHANGED <<facts, window_ready>>,
         coordinator' \in {coordinator, "failed"},
         NEW c \in Commands, Send(<<c>>),
         ui = "running" => CreateOK(c)' /\ ViewOK(c)',
         ui = "running" => \A k \in 1..Len(commands) : CommandFollows(commands[k], c),
         ui = "running" => \A i \in 1..last_id :
           Stage(entries'[i]) # Stage(entries[i]) => c = DestroyWindow(entries[i].view),
         ui = "running" => \A i \in 1..last_id' : i \notin 1..last_id => c = CreateWindow(i),
         current' \in Owners \cup {None}, generation' \in Nat, ThreadsOK'
  PROVE  QueueInv'
  <1>1. <<c>> \in Seq(Commands) /\ Len(<<c>>) = 1 /\ <<c>>[1] = c
    OBVIOUS
  <1>2. \A m \in 1..Len(<<c>>) : m = 1
    BY <1>1
  <1>3. window_ready' \in BOOLEAN /\ coordinator' \in {"running", "arming", "failed", "done"}
    BY DEF QueueInv, QueueTypeOK
  <1>4. PICK cs \in Seq(Commands) : cs = <<c>>
    BY <1>1
  <1>5. Len(cs) = 1 /\ cs[1] = c /\ Send(cs) /\ 1 \in 1..Len(cs)
    BY <1>1, <1>4
  <1>6. \A m \in 1..Len(cs) : m = 1 /\ cs[m] = c
    BY <1>2, <1>4, <1>5
  <1>7. ui = "running" => \A m \in 1..Len(cs) : CreateOK(cs[m])' /\ ViewOK(cs[m])'
    BY <1>6
  <1>8. ui = "running" => \A k \in 1..Len(commands), m \in 1..Len(cs) :
                             CommandFollows(commands[k], cs[m])
    BY <1>6
  <1>9. \A m, n \in 1..Len(cs) : ~(m < n)
    BY <1>6
  <1>10. ui = "running" =>
           /\ \A i \in 1..last_id : Stage(entries'[i]) # Stage(entries[i]) =>
                \E m \in 1..Len(cs) : cs[m] = DestroyWindow(entries[i].view)
           /\ \A i \in 1..last_id' : i \notin 1..last_id =>
                \E m \in 1..Len(cs) : cs[m] = CreateWindow(i)
    BY <1>5
  <1>11. facts' = facts /\ ((Draining' => Draining) \/ ui = "exited")
    BY DEF Draining
  <1> HIDE DEF Send
  <1> QED
    BY ONLY <1>3, <1>5, <1>7, <1>8, <1>9, <1>10, <1>11, CoreStep, RegistryInv, QueueInv,
            Grown, UiIdle, current' \in Owners \cup {None}, generation' \in Nat, ThreadsOK'


\* Quit and Fatal ask nothing of the registry.
LEMMA SignalStep ==
  ASSUME RegistryInv, QueueInv, Quiet, UiIdle, UNCHANGED <<facts, window_ready>>,
         coordinator' \in {coordinator, "failed"},
         NEW c \in {Quit, Fatal}, Send(<<c>>),
         current' \in Owners \cup {None}, generation' \in Nat
  PROVE  QueueInv'
  <1>1. c \in Commands /\ c.cmd \in {"Quit", "Fatal"}
    BY DEF Commands, Quit, Fatal
  <1>2. CreateOK(c)' /\ ViewOK(c)'
    BY <1>1 DEF CreateOK, ViewOK
  <1>3. \A d : CommandFollows(d, c)
    BY <1>1 DEF CommandFollows
  <1>4. last_id' = last_id /\ ui' = ui /\ \A i \in 1..last_id : Stage(entries'[i]) = Stage(entries[i])
    BY DEF Quiet, UiIdle, SameWindow
  <1>5. ThreadsOK'
    BY <1>4 DEF QueueInv, ThreadsOK
  <1>6. Grown
    BY QuietGrown
  <1>7. \A i \in 1..last_id' : i \in 1..last_id
    BY <1>4
  <1> QED
    BY <1>1, <1>2, <1>3, <1>4, <1>5, <1>6, <1>7, OneCommand

\* A command for a shown window names a view that exists and that is not being
\* torn down.
LEMMA ShownView ==
  ASSUME RegistryInv, QueueInv, NEW i \in 1..last_id, Shown(entries[i])
  PROVE  /\ entries[i].view \in natives /\ entries[i].view \in Views /\ entries[i].view # None
         /\ Stage(entries[i]) = "shown"
         /\ \A k \in 1..Len(commands) :
              commands[k].cmd = "DestroyWindow" => commands[k].view # entries[i].view
  <1>1. Stage(entries[i]) = "shown" /\ entries[i].view \in Views
    BY InvFacts, StageMeans DEF RegistryInv
  <1>2. entries[i].view \in natives /\ entries[i].view # None
    BY <1>1, NoneAssumption DEF QueueInv, NativesOK
  <1>3. ASSUME NEW k \in 1..Len(commands), commands[k].cmd = "DestroyWindow",
               commands[k].view = entries[i].view
        PROVE  FALSE
    <2>1. PICK j \in 1..last_id : entries[j].view = entries[i].view /\ Stage(entries[j]) = "tearing"
      BY <1>3 DEF QueueInv, CommandsOK, ViewOK
    <2>2. j = i
      BY <1>2, <2>1 DEF RegistryInv, ViewsDistinct
    <2> QED
      BY <1>1, <2>1, <2>2
  <1> QED
    BY <1>1, <1>2, <1>3

\* send_window_setter.
LEMMA SetterStep ==
  ASSUME RegistryInv, QueueInv, Quiet, UiIdle, UNCHANGED <<facts, coordinator, window_ready>>,
         NEW i \in 1..last_id, Shown(entries[i]), Send(<<SetWindow(entries[i].view)>>),
         current' \in Owners \cup {None}, generation' \in Nat
  PROVE  QueueInv'
  <1> DEFINE c == SetWindow(entries[i].view)
  <1>0. /\ entries[i].view \in natives /\ entries[i].view \in Views
        /\ \A k \in 1..Len(commands) :
             commands[k].cmd = "DestroyWindow" => commands[k].view # entries[i].view
    BY ShownView
  <1>1. c \in Commands /\ c.cmd = "SetWindow" /\ c.view = entries[i].view
    BY <1>0 DEF Commands, SetWindow
  <1> HIDE DEF c
  <1>2. PICK d \in Commands : d = c
    BY <1>1
  <1>3. last_id' = last_id /\ ui' = ui /\ natives' = natives
        /\ \A j \in 1..last_id : Stage(entries'[j]) = Stage(entries[j])
    BY DEF Quiet, UiIdle, SameWindow
  <1>4. CreateOK(d)' /\ ViewOK(d)'
    BY <1>0, <1>1, <1>2, <1>3 DEF CreateOK, ViewOK
  <1>5. \A k \in 1..Len(commands) : CommandFollows(commands[k], d)
    BY <1>0, <1>1, <1>2 DEF CommandFollows
  <1>6. ThreadsOK'
    BY <1>3 DEF QueueInv, ThreadsOK
  <1>7. Grown
    BY QuietGrown
  <1>8. \A j \in 1..last_id' : j \in 1..last_id
    BY <1>3
  <1>9. Send(<<d>>)
    BY <1>2 DEF c
  <1> QED
    BY <1>2, <1>3, <1>4, <1>5, <1>6, <1>7, <1>8, <1>9, OneCommand

\* A shown window goes into teardown with its DestroyWindow.
LEMMA TeardownStep ==
  ASSUME RegistryInv, QueueInv, UiIdle, UNCHANGED <<facts, coordinator, window_ready>>,
         NEW i \in 1..last_id, Shown(entries[i]), NEW f, SetEntry(i, f),
         Stage(f) = "tearing", f.view = entries[i].view,
         Send(<<DestroyWindow(entries[i].view)>>),
         current' \in Owners \cup {None}, generation' \in Nat
  PROVE  QueueInv'
  <1> DEFINE v == entries[i].view
  <1>0. /\ v \in natives /\ v \in Views /\ Stage(entries[i]) = "shown"
        /\ \A k \in 1..Len(commands) :
             commands[k].cmd = "DestroyWindow" => commands[k].view # v
    BY ShownView
  <1>1. PICK c \in Commands : c = DestroyWindow(v) /\ c.cmd = "DestroyWindow" /\ c.view = v
    BY <1>0 DEF Commands, DestroyWindow
  <1>2. /\ last_id' = last_id /\ ending' = ending /\ last_id \in Nat
        /\ \A j \in 1..last_id : entries'[j] = IF j = i THEN f ELSE entries[j]
    BY InvFacts DEF SetEntry
  <1>3. \A j \in 1..last_id' : j \in 1..last_id
    BY <1>2
  <1>4. Grown
    BY <1>0, <1>2, <1>3 DEF Grown
  <1>5. CreateOK(c)' /\ ViewOK(c)'
    BY <1>0, <1>1, <1>2 DEF CreateOK, ViewOK, UiIdle
  <1>6. \A k \in 1..Len(commands) : CommandFollows(commands[k], c)
    BY <1>0, <1>1 DEF CommandFollows
  <1>7. \A j \in 1..last_id : Stage(entries'[j]) # Stage(entries[j]) => c = DestroyWindow(entries[j].view)
    BY <1>1, <1>2
  <1>8. ThreadsOK'
    BY <1>2 DEF QueueInv, ThreadsOK, UiIdle
  <1>9. Send(<<c>>)
    BY <1>1
  <1> QED
    BY <1>1, <1>3, <1>4, <1>5, <1>6, <1>7, <1>8, <1>9, OneCommand

\* create sends the build of a new window.
LEMMA CreateStep ==
  ASSUME RegistryInv, QueueInv, UiIdle, UNCHANGED <<facts, coordinator, window_ready>>,
         window_ready, NEW o, NEW c, CreateBuilds(o, c),
         Send(<<CreateWindow(last_incarnation + 1)>>),
         current' \in Owners \cup {None}, generation' \in Nat
  PROVE  QueueInv'
  <1> DEFINE n == last_id + 1
  <1>1. /\ last_id \in Nat /\ last_incarnation = last_id /\ DOMAIN entries = 1..last_id
        /\ last_id' = n /\ ending' = ending /\ n <= IncarnationLimit
    BY InvFacts, LimitsAssumption DEF RegistryInv, CreateBuilds, create_error
  <1>2. /\ \A j \in 1..last_id : entries'[j] = entries[j]
        /\ entries'[n] = NewEntry(o, c, last_incarnation + 1)
    BY <1>1 DEF CreateBuilds
  <1>3. entries'[n].view = None /\ Stage(entries'[n]) = "unbuilt"
    BY <1>2 DEF NewEntry, Stage, Shown
  <1>4. \A j \in 1..last_id' : j \notin 1..last_id => j = n
    BY <1>1
  <1>5. Grown
    BY <1>1, <1>2, <1>3, <1>4 DEF Grown
  <1>6. PICK d \in Commands : d = CreateWindow(n) /\ d.cmd = "CreateWindow" /\ d.build = n
    BY <1>1 DEF Commands, CreateWindow
  <1>7. ~(n \in 1..last_id) /\ n \in 1..last_id'
    BY <1>1
  <1>8. ~Resulting(n)
    BY <1>7 DEF QueueInv, FactsOK, BuildOK, Resulting
  <1>9. CreateOK(d)' /\ ViewOK(d)'
    BY <1>3, <1>6, <1>7, <1>8 DEF CreateOK, ViewOK, Resulting
  <1>10. \A k \in 1..Len(commands) : CommandFollows(commands[k], d)
    BY <1>6, <1>7 DEF QueueInv, CommandsOK, CreateOK, CommandFollows
  <1>11. ThreadsOK'
    BY DEF QueueInv, ThreadsOK, UiIdle
  <1>12. Send(<<d>>)
    BY <1>1, <1>6
  <1>13. \A j \in 1..last_id : Stage(entries'[j]) = Stage(entries[j])
    BY <1>2
  <1> QED
    BY <1>4, <1>5, <1>6, <1>9, <1>10, <1>11, <1>12, <1>13, OneCommand


\* A function over 1..n is a sequence of length n.
LEMMA FunIsSeq ==
  ASSUME NEW S, NEW n \in Nat, NEW q \in [1..n -> S]
  PROVE  q \in Seq(S) /\ Len(q) = n
  OBVIOUS

\* The teardown commands of the session end: one for each shown window.
LEMMA TeardownCommands ==
  ASSUME RegistryInv
  PROVE  LET S == {i \in DOMAIN entries : Shown(entries[i])}
             ids == InOrder(S)
             n == Cardinality(S)
             cs == SessionTeardownCommands
         IN  /\ n \in Nat /\ ids \in [1..n -> S]
             /\ \A a, b \in 1..n : ids[a] = ids[b] => a = b
             /\ \A x \in S : \E a \in 1..n : ids[a] = x
             /\ cs \in Seq(Commands) /\ Len(cs) = n
             /\ \A m \in 1..n : cs[m] = DestroyWindow(entries[ids[m]].view)
  <1> DEFINE S == {i \in DOMAIN entries : Shown(entries[i])}
             ids == InOrder(S)
             n == Cardinality(S)
             cs == SessionTeardownCommands
  <1>1. DOMAIN entries = 1..last_id /\ last_id \in Nat
    BY InvFacts
  <1>2. IsFiniteSet(1..last_id)
    BY <1>1, FS_Interval
  <1>3. IsFiniteSet(S) /\ S \in SUBSET Nat
    <2>1. S \in SUBSET (1..last_id)
      BY <1>1
    <2> QED
      BY <1>1, <1>2, <2>1, FS_Subset
  <1>4. /\ n \in Nat /\ ids \in [1..n -> S]
        /\ \A a, b \in 1..n : ids[a] = ids[b] => a = b
        /\ \A x \in S : \E a \in 1..n : ids[a] = x
    <2> HIDE DEF S
    <2> QED
      BY <1>3, InOrderLists
  <1>5. cs = [k \in DOMAIN ids |-> DestroyWindow(entries[ids[k]].view)]
    BY DEF SessionTeardownCommands
  <1>6. DOMAIN ids = 1..n
    BY <1>4
  <1>7. \A i \in S : entries[i].view \in Views
    BY <1>1, InvFacts, StageMeans DEF RegistryInv
  <1>8. \A m \in 1..n : DestroyWindow(entries[ids[m]].view) \in Commands
    BY <1>4, <1>7 DEF Commands, DestroyWindow
  <1> HIDE DEF ids, n, S, cs
  <1>9. cs \in [1..n -> Commands] /\ \A m \in 1..n : cs[m] = DestroyWindow(entries[ids[m]].view)
    BY <1>5, <1>6, <1>8
  <1>10. cs \in Seq(Commands) /\ Len(cs) = n
    BY <1>4, <1>9, FunIsSeq
  <1> QED
    BY <1>4, <1>9, <1>10 DEF ids, n, S, cs

\* What session_end makes of every entry.
LEMMA EndedEntries ==
  ASSUME RegistryInv, session_end
  PROVE  /\ last_id' = last_id /\ ending' = TRUE /\ Grown
         /\ \A i \in 1..last_id :
              /\ entries'[i].view = entries[i].view
              /\ Stage(entries'[i]) = IF Shown(entries[i]) THEN "tearing" ELSE Stage(entries[i])
  <1>1. /\ last_id' = last_id /\ last_id \in Nat /\ ending' = TRUE
        /\ \A i \in 1..last_id : entries'[i] = Ended(entries[i])
    BY InvFacts DEF session_end
  <1>2. \A i \in 1..last_id :
          /\ entries'[i].view = entries[i].view
          /\ Stage(entries'[i]) = IF Shown(entries[i]) THEN "tearing" ELSE Stage(entries[i])
    BY <1>1, InvFacts, TornStage DEF RegistryInv
  <1>3. \A i \in 1..last_id : Stage(entries[i]) = "shown" <=> Shown(entries[i])
    BY InvFacts, StageMeans DEF RegistryInv
  <1>4. \A i \in 1..last_id' : i \in 1..last_id
    BY <1>1
  <1>5. \A i \in 1..last_id :
          \/ Stage(entries'[i]) = Stage(entries[i])
          \/ Stage(entries[i]) = "shown" /\ Stage(entries'[i]) = "tearing"
    BY <1>2, <1>3
  <1>6. Grown
    BY <1>1, <1>2, <1>4, <1>5 DEF Grown
  <1> QED
    BY <1>1, <1>2, <1>6

\* end_window_session_guarded: the accepted shutdown.
LEMMA AcceptStep ==
  ASSUME RegistryInv, QueueInv, UiIdle, UNCHANGED <<facts, coordinator, window_ready>>,
         session_end, Send(SessionTeardownCommands),
         current' \in Owners \cup {None}, generation' \in Nat
  PROVE  QueueInv'
  <1> DEFINE S == {i \in DOMAIN entries : Shown(entries[i])}
             ids == InOrder(S)
             n == Cardinality(S)
  <1>1. PICK cs : cs = SessionTeardownCommands
    OBVIOUS
  <1>2. /\ n \in Nat /\ ids \in [1..n -> S]
        /\ \A a, b \in 1..n : ids[a] = ids[b] => a = b
        /\ \A x \in S : \E a \in 1..n : ids[a] = x
        /\ cs \in Seq(Commands) /\ Len(cs) = n
        /\ \A m \in 1..n : cs[m] = DestroyWindow(entries[ids[m]].view)
    BY <1>1, TeardownCommands
  <1>3. \A i : i \in S <=> i \in 1..last_id /\ Shown(entries[i])
    BY InvFacts
  <1> HIDE DEF S, ids, n
  <1>4. /\ last_id' = last_id /\ Grown
        /\ \A i \in 1..last_id :
             /\ entries'[i].view = entries[i].view
             /\ Stage(entries'[i]) = IF Shown(entries[i]) THEN "tearing" ELSE Stage(entries[i])
    BY EndedEntries
  <1>5. \A m \in 1..n : /\ cs[m].cmd = "DestroyWindow" /\ cs[m].view = entries[ids[m]].view
                        /\ ids[m] \in 1..last_id /\ Shown(entries[ids[m]])
    BY <1>2, <1>3 DEF DestroyWindow
  <1>6. \A m \in 1..n :
          /\ cs[m].view \in natives /\ cs[m].view # None
          /\ \A k \in 1..Len(commands) :
               commands[k].cmd = "DestroyWindow" => commands[k].view # cs[m].view
    BY <1>5, ShownView
  <1>7. \A m \in 1..Len(cs) : CreateOK(cs[m])' /\ ViewOK(cs[m])'
    <2> SUFFICES ASSUME NEW m \in 1..n PROVE CreateOK(cs[m])' /\ ViewOK(cs[m])'
      BY <1>2
    <2>1. PICK c : c = cs[m]
      OBVIOUS
    <2>2. /\ c.cmd = "DestroyWindow" /\ c.view \in natives' /\ ids[m] \in 1..last_id'
          /\ entries'[ids[m]].view = c.view /\ Stage(entries'[ids[m]]) = "tearing"
      BY <1>4, <1>5, <1>6, <2>1 DEF UiIdle
    <2>3. CreateOK(c)' /\ ViewOK(c)'
      BY <2>2 DEF CreateOK, ViewOK
    <2> QED
      BY <2>1, <2>3
  <1>8. \A k \in 1..Len(commands), m \in 1..Len(cs) : CommandFollows(commands[k], cs[m])
    BY <1>2, <1>5, <1>6 DEF CommandFollows
  <1>9. \A a, b \in 1..Len(cs) : a < b => CommandFollows(cs[a], cs[b])
    <2> SUFFICES ASSUME NEW a \in 1..n, NEW b \in 1..n, a < b PROVE CommandFollows(cs[a], cs[b])
      BY <1>2
    <2>1. ids[a] # ids[b] /\ entries[ids[a]].view # None
      BY <1>2, <1>5, <1>6
    <2>2. entries[ids[a]].view # entries[ids[b]].view
      BY <1>5, <2>1 DEF RegistryInv, ViewsDistinct
    <2> QED
      BY <1>5, <2>2 DEF CommandFollows
  <1>10. \A i \in 1..last_id : Stage(entries'[i]) # Stage(entries[i]) =>
                \E m \in 1..Len(cs) : cs[m] = DestroyWindow(entries[i].view)
    BY <1>2, <1>3, <1>4
  <1>11. \A i \in 1..last_id' : i \in 1..last_id
    BY <1>4
  <1>12. ThreadsOK'
    BY <1>4 DEF QueueInv, ThreadsOK, UiIdle
  <1>13. window_ready' \in BOOLEAN /\ coordinator' \in {"running", "arming", "failed", "done"}
    BY DEF QueueInv, QueueTypeOK
  <1>14. Send(cs) /\ facts' = facts /\ ((Draining' => Draining) \/ ui = "exited")
    BY <1>1 DEF Draining
  <1> QED
    BY ONLY <1>2, <1>4, <1>7, <1>8, <1>9, <1>10, <1>11, <1>12, <1>13, <1>14, CoreStep,
            RegistryInv, QueueInv, UiIdle, current' \in Owners \cup {None}, generation' \in Nat


-----------------------------------------------------------------------------
(* Calls of the role.                                                      *)

\* A reference to an entry of the table is well-formed.
LEMMA RefOK ==
  ASSUME RegistryInv, NEW i \in DOMAIN entries
  PROVE  RefOf(i) \in WindowRef /\ RefOf(i).id = i /\ i \in 1..last_id
  <1>1. i \in 1..last_id /\ last_id \in 0..IdLimit /\ entries[i] \in Entry
    BY InvFacts
  <1>2. i \in 1..IdLimit
    BY <1>1, LimitsAssumption
  <1>3. entries[i].incarnation \in 1..IncarnationLimit
    BY <1>1 DEF Entry
  <1> QED
    BY <1>1, <1>2, <1>3 DEF RefOf, WindowRef

(* What a call leaves alone besides the registry, the commands and app.    *)
CallFrame ==
  /\ UiIdle /\ UNCHANGED <<facts, coordinator, window_ready, current, generation>>
  /\ window_ready /\ current \in Owners

\* Each call of the role keeps the invariant of the queues.
LEMMA CallsKeepQueues ==
  ASSUME RegistryInv, QueueInv, DispatchWindow
  PROVE  QueueInv'
  <1>0. CallFrame /\ current' \in Owners \cup {None} /\ generation' \in Nat
    BY DEF DispatchWindow, CallCreate, CallSetter, CallRequestClose, CallCloseReply, CallDestroy,
       Wrote, Knows, CallFrame, UiIdle, CanCall, Dispatchable, QueueInv, QueueTypeOK, hostVars, uiVars
  <1>1. UiIdle /\ UNCHANGED <<facts, coordinator, window_ready>> /\ window_ready /\ current \in Owners
    BY <1>0 DEF CallFrame
  <1>2. ASSUME Quiet, UNCHANGED commands
        PROVE  QueueInv'
    BY <1>0, <1>1, <1>2, QuietStep
  <1>3. CASE CallCreate
    <2>1. ASSUME NEW i \in DOMAIN entries, CreateAdopts(current, i), UNCHANGED commands
          PROVE  QueueInv'
      BY <1>1, <1>2, <2>1, QuietCalls
    <2>2. ASSUME NEW c \in Correlations, CreateBuilds(current, c),
                 Send(<<CreateWindow(last_incarnation + 1)>>)
          PROVE  QueueInv'
      BY <1>0, <1>1, <2>2, CreateStep
    <2> QED
      BY <1>3, <2>1, <2>2 DEF CallCreate
  <1>4. ASSUME NEW i \in DOMAIN entries, CallSetter(i)
        PROVE  QueueInv'
    <2>1. RefOf(i) \in WindowRef /\ RefOf(i).id = i /\ i \in 1..last_id
      BY RefOK
    <2>2. Quiet
      BY <1>1, <1>4, <2>1, QuietCalls DEF CallSetter
    <2>3. CASE Shown(entries[i])
      BY <1>0, <1>1, <1>4, <2>1, <2>2, <2>3, SetterStep DEF CallSetter
    <2>4. CASE ~Shown(entries[i])
      BY <1>2, <1>4, <2>2, <2>4 DEF CallSetter
    <2> QED
      BY <2>3, <2>4
  <1>5. ASSUME NEW i \in DOMAIN entries, CallRequestClose(i)
        PROVE  QueueInv'
    BY <1>1, <1>2, <1>5, RefOK, QuietCalls DEF CallRequestClose
  <1>6. ASSUME NEW i \in DOMAIN entries, NEW seq, NEW d \in Verdicts, CallCloseReply(i, seq, d)
        PROVE  QueueInv'
    <2>1. RefOf(i) \in WindowRef /\ RefOf(i).id = i /\ i \in 1..last_id
      BY RefOK
    <2>2. CloseReply(current, RefOf(i), seq, d)
      BY <1>6 DEF CallCloseReply
    <2>3. CASE ReplyIsCurrent(RefOf(i), seq) /\ d = "Allow"
      <3>1. Send(<<DestroyWindow(entries[i].view)>>)
        BY <1>6, <2>3 DEF CallCloseReply
      <3>2. SetEntry(i, Torn(Touched(entries[i]))) /\ Shown(entries[i])
        BY <2>1, <2>2, <2>3 DEF CloseReply, ReplyIsCurrent, Shown
      <3>3. Stage(Torn(Touched(entries[i]))) = "tearing" /\ Torn(Touched(entries[i])).view = entries[i].view
        BY <2>1, <3>2, InvFacts, TornStage DEF RegistryInv
      <3> QED
        BY <1>0, <1>1, <2>1, <3>1, <3>2, <3>3, TeardownStep
    <2>4. CASE ~(ReplyIsCurrent(RefOf(i), seq) /\ d = "Allow")
      <3>1. Quiet
        BY <1>1, <2>1, <2>2, <2>4, QuietCalls
      <3> QED
        BY <1>2, <1>6, <2>4, <3>1 DEF CallCloseReply
    <2> QED
      BY <2>3, <2>4
  <1>7. ASSUME NEW i \in DOMAIN entries, CallDestroy(i)
        PROVE  QueueInv'
    <2>1. RefOf(i) \in WindowRef /\ RefOf(i).id = i /\ i \in 1..last_id
      BY RefOK
    <2>2. ASSUME NEW c \in Correlations, Destroy(current, RefOf(i), c),
                 IF Shown(entries[i]) THEN Send(<<DestroyWindow(entries[i].view)>>)
                 ELSE UNCHANGED commands
          PROVE  QueueInv'
      <3>1. CASE ~Shown(entries[i])
        <4>1. Quiet
          BY <1>1, <2>1, <2>2, <3>1, QuietCalls
        <4> QED
          BY <1>2, <2>2, <3>1, <4>1
      <3>2. CASE Shown(entries[i])
        <4> DEFINE e == DestroyWaiting(Touched(entries[i]), [owner |-> current, correlation |-> c])
        <4>1. SetEntry(i, IF Shown(e) THEN Torn(e) ELSE e)
          BY <2>1, <2>2 DEF Destroy
        <4>2. entries[i] \in Entry /\ EntryInv(entries[i], ending) /\ ending \in BOOLEAN
          BY <2>1, InvFacts DEF RegistryInv
        <4>3. e.phase = entries[i].phase
          BY <4>2 DEF DestroyWaiting, Touched, Entry
        <4>4. SetEntry(i, Torn(e))
          BY <3>2, <4>1, <4>3 DEF Shown
        <4>5. Stage(Torn(e)) = "tearing" /\ Torn(e).view = entries[i].view
          BY <3>2, <4>2, TornStage
        <4> QED
          BY <1>0, <1>1, <2>1, <2>2, <3>2, <4>4, <4>5, TeardownStep
      <3> QED
        BY <3>1, <3>2
    <2>3. ASSUME DestroyRefused(current, RefOf(i)), UNCHANGED commands
          PROVE  QueueInv'
      BY <1>1, <1>2, <2>1, <2>3, QuietCalls
    <2> QED
      BY <1>7, <2>2, <2>3 DEF CallDestroy
  <1> QED
    BY <1>3, <1>4, <1>5, <1>6, <1>7 DEF DispatchWindow, CallRequestClose


-----------------------------------------------------------------------------
(* Facts taken from the queue.                                             *)

\* The fact queue after its head has been taken.
LEMMA PopFacts ==
  ASSUME QueueTypeOK, FactsOrdered, facts # << >>, facts' = Tail(facts)
  PROVE  /\ 1 \in 1..Len(facts) /\ Head(facts) = facts[1] /\ facts[1] \in Facts
         /\ facts' \in Seq(Facts) /\ Len(facts') \in Nat
         /\ \A k \in 1..Len(facts') : /\ k + 1 \in 1..Len(facts) /\ facts'[k] = facts[k + 1]
                                      /\ facts'[k] \in Facts
         /\ \A k \in 1..Len(facts) : k # 1 => k - 1 \in 1..Len(facts') /\ facts'[k - 1] = facts[k]
         /\ \A k \in 1..Len(facts') : FactFollows(facts[1], facts'[k])
         /\ FactsOrdered'
  <1>1. facts \in Seq(Facts) /\ Len(facts) \in Nat /\ \A k \in 1..Len(facts) : facts[k] \in Facts
    BY Queues DEF QueueTypeOK
  <1>2. Len(facts) # 0 /\ Head(facts) = facts[1]
    BY <1>1
  <1>3. /\ facts' \in Seq(Facts) /\ Len(facts') = Len(facts) - 1
        /\ \A k \in 1..Len(facts') : facts'[k] = facts[k + 1]
    BY <1>1, HeadTailProperties
  <1>4. /\ 1 \in 1..Len(facts) /\ Len(facts') \in Nat
        /\ \A k \in 1..Len(facts') : k + 1 \in 1..Len(facts) /\ 1 < k + 1
    BY <1>1, <1>2, <1>3
  <1>5. \A k \in 1..Len(facts) : k # 1 => k - 1 \in 1..Len(facts') /\ (k - 1) + 1 = k
    BY <1>1, <1>3
  <1>6. \A k \in 1..Len(facts') : FactFollows(facts[1], facts'[k])
    BY <1>3, <1>4 DEF FactsOrdered
  <1>7. FactsOrdered'
    BY <1>3, <1>4 DEF FactsOrdered
  <1> QED
    BY <1>1, <1>2, <1>3, <1>4, <1>5, <1>6, <1>7

\* What is left in flight without the head.
LEMMA PopInFlight ==
  ASSUME QueueTypeOK, FactsOrdered, facts # << >>, facts' = Tail(facts), NEW f, f = facts[1]
  PROVE  /\ \A b : Resulting(b)' <=> Resulting(b) /\ ~(IsBuild(f) /\ f.build = b)
         /\ \A v : Announced(v)' <=> Announced(v) /\ ~Announces(f, v)
         /\ \A v : Receipted(v)' <=> Receipted(v) /\ ~(f.fact = "Released" /\ f.view = v)
  <1>1. /\ 1 \in 1..Len(facts)
        /\ \A k \in 1..Len(facts') : k + 1 \in 1..Len(facts) /\ facts'[k] = facts[k + 1]
        /\ \A k \in 1..Len(facts) : k # 1 => k - 1 \in 1..Len(facts') /\ facts'[k - 1] = facts[k]
        /\ \A k \in 1..Len(facts') : FactFollows(f, facts'[k])
    BY PopFacts
  <1>2. \A b : Resulting(b)' <=> Resulting(b) /\ ~(IsBuild(f) /\ f.build = b)
    <2>1. \A b : Resulting(b)' => Resulting(b) /\ ~(IsBuild(f) /\ f.build = b)
      BY <1>1 DEF Resulting, FactFollows
    <2>2. \A b : Resulting(b) /\ ~(IsBuild(f) /\ f.build = b) => Resulting(b)'
      BY <1>1 DEF Resulting
    <2> QED
      BY <2>1, <2>2
  <1>3. \A v : Announced(v)' <=> Announced(v) /\ ~Announces(f, v)
    <2>1. \A v : Announced(v)' => Announced(v) /\ ~Announces(f, v)
      BY <1>1 DEF Announced, Announces, FactFollows
    <2>2. \A v : Announced(v) /\ ~Announces(f, v) => Announced(v)'
      BY <1>1 DEF Announced
    <2> QED
      BY <2>1, <2>2
  <1>4. \A v : Receipted(v)' <=> Receipted(v) /\ ~(f.fact = "Released" /\ f.view = v)
    <2>1. \A v : Receipted(v)' => Receipted(v) /\ ~(f.fact = "Released" /\ f.view = v)
      BY <1>1 DEF Receipted, About, FactFollows
    <2>2. \A v : Receipted(v) /\ ~(f.fact = "Released" /\ f.view = v) => Receipted(v)'
      BY <1>1 DEF Receipted
    <2> QED
      BY <2>1, <2>2
  <1> QED
    BY <1>2, <1>3, <1>4

\* The facts behind the head stay expected.
LEMMA PopKeeps ==
  ASSUME QueueInv, facts # << >>, facts' = Tail(facts), NEW f, f = facts[1],
         \A g \in Facts : FactFollows(f, g) /\ BuildOK(g) => BuildOK(g)',
         \A g \in Facts : FactFollows(f, g) /\ ReceiptOK(g) => ReceiptOK(g)',
         \A v \in Views : Mapped(v) => Mapped(v)',
         f.fact = "Built" => Mapped(f.view)'
  PROVE  FactsOK' /\ FactsAnnounced' /\ FactsOrdered'
  <1>1. /\ 1 \in 1..Len(facts) /\ Len(facts') \in Nat /\ FactsOrdered'
        /\ \A k \in 1..Len(facts') : /\ k + 1 \in 1..Len(facts) /\ facts'[k] = facts[k + 1]
                                     /\ facts'[k] \in Facts
        /\ \A k \in 1..Len(facts) : k # 1 => k - 1 \in 1..Len(facts') /\ facts'[k - 1] = facts[k]
        /\ \A k \in 1..Len(facts') : FactFollows(f, facts'[k])
    BY PopFacts DEF QueueInv
  <1>2. FactsOK'
    <2> SUFFICES ASSUME NEW k \in 1..Len(facts')
                 PROVE  (BuildOK(facts[k]))' /\ (ReceiptOK(facts[k]))'
      BY DEF FactsOK
    <2>1. PICK g \in Facts : g = facts'[k] /\ g = facts[k + 1]
      BY <1>1
    <2>2. BuildOK(g) /\ ReceiptOK(g) /\ FactFollows(f, g)
      BY <1>1, <2>1 DEF QueueInv, FactsOK
    <2>3. BuildOK(g)' /\ ReceiptOK(g)'
      BY <2>2
    <2> QED
      BY <2>1, <2>3
  <1>3. FactsAnnounced'
    <2> SUFFICES ASSUME NEW k \in 1..Len(facts'), ~IsBuild(facts'[k])
                 PROVE  \/ (Mapped(facts[k].view))'
                        \/ \E j \in 1..(k - 1) : Announces(facts'[j], facts'[k].view)
      BY DEF FactsAnnounced
    <2>1. PICK g \in Facts : g = facts'[k] /\ g = facts[k + 1]
      BY <1>1
    <2>2. PICK v \in Views : v = g.view
      BY <2>1, FactTypes DEF IsBuild
    <2>3. Mapped(v) \/ \E j \in 1..((k + 1) - 1) : Announces(facts[j], v)
      BY <1>1, <2>1, <2>2 DEF QueueInv, FactsAnnounced
    <2>4. CASE Mapped(v)
      <3>1. Mapped(v)' /\ v = facts'[k].view
        BY <2>1, <2>2, <2>4
      <3> QED
        BY <3>1
    <2>5. ASSUME NEW j \in 1..((k + 1) - 1), Announces(facts[j], v), j # 1
          PROVE  \E l \in 1..(k - 1) : Announces(facts'[l], facts'[k].view)
      <3>1. j - 1 \in 1..(k - 1) /\ facts'[j - 1] = facts[j]
        BY <1>1, <2>5
      <3> QED
        BY <2>1, <2>2, <2>5, <3>1
    <2>6. CASE Announces(facts[1], v)
      <3>1. f.fact = "Built" /\ f.view = v
        BY <2>6 DEF Announces
      <3>2. Mapped(v)' /\ v = facts'[k].view
        BY <2>1, <2>2, <3>1
      <3> QED
        BY <3>2
    <2> QED
      BY <2>3, <2>4, <2>5, <2>6
  <1> QED
    BY <1>1, <1>2, <1>3


(* What the coordinator leaves alone.                                      *)
EventFrame ==
  /\ UiIdle /\ UNCHANGED window_ready /\ facts # << >> /\ facts' = Tail(facts)
  /\ current' \in Owners \cup {None} /\ generation' \in Nat

\* A fact about a window whose native window stays where it is.
LEMMA PopQuiet ==
  ASSUME RegistryInv, QueueInv, Quiet, EventFrame, UNCHANGED <<commands, coordinator>>,
         Head(facts).fact \in {"CloseRequested", "State"}
  PROVE  QueueInv'
  <1>1. PICK f \in Facts : f = facts[1] /\ f = Head(facts)
    BY PopFacts DEF QueueInv, EventFrame
  <1>2. f.fact \in {"CloseRequested", "State"} /\ facts' \in Seq(Facts)
    BY <1>1, PopFacts DEF QueueInv, EventFrame
  <1>3. /\ last_id' = last_id /\ ending' = ending
        /\ ui' = ui /\ natives' = natives /\ next_view' = next_view
        /\ commands' = commands /\ coordinator' = coordinator
        /\ \A i \in 1..last_id : Stage(entries'[i]) = Stage(entries[i]) /\ entries'[i].view = entries[i].view
    BY DEF Quiet, EventFrame, UiIdle, SameWindow
  <1>4. \A v : Mapped(v)' <=> Mapped(v)
    BY <1>3 DEF Mapped
  <1>5. /\ \A b : Resulting(b)' <=> Resulting(b)
        /\ \A v : Announced(v)' <=> Announced(v)
        /\ \A v : Receipted(v)' <=> Receipted(v)
    BY <1>1, <1>2, PopInFlight DEF QueueInv, EventFrame, IsBuild, Announces
  <1>6. \A g \in Facts : (BuildOK(g) => BuildOK(g)') /\ (ReceiptOK(g) => ReceiptOK(g)')
    BY <1>3, <1>4 DEF BuildOK, ReceiptOK
  <1>7. FactsOK' /\ FactsAnnounced' /\ FactsOrdered'
    BY <1>1, <1>2, <1>4, <1>6, PopKeeps DEF EventFrame
  <1>8. CommandsOK'
    BY <1>3, <1>5 DEF QueueInv, CommandsOK, CreateOK, ViewOK
  <1>9. CommandsOrdered' /\ NativesOK'
    BY <1>3, <1>5 DEF QueueInv, CommandsOrdered, NativesOK
  <1>10. InFlight'
    <2>1. \A c : Queued(c)' <=> Queued(c)
      BY <1>3 DEF Queued
    <2> QED
      BY <1>3, <1>5, <2>1 DEF QueueInv, InFlight, Draining, CreateWindow, DestroyWindow
  <1>11. QueueTypeOK' /\ ThreadsOK'
    BY <1>2, <1>3 DEF QueueInv, QueueTypeOK, ThreadsOK, EventFrame
  <1> QED
    BY <1>7, <1>8, <1>9, <1>10, <1>11 DEF QueueInv

(* One entry changes.                                                      *)
Replaced(i) ==
  /\ UNCHANGED <<last_id, ending>>
  /\ \A j \in 1..last_id : j # i => entries'[j] = entries[j]

\* A failed build ends its window.
LEMMA PopFailed ==
  ASSUME RegistryInv, QueueInv, EventFrame, UNCHANGED <<commands, coordinator>>,
         Head(facts).fact = "BuildFailed", NEW i \in 1..last_id, Head(facts).build = i,
         Replaced(i), Stage(entries'[i]) = "gone", entries'[i].view = None, entries[i].view = None,
         Stage(entries[i]) = "unbuilt"
  PROVE  QueueInv'
  <1>1. PICK f \in Facts : f = facts[1] /\ f = Head(facts)
    BY PopFacts DEF QueueInv, EventFrame
  <1>2. f.fact = "BuildFailed" /\ f.build = i /\ IsBuild(f) /\ facts' \in Seq(Facts)
    BY <1>1, PopFacts DEF QueueInv, EventFrame, IsBuild
  <1>3. /\ last_id' = last_id /\ ending' = ending
        /\ ui' = ui /\ natives' = natives /\ next_view' = next_view
        /\ commands' = commands /\ coordinator' = coordinator
        /\ \A j \in 1..last_id : entries'[j].view = entries[j].view
        /\ \A j \in 1..last_id : j # i => Stage(entries'[j]) = Stage(entries[j])
    BY DEF Replaced, EventFrame, UiIdle
  <1>4. \A v : Mapped(v)' <=> Mapped(v)
    BY <1>3 DEF Mapped
  <1>5. /\ \A b : Resulting(b)' <=> Resulting(b) /\ b # i
        /\ \A v : Announced(v)' <=> Announced(v)
        /\ \A v : Receipted(v)' <=> Receipted(v)
    BY <1>1, <1>2, PopInFlight DEF QueueInv, EventFrame, Announces
  <1>6. Resulting(i)
    BY <1>1, <1>2, PopFacts DEF QueueInv, EventFrame, Resulting
  <1>7. \A g \in Facts : FactFollows(f, g) /\ BuildOK(g) => BuildOK(g)'
    BY <1>2, <1>3, <1>4 DEF BuildOK, FactFollows
  <1>8. \A g \in Facts : ReceiptOK(g) => ReceiptOK(g)'
    <2>1. \A g \in Facts : g.fact = "Released" => g.view # None
      BY FactTypes
    <2> QED
      BY <1>3, <1>4, <2>1 DEF ReceiptOK
  <1>9. FactsOK' /\ FactsAnnounced' /\ FactsOrdered'
    BY <1>1, <1>2, <1>4, <1>7, <1>8, PopKeeps DEF EventFrame
  <1>10. \A c \in Commands : CreateOK(c) /\ ViewOK(c) => CreateOK(c)' /\ ViewOK(c)'
    <2>1. \A c \in Commands : CreateOK(c) => CreateOK(c)'
      BY <1>3, <1>5, <1>6 DEF CreateOK
    <2>2. \A c \in Commands : ViewOK(c) => ViewOK(c)'
      BY <1>3 DEF ViewOK
    <2> QED
      BY <2>1, <2>2
  <1>11. CommandsOK'
    <2>1. \A k \in 1..Len(commands) : commands[k] \in Commands
      BY Queues DEF QueueInv
    <2> QED
      BY <1>3, <1>10, <2>1 DEF QueueInv, CommandsOK
  <1>12. CommandsOrdered'
    BY <1>3 DEF QueueInv, CommandsOrdered
  <1>13. NativesOK'
    <2>1. \A v \in natives : v # None
      BY NoneAssumption DEF QueueInv, QueueTypeOK
    <2> QED
      BY <1>3, <1>5, <2>1 DEF QueueInv, NativesOK
  <1>14. InFlight'
    <2>1. \A c : Queued(c)' <=> Queued(c)
      BY <1>3 DEF Queued
    <2> QED
      BY <1>3, <1>5, <2>1 DEF QueueInv, InFlight, Draining, CreateWindow, DestroyWindow
  <1>15. QueueTypeOK' /\ ThreadsOK'
    BY <1>2, <1>3 DEF QueueInv, QueueTypeOK, ThreadsOK, EventFrame
  <1> QED
    BY <1>9, <1>11, <1>12, <1>13, <1>14, <1>15 DEF QueueInv

\* The receipt of a teardown ends its window.
LEMMA PopReleased ==
  ASSUME RegistryInv, QueueInv, EventFrame, UNCHANGED <<commands, coordinator>>,
         Head(facts).fact = "Released", NEW i \in 1..last_id, Head(facts).view = entries[i].view,
         Replaced(i), Stage(entries'[i]) = "gone", entries'[i].view = entries[i].view,
         Stage(entries[i]) = "tearing"
  PROVE  QueueInv'
  <1>1. PICK f \in Facts : f = facts[1] /\ f = Head(facts)
    BY PopFacts DEF QueueInv, EventFrame
  <1>2. /\ f.fact = "Released" /\ f.view = entries[i].view /\ f.view # None
        /\ ~IsBuild(f) /\ facts' \in Seq(Facts)
    BY <1>1, FactTypes, PopFacts DEF QueueInv, EventFrame, IsBuild
  <1>3. /\ last_id' = last_id /\ ending' = ending
        /\ ui' = ui /\ natives' = natives /\ next_view' = next_view
        /\ commands' = commands /\ coordinator' = coordinator
        /\ \A j \in 1..last_id : entries'[j].view = entries[j].view
        /\ \A j \in 1..last_id : j # i => Stage(entries'[j]) = Stage(entries[j])
    BY DEF Replaced, EventFrame, UiIdle
  <1>4. \A v : Mapped(v)' <=> Mapped(v)
    BY <1>3 DEF Mapped
  <1>5. /\ \A b : Resulting(b)' <=> Resulting(b)
        /\ \A v : Announced(v)' <=> Announced(v)
        /\ \A v : Receipted(v)' <=> Receipted(v) /\ v # f.view
    BY <1>1, <1>2, PopInFlight DEF QueueInv, EventFrame, Announces
  <1>6. f.view \notin natives
    BY <1>1, <1>2, PopFacts DEF QueueInv, EventFrame, FactsOK, ReceiptOK
  <1>7. \A j \in 1..last_id : entries[j].view = f.view => j = i
    BY <1>2 DEF RegistryInv, ViewsDistinct
  <1>8. \A g \in Facts : BuildOK(g) => BuildOK(g)'
    BY <1>3, <1>4 DEF BuildOK
  <1>9. \A g \in Facts : FactFollows(f, g) /\ ReceiptOK(g) => ReceiptOK(g)'
    <2>1. \A g \in Facts : FactFollows(f, g) /\ g.fact = "Released" => g.view # f.view
      BY <1>2 DEF FactFollows, About
    <2> QED
      BY <1>2, <1>3, <1>4, <2>1 DEF ReceiptOK
  <1>10. FactsOK' /\ FactsAnnounced' /\ FactsOrdered'
    BY <1>1, <1>2, <1>4, <1>8, <1>9, PopKeeps DEF EventFrame
  <1>11. \A c \in Commands : CreateOK(c) /\ ViewOK(c) => CreateOK(c)' /\ ViewOK(c)'
    <2>1. \A c \in Commands : CreateOK(c) => CreateOK(c)'
      BY <1>3, <1>5 DEF CreateOK
    <2>2. \A c \in Commands : ViewOK(c) => ViewOK(c)'
      BY <1>2, <1>3, <1>6 DEF ViewOK
    <2> QED
      BY <2>1, <2>2
  <1>12. CommandsOK'
    <2>1. \A k \in 1..Len(commands) : commands[k] \in Commands
      BY Queues DEF QueueInv
    <2> QED
      BY <1>3, <1>11, <2>1 DEF QueueInv, CommandsOK
  <1>13. CommandsOrdered'
    BY <1>3 DEF QueueInv, CommandsOrdered
  <1>14. NativesOK'
    BY <1>2, <1>3, <1>5, <1>6 DEF QueueInv, NativesOK
  <1>15. InFlight'
    <2>1. \A c : Queued(c)' <=> Queued(c)
      BY <1>3 DEF Queued
    <2> QED
      BY <1>3, <1>5, <1>7, <2>1 DEF QueueInv, InFlight, Draining, CreateWindow, DestroyWindow
  <1>16. QueueTypeOK' /\ ThreadsOK'
    BY <1>2, <1>3 DEF QueueInv, QueueTypeOK, ThreadsOK, EventFrame
  <1> QED
    BY <1>10, <1>12, <1>13, <1>14, <1>15, <1>16 DEF QueueInv

\* The window of a build result gets its view, shown or already in teardown.
LEMMA PopBuilt ==
  ASSUME RegistryInv, QueueInv, EventFrame,
         Head(facts).fact = "Built", NEW i \in 1..last_id, Head(facts).build = i,
         Replaced(i), entries'[i].view = Head(facts).view,
         Stage(entries'[i]) = "tearing" \/ (Stage(entries'[i]) = "shown" /\ ~ending)
  PROVE  /\ FactsOK' /\ FactsAnnounced' /\ FactsOrdered' /\ facts' \in Seq(Facts)
         /\ NativesOK'
         /\ \A c \in Commands : CreateOK(c) => CreateOK(c)'
         /\ \A c \in Commands : ViewOK(c) => ViewOK(c)'
         /\ Head(facts).view \in Views
         /\ ui \in {"running", "terminal", "stopping"} => Head(facts).view \in natives
         /\ \A k \in 1..Len(commands) :
              commands[k].cmd = "DestroyWindow" => commands[k].view # Head(facts).view
         /\ \A b : Resulting(b)' <=> Resulting(b) /\ b # i
         /\ \A v : Receipted(v)' <=> Receipted(v)
         /\ Stage(entries[i]) = "unbuilt"
  <1>1. PICK f \in Facts : f = facts[1] /\ f = Head(facts)
    BY PopFacts DEF QueueInv, EventFrame
  <1>2. /\ f.fact = "Built" /\ f.build = i /\ f.view # None /\ f.view \in Views
        /\ IsBuild(f) /\ facts' \in Seq(Facts) /\ entries'[i].view = f.view
    BY <1>1, FactTypes, PopFacts DEF QueueInv, EventFrame, IsBuild
  <1>3. /\ last_id' = last_id /\ ending' = ending
        /\ ui' = ui /\ natives' = natives /\ next_view' = next_view
        /\ \A j \in 1..last_id : j # i => entries'[j].view = entries[j].view
        /\ \A j \in 1..last_id : j # i => Stage(entries'[j]) = Stage(entries[j])
    BY DEF Replaced, EventFrame, UiIdle
  <1>4. BuildOK(f) /\ 1 \in 1..Len(facts)
    BY <1>1, PopFacts DEF QueueInv, EventFrame, FactsOK
  <1>5. /\ Stage(entries[i]) = "unbuilt" /\ f.view < next_view /\ ~Mapped(f.view)
        /\ f.view \in natives \/ ui \in {"released", "exited"}
    BY <1>2, <1>4 DEF BuildOK
  <1>6. entries[i].view = None
    BY <1>5, InvFacts, StageMeans DEF RegistryInv
  <1>7. \A v : v # None => (Mapped(v)' <=> Mapped(v) \/ v = f.view)
    BY <1>2, <1>3, <1>6 DEF Mapped
  <1>8. /\ \A b : Resulting(b)' <=> Resulting(b) /\ b # i
        /\ \A v : Announced(v)' <=> Announced(v) /\ v # f.view
        /\ \A v : Receipted(v)' <=> Receipted(v)
    BY <1>1, <1>2, PopInFlight DEF QueueInv, EventFrame, Announces
  <1>9. Resulting(i)
    BY <1>1, <1>2, <1>4 DEF Resulting
  <1>10. \A g \in Facts : FactFollows(f, g) /\ BuildOK(g) => BuildOK(g)'
    <2>1. \A g \in Facts : FactFollows(f, g) /\ g.fact = "Built" => g.view # f.view /\ g.view # None
      BY <1>2, FactTypes DEF FactFollows, Announces
    <2>2. \A g \in Facts : FactFollows(f, g) /\ IsBuild(g) => g.build # i
      BY <1>2 DEF FactFollows
    <2> QED
      BY <1>3, <1>7, <2>1, <2>2 DEF BuildOK
  <1>11. \A g \in Facts : ReceiptOK(g) => ReceiptOK(g)'
    <2> SUFFICES ASSUME NEW g \in Facts, ReceiptOK(g), g.fact = "Released"
                 PROVE  ReceiptOK(g)'
      BY DEF ReceiptOK
    <2>1. g.view # None /\ g.view \notin natives /\ (ending \/ Mapped(g.view))
      BY FactTypes DEF ReceiptOK
    <2>2. ending' \/ Mapped(g.view)'
      BY <1>3, <1>7, <2>1
    <2>3. ASSUME NEW j \in 1..last_id, entries'[j].view = g.view
          PROVE  Stage(entries'[j]) = "tearing"
      <3>1. CASE j # i
        BY <1>3, <2>3, <3>1 DEF ReceiptOK
      <3>2. CASE j = i
        <4>1. g.view = f.view
          BY <1>2, <2>3, <3>2
        <4>2. ending
          BY <1>5, <2>1, <4>1
        <4> QED
          BY <3>2, <4>2
      <3> QED
        BY <3>1, <3>2
    <2> QED
      BY <1>3, <2>1, <2>2, <2>3 DEF ReceiptOK
  <1>12. FactsOK' /\ FactsAnnounced' /\ FactsOrdered'
    <2>1. \A v \in Views : (Mapped(v) => Mapped(v)') /\ v # None
      BY <1>7, NoneAssumption
    <2>2. Mapped(f.view)'
      BY <1>2, <1>7
    <2> QED
      BY <1>1, <1>10, <1>11, <2>1, <2>2, PopKeeps DEF EventFrame
  <1>13. \A c \in Commands : CreateOK(c) => CreateOK(c)'
    BY <1>3, <1>8, <1>9 DEF CreateOK
  <1>14. \A c \in Commands : ViewOK(c) => ViewOK(c)'
    BY <1>3, <1>5 DEF ViewOK
  <1>15. \A k \in 1..Len(commands) : commands[k].cmd = "DestroyWindow" => commands[k].view # f.view
    BY <1>5 DEF QueueInv, CommandsOK, ViewOK, Mapped
  <1>16. NativesOK'
    <2>1. \A v \in natives : v < next_view' /\ (Announced(v)' \/
            \E j \in 1..last_id' : entries'[j].view = v /\ Stage(entries'[j]) # "gone")
      <3> SUFFICES ASSUME NEW v \in natives, v # f.view
                   PROVE  v < next_view' /\ (Announced(v)' \/
                            \E j \in 1..last_id' : entries'[j].view = v /\ Stage(entries'[j]) # "gone")
        BY <1>2, <1>3, <1>5
      <3>1. v # None
        BY NoneAssumption DEF QueueInv, QueueTypeOK
      <3> QED
        BY <1>3, <1>6, <1>8, <3>1 DEF QueueInv, NativesOK
    <2>2. \A j \in 1..last_id' :
            /\ entries'[j].view # None => entries'[j].view < next_view'
            /\ Stage(entries'[j]) = "shown" => entries'[j].view \in natives'
      <3> SUFFICES ASSUME NEW j \in 1..last_id
                   PROVE  /\ entries'[j].view # None => entries'[j].view < next_view
                          /\ Stage(entries'[j]) = "shown" => entries'[j].view \in natives
        BY <1>3
      <3>1. CASE j # i
        BY <1>3, <3>1 DEF QueueInv, NativesOK
      <3>2. CASE j = i
        <4>1. Stage(entries'[i]) = "shown" => f.view \in natives
          BY <1>5 DEF QueueInv, NativesOK
        <4> QED
          BY <1>2, <1>5, <3>2, <4>1
      <3> QED
        BY <3>1, <3>2
    <2> QED
      BY <1>3, <2>1, <2>2 DEF QueueInv, NativesOK
  <1> QED
    BY <1>1, <1>2, <1>5, <1>8, <1>12, <1>13, <1>14, <1>15, <1>16

\* A build result opens its window.
LEMMA BuiltShown ==
  ASSUME RegistryInv, QueueInv, EventFrame, UNCHANGED <<commands, coordinator>>,
         Head(facts).fact = "Built", NEW i \in 1..last_id, Head(facts).build = i,
         Replaced(i), entries'[i].view = Head(facts).view,
         Stage(entries'[i]) = "shown", ~ending
  PROVE  QueueInv'
  <1>1. /\ FactsOK' /\ FactsAnnounced' /\ FactsOrdered' /\ facts' \in Seq(Facts) /\ NativesOK'
        /\ \A c \in Commands : CreateOK(c) => CreateOK(c)'
        /\ \A c \in Commands : ViewOK(c) => ViewOK(c)'
        /\ \A b : Resulting(b)' <=> Resulting(b) /\ b # i
        /\ \A v : Receipted(v)' <=> Receipted(v)
    BY PopBuilt
  <1>2. /\ last_id' = last_id /\ ui' = ui /\ natives' = natives /\ next_view' = next_view
        /\ commands' = commands /\ coordinator' = coordinator /\ window_ready' = window_ready
        /\ \A j \in 1..last_id : j # i => entries'[j] = entries[j]
    BY DEF Replaced, EventFrame, UiIdle
  <1>3. CommandsOK'
    <2>1. \A k \in 1..Len(commands) : commands[k] \in Commands
      BY Queues DEF QueueInv
    <2> QED
      BY <1>1, <1>2, <2>1 DEF QueueInv, CommandsOK
  <1>4. CommandsOrdered'
    BY <1>2 DEF QueueInv, CommandsOrdered
  <1>5. InFlight'
    <2>1. \A c : Queued(c)' <=> Queued(c)
      BY <1>2 DEF Queued
    <2> QED
      BY <1>1, <1>2, <2>1 DEF QueueInv, InFlight, Draining, CreateWindow, DestroyWindow
  <1>6. QueueTypeOK' /\ ThreadsOK'
    BY <1>1, <1>2 DEF QueueInv, QueueTypeOK, ThreadsOK, EventFrame
  <1> QED
    BY <1>1, <1>3, <1>4, <1>5, <1>6 DEF QueueInv

\* A build result whose window is no longer wanted is torn down.
LEMMA BuiltTearing ==
  ASSUME RegistryInv, QueueInv, EventFrame, UNCHANGED coordinator, ui # "exited",
         Head(facts).fact = "Built", NEW i \in 1..last_id, Head(facts).build = i,
         Replaced(i), entries'[i].view = Head(facts).view, Stage(entries'[i]) = "tearing",
         Send(<<DestroyWindow(Head(facts).view)>>)
  PROVE  QueueInv'
  <1>1. PICK v : v = Head(facts).view
    OBVIOUS
  <1>2. /\ FactsOK' /\ FactsAnnounced' /\ FactsOrdered' /\ facts' \in Seq(Facts) /\ NativesOK'
        /\ \A c \in Commands : CreateOK(c) => CreateOK(c)'
        /\ \A c \in Commands : ViewOK(c) => ViewOK(c)'
        /\ \A b : Resulting(b)' <=> Resulting(b) /\ b # i
        /\ \A w : Receipted(w)' <=> Receipted(w)
        /\ v \in Views
        /\ ui = "running" => v \in natives
        /\ \A k \in 1..Len(commands) : commands[k].cmd = "DestroyWindow" => commands[k].view # v
    BY <1>1, PopBuilt
  <1>3. /\ last_id' = last_id /\ ui' = ui /\ natives' = natives /\ next_view' = next_view
        /\ coordinator' = coordinator /\ window_ready' = window_ready
        /\ \A j \in 1..last_id : j # i => entries'[j] = entries[j]
    BY DEF Replaced, EventFrame, UiIdle
  <1>4. PICK c \in Commands : c = DestroyWindow(v) /\ c.cmd = "DestroyWindow" /\ c.view = v
    <2>1. v \in Views
      BY <1>2
    <2>2. /\ DestroyWindow(v) \in Commands
          /\ DestroyWindow(v).cmd = "DestroyWindow" /\ DestroyWindow(v).view = v
      BY <2>1 DEF Commands, DestroyWindow
    <2> QED
      BY ONLY <2>2
  <1>5. PICK cs \in Seq(Commands) : cs = <<c>> /\ Len(cs) = 1 /\ cs[1] = c
    <2>1. <<c>> \in Seq(Commands) /\ Len(<<c>>) = 1 /\ <<c>>[1] = c
      BY ONLY c \in Commands
    <2> QED
      BY ONLY <2>1
  <1>6. Send(cs) /\ UiIdle /\ 1 \in 1..Len(cs) /\ \A m \in 1..Len(cs) : m = 1 /\ cs[m] = c
    BY <1>1, <1>4, <1>5 DEF EventFrame
  <1>7. ui = "running" => CreateOK(c)' /\ ViewOK(c)'
    BY <1>1, <1>2, <1>3, <1>4 DEF CreateOK, ViewOK
  <1>8. ui = "running" => \A m \in 1..Len(cs) : CreateOK(cs[m])' /\ ViewOK(cs[m])'
    BY <1>6, <1>7
  <1>9. \A k \in 1..Len(commands), m \in 1..Len(cs) : CommandFollows(commands[k], cs[m])
    BY <1>2, <1>4, <1>6 DEF CommandFollows
  <1>10. \A m, n \in 1..Len(cs) : m < n => CommandFollows(cs[m], cs[n])
    BY <1>6
  <1>11. /\ commands' \in Seq(Commands) /\ CommandsOK' /\ CommandsOrdered'
         /\ \A d : Queued(d) => Queued(d)'
         /\ ui = "running" => \A m \in 1..Len(cs) : Queued(cs[m])'
    BY ONLY QueueInv, <1>2, <1>6, <1>8, <1>9, <1>10, SendKeeps
  <1>12. ui = "running" => Queued(c)'
    BY <1>6, <1>11
  <1>13. InFlight'
    <2> SUFFICES ASSUME ui = "running", Draining, NEW j \in 1..last_id
                 PROVE  /\ Stage(entries'[j]) = "unbuilt" => Queued(CreateWindow(j))' \/ Resulting(j)'
                        /\ Stage(entries'[j]) = "tearing" =>
                             (Queued(DestroyWindow(entries[j].view)))' \/ (Receipted(entries[j].view))'
      BY <1>3 DEF InFlight, Draining
    <2>1. CASE j = i
      <3>1. Stage(entries'[j]) = "tearing" /\ DestroyWindow(entries'[j].view) = c
        BY <1>1, <1>4, <2>1
      <3>2. (Queued(DestroyWindow(entries[j].view)))'
        BY <1>12, <3>1 DEF DestroyWindow
      <3> QED
        BY <3>1, <3>2
    <2>2. CASE j # i
      <3>1. entries'[j] = entries[j]
        BY <1>3, <2>2
      <3>2. /\ Stage(entries[j]) = "unbuilt" => Queued(CreateWindow(j)) \/ Resulting(j)
            /\ Stage(entries[j]) = "tearing" =>
                 Queued(DestroyWindow(entries[j].view)) \/ Receipted(entries[j].view)
        BY DEF QueueInv, InFlight, Draining
      <3>3. Queued(CreateWindow(j)) => Queued(CreateWindow(j))'
        BY <1>11 DEF CreateWindow
      <3>4. Queued(DestroyWindow(entries[j].view)) => (Queued(DestroyWindow(entries[j].view)))'
        BY <1>11, <3>1 DEF DestroyWindow
      <3> QED
        BY <1>2, <2>2, <3>1, <3>2, <3>3, <3>4
    <2> QED
      BY <2>1, <2>2
  <1>14. QueueTypeOK' /\ ThreadsOK'
    BY <1>2, <1>3, <1>11 DEF QueueInv, QueueTypeOK, ThreadsOK, EventFrame
  <1> QED
    BY <1>2, <1>11, <1>13, <1>14 DEF QueueInv

\* The UI loop is gone before the teardown could be sent: the coordinator fails.
LEMMA BuiltUnheard ==
  ASSUME RegistryInv, QueueInv, UiIdle, UNCHANGED <<commands, window_ready>>, facts # << >>,
         ui = "exited", coordinator' = "failed", facts' = << >>,
         Head(facts).fact = "Built", NEW i \in 1..last_id, Head(facts).build = i,
         Replaced(i), entries'[i].view = Head(facts).view, Stage(entries'[i]) = "tearing",
         current' \in Owners \cup {None}, generation' \in Nat
  PROVE  QueueInv'
  <1>1. facts[1] = Head(facts) /\ 1 \in 1..Len(facts) /\ facts[1] \in Facts
    <2>1. facts \in Seq(Facts)
      BY DEF QueueInv, QueueTypeOK
    <2>2. Len(facts) \in Nat /\ Len(facts) # 0 /\ Head(facts) = facts[1]
      BY <2>1
    <2> QED
      BY <2>1, <2>2, ElementOfSeq
  <1>2. Head(facts).view < next_view
    BY <1>1 DEF QueueInv, FactsOK, BuildOK
  <1>3. /\ last_id' = last_id /\ ending' = ending /\ commands' = << >> /\ natives' = {} /\ ui' = "exited"
        /\ next_view' = next_view
        /\ \A j \in 1..last_id : j # i => entries'[j] = entries[j]
    BY DEF Replaced, UiIdle, QueueInv, CommandsOK, NativesOK
  <1>4. Len(facts') = 0 /\ facts' \in Seq(Facts) /\ Len(commands') = 0
    BY <1>3, EmptySeq
  <1>5. FactsOK' /\ FactsAnnounced' /\ FactsOrdered' /\ CommandsOK' /\ CommandsOrdered'
    BY <1>3, <1>4 DEF FactsOK, FactsAnnounced, FactsOrdered, CommandsOK, CommandsOrdered
  <1>6. NativesOK'
    BY <1>2, <1>3 DEF QueueInv, NativesOK
  <1>7. QueueTypeOK' /\ ThreadsOK' /\ InFlight'
    BY <1>3, <1>4 DEF QueueInv, QueueTypeOK, ThreadsOK, InFlight, Draining, UiIdle
  <1> QED
    BY <1>5, <1>6, <1>7 DEF QueueInv

\* What the native inputs make of the window they find.
LEMMA InputStages ==
  ASSUME RegistryInv, NEW i \in DOMAIN entries
  PROVE  /\ i \in 1..last_id
         /\ \A b, s : \A v \in Views : BuiltCreates(i, b, v, s) =>
              /\ i = b /\ Replaced(i) /\ entries'[i].view = v
              /\ Stage(entries'[i]) = "shown" /\ ~ending
         /\ \A b, s : \A v \in Views : BuiltCleansUp(i, b, v, s) =>
              /\ i = b /\ Replaced(i) /\ entries'[i].view = v
              /\ Stage(entries'[i]) = "tearing"
         /\ \A b : BuildFails(i, b) =>
              /\ i = b /\ Replaced(i) /\ entries'[i].view = None /\ entries[i].view = None
              /\ Stage(entries'[i]) = "gone" /\ Stage(entries[i]) = "unbuilt"
         /\ \A v : NativeReleased(i, v) =>
              /\ entries[i].view = v /\ Replaced(i) /\ entries'[i].view = v
              /\ Stage(entries'[i]) = "gone" /\ Stage(entries[i]) = "tearing"
  <1>1. /\ i \in 1..last_id /\ entries[i] \in Entry /\ entries[i].incarnation = i
        /\ EntryInv(entries[i], ending) /\ ending \in BOOLEAN
    BY InvFacts DEF RegistryInv
  <1>2. ASSUME NEW e, SetEntry(i, e)
        PROVE  Replaced(i) /\ entries'[i] = e
    BY <1>1, <1>2, InvFacts DEF SetEntry, Replaced
  <1>3. \A b : IsFirst(i, WithBuild(b)) => i = b
    BY <1>1 DEF IsFirst, WithBuild
  <1>4. ASSUME NEW b, NEW s, NEW v \in Views, BuiltCreates(i, b, v, s)
        PROVE  /\ i = b /\ Replaced(i) /\ entries'[i].view = v
               /\ Stage(entries'[i]) = "shown" /\ ~ending
    <2>1. Opened(entries[i], v, s).view = v /\ Stage(Opened(entries[i], v, s)) = "shown"
      BY <1>1 DEF Opened, Stage, Shown, Entry
    <2> QED
      BY <1>1, <1>2, <1>3, <1>4, <2>1 DEF BuiltCreates, EntryInv
  <1>5. ASSUME NEW b, NEW s, NEW v \in Views, BuiltCleansUp(i, b, v, s)
        PROVE  /\ i = b /\ Replaced(i) /\ entries'[i].view = v
               /\ Stage(entries'[i]) = "tearing"
    <2>1. BuiltLate(entries[i], v, s).view = v /\ BuiltLate(entries[i], v, s).phase = "Closing"
      BY <1>1, <1>5 DEF BuiltLate, BuiltCleansUp, Entry
    <2>2. Stage(BuiltLate(entries[i], v, s)) = "tearing"
      BY <2>1, NoneAssumption DEF Stage, Shown
    <2> QED
      BY <1>2, <1>3, <1>5, <2>1, <2>2 DEF BuiltCleansUp
  <1>6. ASSUME NEW b, BuildFails(i, b)
        PROVE  /\ i = b /\ Replaced(i) /\ entries'[i].view = None /\ entries[i].view = None
               /\ Stage(entries'[i]) = "gone" /\ Stage(entries[i]) = "unbuilt"
    <2>1. BuildLost(entries[i]).view = entries[i].view /\ Stage(BuildLost(entries[i])) = "gone"
      BY <1>1 DEF BuildLost, Stage, Shown, Entry
    <2>2. Stage(entries[i]) = "unbuilt" /\ entries[i].view = None
      BY <1>1, <1>6, StageMeans DEF BuildFails
    <2> QED
      BY <1>2, <1>3, <1>6, <2>1, <2>2 DEF BuildFails
  <1>7. ASSUME NEW v, NativeReleased(i, v)
        PROVE  /\ entries[i].view = v /\ Replaced(i) /\ entries'[i].view = v
               /\ Stage(entries'[i]) = "gone" /\ Stage(entries[i]) = "tearing"
    <2>1. Released(entries[i]).view = entries[i].view /\ Stage(Released(entries[i])) = "gone"
      BY <1>1 DEF Released, Stage, Shown, Entry
    <2>2. Stage(entries[i]) = "tearing"
      BY <1>1, <1>7, StageMeans DEF NativeReleased
    <2>3. entries[i].view = v
      BY <1>7 DEF NativeReleased, IsFirst, WithView
    <2> QED
      BY <1>2, <1>7, <2>1, <2>2, <2>3 DEF NativeReleased
  <1> QED
    BY <1>1, <1>4, <1>5, <1>6, <1>7

\* The coordinator takes every native input with the queues in agreement.
LEMMA EventsKeepQueues ==
  ASSUME RegistryInv, QueueInv, WindowNativeEvent
  PROVE  QueueInv'
  <1> DEFINE f == Head(facts)
  <1>0. /\ UNCHANGED <<current, generation>> /\ current' \in Owners \cup {None} /\ generation' \in Nat
        /\ UiIdle /\ UNCHANGED window_ready /\ facts # << >>
    <2>1. \A a : Wrote(a) => UNCHANGED <<current, generation>>
      BY DEF Wrote
    <2>2. \A o, a : WroteTo(o, a) => UNCHANGED <<current, generation>>
      BY <2>1 DEF WroteTo, linkVars
    <2>3. /\ OnBuilt(f) => UNCHANGED <<current, generation>>
          /\ OnBuildFailed(f) => UNCHANGED <<current, generation>>
          /\ OnCloseRequested(f) => UNCHANGED <<current, generation>>
          /\ OnReleased(f) => UNCHANGED <<current, generation>>
          /\ OnState(f) => UNCHANGED <<current, generation>>
      BY <2>2 DEF OnBuilt, OnBuildFailed, OnCloseRequested, OnReleased, OnState, linkVars
    <2>4. UNCHANGED <<current, generation>>
      BY <2>3 DEF WindowNativeEvent
    <2> QED
      BY <2>4 DEF WindowNativeEvent, UiIdle, hostVars, uiVars, QueueInv, QueueTypeOK
  <1>1. facts' = Tail(facts) => EventFrame
    BY <1>0 DEF EventFrame
  <1>2. f \in Facts
    <2>1. facts \in Seq(Facts)
      BY DEF QueueInv, QueueTypeOK
    <2> QED
      BY <1>0, <2>1
  <1>3. CASE f.fact = "Built" /\ OnBuilt(f)
    <2>1. f.view \in Views
      BY <1>2, <1>3, FactTypes
    <2>2. ASSUME NEW i \in DOMAIN entries, BuiltCreates(i, f.build, f.view, f.state),
                 facts' = Tail(facts), UNCHANGED <<commands, coordinator>>
          PROVE  QueueInv'
      <3>1. /\ i \in 1..last_id /\ i = f.build /\ Replaced(i) /\ entries'[i].view = f.view
            /\ Stage(entries'[i]) = "shown" /\ ~ending
        BY <2>1, <2>2, InputStages
      <3> QED
        BY <1>1, <1>3, <2>2, <3>1, BuiltShown
    <2>3. ASSUME NEW i \in DOMAIN entries, BuiltCleansUp(i, f.build, f.view, f.state),
                 IF ui = "exited"
                 THEN coordinator' = "failed" /\ facts' = << >> /\ UNCHANGED commands
                 ELSE /\ Send(<<DestroyWindow(f.view)>>)
                      /\ facts' = Tail(facts) /\ UNCHANGED coordinator
          PROVE  QueueInv'
      <3>1. /\ i \in 1..last_id /\ i = f.build /\ Replaced(i) /\ entries'[i].view = f.view
            /\ Stage(entries'[i]) = "tearing"
        BY <2>1, <2>3, InputStages
      <3>2. CASE ui = "exited"
        BY <1>0, <1>3, <2>3, <3>1, <3>2, BuiltUnheard
      <3>3. CASE ui # "exited"
        BY <1>1, <1>3, <2>3, <3>1, <3>3, BuiltTearing
      <3> QED
        BY <3>2, <3>3
    <2> QED
      BY <1>3, <2>2, <2>3 DEF OnBuilt
  <1>4. CASE f.fact = "BuildFailed" /\ OnBuildFailed(f)
    <2>1. PICK i \in DOMAIN entries : BuildFails(i, f.build)
      BY <1>4 DEF OnBuildFailed
    <2>2. facts' = Tail(facts) /\ UNCHANGED <<commands, coordinator>>
      BY <1>4 DEF OnBuildFailed
    <2>3. /\ i \in 1..last_id /\ i = f.build /\ Replaced(i) /\ entries'[i].view = None
          /\ entries[i].view = None
          /\ Stage(entries'[i]) = "gone" /\ Stage(entries[i]) = "unbuilt"
      BY <2>1, InputStages
    <2> QED
      BY <1>1, <1>4, <2>2, <2>3, PopFailed
  <1>5. CASE f.fact = "CloseRequested" /\ OnCloseRequested(f)
    <2>1. Quiet
      BY <1>5, QuietInputs DEF OnCloseRequested
    <2>2. facts' = Tail(facts) /\ UNCHANGED <<commands, coordinator>>
      BY <1>5 DEF OnCloseRequested
    <2> QED
      BY <1>1, <1>5, <2>1, <2>2, PopQuiet
  <1>6. CASE f.fact = "Released" /\ OnReleased(f)
    <2>1. PICK i \in DOMAIN entries : NativeReleased(i, f.view)
      BY <1>6 DEF OnReleased
    <2>2. facts' = Tail(facts) /\ UNCHANGED <<commands, coordinator>>
      BY <1>6 DEF OnReleased
    <2>3. /\ i \in 1..last_id /\ entries[i].view = f.view /\ Replaced(i) /\ entries'[i].view = f.view
          /\ Stage(entries'[i]) = "gone" /\ Stage(entries[i]) = "tearing"
      BY <2>1, InputStages
    <2> QED
      BY <1>1, <1>6, <2>2, <2>3, PopReleased
  <1>7. CASE f.fact = "State" /\ OnState(f)
    <2>1. Quiet
      BY <1>7, QuietInputs DEF OnState
    <2>2. facts' = Tail(facts) /\ UNCHANGED <<commands, coordinator>>
      BY <1>7 DEF OnState
    <2> QED
      BY <1>1, <1>7, <2>1, <2>2, PopQuiet
  <1> QED
    BY <1>3, <1>4, <1>5, <1>6, <1>7 DEF WindowNativeEvent

-----------------------------------------------------------------------------
(* The other steps of the core thread.                                     *)

\* signal_ready: before it there is no window; when its write fails the
\* coordinator gives up.
LEMMA ReadyKeepsQueues ==
  ASSUME RegistryInv, QueueInv, SignalReady
  PROVE  QueueInv'
  <1>1. /\ Quiet /\ UiIdle /\ last_id' = last_id /\ last_id = 0 /\ coordinator = "running"
        /\ current' \in Owners \cup {None} /\ generation' \in Nat
    BY QuietInputs DEF SignalReady, Quiet, UiIdle, uiVars, linkVars, QueueInv, QueueTypeOK, ThreadsOK
  <1>2. CASE window_ready' = TRUE /\ coordinator' = "arming" /\ UNCHANGED <<linkVars, commands, facts>>
    <2>1. PICK cs \in Seq(Commands) : cs = << >> /\ Len(cs) = 0
      BY EmptySeq
    <2>2. Send(cs)
      BY <1>2, <2>1, ConcatEmptySeq DEF Send, QueueInv, QueueTypeOK
    <2>3. /\ ThreadsOK' /\ coordinator' \in {"running", "arming", "failed", "done"}
          /\ (Draining' => Draining) \/ ui = "exited"
      BY <1>1, <1>2 DEF ThreadsOK, Draining
    <2>4. Grown
      BY <1>1, QuietGrown
    <2>5. \A i \in 1..last_id' : FALSE
      BY <1>1
    <2>6. \A m \in 1..Len(cs) : FALSE
      BY <2>1
    <2>7. facts' = facts /\ window_ready' \in BOOLEAN
      BY <1>2
    <2> QED
      BY <1>1, <2>2, <2>3, <2>4, <2>5, <2>6, <2>7, CoreStep
  <1>3. CASE /\ coordinator' = "failed" /\ facts' = << >> /\ Send(<<Fatal>>)
             /\ UNCHANGED window_ready
    <2>1. /\ ui' = ui /\ natives' = natives /\ next_view' = next_view
          /\ window_ready' = window_ready /\ window_ready = FALSE /\ last_id' = 0
          /\ (ending => ending')
      BY <1>1, <1>3 DEF UiIdle, SignalReady, Quiet
    <2>2. Len(facts') = 0 /\ facts' \in Seq(Facts) /\ \A k \in 1..Len(facts') : FALSE
      BY <1>3, EmptySeq
    <2>3. \A i \in 1..last_id : FALSE
      BY <1>1
    <2>4. \A v : ~Announced(v)
      BY <2>3 DEF QueueInv, FactsOK, BuildOK, IsBuild, Announced, Announces
    <2>5. natives = {}
      BY <2>3, <2>4 DEF QueueInv, NativesOK
    <2>6. /\ \A c \in Commands : CreateOK(c) => CreateOK(c)'
          /\ \A c \in Commands : ViewOK(c) => ViewOK(c)'
      BY <2>3, <2>5 DEF CreateOK, ViewOK
    <2>7. Fatal \in Commands /\ Fatal.cmd = "Fatal"
      BY DEF Commands, Fatal
    <2>8. PICK cs \in Seq(Commands) : cs = <<Fatal>> /\ Len(cs) = 1 /\ cs[1] = Fatal
      <3>1. <<Fatal>> \in Seq(Commands) /\ Len(<<Fatal>>) = 1 /\ <<Fatal>>[1] = Fatal
        BY <2>7
      <3> QED
        BY ONLY <3>1
    <2>9. \A m \in 1..Len(cs) : m = 1 /\ cs[m].cmd = "Fatal"
      BY <2>7, <2>8
    <2>10. \A m \in 1..Len(cs) : CreateOK(cs[m])' /\ ViewOK(cs[m])'
      <3>1. \A c : c.cmd = "Fatal" => CreateOK(c)' /\ ViewOK(c)'
        BY DEF CreateOK, ViewOK
      <3> QED
        BY <2>9, <3>1
    <2>11. \A d : \A m \in 1..Len(cs) : CommandFollows(d, cs[m])
      BY <2>9 DEF CommandFollows
    <2>12. Send(cs)
      BY <1>3, <2>8
    <2>13. commands' \in Seq(Commands) /\ CommandsOK' /\ CommandsOrdered'
      BY ONLY QueueInv, <1>1, <2>6, <2>10, <2>11, <2>12, SendKeeps
    <2>14. FactsOK' /\ FactsAnnounced' /\ FactsOrdered'
      BY <2>2 DEF FactsOK, FactsAnnounced, FactsOrdered
    <2>15. \A i \in 1..last_id' : FALSE
      BY <2>1
    <2>16. NativesOK'
      BY <2>1, <2>5, <2>15 DEF QueueInv, NativesOK
    <2>17. ThreadsOK' /\ InFlight' /\ QueueTypeOK'
      BY <1>1, <1>3, <2>1, <2>2, <2>13 DEF QueueInv, QueueTypeOK, ThreadsOK, InFlight, Draining
    <2> QED
      BY <2>13, <2>14, <2>16, <2>17 DEF QueueInv
  <1> QED
    BY <1>2, <1>3 DEF SignalReady

\* await_recovery_arm: whatever the guardian answers, the windows stay as they are.
LEMMA ArmKeepsQueues ==
  ASSUME RegistryInv, QueueInv, AwaitRecoveryArm
  PROVE  QueueInv'
  <1>1. Quiet /\ UNCHANGED <<facts, window_ready>> /\ coordinator = "arming"
    BY QuietInputs DEF AwaitRecoveryArm, hostVars
  <1>2. UiIdle /\ current' \in Owners \cup {None} /\ generation' \in Nat
    BY DEF AwaitRecoveryArm, UiIdle, uiVars, linkVars, QueueInv, QueueTypeOK
  <1>3. CASE coordinator' = "running" /\ UNCHANGED commands
    BY <1>1, <1>2, <1>3, QuietStep
  <1>4. CASE coordinator' = "failed" /\ Send(<<Fatal>>)
    BY <1>1, <1>2, <1>4, SignalStep
  <1> QED
    BY <1>3, <1>4 DEF AwaitRecoveryArm

\* Generations, subscriptions and the shutdown of the session.
LEMMA HostKeepsQueues ==
  ASSUME RegistryInv, QueueInv,
         \/ InstallGeneration \/ RetireBroken \/ RetireGeneration \/ Subscribe \/ LinkFails
         \/ CoordinatorEnds \/ ReserveShutdown \/ AcceptShutdown \/ ShutdownFails \/ CloseLink
         \/ FinishTail
  PROVE  QueueInv'
  <1>0. /\ current \in Owners \cup {None} /\ generation \in Nat
        /\ None \in Owners \cup {None} /\ generation + 1 \in Nat
    BY DEF QueueInv, QueueTypeOK
  <1>1. Retire => Quiet /\ current' = None /\ generation' = generation
    BY QuietInputs DEF Retire
  <1>2. CASE InstallGeneration
    <2>1. UNCHANGED registryVars
      BY <1>2 DEF InstallGeneration
    <2>2. Quiet
      BY <2>1, QuietInputs
    <2>3. /\ UiIdle /\ UNCHANGED <<commands, facts, window_ready, coordinator>>
          /\ current' \in Owners \cup {None} /\ generation' \in Nat
      BY <1>0, <1>2 DEF InstallGeneration, UiIdle, uiVars, hostVars
    <2> QED
      BY <2>2, <2>3, QuietStep
  <1>3. CASE RetireBroken \/ RetireGeneration
    <2>1. /\ Quiet /\ UiIdle /\ UNCHANGED <<commands, facts, window_ready, coordinator>>
          /\ current' \in Owners \cup {None} /\ generation' \in Nat
      BY <1>0, <1>1, <1>3 DEF RetireBroken, RetireGeneration, UiIdle, uiVars, hostVars
    <2> QED
      BY <2>1, QuietStep
  <1>4. CASE Subscribe
    <2>1. subscribe_successor(current)
      BY <1>4 DEF Subscribe
    <2>2. Quiet
      BY <2>1, QuietInputs
    <2>3. /\ UiIdle /\ UNCHANGED <<commands, facts, window_ready, coordinator>>
          /\ current' \in Owners \cup {None} /\ generation' \in Nat
      BY <1>0, <1>4 DEF Subscribe, UiIdle, uiVars, hostVars
    <2> QED
      BY <2>2, <2>3, QuietStep
  <1>5. CASE LinkFails
    <2>1. UNCHANGED registryVars
      BY <1>5 DEF LinkFails
    <2>2. Quiet
      BY <2>1, QuietInputs
    <2>3. /\ UiIdle /\ UNCHANGED <<commands, facts, window_ready, coordinator>>
          /\ current' \in Owners \cup {None} /\ generation' \in Nat
      BY <1>0, <1>5 DEF LinkFails, UiIdle, uiVars, hostVars
    <2> QED
      BY <2>2, <2>3, QuietStep
  <1>6. CASE CoordinatorEnds
    <2>1. take_destroyed_fact_drops
      BY <1>6 DEF CoordinatorEnds
    <2>2. Quiet
      BY <2>1, QuietInputs
    <2>3. /\ UiIdle /\ UNCHANGED <<commands, facts, window_ready>>
          /\ ui = "exited" /\ coordinator' = "done"
          /\ current' \in Owners \cup {None} /\ generation' \in Nat
      BY <1>0, <1>6 DEF CoordinatorEnds, UiIdle, uiVars, hostVars, linkVars
    <2> QED
      BY <2>2, <2>3, QuietStep
  <1>7. CASE ReserveShutdown
    <2>1. UNCHANGED registryVars
      BY <1>7 DEF ReserveShutdown
    <2>2. Quiet
      BY <2>1, QuietInputs
    <2>3. /\ UiIdle /\ UNCHANGED <<commands, facts, window_ready, coordinator>>
          /\ current' \in Owners \cup {None} /\ generation' \in Nat
      BY <1>0, <1>7 DEF ReserveShutdown, UiIdle, uiVars
    <2> QED
      BY <2>2, <2>3, QuietStep
  <1>8. CASE AcceptShutdown
    <2>1. /\ session_end /\ Send(SessionTeardownCommands)
          /\ UiIdle /\ UNCHANGED <<facts, window_ready, coordinator>>
          /\ current' \in Owners \cup {None} /\ generation' \in Nat
      BY <1>0, <1>8 DEF AcceptShutdown, UiIdle, uiVars, linkVars
    <2> QED
      BY <2>1, AcceptStep
  <1>9. CASE ShutdownFails \/ FinishTail
    <2>1. UNCHANGED registryVars
      BY <1>9 DEF ShutdownFails, FinishTail
    <2>2. Quiet
      BY <2>1, QuietInputs
    <2>3. /\ Send(<<Quit>>) \/ Send(<<Fatal>>)
          /\ UiIdle /\ UNCHANGED <<facts, window_ready, coordinator>>
          /\ current' \in Owners \cup {None} /\ generation' \in Nat
      BY <1>0, <1>9 DEF ShutdownFails, FinishTail, UiIdle, uiVars, linkVars
    <2> QED
      BY <2>2, <2>3, SignalStep
  <1>10. CASE CloseLink
    <2>1. (UNCHANGED registryVars) => Quiet
      BY QuietInputs
    <2>2. /\ Quiet /\ UiIdle /\ UNCHANGED <<commands, facts, window_ready, coordinator>>
          /\ current' \in Owners \cup {None} /\ generation' \in Nat
      BY <1>0, <1>1, <1>10, <2>1 DEF CloseLink, UiIdle, uiVars, linkVars
    <2> QED
      BY <2>2, QuietStep
  <1> QED
    BY <1>2, <1>3, <1>4, <1>5, <1>6, <1>7, <1>8, <1>9, <1>10

-----------------------------------------------------------------------------
(* The UI thread.                                                          *)

\* The fact queue after the facts gs were added.
LEMMA ExtendFacts ==
  ASSUME QueueInv, UNCHANGED <<last_id, entries>>, NEW gs \in Seq(Facts), facts' = facts \o gs,
         \A k \in 1..Len(facts) : \A g : g = facts[k] => BuildOK(g)' /\ ReceiptOK(g)',
         \A m \in 1..Len(gs) : BuildOK(gs[m])' /\ ReceiptOK(gs[m])',
         \A m \in 1..Len(gs) : ~IsBuild(gs[m]) => Mapped(gs[m].view) \/ Announced(gs[m].view),
         \A k \in 1..Len(facts), m \in 1..Len(gs) : FactFollows(facts[k], gs[m]),
         \A a, b \in 1..Len(gs) : a < b => FactFollows(gs[a], gs[b])
  PROVE  /\ facts' \in Seq(Facts) /\ FactsOK' /\ FactsAnnounced' /\ FactsOrdered'
         /\ \A b : Resulting(b)' <=>
              Resulting(b) \/ \E m \in 1..Len(gs) : IsBuild(gs[m]) /\ gs[m].build = b
         /\ \A v : Announced(v)' <=> Announced(v) \/ \E m \in 1..Len(gs) : Announces(gs[m], v)
         /\ \A v : Receipted(v)' <=>
              Receipted(v) \/ \E m \in 1..Len(gs) : gs[m].fact = "Released" /\ gs[m].view = v
  <1> DEFINE n == Len(facts)
  <1>1. /\ facts \in Seq(Facts) /\ n \in Nat /\ Len(gs) \in Nat
        /\ \A k \in 1..n : facts[k] \in Facts
    BY Queues, LenProperties DEF QueueInv, QueueTypeOK
  <1>2. /\ facts' \in Seq(Facts) /\ Len(facts') = n + Len(gs)
        /\ \A k \in 1..(n + Len(gs)) : facts'[k] = IF k <= n THEN facts[k] ELSE gs[k - n]
    BY <1>1, ConcatProperties
  <1>3. /\ \A k \in 1..n : facts'[k] = facts[k] /\ k \in 1..Len(facts')
        /\ \A m \in 1..Len(gs) : facts'[n + m] = gs[m] /\ n + m \in 1..Len(facts')
        /\ \A k \in 1..Len(facts') :
             k \notin 1..n => /\ k - n \in 1..Len(gs) /\ facts'[k] = gs[k - n]
                              /\ \A j \in 1..n : j \in 1..(k - 1)
    <2> HIDE DEF n
    <2>1. n \in Nat /\ Len(gs) \in Nat /\ Len(facts') = n + Len(gs)
      BY <1>1, <1>2
    <2>2. \A k \in 1..n : k \in 1..(n + Len(gs)) /\ k <= n
      BY <2>1
    <2>3. \A m \in 1..Len(gs) : n + m \in 1..(n + Len(gs)) /\ ~(n + m <= n) /\ n + m - n = m
      BY <2>1
    <2>4. \A k \in 1..(n + Len(gs)) :
            k \notin 1..n => /\ ~(k <= n) /\ k - n \in 1..Len(gs)
                             /\ \A j \in 1..n : j \in 1..(k - 1)
      BY <2>1
    <2> QED
      BY ONLY <1>2, <2>1, <2>2, <2>3, <2>4
  <1>4. FactsOK'
    <2> SUFFICES ASSUME NEW k \in 1..Len(facts')
                 PROVE  (BuildOK(facts[k]))' /\ (ReceiptOK(facts[k]))'
      BY DEF FactsOK
    <2>1. PICK g : g = facts'[k]
      OBVIOUS
    <2>2. BuildOK(g)' /\ ReceiptOK(g)'
      BY <1>3, <2>1
    <2> QED
      BY <2>1, <2>2
  <1>5. \A v : Mapped(v)' <=> Mapped(v)
    BY DEF Mapped
  <1>6. FactsAnnounced'
    <2> SUFFICES ASSUME NEW k \in 1..Len(facts'), ~IsBuild(facts'[k])
                 PROVE  \/ (Mapped(facts[k].view))'
                        \/ \E j \in 1..(k - 1) : Announces(facts'[j], facts'[k].view)
      BY DEF FactsAnnounced
    <2>1. PICK v : v = facts'[k].view
      OBVIOUS
    <2>2. CASE k \in 1..n
      <3>1. Mapped(v) \/ \E j \in 1..(k - 1) : Announces(facts[j], v)
        BY <1>3, <2>1, <2>2 DEF QueueInv, FactsAnnounced
      <3>2. \A j \in 1..(k - 1) : j \in 1..n
        BY <1>1, <2>2
      <3> QED
        BY <1>3, <1>5, <2>1, <3>1, <3>2
    <2>3. CASE k \notin 1..n
      <3>1. Mapped(v) \/ \E j \in 1..n : Announces(facts[j], v)
        BY <1>3, <2>1, <2>3 DEF Announced
      <3> QED
        BY <1>3, <1>5, <2>1, <2>3, <3>1
    <2> QED
      BY <2>2, <2>3
  <1>7. FactsOrdered'
    <2> SUFFICES ASSUME NEW j \in 1..Len(facts'), NEW k \in 1..Len(facts'), j < k
                 PROVE  FactFollows(facts'[j], facts'[k])
      BY DEF FactsOrdered
    <2>1. CASE k \in 1..n
      <3>1. j \in 1..n
        BY <1>1, <1>2, <2>1
      <3> QED
        BY <1>3, <2>1, <3>1 DEF QueueInv, FactsOrdered
    <2>2. CASE k \notin 1..n /\ j \in 1..n
      BY <1>3, <2>2
    <2>3. CASE k \notin 1..n /\ j \notin 1..n
      <3>1. /\ k - n \in 1..Len(gs) /\ facts'[k] = gs[k - n]
            /\ j - n \in 1..Len(gs) /\ facts'[j] = gs[j - n]
        BY <1>3, <2>3
      <3>2. j - n < k - n
        BY <1>1, <1>2
      <3> QED
        BY <3>1, <3>2
    <2> QED
      BY <2>1, <2>2, <2>3
  <1>8. \A b : Resulting(b)' <=>
          Resulting(b) \/ \E m \in 1..Len(gs) : IsBuild(gs[m]) /\ gs[m].build = b
    BY <1>3 DEF Resulting
  <1>9. \A v : Announced(v)' <=> Announced(v) \/ \E m \in 1..Len(gs) : Announces(gs[m], v)
    BY <1>3 DEF Announced
  <1>10. \A v : Receipted(v)' <=>
           Receipted(v) \/ \E m \in 1..Len(gs) : gs[m].fact = "Released" /\ gs[m].view = v
    BY <1>3 DEF Receipted
  <1> QED
    BY <1>2, <1>4, <1>6, <1>7, <1>8, <1>9, <1>10

\* One fact sent to the core thread.
LEMMA OneFact ==
  ASSUME QueueInv, UNCHANGED <<last_id, entries>>, NEW g \in Facts, UiSends(g),
         \A k \in 1..Len(facts) : \A f : f = facts[k] => BuildOK(f)' /\ ReceiptOK(f)',
         BuildOK(g)', ReceiptOK(g)',
         ~IsBuild(g) => Mapped(g.view) \/ Announced(g.view),
         \A k \in 1..Len(facts) : FactFollows(facts[k], g)
  PROVE  /\ facts' \in Seq(Facts) /\ FactsOK' /\ FactsAnnounced' /\ FactsOrdered'
         /\ \A b : Resulting(b)' <=> Resulting(b) \/ (IsBuild(g) /\ g.build = b)
         /\ \A v : Announced(v)' <=> Announced(v) \/ Announces(g, v)
         /\ \A v : Receipted(v)' <=> Receipted(v) \/ (g.fact = "Released" /\ g.view = v)
  <1>1. <<g>> \in Seq(Facts) /\ Len(<<g>>) = 1 /\ <<g>>[1] = g
    OBVIOUS
  <1>2. PICK gs \in Seq(Facts) : gs = <<g>> /\ Len(gs) = 1 /\ gs[1] = g
    BY ONLY <1>1
  <1>3. facts' = facts \o gs
    BY <1>2, AppendIsConcat DEF UiSends, QueueInv, QueueTypeOK
  <1>4. 1 \in 1..Len(gs) /\ \A m \in 1..Len(gs) : m = 1 /\ gs[m] = g
    BY <1>2
  <1>5. \A m \in 1..Len(gs) : BuildOK(gs[m])' /\ ReceiptOK(gs[m])'
    BY <1>4
  <1>6. /\ \A m \in 1..Len(gs) : ~IsBuild(gs[m]) => Mapped(gs[m].view) \/ Announced(gs[m].view)
        /\ \A k \in 1..Len(facts), m \in 1..Len(gs) : FactFollows(facts[k], gs[m])
        /\ \A a, b \in 1..Len(gs) : ~(a < b)
    BY <1>4
  <1>7. /\ facts' \in Seq(Facts) /\ FactsOK' /\ FactsAnnounced' /\ FactsOrdered'
        /\ \A b : Resulting(b)' <=>
             Resulting(b) \/ \E m \in 1..Len(gs) : IsBuild(gs[m]) /\ gs[m].build = b
        /\ \A v : Announced(v)' <=> Announced(v) \/ \E m \in 1..Len(gs) : Announces(gs[m], v)
        /\ \A v : Receipted(v)' <=>
             Receipted(v) \/ \E m \in 1..Len(gs) : gs[m].fact = "Released" /\ gs[m].view = v
    BY <1>3, <1>5, <1>6, ExtendFacts
  <1> QED
    BY <1>4, <1>7

\* The command queue after its head has been taken.
LEMMA PopCommands ==
  ASSUME QueueInv, commands # << >>, commands' = Tail(commands), NEW h, h = Head(commands)
  PROVE  /\ h \in Commands /\ CreateOK(h) /\ ViewOK(h) /\ Queued(h)
         /\ commands' \in Seq(Commands) /\ CommandsOrdered'
         /\ \A k \in 1..Len(commands') : \A c : c = commands'[k] =>
              c \in Commands /\ CreateOK(c) /\ ViewOK(c) /\ CommandFollows(h, c)
         /\ \A c : Queued(c) /\ c # h => Queued(c)'
  <1>1. /\ commands \in Seq(Commands) /\ Len(commands) \in Nat
        /\ \A k \in 1..Len(commands) : commands[k] \in Commands
    BY Queues DEF QueueInv, QueueTypeOK
  <1>2. Len(commands) # 0 /\ Head(commands) = commands[1]
    BY <1>1
  <1>3. /\ commands' \in Seq(Commands) /\ Len(commands') = Len(commands) - 1
        /\ \A k \in 1..Len(commands') : commands'[k] = commands[k + 1]
    BY <1>1, HeadTailProperties
  <1>4. /\ 1 \in 1..Len(commands) /\ Len(commands') \in Nat
        /\ \A k \in 1..Len(commands') : k + 1 \in 1..Len(commands) /\ 1 < k + 1
    BY <1>1, <1>2, <1>3
  <1>5. \A k \in 1..Len(commands) : k # 1 => k - 1 \in 1..Len(commands') /\ commands'[k - 1] = commands[k]
    <2>1. \A k \in 1..Len(commands) : k # 1 => k - 1 \in 1..Len(commands') /\ (k - 1) + 1 = k
      BY <1>1, <1>3
    <2> QED
      BY <1>3, <2>1
  <1>6. \A k \in 1..Len(commands) : CreateOK(commands[k]) /\ ViewOK(commands[k])
    BY DEF QueueInv, CommandsOK
  <1>7. CommandsOrdered'
    BY <1>3, <1>4 DEF QueueInv, CommandsOrdered
  <1>8. \A k \in 1..Len(commands') : CommandFollows(h, commands'[k])
    BY <1>2, <1>3, <1>4 DEF QueueInv, CommandsOrdered
  <1>9. \A c : Queued(c) /\ c # h => Queued(c)'
    BY <1>2, <1>5 DEF Queued
  <1> QED
    BY <1>1, <1>2, <1>3, <1>4, <1>6, <1>7, <1>8, <1>9 DEF Queued

\* Every view the queues or the registry name was issued by the UI thread.
LEMMA ViewsIssued ==
  ASSUME RegistryInv, QueueInv
  PROVE  /\ \A v : Mapped(v) /\ v # None => v < next_view
         /\ \A k \in 1..Len(facts) : facts[k].fact # "BuildFailed" => facts[k].view < next_view
         /\ next_view \in Nat /\ ~(next_view < next_view)
  <1>1. \A v : Mapped(v) /\ v # None => v < next_view
    BY DEF Mapped, QueueInv, NativesOK
  <1>2. \A k \in 1..Len(facts) : facts[k].fact = "Built" => facts[k].view < next_view
    BY DEF QueueInv, FactsOK, BuildOK
  <1>3. ASSUME NEW k \in 1..Len(facts), ~IsBuild(facts[k])
        PROVE  facts[k].view < next_view
    <2>1. facts[k].view # None /\ Len(facts) \in Nat
      BY <1>3, Queues, FactTypes DEF QueueInv, IsBuild
    <2>2. \A j \in 1..(k - 1) : j \in 1..Len(facts)
      BY <2>1
    <2>3. Mapped(facts[k].view) \/ \E j \in 1..(k - 1) : Announces(facts[j], facts[k].view)
      BY <1>3 DEF QueueInv, FactsAnnounced
    <2> QED
      BY <1>1, <1>2, <2>1, <2>2, <2>3 DEF Announces
  <1>4. next_view \in Nat /\ ~(next_view < next_view)
    BY DEF QueueInv, QueueTypeOK
  <1> QED
    BY <1>1, <1>2, <1>3, <1>4 DEF IsBuild

(* What a command leaves alone.                                            *)
CommandFrame ==
  /\ ui = "running" /\ commands # << >> /\ commands' = Tail(commands)
  /\ UNCHANGED <<last_id, entries, ending, current, generation, window_ready, ui, coordinator>>

\* A build, whatever comes of it, leaves its result in flight.
LEMMA CreateCommand ==
  ASSUME RegistryInv, QueueInv, CommandFrame, Head(commands).cmd = "CreateWindow", UiCreateWindow
  PROVE  QueueInv'
  <1>1. PICK h : h = Head(commands) /\ h.cmd = "CreateWindow"
    OBVIOUS
  <1>2. /\ h \in Commands /\ CreateOK(h) /\ commands' \in Seq(Commands) /\ CommandsOrdered'
        /\ \A k \in 1..Len(commands') : \A c : c = commands'[k] =>
             c \in Commands /\ CreateOK(c) /\ ViewOK(c) /\ CommandFollows(h, c)
        /\ \A c : Queued(c) /\ c # h => Queued(c)'
    BY <1>1, PopCommands DEF CommandFrame
  <1>3. /\ h.build \in 1..last_id /\ Stage(entries[h.build]) = "unbuilt" /\ ~Resulting(h.build)
        /\ h.build \in 1..IncarnationLimit /\ h = CreateWindow(h.build)
    BY <1>1, <1>2, CommandTypes DEF CreateOK
  <1>4. /\ last_id' = last_id /\ entries' = entries /\ ending' = ending /\ ui = "running"
        /\ ui' = ui /\ coordinator' = coordinator /\ window_ready' = window_ready
        /\ UNCHANGED <<current, generation>>
    BY DEF CommandFrame
  <1>5. /\ \A v : Mapped(v) /\ v # None => v < next_view
        /\ \A k \in 1..Len(facts) : facts[k].fact # "BuildFailed" => facts[k].view < next_view
        /\ next_view \in Nat /\ ~(next_view < next_view)
    BY ViewsIssued
  <1>6. \A v : Mapped(v)' <=> Mapped(v)
    BY <1>4 DEF Mapped
  <1>7. PICK g \in Facts :
          /\ UiSends(g) /\ IsBuild(g) /\ g.build = h.build
          /\ \/ /\ g.fact = "Built" /\ g.view = next_view /\ next_view \in Views
                /\ natives' = natives \cup {next_view} /\ next_view' = next_view + 1
             \/ /\ g.fact = "BuildFailed" /\ natives' = natives
                /\ next_view' \in {next_view, next_view + 1}
    <2>1. CASE /\ next_view \in Views
               /\ natives' = natives \cup {next_view}
               /\ \E s \in WindowStates :
                    UiSends([fact |-> "Built", build |-> h.build, view |-> next_view, state |-> s])
               /\ next_view' = next_view + 1
      <3>1. PICK s \in WindowStates :
              UiSends([fact |-> "Built", build |-> h.build, view |-> next_view, state |-> s])
        BY <2>1
      <3>2. PICK g : g = [fact |-> "Built", build |-> h.build, view |-> next_view, state |-> s]
        OBVIOUS
      <3>3. g \in Facts /\ g.fact = "Built" /\ g.build = h.build /\ g.view = next_view
        BY <1>3, <2>1, <3>2 DEF Facts
      <3> QED
        BY <2>1, <3>1, <3>2, <3>3 DEF IsBuild
    <2>2. CASE /\ UiSends([fact |-> "BuildFailed", build |-> h.build])
               /\ next_view' = IF next_view \in Views THEN next_view + 1 ELSE next_view
               /\ UNCHANGED natives
      <3>1. PICK g : g = [fact |-> "BuildFailed", build |-> h.build]
        OBVIOUS
      <3>2. g \in Facts /\ g.fact = "BuildFailed" /\ g.build = h.build
        BY <1>3, <3>1 DEF Facts
      <3> QED
        BY <2>2, <3>1, <3>2 DEF IsBuild
    <2> QED
      BY <1>1, <2>1, <2>2 DEF UiCreateWindow
  <1>8. /\ next_view' \in Nat /\ next_view <= next_view' /\ natives \subseteq natives'
        /\ natives' \subseteq natives \cup {next_view} /\ natives' \subseteq Views
        /\ \A v \in Nat : v < next_view => v < next_view' /\ v # next_view
    BY <1>5, <1>7 DEF QueueInv, QueueTypeOK
  <1>9. /\ \A v \in Views : v \in Nat /\ v # None
        /\ \A k \in 1..Len(facts) : facts[k] \in Facts
        /\ \A i \in 1..last_id : entries[i].view # None => entries[i].view \in Nat
    <2>1. \A i \in 1..last_id : entries[i].view # None => entries[i].view \in Nat
      BY InvFacts, StageMeans DEF RegistryInv
    <2> QED
      BY <2>1, Queues, SessionAssumption, NoneAssumption DEF QueueInv
  <1>10. ASSUME NEW k \in 1..Len(facts), NEW f, f = facts[k]
         PROVE  BuildOK(f)' /\ ReceiptOK(f)'
    <2>1. BuildOK(f) /\ ReceiptOK(f) /\ f \in Facts
      BY <1>9, <1>10 DEF QueueInv, FactsOK
    <2>2. f.fact # "BuildFailed" => f.view < next_view' /\ f.view # next_view
      BY <1>5, <1>8, <1>10, <2>1, FactTypes
    <2>3. BuildOK(f)'
      BY <1>4, <1>6, <1>8, <2>1, <2>2 DEF BuildOK
    <2>4. ReceiptOK(f)'
      BY <1>4, <1>6, <1>8, <2>1, <2>2 DEF ReceiptOK
    <2> QED
      BY <2>3, <2>4
  <1>11. BuildOK(g)' /\ ReceiptOK(g)'
    <2>1. g.fact = "Built" => g.view < next_view' /\ ~Mapped(g.view)' /\ g.view \in natives'
      BY <1>5, <1>6, <1>7, <1>9
    <2> QED
      BY <1>3, <1>4, <1>7, <2>1 DEF BuildOK, ReceiptOK
  <1>12. ASSUME NEW k \in 1..Len(facts)
         PROVE  FactFollows(facts[k], g)
    <2>1. IsBuild(facts[k]) => facts[k].build # g.build
      BY <1>3, <1>7 DEF Resulting
    <2>2. facts[k].fact # "BuildFailed" => facts[k].view # next_view
      BY <1>5
    <2> QED
      BY <1>7, <2>1, <2>2 DEF FactFollows, Announces, About
  <1>13. /\ facts' \in Seq(Facts) /\ FactsOK' /\ FactsAnnounced' /\ FactsOrdered'
         /\ \A b : Resulting(b)' <=> Resulting(b) \/ b = h.build
         /\ \A v : Announced(v)' <=> Announced(v) \/ Announces(g, v)
         /\ \A v : Receipted(v)' <=> Receipted(v)
    <2>1. UNCHANGED <<last_id, entries>> /\ UiSends(g) /\ g.fact # "Released"
      BY <1>4, <1>7 DEF IsBuild
    <2>2. /\ facts' \in Seq(Facts) /\ FactsOK' /\ FactsAnnounced' /\ FactsOrdered'
          /\ \A b : Resulting(b)' <=> Resulting(b) \/ (IsBuild(g) /\ g.build = b)
          /\ \A v : Announced(v)' <=> Announced(v) \/ Announces(g, v)
          /\ \A v : Receipted(v)' <=> Receipted(v) \/ (g.fact = "Released" /\ g.view = v)
      BY ONLY QueueInv, g \in Facts, <1>7, <1>10, <1>11, <1>12, <2>1, OneFact
    <2> QED
      BY <1>7, <2>1, <2>2
  <1>14. CommandsOK'
    <2> SUFFICES ASSUME NEW k \in 1..Len(commands')
                 PROVE  (CreateOK(commands[k]))' /\ (ViewOK(commands[k]))'
      BY <1>4 DEF CommandsOK
    <2>1. PICK c : c = commands'[k]
      OBVIOUS
    <2>2. CreateOK(c) /\ ViewOK(c) /\ CommandFollows(h, c)
      BY <1>2, <2>1
    <2>3. CreateOK(c)'
      BY <1>1, <1>4, <1>13, <2>2 DEF CreateOK, CommandFollows
    <2>4. ViewOK(c)'
      BY <1>4, <1>8, <2>2 DEF ViewOK
    <2> QED
      BY <2>1, <2>3, <2>4
  <1>15. NativesOK'
    <2>1. \A v \in natives' : v < next_view' /\ (Announced(v)' \/
            \E i \in 1..last_id : entries[i].view = v /\ Stage(entries[i]) # "gone")
      <3>1. \A v \in natives : v < next_view' /\ (Announced(v)' \/
              \E i \in 1..last_id : entries[i].view = v /\ Stage(entries[i]) # "gone")
        BY <1>8, <1>9, <1>13 DEF QueueInv, NativesOK
      <3>2. \A v : v \in natives' /\ v \notin natives => v < next_view' /\ Announced(v)'
        BY <1>5, <1>7, <1>13 DEF Announces
      <3> QED
        BY <3>1, <3>2
    <2>2. \A i \in 1..last_id :
            /\ entries[i].view # None => entries[i].view < next_view'
            /\ Stage(entries[i]) = "shown" => entries[i].view \in natives'
      BY <1>8, <1>9 DEF QueueInv, NativesOK
    <2> QED
      BY <1>4, <2>1, <2>2 DEF NativesOK
  <1>16. InFlight'
    <2> SUFFICES ASSUME Draining, NEW i \in 1..last_id
                 PROVE  /\ Stage(entries[i]) = "unbuilt" => Queued(CreateWindow(i))' \/ Resulting(i)'
                        /\ Stage(entries[i]) = "tearing" =>
                             (Queued(DestroyWindow(entries[i].view)))' \/ (Receipted(entries[i].view))'
      BY <1>4 DEF InFlight, Draining
    <2>1. /\ Stage(entries[i]) = "unbuilt" => Queued(CreateWindow(i)) \/ Resulting(i)
          /\ Stage(entries[i]) = "tearing" =>
               Queued(DestroyWindow(entries[i].view)) \/ Receipted(entries[i].view)
      BY <1>4 DEF QueueInv, InFlight, Draining
    <2>2. Queued(CreateWindow(i)) /\ i # h.build => Queued(CreateWindow(i))'
      BY <1>2, <1>3 DEF CreateWindow
    <2>3. Queued(DestroyWindow(entries[i].view)) => (Queued(DestroyWindow(entries[i].view)))'
      BY <1>1, <1>2, <1>4 DEF DestroyWindow
    <2>4. Receipted(entries[i].view) => (Receipted(entries[i].view))'
      BY <1>4, <1>13
    <2> QED
      BY <1>13, <2>1, <2>2, <2>3, <2>4
  <1>17. QueueTypeOK' /\ ThreadsOK'
    BY <1>2, <1>4, <1>8, <1>13 DEF QueueInv, QueueTypeOK, ThreadsOK
  <1> QED
    BY <1>2, <1>13, <1>14, <1>15, <1>16, <1>17 DEF QueueInv

\* A setter changes nothing the queues speak of.
LEMMA SetCommand ==
  ASSUME RegistryInv, QueueInv, CommandFrame, Head(commands).cmd = "SetWindow", UiSetWindow
  PROVE  QueueInv'
  <1>1. PICK h : h = Head(commands) /\ h.cmd = "SetWindow"
    OBVIOUS
  <1>2. /\ commands' \in Seq(Commands) /\ CommandsOrdered'
        /\ \A k \in 1..Len(commands') : \A c : c = commands'[k] => CreateOK(c) /\ ViewOK(c)
        /\ \A c : Queued(c) /\ c # h => Queued(c)'
    BY <1>1, PopCommands DEF CommandFrame
  <1>3. /\ last_id' = last_id /\ entries' = entries /\ ending' = ending /\ ui = "running"
        /\ ui' = ui /\ coordinator' = coordinator /\ window_ready' = window_ready
        /\ facts' = facts /\ natives' = natives /\ next_view' = next_view
        /\ UNCHANGED <<current, generation>>
    BY DEF CommandFrame, UiSetWindow
  <1>4. FactsOK' /\ FactsAnnounced' /\ FactsOrdered' /\ NativesOK'
    BY <1>3 DEF QueueInv, FactsOK, BuildOK, ReceiptOK, FactsAnnounced, FactsOrdered, NativesOK,
                Mapped, Announced
  <1>5. CommandsOK'
    <2> SUFFICES ASSUME NEW k \in 1..Len(commands')
                 PROVE  (CreateOK(commands[k]))' /\ (ViewOK(commands[k]))'
      BY <1>3 DEF CommandsOK
    <2>1. PICK c : c = commands'[k]
      OBVIOUS
    <2>2. CreateOK(c)' /\ ViewOK(c)'
      BY <1>2, <1>3, <2>1 DEF CreateOK, ViewOK, Resulting
    <2> QED
      BY <2>1, <2>2
  <1>6. InFlight'
    <2>1. \A i : Queued(CreateWindow(i)) => Queued(CreateWindow(i))'
      BY <1>1, <1>2 DEF CreateWindow
    <2>2. \A v : Queued(DestroyWindow(v)) => Queued(DestroyWindow(v))'
      BY <1>1, <1>2 DEF DestroyWindow
    <2> QED
      BY <1>3, <2>1, <2>2 DEF QueueInv, InFlight, Draining, Resulting, Receipted
  <1>7. QueueTypeOK' /\ ThreadsOK'
    BY <1>2, <1>3 DEF QueueInv, QueueTypeOK, ThreadsOK
  <1> QED
    BY <1>2, <1>4, <1>5, <1>6, <1>7 DEF QueueInv

\* A teardown leaves its receipt in flight, and no other command names its view.
LEMMA DestroyCommand ==
  ASSUME RegistryInv, QueueInv, CommandFrame, Head(commands).cmd = "DestroyWindow", UiDestroyWindow
  PROVE  QueueInv'
  <1>1. PICK h : h = Head(commands) /\ h.cmd = "DestroyWindow"
    OBVIOUS
  <1>2. /\ h \in Commands /\ ViewOK(h) /\ commands' \in Seq(Commands) /\ CommandsOrdered'
        /\ \A k \in 1..Len(commands') : \A c : c = commands'[k] =>
             c \in Commands /\ CreateOK(c) /\ ViewOK(c) /\ CommandFollows(h, c)
        /\ \A c : Queued(c) /\ c # h => Queued(c)'
    BY <1>1, PopCommands DEF CommandFrame
  <1>3. PICK v : v = h.view /\ v \in Views /\ v \in natives
    BY <1>1, <1>2, CommandTypes DEF ViewOK
  <1>4. PICK i \in 1..last_id : entries[i].view = v /\ Stage(entries[i]) = "tearing"
    BY <1>1, <1>2, <1>3 DEF ViewOK
  <1>5. v # None /\ \A j \in 1..last_id : entries[j].view = v => j = i
    BY <1>3, <1>4, NoneAssumption DEF RegistryInv, ViewsDistinct
  <1>6. /\ last_id' = last_id /\ entries' = entries /\ ending' = ending /\ ui = "running"
        /\ ui' = ui /\ coordinator' = coordinator /\ window_ready' = window_ready
        /\ natives' = natives \ {v} /\ next_view' = next_view
        /\ UNCHANGED <<current, generation>>
    BY <1>1, <1>3 DEF CommandFrame, UiDestroyWindow
  <1>7. PICK g \in Facts : UiSends(g) /\ g.fact = "Released" /\ g.view = v
    <2>1. PICK g : g = [fact |-> "Released", view |-> v]
      OBVIOUS
    <2>2. g \in Facts /\ g.fact = "Released" /\ g.view = v
      BY <1>3, <2>1 DEF Facts
    <2> QED
      BY <1>1, <1>3, <2>1, <2>2 DEF UiDestroyWindow
  <1>8. Mapped(v) /\ \A w : Mapped(w)' <=> Mapped(w)
    BY <1>4, <1>6 DEF Mapped
  <1>9. ASSUME NEW k \in 1..Len(facts), NEW f, f = facts[k]
        PROVE  BuildOK(f)' /\ ReceiptOK(f)' /\ FactFollows(f, g)
    <2>1. BuildOK(f) /\ ReceiptOK(f)
      BY <1>9 DEF QueueInv, FactsOK
    <2>2. f.fact = "Built" => f.view # v
      BY <1>8, <2>1 DEF BuildOK
    <2>3. f.fact = "Released" => f.view # v
      BY <1>3, <2>1 DEF ReceiptOK
    <2>4. BuildOK(f)' /\ ReceiptOK(f)'
      BY <1>6, <1>8, <2>1, <2>2 DEF BuildOK, ReceiptOK
    <2> QED
      BY <1>7, <2>3, <2>4 DEF FactFollows, IsBuild, Announces, About
  <1>10. BuildOK(g)' /\ ReceiptOK(g)' /\ ~IsBuild(g)
    BY <1>4, <1>5, <1>6, <1>7, <1>8 DEF BuildOK, ReceiptOK, IsBuild
  <1>11. /\ facts' \in Seq(Facts) /\ FactsOK' /\ FactsAnnounced' /\ FactsOrdered'
         /\ \A b : Resulting(b)' <=> Resulting(b)
         /\ \A w : Announced(w)' <=> Announced(w)
         /\ \A w : Receipted(w)' <=> Receipted(w) \/ w = v
    <2>1. /\ UNCHANGED <<last_id, entries>> /\ UiSends(g)
          /\ ~IsBuild(g) => Mapped(g.view) \/ Announced(g.view)
      BY <1>6, <1>7, <1>8
    <2>2. /\ facts' \in Seq(Facts) /\ FactsOK' /\ FactsAnnounced' /\ FactsOrdered'
          /\ \A b : Resulting(b)' <=> Resulting(b) \/ (IsBuild(g) /\ g.build = b)
          /\ \A w : Announced(w)' <=> Announced(w) \/ Announces(g, w)
          /\ \A w : Receipted(w)' <=> Receipted(w) \/ (g.fact = "Released" /\ g.view = w)
      BY ONLY QueueInv, g \in Facts, <1>9, <1>10, <2>1, OneFact
    <2>3. \A w : ~Announces(g, w)
      BY <1>7 DEF Announces
    <2> QED
      BY <1>7, <1>10, <2>2, <2>3
  <1>12. CommandsOK'
    <2> SUFFICES ASSUME NEW k \in 1..Len(commands')
                 PROVE  (CreateOK(commands[k]))' /\ (ViewOK(commands[k]))'
      BY <1>6 DEF CommandsOK
    <2>1. PICK c : c = commands'[k]
      OBVIOUS
    <2>2. CreateOK(c) /\ ViewOK(c) /\ CommandFollows(h, c)
      BY <1>2, <2>1
    <2>3. CreateOK(c)'
      BY <1>6, <1>11, <2>2 DEF CreateOK
    <2>4. ViewOK(c)'
      BY <1>1, <1>3, <1>6, <2>2 DEF ViewOK, CommandFollows
    <2> QED
      BY <2>1, <2>3, <2>4
  <1>13. NativesOK'
    <2>1. \A w \in natives' : w < next_view /\ (Announced(w)' \/
            \E j \in 1..last_id : entries[j].view = w /\ Stage(entries[j]) # "gone")
      BY <1>6, <1>11 DEF QueueInv, NativesOK
    <2>2. \A j \in 1..last_id :
            /\ entries[j].view # None => entries[j].view < next_view
            /\ Stage(entries[j]) = "shown" => entries[j].view \in natives'
      BY <1>4, <1>5, <1>6 DEF QueueInv, NativesOK
    <2> QED
      BY <1>6, <2>1, <2>2 DEF NativesOK
  <1>14. InFlight'
    <2> SUFFICES ASSUME Draining, NEW j \in 1..last_id
                 PROVE  /\ Stage(entries[j]) = "unbuilt" => Queued(CreateWindow(j))' \/ Resulting(j)'
                        /\ Stage(entries[j]) = "tearing" =>
                             (Queued(DestroyWindow(entries[j].view)))' \/ (Receipted(entries[j].view))'
      BY <1>6 DEF InFlight, Draining
    <2>1. /\ Stage(entries[j]) = "unbuilt" => Queued(CreateWindow(j)) \/ Resulting(j)
          /\ Stage(entries[j]) = "tearing" =>
               Queued(DestroyWindow(entries[j].view)) \/ Receipted(entries[j].view)
      BY <1>6 DEF QueueInv, InFlight, Draining
    <2>2. Queued(CreateWindow(j)) => Queued(CreateWindow(j))'
      BY <1>1, <1>2 DEF CreateWindow
    <2>3. entries[j].view # v =>
            (Queued(DestroyWindow(entries[j].view)) => (Queued(DestroyWindow(entries[j].view)))')
      BY <1>2, <1>3, <1>6 DEF DestroyWindow
    <2>4. /\ Receipted(entries[j].view) => (Receipted(entries[j].view))'
          /\ entries[j].view = v => (Receipted(entries[j].view))'
      BY <1>6, <1>11
    <2> QED
      BY <1>11, <2>1, <2>2, <2>3, <2>4
  <1>15. QueueTypeOK' /\ ThreadsOK'
    BY <1>2, <1>6, <1>11 DEF QueueInv, QueueTypeOK, ThreadsOK
  <1> QED
    BY <1>2, <1>11, <1>12, <1>13, <1>14, <1>15 DEF QueueInv

\* An unsolicited native fact is about a window that exists.
LEMMA NativeFact ==
  ASSUME RegistryInv, QueueInv, UiNativeEvent
  PROVE  QueueInv'
  <1>1. /\ last_id' = last_id /\ entries' = entries /\ ending' = ending
        /\ ui' = ui /\ coordinator' = coordinator /\ window_ready' = window_ready
        /\ natives' = natives /\ next_view' = next_view /\ commands' = commands
        /\ UNCHANGED <<current, generation>>
    BY DEF UiNativeEvent, registryVars, linkVars, hostVars, uiVars
  <1>2. PICK v \in natives :
          \/ UiSends([fact |-> "CloseRequested", view |-> v])
          \/ \E a \in Attrs, x \in Values :
               UiSends([fact |-> "State", view |-> v, attr |-> a, value |-> x])
    BY DEF UiNativeEvent
  <1>3. v \in Views
    BY DEF QueueInv, QueueTypeOK
  <1>4. PICK g \in Facts : UiSends(g) /\ g.fact \in {"CloseRequested", "State"} /\ g.view = v
    <2>1. CASE UiSends([fact |-> "CloseRequested", view |-> v])
      <3>1. PICK g : g = [fact |-> "CloseRequested", view |-> v]
        OBVIOUS
      <3>2. g \in Facts /\ g.fact = "CloseRequested" /\ g.view = v
        BY <1>3, <3>1 DEF Facts
      <3> QED
        BY <2>1, <3>1, <3>2
    <2>2. ASSUME NEW a \in Attrs, NEW x \in Values,
                 UiSends([fact |-> "State", view |-> v, attr |-> a, value |-> x])
          PROVE  \E g \in Facts : UiSends(g) /\ g.fact \in {"CloseRequested", "State"} /\ g.view = v
      <3>1. PICK g : g = [fact |-> "State", view |-> v, attr |-> a, value |-> x]
        OBVIOUS
      <3>2. g \in Facts /\ g.fact = "State" /\ g.view = v
        BY <1>3, <3>1 DEF Facts
      <3> QED
        BY <2>2, <3>1, <3>2
    <2> QED
      BY <1>2, <2>1, <2>2
  <1>5. \A w : Mapped(w)' <=> Mapped(w)
    BY <1>1 DEF Mapped
  <1>6. ASSUME NEW k \in 1..Len(facts), NEW f, f = facts[k]
        PROVE  BuildOK(f)' /\ ReceiptOK(f)' /\ FactFollows(f, g)
    <2>1. BuildOK(f) /\ ReceiptOK(f)
      BY <1>6 DEF QueueInv, FactsOK
    <2>2. f.fact = "Released" => f.view # v
      BY <2>1 DEF ReceiptOK
    <2>3. BuildOK(f)' /\ ReceiptOK(f)'
      BY <1>1, <1>5, <2>1 DEF BuildOK, ReceiptOK
    <2> QED
      BY <1>4, <2>2, <2>3 DEF FactFollows, IsBuild, Announces, About
  <1>7. BuildOK(g)' /\ ReceiptOK(g)' /\ ~IsBuild(g)
    BY <1>4 DEF BuildOK, ReceiptOK, IsBuild
  <1>8. Mapped(g.view) \/ Announced(g.view)
    BY <1>4 DEF QueueInv, NativesOK, Mapped
  <1>9. /\ facts' \in Seq(Facts) /\ FactsOK' /\ FactsAnnounced' /\ FactsOrdered'
        /\ \A b : Resulting(b)' <=> Resulting(b)
        /\ \A w : Announced(w)' <=> Announced(w)
        /\ \A w : Receipted(w)' <=> Receipted(w)
    <2>1. UNCHANGED <<last_id, entries>> /\ UiSends(g)
      BY <1>1, <1>4
    <2>2. /\ facts' \in Seq(Facts) /\ FactsOK' /\ FactsAnnounced' /\ FactsOrdered'
          /\ \A b : Resulting(b)' <=> Resulting(b) \/ (IsBuild(g) /\ g.build = b)
          /\ \A w : Announced(w)' <=> Announced(w) \/ Announces(g, w)
          /\ \A w : Receipted(w)' <=> Receipted(w) \/ (g.fact = "Released" /\ g.view = w)
      BY ONLY QueueInv, g \in Facts, <1>6, <1>7, <1>8, <2>1, OneFact
    <2>3. g.fact # "Released" /\ \A w : ~Announces(g, w)
      BY <1>4 DEF Announces
    <2> QED
      BY <1>7, <2>2, <2>3
  <1>10. CommandsOK' /\ CommandsOrdered' /\ NativesOK'
    BY <1>1, <1>9 DEF QueueInv, CommandsOK, CreateOK, ViewOK, CommandsOrdered, NativesOK
  <1>11. InFlight'
    <2>1. \A c : Queued(c)' <=> Queued(c)
      BY <1>1 DEF Queued
    <2> QED
      BY <1>1, <1>9, <2>1 DEF QueueInv, InFlight, Draining, CreateWindow, DestroyWindow
  <1>12. QueueTypeOK' /\ ThreadsOK'
    BY <1>1, <1>9 DEF QueueInv, QueueTypeOK, ThreadsOK
  <1> QED
    BY <1>9, <1>10, <1>11, <1>12 DEF QueueInv

\* The loop turns terminal: the commands still queued are discarded.
LEMMA TerminalKeeps ==
  ASSUME RegistryInv, QueueInv, UiTerminal \/ UiFails
  PROVE  QueueInv'
  <1>1. /\ last_id' = last_id /\ entries' = entries /\ ending' = ending
        /\ ui = "running" /\ ui' = "terminal"
        /\ coordinator' = coordinator /\ window_ready' = window_ready
        /\ natives' = natives /\ next_view' = next_view /\ commands' = << >> /\ facts' = facts
        /\ UNCHANGED <<current, generation>>
    BY DEF UiTerminal, UiFails, registryVars, linkVars, hostVars
  <1>2. Len(commands') = 0 /\ commands' \in Seq(Commands)
    BY <1>1, EmptySeq
  <1>3. CommandsOK' /\ CommandsOrdered'
    BY <1>1, <1>2 DEF CommandsOK, CommandsOrdered
  <1>4. FactsOK' /\ FactsAnnounced' /\ FactsOrdered' /\ NativesOK'
    BY <1>1 DEF QueueInv, FactsOK, BuildOK, ReceiptOK, FactsAnnounced, FactsOrdered, NativesOK,
                Mapped, Announced
  <1>5. InFlight' /\ ThreadsOK' /\ QueueTypeOK'
    BY <1>1, <1>2 DEF QueueInv, InFlight, Draining, ThreadsOK, QueueTypeOK
  <1> QED
    BY <1>3, <1>4, <1>5 DEF QueueInv

\* window_main_owner_stopping ends the registry's session without commands: the
\* loop itself releases the windows.
LEMMA StopKeeps ==
  ASSUME RegistryInv, QueueInv, UiStop
  PROVE  QueueInv'
  <1>1. /\ ui = "terminal" /\ ui' = "stopping" /\ session_end
        /\ coordinator' = coordinator /\ window_ready' = window_ready
        /\ natives' = natives /\ next_view' = next_view /\ commands' = commands /\ facts' = facts
        /\ UNCHANGED <<current, generation>>
    BY DEF UiStop
  <1>2. last_id' = last_id /\ ending' = TRUE /\ Grown
    BY <1>1, EndedEntries
  <1>3. FactsOK' /\ FactsAnnounced' /\ FactsOrdered' /\ NativesOK'
    BY <1>1, <1>2, GrownKeeps
  <1>4. commands = << >> /\ Len(commands') = 0
    BY <1>1 DEF QueueInv, CommandsOK
  <1>5. CommandsOK' /\ CommandsOrdered'
    BY <1>1, <1>4 DEF CommandsOK, CommandsOrdered
  <1>6. InFlight' /\ ThreadsOK' /\ QueueTypeOK'
    BY <1>1, <1>2 DEF QueueInv, InFlight, Draining, ThreadsOK, QueueTypeOK
  <1> QED
    BY <1>3, <1>5, <1>6 DEF QueueInv

\* release_all: every window that still exists gets its receipt, once.
LEMMA ReleaseAllKeeps ==
  ASSUME RegistryInv, QueueInv, UiReleaseAll
  PROVE  QueueInv'
  <1>1. /\ last_id' = last_id /\ entries' = entries /\ ending' = ending
        /\ ui = "stopping" /\ ui' = "released"
        /\ coordinator' = coordinator /\ window_ready' = window_ready
        /\ natives' = {} /\ next_view' = next_view /\ commands' = commands
        /\ UNCHANGED <<current, generation>>
    BY DEF UiReleaseAll, registryVars, linkVars, hostVars
  <1>2. /\ ending /\ commands = << >> /\ natives \subseteq Views /\ natives \in SUBSET Nat
        /\ next_view \in Nat /\ \A v \in natives : v < next_view
    BY <1>1, SessionAssumption DEF QueueInv, QueueTypeOK, NativesOK, CommandsOK
  <1>3. IsFiniteSet(natives)
    <2>1. natives \in SUBSET (0..next_view)
      BY <1>2
    <2>2. IsFiniteSet(0..next_view)
      BY <1>2, FS_Interval
    <2> QED
      BY <2>1, <2>2, FS_Subset
  <1> DEFINE order == InOrder(natives)
             n == Cardinality(natives)
  <1>4. /\ n \in Nat /\ order \in [1..n -> natives]
        /\ \A a, b \in 1..n : order[a] = order[b] => a = b
        /\ \A x \in natives : \E a \in 1..n : order[a] = x
    BY <1>2, <1>3, InOrderLists
  <1>5. facts' = facts \o [k \in DOMAIN order |-> [fact |-> "Released", view |-> order[k]]]
    BY DEF UiReleaseAll
  <1> HIDE DEF order, n
  <1>6. PICK gs \in Seq(Facts) :
          /\ facts' = facts \o gs /\ Len(gs) = n
          /\ \A m \in 1..n : gs[m].fact = "Released" /\ gs[m].view = order[m]
    <2>1. PICK gs : gs = [k \in 1..n |-> [fact |-> "Released", view |-> order[k]]]
      OBVIOUS
    <2>2. \A m \in 1..n : order[m] \in Views
      BY <1>2, <1>4
    <2>3. \A m \in 1..n : gs[m] = [fact |-> "Released", view |-> order[m]]
      BY <2>1
    <2>4. \A m \in 1..n : gs[m] \in Facts /\ gs[m].fact = "Released" /\ gs[m].view = order[m]
      <3> SUFFICES ASSUME NEW m \in 1..n
                   PROVE  gs[m] \in Facts /\ gs[m].fact = "Released" /\ gs[m].view = order[m]
        OBVIOUS
      <3>1. PICK v \in Views : v = order[m]
        BY <2>2
      <3>2. PICK g : g = [fact |-> "Released", view |-> v] /\ g = gs[m]
        BY <2>3, <3>1
      <3>3. g \in Facts /\ g.fact = "Released" /\ g.view = v
        BY <3>2 DEF Facts
      <3> QED
        BY <3>1, <3>2, <3>3
    <2>5. gs \in [1..n -> Facts]
      BY <2>1, <2>4
    <2>6. gs \in Seq(Facts) /\ Len(gs) = n
      BY <1>4, <2>5, FunIsSeq
    <2>7. DOMAIN order = 1..n
      BY <1>4
    <2> QED
      BY <1>5, <2>1, <2>4, <2>6, <2>7
  <1>7. \A w : Mapped(w)' <=> Mapped(w)
    BY <1>1 DEF Mapped
  <1>8. ASSUME NEW k \in 1..Len(facts), NEW f, f = facts[k]
        PROVE  BuildOK(f)' /\ ReceiptOK(f)'
    <2>1. BuildOK(f) /\ ReceiptOK(f)
      BY <1>8 DEF QueueInv, FactsOK
    <2> QED
      BY <1>1, <1>7, <2>1 DEF BuildOK, ReceiptOK
  <1>9. ASSUME NEW v \in natives, NEW i \in 1..last_id, entries[i].view = v
        PROVE  Stage(entries[i]) = "tearing"
    <2>1. v # None /\ Mapped(v)
      BY <1>2, <1>9, NoneAssumption DEF Mapped
    <2>2. ~Announced(v)
      BY <2>1 DEF QueueInv, FactsOK, BuildOK, Announced, Announces
    <2>3. PICK j \in 1..last_id : entries[j].view = v /\ Stage(entries[j]) # "gone"
      BY <2>2 DEF QueueInv, NativesOK
    <2>4. i = j
      BY <1>9, <2>1, <2>3 DEF RegistryInv, ViewsDistinct
    <2>5. EntryInv(entries[i], ending) /\ ending \in BOOLEAN
      BY InvFacts DEF RegistryInv
    <2> QED
      BY <1>2, <1>9, <2>1, <2>3, <2>4, <2>5, StageMeans
  <1>10. ASSUME NEW m \in 1..Len(gs)
         PROVE  /\ BuildOK(gs[m])' /\ ReceiptOK(gs[m])'
                /\ ~IsBuild(gs[m]) /\ gs[m].view \in natives
    <2>1. gs[m].fact = "Released" /\ gs[m].view \in natives
      BY <1>4, <1>6
    <2> QED
      BY <1>1, <1>2, <1>9, <2>1 DEF BuildOK, ReceiptOK, IsBuild
  <1>11. \A m \in 1..Len(gs) : Mapped(gs[m].view) \/ Announced(gs[m].view)
    BY <1>10 DEF QueueInv, NativesOK, Mapped
  <1>12. \A k \in 1..Len(facts), m \in 1..Len(gs) : FactFollows(facts[k], gs[m])
    <2> SUFFICES ASSUME NEW k \in 1..Len(facts), NEW m \in 1..Len(gs)
                 PROVE  FactFollows(facts[k], gs[m])
      OBVIOUS
    <2>1. facts[k].fact = "Released" => facts[k].view \notin natives
      BY DEF QueueInv, FactsOK, ReceiptOK
    <2>2. gs[m].fact = "Released" /\ gs[m].view \in natives /\ ~IsBuild(gs[m])
      BY <1>6, <1>10
    <2> QED
      BY <2>1, <2>2 DEF FactFollows, Announces, About
  <1>13. \A a, b \in 1..Len(gs) : a < b => FactFollows(gs[a], gs[b])
    <2> SUFFICES ASSUME NEW a \in 1..n, NEW b \in 1..n, a < b
                 PROVE  FactFollows(gs[a], gs[b])
      BY <1>6
    <2>1. gs[a].view # gs[b].view
      BY <1>4, <1>6
    <2>2. gs[a].fact = "Released" /\ gs[b].fact = "Released"
      BY <1>6
    <2> QED
      BY <2>1, <2>2 DEF FactFollows, IsBuild, Announces, About
  <1>14. facts' \in Seq(Facts) /\ FactsOK' /\ FactsAnnounced' /\ FactsOrdered'
    <2>1. UNCHANGED <<last_id, entries>>
      BY <1>1
    <2> QED
      BY ONLY QueueInv, gs \in Seq(Facts), <1>6, <1>8, <1>10, <1>11, <1>12, <1>13, <2>1, ExtendFacts
  <1>15. Len(commands') = 0
    BY <1>1, <1>2
  <1>16. CommandsOK' /\ CommandsOrdered'
    BY <1>1, <1>2, <1>15 DEF CommandsOK, CommandsOrdered
  <1>17. NativesOK'
    <2>1. \A i \in 1..last_id : Stage(entries[i]) # "shown"
      BY <1>2, InvFacts, StageMeans DEF RegistryInv
    <2> QED
      BY <1>1, <1>2, <2>1 DEF QueueInv, NativesOK
  <1>18. InFlight' /\ ThreadsOK' /\ QueueTypeOK'
    BY <1>1, <1>14 DEF QueueInv, InFlight, Draining, ThreadsOK, QueueTypeOK
  <1> QED
    BY <1>14, <1>16, <1>17, <1>18 DEF QueueInv

\* The loop returns.
LEMMA ExitKeeps ==
  ASSUME RegistryInv, QueueInv, UiExit
  PROVE  QueueInv'
  <1>1. /\ last_id' = last_id /\ entries' = entries /\ ending' = ending
        /\ ui = "released" /\ ui' = "exited"
        /\ coordinator' = coordinator /\ window_ready' = window_ready
        /\ natives' = natives /\ next_view' = next_view /\ commands' = commands /\ facts' = facts
        /\ UNCHANGED <<current, generation>>
    BY DEF UiExit, registryVars, linkVars, hostVars
  <1>2. FactsOK' /\ FactsAnnounced' /\ FactsOrdered' /\ NativesOK'
    BY <1>1 DEF QueueInv, FactsOK, BuildOK, ReceiptOK, FactsAnnounced, FactsOrdered, NativesOK,
                Mapped, Announced
  <1>3. CommandsOK' /\ CommandsOrdered'
    BY <1>1 DEF QueueInv, CommandsOK, CommandsOrdered, CreateOK, ViewOK, Resulting
  <1>4. InFlight' /\ ThreadsOK' /\ QueueTypeOK'
    BY <1>1 DEF QueueInv, InFlight, Draining, ThreadsOK, QueueTypeOK
  <1> QED
    BY <1>2, <1>3, <1>4 DEF QueueInv

-----------------------------------------------------------------------------
(* The session as a whole.                                                 *)

\* The session starts with empty queues.
LEMMA SessionStarts ==
  ASSUME Init
  PROVE  RegistryInv /\ QueueInv
  <1>1. RegistryInv
    BY InitOK DEF Init
  <1>2. /\ last_id = 0 /\ facts = << >> /\ commands = << >> /\ natives = {} /\ ui = "running"
        /\ coordinator = "running" /\ window_ready = FALSE /\ next_view = 1
        /\ current = None /\ generation = 0
    BY DEF Init, RegistryInit
  <1>3. Len(facts) = 0 /\ Len(commands) = 0 /\ facts \in Seq(Facts) /\ commands \in Seq(Commands)
    BY <1>2, EmptySeq
  <1>4. FactsOK /\ FactsAnnounced /\ FactsOrdered /\ CommandsOK /\ CommandsOrdered
    BY <1>2, <1>3 DEF FactsOK, FactsAnnounced, FactsOrdered, CommandsOK, CommandsOrdered
  <1>5. \A i \in 1..last_id : FALSE
    BY <1>2
  <1>6. NativesOK /\ ThreadsOK /\ InFlight
    BY <1>2, <1>5 DEF NativesOK, ThreadsOK, InFlight, Draining
  <1>7. QueueTypeOK
    BY <1>2, <1>3 DEF QueueTypeOK
  <1> QED
    BY <1>1, <1>4, <1>6, <1>7 DEF QueueInv

\* Every step keeps the queues and the registry in agreement.
LEMMA QueuesStep ==
  ASSUME RegistryInv, QueueInv, [Next]_vars
  PROVE  QueueInv'
  <1>1. CASE UiCommand
    <2>1. CommandFrame
      BY <1>1 DEF UiCommand, CommandFrame, registryVars, linkVars, hostVars
    <2> QED
      BY <1>1, <2>1, CreateCommand, SetCommand, DestroyCommand DEF UiCommand
  <1>2. CASE UNCHANGED vars
    <2>1. UNCHANGED registryVars /\ UiIdle /\ UNCHANGED <<commands, facts, window_ready, coordinator>>
          /\ UNCHANGED <<current, generation>>
      BY <1>2 DEF vars, UiIdle, uiVars, hostVars, linkVars
    <2>2. Quiet
      BY <2>1, QuietInputs
    <2> QED
      BY <2>1, <2>2, QuietStep DEF QueueInv, QueueTypeOK
  <1> QED
    BY <1>1, <1>2, HostKeepsQueues, ReadyKeepsQueues, ArmKeepsQueues, CallsKeepQueues, EventsKeepQueues,
       NativeFact, TerminalKeeps, StopKeeps, ReleaseAllKeeps, ExitKeeps DEF Next

\* A call of the role is a call of the registry's caller.
LEMMA CallsAreRegistrySteps ==
  ASSUME RegistryInv, DispatchWindow, current \in Owners
  PROVE  RegistryNext
  <1>1. SUFFICES AppCall(current)
    BY DEF RegistryNext
  <1>2. CASE CallCreate
    BY <1>2 DEF CallCreate, AppCall
  <1>3. ASSUME NEW i \in DOMAIN entries, CallSetter(i)
        PROVE  AppCall(current)
    BY <1>3, RefOK DEF CallSetter, AppCall
  <1>4. ASSUME NEW i \in DOMAIN entries, CallRequestClose(i)
        PROVE  AppCall(current)
    BY <1>4, RefOK DEF CallRequestClose, AppCall
  <1>5. ASSUME NEW i \in DOMAIN entries, NEW seq \in 1..CloseSeqLimit, NEW d \in Verdicts,
               CallCloseReply(i, seq, d)
        PROVE  AppCall(current)
    <2>1. seq \in 0..CloseSeqLimit
      BY LimitsAssumption
    <2>2. RefOf(i) \in WindowRef /\ CloseReply(current, RefOf(i), seq, d)
      BY <1>5, RefOK DEF CallCloseReply
    <2> QED
      BY <2>1, <2>2 DEF AppCall
  <1>6. ASSUME NEW i \in DOMAIN entries, CallDestroy(i)
        PROVE  AppCall(current)
    BY <1>6, RefOK DEF CallDestroy, AppCall
  <1> QED
    BY <1>2, <1>3, <1>4, <1>5, <1>6 DEF DispatchWindow

\* A native input the coordinator takes is one the registry's caller may give it:
\* its build is known and its view is new, or its view is mapped.
LEMMA EventsAreRegistrySteps ==
  ASSUME RegistryInv, QueueInv, WindowNativeEvent
  PROVE  RegistryNext \/ UNCHANGED registryVars
  <1>1. SUFFICES NativeInput \/ UNCHANGED registryVars
    BY DEF RegistryNext
  <1>2. PICK f \in Facts : f = Head(facts) /\ BuildOK(f)
    <2>1. facts \in Seq(Facts) /\ facts # << >>
      BY DEF QueueInv, QueueTypeOK, WindowNativeEvent
    <2>2. Head(facts) \in Facts /\ Head(facts) = facts[1] /\ 1 \in 1..Len(facts)
      BY <2>1
    <2>3. BuildOK(facts[1])
      BY <2>2 DEF QueueInv, FactsOK
    <2> QED
      BY <2>2, <2>3
  <1>3. CASE f.fact = "Built" /\ OnBuilt(f)
    <2>1. /\ f.view \in Views /\ f.state \in WindowStates /\ f.build \in 1..IncarnationLimit
          /\ ~Mapped(f.view)
      BY <1>2, <1>3, FactTypes DEF BuildOK, IsBuild
    <2>2. WithView(f.view) = {}
      BY <2>1, InvFacts DEF Mapped, WithView
    <2>3. PICK i \in DOMAIN entries :
            BuiltCreates(i, f.build, f.view, f.state) \/ BuiltCleansUp(i, f.build, f.view, f.state)
      BY <1>3 DEF OnBuilt
    <2> QED
      BY <2>1, <2>2, <2>3 DEF NativeInput
  <1>4. CASE f.fact = "BuildFailed" /\ OnBuildFailed(f)
    <2>1. f.build \in 1..IncarnationLimit
      BY <1>4, FactTypes DEF IsBuild
    <2> QED
      BY <1>4, <2>1 DEF OnBuildFailed, NativeInput
  <1>5. CASE f.fact = "CloseRequested" /\ OnCloseRequested(f)
    <2>1. f.view \in Views
      BY <1>5, FactTypes
    <2> QED
      BY <1>5, <2>1 DEF OnCloseRequested, NativeInput
  <1>6. CASE f.fact = "Released" /\ OnReleased(f)
    <2>1. f.view \in Views
      BY <1>6, FactTypes
    <2> QED
      BY <1>6, <2>1 DEF OnReleased, NativeInput
  <1>7. CASE f.fact = "State" /\ OnState(f)
    <2>1. f.view \in Views /\ f.attr \in Attrs /\ f.value \in Values
      BY <1>7, FactTypes
    <2> QED
      BY <1>7, <2>1 DEF OnState, NativeInput
  <1> QED
    BY <1>2, <1>3, <1>4, <1>5, <1>6, <1>7 DEF WindowNativeEvent

\* Retiring a link that is already gone changes nothing.
LEMMA LossOfNobody ==
  ASSUME RegistryInv, role_lost(None)
  PROVE  UNCHANGED registryVars
  <1>1. OwnedLive(None) = {}
    BY InvFacts, SessionAssumption DEF OwnedLive, Entry
  <1>2. entries' = entries
    BY <1>1, InvFacts DEF role_lost
  <1>3. deferred_last_window' = deferred_last_window
    BY <1>1 DEF role_lost, RegistryInv, RegistryTypeOK
  <1> QED
    BY <1>2, <1>3 DEF role_lost, registryVars

\* Every step of the session is a step of the registry's own specification.
LEMMA SessionRefines ==
  ASSUME RegistryInv, QueueInv, [Next]_vars
  PROVE  [RegistryNext]_registryVars
  <1>0. current \in Owners \cup {None}
    BY DEF QueueInv, QueueTypeOK
  <1>1. ASSUME Retire
        PROVE  RegistryNext \/ UNCHANGED registryVars
    <2>1. role_lost(current)
      BY <1>1 DEF Retire
    <2>2. CASE current \in Owners
      BY <2>1, <2>2 DEF RegistryNext, Session
    <2>3. CASE current = None
      BY <2>1, <2>3, LossOfNobody
    <2> QED
      BY <1>0, <2>2, <2>3
  <1>2. CASE \/ InstallGeneration \/ AwaitRecoveryArm \/ LinkFails
             \/ ReserveShutdown \/ ShutdownFails \/ FinishTail
    BY <1>2 DEF InstallGeneration, AwaitRecoveryArm, LinkFails, ReserveShutdown, ShutdownFails, FinishTail
  <1>3. CASE RetireBroken \/ RetireGeneration \/ CloseLink
    BY <1>1, <1>3 DEF RetireBroken, RetireGeneration, CloseLink
  <1>4. CASE SignalReady \/ CoordinatorEnds \/ AcceptShutdown \/ UiStop
    BY <1>4 DEF SignalReady, CoordinatorEnds, AcceptShutdown, UiStop, RegistryNext, Session
  <1>5. CASE Subscribe
    <2>1. current \in Owners /\ subscribe_successor(current)
      BY <1>0, <1>5 DEF Subscribe, Dispatchable
    <2> QED
      BY <2>1 DEF RegistryNext, Session
  <1>6. CASE DispatchWindow
    <2>1. current \in Owners
      BY <1>0, <1>6 DEF DispatchWindow, CanCall, Dispatchable
    <2> QED
      BY <1>6, <2>1, CallsAreRegistrySteps
  <1>7. CASE WindowNativeEvent
    BY <1>7, EventsAreRegistrySteps
  <1>8. CASE UiCommand \/ UiNativeEvent \/ UiTerminal \/ UiFails \/ UiReleaseAll \/ UiExit
    BY <1>8 DEF UiCommand, UiNativeEvent, UiTerminal, UiFails, UiReleaseAll, UiExit
  <1>9. CASE UNCHANGED vars
    BY <1>9 DEF vars
  <1> QED
    BY <1>2, <1>3, <1>4, <1>5, <1>6, <1>7, <1>8, <1>9 DEF Next

\* The invariant of the session: the registry's own, and the agreement of the two
\* queues with the registry and the native windows.
THEOREM SessionInvariant == Spec => [](RegistryInv /\ QueueInv)
  <1>1. Init => RegistryInv /\ QueueInv
    BY SessionStarts
  <1>2. RegistryInv /\ QueueInv /\ [Next]_vars => (RegistryInv /\ QueueInv)'
    <2> SUFFICES ASSUME RegistryInv, QueueInv, [Next]_vars
                 PROVE  RegistryInv' /\ QueueInv'
      OBVIOUS
    <2>1. QueueInv'
      BY QueuesStep
    <2>2. [RegistryNext]_registryVars
      BY SessionRefines
    <2>3. RegistryInv'
      BY <2>2, NextOK, StutterOK DEF StepOK
    <2> QED
      BY <2>1, <2>3
  <1> QED
    BY <1>1, <1>2, PTL DEF Spec

\* The router, the coordinator and the UI thread keep the contract the registry
\* assumes of its caller: no correlation is admitted twice, no view is mapped
\* twice, and every native input names a build or a view the registry knows.  So
\* the session implements the registry's specification.
THEOREM SessionImplementsRegistry == Spec => RegistryImplemented
  <1>1. Init => RegistryInit
    BY DEF Init
  <1>2. RegistryInv /\ QueueInv /\ [Next]_vars => [RegistryNext]_registryVars
    BY SessionRefines
  <1> QED
    BY <1>1, <1>2, SessionInvariant, PTL DEF Spec, RegistryImplemented, RegistrySpec

\* What is proved of the registry under any caller holds in the session: every
\* retained call is parked once and has a receipt to wait for, and no step brings
\* a window back or reissues its identity.
THEOREM SessionInherits ==
  Spec => /\ []CallsAwaitAReceipt /\ []CorrelationsParkedOnce
          /\ LifecycleOnlyForward
  BY SessionImplementsRegistry, RetainedCalls, ParkedOnce, Lifecycle, PTL DEF RegistryImplemented

\* No queued command names a view the UI thread does not own, in any interleaving
\* of the core thread, the coordinator and the UI loop: managed_view, which would
\* end the session, never fails on a command.
THEOREM LiveViews == Spec => []CommandsNameLiveViews
  <1>1. RegistryInv /\ QueueInv => CommandsNameLiveViews
    <2> SUFFICES ASSUME QueueInv, NEW k \in DOMAIN commands,
                        commands[k].cmd \in {"SetWindow", "DestroyWindow"}
                 PROVE  /\ commands[k].view \in natives
                        /\ \A j \in 1..(k - 1) : commands[j] # DestroyWindow(commands[k].view)
      BY DEF CommandsNameLiveViews
    <2>1. k \in 1..Len(commands) /\ Len(commands) \in Nat
      BY Queues DEF QueueInv
    <2>2. commands[k].view \in natives
      BY <2>1 DEF QueueInv, CommandsOK, ViewOK
    <2>3. ASSUME NEW j \in 1..(k - 1), commands[j] = DestroyWindow(commands[k].view)
          PROVE  FALSE
      <3>1. j \in 1..Len(commands) /\ j < k
        BY <2>1
      <3>2. CommandFollows(commands[j], commands[k])
        BY <2>1, <3>1 DEF QueueInv, CommandsOrdered
      <3>3. commands[j].cmd = "DestroyWindow" /\ commands[j].view = commands[k].view
        BY <2>3 DEF DestroyWindow
      <3> QED
        BY <3>2, <3>3 DEF CommandFollows
    <2> QED
      BY <2>2, <2>3
  <1> QED
    BY <1>1, SessionInvariant, PTL

\* The registry expects the next native input, whatever the threads have done
\* since it was sent.
LEMMA NextInputExpected ==
  ASSUME RegistryInv, QueueInv
  PROVE  NativeInputsExpected
  <1> SUFFICES ASSUME facts # << >>
               PROVE  LET f == Head(facts)
                      IN  IF f.fact \in {"Built", "BuildFailed"}
                          THEN \E i \in WithBuild(f.build) :
                                 \/ entries[i].phase = "Opening"
                                 \/ entries[i].phase = "Closing" /\ entries[i].view = None
                          ELSE \E i \in WithView(f.view) :
                                 f.fact = "Released" => entries[i].phase = "Closing"
    BY DEF NativeInputsExpected
  <1>1. PICK f \in Facts : f = Head(facts) /\ f = facts[1] /\ 1 \in 1..Len(facts)
    <2>1. facts \in Seq(Facts)
      BY DEF QueueInv, QueueTypeOK
    <2>2. Head(facts) \in Facts /\ Head(facts) = facts[1] /\ 1 \in 1..Len(facts)
      BY <2>1
    <2> QED
      BY <2>2
  <1>2. BuildOK(f) /\ ReceiptOK(f)
    BY <1>1 DEF QueueInv, FactsOK
  <1>3. /\ DOMAIN entries = 1..last_id /\ ending \in BOOLEAN
        /\ \A i \in 1..last_id : EntryInv(entries[i], ending) /\ entries[i].incarnation = i
    BY InvFacts DEF RegistryInv
  <1>4. CASE f.fact \in {"Built", "BuildFailed"}
    <2>1. f.build \in 1..last_id /\ Stage(entries[f.build]) = "unbuilt"
      BY <1>2, <1>4 DEF BuildOK, IsBuild
    <2>2. f.build \in WithBuild(f.build)
      BY <1>3, <2>1 DEF WithBuild
    <2>3. entries[f.build].phase = "Opening"
            \/ (entries[f.build].phase = "Closing" /\ entries[f.build].view = None)
      BY <1>3, <2>1, StageMeans
    <2> QED
      BY <1>1, <1>4, <2>2, <2>3
  <1>5. CASE f.fact \notin {"Built", "BuildFailed"}
    <2>1. Mapped(f.view)
      <3>1. \A j \in 1..(1 - 1) : FALSE
        OBVIOUS
      <3>2. Mapped(facts[1].view) \/ \E j \in 1..(1 - 1) : Announces(facts[j], facts[1].view)
        BY <1>1, <1>5 DEF QueueInv, FactsAnnounced, IsBuild
      <3> QED
        BY <1>1, <3>1, <3>2
    <2>2. PICK i \in 1..last_id : entries[i].view = f.view
      BY <2>1 DEF Mapped
    <2>3. f.fact = "Released" => Stage(entries[i]) = "tearing"
      BY <1>2, <2>2 DEF ReceiptOK
    <2>4. f.fact = "Released" => entries[i].phase = "Closing"
      BY <1>3, <2>3, StageMeans
    <2>5. i \in WithView(f.view)
      BY <1>3, <2>2 DEF WithView
    <2> QED
      BY <1>1, <1>5, <2>4, <2>5
  <1> QED
    BY <1>4, <1>5

\* While both threads run, what the registry waits for is in flight.
LEMMA NothingIsStranded ==
  ASSUME RegistryInv, QueueInv
  PROVE  NothingStranded
  <1> SUFFICES ASSUME ui = "running", Draining
               PROVE  /\ \A i \in DOMAIN entries :
                           LET e == entries[i]
                               unbuilt == e.phase = "Opening" \/ (e.phase = "Closing" /\ e.view = None)
                           IN  /\ unbuilt <=> e.incarnation \in CommandBuilds \cup FactBuilds
                               /\ CommandBuilds \cap FactBuilds = {}
                               /\ e.phase = "Closing" /\ e.view # None =>
                                    e.view \in CommandViews("DestroyWindow") \cup FactViews("Released")
                      /\ \A v \in natives :
                           \/ v \in FactViews("Built")
                           \/ \E i \in WithView(v) : entries[i].phase # "Destroyed"
    BY DEF NothingStranded
  <1>1. /\ DOMAIN entries = 1..last_id /\ ending \in BOOLEAN
        /\ \A i \in 1..last_id : EntryInv(entries[i], ending) /\ entries[i].incarnation = i
        /\ DOMAIN facts = 1..Len(facts) /\ DOMAIN commands = 1..Len(commands)
    BY InvFacts, Queues DEF RegistryInv, QueueInv
  <1>2. \A b : b \in FactBuilds <=> Resulting(b)
    BY <1>1 DEF FactBuilds, Resulting, IsBuild
  <1>3. \A b \in CommandBuilds : b \in 1..last_id /\ Stage(entries[b]) = "unbuilt" /\ ~Resulting(b)
    BY <1>1 DEF CommandBuilds, QueueInv, CommandsOK, CreateOK
  <1>4. \A b : Queued(CreateWindow(b)) => b \in CommandBuilds
    BY <1>1 DEF Queued, CreateWindow, CommandBuilds
  <1>5. \A b : Resulting(b) => b \in 1..last_id /\ Stage(entries[b]) = "unbuilt"
    BY DEF Resulting, QueueInv, FactsOK, BuildOK
  <1>6. \A v : Queued(DestroyWindow(v)) => v \in CommandViews("DestroyWindow")
    BY <1>1 DEF Queued, DestroyWindow, CommandViews
  <1>7. \A v : (Receipted(v) => v \in FactViews("Released")) /\ (Announced(v) => v \in FactViews("Built"))
    BY <1>1 DEF Receipted, Announced, Announces, FactViews
  <1>8. CommandBuilds \cap FactBuilds = {}
    BY <1>2, <1>3
  <1>9. ASSUME NEW i \in 1..last_id
        PROVE  /\ Stage(entries[i]) = "unbuilt" <=> i \in CommandBuilds \cup FactBuilds
               /\ Stage(entries[i]) = "tearing" =>
                    entries[i].view \in CommandViews("DestroyWindow") \cup FactViews("Released")
    <2>1. /\ Stage(entries[i]) = "unbuilt" => Queued(CreateWindow(i)) \/ Resulting(i)
          /\ Stage(entries[i]) = "tearing" =>
               Queued(DestroyWindow(entries[i].view)) \/ Receipted(entries[i].view)
      BY DEF QueueInv, InFlight, Draining
    <2> QED
      BY <1>2, <1>3, <1>4, <1>5, <1>6, <1>7, <2>1
  <1>10. \A v \in natives :
           \/ v \in FactViews("Built")
           \/ \E i \in WithView(v) : entries[i].phase # "Destroyed"
    <2> SUFFICES ASSUME NEW v \in natives
                 PROVE  \/ v \in FactViews("Built")
                        \/ \E i \in WithView(v) : entries[i].phase # "Destroyed"
      OBVIOUS
    <2>1. Announced(v) \/ \E i \in 1..last_id : entries[i].view = v /\ Stage(entries[i]) # "gone"
      BY DEF QueueInv, NativesOK
    <2>2. ASSUME NEW i \in 1..last_id, entries[i].view = v, Stage(entries[i]) # "gone"
          PROVE  i \in WithView(v) /\ entries[i].phase # "Destroyed"
      BY <1>1, <2>2, StageMeans DEF WithView
    <2> QED
      BY <1>7, <2>1, <2>2
  <1>11. ASSUME NEW i \in DOMAIN entries
         PROVE  LET e == entries[i]
                    unbuilt == e.phase = "Opening" \/ (e.phase = "Closing" /\ e.view = None)
                IN  /\ unbuilt <=> e.incarnation \in CommandBuilds \cup FactBuilds
                    /\ e.phase = "Closing" /\ e.view # None =>
                         e.view \in CommandViews("DestroyWindow") \cup FactViews("Released")
    <2>1. i \in 1..last_id /\ entries[i].incarnation = i
      BY <1>1
    <2>2. /\ Stage(entries[i]) = "unbuilt" <=>
               entries[i].phase = "Opening" \/ (entries[i].phase = "Closing" /\ entries[i].view = None)
          /\ Stage(entries[i]) = "tearing" <=> entries[i].phase = "Closing" /\ entries[i].view # None
      BY <1>1, <2>1, StageMeans
    <2> QED
      BY <1>9, <2>1, <2>2
  <1> QED
    BY <1>8, <1>10, <1>11

\* Whichever thread runs next, what is in flight is expected by the registry, and
\* what the registry expects is in flight: a build result or a receipt never
\* meets a registry that does not wait for it, and no window is stranded.
THEOREM QueuesAgree == Spec => []QueuesMatchRegistry
  <1>1. RegistryInv /\ QueueInv => QueuesMatchRegistry
    BY NextInputExpected, NothingIsStranded DEF QueuesMatchRegistry
  <1> QED
    BY <1>1, SessionInvariant, PTL

=============================================================================
