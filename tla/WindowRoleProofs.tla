--------------------------- MODULE WindowRoleProofs ---------------------------
(***************************************************************************)
(* Proofs about what a role is told of its windows, for every number of    *)
(* generations, windows and views and every value of the limits.           *)
(*                                                                         *)
(* RoleInv relates the far end of the ordered writer, app, to the          *)
(* registry.  It speaks of an entry only through what the entry says to    *)
(* the current owner (Said) and the calls it retains for it (Parks), so    *)
(* two lemmas carry all operations on one window: WindowHeard, when the    *)
(* role is told of it, and Unheard, when nobody is.                        *)
(***************************************************************************)
EXTENDS WindowSessionProofs

-----------------------------------------------------------------------------
(* The invariant of the link.                                              *)

Seen == [status : {"unseen", "live", "gone"}, state : WindowStates \cup {None},
         asked : 0..CloseSeqLimit]

Apps == [seen : [1..IdLimit -> Seen], awaiting : SUBSET Correlations,
         told : BOOLEAN, clean : BOOLEAN]

LinkState ==
  /\ generation \in Owners \cup {0}
  /\ session \in {"running", "reserved", "accepted", "closed", "ended", "failed"}
  /\ reader_stop \in BOOLEAN /\ broken \in BOOLEAN
  /\ session # "running" => reader_stop

RoleTypeOK == app \in Apps /\ LinkState

(* What an entry tells the owner o of the current link.                    *)
Said(e, o) ==
  IF e.owner # o \/ ~e.owner_live \/ ~e.created THEN Unseen
  ELSE IF e.phase = "Destroyed" THEN Gone
  ELSE Live(e.state, e.close_seq)

(* The calls of o an entry retains.                                        *)
Parks(e, o) ==
  {c \in Correlations :
     LET call == [owner |-> o, correlation |-> c]
     IN  \/ e.phase = "Opening" /\ e.call = call
         \/ \E k \in 1..Len(e.destroy_calls) : e.destroy_calls[k] = call}

(* A live entry belongs to the subscribed link, and an entry that was shown *)
(* to a role has been announced to it.                                      *)
Served(e, o, s, end) ==
  /\ e.owner_live => e.owner = o /\ s = o
  /\ e.phase # "ClosePending" => e.close_seq = 0
  /\ e.phase = "Opening" => ~e.created
  /\ Shown(e) => e.created
  /\ e.phase = "Closing" /\ e.owner_live /\ ~end => e.created

LinkInv ==
  /\ subscribed \in {None, current}
  /\ broken => current # None
  /\ ~Connected => app = Blank
  /\ ending => reader_stop
  /\ \A i \in 1..last_id : Served(entries[i], current, subscribed, ending)

(* When LastWindowClosed is owed, what will trigger it.                    *)
ToldInv ==
  Connected =>
    /\ app.clean => \A i \in 1..last_id : entries[i].phase = "Closing" => entries[i].owner_live
    /\ subscribed = current => \A i \in 1..last_id : Shown(entries[i]) => entries[i].owner_live
    /\ app.clean /\ ~app.told /\ (\E i \in 1..IdLimit : app.seen[i] = Gone) =>
         \/ deferred_last_window
         \/ \E i \in 1..last_id : entries[i].phase \notin {"Opening", "Destroyed"}
    /\ app.told => \A i \in 1..last_id : entries[i].phase \in {"Opening", "Destroyed"}
    /\ deferred_last_window => \E i \in 1..IdLimit : app.seen[i] = Gone

RoleInv == RoleTypeOK /\ LinkInv /\ RoleAgreesWithRegistry /\ ToldInv

-----------------------------------------------------------------------------
(* What the operations make of one entry, as the role hears it.            *)

\* What a role may be told of a window.
LEMMA SaidTypes ==
  /\ Unseen \in Seen /\ Gone \in Seen
  /\ \A s \in WindowStates \cup {None}, n \in 0..CloseSeqLimit : Live(s, n) \in Seen
  /\ Unseen # Gone
  /\ \A s, n : /\ Live(s, n) # Unseen /\ Live(s, n) # Gone
               /\ Live(s, n).status = "live" /\ Live(s, n).state = s /\ Live(s, n).asked = n
               /\ \A m : [Live(s, n) EXCEPT !.asked = m] = Live(s, m)
               /\ \A t : [Live(s, n) EXCEPT !.state = t] = Live(t, n)
  /\ Unseen.status = "unseen" /\ Gone.status = "gone"
  BY ZeroInRange DEF Unseen, Gone, Live, Seen

\* An operation that changes neither who owns an entry, its phase, its calls nor
\* its state is not heard.
LEMMA SaidSame ==
  ASSUME NEW e, NEW f, f.owner = e.owner, f.owner_live = e.owner_live, f.created = e.created,
         f.phase = e.phase, f.state = e.state, f.close_seq = e.close_seq,
         f.call = e.call, f.destroy_calls = e.destroy_calls
  PROVE  /\ \A o : Said(f, o) = Said(e, o) /\ Parks(f, o) = Parks(e, o)
         /\ \A o, s, end : Served(e, o, s, end) => Served(f, o, s, end)
  BY DEF Said, Parks, Served, Shown

\* Touched is not heard.
LEMMA TouchedSaid ==
  ASSUME NEW e \in Entry
  PROVE  /\ \A o : Said(Touched(e), o) = Said(e, o) /\ Parks(Touched(e), o) = Parks(e, o)
         /\ \A o, s, end : Served(e, o, s, end) => Served(Touched(e), o, s, end)
         /\ Touched(e).phase = e.phase /\ Touched(e).owner_live = e.owner_live
  <1> DEFINE f == Touched(e)
  <1>1. /\ f.owner = e.owner /\ f.owner_live = e.owner_live /\ f.created = e.created
        /\ f.phase = e.phase /\ f.state = e.state /\ f.close_seq = e.close_seq
        /\ f.call = e.call /\ f.destroy_calls = e.destroy_calls
    BY DEF Touched, Entry
  <1> QED
    BY <1>1, SaidSame

\* Nor is a fact that is dropped.
LEMMA DroppedSaid ==
  ASSUME NEW e \in Entry, NEW n
  PROVE  LET f == [e EXCEPT !.dropped = n]
         IN  /\ \A o : Said(f, o) = Said(e, o) /\ Parks(f, o) = Parks(e, o)
             /\ \A o, s, end : Served(e, o, s, end) => Served(f, o, s, end)
             /\ f.phase = e.phase /\ f.owner_live = e.owner_live
  <1> DEFINE f == [e EXCEPT !.dropped = n]
  <1>1. /\ f.owner = e.owner /\ f.owner_live = e.owner_live /\ f.created = e.created
        /\ f.phase = e.phase /\ f.state = e.state /\ f.close_seq = e.close_seq
        /\ f.call = e.call /\ f.destroy_calls = e.destroy_calls
    BY DEF Entry
  <1> QED
    BY <1>1, SaidSame

\* An entry retains calls of its live owner only.
LEMMA ParksOfOwner ==
  ASSUME NEW end \in BOOLEAN, NEW e, EntryInv(e, end), NEW o
  PROVE  /\ ~e.owner_live => Parks(e, o) = {}
         /\ e.owner # o => Parks(e, o) = {}
         /\ e.phase # "Opening" /\ e.destroy_calls = << >> => Parks(e, o) = {}
         /\ Shown(e) \/ e.phase = "Destroyed" => Parks(e, o) = {}
         /\ e.phase = "Opening" /\ e.owner = o => Parks(e, o) = {e.call.correlation}
  <1>1. /\ e \in Entry /\ Len(e.destroy_calls) \in Nat
        /\ e.destroy_calls = << >> => Len(e.destroy_calls) = 0
        /\ \A k \in 1..Len(e.destroy_calls) : e.destroy_calls[k] \in PendingWindowCall
    BY EntryTypes DEF EntryInv
  <1>2. /\ e.phase = "Opening" =>
             /\ e.call \in PendingWindowCall /\ e.call.owner = e.owner
             /\ e.owner_live /\ e.destroy_calls = << >>
        /\ e.destroy_calls # << >> =>
             /\ e.owner_live /\ e.phase = "Closing"
             /\ \A k \in 1..Len(e.destroy_calls) : e.destroy_calls[k].owner = e.owner
    BY DEF EntryInv
  <1>3. \A c : LET call == [owner |-> o, correlation |-> c]
               IN  call.owner = o /\ call.correlation = c
    OBVIOUS
  <1>4. e.call \in PendingWindowCall =>
          /\ e.call = [owner |-> e.call.owner, correlation |-> e.call.correlation]
          /\ e.call.correlation \in Correlations
    BY DEF PendingWindowCall
  <1>5. \A c : c \in Parks(e, o) <=>
          /\ c \in Correlations
          /\ \/ e.phase = "Opening" /\ e.call = [owner |-> o, correlation |-> c]
             \/ \E k \in 1..Len(e.destroy_calls) : e.destroy_calls[k] = [owner |-> o, correlation |-> c]
    BY DEF Parks
  <1>6. e.destroy_calls = << >> => ~\E k \in 1..Len(e.destroy_calls) : TRUE
    BY <1>1
  <1>7. ~e.owner_live \/ e.owner # o \/ (e.phase # "Opening" /\ e.destroy_calls = << >>)
          => Parks(e, o) = {}
    <2> SUFFICES ASSUME NEW c, c \in Parks(e, o)
                 PROVE  e.owner_live /\ e.owner = o /\ ~(e.phase # "Opening" /\ e.destroy_calls = << >>)
      OBVIOUS
    <2>1. CASE e.phase = "Opening" /\ e.call = [owner |-> o, correlation |-> c]
      BY <2>1, <1>2, <1>3
    <2>2. ASSUME NEW k \in 1..Len(e.destroy_calls), e.destroy_calls[k] = [owner |-> o, correlation |-> c]
          PROVE  e.owner_live /\ e.owner = o /\ e.destroy_calls # << >>
      BY <2>2, <1>2, <1>3, <1>6
    <2> QED
      BY <1>5, <2>1, <2>2
  <1>8. Shown(e) \/ e.phase = "Destroyed" => e.phase # "Opening" /\ e.destroy_calls = << >>
    BY <1>2 DEF Shown
  <1>9. e.phase = "Opening" /\ e.owner = o => Parks(e, o) = {e.call.correlation}
    BY <1>2, <1>3, <1>4, <1>5, <1>6
  <1> QED
    BY <1>7, <1>8, <1>9


\* A window that opens answers its Create call and is announced.
LEMMA OpenedSaid ==
  ASSUME NEW end \in BOOLEAN, NEW e, EntryInv(e, end), NEW o, NEW s, Served(e, o, s, end),
         NEW v \in Views, NEW st \in WindowStates, e.phase = "Opening"
  PROVE  LET f == Opened(e, v, st)
         IN  /\ Served(f, o, s, end) /\ f.phase = "Open" /\ f.owner_live
             /\ e.owner_live /\ e.owner = o /\ s = o /\ e.call \in PendingWindowCall /\ e.call.owner = o
             /\ Said(e, o) = Unseen /\ Said(f, o) = Live(st, 0)
             /\ Parks(e, o) = {e.call.correlation} /\ Parks(f, o) = {}
  <1> DEFINE f == Opened(e, v, st)
  <1>1. /\ f.owner = e.owner /\ f.owner_live = e.owner_live /\ f.created = TRUE
        /\ f.phase = "Open" /\ f.state = st /\ f.close_seq = e.close_seq
        /\ f.destroy_calls = e.destroy_calls
    BY DEF Opened, EntryInv, Entry
  <1>2. /\ e.owner_live /\ e.owner = o /\ s = o /\ ~e.created /\ e.close_seq = 0
        /\ e.call \in PendingWindowCall /\ e.call.owner = o /\ e.destroy_calls = << >>
    BY DEF EntryInv, Served
  <1>3. EntryInv(f, end)
    BY OpenedOK
  <1>4. Parks(e, o) = {e.call.correlation} /\ Parks(f, o) = {}
    BY <1>1, <1>2, <1>3, ParksOfOwner DEF Shown
  <1>5. Said(e, o) = Unseen /\ Said(f, o) = Live(st, 0)
    BY <1>1, <1>2 DEF Said
  <1>6. Served(f, o, s, end)
    BY <1>1, <1>2 DEF Served, Shown
  <1> QED
    BY <1>1, <1>2, <1>4, <1>5, <1>6

\* A build that comes too late is not heard.
LEMMA LateSaid ==
  ASSUME NEW end \in BOOLEAN, NEW e, EntryInv(e, end), NEW o, NEW s, Served(e, o, s, end),
         NEW v \in Views, NEW st \in WindowStates, e.phase = "Closing", e.view = None
  PROVE  LET f == BuiltLate(e, v, st)
         IN  /\ Served(f, o, s, end) /\ f.phase = "Closing" /\ f.owner_live = e.owner_live
             /\ ~end => /\ ~e.owner_live /\ Said(f, o) = Said(e, o)
                        /\ Parks(f, o) = Parks(e, o)
  <1> DEFINE f == BuiltLate(e, v, st)
  <1>1. /\ f.owner = e.owner /\ f.owner_live = e.owner_live /\ f.created = e.created
        /\ f.phase = e.phase /\ f.close_seq = e.close_seq
        /\ f.destroy_calls = e.destroy_calls /\ f.call = e.call
    BY DEF BuiltLate, EntryInv, Entry
  <1>2. ~end => ~e.owner_live
    BY DEF EntryInv
  <1>3. Parks(f, o) = Parks(e, o)
    BY <1>1 DEF Parks
  <1>4. ~e.owner_live => Said(f, o) = Said(e, o)
    BY <1>1 DEF Said
  <1>5. Served(f, o, s, end)
    BY <1>1 DEF Served, Shown
  <1> QED
    BY <1>1, <1>2, <1>3, <1>4, <1>5

\* A failed build answers its Create call; of the window nothing was said.
LEMMA LostSaid ==
  ASSUME NEW end \in BOOLEAN, NEW e, EntryInv(e, end), NEW o, NEW s, Served(e, o, s, end),
         e.phase = "Opening" \/ (e.phase = "Closing" /\ e.view = None)
  PROVE  LET f == BuildLost(e)
         IN  /\ Served(f, o, s, end) /\ f.phase = "Destroyed" /\ f.owner_live = e.owner_live
             /\ ~end => Said(f, o) = Said(e, o)
             /\ Parks(f, o) = {}
             /\ e.phase = "Opening" =>
                  /\ e.owner_live /\ e.owner = o /\ s = o
                  /\ e.call \in PendingWindowCall /\ Parks(e, o) = {e.call.correlation}
             /\ e.phase = "Closing" /\ ~end => ~e.owner_live /\ Parks(e, o) = {}
  <1> DEFINE f == BuildLost(e)
  <1>1. /\ f.owner = e.owner /\ f.owner_live = e.owner_live /\ f.created = e.created
        /\ f.phase = "Destroyed" /\ f.close_seq = e.close_seq
    BY DEF BuildLost, EntryInv, Entry
  <1>2. /\ e.phase = "Opening" => /\ e.owner_live /\ e.owner = o /\ s = o /\ ~e.created
                                  /\ e.call \in PendingWindowCall
        /\ e.phase = "Closing" /\ ~end => ~e.owner_live
        /\ e.close_seq = 0
    BY DEF EntryInv, Served
  <1>3. EntryInv(f, end)
    BY BuildLostOK
  <1>4. /\ Parks(f, o) = {}
        /\ e.phase = "Opening" => Parks(e, o) = {e.call.correlation}
        /\ ~e.owner_live => Parks(e, o) = {}
    BY <1>1, <1>2, <1>3, ParksOfOwner
  <1>5. ~end => Said(f, o) = Said(e, o)
    BY <1>1, <1>2 DEF Said
  <1>6. Served(f, o, s, end)
    BY <1>1, <1>2 DEF Served, Shown
  <1> QED
    BY <1>1, <1>2, <1>4, <1>5, <1>6

\* What a shown window says, and that it retains nothing.
LEMMA ShownSaid ==
  ASSUME NEW end \in BOOLEAN, NEW e, EntryInv(e, end), NEW o, NEW s, Served(e, o, s, end), Shown(e)
  PROVE  /\ Parks(e, o) = {} /\ e.created /\ e.phase # "Destroyed"
         /\ e.owner_live => Said(e, o) = Live(e.state, e.close_seq) /\ e.owner = o /\ s = o
         /\ ~e.owner_live => Said(e, o) = Unseen
         /\ e.phase = "Open" => e.close_seq = 0
         /\ e.state \in WindowStates /\ ~end /\ e.close_seq \in 0..CloseSeqLimit
  <1>1. /\ Shown(e) => e.created /\ e.phase # "Destroyed" /\ e.state \in WindowStates /\ ~end
        /\ e.owner_live => e.owner = o /\ s = o
        /\ e.phase = "Open" => e.close_seq = 0
        /\ e.close_seq \in 0..CloseSeqLimit
    BY DEF Served, Shown, EntryInv, Entry
  <1> QED
    BY <1>1, ParksOfOwner DEF Said

\* A close request names its number.
LEMMA AskedSaid ==
  ASSUME NEW end \in BOOLEAN, NEW e, EntryInv(e, end), NEW o, NEW s, Served(e, o, s, end),
         e.phase = "Open", CloseSeqLeft(e)
  PROVE  LET f == CloseAsked(e)
         IN  /\ Served(f, o, s, end) /\ f.phase = "ClosePending" /\ f.owner_live = e.owner_live
             /\ f.close_seq \in 1..CloseSeqLimit /\ f.state = e.state
             /\ Parks(f, o) = {} /\ Parks(e, o) = {}
             /\ e.owner_live => /\ Said(e, o) = Live(e.state, 0)
                                /\ Said(f, o) = Live(e.state, f.close_seq)
             /\ ~e.owner_live => Said(f, o) = Said(e, o)
  <1> DEFINE f == CloseAsked(e)
  <1>1. /\ f.owner = e.owner /\ f.owner_live = e.owner_live /\ f.created = e.created
        /\ f.phase = "ClosePending" /\ f.close_seq = e.last_close_seq + 1
        /\ f.state = e.state
    BY DEF CloseAsked, EntryInv, Entry
  <1>2. EntryInv(f, end)
    BY CloseAskedOK
  <1>3. f.close_seq \in 1..CloseSeqLimit
    BY <1>1, LimitsAssumption DEF CloseSeqLeft, EntryInv, Entry
  <1>4. Served(f, o, s, end) /\ Shown(f) /\ Shown(e)
    BY <1>1 DEF Served, Shown
  <1> QED
    BY <1>1, <1>2, <1>3, <1>4, ShownSaid

\* A veto settles the request.
LEMMA ReopenedSaid ==
  ASSUME NEW end \in BOOLEAN, NEW e, EntryInv(e, end), NEW o, NEW s, Served(e, o, s, end),
         e.phase = "ClosePending", e.owner_live
  PROVE  LET f == Reopened(e)
         IN  /\ Served(f, o, s, end) /\ f.phase = "Open" /\ f.owner_live
             /\ Parks(f, o) = {} /\ Parks(e, o) = {}
             /\ Said(f, o) = Live(e.state, 0) /\ Said(e, o) = Live(e.state, e.close_seq)
  <1> DEFINE f == Reopened(e)
  <1>1. /\ f.owner = e.owner /\ f.owner_live = e.owner_live /\ f.created = e.created
        /\ f.phase = "Open" /\ f.close_seq = 0 /\ f.state = e.state
    BY DEF Reopened, EntryInv, Entry
  <1>2. EntryInv(f, end)
    BY ReopenedOK
  <1>3. Served(f, o, s, end) /\ Shown(f) /\ Shown(e)
    BY <1>1 DEF Served, Shown
  <1> QED
    BY <1>1, <1>2, <1>3, ShownSaid

\* A teardown of an announced window settles the request; the window is still
\* there for the role.
LEMMA TornSaid ==
  ASSUME NEW end \in BOOLEAN, NEW e, EntryInv(e, end), NEW o, NEW s, Served(e, o, s, end),
         Shown(e), e.owner_live, ~e.adoptable
  PROVE  LET f == Torn(e)
         IN  /\ Served(f, o, s, end) /\ f.phase = "Closing" /\ f.owner_live
             /\ Parks(f, o) = {} /\ Parks(e, o) = {}
             /\ Said(f, o) = Live(e.state, 0) /\ Said(e, o) = Live(e.state, e.close_seq)
  <1> DEFINE f == Torn(e)
  <1>1. /\ f.owner = e.owner /\ f.owner_live = e.owner_live /\ f.created = e.created
        /\ f.phase = "Closing" /\ f.close_seq = 0 /\ f.state = e.state
        /\ f.destroy_calls = e.destroy_calls
    BY DEF Torn, EntryInv, Entry
  <1>2. EntryInv(f, end) /\ e.destroy_calls = << >>
    BY TornOK DEF EntryInv
  <1>3. Parks(e, o) = {} /\ e.created /\ e.owner = o /\ s = o /\ Said(e, o) = Live(e.state, e.close_seq)
    BY ShownSaid
  <1>4. Served(f, o, s, end)
    BY <1>1, <1>3 DEF Served, Shown
  <1>5. Parks(f, o) = {}
    BY <1>1, <1>2, ParksOfOwner
  <1>6. Said(f, o) = Live(e.state, 0)
    BY <1>1, <1>3 DEF Said
  <1> QED
    BY <1>1, <1>3, <1>4, <1>5, <1>6


(* An admitted Destroy of the owner o makes f of the entry e.              *)
Retains(e, o, s, c, f) ==
  LET d == DestroyWaiting(e, [owner |-> o, correlation |-> c])
  IN  /\ EntryInv(e, FALSE) /\ Served(e, o, s, FALSE) /\ c \in Correlations
      /\ e.phase # "Opening" /\ e.phase # "Destroyed" /\ e.owner_live
      /\ f = IF Shown(d) THEN Torn(d) ELSE d

\* An admitted Destroy retains its call and settles a pending close request.
LEMMA DestroySaid ==
  ASSUME NEW e, NEW o, NEW s, NEW c, NEW f, Retains(e, o, s, c, f)
  PROVE  /\ Served(f, o, s, FALSE) /\ f.phase = "Closing" /\ f.owner_live
         /\ Parks(f, o) = Parks(e, o) \cup {c}
         /\ Said(f, o) = Live(e.state, 0) /\ Said(e, o) = Live(e.state, e.close_seq)
         /\ e.owner = o /\ s = o
  <1> DEFINE call == [owner |-> o, correlation |-> c]
             d == DestroyWaiting(e, call)
  <1>0. /\ EntryInv(e, FALSE) /\ Served(e, o, s, FALSE) /\ c \in Correlations
        /\ e.phase # "Opening" /\ e.phase # "Destroyed" /\ e.owner_live
        /\ (Shown(d) /\ f = Torn(d)) \/ (~Shown(d) /\ f = d)
    BY DEF Retains
  <1> USE <1>0
  <1>1. e \in Entry /\ e.phase \in {"Open", "ClosePending", "Closing"}
    BY DEF EntryInv, Entry, Phases
  <1>2. /\ d.owner = e.owner /\ d.owner_live = e.owner_live /\ d.created = e.created
        /\ d.phase = e.phase /\ d.state = e.state /\ d.close_seq = e.close_seq
        /\ d.destroy_calls = Append(e.destroy_calls, call)
    BY <1>1 DEF DestroyWaiting, Entry
  <1>3. LET t == Torn(d)
        IN  /\ t.owner = d.owner /\ t.owner_live = d.owner_live /\ t.created = d.created
            /\ t.phase = "Closing" /\ t.state = d.state /\ t.close_seq = 0
            /\ t.destroy_calls = d.destroy_calls
    BY <1>1 DEF DestroyWaiting, Torn, Entry
  <1>4. /\ e.created /\ e.owner = o /\ s = o
        /\ e.phase = "Closing" => e.close_seq = 0
    BY <1>1 DEF Served, Shown
  <1>5. /\ f.owner = e.owner /\ f.owner_live /\ f.created
        /\ f.phase = "Closing" /\ f.state = e.state /\ f.close_seq = 0
        /\ f.destroy_calls = Append(e.destroy_calls, call)
    <2>1. CASE Shown(d)
      <3>1. f = Torn(d)
        BY <2>1
      <3> QED
        BY <3>1, <1>2, <1>3, <1>4
    <2>2. CASE ~Shown(d)
      <3>1. f = d /\ d.phase = "Closing"
        BY <2>2, <1>1, <1>2 DEF Shown
      <3> QED
        BY <3>1, <1>2, <1>4
    <2> QED
      BY <2>1, <2>2
  <1>6. Said(f, o) = Live(e.state, 0) /\ Said(e, o) = Live(e.state, e.close_seq)
    BY <1>4, <1>5 DEF Said
  <1>7. Served(f, o, s, FALSE)
    BY <1>4, <1>5 DEF Served, Shown
  <1>8. ASSUME NEW b \in Correlations
        PROVE  b \in Parks(f, o) <=> b \in Parks(e, o) \/ b = c
    <2> DEFINE q == e.destroy_calls
    <2>1. q \in Seq(PendingWindowCall) /\ Len(q) \in Nat
      BY <1>1, EntryTypes
    <2>2. /\ Len(Append(q, call)) = Len(q) + 1
          /\ \A k \in 1..Len(q) : Append(q, call)[k] = q[k]
          /\ Append(q, call)[Len(q) + 1] = call
      BY <2>1
    <2>3. call = [owner |-> o, correlation |-> b] <=> b = c
      OBVIOUS
    <2>4. b \in Parks(f, o) <=>
            \E k \in 1..(Len(q) + 1) : Append(q, call)[k] = [owner |-> o, correlation |-> b]
      BY ONLY <1>5, <2>2, b \in Correlations DEF Parks
    <2>5. b \in Parks(e, o) <=> \E k \in 1..Len(q) : q[k] = [owner |-> o, correlation |-> b]
      BY DEF Parks
    <2>6. \A k : k \in 1..(Len(q) + 1) <=> k \in 1..Len(q) \/ k = Len(q) + 1
      BY <2>1
    <2> HIDE DEF call, q
    <2> QED
      BY <2>2, <2>3, <2>4, <2>5, <2>6
  <1>9. Parks(f, o) = Parks(e, o) \cup {c}
    BY <1>8 DEF Parks
  <1> QED
    BY <1>4, <1>5, <1>6, <1>7, <1>9

\* A fact about a shown window.
LEMMA UpdatedSaid ==
  ASSUME NEW end \in BOOLEAN, NEW e, EntryInv(e, end), NEW o, NEW s, Served(e, o, s, end),
         Shown(e), NEW a \in Attrs, NEW x \in Values
  PROVE  LET f == [e EXCEPT !.state = [@ EXCEPT ![a] = x]]
         IN  /\ Served(f, o, s, end) /\ f.phase = e.phase /\ f.owner_live = e.owner_live
             /\ Parks(f, o) = {} /\ Parks(e, o) = {}
             /\ f.state = [e.state EXCEPT ![a] = x] /\ f.state \in WindowStates
             /\ e.state \in WindowStates
             /\ e.state[a] = x => f.state = e.state
             /\ e.state[a] # x => f.state # e.state
             /\ e.owner_live => /\ Said(e, o) = Live(e.state, e.close_seq)
                                /\ Said(f, o) = Live(f.state, e.close_seq)
             /\ ~e.owner_live => Said(f, o) = Said(e, o)
  <1> DEFINE f == [e EXCEPT !.state = [@ EXCEPT ![a] = x]]
  <1>1. /\ f.owner = e.owner /\ f.owner_live = e.owner_live /\ f.created = e.created
        /\ f.phase = e.phase /\ f.close_seq = e.close_seq
        /\ f.state = [e.state EXCEPT ![a] = x]
    BY DEF EntryInv, Entry
  <1>2. EntryInv(f, end)
    BY FactUpdatedOK
  <1>3. Served(f, o, s, end) /\ Shown(f)
    BY <1>1 DEF Served, Shown
  <1>4. f.state \in WindowStates /\ e.state \in WindowStates
    BY <1>2, <1>3, ShownSaid
  <1>5. /\ e.state[a] = x => f.state = e.state
        /\ e.state[a] # x => f.state # e.state
    BY <1>1, <1>4 DEF WindowStates
  <1>6. /\ Parks(f, o) = {} /\ Parks(e, o) = {}
        /\ e.owner_live => Said(e, o) = Live(e.state, e.close_seq)
        /\ f.owner_live => Said(f, o) = Live(f.state, f.close_seq)
        /\ ~e.owner_live => Said(e, o) = Unseen
        /\ ~f.owner_live => Said(f, o) = Unseen
    BY <1>2, <1>3, ShownSaid
  <1> QED
    BY <1>1, <1>3, <1>4, <1>5, <1>6

\* A receipt ends the window for the role that was told of it, and answers every
\* Destroy call the window retained.
LEMMA ReleasedSaid ==
  ASSUME NEW end \in BOOLEAN, NEW e, EntryInv(e, end), NEW o, NEW s, Served(e, o, s, end),
         e.phase = "Closing"
  PROVE  LET f == Released(e)
         IN  /\ Served(f, o, s, end) /\ f.phase = "Destroyed" /\ f.owner_live = e.owner_live
             /\ Parks(f, o) = {}
             /\ e.owner_live /\ e.created => /\ Said(f, o) = Gone /\ Said(e, o) = Live(e.state, 0)
                                             /\ e.owner = o /\ s = o
             /\ ~(e.owner_live /\ e.created) => Said(f, o) = Said(e, o)
             /\ ~e.owner_live => Parks(e, o) = {}
             /\ e.owner_live /\ ~end => e.created
             /\ e.owner_live => Parks(e, o) = {c \in Correlations :
                  \E k \in 1..Len(e.destroy_calls) : e.destroy_calls[k].correlation = c}
  <1> DEFINE f == Released(e)
  <1>1. /\ f.owner = e.owner /\ f.owner_live = e.owner_live /\ f.created = e.created
        /\ f.phase = "Destroyed" /\ f.close_seq = e.close_seq
    BY DEF Released, EntryInv, Entry
  <1>2. EntryInv(f, end)
    BY ReleasedOK
  <1>3. Parks(f, o) = {} /\ (~e.owner_live => Parks(e, o) = {})
    BY <1>1, <1>2, ParksOfOwner
  <1>4. /\ e.owner_live => e.owner = o /\ s = o
        /\ e.owner_live /\ ~end => e.created
        /\ e.close_seq = 0
    BY DEF Served
  <1>5. /\ e.owner_live /\ e.created => Said(f, o) = Gone /\ Said(e, o) = Live(e.state, 0)
        /\ ~(e.owner_live /\ e.created) => Said(f, o) = Said(e, o)
    BY <1>1, <1>4 DEF Said
  <1>6. Served(f, o, s, end)
    BY <1>1, <1>4 DEF Served, Shown
  <1>7. ASSUME e.owner_live, NEW c \in Correlations
        PROVE  c \in Parks(e, o) <=>
                 \E k \in 1..Len(e.destroy_calls) : e.destroy_calls[k].correlation = c
    <2>1. \A k \in 1..Len(e.destroy_calls) :
            /\ e.destroy_calls[k] \in PendingWindowCall
            /\ e.destroy_calls[k].owner = o
      <3>1. e.destroy_calls \in Seq(PendingWindowCall)
        BY DEF EntryInv, Entry
      <3>2. ASSUME NEW k \in 1..Len(e.destroy_calls)
            PROVE  e.destroy_calls[k] \in PendingWindowCall /\ e.destroy_calls[k].owner = o
        <4>1. e.destroy_calls # << >>
          BY <3>2
        <4>2. e.destroy_calls[k].owner = e.owner
          BY <3>2, <4>1 DEF EntryInv
        <4> QED
          BY <3>1, <4>2, <1>4, <1>7
      <3> QED
        BY <3>2
    <2>2. \A p \in PendingWindowCall : p.owner = o =>
            (p = [owner |-> o, correlation |-> c] <=> p.correlation = c)
      BY DEF PendingWindowCall
    <2>3. c \in Parks(e, o) <=>
            \E k \in 1..Len(e.destroy_calls) : e.destroy_calls[k] = [owner |-> o, correlation |-> c]
      BY DEF Parks
    <2> QED
      BY <2>1, <2>2, <2>3
  <1>8. e.owner_live => Parks(e, o) = {c \in Correlations :
          \E k \in 1..Len(e.destroy_calls) : e.destroy_calls[k].correlation = c}
    BY <1>7 DEF Parks
  <1> QED
    BY <1>1, <1>3, <1>4, <1>5, <1>6, <1>8


\* A window whose owner is lost is served to nobody.
LEMMA OrphanedServed ==
  ASSUME NEW end \in BOOLEAN, NEW e, EntryInv(e, end), NEW o, NEW s, Served(e, o, s, end)
  PROVE  LET f == Orphaned(e)
         IN  ~f.owner_live /\ \A p, q : Served(f, p, q, end)
  <1> DEFINE lost == [e EXCEPT !.owner_live = FALSE, !.adoptable = FALSE, !.destroy_calls = << >>]
             f == Orphaned(e)
  <1>1. /\ lost.owner_live = FALSE /\ lost.created = e.created
        /\ lost.phase = e.phase /\ lost.close_seq = e.close_seq
        /\ Torn(lost).owner_live = FALSE /\ Torn(lost).phase = "Closing" /\ Torn(lost).close_seq = 0
        /\ Reopened(lost).owner_live = FALSE /\ Reopened(lost).phase = "Open"
        /\ Reopened(lost).close_seq = 0 /\ Reopened(lost).created = e.created
    BY DEF EntryInv, Entry, Torn, Reopened
  <1>2. /\ e.phase # "ClosePending" => e.close_seq = 0
        /\ e.phase = "Opening" => ~e.created
        /\ Shown(e) => e.created
    BY DEF Served
  <1>3. f = IF e.phase = "Opening" THEN Torn(lost)
            ELSE IF e.phase = "ClosePending" THEN Reopened(lost) ELSE lost
    BY DEF Orphaned
  <1> HIDE DEF f, lost
  <1>4. CASE e.phase = "Opening"
    <2>1. f = Torn(lost)
      BY <1>3, <1>4
    <2> QED
      BY <2>1, <1>1 DEF Served, Shown, f
  <1>5. CASE e.phase = "ClosePending"
    <2>1. f = Reopened(lost)
      BY <1>3, <1>5
    <2> QED
      BY <2>1, <1>1, <1>2, <1>5 DEF Served, Shown, f
  <1>6. CASE e.phase \notin {"Opening", "ClosePending"}
    <2>1. f = lost
      BY <1>3, <1>6
    <2> QED
      BY <2>1, <1>1, <1>2, <1>6 DEF Served, Shown, f
  <1> QED
    BY <1>4, <1>5, <1>6

\* A surviving window is announced to the successor as it is.
LEMMA InheritedSaid ==
  ASSUME NEW end \in BOOLEAN, NEW e, EntryInv(e, end), NEW o \in Owners, NEW p, NEW s,
         Served(e, p, s, end), Shown(e), ~e.owner_live
  PROVE  LET f == Inherited(e, o)
         IN  /\ Served(f, o, o, end) /\ f.phase = e.phase /\ f.owner_live /\ f.owner = o
             /\ Said(f, o) = Live(f.state, f.close_seq) /\ Parks(f, o) = {}
             /\ f.state = e.state /\ f.close_seq = e.close_seq /\ f.state \in WindowStates
  <1> DEFINE f == Inherited(e, o)
  <1>1. /\ f.owner = o /\ f.owner_live = TRUE /\ f.created = e.created
        /\ f.phase = e.phase /\ f.close_seq = e.close_seq /\ f.state = e.state
    BY DEF Inherited, EntryInv, Entry
  <1>2. EntryInv(f, end)
    BY InheritedOK
  <1>3. Served(f, o, o, end) /\ Shown(f)
    BY <1>1 DEF Served, Shown
  <1> QED
    BY <1>1, <1>2, <1>3, ShownSaid

\* Serving ends with the session.
LEMMA EndedServed ==
  ASSUME NEW end \in BOOLEAN, NEW e, EntryInv(e, end), NEW o, NEW s, Served(e, o, s, end)
  PROVE  Served(Ended(e), o, s, TRUE)
  <1> DEFINE t == Touched(e)
  <1>1. /\ t.owner = e.owner /\ t.owner_live = e.owner_live /\ t.created = e.created
        /\ t.phase = e.phase /\ t.close_seq = e.close_seq
        /\ Torn(t).owner = e.owner /\ Torn(t).owner_live = e.owner_live
        /\ Torn(t).phase = "Closing" /\ Torn(t).close_seq = 0
    BY DEF EntryInv, Entry, Touched, Torn
  <1>2. Ended(e) = IF e.phase \in {"Opening", "Open", "ClosePending"} THEN Torn(t) ELSE t
    BY DEF Ended
  <1> HIDE DEF t
  <1>3. CASE e.phase \in {"Opening", "Open", "ClosePending"}
    BY <1>1, <1>2, <1>3 DEF Served, Shown
  <1>4. CASE e.phase \notin {"Opening", "Open", "ClosePending"}
    BY <1>1, <1>2, <1>4 DEF Served, Shown
  <1> QED
    BY <1>3, <1>4

\* A new entry retains its Create call and says nothing.
LEMMA NewSaid ==
  ASSUME NEW o \in Owners, NEW c \in Correlations, NEW n \in 1..IncarnationLimit, NEW end
  PROVE  LET f == NewEntry(o, c, n)
         IN  /\ Served(f, o, o, end) /\ f.phase = "Opening" /\ f.owner_live
             /\ Said(f, o) = Unseen /\ Parks(f, o) = {c}
  <1> DEFINE f == NewEntry(o, c, n)
  <1>1. /\ f.owner = o /\ f.owner_live = TRUE /\ f.created = FALSE /\ f.phase = "Opening"
        /\ f.close_seq = 0 /\ f.call = [owner |-> o, correlation |-> c] /\ f.call.correlation = c
    BY DEF NewEntry
  <1>2. EntryInv(f, FALSE)
    BY NewEntryOK
  <1>3. Parks(f, o) = {c}
    BY <1>1, <1>2, ParksOfOwner
  <1> QED
    BY <1>1, <1>3 DEF Served, Shown, Said


-----------------------------------------------------------------------------
(* Steps, as the role hears them.                                          *)

Streams == WS!Next \/ UNCHANGED WS!vars

(* What holds of every entry after a step.                                 *)
AllServed ==
  \A i \in 1..last_id' : Served(entries'[i], current', subscribed', ending')

\* What the invariant says while the link is up.
LEMMA Agreement ==
  ASSUME RegistryInv, QueueInv, RoleInv, Connected
  PROVE  /\ current \in Owners /\ current # None /\ ~reader_stop /\ ~broken /\ ~ending
         /\ app.awaiting = {c \in Correlations : \E i \in 1..last_id : c \in Parks(entries[i], current)}
         /\ subscribed = current => \A i \in 1..last_id : app.seen[i] = Said(entries[i], current)
         /\ subscribed = current => \A i \in 1..IdLimit : i \notin 1..last_id => app.seen[i] = Unseen
         /\ subscribed # current => app = [Blank EXCEPT !.clean = app.clean]
         /\ \A i \in 1..last_id : i \in 1..IdLimit
  <1>1. DOMAIN entries = 1..last_id /\ last_id \in 0..IdLimit /\ last_id \in Nat /\ IdLimit \in Nat
    BY InvFacts, LimitsAssumption
  <1>2. current \in Owners /\ current # None /\ ~reader_stop /\ ~broken /\ ~ending
    BY DEF Connected, QueueInv, QueueTypeOK, RoleInv, LinkInv
  <1>3. \A i \in 1..last_id : i \in 1..IdLimit
    BY <1>1
  <1>4. \A i : Described(i) = IF i \notin 1..last_id THEN Unseen ELSE Said(entries[i], current)
    BY <1>1, <1>2 DEF Described, Said
  <1>5. Owed(current) = {c \in Correlations : \E i \in 1..last_id : c \in Parks(entries[i], current)}
    BY <1>1 DEF Owed, has_pending_call, Parks
  <1>6. /\ app.awaiting = Owed(current)
        /\ subscribed = current => \A i \in 1..IdLimit : app.seen[i] = Described(i)
        /\ subscribed # current => app = [Blank EXCEPT !.clean = app.clean]
    BY DEF RoleInv, RoleAgreesWithRegistry
  <1> QED
    BY <1>2, <1>3, <1>4, <1>5, <1>6

\* What the agreement takes in the next state.
LEMMA Agrees ==
  ASSUME DOMAIN entries' = 1..last_id', current' # None,
         app'.awaiting = {c \in Correlations : \E i \in 1..last_id' : c \in Parks(entries'[i], current')},
         subscribed' = current' => \A i \in 1..IdLimit :
           app'.seen[i] = IF i \in 1..last_id' THEN Said(entries'[i], current') ELSE Unseen,
         subscribed' # current' => app' = [Blank EXCEPT !.clean = app'.clean]
  PROVE  RoleAgreesWithRegistry'
  <1>1. \A i : Described(i)' = IF i \notin 1..last_id' THEN Unseen ELSE Said(entries'[i], current')
    BY DEF Described, Said
  <1>2. (Owed(current))' = {c \in Correlations : \E i \in 1..last_id' : c \in Parks(entries'[i], current')}
    BY DEF Owed, has_pending_call, Parks
  <1> QED
    BY <1>1, <1>2 DEF RoleAgreesWithRegistry

\* Two windows never retain the same call.
LEMMA ParksDisjoint ==
  ASSUME RegistryInv, CorrelationsParkedOnce, NEW o, NEW i \in 1..last_id, NEW j \in 1..last_id, i # j,
         NEW c, c \in Parks(entries[i], o)
  PROVE  c \notin Parks(entries[j], o)
  <1> DEFINE call == [owner |-> o, correlation |-> c]
  <1>1. DOMAIN entries = 1..last_id
    BY InvFacts
  <1>2. \A n \in 1..last_id : c \in Parks(entries[n], o) =>
          \/ entries[n].phase = "Opening" /\ entries[n].call = call
          \/ \E k \in 1..Len(entries[n].destroy_calls) : entries[n].destroy_calls[k] = call
    BY DEF Parks
  <1>3. /\ entries[i].phase = "Opening" /\ entries[j].phase = "Opening"
             => entries[i].call # entries[j].call
        /\ \A k \in 1..Len(entries[i].destroy_calls) :
             /\ entries[j].phase = "Opening" => entries[i].destroy_calls[k] # entries[j].call
             /\ \A l \in 1..Len(entries[j].destroy_calls) :
                  entries[i].destroy_calls[k] # entries[j].destroy_calls[l]
        /\ \A k \in 1..Len(entries[j].destroy_calls) :
             entries[i].phase = "Opening" => entries[j].destroy_calls[k] # entries[i].call
    BY <1>1 DEF CorrelationsParkedOnce
  <1> HIDE DEF call
  <1> QED
    BY <1>2, <1>3

\* A step that the role does not hear of keeps the agreement.
LEMMA RoleUntouched ==
  ASSUME RegistryInv, QueueInv, RoleInv, Connected, UNCHANGED <<current, subscribed, app, last_id>>,
         DOMAIN entries' = 1..last_id,
         \A i \in 1..last_id : /\ Said(entries'[i], current) = Said(entries[i], current)
                               /\ Parks(entries'[i], current) = Parks(entries[i], current)
  PROVE  RoleAgreesWithRegistry'
  BY Agreement, Agrees

\* A step that tells the role of one window keeps the agreement.
LEMMA RoleHears ==
  ASSUME RegistryInv, QueueInv, CorrelationsParkedOnce, RoleInv, Connected, subscribed = current,
         UNCHANGED <<current, subscribed, last_id>>, DOMAIN entries' = 1..last_id,
         NEW i \in 1..last_id, \A j \in 1..last_id : j # i => entries'[j] = entries[j],
         app'.seen = [app.seen EXCEPT ![i] = Said(entries'[i], current)],
         app'.awaiting = (app.awaiting \ Parks(entries[i], current)) \cup Parks(entries'[i], current)
  PROVE  RoleAgreesWithRegistry'
  <1>1. /\ current # None /\ i \in 1..IdLimit
        /\ app.awaiting = {c \in Correlations : \E j \in 1..last_id : c \in Parks(entries[j], current)}
        /\ \A j \in 1..last_id : app.seen[j] = Said(entries[j], current)
        /\ \A j \in 1..IdLimit : j \notin 1..last_id => app.seen[j] = Unseen
    BY Agreement
  <1>2. DOMAIN app.seen = 1..IdLimit
    BY DEF RoleInv, RoleTypeOK, Apps
  <1>3. \A j \in 1..IdLimit :
          app'.seen[j] = IF j \in 1..last_id THEN Said(entries'[j], current) ELSE Unseen
    BY <1>1, <1>2
  <1>4. ASSUME NEW c
        PROVE  c \in app'.awaiting <=>
                 c \in Correlations /\ \E j \in 1..last_id : c \in Parks(entries'[j], current)
    <2>1. c \in Parks(entries[i], current) \/ c \in Parks(entries'[i], current) => c \in Correlations
      BY DEF Parks
    <2>2. \A j \in 1..last_id : j # i /\ c \in Parks(entries[j], current) => c \notin Parks(entries[i], current)
      BY ParksDisjoint
    <2> QED
      BY <1>1, <2>1, <2>2
  <1>5. app'.awaiting = {c \in Correlations : \E j \in 1..last_id : c \in Parks(entries'[j], current)}
    BY <1>4
  <1> QED
    BY <1>1, <1>3, <1>5, Agrees


\* A blank link is a state of the stream.
LEMMA BlankTypes ==
  /\ Blank \in Apps /\ Blank.seen = [i \in 1..IdLimit |-> Unseen] /\ Blank.awaiting = {}
  /\ Blank.told = FALSE /\ Blank.clean = FALSE
  BY SaidTypes DEF Blank, Apps

\* The stream speaks of windows as the session does.
LEMMA StreamTerms ==
  /\ WS!Unseen = Unseen /\ WS!Gone = Gone /\ \A s, n : WS!Live(s, n) = Live(s, n)
  /\ WS!Blank = Blank.seen
  BY BlankTypes DEF WS!Unseen, WS!Gone, WS!Live, WS!Blank, Unseen, Gone, Live

\* A step after which the link carries nothing.
LEMMA Cut ==
  ASSUME RoleInv, app' = Blank, ~Connected', AllServed, LinkState',
         subscribed' \in {None, current'}, broken' => current' # None, ending' => reader_stop'
  PROVE  RoleInv' /\ Streams
  <1>1. RoleTypeOK'
    BY BlankTypes DEF RoleTypeOK
  <1>2. LinkInv'
    BY DEF LinkInv, AllServed
  <1>3. RoleAgreesWithRegistry' /\ ToldInv'
    BY DEF RoleAgreesWithRegistry, ToldInv
  <1>4. CASE Connected
    <2>1. WS!Disconnect
      BY <1>4, BlankTypes, StreamTerms DEF WS!Disconnect, Connected
    <2> QED
      BY <1>1, <1>2, <1>3, <2>1 DEF RoleInv, Streams, WS!Next
  <1>5. CASE ~Connected
    <2>1. app = Blank
      BY <1>5 DEF RoleInv, LinkInv
    <2>2. UNCHANGED WS!vars
      BY <1>5, <2>1 DEF WS!vars, Connected
    <2> QED
      BY <1>1, <1>2, <1>3, <2>2 DEF RoleInv, Streams
  <1> QED
    BY <1>4, <1>5

\* One entry replaced: who is served.
LEMMA OneServed ==
  ASSUME RegistryInv, RoleInv, NEW i \in 1..last_id, NEW f, SetEntry(i, f),
         UNCHANGED <<current, subscribed>>, Served(f, current, subscribed, ending)
  PROVE  /\ AllServed /\ entries'[i] = f /\ DOMAIN entries' = 1..last_id
         /\ UNCHANGED <<last_id, ending>>
         /\ \A j \in 1..last_id : j # i => entries'[j] = entries[j]
  <1>1. DOMAIN entries = 1..last_id
    BY InvFacts
  <1>2. \A j \in 1..last_id : Served(entries[j], current, subscribed, ending)
    BY DEF RoleInv, LinkInv
  <1>3. /\ DOMAIN entries' = 1..last_id /\ UNCHANGED <<last_id, ending>>
        /\ \A j \in 1..last_id : entries'[j] = IF j = i THEN f ELSE entries[j]
    BY <1>1 DEF SetEntry
  <1> QED
    BY <1>2, <1>3 DEF AllServed

(* The parts of the link a write leaves alone.                             *)
LinkFrame == UNCHANGED <<generation, current, subscribed, session, reader_stop>>

\* A step under which the link stays up keeps its part of the invariant.
LEMMA LinkKept ==
  ASSUME RoleInv, Connected, LinkFrame, broken' = FALSE, AllServed, ending' = ending
  PROVE  LinkInv' /\ LinkState' /\ Connected'
  BY DEF RoleInv, RoleTypeOK, LinkState, LinkInv, Connected, LinkFrame, AllServed

\* A step that moves no window to or from Opening and Destroyed keeps what is
\* owed of LastWindowClosed.
LEMMA ToldKept ==
  ASSUME RegistryInv, RoleInv, Connected, UNCHANGED <<current, subscribed, last_id, deferred_last_window>>,
         app'.told = app.told, app'.clean = app.clean,
         \A i \in 1..IdLimit : app'.seen[i] = Gone <=> app.seen[i] = Gone,
         \A i \in 1..last_id :
           /\ entries'[i].phase \in {"Opening", "Destroyed"} <=> entries[i].phase \in {"Opening", "Destroyed"}
           /\ entries'[i].owner_live = entries[i].owner_live
           /\ entries'[i].phase = "Closing" => entries[i].phase = "Closing" \/ entries[i].owner_live
           /\ Shown(entries'[i]) => Shown(entries[i])
  PROVE  ToldInv'
  BY DEF RoleInv, ToldInv

\* A step that the role does not hear of, or whose answer cannot be written.
LEMMA Unheard ==
  ASSUME RegistryInv, QueueInv, RoleInv, Connected, LinkFrame,
         NEW i \in 1..last_id, NEW f, SetEntry(i, f), UNCHANGED deferred_last_window,
         Served(f, current, subscribed, ending),
         Said(f, current) = Said(entries[i], current), Parks(f, current) = Parks(entries[i], current),
         f.phase = entries[i].phase \/ (Shown(f) /\ Shown(entries[i])),
         f.owner_live = entries[i].owner_live,
         \/ app' = app /\ broken' = FALSE
         \/ app' = Blank /\ broken' = TRUE
  PROVE  RoleInv' /\ Streams
  <1>1. /\ AllServed /\ entries'[i] = f /\ DOMAIN entries' = 1..last_id
        /\ UNCHANGED <<last_id, ending>>
        /\ \A j \in 1..last_id : j # i => entries'[j] = entries[j]
    BY OneServed DEF LinkFrame
  <1>2. CASE app' = app /\ broken' = FALSE
    <2>1. LinkInv' /\ LinkState' /\ Connected'
      BY <1>1, <1>2, LinkKept
    <2>2. RoleAgreesWithRegistry'
      BY <1>1, <1>2, RoleUntouched DEF LinkFrame
    <2>3. ToldInv'
      BY <1>1, <1>2, ToldKept DEF LinkFrame, Shown
    <2>4. UNCHANGED WS!vars
      BY <1>2, <2>1 DEF WS!vars
    <2> QED
      BY <1>2, <2>1, <2>2, <2>3, <2>4 DEF RoleInv, RoleTypeOK, Streams
  <1>3. CASE app' = Blank /\ broken' = TRUE
    <2>1. /\ ~Connected' /\ LinkState' /\ subscribed' \in {None, current'} /\ current' # None
          /\ ending' => reader_stop'
      BY <1>1, <1>3 DEF RoleInv, RoleTypeOK, LinkState, LinkInv, Connected, LinkFrame
    <2> QED
      BY <1>1, <1>3, <2>1, Cut
  <1> QED
    BY <1>2, <1>3


(* A write of what the role then knows, or a failed one.                   *)
Delivered(a) ==
  \/ app' = a /\ broken' = FALSE
  \/ app' = Blank /\ broken' = TRUE

(* How what a live window says may change from (st, n) to (t, m), aw being  *)
(* what the role awaits then.                                               *)
Changes(st, n, t, m, aw) ==
  \/ aw = app.awaiting /\ n = m /\ st # t /\ t \in WindowStates
  \/ aw = app.awaiting /\ st = t /\ n = 0 /\ m \in 1..CloseSeqLimit
  \/ aw = app.awaiting /\ st = t /\ m = 0
  \/ st = t /\ m = 0 /\ \E c \in Correlations \ app.awaiting : aw = app.awaiting \cup {c}

(* An announced window that stays announced.                               *)
StaysLive(e, f) ==
  /\ e.owner_live /\ f.owner_live = TRUE
  /\ e.phase \notin {"Opening", "Destroyed"} /\ f.phase \notin {"Opening", "Destroyed"}
  /\ Shown(f) => Shown(e)

\* A write that tells the role of an announced window: a fact, a close request,
\* or the end of a close request by a verdict or by Destroy.
LEMMA WindowHeard ==
  ASSUME RegistryInv, QueueInv, CorrelationsParkedOnce, RoleInv, Connected, subscribed = current,
         LinkFrame, NEW i \in 1..last_id, NEW f, SetEntry(i, f), UNCHANGED deferred_last_window,
         Served(f, current, subscribed, ending), StaysLive(entries[i], f),
         NEW st, NEW n, NEW t, NEW m,
         Said(entries[i], current) = Live(st, n), Said(f, current) = Live(t, m),
         NEW a \in Apps, a.seen = [app.seen EXCEPT ![i] = Live(t, m)],
         a.awaiting = (app.awaiting \ Parks(entries[i], current)) \cup Parks(f, current),
         a.told = app.told, a.clean = app.clean,
         Delivered(a), Changes(st, n, t, m, a.awaiting)
  PROVE  RoleInv' /\ Streams
  <1>1. /\ AllServed /\ entries'[i] = f /\ DOMAIN entries' = 1..last_id
        /\ UNCHANGED <<last_id, ending>>
        /\ \A j \in 1..last_id : j # i => entries'[j] = entries[j]
    BY OneServed DEF LinkFrame
  <1>2. CASE app' = Blank /\ broken' = TRUE
    <2>1. /\ ~Connected' /\ LinkState' /\ subscribed' \in {None, current'} /\ current' # None
          /\ ending' => reader_stop'
      BY <1>1, <1>2 DEF RoleInv, RoleTypeOK, LinkState, LinkInv, Connected, LinkFrame
    <2> QED
      BY <1>1, <1>2, <2>1, Cut
  <1>3. CASE app' = a /\ broken' = FALSE
    <2>1. LinkInv' /\ LinkState' /\ Connected'
      BY <1>1, <1>3, LinkKept
    <2>2. RoleAgreesWithRegistry'
      BY <1>1, <1>3, RoleHears DEF LinkFrame
    <2>3. /\ i \in 1..IdLimit /\ app.seen[i] = Live(st, n) /\ DOMAIN app.seen = 1..IdLimit
          /\ app.seen \in [1..IdLimit -> Seen] /\ app.awaiting \subseteq Correlations
      BY Agreement DEF RoleInv, RoleTypeOK, Apps
    <2>4. \A j \in 1..IdLimit : app'.seen[j] = Gone <=> app.seen[j] = Gone
      <3>1. /\ Live(st, n) # Gone /\ Live(t, m) # Gone
            /\ app'.seen = [app.seen EXCEPT ![i] = Live(t, m)]
        BY <1>3, SaidTypes
      <3> QED
        BY ONLY <3>1, <2>3
    <2>5. ToldInv'
      <3>1. \A j \in 1..last_id :
              /\ entries'[j].phase \in {"Opening", "Destroyed"} <=> entries[j].phase \in {"Opening", "Destroyed"}
              /\ entries'[j].owner_live = entries[j].owner_live
              /\ entries'[j].phase = "Closing" => entries[j].phase = "Closing" \/ entries[j].owner_live
              /\ Shown(entries'[j]) => Shown(entries[j])
        <4>1. entries[i] \in Entry /\ entries[i].owner_live = TRUE
          BY InvFacts DEF Entry, StaysLive
        <4> QED
          BY <1>1, <4>1 DEF StaysLive
      <3>2. app'.told = app.told /\ app'.clean = app.clean
        BY <1>3
      <3> QED
        BY <1>1, <2>4, <3>1, <3>2, ToldKept DEF LinkFrame
    <2>6. Streams
      <3>1. /\ app'.seen = [app.seen EXCEPT ![i] = Live(t, m)] /\ app'.told = app.told
            /\ app'.awaiting = a.awaiting
            /\ Live(st, n).status = "live" /\ Live(st, n).state = st /\ Live(st, n).asked = n
            /\ [app.seen EXCEPT ![i].asked = m] = [app.seen EXCEPT ![i] = Live(st, m)]
            /\ [app.seen EXCEPT ![i].state = t] = [app.seen EXCEPT ![i] = Live(t, n)]
        BY <1>3, <2>3, SaidTypes
      <3>2. Connected' = Connected
        BY <2>1 DEF Connected
      <3>3. CASE a.awaiting = app.awaiting /\ n = m /\ st # t /\ t \in WindowStates
        <4>1. WS!Fact(i)
          BY <2>3, <3>1, <3>2, <3>3 DEF WS!Fact
        <4> QED
          BY <4>1, <2>3 DEF Streams, WS!Next
      <3>4. CASE a.awaiting = app.awaiting /\ st = t /\ n = 0 /\ m \in 1..CloseSeqLimit
        <4>1. WS!CloseRequested(i)
          BY <2>3, <3>1, <3>2, <3>4 DEF WS!CloseRequested
        <4> QED
          BY <4>1, <2>3 DEF Streams, WS!Next
      <3>5. CASE a.awaiting = app.awaiting /\ st = t /\ m = 0
        <4>1. CASE n # 0
          <5>1. WS!Settled(i)
            BY <2>3, <3>1, <3>2, <3>5, <4>1 DEF WS!Settled
          <5> QED
            BY <5>1, <2>3 DEF Streams, WS!Next
        <4>2. CASE n = 0
          <5>1. app'.seen = app.seen
            BY <2>3, <3>1, <3>5, <4>2
          <5> QED
            BY <5>1, <3>1, <3>2, <3>5 DEF Streams, WS!vars
        <4> QED
          BY <4>1, <4>2
      <3>6. CASE st = t /\ m = 0 /\ \E c \in Correlations \ app.awaiting : a.awaiting = app.awaiting \cup {c}
        <4>1. CASE n # 0
          <5>1. WS!Settled(i)
            BY <2>3, <3>1, <3>2, <3>6, <4>1 DEF WS!Settled
          <5> QED
            BY <5>1, <2>3 DEF Streams, WS!Next
        <4>2. CASE n = 0
          <5>1. app'.seen = app.seen
            BY <2>3, <3>1, <3>6, <4>2
          <5>2. WS!Ask
            BY <5>1, <3>1, <3>2, <3>6 DEF WS!Ask
          <5> QED
            BY <5>2 DEF Streams, WS!Next
        <4> QED
          BY <4>1, <4>2
      <3> QED
        BY <3>3, <3>4, <3>5, <3>6 DEF Changes
    <2> QED
      BY <1>3, <2>1, <2>2, <2>5, <2>6 DEF RoleInv, RoleTypeOK
  <1> QED
    BY <1>2, <1>3 DEF Delivered


\* An admitted Create: the call is outstanding, and nothing is said yet.
LEMMA BuildAwaited ==
  ASSUME RegistryInv, QueueInv, RoleInv, Connected, subscribed = current, LinkFrame,
         NEW c \in Correlations, ~has_pending_call(current, c), CreateBuilds(current, c),
         app' = [app EXCEPT !.awaiting = @ \cup {c}], broken' = broken
  PROVE  RoleInv' /\ Streams
  <1> DEFINE n == last_id + 1
             f == NewEntry(current, c, last_incarnation + 1)
  <1>1. /\ current \in Owners /\ current # None /\ broken' = FALSE /\ ~ending
        /\ app.awaiting = {b \in Correlations : \E i \in 1..last_id : b \in Parks(entries[i], current)}
        /\ \A i \in 1..last_id : app.seen[i] = Said(entries[i], current) /\ i \in 1..IdLimit
        /\ \A i \in 1..IdLimit : i \notin 1..last_id => app.seen[i] = Unseen
    BY Agreement DEF RoleInv, RoleTypeOK, LinkState
  <1>2. /\ DOMAIN entries = 1..last_id /\ last_id \in Nat /\ last_incarnation \in Nat
        /\ last_incarnation + 1 \in 1..IncarnationLimit /\ n \in 1..IdLimit
    BY InvFacts, LimitsAssumption DEF CreateBuilds, create_error, RegistryInv, RegistryTypeOK
  <1>3. /\ last_id' = n /\ UNCHANGED <<ending, deferred_last_window>>
        /\ 1..last_id' = 1..last_id \cup {n} /\ n \notin 1..last_id
        /\ DOMAIN entries' = 1..last_id'
        /\ entries'[n] = f /\ \A i \in 1..last_id : entries'[i] = entries[i]
    BY <1>2 DEF CreateBuilds
  <1>4. /\ Served(f, current, subscribed, ending) /\ f.phase = "Opening" /\ f.owner_live
        /\ Said(f, current) = Unseen /\ Parks(f, current) = {c}
    BY <1>1, <1>2, NewSaid
  <1> HIDE DEF f, n
  <1>5. AllServed
    BY <1>3, <1>4 DEF AllServed, RoleInv, LinkInv, LinkFrame
  <1>6. LinkInv' /\ LinkState' /\ Connected'
    BY <1>1, <1>3, <1>5, LinkKept
  <1>7. /\ app' \in Apps /\ app'.seen = app.seen /\ app'.told = app.told /\ app'.clean = app.clean
        /\ app'.awaiting = app.awaiting \cup {c}
    BY DEF RoleInv, RoleTypeOK, Apps
  <1>8. RoleAgreesWithRegistry'
    <2>1. app'.awaiting = {b \in Correlations : \E i \in 1..last_id' : b \in Parks(entries'[i], current)}
      BY <1>1, <1>3, <1>4, <1>7
    <2>2. \A i \in 1..IdLimit :
            app'.seen[i] = IF i \in 1..last_id' THEN Said(entries'[i], current) ELSE Unseen
      BY <1>1, <1>2, <1>3, <1>4, <1>7
    <2> QED
      BY <1>1, <1>3, <2>1, <2>2, Agrees DEF LinkFrame
  <1>9. ToldInv'
    <2>1. ~Shown(f) /\ f.phase # "Closing" /\ f.phase \in {"Opening", "Destroyed"}
      BY <1>4 DEF Shown
    <2> QED
      BY <1>1, <1>3, <1>7, <2>1 DEF ToldInv, RoleInv, LinkFrame
  <1>10. WS!Ask
    <2>1. c \notin app.awaiting
      BY <1>1, <1>2 DEF has_pending_call, Parks
    <2>2. Connected' = Connected
      BY <1>6 DEF Connected
    <2> QED
      BY <1>7, <2>1, <2>2 DEF WS!Ask
  <1> QED
    BY <1>6, <1>7, <1>8, <1>9, <1>10 DEF RoleInv, RoleTypeOK, Streams, WS!Next

\* A write tells the role what it then knows, or fails.
LEMMA WroteEither ==
  ASSUME NEW a, Wrote(a)
  PROVE  /\ \/ app' = a /\ broken' = FALSE
            \/ app' = Blank /\ broken' = TRUE
         /\ UNCHANGED <<generation, current, subscribed>>
  BY DEF Wrote

\* What an admitted call finds.
LEMMA CallFinds ==
  ASSUME RegistryInv, QueueInv, RoleInv, NEW i \in DOMAIN entries, Admitted(current, RefOf(i))
  PROVE  LET e == entries[i]
             t == Touched(e)
         IN  /\ i \in 1..last_id /\ i \in 1..IdLimit /\ ~ending /\ RefOf(i).id = i
             /\ e \in Entry /\ e.owner = current /\ e.owner_live = TRUE /\ e.phase # "Destroyed"
             /\ EntryInv(t, FALSE) /\ Served(t, current, subscribed, ending) /\ ~t.adoptable
             /\ Served(e, current, subscribed, ending) /\ EntryInv(e, FALSE)
             /\ t.owner_live = TRUE /\ t.phase = e.phase /\ t.owner = current
             /\ t.state = e.state /\ t.close_seq = e.close_seq /\ t.destroy_calls = e.destroy_calls
             /\ t.last_close_seq = e.last_close_seq
             /\ Said(t, current) = Said(e, current) /\ Parks(t, current) = Parks(e, current)
             /\ Parks(e, current) \subseteq Correlations
  <1>1. RefOf(i) \in WindowRef /\ RefOf(i).id = i /\ i \in 1..last_id
    BY RefOK
  <1>2. /\ ~ending /\ EntryInv(entries[i], FALSE) /\ entries[i].owner = current /\ entries[i].owner_live
        /\ entries[i].phase # "Destroyed"
    BY <1>1, AdmittedOK
  <1>3. entries[i] \in Entry
    BY <1>2 DEF EntryInv
  <1>4. entries[i].owner_live = TRUE
    BY <1>2, <1>3 DEF Entry
  <1>5. Served(entries[i], current, subscribed, ending)
    BY <1>1 DEF RoleInv, LinkInv
  <1>6. LET e == entries[i]
            t == Touched(e)
        IN  /\ EntryInv(t, FALSE) /\ t.phase = e.phase /\ t.owner = e.owner /\ t.owner_live = e.owner_live
            /\ t.destroy_calls = e.destroy_calls /\ t.last_close_seq = e.last_close_seq
            /\ t.close_seq = e.close_seq /\ t.adoptable = FALSE
    BY <1>2, TouchedOK
  <1>7. Touched(entries[i]).state = entries[i].state
    BY <1>3 DEF Touched, Entry
  <1>8. LET e == entries[i]
            t == Touched(e)
        IN  /\ Said(t, current) = Said(e, current) /\ Parks(t, current) = Parks(e, current)
            /\ Served(t, current, subscribed, ending)
    BY <1>3, <1>5, TouchedSaid
  <1>9. Parks(entries[i], current) \subseteq Correlations
    BY DEF Parks
  <1>10. i \in 1..IdLimit
    BY <1>1, InvFacts, LimitsAssumption
  <1> QED
    BY <1>1, <1>2, <1>3, <1>4, <1>5, <1>6, <1>7, <1>8, <1>9, <1>10


\* What the role knows, field by field.
LEMMA AppFields ==
  ASSUME app \in Apps, NEW i \in 1..IdLimit, NEW st, NEW n, app.seen[i] = Live(st, n)
  PROVE  /\ app.seen \in [1..IdLimit -> Seen] /\ app.awaiting \subseteq Correlations
         /\ app.told \in BOOLEAN /\ app.clean \in BOOLEAN
         /\ app = [seen |-> app.seen, awaiting |-> app.awaiting, told |-> app.told, clean |-> app.clean]
         /\ \A m : [app.seen[i] EXCEPT !.asked = m] = Live(st, m)
         /\ \A t : [app.seen[i] EXCEPT !.state = t] = Live(t, n)
         /\ \A m \in 0..CloseSeqLimit : Live(st, m) \in Seen
         /\ \A t \in WindowStates : Live(t, n) \in Seen
         /\ 0 \in 0..CloseSeqLimit
  <1>1. /\ app.seen \in [1..IdLimit -> Seen] /\ app.awaiting \subseteq Correlations
        /\ app.told \in BOOLEAN /\ app.clean \in BOOLEAN
        /\ app = [seen |-> app.seen, awaiting |-> app.awaiting, told |-> app.told, clean |-> app.clean]
    BY DEF Apps
  <1>2. /\ \A m : [app.seen[i] EXCEPT !.asked = m] = Live(st, m)
        /\ \A t : [app.seen[i] EXCEPT !.state = t] = Live(t, n)
    BY SaidTypes
  <1>3. st \in WindowStates \cup {None} /\ n \in 0..CloseSeqLimit
    <2>1. Live(st, n) \in Seen
      BY <1>1
    <2> QED
      BY <2>1, SaidTypes DEF Seen
  <1>4. /\ \A m \in 0..CloseSeqLimit : Live(st, m) \in Seen
        /\ \A t \in WindowStates : Live(t, n) \in Seen
        /\ 0 \in 0..CloseSeqLimit
    BY <1>3, SaidTypes, ZeroInRange
  <1> QED
    BY <1>1, <1>2, <1>4

(* What the role knows after a close request is asked or ended, after a     *)
(* fact, and after a retained call that ends a close request.               *)
AskedApp(i, m) == [app EXCEPT !.seen[i].asked = m]
FactApp(i, t) == [app EXCEPT !.seen[i].state = t]
ParkedApp(i, c) == [app EXCEPT !.awaiting = @ \cup {c}, !.seen[i].asked = 0]

\* A close request asked, or ended.
LEMMA AppAsked ==
  ASSUME app \in Apps, NEW i \in 1..IdLimit, NEW st, NEW n, app.seen[i] = Live(st, n),
         NEW m \in 0..CloseSeqLimit, NEW a, a = AskedApp(i, m)
  PROVE  /\ a \in Apps /\ a.seen = [app.seen EXCEPT ![i] = Live(st, m)]
         /\ a.awaiting = app.awaiting /\ a.told = app.told /\ a.clean = app.clean
  <1> DEFINE q == [app.seen EXCEPT ![i] = Live(st, m)]
  <1>1. /\ app.seen \in [1..IdLimit -> Seen] /\ app.awaiting \subseteq Correlations
        /\ app.told \in BOOLEAN /\ app.clean \in BOOLEAN
        /\ app = [seen |-> app.seen, awaiting |-> app.awaiting, told |-> app.told, clean |-> app.clean]
    BY AppFields
  <1>2. [app.seen[i] EXCEPT !.asked = m] = Live(st, m) /\ Live(st, m) \in Seen
    BY AppFields
  <1>3. q \in [1..IdLimit -> Seen]
    BY <1>1, <1>2
  <1>4. a = [app EXCEPT !.seen = q]
    BY <1>2 DEF AskedApp
  <1>5. a = [seen |-> q, awaiting |-> app.awaiting, told |-> app.told, clean |-> app.clean]
    BY ONLY <1>1, <1>4
  <1>6. /\ a.seen = q /\ a.awaiting = app.awaiting /\ a.told = app.told /\ a.clean = app.clean
        /\ a \in Apps
    <2> HIDE DEF q
    <2> QED
      BY ONLY <1>1, <1>3, <1>5 DEF Apps
  <1> QED
    BY <1>6

\* A fact.
LEMMA AppFact ==
  ASSUME app \in Apps, NEW i \in 1..IdLimit, NEW st, NEW n, app.seen[i] = Live(st, n),
         NEW t \in WindowStates, NEW a, a = FactApp(i, t)
  PROVE  /\ a \in Apps /\ a.seen = [app.seen EXCEPT ![i] = Live(t, n)]
         /\ a.awaiting = app.awaiting /\ a.told = app.told /\ a.clean = app.clean
  <1> DEFINE q == [app.seen EXCEPT ![i] = Live(t, n)]
  <1>1. /\ app.seen \in [1..IdLimit -> Seen] /\ app.awaiting \subseteq Correlations
        /\ app.told \in BOOLEAN /\ app.clean \in BOOLEAN
        /\ app = [seen |-> app.seen, awaiting |-> app.awaiting, told |-> app.told, clean |-> app.clean]
    BY AppFields
  <1>2. [app.seen[i] EXCEPT !.state = t] = Live(t, n) /\ Live(t, n) \in Seen
    BY AppFields
  <1>3. q \in [1..IdLimit -> Seen]
    BY <1>1, <1>2
  <1>4. a = [app EXCEPT !.seen = q]
    BY <1>2 DEF FactApp
  <1>5. a = [seen |-> q, awaiting |-> app.awaiting, told |-> app.told, clean |-> app.clean]
    BY ONLY <1>1, <1>4
  <1>6. /\ a.seen = q /\ a.awaiting = app.awaiting /\ a.told = app.told /\ a.clean = app.clean
        /\ a \in Apps
    <2> HIDE DEF q
    <2> QED
      BY ONLY <1>1, <1>3, <1>5 DEF Apps
  <1> QED
    BY <1>6

\* A close request ended by a call that is retained.
LEMMA AppParked ==
  ASSUME app \in Apps, NEW i \in 1..IdLimit, NEW st, NEW n, app.seen[i] = Live(st, n),
         NEW c \in Correlations, NEW a, a = ParkedApp(i, c),
         NEW w, w = app.awaiting \cup {c}
  PROVE  /\ a \in Apps /\ a.seen = [app.seen EXCEPT ![i] = Live(st, 0)]
         /\ a.awaiting = w /\ a.told = app.told /\ a.clean = app.clean
  <1> DEFINE q == [app.seen EXCEPT ![i] = Live(st, 0)]
             b == [app EXCEPT !.awaiting = @ \cup {c}]
  <1>1. /\ app.seen \in [1..IdLimit -> Seen] /\ app.awaiting \subseteq Correlations
        /\ app.told \in BOOLEAN /\ app.clean \in BOOLEAN
        /\ app = [seen |-> app.seen, awaiting |-> app.awaiting, told |-> app.told, clean |-> app.clean]
    BY AppFields
  <1>2. [app.seen[i] EXCEPT !.asked = 0] = Live(st, 0) /\ Live(st, 0) \in Seen
    BY AppFields
  <1>3. q \in [1..IdLimit -> Seen]
    BY <1>1, <1>2
  <1>4. b = [seen |-> app.seen, awaiting |-> app.awaiting \cup {c}, told |-> app.told,
             clean |-> app.clean]
    <2>1. \A u : [app EXCEPT !.awaiting = u] =
                  [seen |-> app.seen, awaiting |-> u, told |-> app.told, clean |-> app.clean]
      BY ONLY <1>1
    <2> QED
      BY ONLY <2>1, Zenon
  <1>5. a = [b EXCEPT !.seen[i].asked = 0]
    BY DEF ParkedApp
  <1> HIDE DEF b
  <1>6. b.seen = app.seen
    BY ONLY <1>4
  <1>7. [b.seen EXCEPT ![i].asked = 0] = q
    BY <1>2, <1>6
  <1>8. a = [b EXCEPT !.seen = q]
    BY ONLY <1>5, <1>7
  <1>9. a = [seen |-> q, awaiting |-> app.awaiting \cup {c}, told |-> app.told, clean |-> app.clean]
    BY ONLY <1>4, <1>8
  <1>10. /\ a.seen = q /\ a.awaiting = app.awaiting \cup {c} /\ a.told = app.told /\ a.clean = app.clean
         /\ a \in Apps
    <2> HIDE DEF q
    <2> QED
      BY ONLY <1>1, <1>3, <1>9, c \in Correlations DEF Apps
  <1> QED
    BY <1>10

\* A call that changes nothing the role can see.
LEMMA IdleCall ==
  ASSUME RegistryInv, QueueInv, RoleInv, Connected, UNCHANGED <<session, reader_stop>>,
         NEW i \in DOMAIN entries, Admitted(current, RefOf(i)),
         SetEntry(i, Touched(entries[i])), UNCHANGED deferred_last_window, Wrote(app)
  PROVE  RoleInv' /\ Streams
  BY CallFinds, Unheard, WroteEither DEF LinkFrame

\* request_close that asks the role.
LEMMA RequestHeard ==
  ASSUME RegistryInv, QueueInv, CorrelationsParkedOnce, RoleInv, Connected, subscribed = current,
         UNCHANGED <<session, reader_stop>>, NEW i \in DOMAIN entries, RequestClose(current, RefOf(i)),
         Wrote([app EXCEPT !.seen[i].asked = entries'[i].close_seq])
  PROVE  RoleInv' /\ Streams
  <1> DEFINE e == entries[i]
             t == Touched(e)
             f == CloseAsked(t)
  <1>1. Admitted(current, RefOf(i)) /\ RefOf(i).id = i
    BY RefOK DEF RequestClose
  <1>2. /\ e.phase = "Open" /\ CloseSeqLeft(e) /\ SetEntry(i, f) /\ UNCHANGED deferred_last_window
    BY <1>1 DEF RequestClose
  <1>3. /\ i \in 1..last_id /\ i \in 1..IdLimit /\ e.owner_live /\ t.phase = "Open" /\ ~ending
        /\ EntryInv(t, FALSE) /\ Served(t, current, subscribed, ending) /\ t.owner_live = TRUE
        /\ t.last_close_seq = e.last_close_seq /\ t.state = e.state /\ t.close_seq = e.close_seq
        /\ Said(t, current) = Said(e, current) /\ Parks(t, current) = Parks(e, current)
    BY <1>1, <1>2, CallFinds
  <1>4. CloseSeqLeft(t) /\ ending = FALSE
    BY <1>2, <1>3, InvFacts DEF CloseSeqLeft
  <1>5. /\ Served(f, current, subscribed, ending) /\ f.phase = "ClosePending" /\ f.owner_live = TRUE
        /\ f.close_seq \in 1..CloseSeqLimit /\ f.close_seq \in 0..CloseSeqLimit
        /\ Parks(f, current) = {} /\ Parks(e, current) = {}
        /\ Said(e, current) = Live(e.state, 0) /\ Said(f, current) = Live(e.state, f.close_seq)
    <2>1. Served(t, current, subscribed, FALSE)
      BY <1>3, <1>4
    <2> HIDE DEF t
    <2>2. /\ Served(f, current, subscribed, FALSE) /\ f.phase = "ClosePending" /\ f.owner_live = TRUE
          /\ f.close_seq \in 1..CloseSeqLimit
          /\ Parks(f, current) = {} /\ Parks(t, current) = {}
          /\ Said(t, current) = Live(t.state, 0) /\ Said(f, current) = Live(t.state, f.close_seq)
      BY <1>3, <1>4, <2>1, AskedSaid
    <2>3. f.close_seq \in 0..CloseSeqLimit
      BY <2>2, LimitsAssumption
    <2> QED
      BY <1>3, <1>4, <2>2, <2>3
  <1>6. entries'[i] = f /\ LinkFrame
    BY <1>2, <1>3, <1>5, OneServed DEF Wrote, LinkFrame
  <1>7. app \in Apps /\ app.seen[i] = Live(e.state, 0)
    BY <1>3, <1>5, Agreement DEF RoleInv, RoleTypeOK
  <1> HIDE DEF f, t
  <1>8. PICK a : a = AskedApp(i, f.close_seq)
    OBVIOUS
  <1>9. /\ a \in Apps /\ a.seen = [app.seen EXCEPT ![i] = Live(e.state, f.close_seq)]
        /\ a.awaiting = app.awaiting /\ a.told = app.told /\ a.clean = app.clean
    <2>1. i \in 1..IdLimit /\ f.close_seq \in 0..CloseSeqLimit
      BY <1>3, <1>5
    <2> QED
      BY ONLY <1>7, <1>8, <2>1, AppAsked
  <1>10. Delivered(a)
    BY <1>6, <1>8 DEF Wrote, Delivered, AskedApp
  <1>11. StaysLive(e, f) /\ Changes(e.state, 0, e.state, f.close_seq, a.awaiting)
    BY <1>2, <1>3, <1>5, <1>9 DEF Shown, StaysLive, Changes
  <1>12. a.awaiting = (app.awaiting \ Parks(e, current)) \cup Parks(f, current)
    BY <1>5, <1>9
  <1> QED
    BY <1>2, <1>3, <1>5, <1>6, <1>9, <1>10, <1>11, <1>12, WindowHeard


\* An announced window that hears a call end its close request, or retain one
\* more Destroy call.
LEMMA SettledHeard ==
  ASSUME RegistryInv, QueueInv, CorrelationsParkedOnce, RoleInv, Connected, subscribed = current,
         LinkFrame, NEW i \in 1..last_id, NEW f, SetEntry(i, f), UNCHANGED deferred_last_window,
         Served(f, current, subscribed, ending), StaysLive(entries[i], f), NEW st, NEW n,
         Said(entries[i], current) = Live(st, n),
         Said(f, current) = Live(st, 0),
         \/ /\ Parks(f, current) = Parks(entries[i], current)
            /\ Delivered(AskedApp(i, 0))
         \/ \E c \in Correlations :
              /\ ~has_pending_call(current, c)
              /\ Parks(f, current) = Parks(entries[i], current) \cup {c}
              /\ app' = ParkedApp(i, c) /\ broken' = FALSE
  PROVE  RoleInv' /\ Streams
  <1> DEFINE e == entries[i]
  <1>1. /\ i \in 1..IdLimit /\ app \in Apps /\ app.seen[i] = Live(st, n)
        /\ Parks(e, current) \subseteq app.awaiting
        /\ DOMAIN entries = 1..last_id
        /\ app.awaiting = {b \in Correlations : \E j \in 1..last_id : b \in Parks(entries[j], current)}
    <2>1. Parks(e, current) \subseteq Correlations
      BY DEF Parks
    <2> QED
      BY <2>1, Agreement, InvFacts DEF RoleInv, RoleTypeOK
  <1>2. /\ RegistryInv /\ QueueInv /\ CorrelationsParkedOnce /\ RoleInv /\ Connected
        /\ subscribed = current /\ LinkFrame /\ SetEntry(i, f) /\ UNCHANGED deferred_last_window
        /\ Served(f, current, subscribed, ending) /\ StaysLive(e, f)
        /\ Said(e, current) = Live(st, n) /\ Said(f, current) = Live(st, 0)
    OBVIOUS
  <1>4. CASE /\ Parks(f, current) = Parks(entries[i], current)
             /\ Delivered(AskedApp(i, 0))
    <2>1. PICK a : a = AskedApp(i, 0)
      OBVIOUS
    <2>2. /\ a \in Apps /\ a.seen = [app.seen EXCEPT ![i] = Live(st, 0)]
          /\ a.awaiting = app.awaiting /\ a.told = app.told /\ a.clean = app.clean
      <3>1. i \in 1..IdLimit /\ 0 \in 0..CloseSeqLimit /\ app \in Apps /\ app.seen[i] = Live(st, n)
        BY <1>1, ZeroInRange
      <3> QED
        BY ONLY <2>1, <3>1, AppAsked
    <2>3. a.awaiting = (app.awaiting \ Parks(e, current)) \cup Parks(f, current)
      BY <1>1, <1>4, <2>2
    <2>4. Delivered(a) /\ Changes(st, n, st, 0, a.awaiting)
      BY <1>4, <2>1, <2>2 DEF Changes
    <2> QED
      BY ONLY i \in 1..last_id, <1>2, <2>2, <2>3, <2>4, WindowHeard
  <1>5. ASSUME NEW c \in Correlations, ~has_pending_call(current, c),
               Parks(f, current) = Parks(entries[i], current) \cup {c},
               app' = ParkedApp(i, c), broken' = FALSE
        PROVE  RoleInv' /\ Streams
    <2>1. PICK a : a = ParkedApp(i, c)
      OBVIOUS
    <2>2. /\ a \in Apps /\ a.seen = [app.seen EXCEPT ![i] = Live(st, 0)]
          /\ a.awaiting = app.awaiting \cup {c} /\ a.told = app.told /\ a.clean = app.clean
      <3>1. i \in 1..IdLimit /\ app \in Apps /\ app.seen[i] = Live(st, n) /\ c \in Correlations
        BY <1>1
      <3> QED
        <4>1. PICK w : w = app.awaiting \cup {c}
          OBVIOUS
        <4>2. /\ a \in Apps /\ a.seen = [app.seen EXCEPT ![i] = Live(st, 0)]
              /\ a.awaiting = w /\ a.told = app.told /\ a.clean = app.clean
          BY ONLY <2>1, <3>1, <4>1, AppParked
        <4> QED
          BY ONLY <4>1, <4>2
    <2>3. a.awaiting = (app.awaiting \ Parks(e, current)) \cup Parks(f, current)
      BY <1>1, <1>5, <2>2
    <2>4. Delivered(a)
      BY <1>5, <2>1 DEF Delivered
    <2>5. Changes(st, n, st, 0, a.awaiting)
      <3>1. c \in Correlations \ app.awaiting
        BY <1>1, <1>5 DEF has_pending_call, Parks
      <3> QED
        BY <2>2, <3>1 DEF Changes
    <2> QED
      BY ONLY i \in 1..last_id, <1>2, <2>2, <2>3, <2>4, <2>5, WindowHeard
  <1> QED
    BY <1>4, <1>5


\* A verdict: it ends the request it names, by a veto or by the teardown, and an
\* outdated one is answered without effect.
LEMMA ReplyHeard ==
  ASSUME RegistryInv, QueueInv, CorrelationsParkedOnce, RoleInv, Connected, subscribed = current,
         UNCHANGED <<session, reader_stop>>, NEW i \in DOMAIN entries, NEW seq, NEW verdict,
         CloseReply(current, RefOf(i), seq, verdict),
         IF ReplyIsCurrent(RefOf(i), seq) THEN Wrote([app EXCEPT !.seen[i].asked = 0]) ELSE Wrote(app)
  PROVE  RoleInv' /\ Streams
  <1> DEFINE e == entries[i]
             t == Touched(e)
             cur == ReplyIsCurrent(RefOf(i), seq)
  <1>1. Admitted(current, RefOf(i)) /\ RefOf(i).id = i
    BY RefOK DEF CloseReply
  <1>2. /\ SetEntry(i, IF ~cur THEN t ELSE IF verdict = "Veto" THEN Reopened(t) ELSE Torn(t))
        /\ UNCHANGED deferred_last_window
        /\ cur => e.phase = "ClosePending"
    BY <1>1 DEF CloseReply, ReplyIsCurrent
  <1>3. /\ i \in 1..last_id /\ e.owner_live /\ ~ending /\ t.owner_live = TRUE /\ ~t.adoptable
        /\ EntryInv(t, FALSE) /\ Served(t, current, subscribed, ending) /\ t.phase = e.phase
        /\ t.state = e.state /\ t.close_seq = e.close_seq
        /\ Said(t, current) = Said(e, current) /\ Parks(t, current) = Parks(e, current)
    BY <1>1, CallFinds
  <1>4. CASE ~cur
    BY <1>1, <1>2, <1>4, IdleCall
  <1>5. CASE cur
    <2>1. LinkFrame /\ Delivered(AskedApp(i, 0))
      BY <1>5, WroteEither DEF LinkFrame, Delivered, AskedApp
    <2>2. t.phase = "ClosePending" /\ Shown(t) /\ Shown(e) /\ ending = FALSE
      BY <1>2, <1>3, <1>5, InvFacts DEF Shown
    <2>3. Served(t, current, subscribed, FALSE)
      BY <1>3, <2>2
    <2> HIDE DEF t
    <2>4. CASE verdict = "Veto"
      <3> DEFINE f == Reopened(t)
      <3>1. /\ Served(f, current, subscribed, FALSE) /\ f.phase = "Open" /\ f.owner_live
            /\ Parks(f, current) = {} /\ Parks(t, current) = {}
            /\ Said(f, current) = Live(t.state, 0) /\ Said(t, current) = Live(t.state, t.close_seq)
        BY <1>3, <2>2, <2>3, ReopenedSaid
      <3>2. SetEntry(i, f)
        BY <1>2, <1>5, <2>4
      <3>3. f.owner_live = TRUE
        BY <1>3 DEF Reopened, EntryInv, Entry
      <3> HIDE DEF f
      <3>4. StaysLive(e, f)
        BY <1>2, <1>3, <1>5, <2>2, <3>1, <3>3 DEF StaysLive
      <3> QED
        BY <1>2, <1>3, <2>1, <2>2, <3>1, <3>2, <3>4, SettledHeard
    <2>5. CASE verdict # "Veto"
      <3> DEFINE f == Torn(t)
      <3>1. /\ Served(f, current, subscribed, FALSE) /\ f.phase = "Closing" /\ f.owner_live
            /\ Parks(f, current) = {} /\ Parks(t, current) = {}
            /\ Said(f, current) = Live(t.state, 0) /\ Said(t, current) = Live(t.state, t.close_seq)
        BY <1>3, <2>2, <2>3, TornSaid
      <3>2. SetEntry(i, f)
        BY <1>2, <1>5, <2>5
      <3>3. f.owner_live = TRUE
        BY <1>3 DEF Torn, EntryInv, Entry
      <3> HIDE DEF f
      <3>4. StaysLive(e, f)
        BY <1>2, <1>3, <1>5, <2>2, <3>1, <3>3 DEF StaysLive
      <3> QED
        BY <1>2, <1>3, <2>1, <2>2, <3>1, <3>2, <3>4, SettledHeard
    <2> QED
      BY <2>4, <2>5
  <1> QED
    BY <1>4, <1>5

\* An admitted Destroy: its answer waits for the receipt, and a pending close
\* request ends.
LEMMA DestroyHeard ==
  ASSUME RegistryInv, QueueInv, CorrelationsParkedOnce, RoleInv, Connected, subscribed = current,
         UNCHANGED <<session, reader_stop>>, NEW i \in DOMAIN entries, NEW c \in Correlations,
         ~has_pending_call(current, c), Destroy(current, RefOf(i), c),
         Knows([app EXCEPT !.awaiting = @ \cup {c}, !.seen[i].asked = 0])
  PROVE  RoleInv' /\ Streams
  <1> DEFINE e == entries[i]
             t == Touched(e)
             d == DestroyWaiting(t, [owner |-> current, correlation |-> c])
             f == IF Shown(d) THEN Torn(d) ELSE d
  <1>1. Admitted(current, RefOf(i)) /\ RefOf(i).id = i
    BY RefOK DEF Destroy
  <1>2. SetEntry(i, f) /\ UNCHANGED deferred_last_window /\ e.phase # "Opening"
    BY <1>1 DEF Destroy, destroy_error
  <1>3. /\ i \in 1..last_id /\ e.owner_live /\ ~ending /\ t.owner_live = TRUE
        /\ EntryInv(t, FALSE) /\ Served(t, current, subscribed, ending) /\ t.phase = e.phase
        /\ e.phase # "Destroyed" /\ e \in Entry
        /\ Said(t, current) = Said(e, current) /\ Parks(t, current) = Parks(e, current)
    BY <1>1, CallFinds
  <1>4. ending = FALSE /\ Served(t, current, subscribed, FALSE)
    BY <1>3, InvFacts
  <1>5. LinkFrame /\ app' = ParkedApp(i, c) /\ broken' = FALSE
    BY DEF LinkFrame, Knows, ParkedApp, Connected, RoleInv, RoleTypeOK, LinkState
  <1> HIDE DEF t
  <1>6. /\ Served(f, current, subscribed, FALSE) /\ f.phase = "Closing" /\ f.owner_live
        /\ Parks(f, current) = Parks(t, current) \cup {c}
        /\ Said(f, current) = Live(t.state, 0) /\ Said(t, current) = Live(t.state, t.close_seq)
    <2>1. Retains(t, current, subscribed, c, f)
      BY <1>2, <1>3, <1>4 DEF Retains
    <2> HIDE DEF d, f
    <2> QED
      BY ONLY <2>1, DestroySaid
  <1>7. f.owner_live = TRUE
    <2>1. t \in Entry
      BY <1>3 DEF EntryInv
    <2>2. d.owner_live = TRUE /\ Torn(d).owner_live = TRUE
      BY <1>3, <2>1 DEF DestroyWaiting, Torn, Entry
    <2> QED
      BY <2>2
  <1> HIDE DEF f, d
  <1>8. StaysLive(e, f)
    BY <1>2, <1>3, <1>6, <1>7 DEF StaysLive, Shown
  <1> QED
    BY <1>2, <1>3, <1>4, <1>5, <1>6, <1>8, SettledHeard


\* Every call of the role.
LEMMA CallsHeard ==
  ASSUME RegistryInv, QueueInv, CorrelationsParkedOnce, RoleInv, DispatchWindow
  PROVE  RoleInv' /\ Streams
  <1>1. Connected /\ subscribed = current /\ UNCHANGED <<session, reader_stop>>
    BY DEF DispatchWindow, CanCall, Dispatchable, Connected, hostVars
  <1>2. ASSUME NEW i \in DOMAIN entries, CreateAdopts(current, i), Wrote(app)
        PROVE  RoleInv' /\ Streams
    <2>1. SetEntry(i, Touched(entries[i])) /\ UNCHANGED deferred_last_window
      BY <1>2 DEF CreateAdopts
    <2>2. /\ i \in 1..last_id /\ entries[i] \in Entry
          /\ Served(entries[i], current, subscribed, ending)
      BY <1>2, InvFacts DEF RoleInv, LinkInv
    <2>3. LET t == Touched(entries[i])
          IN  /\ Said(t, current) = Said(entries[i], current)
              /\ Parks(t, current) = Parks(entries[i], current)
              /\ Served(t, current, subscribed, ending)
              /\ t.phase = entries[i].phase /\ t.owner_live = entries[i].owner_live
      BY <2>2, TouchedSaid
    <2>4. LinkFrame /\ (\/ app' = app /\ broken' = FALSE
                        \/ app' = Blank /\ broken' = TRUE)
      BY <1>1, <1>2, WroteEither DEF LinkFrame
    <2> QED
      BY <1>1, <2>1, <2>2, <2>3, <2>4, Unheard
  <1>3. ASSUME NEW c \in Correlations, ~has_pending_call(current, c), CreateBuilds(current, c),
               Knows([app EXCEPT !.awaiting = @ \cup {c}])
        PROVE  RoleInv' /\ Streams
    <2>1. LinkFrame /\ app' = [app EXCEPT !.awaiting = @ \cup {c}] /\ broken' = broken
      BY <1>1, <1>3 DEF LinkFrame, Knows
    <2> QED
      BY <1>1, <1>3, <2>1, BuildAwaited
  <1>4. ASSUME NEW i \in DOMAIN entries, CallSetter(i)
        PROVE  RoleInv' /\ Streams
    <2>1. /\ Admitted(current, RefOf(i)) /\ SetEntry(i, Touched(entries[i]))
          /\ UNCHANGED deferred_last_window /\ Wrote(app)
      BY <1>4, RefOK DEF CallSetter, Setter
    <2> QED
      BY <1>1, <2>1, IdleCall
  <1>5. ASSUME NEW i \in DOMAIN entries, CallRequestClose(i)
        PROVE  RoleInv' /\ Streams
    <2>1. CASE /\ RequestClose(current, RefOf(i))
               /\ Wrote([app EXCEPT !.seen[i].asked = entries'[i].close_seq])
      BY <1>1, <2>1, RequestHeard
    <2>2. CASE RequestCloseIdle(current, RefOf(i)) /\ Wrote(app)
      <3>1. /\ Admitted(current, RefOf(i)) /\ SetEntry(i, Touched(entries[i]))
            /\ UNCHANGED deferred_last_window
        BY <2>2, RefOK DEF RequestCloseIdle
      <3> QED
        BY <1>1, <2>2, <3>1, IdleCall
    <2> QED
      BY <1>5, <2>1, <2>2 DEF CallRequestClose
  <1>6. ASSUME NEW i \in DOMAIN entries, NEW seq, NEW d, CallCloseReply(i, seq, d)
        PROVE  RoleInv' /\ Streams
    <2>1. /\ CloseReply(current, RefOf(i), seq, d)
          /\ IF ReplyIsCurrent(RefOf(i), seq) THEN Wrote([app EXCEPT !.seen[i].asked = 0]) ELSE Wrote(app)
      BY <1>6 DEF CallCloseReply
    <2> QED
      BY <1>1, <2>1, ReplyHeard
  <1>7. ASSUME NEW i \in DOMAIN entries, CallDestroy(i)
        PROVE  RoleInv' /\ Streams
    <2>1. ASSUME NEW c \in Correlations, ~has_pending_call(current, c), Destroy(current, RefOf(i), c),
                 Knows([app EXCEPT !.awaiting = @ \cup {c}, !.seen[i].asked = 0])
          PROVE  RoleInv' /\ Streams
      BY <1>1, <2>1, DestroyHeard
    <2>2. CASE DestroyRefused(current, RefOf(i)) /\ Wrote(app)
      <3>1. /\ Admitted(current, RefOf(i)) /\ SetEntry(i, Touched(entries[i]))
            /\ UNCHANGED deferred_last_window
        BY <2>2, RefOK DEF DestroyRefused
      <3> QED
        BY <1>1, <2>2, <3>1, IdleCall
    <2> QED
      BY <1>7, <2>1, <2>2 DEF CallDestroy
  <1> QED
    BY <1>2, <1>3, <1>4, <1>5, <1>6, <1>7 DEF DispatchWindow, CallCreate


-----------------------------------------------------------------------------
(* Native inputs.                                                          *)

\* A step that changes nothing the role or the link depends on.
LEMMA Untouched ==
  ASSUME RoleInv, UNCHANGED <<entries, last_id, ending, deferred_last_window, linkVars>>,
         UNCHANGED <<session, reader_stop>>
  PROVE  RoleInv' /\ Streams
  <1>1. UNCHANGED <<generation, current, subscribed, broken, app>>
    BY DEF linkVars
  <1>2. Connected' = Connected /\ RoleTypeOK'
    BY <1>1 DEF Connected, RoleInv, RoleTypeOK, LinkState
  <1>3. LinkInv' /\ ToldInv'
    BY <1>1, <1>2 DEF RoleInv, LinkInv, ToldInv
  <1>4. RoleAgreesWithRegistry'
    BY <1>1, <1>2 DEF RoleInv, RoleAgreesWithRegistry, Owed, has_pending_call, Described
  <1>5. UNCHANGED WS!vars
    BY <1>1, <1>2 DEF WS!vars
  <1> QED
    BY <1>2, <1>3, <1>4, <1>5 DEF RoleInv, Streams

\* What an input finds.
LEMMA InputFinds ==
  ASSUME RegistryInv, QueueInv, RoleInv, NEW i \in DOMAIN entries
  PROVE  LET e == entries[i]
         IN  /\ i \in 1..last_id /\ i \in 1..IdLimit /\ e \in Entry /\ ending \in BOOLEAN
             /\ EntryInv(e, ending) /\ Served(e, current, subscribed, ending)
             /\ e.owner \in Owners /\ e.owner # None /\ e.owner_live \in BOOLEAN
  <1>1. i \in 1..last_id /\ ending \in BOOLEAN /\ last_id \in 0..IdLimit
    BY InvFacts
  <1>2. EntryInv(entries[i], ending) /\ Served(entries[i], current, subscribed, ending)
    BY <1>1 DEF RegistryInv, RoleInv, LinkInv
  <1>3. entries[i] \in Entry /\ entries[i].owner \in Owners /\ entries[i].owner_live \in BOOLEAN
    BY <1>2 DEF EntryInv, Entry
  <1> QED
    BY <1>1, <1>2, <1>3, LimitsAssumption, SessionAssumption

\* A write to a link that is down, or to nobody, is none.
LEMMA NobodyHears ==
  ASSUME RoleInv, ~Connected, ~broken, NEW o \in Owners, NEW a, WroteTo(o, a)
  PROVE  UNCHANGED linkVars
  <1>1. ~Heard(o)
    BY SessionAssumption DEF Heard, Connected
  <1> QED
    BY <1>1 DEF WroteTo

\* A native input while the link is down.
LEMMA Silent ==
  ASSUME RegistryInv, RoleInv, ~Connected, UNCHANGED linkVars, UNCHANGED <<session, reader_stop>>,
         NEW i \in 1..last_id, NEW f, SetEntry(i, f), Served(f, current, subscribed, ending)
  PROVE  RoleInv' /\ Streams
  <1>1. UNCHANGED <<generation, current, subscribed, broken, app>>
    BY DEF linkVars
  <1>2. AllServed /\ ending' = ending
    BY <1>1, OneServed
  <1>3. /\ app' = Blank /\ ~Connected' /\ LinkState'
        /\ subscribed' \in {None, current'} /\ (broken' => current' # None) /\ (ending' => reader_stop')
    BY <1>1, <1>2 DEF RoleInv, RoleTypeOK, LinkState, LinkInv, Connected
  <1> QED
    BY <1>2, <1>3, Cut

\* A write to the owner of a live window while the link is up.
LEMMA OwnerHears ==
  ASSUME Connected, subscribed = current, NEW a, WroteTo(current, a), UNCHANGED <<session, reader_stop>>
  PROVE  LinkFrame /\ Delivered(a)
  <1>1. Heard(current)
    BY DEF Heard, Connected
  <1> QED
    BY <1>1 DEF WroteTo, Wrote, Delivered, LinkFrame

\* A write that tells the role of one window, when the rest is shown.
LEMMA InputHeard ==
  ASSUME RegistryInv, QueueInv, CorrelationsParkedOnce, RoleInv, Connected, subscribed = current,
         LinkFrame, NEW i \in 1..last_id, NEW f, SetEntry(i, f),
         Served(f, current, subscribed, ending),
         NEW a \in Apps, a.seen = [app.seen EXCEPT ![i] = Said(f, current)],
         a.awaiting = (app.awaiting \ Parks(entries[i], current)) \cup Parks(f, current),
         Delivered(a),
         app' = a /\ broken' = FALSE => ToldInv' /\ (Connected' = Connected => Streams)
  PROVE  RoleInv' /\ Streams
  <1>1. /\ AllServed /\ entries'[i] = f /\ DOMAIN entries' = 1..last_id
        /\ UNCHANGED <<last_id, ending>>
        /\ \A j \in 1..last_id : j # i => entries'[j] = entries[j]
    BY OneServed DEF LinkFrame
  <1>2. CASE app' = Blank /\ broken' = TRUE
    <2>1. /\ ~Connected' /\ LinkState' /\ subscribed' \in {None, current'} /\ current' # None
          /\ ending' => reader_stop'
      BY <1>1, <1>2 DEF RoleInv, RoleTypeOK, LinkState, LinkInv, Connected, LinkFrame
    <2> QED
      BY <1>1, <1>2, <2>1, Cut
  <1>3. CASE app' = a /\ broken' = FALSE
    <2>1. LinkInv' /\ LinkState' /\ Connected'
      BY <1>1, <1>3, LinkKept
    <2>2. RoleAgreesWithRegistry'
      BY <1>1, <1>3, RoleHears DEF LinkFrame
    <2>3. Connected' = Connected
      BY <2>1 DEF Connected
    <2> QED
      BY <1>3, <2>1, <2>2, <2>3 DEF RoleInv, RoleTypeOK
  <1> QED
    BY <1>2, <1>3 DEF Delivered

\* The end of a window that belongs to nobody reports to nobody.
LEMMA OrphanEnds ==
  ASSUME RegistryInv, QueueInv, RoleInv, Connected, UNCHANGED linkVars, UNCHANGED <<session, reader_stop>>,
         NEW i \in 1..last_id, NEW f, SetEntry(i, f), UNCHANGED deferred_last_window,
         Served(f, current, subscribed, ending),
         Said(f, current) = Said(entries[i], current), Parks(f, current) = Parks(entries[i], current),
         entries[i].phase = "Closing", ~entries[i].owner_live, f.phase = "Destroyed"
  PROVE  RoleInv' /\ Streams
  <1>1. UNCHANGED <<generation, current, subscribed, broken, app>> /\ LinkFrame
    BY DEF linkVars, LinkFrame
  <1>2. /\ AllServed /\ entries'[i] = f /\ DOMAIN entries' = 1..last_id
        /\ UNCHANGED <<last_id, ending>>
        /\ \A j \in 1..last_id : j # i => entries'[j] = entries[j]
    BY <1>1, OneServed
  <1>3. broken' = FALSE
    BY <1>1 DEF Connected, RoleInv, RoleTypeOK, LinkState
  <1>4. LinkInv' /\ LinkState' /\ Connected'
    BY <1>1, <1>2, <1>3, LinkKept
  <1>5. RoleAgreesWithRegistry'
    BY <1>1, <1>2, RoleUntouched
  <1>6. ToldInv'
    BY <1>1, <1>2 DEF RoleInv, ToldInv, Shown
  <1>7. UNCHANGED WS!vars
    BY <1>1, <1>4 DEF WS!vars, Connected
  <1> QED
    BY <1>1, <1>4, <1>5, <1>6, <1>7 DEF RoleInv, RoleTypeOK, Streams


(* What the role knows after a window opened, after a failed build and after *)
(* the end of a window.                                                     *)
OpenedApp(i, st, c) == [app EXCEPT !.seen[i] = Live(st, 0), !.told = FALSE, !.awaiting = @ \ {c}]
FailedApp(c, last) == [app EXCEPT !.awaiting = @ \ {c}, !.told = @ \/ last]
GoneApp(i, last, answered) ==
  [app EXCEPT !.seen[i] = Gone, !.told = @ \/ last, !.awaiting = @ \ answered]

(* What these hold, field by field.                                        *)
IsOpened(a, i, st, c) ==
  /\ a \in Apps /\ a.seen = [app.seen EXCEPT ![i] = Live(st, 0)]
  /\ \A x : x \in a.awaiting <=> x \in app.awaiting /\ x # c
  /\ a.told = FALSE /\ a.clean = app.clean
IsFailed(a, c, last) ==
  /\ a \in Apps /\ a.seen = app.seen
  /\ \A x : x \in a.awaiting <=> x \in app.awaiting /\ x # c
  /\ a.told = (app.told \/ last) /\ a.clean = app.clean
IsGone(a, i, last, answered) ==
  /\ a \in Apps /\ a.seen = [app.seen EXCEPT ![i] = Gone]
  /\ \A x : x \in a.awaiting <=> x \in app.awaiting /\ x \notin answered
  /\ a.told = (app.told \/ last) /\ a.clean = app.clean

\* A window opened.
LEMMA AppOpened ==
  ASSUME app \in Apps, NEW i \in 1..IdLimit, NEW st \in WindowStates, NEW c
  PROVE  IsOpened(OpenedApp(i, st, c), i, st, c)
  <1> DEFINE q == [app.seen EXCEPT ![i] = Live(st, 0)]
             a == OpenedApp(i, st, c)
  <1>1. /\ app.seen \in [1..IdLimit -> Seen] /\ app.awaiting \subseteq Correlations
        /\ app.clean \in BOOLEAN
        /\ app = [seen |-> app.seen, awaiting |-> app.awaiting, told |-> app.told, clean |-> app.clean]
    BY DEF Apps
  <1>9. PICK w : w = app.awaiting \ {c}
    OBVIOUS
  <1>2. Live(st, 0) \in Seen
    BY SaidTypes, ZeroInRange
  <1>3. q \in [1..IdLimit -> Seen] /\ w \subseteq Correlations
    BY <1>1, <1>2, <1>9
  <1>4. a = [[[app EXCEPT !.seen = q] EXCEPT !.told = FALSE] EXCEPT !.awaiting = w]
    BY <1>1, <1>9 DEF OpenedApp
  <1>5. a = [seen |-> q, awaiting |-> w, told |-> FALSE, clean |-> app.clean]
    BY ONLY <1>1, <1>4
  <1>6. /\ a.seen = q /\ a.awaiting = w /\ a.told = FALSE /\ a.clean = app.clean /\ a \in Apps
    <2> HIDE DEF q
    <2> QED
      BY ONLY <1>1, <1>3, <1>5 DEF Apps
  <1> HIDE DEF a
  <1> QED
    BY <1>6, <1>9 DEF IsOpened, a

\* A build failed.
LEMMA AppFailed ==
  ASSUME app \in Apps, NEW c, NEW last \in BOOLEAN
  PROVE  IsFailed(FailedApp(c, last), c, last)
  <1> DEFINE a == FailedApp(c, last)
  <1>1. /\ app.seen \in [1..IdLimit -> Seen] /\ app.awaiting \subseteq Correlations
        /\ app.clean \in BOOLEAN /\ app.told \in BOOLEAN
        /\ app = [seen |-> app.seen, awaiting |-> app.awaiting, told |-> app.told, clean |-> app.clean]
    BY DEF Apps
  <1>9. PICK w : w = app.awaiting \ {c}
    OBVIOUS
  <1>2. PICK b : b = (app.told \/ last)
    OBVIOUS
  <1>3. w \subseteq Correlations /\ b \in BOOLEAN
    BY <1>1, <1>2, <1>9
  <1>4. a = [[app EXCEPT !.awaiting = w] EXCEPT !.told = b]
    BY <1>1, <1>2, <1>9 DEF FailedApp
  <1>5. a = [seen |-> app.seen, awaiting |-> w, told |-> b, clean |-> app.clean]
    BY ONLY <1>1, <1>4
  <1>6. /\ a.seen = app.seen /\ a.awaiting = w /\ a.told = b /\ a.clean = app.clean /\ a \in Apps
    BY ONLY <1>1, <1>3, <1>5 DEF Apps
  <1> HIDE DEF a
  <1> QED
    BY <1>2, <1>6, <1>9 DEF IsFailed, a

\* A window ended.
LEMMA AppGone ==
  ASSUME app \in Apps, NEW i \in 1..IdLimit, NEW answered, NEW last \in BOOLEAN
  PROVE  IsGone(GoneApp(i, last, answered), i, last, answered)
  <1> DEFINE q == [app.seen EXCEPT ![i] = Gone]
             a == GoneApp(i, last, answered)
  <1>1. /\ app.seen \in [1..IdLimit -> Seen] /\ app.awaiting \subseteq Correlations
        /\ app.clean \in BOOLEAN /\ app.told \in BOOLEAN
        /\ app = [seen |-> app.seen, awaiting |-> app.awaiting, told |-> app.told, clean |-> app.clean]
    BY DEF Apps
  <1>9. PICK w : w = app.awaiting \ answered
    OBVIOUS
  <1>2. PICK b : b = (app.told \/ last)
    OBVIOUS
  <1>3. q \in [1..IdLimit -> Seen] /\ w \subseteq Correlations /\ b \in BOOLEAN
    BY <1>1, <1>2, <1>9, SaidTypes
  <1>4. a = [[[app EXCEPT !.seen = q] EXCEPT !.told = b] EXCEPT !.awaiting = w]
    BY <1>1, <1>2, <1>9 DEF GoneApp
  <1>5. a = [seen |-> q, awaiting |-> w, told |-> b, clean |-> app.clean]
    BY ONLY <1>1, <1>4
  <1>6. /\ a.seen = q /\ a.awaiting = w /\ a.told = b /\ a.clean = app.clean /\ a \in Apps
    <2> HIDE DEF q
    <2> QED
      BY ONLY <1>1, <1>3, <1>5 DEF Apps
  <1> HIDE DEF a
  <1> QED
    BY <1>2, <1>6, <1>9 DEF IsGone, a


\* A window opens: Created, with the answer of its Create call.
LEMMA BuiltHeard ==
  ASSUME RegistryInv, QueueInv, CorrelationsParkedOnce, RoleInv, ~broken,
         UNCHANGED <<session, reader_stop>>, NEW i \in DOMAIN entries, NEW b,
         NEW v \in Views, NEW st \in WindowStates, BuiltCreates(i, b, v, st),
         WroteTo(entries[i].call.owner, OpenedApp(i, st, entries[i].call.correlation))
  PROVE  RoleInv' /\ Streams
  <1> DEFINE e == entries[i]
             f == Opened(e, v, st)
             c == e.call.correlation
  <1>1. e.phase = "Opening" /\ SetEntry(i, f) /\ deferred_last_window' = FALSE
    BY DEF BuiltCreates
  <1>2. /\ i \in 1..last_id /\ i \in 1..IdLimit /\ ending \in BOOLEAN
        /\ EntryInv(e, ending) /\ Served(e, current, subscribed, ending)
        /\ e.owner \in Owners
    BY InputFinds
  <1>3. /\ Served(f, current, subscribed, ending) /\ f.phase = "Open" /\ f.owner_live
        /\ e.owner = current /\ subscribed = current
        /\ e.call \in PendingWindowCall /\ e.call.owner = current
        /\ Said(e, current) = Unseen /\ Said(f, current) = Live(st, 0)
        /\ Parks(e, current) = {c} /\ Parks(f, current) = {}
    BY <1>1, <1>2, OpenedSaid
  <1> HIDE DEF f
  <1>4. CASE ~Connected
    <2>1. UNCHANGED linkVars
      BY <1>2, <1>3, <1>4, NobodyHears
    <2> QED
      BY <1>1, <1>2, <1>3, <1>4, <2>1, Silent
  <1>5. CASE Connected
    <2>1. PICK a : a = OpenedApp(i, st, c)
      OBVIOUS
    <2>3. LinkFrame /\ Delivered(a)
      BY <1>3, <1>5, <2>1, OwnerHears
    <2>4. /\ app \in Apps /\ app.seen[i] = Unseen /\ c \in app.awaiting
          /\ app.seen \in [1..IdLimit -> Seen]
      <3>1. app.seen[i] = Unseen
        BY <1>2, <1>3, <1>5, Agreement
      <3>2. c \in Correlations
        BY <1>3 DEF PendingWindowCall
      <3>3. c \in app.awaiting
        BY <1>2, <1>3, <1>5, <3>2, Agreement
      <3> QED
        BY <3>1, <3>3 DEF RoleInv, RoleTypeOK, Apps
    <2>5. /\ a \in Apps /\ a.seen = [app.seen EXCEPT ![i] = Live(st, 0)]
          /\ \A x : x \in a.awaiting <=> x \in app.awaiting /\ x # c
          /\ a.told = FALSE /\ a.clean = app.clean
      <3>1. app \in Apps /\ i \in 1..IdLimit /\ st \in WindowStates
        BY <1>2, <2>4
      <3> HIDE DEF c
      <3>2. IsOpened(a, i, st, c)
        BY ONLY <2>1, <3>1, AppOpened
      <3> QED
        BY ONLY <3>2 DEF IsOpened
    <2>6. /\ a.seen = [app.seen EXCEPT ![i] = Said(f, current)]
          /\ a.awaiting = (app.awaiting \ Parks(e, current)) \cup Parks(f, current)
      BY <1>3, <2>5
    <2>7. ASSUME app' = a, broken' = FALSE
          PROVE  ToldInv' /\ (Connected' = Connected => Streams)
      <3>1. /\ entries'[i] = f /\ last_id' = last_id
            /\ \A j \in 1..last_id : j # i => entries'[j] = entries[j]
            /\ UNCHANGED <<current, subscribed>>
        BY <1>1, <1>2, <1>3, <2>3, OneServed DEF LinkFrame
      <3>2. app'.told = FALSE /\ app'.clean = app.clean
        BY <2>5, <2>7
      <3>3. ToldInv'
        BY <1>1, <1>2, <1>3, <1>5, <3>1, <3>2 DEF RoleInv, ToldInv, Shown
      <3>4. ASSUME Connected' = Connected
            PROVE  WS!Created(i)
        <4>1. /\ app'.seen = [app.seen EXCEPT ![i] = Live(st, 0)] /\ app'.awaiting = app.awaiting \ {c}
              /\ app'.told = FALSE
          BY <2>5, <2>7
        <4> QED
          BY <1>5, <2>4, <3>4, <4>1, StreamTerms DEF WS!Created
      <3> QED
        BY <1>2, <3>3, <3>4 DEF Streams, WS!Next
    <2> QED
      BY <1>1, <1>2, <1>3, <1>5, <2>3, <2>5, <2>6, <2>7, InputHeard
  <1> QED
    BY <1>4, <1>5

\* A build that outlived its window.
LEMMA LateHeard ==
  ASSUME RegistryInv, QueueInv, CorrelationsParkedOnce, RoleInv, ~broken,
         UNCHANGED <<session, reader_stop>>, NEW i \in DOMAIN entries, NEW b,
         NEW v \in Views, NEW st \in WindowStates, BuiltCleansUp(i, b, v, st), UNCHANGED linkVars
  PROVE  RoleInv' /\ Streams
  <1> DEFINE e == entries[i]
             f == BuiltLate(e, v, st)
  <1>1. /\ e.phase = "Closing" /\ e.view = None /\ SetEntry(i, f) /\ UNCHANGED deferred_last_window
    BY DEF BuiltCleansUp
  <1>2. /\ i \in 1..last_id /\ ending \in BOOLEAN
        /\ EntryInv(e, ending) /\ Served(e, current, subscribed, ending)
    BY InputFinds
  <1>3. /\ Served(f, current, subscribed, ending) /\ f.phase = "Closing" /\ f.owner_live = e.owner_live
        /\ ~ending => Said(f, current) = Said(e, current) /\ Parks(f, current) = Parks(e, current)
    BY <1>1, <1>2, LateSaid
  <1> HIDE DEF f
  <1>4. CASE ~Connected
    BY <1>1, <1>2, <1>3, <1>4, Silent
  <1>5. CASE Connected
    <2>1. LinkFrame /\ app' = app /\ broken' = FALSE /\ ~ending
      BY <1>5, Agreement DEF LinkFrame, linkVars, RoleInv, RoleTypeOK, LinkState
    <2> QED
      BY <1>1, <1>2, <1>3, <1>5, <2>1, Unheard
  <1> QED
    BY <1>4, <1>5


\* A failed build: the Create call is answered, with LastWindowClosed when the
\* check waited for it.
LEMMA FailedHeard ==
  ASSUME RegistryInv, QueueInv, CorrelationsParkedOnce, RoleInv, ~broken,
         UNCHANGED <<session, reader_stop>>, NEW i \in DOMAIN entries, NEW b, BuildFails(i, b),
         IF FailedCall(i) = None THEN UNCHANGED linkVars
         ELSE WroteTo(entries[i].owner, FailedApp(entries[i].call.correlation, FailureIsLast(i)))
  PROVE  RoleInv' /\ Streams
  <1> DEFINE e == entries[i]
             f == BuildLost(e)
             c == e.call.correlation
             last == FailureIsLast(i)
  <1>1. /\ e.phase = "Opening" \/ (e.phase = "Closing" /\ e.view = None)
        /\ SetEntry(i, f) /\ deferred_last_window' = (deferred_last_window /\ ~last)
    BY DEF BuildFails
  <1>2. /\ i \in 1..last_id /\ i \in 1..IdLimit /\ ending \in BOOLEAN
        /\ EntryInv(e, ending) /\ Served(e, current, subscribed, ending)
        /\ e.owner \in Owners /\ e.owner_live \in BOOLEAN
    BY InputFinds
  <1>3. /\ Served(f, current, subscribed, ending) /\ f.phase = "Destroyed"
        /\ f.owner_live = e.owner_live
        /\ ~ending => Said(f, current) = Said(e, current)
        /\ Parks(f, current) = {}
        /\ e.phase = "Opening" =>
             /\ e.owner_live /\ e.owner = current /\ subscribed = current
             /\ e.call \in PendingWindowCall /\ Parks(e, current) = {c}
        /\ e.phase = "Closing" /\ ~ending => ~e.owner_live /\ Parks(e, current) = {}
    BY <1>1, <1>2, LostSaid
  <1> HIDE DEF f
  <1>4. CASE ~Connected
    <2>1. UNCHANGED linkVars
      BY <1>2, <1>4, NobodyHears
    <2> QED
      BY <1>1, <1>2, <1>3, <1>4, <2>1, Silent
  <1>5. CASE Connected /\ e.phase = "Closing"
    <2>1. ~ending
      BY <1>5, Agreement
    <2>2. FailedCall(i) = None /\ deferred_last_window \in BOOLEAN
      BY <1>3, <1>5, <2>1, InvFacts DEF FailedCall
    <2>3. ~last
      BY <2>2 DEF FailureIsLast
    <2>4. UNCHANGED linkVars /\ UNCHANGED deferred_last_window
      BY <1>1, <2>2, <2>3
    <2> HIDE DEF last
    <2> QED
      BY <1>1, <1>2, <1>3, <1>5, <2>1, <2>4, OrphanEnds
  <1>6. CASE Connected /\ e.phase = "Opening"
    <2>1. ~ending /\ e.owner_live /\ e.owner = current /\ subscribed = current
      BY <1>3, <1>6, Agreement
    <2>2. FailedCall(i) = e.call /\ e.call # None /\ c \in Correlations
      BY <1>3, <1>6, <2>1, NoneAssumption DEF FailedCall, PendingWindowCall
    <2>3. WroteTo(current, FailedApp(c, last))
      BY <2>1, <2>2
    <2>4. last \in BOOLEAN /\ deferred_last_window \in BOOLEAN
      BY InvFacts DEF FailureIsLast
    <2>5. last => /\ deferred_last_window
                  /\ \A j \in 1..last_id : j # i => entries[j].phase = "Destroyed"
      BY InvFacts DEF FailureIsLast
    <2> HIDE DEF last
    <2>6. PICK a : a = FailedApp(c, last)
      OBVIOUS
    <2>7. LinkFrame /\ Delivered(a)
      BY <1>6, <2>1, <2>3, <2>6, OwnerHears
    <2>8. app \in Apps /\ app.seen \in [1..IdLimit -> Seen] /\ app.told \in BOOLEAN
      BY DEF RoleInv, RoleTypeOK, Apps
    <2>9. IsFailed(a, c, last)
      <3> HIDE DEF c
      <3> QED
        BY ONLY <2>4, <2>6, <2>8, AppFailed
    <2>10. /\ a \in Apps /\ a.seen = app.seen
           /\ \A x : x \in a.awaiting <=> x \in app.awaiting /\ x # c
           /\ a.told = (app.told \/ last) /\ a.clean = app.clean
      BY ONLY <2>9 DEF IsFailed
    <2>11. /\ \A j \in 1..last_id : app.seen[j] = Said(entries[j], current)
           /\ \A j \in 1..IdLimit : j \notin 1..last_id => app.seen[j] = Unseen
           /\ c \in app.awaiting
      <3>1. c \in Parks(e, current)
        BY <1>3, <1>6
      <3> QED
        BY <1>2, <1>6, <2>1, <2>2, <3>1, Agreement
    <2>12. app.seen[i] = Unseen /\ Said(f, current) = Unseen
      <3>1. Said(e, current) = Unseen
        BY <1>2, <1>6 DEF Said, Served
      <3> QED
        BY <1>2, <1>3, <2>1, <2>11, <3>1
    <2>13. /\ a.seen = [app.seen EXCEPT ![i] = Said(f, current)]
           /\ a.awaiting = (app.awaiting \ Parks(e, current)) \cup Parks(f, current)
      <3>1. [app.seen EXCEPT ![i] = Said(f, current)] = app.seen
        BY <1>2, <2>8, <2>12
      <3>2. Parks(e, current) = {c} /\ Parks(f, current) = {}
        BY <1>3, <1>6
      <3> QED
        BY ONLY <2>10, <3>1, <3>2
    <2>14. ASSUME app' = a, broken' = FALSE
           PROVE  ToldInv' /\ (Connected' = Connected => Streams)
      <3>1. /\ entries'[i] = f /\ last_id' = last_id
            /\ \A j \in 1..last_id : j # i => entries'[j] = entries[j]
            /\ UNCHANGED <<current, subscribed>>
        BY <1>1, <1>2, <1>3, <2>7, OneServed DEF LinkFrame
      <3>2. app'.told = (app.told \/ last) /\ app'.clean = app.clean /\ app'.seen = app.seen
        BY <2>10, <2>14
      <3>3. \A j \in 1..last_id :
              /\ entries'[j].phase \in {"Opening", "Destroyed"} <=> entries[j].phase \in {"Opening", "Destroyed"}
              /\ entries'[j].phase = "Closing" => entries[j].phase = "Closing"
              /\ Shown(entries'[j]) => Shown(entries[j])
              /\ entries'[j].owner_live = entries[j].owner_live
              /\ last => entries'[j].phase \in {"Opening", "Destroyed"}
        BY <1>3, <1>6, <2>5, <3>1 DEF Shown
      <3>4. ToldInv'
        BY <1>1, <1>6, <2>4, <2>5, <3>1, <3>2, <3>3 DEF RoleInv, ToldInv
      <3>5. last => WS!AllGone(app.seen)
        <4> SUFFICES ASSUME last PROVE WS!AllGone(app.seen)
          OBVIOUS
        <4>1. \E j \in 1..IdLimit : app.seen[j] = Gone
          BY <1>6, <2>5 DEF RoleInv, ToldInv
        <4>2. ASSUME NEW j \in 1..IdLimit
              PROVE  app.seen[j].status # "live"
          <5>1. app.seen[j] \in {Unseen, Gone}
            BY <2>5, <2>11, <2>12 DEF Said
          <5> QED
            BY <5>1, SaidTypes
        <4> QED
          BY <4>1, <4>2, SaidTypes DEF WS!AllGone
      <3>6. ASSUME Connected' = Connected
            PROVE  WS!CreateFailed
        <4>1. app'.awaiting = app.awaiting \ {c}
          BY <2>10, <2>14
        <4>2. WS!MayTell
          BY <2>4, <2>8, <3>2, <3>5 DEF WS!MayTell
        <4> QED
          BY <1>6, <2>11, <3>2, <3>6, <4>1, <4>2 DEF WS!CreateFailed
      <3> QED
        BY <3>4, <3>6 DEF Streams, WS!Next
    <2> QED
      BY <1>1, <1>2, <1>3, <1>6, <2>1, <2>7, <2>10, <2>13, <2>14, InputHeard
  <1> QED
    BY <1>1, <1>4, <1>5, <1>6


\* The user closes a window: its owner, if there is one, is asked.
LEMMA CloseHeard ==
  ASSUME RegistryInv, QueueInv, CorrelationsParkedOnce, RoleInv, ~broken,
         UNCHANGED <<session, reader_stop>>, NEW i \in DOMAIN entries, NEW v, NativeClose(i, v),
         IF entries[i].owner_live
         THEN WroteTo(entries[i].owner, [app EXCEPT !.seen[i].asked = entries'[i].close_seq])
         ELSE UNCHANGED linkVars
  PROVE  RoleInv' /\ Streams
  <1> DEFINE e == entries[i]
             f == CloseAsked(e)
  <1>1. /\ e.phase = "Open" /\ CloseSeqLeft(e) /\ SetEntry(i, f) /\ UNCHANGED deferred_last_window
    BY DEF NativeClose
  <1>2. /\ i \in 1..last_id /\ i \in 1..IdLimit /\ ending \in BOOLEAN
        /\ EntryInv(e, ending) /\ Served(e, current, subscribed, ending)
        /\ e.owner \in Owners /\ e.owner_live \in BOOLEAN
    BY InputFinds
  <1>3. /\ Served(f, current, subscribed, ending) /\ f.phase = "ClosePending"
        /\ f.owner_live = e.owner_live
        /\ f.close_seq \in 1..CloseSeqLimit
        /\ Parks(f, current) = {} /\ Parks(e, current) = {}
        /\ e.owner_live => /\ Said(e, current) = Live(e.state, 0)
                           /\ Said(f, current) = Live(e.state, f.close_seq)
        /\ ~e.owner_live => Said(f, current) = Said(e, current)
    BY <1>1, <1>2, AskedSaid
  <1>4. f.close_seq \in 0..CloseSeqLimit
    BY <1>3, LimitsAssumption
  <1> HIDE DEF f
  <1>5. CASE ~Connected
    <2>1. UNCHANGED linkVars
      BY <1>2, <1>5, NobodyHears
    <2> QED
      BY <1>1, <1>2, <1>3, <1>5, <2>1, Silent
  <1>6. CASE Connected /\ ~e.owner_live
    <2>1. LinkFrame /\ app' = app /\ broken' = FALSE
      BY <1>6 DEF LinkFrame, linkVars, RoleInv, RoleTypeOK, LinkState
    <2>2. Shown(f) /\ Shown(e)
      BY <1>1, <1>3 DEF Shown
    <2> QED
      BY <1>1, <1>2, <1>3, <1>6, <2>1, <2>2, Unheard
  <1>7. CASE Connected /\ e.owner_live
    <2>1. e.owner = current /\ subscribed = current
      BY <1>2, <1>7 DEF Served
    <2>2. /\ WroteTo(current, [app EXCEPT !.seen[i].asked = entries'[i].close_seq])
      BY <1>7, <2>1
    <2>3. UNCHANGED <<current, subscribed>>
      BY <2>2 DEF WroteTo, Wrote, linkVars
    <2>4. entries'[i] = f
      BY <1>1, <1>2, <1>3, <2>3, OneServed
    <2>5. PICK a : a = AskedApp(i, f.close_seq)
      OBVIOUS
    <2>6. WroteTo(current, a)
      BY <2>2, <2>4, <2>5 DEF AskedApp
    <2>7. LinkFrame /\ Delivered(a)
      BY <1>7, <2>1, <2>6, OwnerHears
    <2>8. app \in Apps /\ app.seen[i] = Live(e.state, 0)
      BY <1>2, <1>3, <1>7, <2>1, Agreement DEF RoleInv, RoleTypeOK
    <2>9. /\ a \in Apps /\ a.seen = [app.seen EXCEPT ![i] = Live(e.state, f.close_seq)]
          /\ a.awaiting = app.awaiting /\ a.told = app.told /\ a.clean = app.clean
      <3>1. i \in 1..IdLimit
        BY <1>2
      <3> QED
        BY ONLY <1>4, <2>5, <2>8, <3>1, AppAsked
    <2>10. StaysLive(e, f) /\ Changes(e.state, 0, e.state, f.close_seq, a.awaiting)
      BY <1>1, <1>2, <1>3, <1>7, <2>9 DEF Shown, StaysLive, Changes
    <2>11. a.awaiting = (app.awaiting \ Parks(e, current)) \cup Parks(f, current)
      BY <1>3, <2>9
    <2> QED
      BY <1>1, <1>2, <1>3, <1>7, <2>1, <2>7, <2>9, <2>10, <2>11, WindowHeard
  <1> QED
    BY <1>5, <1>6, <1>7

\* A fact about a shown window is written when it changes something and the
\* window has an owner.
LEMMA FactHeard ==
  ASSUME RegistryInv, QueueInv, CorrelationsParkedOnce, RoleInv, ~broken,
         UNCHANGED <<session, reader_stop>>, NEW i \in DOMAIN entries, NEW v,
         NEW p \in Attrs, NEW x \in Values, FactUpdates(i, v, p, x),
         IF entries[i].owner_live /\ entries[i].state[p] # x
         THEN WroteTo(entries[i].owner, [app EXCEPT !.seen[i].state = entries'[i].state])
         ELSE UNCHANGED linkVars
  PROVE  RoleInv' /\ Streams
  <1> DEFINE e == entries[i]
             f == [e EXCEPT !.state = [@ EXCEPT ![p] = x]]
  <1>1. Shown(e) /\ SetEntry(i, f) /\ UNCHANGED deferred_last_window
    BY DEF FactUpdates
  <1>2. /\ i \in 1..last_id /\ i \in 1..IdLimit /\ ending \in BOOLEAN
        /\ EntryInv(e, ending) /\ Served(e, current, subscribed, ending)
        /\ e.owner \in Owners /\ e.owner_live \in BOOLEAN
    BY InputFinds
  <1>3. /\ Served(f, current, subscribed, ending) /\ f.phase = e.phase
        /\ f.owner_live = e.owner_live
        /\ Parks(f, current) = {} /\ Parks(e, current) = {}
        /\ f.state \in WindowStates
        /\ e.state[p] = x => f.state = e.state
        /\ e.state[p] # x => f.state # e.state
        /\ e.owner_live => /\ Said(e, current) = Live(e.state, e.close_seq)
                           /\ Said(f, current) = Live(f.state, e.close_seq)
        /\ ~e.owner_live => Said(f, current) = Said(e, current)
    BY <1>1, <1>2, UpdatedSaid
  <1> HIDE DEF f
  <1>4. CASE ~Connected
    <2>1. UNCHANGED linkVars
      BY <1>2, <1>4, NobodyHears
    <2> QED
      BY <1>1, <1>2, <1>3, <1>4, <2>1, Silent
  <1>5. CASE Connected /\ ~(e.owner_live /\ e.state[p] # x)
    <2>1. LinkFrame /\ app' = app /\ broken' = FALSE
      BY <1>5 DEF LinkFrame, linkVars, RoleInv, RoleTypeOK, LinkState
    <2>2. Said(f, current) = Said(e, current) /\ Parks(f, current) = Parks(e, current)
      BY <1>3, <1>5
    <2> QED
      BY <1>1, <1>2, <1>3, <1>5, <2>1, <2>2, Unheard
  <1>6. CASE Connected /\ e.owner_live /\ e.state[p] # x
    <2>1. e.owner = current /\ subscribed = current
      BY <1>2, <1>6 DEF Served
    <2>2. WroteTo(current, [app EXCEPT !.seen[i].state = entries'[i].state])
      BY <1>6, <2>1
    <2>3. UNCHANGED <<current, subscribed>>
      BY <2>2 DEF WroteTo, Wrote, linkVars
    <2>4. entries'[i] = f
      BY <1>1, <1>2, <1>3, <2>3, OneServed
    <2>5. PICK a : a = FactApp(i, f.state)
      OBVIOUS
    <2>6. WroteTo(current, a)
      BY <2>2, <2>4, <2>5 DEF FactApp
    <2>7. LinkFrame /\ Delivered(a)
      BY <1>6, <2>1, <2>6, OwnerHears
    <2>8. app \in Apps /\ app.seen[i] = Live(e.state, e.close_seq)
      BY <1>2, <1>3, <1>6, <2>1, Agreement DEF RoleInv, RoleTypeOK
    <2>9. /\ a \in Apps /\ a.seen = [app.seen EXCEPT ![i] = Live(f.state, e.close_seq)]
          /\ a.awaiting = app.awaiting /\ a.told = app.told /\ a.clean = app.clean
      <3>1. i \in 1..IdLimit /\ f.state \in WindowStates
        BY <1>2, <1>3
      <3> HIDE DEF e
      <3> QED
        BY ONLY <2>5, <2>8, <3>1, AppFact
    <2>10. StaysLive(e, f) /\ Changes(e.state, e.close_seq, f.state, e.close_seq, a.awaiting)
      BY <1>1, <1>2, <1>3, <1>6, <2>9 DEF Shown, StaysLive, Changes
    <2>11. a.awaiting = (app.awaiting \ Parks(e, current)) \cup Parks(f, current)
      BY <1>3, <2>9
    <2> QED
      BY <1>1, <1>2, <1>3, <1>6, <2>1, <2>7, <2>9, <2>10, <2>11, WindowHeard
  <1> QED
    BY <1>4, <1>5, <1>6

\* A fact about a window in teardown is dropped.
LEMMA DropHeard ==
  ASSUME RegistryInv, QueueInv, RoleInv, ~broken,
         UNCHANGED <<session, reader_stop>>, NEW i \in DOMAIN entries, NEW v, FactDrops(i, v),
         UNCHANGED linkVars
  PROVE  RoleInv' /\ Streams
  <1> DEFINE e == entries[i]
             f == [e EXCEPT !.dropped = SaturatingInc(e.dropped)]
  <1>1. /\ i \in 1..last_id /\ e \in Entry /\ Served(e, current, subscribed, ending)
    BY InputFinds
  <1>2. /\ Said(f, current) = Said(e, current) /\ Parks(f, current) = Parks(e, current)
        /\ Served(f, current, subscribed, ending)
        /\ f.phase = e.phase /\ f.owner_live = e.owner_live
    BY <1>1, DroppedSaid
  <1>3. CASE SetEntry(i, f) /\ UNCHANGED deferred_last_window
    <2> HIDE DEF f
    <2>1. CASE ~Connected
      BY <1>1, <1>2, <1>3, <2>1, Silent
    <2>2. CASE Connected
      <3>1. LinkFrame /\ app' = app /\ broken' = FALSE
        BY DEF LinkFrame, linkVars, RoleInv, RoleTypeOK, LinkState
      <3> QED
        BY <1>1, <1>2, <1>3, <2>2, <3>1, Unheard
    <2> QED
      BY <2>1, <2>2
  <1>4. CASE UNCHANGED <<ready, ending, last_id, last_incarnation, entries, deferred_last_window>>
    BY <1>4, Untouched
  <1> QED
    BY <1>3, <1>4 DEF FactDrops


\* A receipt: Destroyed, then LastWindowClosed, then the Destroy answers.
LEMMA ReleaseHeard ==
  ASSUME RegistryInv, QueueInv, CorrelationsParkedOnce, RoleInv, ~broken,
         UNCHANGED <<session, reader_stop>>, NEW i \in DOMAIN entries, NEW v, NativeReleased(i, v),
         NEW answered,
         answered = {entries[i].destroy_calls[k].correlation : k \in DOMAIN entries[i].destroy_calls},
         IF ReleaseHasFact(i)
         THEN WroteTo(entries[i].owner, GoneApp(i, ReleaseIsLast(i), answered))
         ELSE UNCHANGED linkVars
  PROVE  RoleInv' /\ Streams
  <1> DEFINE e == entries[i]
             f == Released(e)
             last == ReleaseIsLast(i)
  <1>1. /\ e.phase = "Closing" /\ SetEntry(i, f)
        /\ deferred_last_window' =
             IF ~ReleaseHasFact(i) \/ ending THEN deferred_last_window
             ELSE IF last THEN FALSE
             ELSE deferred_last_window \/ only_opening_windows(entries')
    BY DEF NativeReleased
  <1>2. /\ i \in 1..last_id /\ i \in 1..IdLimit /\ ending \in BOOLEAN /\ e \in Entry
        /\ EntryInv(e, ending) /\ Served(e, current, subscribed, ending)
        /\ e.owner \in Owners /\ e.owner_live \in BOOLEAN
    BY InputFinds
  <1>3. /\ Served(f, current, subscribed, ending) /\ f.phase = "Destroyed"
        /\ f.owner_live = e.owner_live
        /\ Parks(f, current) = {}
        /\ e.owner_live /\ e.created => /\ Said(f, current) = Gone /\ Said(e, current) = Live(e.state, 0)
                                        /\ e.owner = current /\ subscribed = current
        /\ ~(e.owner_live /\ e.created) => Said(f, current) = Said(e, current)
        /\ ~e.owner_live => Parks(e, current) = {}
        /\ e.owner_live /\ ~ending => e.created
        /\ e.owner_live => Parks(e, current) = {c \in Correlations :
             \E k \in 1..Len(e.destroy_calls) : e.destroy_calls[k].correlation = c}
    BY <1>1, <1>2, ReleasedSaid
  <1> HIDE DEF f
  <1>4. CASE ~Connected
    <2>1. UNCHANGED linkVars
      BY <1>2, <1>4, NobodyHears
    <2> QED
      BY <1>1, <1>2, <1>3, <1>4, <2>1, Silent
  <1>5. CASE Connected /\ ~ReleaseHasFact(i)
    <2>1. ~ending
      BY <1>5, Agreement
    <2>2. ~e.owner_live
      BY <1>3, <1>5, <2>1 DEF ReleaseHasFact
    <2>3. UNCHANGED linkVars /\ UNCHANGED deferred_last_window
      BY <1>1, <1>5
    <2> HIDE DEF last
    <2> QED
      BY <1>1, <1>2, <1>3, <1>5, <2>2, <2>3, OrphanEnds
  <1>6. CASE Connected /\ ReleaseHasFact(i)
    <2>1. ~ending /\ e.owner_live /\ e.created /\ e.owner = current /\ subscribed = current
      BY <1>3, <1>6, Agreement DEF ReleaseHasFact
    <2>2. WroteTo(current, GoneApp(i, last, answered))
      BY <1>6, <2>1
    <2>3. last \in BOOLEAN /\ deferred_last_window \in BOOLEAN
      BY InvFacts DEF ReleaseIsLast
    <2>4. last <=> \A j \in 1..last_id : j # i => entries[j].phase = "Destroyed"
      BY <1>6, <2>1, InvFacts DEF ReleaseIsLast
    <2>5. deferred_last_window' = IF last THEN FALSE
                                  ELSE deferred_last_window \/ only_opening_windows(entries')
      BY <1>1, <1>6, <2>1
    <2> HIDE DEF last
    <2>6. PICK a : a = GoneApp(i, last, answered)
      OBVIOUS
    <2>7. LinkFrame /\ Delivered(a)
      BY <1>6, <2>1, <2>2, <2>6, OwnerHears
    <2>8. /\ app \in Apps /\ app.seen \in [1..IdLimit -> Seen] /\ app.told \in BOOLEAN
          /\ app.awaiting \subseteq Correlations
      BY DEF RoleInv, RoleTypeOK, Apps
    <2>9. IsGone(a, i, last, answered)
      <3>1. i \in 1..IdLimit
        BY <1>2
      <3> QED
        BY ONLY <2>3, <2>6, <2>8, <3>1, AppGone
    <2>10. /\ a \in Apps /\ a.seen = [app.seen EXCEPT ![i] = Gone]
           /\ \A x : x \in a.awaiting <=> x \in app.awaiting /\ x \notin answered
           /\ a.told = (app.told \/ last) /\ a.clean = app.clean
      BY ONLY <2>9 DEF IsGone
    <2>11. /\ \A j \in 1..last_id : app.seen[j] = Said(entries[j], current)
           /\ \A j \in 1..IdLimit : j \notin 1..last_id => app.seen[j] = Unseen
           /\ app.seen[i] = Live(e.state, 0)
      BY <1>2, <1>3, <1>6, <2>1, Agreement
    <2>12. \A x : x \in Correlations => (x \in answered <=> x \in Parks(e, current))
      <3>1. DOMAIN e.destroy_calls = 1..Len(e.destroy_calls)
        BY <1>2 DEF Entry
      <3>2. Parks(e, current) = {c \in Correlations :
              \E k \in 1..Len(e.destroy_calls) : e.destroy_calls[k].correlation = c}
        BY <1>3, <2>1
      <3> QED
        BY <3>1, <3>2
    <2>13. a.awaiting = (app.awaiting \ Parks(e, current)) \cup Parks(f, current)
      BY <1>3, <2>8, <2>10, <2>12
    <2>14. a.seen = [app.seen EXCEPT ![i] = Said(f, current)]
      BY <1>3, <2>1, <2>10
    <2>15. ASSUME app' = a, broken' = FALSE
           PROVE  ToldInv' /\ (Connected' = Connected => Streams)
      <3>1. /\ entries'[i] = f /\ last_id' = last_id /\ DOMAIN entries' = 1..last_id
            /\ \A j \in 1..last_id : j # i => entries'[j] = entries[j]
            /\ UNCHANGED <<current, subscribed>>
        BY <1>1, <1>2, <1>3, <2>7, OneServed DEF LinkFrame
      <3>2. /\ app'.told = (app.told \/ last) /\ app'.clean = app.clean
            /\ app'.seen = [app.seen EXCEPT ![i] = Gone]
        BY <2>10, <2>15
      <3>3. app'.seen[i] = Gone
        BY <1>2, <2>8, <3>2
      <3>4. ~app.told
        BY <1>1, <1>2, <1>6 DEF RoleInv, ToldInv
      <3>5. \A j \in 1..last_id :
              /\ entries'[j].phase = "Closing" => entries[j].phase = "Closing"
              /\ Shown(entries'[j]) => Shown(entries[j])
              /\ entries'[j].owner_live = entries[j].owner_live
              /\ last => entries'[j].phase \in {"Opening", "Destroyed"}
        BY <1>3, <2>4, <3>1 DEF Shown
      <3>6. ~last => \/ deferred_last_window'
                     \/ \E j \in 1..last_id : entries'[j].phase \notin {"Opening", "Destroyed"}
        <4> SUFFICES ASSUME ~last,
                            \A j \in 1..last_id : entries'[j].phase \in {"Opening", "Destroyed"}
                     PROVE  deferred_last_window'
          OBVIOUS
        <4>1. PICK j \in 1..last_id : j # i /\ entries[j].phase # "Destroyed"
          BY <2>4
        <4>2. entries'[j].phase = "Opening"
          BY <3>1, <4>1
        <4>3. only_opening_windows(entries')
          BY <3>1, <4>2 DEF only_opening_windows
        <4> QED
          BY <2>5, <4>3
      <3>7. ToldInv'
        <4>1. app.clean => \A j \in 1..last_id : entries[j].phase = "Closing" => entries[j].owner_live
          BY <1>6 DEF RoleInv, ToldInv
        <4>2. \A j \in 1..last_id : Shown(entries[j]) => entries[j].owner_live
          BY <1>6, <2>1 DEF RoleInv, ToldInv
        <4> QED
          BY <1>2, <3>1, <3>2, <3>3, <3>4, <3>5, <3>6, <4>1, <4>2 DEF ToldInv
      <3>8. last => WS!AllGone(app'.seen)
        <4> SUFFICES ASSUME last PROVE WS!AllGone(app'.seen)
          OBVIOUS
        <4>1. ASSUME NEW j \in 1..IdLimit
              PROVE  app'.seen[j].status # "live"
          <5>1. CASE j = i
            BY <3>3, <5>1, SaidTypes
          <5>2. CASE j # i
            <6>1. app'.seen[j] = app.seen[j]
              BY <2>8, <3>2, <5>2
            <6>2. app.seen[j] \in {Unseen, Gone}
              BY <2>4, <2>11, <5>2 DEF Said
            <6> QED
              BY <6>1, <6>2, SaidTypes
          <5> QED
            BY <5>1, <5>2
        <4> QED
          BY <1>2, <3>3, <4>1, SaidTypes DEF WS!AllGone
      <3>9. ASSUME Connected' = Connected
            PROVE  WS!Destroyed(i)
        <4>1. app'.awaiting \in SUBSET app.awaiting
          BY <2>10, <2>15
        <4>2. WS!MayTell
          BY <2>3, <2>8, <3>2, <3>8 DEF WS!MayTell
        <4>3. app.seen[i].status = "live"
          BY <2>11, SaidTypes
        <4> QED
          BY <1>6, <3>2, <3>9, <4>1, <4>2, <4>3, StreamTerms DEF WS!Destroyed
      <3> QED
        BY <1>2, <3>7, <3>9 DEF Streams, WS!Next
    <2> QED
      BY <1>1, <1>2, <1>3, <1>6, <2>1, <2>7, <2>10, <2>13, <2>14, <2>15, InputHeard
  <1> QED
    BY <1>4, <1>5, <1>6

\* Every native input.
LEMMA EventsHeard ==
  ASSUME RegistryInv, QueueInv, CorrelationsParkedOnce, RoleInv, WindowNativeEvent
  PROVE  RoleInv' /\ Streams
  <1> DEFINE f == Head(facts)
  <1>1. UNCHANGED <<session, reader_stop>> /\ ~broken
    BY DEF WindowNativeEvent, hostVars
  <1>2. f \in Facts
    <2>1. facts \in Seq(Facts) /\ facts # << >>
      BY DEF QueueInv, QueueTypeOK, WindowNativeEvent
    <2> QED
      BY <2>1
  <1> HIDE DEF f
  <1>3. CASE f.fact = "Built" /\ OnBuilt(f)
    <2>1. f.view \in Views /\ f.state \in WindowStates
      BY <1>2, <1>3, FactTypes
    <2>2. ASSUME NEW i \in DOMAIN entries, BuiltCreates(i, f.build, f.view, f.state),
                 WroteTo(entries[i].call.owner,
                         [app EXCEPT !.seen[i] = Live(f.state, 0), !.told = FALSE,
                                     !.awaiting = @ \ {entries[i].call.correlation}])
          PROVE  RoleInv' /\ Streams
      <3>1. WroteTo(entries[i].call.owner, OpenedApp(i, f.state, entries[i].call.correlation))
        BY <2>2 DEF OpenedApp
      <3> QED
        BY <1>1, <2>1, <2>2, <3>1, BuiltHeard
    <2>3. ASSUME NEW i \in DOMAIN entries, BuiltCleansUp(i, f.build, f.view, f.state), UNCHANGED linkVars
          PROVE  RoleInv' /\ Streams
      BY <1>1, <2>1, <2>3, LateHeard
    <2> QED
      BY <1>3, <2>2, <2>3 DEF OnBuilt
  <1>4. CASE f.fact = "BuildFailed" /\ OnBuildFailed(f)
    <2>1. PICK i \in DOMAIN entries :
            /\ BuildFails(i, f.build)
            /\ IF FailedCall(i) = None THEN UNCHANGED linkVars
               ELSE WroteTo(entries[i].owner,
                      [app EXCEPT !.awaiting = @ \ {entries[i].call.correlation},
                                  !.told = @ \/ FailureIsLast(i)])
      BY <1>4 DEF OnBuildFailed
    <2>2. IF FailedCall(i) = None THEN UNCHANGED linkVars
          ELSE WroteTo(entries[i].owner, FailedApp(entries[i].call.correlation, FailureIsLast(i)))
      BY <2>1 DEF FailedApp
    <2> QED
      BY <1>1, <2>1, <2>2, FailedHeard
  <1>5. CASE f.fact = "CloseRequested" /\ OnCloseRequested(f)
    <2>1. ASSUME NEW i \in DOMAIN entries, NativeClose(i, f.view),
                 IF entries[i].owner_live
                 THEN WroteTo(entries[i].owner, [app EXCEPT !.seen[i].asked = entries'[i].close_seq])
                 ELSE UNCHANGED linkVars
          PROVE  RoleInv' /\ Streams
      BY <1>1, <2>1, CloseHeard
    <2>2. CASE UNCHANGED <<registryVars, linkVars>>
      BY <1>1, <2>2, Untouched DEF registryVars
    <2> QED
      BY <1>5, <2>1, <2>2 DEF OnCloseRequested
  <1>6. CASE f.fact = "Released" /\ OnReleased(f)
    <2>1. PICK i \in DOMAIN entries :
            LET answered == {entries[i].destroy_calls[k].correlation : k \in DOMAIN entries[i].destroy_calls}
            IN  /\ NativeReleased(i, f.view)
                /\ IF ReleaseHasFact(i)
                   THEN WroteTo(entries[i].owner,
                          [app EXCEPT !.seen[i] = Gone, !.told = @ \/ ReleaseIsLast(i),
                                      !.awaiting = @ \ answered])
                   ELSE UNCHANGED linkVars
      BY <1>6 DEF OnReleased
    <2>2. PICK answered :
            answered = {entries[i].destroy_calls[k].correlation : k \in DOMAIN entries[i].destroy_calls}
      OBVIOUS
    <2>3. IF ReleaseHasFact(i)
          THEN WroteTo(entries[i].owner, GoneApp(i, ReleaseIsLast(i), answered))
          ELSE UNCHANGED linkVars
      BY <2>1, <2>2 DEF GoneApp
    <2> QED
      BY <1>1, <2>1, <2>2, <2>3, ReleaseHeard
  <1>7. CASE f.fact = "State" /\ OnState(f)
    <2>1. f.attr \in Attrs /\ f.value \in Values
      BY <1>2, <1>7, FactTypes
    <2>2. ASSUME NEW i \in DOMAIN entries, FactUpdates(i, f.view, f.attr, f.value),
                 IF entries[i].owner_live /\ entries[i].state[f.attr] # f.value
                 THEN WroteTo(entries[i].owner, [app EXCEPT !.seen[i].state = entries'[i].state])
                 ELSE UNCHANGED linkVars
          PROVE  RoleInv' /\ Streams
      BY <1>1, <2>1, <2>2, FactHeard
    <2>3. ASSUME NEW i \in DOMAIN entries, FactDrops(i, f.view), UNCHANGED linkVars
          PROVE  RoleInv' /\ Streams
      BY <1>1, <2>3, DropHeard
    <2> QED
      BY <1>7, <2>2, <2>3 DEF OnState
  <1> QED
    BY <1>3, <1>4, <1>5, <1>6, <1>7 DEF WindowNativeEvent, f


-----------------------------------------------------------------------------
(* Generations and shutdown.                                               *)

\* While no link is subscribed, no window has a live owner: nothing is said,
\* nothing is retained, and no LastWindowClosed is deferred.
LEMMA NobodyServed ==
  ASSUME RegistryInv, QueueInv, RoleInv, subscribed = None
  PROVE  /\ \A i \in 1..last_id : /\ ~entries[i].owner_live
                                  /\ \A o : Parks(entries[i], o) = {} /\ Said(entries[i], o) = Unseen
                                  /\ \A o, s : Served(entries[i], o, s, ending)
         /\ ~deferred_last_window
  <1>1. ASSUME NEW i \in 1..last_id
        PROVE  /\ ~entries[i].owner_live
               /\ \A o : Parks(entries[i], o) = {} /\ Said(entries[i], o) = Unseen
               /\ \A o, s : Served(entries[i], o, s, ending)
    <2>1. i \in DOMAIN entries
      BY InvFacts
    <2>2. /\ EntryInv(entries[i], ending) /\ Served(entries[i], current, subscribed, ending)
          /\ ending \in BOOLEAN /\ entries[i].owner \in Owners
      BY <2>1, InputFinds
    <2>3. ~entries[i].owner_live
      BY <2>2, SessionAssumption DEF Served
    <2>4. \A o : Parks(entries[i], o) = {}
      BY <2>2, <2>3, ParksOfOwner
    <2> QED
      BY <2>2, <2>3, <2>4 DEF Said, Served
  <1>2. ~deferred_last_window
    <2> SUFFICES ASSUME deferred_last_window PROVE FALSE
      OBVIOUS
    <2>1. PICK i \in 1..last_id : entries[i].phase = "Opening"
      BY InvFacts DEF RegistryInv, DeferralWaitsForABuild, only_opening_windows
    <2>2. entries[i].owner_live
      BY <2>1 DEF RegistryInv, EntryInv
    <2> QED
      BY <1>1, <2>2
  <1> QED
    BY <1>1, <1>2

\* The end of the link: its windows are orphaned, its calls dropped.
LEMMA RetireCuts ==
  ASSUME RegistryInv, QueueInv, RoleInv, Retire, UNCHANGED reader_stop,
         session' \in {"running", "reserved", "accepted", "closed", "ended", "failed"},
         session' # "running" => reader_stop
  PROVE  RoleInv' /\ Streams
  <1>1. /\ current' = None /\ subscribed' = None /\ app' = Blank /\ broken' = FALSE
        /\ generation' = generation
    BY DEF Retire, RoleInv, LinkInv
  <1>2. DOMAIN entries = 1..last_id /\ UNCHANGED <<last_id, ending>>
    BY InvFacts DEF Retire, role_lost
  <1>3. ASSUME NEW i \in 1..last_id
        PROVE  Served(entries'[i], None, None, ending)
    <2>1. /\ EntryInv(entries[i], ending) /\ Served(entries[i], current, subscribed, ending)
          /\ ending \in BOOLEAN
      BY <1>2, InputFinds
    <2>2. CASE i \in OwnedLive(current)
      <3>1. entries'[i] = Orphaned(entries[i])
        BY <1>2, <2>2 DEF Retire, role_lost
      <3> QED
        BY <2>1, <3>1, OrphanedServed
    <2>3. CASE i \notin OwnedLive(current)
      <3>1. entries'[i] = entries[i] /\ ~entries[i].owner_live
        BY <1>2, <2>1, <2>3 DEF Retire, role_lost, OwnedLive, Served
      <3> QED
        BY <2>1, <3>1 DEF Served
    <2> QED
      BY <2>2, <2>3
  <1>4. AllServed
    BY <1>1, <1>2, <1>3 DEF AllServed
  <1>5. ~Connected' /\ LinkState' /\ (ending' => reader_stop')
    BY <1>1, <1>2 DEF Connected, RoleInv, RoleTypeOK, LinkState, LinkInv
  <1> QED
    BY <1>1, <1>4, <1>5, Cut

\* The end of the session tears every window down behind a closed link.
LEMMA EndCuts ==
  ASSUME RegistryInv, QueueInv, RoleInv, session_end, reader_stop' = TRUE, app' = Blank,
         UNCHANGED <<generation, current, subscribed, broken>>,
         session' \in {"running", "reserved", "accepted", "closed", "ended", "failed"}
  PROVE  RoleInv' /\ Streams
  <1>1. DOMAIN entries = 1..last_id /\ last_id' = last_id /\ ending' = TRUE
    BY InvFacts DEF session_end
  <1>2. ASSUME NEW i \in 1..last_id
        PROVE  Served(entries'[i], current, subscribed, TRUE)
    <2>1. /\ EntryInv(entries[i], ending) /\ Served(entries[i], current, subscribed, ending)
          /\ ending \in BOOLEAN
      BY <1>1, InputFinds
    <2>2. entries'[i] = Ended(entries[i])
      BY <1>1 DEF session_end
    <2> QED
      BY <2>1, <2>2, EndedServed
  <1>3. AllServed
    BY <1>1, <1>2 DEF AllServed
  <1>4. /\ ~Connected' /\ LinkState' /\ subscribed' \in {None, current'}
        /\ broken' => current' # None
    BY DEF Connected, RoleInv, RoleTypeOK, LinkState, LinkInv
  <1> QED
    BY <1>3, <1>4, Cut

\* A link that goes down, with the registry as it was.
LEMMA LinkDrops ==
  ASSUME RoleInv, UNCHANGED <<entries, last_id, ending, current, subscribed>>, app' = Blank,
         broken' => current # None, reader_stop => reader_stop', ~Connected', LinkState'
  PROVE  RoleInv' /\ Streams
  <1>1. AllServed
    BY DEF RoleInv, LinkInv, AllServed
  <1>2. subscribed' \in {None, current'} /\ (broken' => current' # None) /\ (ending' => reader_stop')
    BY DEF RoleInv, LinkInv
  <1> QED
    BY <1>1, <1>2, Cut

\* A step of the shutdown that the windows do not see.
LEMMA ShutdownMoves ==
  ASSUME RoleInv, UNCHANGED <<registryVars, linkVars, reader_stop>>,
         session' \in {"running", "reserved", "accepted", "closed", "ended", "failed"},
         session' # "running" => reader_stop
  PROVE  RoleInv' /\ Streams
  <1>1. /\ UNCHANGED <<generation, current, subscribed, broken, app>>
        /\ UNCHANGED <<entries, last_id, ending, deferred_last_window>>
    BY DEF linkVars, registryVars
  <1>2. Connected' = Connected /\ RoleTypeOK'
    BY <1>1 DEF Connected, RoleInv, RoleTypeOK, LinkState
  <1>3. LinkInv' /\ ToldInv'
    BY <1>1, <1>2 DEF RoleInv, LinkInv, ToldInv
  <1>4. RoleAgreesWithRegistry'
    BY <1>1, <1>2 DEF RoleInv, RoleAgreesWithRegistry, Owed, has_pending_call, Described
  <1>5. UNCHANGED WS!vars
    BY <1>1, <1>2 DEF WS!vars
  <1> QED
    BY <1>2, <1>3, <1>4, <1>5 DEF RoleInv, Streams


\* A new generation is connected, and knows nothing yet.
LEMMA InstallConnects ==
  ASSUME RegistryInv, QueueInv, RoleInv, InstallGeneration
  PROVE  RoleInv' /\ Streams
  <1>1. /\ UNCHANGED <<entries, last_id, ending, deferred_last_window>>
        /\ UNCHANGED <<subscribed, broken, session, reader_stop>>
        /\ session = "running" /\ ~reader_stop /\ ~broken /\ current = None
        /\ generation + 1 \in Owners /\ generation' = generation + 1
    BY DEF InstallGeneration, registryVars, hostVars
  <1>2. subscribed = None /\ ~Connected /\ app = Blank
    BY <1>1 DEF RoleInv, LinkInv, Connected
  <1>3. LinkState' /\ ~ending /\ broken' = FALSE
    BY <1>1 DEF RoleInv, RoleTypeOK, LinkState, LinkInv
  <1>4. CASE UNCHANGED <<current, app>>
    <2>1. ~Connected'
      BY <1>1, <1>4 DEF Connected
    <2> QED
      BY <1>1, <1>2, <1>3, <1>4, <2>1, LinkDrops
  <1>5. CASE /\ current' = generation + 1
             /\ app' = [Blank EXCEPT !.clean = \A i \in DOMAIN entries : entries[i].phase # "Closing"]
    <2>1. /\ \A i \in 1..last_id : /\ ~entries[i].owner_live
                                   /\ \A o : Parks(entries[i], o) = {} /\ Said(entries[i], o) = Unseen
                                   /\ \A o, s : Served(entries[i], o, s, ending)
          /\ ~deferred_last_window
      BY <1>2, NobodyServed
    <2>2. current' # None /\ subscribed' # current' /\ Connected'
      BY <1>1, <1>2, <1>5, SessionAssumption DEF Connected
    <2>3. PICK b \in BOOLEAN : b = \A i \in DOMAIN entries : entries[i].phase # "Closing"
      OBVIOUS
    <2>4. app' = [Blank EXCEPT !.clean = b]
      BY <1>5, <2>3
    <2>5. /\ app' \in Apps /\ app'.seen = Blank.seen /\ app'.awaiting = {} /\ app'.told = FALSE
          /\ app'.clean = b /\ app' = [Blank EXCEPT !.clean = app'.clean]
      BY <2>4, BlankTypes DEF Apps
    <2>6. LinkInv'
      BY <1>1, <1>2, <1>3, <2>1, <2>2 DEF LinkInv
    <2>7. RoleAgreesWithRegistry'
      <3>1. DOMAIN entries' = 1..last_id'
        BY <1>1, InvFacts
      <3>2. app'.awaiting = {c \in Correlations : \E i \in 1..last_id' : c \in Parks(entries'[i], current')}
        BY <1>1, <2>1, <2>5
      <3> QED
        BY <2>2, <2>5, <3>1, <3>2, Agrees
    <2>8. ToldInv'
      <3>1. \A i \in 1..IdLimit : app'.seen[i] # Gone
        BY <2>5, BlankTypes, SaidTypes
      <3>2. b => \A i \in 1..last_id : entries[i].phase # "Closing"
        BY <2>3, InvFacts
      <3> QED
        BY <1>1, <2>1, <2>2, <2>5, <3>1, <3>2 DEF ToldInv
    <2>9. WS!Connect
      BY <1>2, <2>2, <2>5, BlankTypes DEF WS!Connect, Connected
    <2> QED
      BY <1>3, <2>5, <2>6, <2>7, <2>8, <2>9 DEF RoleInv, RoleTypeOK, Streams, WS!Next
  <1> QED
    BY <1>4, <1>5 DEF InstallGeneration

\* What an accepted subscription makes of one window: a shown one is inherited
\* and described, any other is left alone and not mentioned.
LEMMA SubscribedEntries ==
  ASSUME RegistryInv, QueueInv, RoleInv, subscribed = None, NEW o \in Owners, subscribe_successor(o),
         NEW i \in 1..last_id
  PROVE  LET f == entries'[i]
         IN  /\ Served(f, o, o, ending) /\ f.phase = entries[i].phase /\ Parks(f, o) = {}
             /\ Shown(f) => f.owner_live /\ f.owner = o
             /\ ~Shown(f) => f = entries[i]
             /\ i \in Replayed(o, entries') =>
                  /\ Said(f, o) = Live(f.state, f.close_seq) /\ f.state \in WindowStates
                  /\ f.close_seq \in 0..CloseSeqLimit
             /\ i \notin Replayed(o, entries') => Said(f, o) = Unseen
  <1> DEFINE e == entries[i]
             f == entries'[i]
  <1>1. i \in DOMAIN entries /\ DOMAIN entries = 1..last_id
    BY InvFacts
  <1>2. /\ EntryInv(e, ending) /\ Served(e, current, subscribed, ending)
        /\ ending \in BOOLEAN /\ e \in Entry
    BY <1>1, InputFinds
  <1>3. /\ ~e.owner_live /\ Parks(e, o) = {} /\ Said(e, o) = Unseen /\ Served(e, o, o, ending)
    BY NobodyServed
  <1>4. DOMAIN entries' = 1..last_id /\ f = IF Shown(e) THEN Inherited(e, o) ELSE e
    BY <1>1, <1>3 DEF subscribe_successor
  <1>5. i \in Replayed(o, entries') <=> Shown(f) /\ f.owner_live /\ f.owner = o
    BY <1>4 DEF Replayed
  <1>6. CASE Shown(e)
    <2>1. f = Inherited(e, o)
      BY <1>4, <1>6
    <2>2. /\ Served(f, o, o, ending) /\ f.phase = e.phase /\ f.owner_live /\ f.owner = o
          /\ Said(f, o) = Live(f.state, f.close_seq) /\ Parks(f, o) = {}
          /\ f.close_seq = e.close_seq /\ f.state \in WindowStates
      BY <1>2, <1>3, <1>6, <2>1, InheritedSaid
    <2>3. Shown(f) /\ e.close_seq \in 0..CloseSeqLimit
      BY <1>2, <1>6, <2>2 DEF Shown, Entry
    <2> HIDE DEF f
    <2> QED
      BY <1>5, <2>2, <2>3 DEF f
  <1>7. CASE ~Shown(e)
    <2>1. f = e
      BY <1>4, <1>7
    <2> QED
      BY <1>3, <1>5, <1>7, <2>1
  <1> QED
    BY <1>6, <1>7

\* Subscribe: the surviving windows are described in one write.
LEMMA SubscribeReplays ==
  ASSUME RegistryInv, QueueInv, RoleInv, Subscribe
  PROVE  RoleInv' /\ Streams
  <1>1. /\ session = "running" /\ current # None /\ ~reader_stop /\ ~broken
        /\ subscribe_successor(current) /\ subscribed # current /\ subscribed' = current
        /\ UNCHANGED <<generation, current, session, reader_stop>>
    BY DEF Subscribe, Dispatchable, hostVars
  <1>2. Connected /\ subscribed = None /\ current \in Owners /\ ~ending
    BY <1>1, Agreement DEF RoleInv, LinkInv, Connected
  <1>3. /\ UNCHANGED <<last_id, ending, deferred_last_window>>
        /\ DOMAIN entries = 1..last_id /\ DOMAIN entries' = 1..last_id
    BY <1>1, InvFacts DEF subscribe_successor
  <1>4. \A i \in 1..last_id :
          /\ Served(entries'[i], current, current, ending) /\ entries'[i].phase = entries[i].phase
          /\ Parks(entries'[i], current) = {}
          /\ Shown(entries'[i]) => entries'[i].owner_live /\ entries'[i].owner = current
          /\ ~Shown(entries'[i]) => entries'[i] = entries[i]
          /\ i \in Replayed(current, entries') =>
               /\ Said(entries'[i], current) = Live(entries'[i].state, entries'[i].close_seq)
               /\ entries'[i].state \in WindowStates /\ entries'[i].close_seq \in 0..CloseSeqLimit
          /\ i \notin Replayed(current, entries') => Said(entries'[i], current) = Unseen
    BY <1>1, <1>2, SubscribedEntries
  <1>5. AllServed
    BY <1>1, <1>3, <1>4 DEF AllServed
  <1>6. CASE app' = Blank /\ broken' = TRUE
    <2>1. /\ ~Connected' /\ LinkState' /\ (ending' => reader_stop')
      BY <1>1, <1>2, <1>3, <1>6 DEF RoleInv, RoleTypeOK, LinkState, Connected
    <2> QED
      BY <1>1, <1>5, <1>6, <2>1, Cut
  <1> DEFINE q == [i \in 1..IdLimit |->
                     IF i \in DOMAIN entries /\ i \in Replayed(current, entries')
                     THEN Live(entries'[i].state, entries'[i].close_seq) ELSE Unseen]
  <1>7. CASE app' = [app EXCEPT !.seen = q] /\ broken' = FALSE
    <2>1. /\ app = [Blank EXCEPT !.clean = app.clean] /\ app.clean \in BOOLEAN
      BY <1>1, <1>2, Agreement DEF RoleInv, RoleTypeOK, Apps
    <2>2. /\ app = [seen |-> Blank.seen, awaiting |-> {}, told |-> FALSE, clean |-> app.clean]
      BY <2>1 DEF Blank
    <2>3. \A i \in 1..IdLimit :
            /\ q[i] = IF i \in 1..last_id THEN Said(entries'[i], current) ELSE Unseen
            /\ q[i] \in {Unseen} \cup {Live(s, n) : s \in WindowStates, n \in 0..CloseSeqLimit}
      BY <1>3, <1>4
    <2>4. \A i \in 1..IdLimit : q[i] \in Seen /\ q[i] # Gone
      BY <2>3, SaidTypes
    <2>5. q \in [1..IdLimit -> Seen]
      BY <2>4
    <2>6. q \in [1..IdLimit -> {Unseen} \cup {Live(s, n) : s \in WindowStates, n \in 0..CloseSeqLimit}]
      BY <2>3
    <2> HIDE DEF q
    <2>7. app' = [seen |-> q, awaiting |-> app.awaiting, told |-> app.told, clean |-> app.clean]
      <3>1. /\ app.told \in BOOLEAN /\ app.clean \in BOOLEAN
            /\ app = [seen |-> app.seen, awaiting |-> app.awaiting, told |-> app.told,
                      clean |-> app.clean]
        BY DEF RoleInv, RoleTypeOK, Apps
      <3>2. \A u : [app EXCEPT !.seen = u] =
                    [seen |-> u, awaiting |-> app.awaiting, told |-> app.told, clean |-> app.clean]
        BY ONLY <3>1
      <3>3. app' = [app EXCEPT !.seen = q]
        BY <1>7
      <3> QED
        BY ONLY <3>2, <3>3, Zenon
    <2>8. /\ app' \in Apps /\ app'.seen = q /\ app'.awaiting = {} /\ app'.told = FALSE
          /\ app'.clean = app.clean
          /\ app.seen = Blank.seen /\ app.awaiting = {} /\ app.told = FALSE
      <3>1. app.awaiting = {} /\ app.told = FALSE /\ app.seen = Blank.seen /\ app.clean \in BOOLEAN
        BY ONLY <2>1, <2>2
      <3>2. /\ app'.seen = q /\ app'.awaiting = app.awaiting /\ app'.told = app.told
            /\ app'.clean = app.clean
        BY ONLY <2>7
      <3>3. app.told \in BOOLEAN /\ app.awaiting \subseteq Correlations
        BY DEF RoleInv, RoleTypeOK, Apps
      <3>4. app' \in Apps
        BY ONLY <2>5, <2>7, <3>1, <3>3 DEF Apps
      <3> QED
        BY <3>1, <3>2, <3>4
    <2>9. LinkInv' /\ LinkState' /\ Connected' = Connected
      BY <1>1, <1>2, <1>3, <1>5, <1>7 DEF RoleInv, RoleTypeOK, LinkState, LinkInv, Connected, AllServed
    <2>10. RoleAgreesWithRegistry'
      <3>1. app'.awaiting = {c \in Correlations : \E i \in 1..last_id' : c \in Parks(entries'[i], current')}
        BY <1>1, <1>3, <1>4, <2>8
      <3>2. \A i \in 1..IdLimit :
              app'.seen[i] = IF i \in 1..last_id' THEN Said(entries'[i], current') ELSE Unseen
        BY <1>1, <1>3, <2>3, <2>8
      <3> QED
        BY <1>1, <1>3, <3>1, <3>2, Agrees
    <2>11. ToldInv'
      <3>1. \A i \in 1..last_id : entries'[i].phase = "Closing" =>
              entries[i].phase = "Closing" /\ entries'[i] = entries[i]
        BY <1>4 DEF Shown
      <3>2. app.clean => \A i \in 1..last_id : entries[i].phase = "Closing" => entries[i].owner_live
        BY <1>2 DEF RoleInv, ToldInv
      <3>3. ~deferred_last_window
        BY <1>2, NobodyServed
      <3>4. \A i \in 1..IdLimit : app'.seen[i] # Gone
        BY <2>4, <2>8
      <3> QED
        BY <1>3, <1>4, <2>8, <3>1, <3>2, <3>3, <3>4 DEF ToldInv
    <2>12. WS!Replay
      <3>1. {0} \cup 1..CloseSeqLimit = 0..CloseSeqLimit
        BY LimitsAssumption
      <3>2. q \in [1..IdLimit -> {WS!Unseen} \cup
                     {WS!Live(s, n) : s \in WindowStates, n \in {0} \cup 1..CloseSeqLimit}]
        <4>1. {WS!Live(s, n) : s \in WindowStates, n \in {0} \cup 1..CloseSeqLimit}
                = {Live(s, n) : s \in WindowStates, n \in 0..CloseSeqLimit}
          BY ONLY <3>1, StreamTerms
        <4>2. WS!Unseen = Unseen
          BY StreamTerms
        <4> QED
          BY ONLY <2>6, <4>1, <4>2
      <3>3. app.seen = WS!Blank
        BY <2>8, StreamTerms
      <3>4. /\ Connected /\ Connected' = Connected /\ app'.awaiting = app.awaiting
            /\ app'.told = app.told /\ app'.seen = q
        BY <1>2, <2>8, <2>9
      <3> QED
        BY ONLY <3>2, <3>3, <3>4 DEF WS!Replay
    <2> QED
      BY <2>8, <2>9, <2>10, <2>11, <2>12 DEF RoleInv, RoleTypeOK, Streams, WS!Next
  <1> QED
    BY <1>6, <1>7 DEF Subscribe

\* Every step is heard by the role exactly as the registry takes it, and is a step of
\* the ordered stream.
LEMMA RoleStep ==
  ASSUME RegistryInv, QueueInv, CorrelationsParkedOnce, RoleInv, [Next]_vars
  PROVE  RoleInv' /\ Streams
  <1>1. CASE InstallGeneration
    BY <1>1, InstallConnects
  <1>2. CASE SignalReady
    <2>1. UNCHANGED <<entries, last_id, ending, deferred_last_window, session, reader_stop>>
      BY <1>2 DEF SignalReady, mark_ready
    <2>2. CASE UNCHANGED linkVars
      BY <2>1, <2>2, Untouched
    <2>3. CASE /\ current # None /\ broken' = TRUE /\ app' = Blank
               /\ UNCHANGED <<generation, current, subscribed>>
      <3>1. ~Connected' /\ LinkState'
        BY <2>1, <2>3 DEF Connected, RoleInv, RoleTypeOK, LinkState
      <3> QED
        BY <2>1, <2>3, <3>1, LinkDrops
    <2> QED
      BY <1>2, <2>2, <2>3 DEF SignalReady
  <1>3. CASE RetireBroken \/ RetireGeneration
    <2>1. Retire /\ UNCHANGED <<session, reader_stop>>
      BY <1>3 DEF RetireBroken, RetireGeneration, hostVars
    <2>2. /\ session' \in {"running", "reserved", "accepted", "closed", "ended", "failed"}
          /\ session' # "running" => reader_stop
      BY <2>1 DEF RoleInv, RoleTypeOK, LinkState
    <2> QED
      BY <2>1, <2>2, RetireCuts
  <1>4. CASE Subscribe
    BY <1>4, SubscribeReplays
  <1>5. CASE LinkFails
    <2>1. /\ UNCHANGED <<entries, last_id, ending, current, subscribed, generation>>
          /\ UNCHANGED <<session, reader_stop>> /\ app' = Blank /\ broken' = TRUE /\ current # None
      BY <1>5 DEF LinkFails, Dispatchable, registryVars, hostVars
    <2>2. ~Connected' /\ LinkState'
      BY <2>1 DEF Connected, RoleInv, RoleTypeOK, LinkState
    <2> QED
      BY <2>1, <2>2, LinkDrops
  <1>6. CASE DispatchWindow
    BY <1>6, CallsHeard
  <1>7. CASE WindowNativeEvent
    BY <1>7, EventsHeard
  <1>8. CASE CoordinatorEnds
    <2>1. UNCHANGED <<entries, last_id, ending, deferred_last_window, linkVars, session, reader_stop>>
      BY <1>8 DEF CoordinatorEnds, take_destroyed_fact_drops, hostVars
    <2> QED
      BY <2>1, Untouched
  <1>9. CASE ReserveShutdown
    <2>1. /\ UNCHANGED <<entries, last_id, ending, current, subscribed, generation, broken>>
          /\ session' = "reserved" /\ reader_stop' = TRUE /\ app' = Blank /\ ~broken
      BY <1>9 DEF ReserveShutdown, registryVars
    <2>2. ~Connected' /\ LinkState'
      BY <2>1 DEF Connected, RoleInv, RoleTypeOK, LinkState
    <2> QED
      BY <2>1, <2>2, LinkDrops
  <1>10. CASE AcceptShutdown
    <2>1. /\ session = "reserved" /\ session' = "accepted" /\ session_end
          /\ UNCHANGED <<linkVars, reader_stop>>
      BY <1>10 DEF AcceptShutdown
    <2>2. reader_stop = TRUE /\ app = Blank
      BY <2>1 DEF RoleInv, RoleTypeOK, LinkState, LinkInv, Connected
    <2>3. /\ reader_stop' = TRUE /\ app' = Blank /\ UNCHANGED <<generation, current, subscribed, broken>>
          /\ session' \in {"running", "reserved", "accepted", "closed", "ended", "failed"}
      BY <2>1, <2>2 DEF linkVars
    <2> QED
      BY <2>1, <2>3, EndCuts
  <1>11. CASE ShutdownFails \/ FinishTail
    <2>1. /\ UNCHANGED <<registryVars, linkVars, reader_stop>> /\ session # "running"
          /\ session' \in {"running", "reserved", "accepted", "closed", "ended", "failed"}
      BY <1>11 DEF ShutdownFails, FinishTail
    <2>2. reader_stop
      BY <2>1 DEF RoleInv, RoleTypeOK, LinkState
    <2> QED
      BY <2>1, <2>2, ShutdownMoves
  <1>12. CASE CloseLink
    <2>1. /\ UNCHANGED reader_stop /\ session # "running"
          /\ session' \in {"running", "reserved", "accepted", "closed", "ended", "failed"}
      BY <1>12 DEF CloseLink
    <2>2. reader_stop
      BY <2>1 DEF RoleInv, RoleTypeOK, LinkState
    <2>3. CASE Retire
      BY <2>1, <2>2, <2>3, RetireCuts
    <2>4. CASE UNCHANGED <<registryVars, linkVars>>
      BY <2>1, <2>2, <2>4, ShutdownMoves
    <2> QED
      BY <1>12, <2>3, <2>4 DEF CloseLink
  <1>13. CASE UiStop
    <2>1. /\ session_end /\ reader_stop' = TRUE /\ app' = Blank
          /\ UNCHANGED <<generation, current, subscribed, broken, session>>
      BY <1>13 DEF UiStop
    <2>2. session' \in {"running", "reserved", "accepted", "closed", "ended", "failed"}
      BY <2>1 DEF RoleInv, RoleTypeOK, LinkState
    <2> QED
      BY <2>1, <2>2, EndCuts
  <1>14. CASE \/ UiCommand \/ UiNativeEvent \/ UiTerminal \/ UiFails \/ UiReleaseAll \/ UiExit
              \/ AwaitRecoveryArm \/ UNCHANGED vars
    <2>1. UNCHANGED <<registryVars, linkVars, hostVars>>
      BY <1>14 DEF UiCommand, UiNativeEvent, UiTerminal, UiFails, UiReleaseAll, UiExit,
                   AwaitRecoveryArm, vars
    <2>2. UNCHANGED <<entries, last_id, ending, deferred_last_window, linkVars, session, reader_stop>>
      BY <2>1 DEF registryVars, hostVars
    <2> QED
      BY <2>2, Untouched
  <1> QED
    BY <1>1, <1>2, <1>3, <1>4, <1>5, <1>6, <1>7, <1>8, <1>9, <1>10, <1>11, <1>12, <1>13, <1>14
    DEF Next

\* A session starts without a link.
LEMMA RoleStarts ==
  ASSUME Init
  PROVE  RoleInv /\ WS!Init
  <1>1. /\ last_id = 0 /\ ending = FALSE /\ current = None /\ subscribed = None /\ generation = 0
        /\ broken = FALSE /\ reader_stop = FALSE /\ session = "running" /\ app = Blank
    BY DEF Init, RegistryInit
  <1>2. ~Connected /\ \A i \in 1..last_id : FALSE
    BY <1>1 DEF Connected
  <1>3. RoleTypeOK
    BY <1>1, BlankTypes DEF RoleTypeOK, LinkState
  <1>4. LinkInv /\ RoleAgreesWithRegistry /\ ToldInv
    BY <1>1, <1>2 DEF LinkInv, RoleAgreesWithRegistry, ToldInv
  <1>5. WS!Init
    BY <1>1, <1>2, BlankTypes, StreamTerms DEF WS!Init, Connected
  <1> QED
    BY <1>3, <1>4, <1>5 DEF RoleInv

-----------------------------------------------------------------------------
\* The invariant of the link: the role was told what the registry holds, and when
\* LastWindowClosed is still owed, something is left that will send it.
THEOREM RoleInvariant == Spec => []RoleInv
  <1>1. Init => RoleInv
    BY RoleStarts
  <1>2. RoleInv /\ RegistryInv /\ QueueInv /\ CorrelationsParkedOnce /\ [Next]_vars => RoleInv'
    BY RoleStep
  <1> QED
    BY <1>1, <1>2, SessionInvariant, SessionInherits, PTL DEF Spec

\* The session keeps its types: both queues hold only what the two threads
\* understand, and the role is told only of windows, states and calls that exist.
THEOREM SessionTyped == Spec => []SessionTypeOK
  <1>1. RegistryInv /\ QueueInv /\ RoleInv => SessionTypeOK
    <2> SUFFICES ASSUME RegistryInv, QueueInv, RoleInv
                 PROVE  SessionTypeOK
      OBVIOUS
    <2>1. RegistryTypeOK
      BY DEF RegistryInv
    <2>2. subscribed \in Owners \cup {None}
      BY DEF QueueInv, QueueTypeOK, RoleInv, LinkInv
    <2>3. /\ DOMAIN app.seen = 1..IdLimit /\ app.awaiting \subseteq Correlations
          /\ app.told \in BOOLEAN /\ app.clean \in BOOLEAN
      BY DEF RoleInv, RoleTypeOK, Apps
    <2> QED
      BY <2>1, <2>2, <2>3 DEF QueueInv, QueueTypeOK, RoleInv, RoleTypeOK, LinkState, SessionTypeOK
  <1> QED
    BY <1>1, RoleInvariant, SessionInvariant, PTL

\* The ordered writer never loses, reorders or invents anything: while a link carries
\* window frames the role behind it knows of every window exactly what the registry
\* holds, and waits for exactly the answers the registry still owes it.
THEOREM RoleAgrees == Spec => []RoleAgreesWithRegistry
  <1>1. RoleInv => RoleAgreesWithRegistry
    BY DEF RoleInv
  <1> QED
    BY <1>1, RoleInvariant, PTL

\* A role that watched the last window go has been told LastWindowClosed, also when
\* the end came through a failed build, and is never told while a window is shown or
\* closing.
THEOREM LastWindowIsTold == Spec => []LastWindowTold
  <1>1. RegistryInv /\ RoleInv => LastWindowTold
    <2> SUFFICES ASSUME RegistryInv, RoleInv, Connected
                 PROVE  /\ app.clean /\ ~has_live_windows(entries)
                             /\ (\E i \in 1..IdLimit : app.seen[i] = Gone) => app.told
                        /\ app.told => \A i \in DOMAIN entries : entries[i].phase \in {"Opening", "Destroyed"}
      BY DEF LastWindowTold
    <2>1. DOMAIN entries = 1..last_id
      BY InvFacts
    <2>2. ASSUME ~has_live_windows(entries)
          PROVE  /\ \A i \in 1..last_id : entries[i].phase = "Destroyed"
                 /\ ~deferred_last_window
      BY <2>1, <2>2 DEF has_live_windows, RegistryInv, DeferralWaitsForABuild, only_opening_windows
    <2> QED
      BY <2>1, <2>2 DEF RoleInv, ToldInv
  <1> QED
    BY <1>1, RoleInvariant, SessionInvariant, PTL

\* The session implements the ordered stream a role is promised: each window is
\* announced at most once per link, then changes, is asked to close one request at a
\* time and ends last, and each call is answered at most once, across build failures,
\* lost writes, retirements and shutdown.
THEOREM SessionImplementsStream == Spec => StreamImplemented
  <1>1. Init => WS!Init
    BY RoleStarts
  <1>2. RoleInv /\ RegistryInv /\ QueueInv /\ CorrelationsParkedOnce /\ [Next]_vars
          => [WS!Next]_WS!vars
    BY RoleStep DEF Streams
  <1> QED
    BY <1>1, <1>2, RoleInvariant, SessionInvariant, SessionInherits, PTL
    DEF Spec, StreamImplemented, WS!Spec

=============================================================================
