---------------------------- MODULE WindowStream ----------------------------
(***************************************************************************)
(* What one app link promises its role: the ordered stream of window       *)
(* frames of docs/specs/gh531-window-registry-close-state-machine.md,      *)
(* "Ordering contract", as an abstract specification.  A client sees, on   *)
(* each link, every window at most once as Created (live), then facts      *)
(* about it that always change something, at most one close request at a   *)
(* time, and Destroyed last; each call it makes is answered at most once;  *)
(* LastWindowClosed arrives only when every window it saw is gone.         *)
(* Module WindowSession implements it.                                     *)
(***************************************************************************)
EXTENDS Naturals

CONSTANTS Windows, Correlations, States, CloseSeqs, NoState

VARIABLES
  connected,   \* a link is up
  seen,        \* window -> what the stream said of it on this link
  awaiting,    \* correlations whose reply is outstanding
  told         \* LastWindowClosed was written since the last Created

vars == <<connected, seen, awaiting, told>>

Unseen == [status |-> "unseen", state |-> NoState, asked |-> 0]
Gone   == [status |-> "gone", state |-> NoState, asked |-> 0]
Live(s, n) == [status |-> "live", state |-> s, asked |-> n]

Blank == [w \in Windows |-> Unseen]
AllGone(ws) == /\ \E w \in Windows : ws[w].status = "gone"
               /\ \A w \in Windows : ws[w].status # "live"

Init == connected = FALSE /\ seen = Blank /\ awaiting = {} /\ told = FALSE

Connect ==
  /\ ~connected /\ connected' = TRUE
  /\ UNCHANGED <<seen, awaiting, told>>

\* The link is retired; whatever was outstanding ends with it.
Disconnect ==
  /\ connected /\ connected' = FALSE
  /\ seen' = Blank /\ awaiting' = {} /\ told' = FALSE

\* The accepted subscription describes the surviving windows, once.
Replay ==
  /\ connected
  /\ seen = Blank
  /\ seen' \in [Windows -> {Unseen} \cup {Live(s, n) : s \in States, n \in {0} \cup CloseSeqs}]
  /\ UNCHANGED <<connected, awaiting, told>>

Ask ==
  /\ connected
  /\ \E c \in Correlations \ awaiting : awaiting' = awaiting \cup {c}
  /\ UNCHANGED <<connected, seen, told>>

Created(w) ==
  /\ connected
  /\ seen[w] = Unseen
  /\ \E s \in States : seen' = [seen EXCEPT ![w] = Live(s, 0)]
  /\ \E c \in awaiting : awaiting' = awaiting \ {c}
  /\ told' = FALSE
  /\ UNCHANGED connected

\* LastWindowClosed may follow only a window's end, and only when none is left.
MayTell == told' \in {told, TRUE} /\ (told' # told => AllGone(seen'))

CreateFailed ==
  /\ connected
  /\ \E c \in awaiting : awaiting' = awaiting \ {c}
  /\ MayTell
  /\ UNCHANGED <<connected, seen>>

Fact(w) ==
  /\ connected
  /\ seen[w].status = "live"
  /\ \E s \in States \ {seen[w].state} : seen' = [seen EXCEPT ![w].state = s]
  /\ UNCHANGED <<connected, awaiting, told>>

CloseRequested(w) ==
  /\ connected
  /\ seen[w].status = "live" /\ seen[w].asked = 0
  /\ \E n \in CloseSeqs : seen' = [seen EXCEPT ![w].asked = n]
  /\ UNCHANGED <<connected, awaiting, told>>

\* The role settles the pending request, by a verdict or by Destroy.
Settled(w) ==
  /\ connected
  /\ seen[w].asked # 0
  /\ seen' = [seen EXCEPT ![w].asked = 0]
  /\ \/ UNCHANGED awaiting
     \/ \E c \in Correlations \ awaiting : awaiting' = awaiting \cup {c}
  /\ UNCHANGED <<connected, told>>

\* Destroyed is last, and answers every Destroy call waiting for it.
Destroyed(w) ==
  /\ connected
  /\ seen[w].status = "live"
  /\ seen' = [seen EXCEPT ![w] = Gone]
  /\ awaiting' \in SUBSET awaiting
  /\ MayTell
  /\ UNCHANGED connected

Next ==
  \/ Connect \/ Disconnect \/ Replay \/ Ask \/ CreateFailed
  \/ \E w \in Windows : \/ Created(w) \/ Fact(w) \/ CloseRequested(w)
                        \/ Settled(w) \/ Destroyed(w)

Spec == Init /\ [][Next]_vars

=============================================================================
