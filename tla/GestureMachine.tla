--------------------------- MODULE GestureMachine ---------------------------
(***************************************************************************)
(* The press / hold / double-press machine of internal/engine/gesture.go.  *)
(*                                                                         *)
(* The machine is one record, gm; the caller (InputLoop) owns every call.  *)
(* Each operation is an action over an explicit base machine m, because    *)
(* the run loop sometimes calls Reset and then Handle in one arm of its    *)
(* select.  out is the set of gestures a call returned and dispatchGesture *)
(* has not consumed yet.  Go's three maps become total functions with None *)
(* for "no entry".  A press carries a label (born), recorded when its      *)
(* control goes down and copied into every gesture that press produces: it *)
(* is a history field the properties read and no guard does.               *)
(***************************************************************************)
EXTENDS Integers

CONSTANTS Control,            \* the controls of the device
          MaxLayer,           \* presses are labelled with a layer, 0..MaxLayer
          HoldThreshold,      \* how long a press lasts before it is a hold
          DoublePressWindow   \* how long after a release a second press pairs

(* engine.go fixes the two at 600ms and 350ms. *)
ASSUME TimingAssumption ==
    /\ HoldThreshold \in Nat \ {0}
    /\ DoublePressWindow \in Nat \ {0}
    /\ DoublePressWindow <= HoldThreshold

ASSUME LayerAssumption == MaxLayer \in Nat

VARIABLES gm, out

Layer == 0..MaxLayer

None == -1
Time == Nat \cup {None}

ButtonGesture == {"press", "hold", "release", "double"}
Gesture == ButtonGesture \cup {"turn"}

(* What Handle and Tick return. *)
Firing == [control : Control, gesture : Gesture, born : Layer]

Fires(c, g, l) == [control |-> c, gesture |-> g, born |-> l]

(* downAt and held are the two fields of pressState, held as the set of    *)
(* controls with holdDelivered; pending is the deadline of pendingPress,   *)
(* whose press happened DoublePressWindow earlier.                         *)
Machine == [downAt      : [Control -> Time],
            held        : SUBSET Control,
            lastPress   : [Control -> Time],
            pending     : [Control -> Time],
            born        : [Control -> Layer],
            pendingBorn : [Control -> Layer]]

(* Reset: forget every press in flight. *)
Fresh == [downAt      |-> [c \in Control |-> None],
          held        |-> {},
          lastPress   |-> [c \in Control |-> None],
          pending     |-> [c \in Control |-> None],
          born        |-> [c \in Control |-> 0],
          pendingBorn |-> [c \in Control |-> 0]]

-----------------------------------------------------------------------------
(* Handle *)

(* A turn or a fader move passes straight through. *)
HandleTurn(m, c, l) ==
    /\ gm' = m
    /\ out' = {Fires(c, "turn", l)}

(* A second down with no up in between overwrites the first. *)
HandleDown(m, c, at, l) ==
    /\ gm' = [m EXCEPT !.downAt[c] = at,
                       !.held = @ \ {c},
                       !.born[c] = l]
    /\ out' = {}

UpUnmatched(m, c) ==
    /\ m.downAt[c] = None
    /\ gm' = m
    /\ out' = {}

UpReleases(m, c) ==
    /\ m.downAt[c] # None
    /\ c \in m.held
    /\ gm' = [m EXCEPT !.downAt[c] = None,
                       !.held = @ \ {c},
                       !.lastPress[c] = None]
    /\ out' = {Fires(c, "release", m.born[c])}

UpPresses(m, c, deferPress) ==
    /\ m.downAt[c] # None
    /\ c \notin m.held \cup deferPress
    /\ gm' = [m EXCEPT !.downAt[c] = None]
    /\ out' = {Fires(c, "press", m.born[c])}

(* Mutant of Pairs: the window excludes its last instant. *)
PairsBefore(m, c, at) ==
    /\ m.lastPress[c] # None
    /\ at < m.lastPress[c] + DoublePressWindow

Pairs(m, c, at) ==
    /\ m.lastPress[c] # None
    /\ at <= m.lastPress[c] + DoublePressWindow

(* Mutant of UpDoubles: the double press leaves its first press in the     *)
(* lastPress map, ready to pair again.                                     *)
UpDoublesAgain(m, c, at, deferPress) ==
    /\ m.downAt[c] # None
    /\ c \in deferPress \ m.held
    /\ Pairs(m, c, at)
    /\ gm' = [m EXCEPT !.downAt[c] = None, !.pending[c] = None]
    /\ out' = {Fires(c, "double", m.born[c])}

UpDoubles(m, c, at, deferPress) ==
    /\ m.downAt[c] # None
    /\ c \in deferPress \ m.held
    /\ Pairs(m, c, at)
    /\ gm' = [m EXCEPT !.downAt[c] = None,
                       !.lastPress[c] = None,
                       !.pending[c] = None]
    /\ out' = {Fires(c, "double", m.born[c])}

UpDefers(m, c, at, deferPress) ==
    /\ m.downAt[c] # None
    /\ c \in deferPress \ m.held
    /\ ~Pairs(m, c, at)
    /\ gm' = [m EXCEPT !.downAt[c] = None,
                       !.lastPress[c] = at,
                       !.pending[c] = at + DoublePressWindow,
                       !.pendingBorn[c] = m.born[c]]
    /\ out' = {}

HandleUp(m, c, at, deferPress) ==
    \/ UpUnmatched(m, c)
    \/ UpReleases(m, c)
    \/ UpPresses(m, c, deferPress)
    \/ UpDoubles(m, c, at, deferPress)
    \/ UpDefers(m, c, at, deferPress)

-----------------------------------------------------------------------------
(* Tick and NextDeadline *)

Holding(m, detectHold) == {c \in detectHold \ m.held : m.downAt[c] # None}

HoldDue(m, now, detectHold) ==
    {c \in Holding(m, detectHold) : m.downAt[c] + HoldThreshold <= now}

PressDue(m, now) == {c \in Control : m.pending[c] # None /\ m.pending[c] <= now}

Ticked(m, now, detectHold) ==
    LET holds   == HoldDue(m, now, detectHold)
        presses == PressDue(m, now)
    IN  [m EXCEPT
            !.held = @ \cup holds,
            !.lastPress = [c \in Control |->
                              IF c \in holds \cup presses THEN None ELSE @[c]],
            !.pending = [c \in Control |-> IF c \in presses THEN None ELSE @[c]]]

(* The gestures come out of two loops over maps, every hold before every   *)
(* deferred press and otherwise in any order: see Dispatchable.            *)
TickFirings(m, now, detectHold) ==
    {Fires(c, "hold", m.born[c]) : c \in HoldDue(m, now, detectHold)}
        \cup {Fires(c, "press", m.pendingBorn[c]) : c \in PressDue(m, now)}

(* Mutants of Deadlines: NextDeadline wakes for every button that is down, *)
(* forgets the presses that wait, or forgets the buttons that are down.    *)
DeadlinesOfAnyDown(m, detectHold) ==
    {m.downAt[c] + HoldThreshold : c \in {x \in Control \ m.held : m.downAt[x] # None}}
        \cup {m.pending[c] : c \in {x \in Control : m.pending[x] # None}}

DeadlinesOfHolds(m, detectHold) ==
    {m.downAt[c] + HoldThreshold : c \in Holding(m, detectHold)}

DeadlinesOfPresses(m, detectHold) ==
    {m.pending[c] : c \in {x \in Control : m.pending[x] # None}}

Deadlines(m, detectHold) ==
    {m.downAt[c] + HoldThreshold : c \in Holding(m, detectHold)}
        \cup {m.pending[c] : c \in {x \in Control : m.pending[x] # None}}

(* The gestures a range over the returned slice may dispatch next. *)
Dispatchable ==
    {g \in out : g.gesture = "press" => \A h \in out : h.gesture # "hold"}

-----------------------------------------------------------------------------
(* What the maps promise each other whenever no call is running: a control *)
(* has a deferred press waiting exactly while a second press could still   *)
(* pair with it, and the wait ends exactly when the pairing does ...       *)
PressesPaired(m) ==
    \A c \in Control :
        /\ m.pending[c] = None <=> m.lastPress[c] = None
        /\ m.pending[c] # None => m.pending[c] = m.lastPress[c] + DoublePressWindow

(* ... given that events reach Handle in the order of their timestamps, so *)
(* that nothing in the machine is later than the next event's time t: the  *)
(* press that waits came before the press in progress, and a control whose *)
(* hold was delivered waits for nothing.                                   *)
NothingAfter(m, t) ==
    \A c \in Control : m.downAt[c] <= t /\ m.lastPress[c] <= t

PressesOrdered(m) ==
    \A c \in Control :
        /\ m.downAt[c] # None => m.lastPress[c] <= m.downAt[c]
        /\ c \in m.held => m.downAt[c] # None /\ m.lastPress[c] = None
=============================================================================
