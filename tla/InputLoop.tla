------------------------------ MODULE InputLoop ------------------------------
(***************************************************************************)
(* The input half of Engine.Run (internal/engine/engine.go): device events *)
(* and timer ticks become gestures, gestures become layer switches and     *)
(* invocations.  It composes the gesture machine with the layer stack      *)
(* (layers.go), the binding index (bindings.go), MIDI learn (learn.go) and *)
(* configuration reloads.                                                  *)
(*                                                                         *)
(* Run is one goroutine, so each arm of its select is one action, enabled  *)
(* at the select (out = {}).  An arm that gets gestures back dispatches    *)
(* them one by one before the next select: one Dispatch step each.  The    *)
(* device, the clock and the API callers run concurrently with it.         *)
(***************************************************************************)
EXTENDS GestureMachine, Sequences

CONSTANTS Config,         \* the configurations SetConfig may install
          InitialConfig,  \* Deps.Config
          Buttons, Knobs, \* the controls that are pressed, and that turn
          LearnTimeout,   \* how far ahead POST /learn puts its deadline
          InboxSize,      \* portInboxSize, and one in the hand of Run's reader
          DropOldest,     \* whether the device may outrun a full inbox
          Unplugs,        \* whether the device is unplugged and back
          LearnAllowed,   \* whether anybody calls POST /learn
          InputUntil,     \* bound: the user and the API act until then
          MaxTime         \* bound: the clock stops there

ActionType == {"none", "momentary", "latch", "cycle", "duck", "other"}

(* The tagged union of model.Action, as far as dispatchGesture tells its   *)
(* members apart; "other" is every action that only goes to the registry.  *)
Action == [type : ActionType, layer : Layer, order : Seq(Layer)]

(* One profile as bindingIndex holds it: the action bound to a gesture of  *)
(* a control on a layer ("none" for no entry) and the highest layer bound. *)
BindingIndex == [profile  : STRING,
                 byKey    : [Layer \X Control \X Gesture -> Action],
                 maxLayer : Layer]

ASSUME ConfigAssumption == InitialConfig \in Config /\ Config \subseteq BindingIndex

ASSUME BoundsAssumption ==
    /\ Buttons \subseteq Control /\ Knobs \subseteq Control
    /\ LearnTimeout \in Nat \ {0} /\ InboxSize \in Nat \ {0}
    /\ DropOldest \in BOOLEAN /\ Unplugs \in BOOLEAN /\ LearnAllowed \in BOOLEAN
    /\ InputUntil \in Nat /\ MaxTime \in Nat

VARIABLES clock,        \* the real clock, in ticks
          inbox,        \* messages read from the device and not yet by Run
          pressed,      \* the buttons the user's fingers are on
          cfg,          \* the installed configuration, as a binding index
          latched,      \* layerState.latched
          heldLayers,   \* layerState.held
          downLayer,    \* Run's downLayer map
          learnUntil,   \* Run's learnUntil, None when learn is disarmed
          ducked        \* controls whose last duck invocation was a hold

env == <<clock, inbox, pressed>>
layers == <<latched, heldLayers, downLayer>>
vars == <<gm, out, env, layers, cfg, learnUntil, ducked>>

EventKind == {"turn", "down", "up"}
Event == [kind : EventKind, control : Control, at : Nat]
HeldLayer == [control : Control, layer : Layer]

Init ==
    /\ gm = Fresh
    /\ out = {}
    /\ clock = 0
    /\ inbox = <<>>
    /\ pressed = {}
    /\ cfg = InitialConfig
    /\ latched = 0
    /\ heldLayers = <<>>
    /\ downLayer = [c \in Control |-> None]
    /\ learnUntil = None
    /\ ducked = {}

-----------------------------------------------------------------------------
(* Layers and bindings *)

Active == IF heldLayers = <<>> THEN latched ELSE heldLayers[Len(heldLayers)].layer

(* popMomentary removes the first entry of the control, if there is one. *)
Entries(c) == {i \in 1..Len(heldLayers) : heldLayers[i].control = c}

Without(s, i) == [j \in 1..(Len(s) - 1) |-> IF j < i THEN s[j] ELSE s[j + 1]]

Popped(c) ==
    IF Entries(c) = {} THEN heldLayers
    ELSE Without(heldLayers, CHOOSE i \in Entries(c) : \A j \in Entries(c) : i <= j)

(* Mutant of Pushed: an unbalanced second down stacks a second entry. *)
PushedAgain(c, l) == Append(heldLayers, [control |-> c, layer |-> l])

Pushed(c, l) == Append(Popped(c), [control |-> c, layer |-> l])

Latch(l) == IF latched = l THEN 0 ELSE l

(* Mutant of Cycle: no wrap-around at the top. *)
CycleOnwards(order, maxLayer) == latched + 1

(* The entry after the latched layer in order, its first entry if the      *)
(* latched layer is not in it, and 0..maxLayer round and round without one. *)
Cycle(order, maxLayer) ==
    IF order = <<>> THEN (latched + 1) % (maxLayer + 1)
    ELSE LET at == {i \in 1..Len(order) : order[i] = latched}
         IN  IF at = {} THEN order[1]
             ELSE LET i == CHOOSE i \in at : \A j \in at : i <= j
                  IN  order[(i % Len(order)) + 1]

(* Layers overlay layer 0. *)
Lookup(cf, l, c, g) ==
    IF cf.byKey[<<l, c, g>>].type # "none" THEN cf.byKey[<<l, c, g>>]
                                           ELSE cf.byKey[<<0, c, g>>]

BoundTo(cf, gestures) ==
    {c \in Control : \E l \in Layer, g \in gestures : cf.byKey[<<l, c, g>>].type # "none"}

DeferPress(cf) == BoundTo(cf, {"double"})
DetectHold(cf) == BoundTo(cf, {"hold", "release"})

-----------------------------------------------------------------------------
(* The device, the user and the clock *)

Tock ==
    /\ clock < MaxTime
    /\ clock' = clock + 1
    /\ UNCHANGED <<gm, out, inbox, pressed, layers, cfg, learnUntil, ducked>>

(* realPort.deliver: a full inbox loses its oldest message, or its second  *)
(* when Run's read goroutine already has the oldest in hand.               *)
Deliver(kind, c) ==
    LET ev == [kind |-> kind, control |-> c, at |-> clock]
    IN  \/ /\ Len(inbox) < InboxSize
           /\ inbox' = Append(inbox, ev)
        \/ /\ DropOldest
           /\ Len(inbox) = InboxSize
           /\ \E i \in 1..Len(inbox) :
                 i <= 2 /\ inbox' = Append(Without(inbox, i), ev)

UserActs ==
    /\ clock <= InputUntil
    /\ UNCHANGED <<gm, out, clock, layers, cfg, learnUntil, ducked>>

PushDown(c) == UserActs /\ c \notin pressed /\ pressed' = pressed \cup {c} /\ Deliver("down", c)

LetGo(c) == UserActs /\ c \in pressed /\ pressed' = pressed \ {c} /\ Deliver("up", c)

Turn(c) == UserActs /\ pressed' = pressed /\ Deliver("turn", c)

(* A device that comes back never sends the ups of the buttons that were   *)
(* down when it went: nothing of it reaches Run's select.                  *)
Unplug == UserActs /\ Unplugs /\ pressed # {} /\ pressed' = {} /\ inbox' = inbox

-----------------------------------------------------------------------------
(* case rr := <-msgs *)

AtSelect == out = {}

(* The next message, taken off the inbox. *)
Reads(ev) ==
    /\ AtSelect
    /\ inbox # <<>>
    /\ ev = Head(inbox)
    /\ inbox' = Tail(inbox)
    /\ UNCHANGED <<clock, pressed, cfg, latched, ducked>>

Armed == learnUntil # None

Suppressed(ev) == Armed /\ ev.at <= learnUntil

(* Armed learn swallows a release. *)
LearnSwallows(ev) ==
    /\ Reads(ev)
    /\ Suppressed(ev)
    /\ ev.kind = "up"
    /\ UNCHANGED <<gm, out, heldLayers, downLayer, learnUntil>>

(* Armed learn captures anything else, once. *)
LearnCaptures(ev) ==
    /\ Reads(ev)
    /\ Suppressed(ev)
    /\ ev.kind # "up"
    /\ learnUntil' = None
    /\ gm' = Fresh
    /\ UNCHANGED <<out, heldLayers, downLayer>>

(* Not suppressed: learn is off, or this event is what disarms it, in      *)
(* which case the machine is Reset before it sees the event.               *)
Handles(ev) ==
    /\ Reads(ev)
    /\ ~Suppressed(ev)
    /\ learnUntil' = None

Base == IF Armed THEN Fresh ELSE gm

HandlesTurn(ev) ==
    /\ Handles(ev)
    /\ ev.kind = "turn"
    /\ HandleTurn(Base, ev.control, Active)
    /\ UNCHANGED <<heldLayers, downLayer>>

(* A down pins the layer active before it and may push a momentary layer.  *)
HandlesDown(ev) ==
    LET hold == Lookup(cfg, Active, ev.control, "hold")
    IN  /\ Handles(ev)
        /\ ev.kind = "down"
        /\ downLayer' = [downLayer EXCEPT ![ev.control] = Active]
        /\ heldLayers' = IF hold.type = "momentary" THEN Pushed(ev.control, hold.layer)
                                                    ELSE heldLayers
        /\ HandleDown(Base, ev.control, ev.at, Active)

(* Mutant of HandlesUp: the momentary layer ends with the release gesture, *)
(* so a side button let go before HoldThreshold leaves it on.              *)
HandlesUpAfterHold(ev) ==
    /\ Handles(ev)
    /\ ev.kind = "up"
    /\ heldLayers' = IF ev.control \in Base.held THEN Popped(ev.control) ELSE heldLayers
    /\ HandleUp(Base, ev.control, ev.at, DeferPress(cfg))
    /\ UNCHANGED downLayer

HandlesUp(ev) ==
    /\ Handles(ev)
    /\ ev.kind = "up"
    /\ heldLayers' = Popped(ev.control)
    /\ HandleUp(Base, ev.control, ev.at, DeferPress(cfg))
    /\ UNCHANGED downLayer

ReadEvent(ev) ==
    \/ LearnSwallows(ev)
    \/ LearnCaptures(ev)
    \/ HandlesTurn(ev)
    \/ HandlesDown(ev)
    \/ HandlesUp(ev)

-----------------------------------------------------------------------------
(* case now := <-timerC *)

(* Mutant of WakeTimes: only gestures wake the loop. *)
WakeTimesOfGestures == Deadlines(gm, DetectHold(cfg))

WakeTimes ==
    Deadlines(gm, DetectHold(cfg)) \cup (IF Armed THEN {learnUntil} ELSE {})

(* The timer was set to the earliest deadline and its value is a time      *)
(* between that deadline and the present.  learnUntil is compared with it  *)
(* after Tick; that Reset leaves the gestures Tick returned alone.         *)
TimerFires(now) ==
    /\ AtSelect
    /\ \E d \in WakeTimes : d <= now /\ \A e \in WakeTimes : d <= e
    /\ out' = TickFirings(gm, now, DetectHold(cfg))
    /\ \/ /\ Armed /\ learnUntil <= now
          /\ learnUntil' = None
          /\ gm' = Fresh
       \/ /\ ~(Armed /\ learnUntil <= now)
          /\ UNCHANGED learnUntil
          /\ gm' = Ticked(gm, now, DetectHold(cfg))
    /\ UNCHANGED <<env, layers, cfg, ducked>>

-----------------------------------------------------------------------------
(* dispatchGesture *)

(* Mutant of ResolvedLayer: a release resolves on the layer active now. *)
ResolvedLayerOnRelease(g) ==
    IF g.gesture \in ButtonGesture \ {"release"} /\ downLayer[g.control] # None
    THEN downLayer[g.control] ELSE Active

(* A press and what follows from it resolve on the layer pinned at the     *)
(* control's down, a turn on the layer active now.                         *)
ResolvedLayer(g) ==
    IF g.gesture \in ButtonGesture /\ downLayer[g.control] # None
    THEN downLayer[g.control] ELSE Active

(* Mutant of BoundAction: a release needs a binding of its own. *)
BoundActionOwn(g) == Lookup(cfg, ResolvedLayer(g), g.control, g.gesture)

(* A release with no binding of its own falls to a duck bound to the hold. *)
BoundAction(g) ==
    LET l    == ResolvedLayer(g)
        own  == Lookup(cfg, l, g.control, g.gesture)
        hold == Lookup(cfg, l, g.control, "hold")
    IN  IF own.type = "none" /\ g.gesture = "release" /\ hold.type = "duck"
        THEN hold ELSE own

(* Takes g from the gestures in hand, dropping the pin of a press that is  *)
(* over, whatever becomes of g.                                            *)
Takes(g) ==
    /\ g \in Dispatchable
    /\ out' = out \ {g}
    /\ downLayer' = IF g.gesture \in ButtonGesture \ {"hold"}
                    THEN [downLayer EXCEPT ![g.control] = None] ELSE downLayer
    /\ UNCHANGED <<gm, env, heldLayers, cfg, learnUntil>>

Latches(g) ==
    /\ Takes(g)
    /\ BoundAction(g).type = "latch"
    /\ latched' = Latch(BoundAction(g).layer)
    /\ UNCHANGED ducked

Cycles(g) ==
    /\ Takes(g)
    /\ BoundAction(g).type = "cycle"
    /\ latched' = Cycle(BoundAction(g).order, cfg.maxLayer)
    /\ UNCHANGED ducked

(* audio.duck_hold is told of the hold that starts it and of the release.  *)
Ducks(g) ==
    /\ Takes(g)
    /\ BoundAction(g).type = "duck"
    /\ ducked' = IF g.gesture = "hold" THEN ducked \cup {g.control}
                                       ELSE ducked \ {g.control}
    /\ UNCHANGED latched

(* Nothing bound, a momentary layer (its work is done at the raw down and  *)
(* up) or an invocation that leaves the run loop's own state alone.        *)
Invokes(g) ==
    /\ Takes(g)
    /\ BoundAction(g).type \in {"none", "momentary", "other"}
    /\ UNCHANGED <<latched, ducked>>

Dispatch(g) == Latches(g) \/ Cycles(g) \/ Ducks(g) \/ Invokes(g)

-----------------------------------------------------------------------------
(* case req := <-e.configCh *)

SetConfig(cf) ==
    /\ AtSelect
    /\ cfg' = cf
    /\ latched' = IF cf.profile # cfg.profile THEN 0 ELSE latched
    /\ heldLayers' = <<>>
    /\ UNCHANGED <<gm, out, env, downLayer, learnUntil, ducked>>

(* Mutant of SetLearnUntil: presses in flight survive arming. *)
SetLearnUntilOnly(deadline) ==
    /\ AtSelect
    /\ LearnAllowed
    /\ clock <= InputUntil
    /\ learnUntil' = deadline
    /\ UNCHANGED <<gm, out, env, layers, cfg, ducked>>

(* case req := <-e.learnCh: arming and disarming both Reset. *)
SetLearnUntil(deadline) ==
    /\ AtSelect
    /\ LearnAllowed
    /\ clock <= InputUntil
    /\ learnUntil' = deadline
    /\ gm' = Fresh
    /\ UNCHANGED <<out, env, layers, cfg, ducked>>

-----------------------------------------------------------------------------

NextEvent == \E ev \in {inbox[i] : i \in 1..Len(inbox)} : ReadEvent(ev)
NextTimer == \E now \in 0..clock : TimerFires(now)
NextDispatch == \E g \in out : Dispatch(g)

Next ==
    \/ Tock
    \/ \E c \in Buttons : PushDown(c) \/ LetGo(c)
    \/ \E c \in Knobs : Turn(c)
    \/ Unplug
    \/ NextEvent
    \/ NextTimer
    \/ NextDispatch
    \/ \E cf \in Config : SetConfig(cf)
    \/ \E d \in {None, clock + LearnTimeout} : SetLearnUntil(d)

Spec == Init /\ [][Next]_vars

(* Time passes, and an arm of select that stays ready is chosen in the     *)
(* end, because select picks among the ready arms at random.  The user and *)
(* the API owe nothing.                                                    *)
Fairness ==
    /\ WF_vars(Tock)
    /\ WF_vars(NextEvent)
    /\ WF_vars(NextTimer)
    /\ WF_vars(NextDispatch)

FairSpec == Spec /\ Fairness

-----------------------------------------------------------------------------
(* Properties *)

(* Every variable keeps the type the Go declarations give it. *)
TypeOK ==
    /\ gm \in Machine
    /\ out \in SUBSET Firing
    /\ clock \in Nat
    /\ inbox \in Seq(Event)
    /\ pressed \in SUBSET Control
    /\ cfg \in Config
    /\ latched \in Layer
    /\ heldLayers \in Seq(HeldLayer)
    /\ downLayer \in [Control -> Layer \cup {None}]
    /\ learnUntil \in Time
    /\ ducked \in SUBSET Control

(* gesture.go keeps lastPress and pending in two maps that its four delete *)
(* sites must clear together: a second press can pair with a first exactly *)
(* while that first press is still waiting to fire on its own, and never   *)
(* with one that a hold or a timeout has already disposed of.              *)
MapsAgree == PressesPaired(gm)

(* What MapsAgree rests on: messages keep the order they were read in, so  *)
(* nothing in the machine is later than what is still to come.             *)
InOrder ==
    /\ PressesOrdered(gm)
    /\ NothingAfter(gm, clock)
    /\ \A i \in 1..Len(inbox) :
          /\ NothingAfter(gm, inbox[i].at)
          /\ inbox[i].at <= clock
          /\ \A j \in i..Len(inbox) : inbox[i].at <= inbox[j].at

(* learn.go: while learn is armed "the gesture machine never sees" an      *)
(* event, and arming resets it, so nothing the timer does can dispatch.    *)
LearnIsQuiet == Armed => gm = Fresh /\ out = {}

(* layers.go, pushMomentary: even after unbalanced downs no control is on  *)
(* the momentary stack twice, so one up always takes it off.               *)
HeldOnce ==
    \A i, j \in 1..Len(heldLayers) :
        heldLayers[i].control = heldLayers[j].control => i = j

(* layers.go, active: the layer is that of a "still-held" momentary button *)
(* or the latched one.  With every button up and every event consumed it   *)
(* must be the latched one.                                                *)
AtRest == pressed = {} /\ inbox = <<>> /\ out = {}

RestsOnLatchedLayer == AtRest => Active = latched

(* engine.go, holdPaired: the whole point of a duck is "restore on         *)
(* release", so with every button up and every event handled no duck is    *)
(* still in force.                                                         *)
DuckEnds == AtRest => ducked = {}

(* What that takes of the configurations: a control whose hold ducks on a  *)
(* layer does so in all of them, with no release that does something else  *)
(* there, and with no double press, which may take the pin of the hold.    *)
Ducking(cf, l, c) == Lookup(cf, l, c, "hold").type = "duck"

DucksAlike ==
    \A cf \in Config, l \in Layer, c \in Control : Ducking(cf, l, c) =>
        /\ Lookup(cf, l, c, "release").type \in {"none", "duck"}
        /\ \A other \in Config : Ducking(other, l, c) /\ c \notin DeferPress(other)

(* engine.go, downLayer: a press, hold, release or double press resolves   *)
(* on the layer that was active when its control went down.  Excepted are  *)
(* the controls some configuration binds a double press to: their deferred *)
(* press may fire while they are down again, and takes that press's pin.   *)
NeverDeferred == {c \in Control : \A cf \in Config : c \notin DeferPress(cf)}

Pinned(S) ==
    \A g \in out : g.gesture \in ButtonGesture /\ g.control \in S
                      => ResolvedLayer(g) = g.born

PinnedLayer == Pinned(NeverDeferred)

(* What PinnedLayer rests on: the pin of a press in progress or in hand is *)
(* its own, and nothing in hand can take it from another.                  *)
PinsKept ==
    /\ \A c \in NeverDeferred :
          /\ gm.pending[c] = None
          /\ gm.downAt[c] # None => downLayer[c] = gm.born[c]
    /\ \A g \in out : g.gesture \in ButtonGesture /\ g.control \in NeverDeferred =>
          /\ downLayer[g.control] = g.born
          /\ g.gesture # "hold" => gm.downAt[g.control] = None
          /\ \A h \in out : h.control = g.control => h = g

(* gesture.go, handleUp and Tick: a press that waits is emitted when its   *)
(* window closes, or becomes half of a double press.  No step may put      *)
(* another press in its place unless the second press ended after that     *)
(* window (gm'.pending is DoublePressWindow past the second release):      *)
(* handled before the timer arm, such a press replaces the first.          *)
Replaced(c) == gm.pending[c] # None /\ gm'.pending[c] \notin {None, gm.pending[c]}

InTimePressKept ==
    [][\A c \in Control : Replaced(c) =>
            gm'.pending[c] > gm.pending[c] + DoublePressWindow]_vars

(* gesture.go, NextDeadline: "the earliest time at which Tick would        *)
(* produce a gesture": Run is woken when there is something to do, and for *)
(* nothing else, or it would spin; the deadlines and Tick ask the same     *)
(* hook, which a new configuration replaces under presses in flight.       *)
WorkAt(now) ==
    \/ TickFirings(gm, now, DetectHold(cfg)) # {}
    \/ Armed /\ learnUntil <= now

TimerWorks ==
    \A now \in 0..clock : WorkAt(now) <=> \E d \in WakeTimes : d <= now

(* gesture.go, deferPress: a deferred press does not wait for ever.        *)
DeferredPressEnds == \A c \in Control : gm.pending[c] # None ~> gm.pending[c] = None

(* gesture.go, Tick: a button bound to a hold that stays down becomes a    *)
(* hold, if nothing else ends its press.                                   *)
LongPressHolds ==
    \A c \in Control : gm.downAt[c] # None /\ c \in DetectHold(cfg)
        ~> c \in gm.held \/ gm.downAt[c] = None \/ c \notin DetectHold(cfg)

(* learn.go, DefaultLearnTimeout: an armed learn whose client died does    *)
(* not suppress the controller for ever.                                   *)
LearnEnds == Armed ~> ~Armed
=============================================================================
