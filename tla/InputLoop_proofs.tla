--------------------------- MODULE InputLoop_proofs ---------------------------
(***************************************************************************)
(* What holds of InputLoop for every device, binding set, timing and inbox *)
(* size.  The invariants are proved one on top of the other: the types,    *)
(* then the quiet of an armed learn, then the order of timestamps with the *)
(* agreement of the gesture machine's maps, then the pins of downLayer.    *)
(***************************************************************************)
EXTENDS InputLoop, SequenceTheorems, WellFoundedInduction, TLAPS

-----------------------------------------------------------------------------
(* Types *)

LEMMA LookupType ==
    ASSUME NEW cf \in Config, NEW l \in Layer, NEW c \in Control, NEW g \in Gesture
    PROVE  Lookup(cf, l, c, g) \in Action
  <1>1. cf \in BindingIndex /\ 0 \in Layer
    BY ConfigAssumption, LayerAssumption DEF Layer
  <1>2. <<l, c, g>> \in Layer \X Control \X Gesture /\ <<0, c, g>> \in Layer \X Control \X Gesture
    BY <1>1
  <1>3. cf.byKey \in [Layer \X Control \X Gesture -> Action]
    BY <1>1 DEF BindingIndex
  <1> QED BY <1>2, <1>3 DEF Lookup

LEMMA ActiveType == TypeOK => Active \in Layer
  <1> SUFFICES ASSUME TypeOK, heldLayers # <<>>
               PROVE  heldLayers[Len(heldLayers)].layer \in Layer
    BY DEF TypeOK, Active
  <1>1. heldLayers[Len(heldLayers)] \in HeldLayer
    BY DEF TypeOK
  <1> QED BY <1>1 DEF HeldLayer

(* An entry is taken out at its first occurrence. *)
LEMMA LeastNatural ==
    ASSUME NEW S \in SUBSET Nat, S # {}
    PROVE  \E m \in S : \A n \in S : m <= n
  <1> DEFINE R == OpToRel(<, Nat)
  <1>1. IsWellFoundedOn(R, Nat)
    BY NatLessThanWellFounded
  <1>2. PICK m \in S : \A n \in S : <<n, m>> \notin R
    <2> HIDE DEF R
    <2> QED BY <1>1, WFMin
  <1>3. \A n \in S : ~ (n < m)
    BY <1>2 DEF OpToRel
  <1> QED BY <1>3

LEMMA FirstEntry ==
    ASSUME NEW c \in Control, TypeOK, Entries(c) # {}
    PROVE  (CHOOSE i \in Entries(c) : \A j \in Entries(c) : i <= j) \in 1..Len(heldLayers)
  <1>1. Entries(c) \in SUBSET Nat
    BY DEF Entries, TypeOK
  <1>2. \E k \in Entries(c) : \A j \in Entries(c) : k <= j
    BY <1>1, LeastNatural
  <1>3. (CHOOSE i \in Entries(c) : \A j \in Entries(c) : i <= j) \in Entries(c)
    BY <1>2
  <1> QED BY <1>3 DEF Entries

LEMMA WithoutType ==
    ASSUME NEW S, NEW s \in Seq(S), NEW i \in 1..Len(s)
    PROVE  Without(s, i) \in Seq(S) /\ Len(Without(s, i)) = Len(s) - 1
  <1>1. Len(s) - 1 \in Nat
    OBVIOUS
  <1>2. \A j \in 1..(Len(s) - 1) : (IF j < i THEN s[j] ELSE s[j + 1]) \in S
    OBVIOUS
  <1> QED BY <1>1, <1>2 DEF Without

LEMMA PoppedType ==
    ASSUME TypeOK, NEW c \in Control
    PROVE  Popped(c) \in Seq(HeldLayer)
  <1>1. CASE Entries(c) = {}
    BY <1>1 DEF Popped, TypeOK
  <1>2. CASE Entries(c) # {}
    <2>1. heldLayers \in Seq(HeldLayer)
      BY DEF TypeOK
    <2> QED BY <1>2, <2>1, FirstEntry, WithoutType DEF Popped
  <1> QED BY <1>1, <1>2

LEMMA PushedType ==
    ASSUME TypeOK, NEW c \in Control, NEW l \in Layer
    PROVE  Pushed(c, l) \in Seq(HeldLayer)
  <1>1. Popped(c) \in Seq(HeldLayer)
    BY PoppedType
  <1>2. [control |-> c, layer |-> l] \in HeldLayer
    BY DEF HeldLayer
  <1> QED BY <1>1, <1>2 DEF Pushed

LEMMA CycleType ==
    ASSUME TypeOK, NEW order \in Seq(Layer), NEW top \in Layer
    PROVE  Cycle(order, top) \in Layer
  <1>1. CASE order = <<>>
    <2>1. top \in Nat /\ latched \in Nat /\ top <= MaxLayer
      BY LayerAssumption DEF TypeOK, Layer
    <2>2. (latched + 1) % (top + 1) \in 0..top
      BY <2>1
    <2> QED BY <1>1, <2>1, <2>2, LayerAssumption DEF Cycle, Layer
  <1>2. CASE order # <<>>
    <2> DEFINE at == {i \in 1..Len(order) : order[i] = latched}
               next == CHOOSE i \in at : \A j \in at : i <= j
    <2>1. Len(order) \in Nat \ {0}
      BY <1>2
    <2>2. order[1] \in Layer
      BY <2>1
    <2>3. CASE at # {}
      <3>1. at \in SUBSET Nat
        OBVIOUS
      <3>2. \E i \in at : \A j \in at : i <= j
        BY <2>3, <3>1, LeastNatural
      <3>3. next \in 1..Len(order)
        BY <3>2
      <3>4. (next % Len(order)) + 1 \in 1..Len(order)
        BY <2>1, <3>3
      <3>5. order[(next % Len(order)) + 1] \in Layer
        BY <3>4
      <3> QED BY <1>2, <2>3, <3>5 DEF Cycle
    <2> QED BY <1>2, <2>2, <2>3 DEF Cycle
  <1> QED BY <1>1, <1>2

(* The machine *)

LEMMA FreshType == Fresh \in Machine
  BY LayerAssumption DEF Fresh, Machine, Time, None, Layer

LEMMA FiringType ==
    ASSUME NEW c \in Control, NEW g \in Gesture, NEW l \in Layer
    PROVE  Fires(c, g, l) \in Firing
  BY DEF Fires, Firing

LEMMA UpdateType ==
    ASSUME NEW S, NEW f \in [Control -> S], NEW c \in Control, NEW v \in S
    PROVE  [f EXCEPT ![c] = v] \in [Control -> S]
  OBVIOUS

LEMMA MachineType ==
    ASSUME NEW d \in [Control -> Time], NEW h \in SUBSET Control,
           NEW l \in [Control -> Time], NEW p \in [Control -> Time],
           NEW b \in [Control -> Layer], NEW pb \in [Control -> Layer]
    PROVE  [downAt |-> d, held |-> h, lastPress |-> l, pending |-> p,
            born |-> b, pendingBorn |-> pb] \in Machine
  BY DEF Machine

LEMMA HandleType ==
    ASSUME NEW m \in Machine, NEW c \in Control, NEW at \in Nat, NEW l \in Layer,
           NEW defers \in SUBSET Control,
           HandleTurn(m, c, l) \/ HandleDown(m, c, at, l) \/ HandleUp(m, c, at, defers)
    PROVE  gm' \in Machine /\ out' \in SUBSET Firing
  <1>1. /\ m.downAt \in [Control -> Time] /\ m.held \in SUBSET Control
        /\ m.lastPress \in [Control -> Time] /\ m.pending \in [Control -> Time]
        /\ m.born \in [Control -> Layer] /\ m.pendingBorn \in [Control -> Layer]
        /\ m.born[c] \in Layer
    BY DEF Machine
  <1>2. None \in Time /\ at \in Time /\ at + DoublePressWindow \in Time
    BY TimingAssumption DEF Time
  <1>3. \A g \in Gesture : Fires(c, g, m.born[c]) \in Firing /\ Fires(c, g, l) \in Firing
    BY <1>1, FiringType
  <1>4. CASE HandleTurn(m, c, l)
    BY <1>3, <1>4 DEF HandleTurn, Gesture
  <1>5. CASE HandleDown(m, c, at, l)
    <2>1. gm' = [downAt |-> [m.downAt EXCEPT ![c] = at],
                 held |-> m.held \ {c},
                 lastPress |-> m.lastPress, pending |-> m.pending,
                 born |-> [m.born EXCEPT ![c] = l], pendingBorn |-> m.pendingBorn]
      BY <1>5 DEF HandleDown, Machine
    <2>2. gm' \in Machine
      BY <1>1, <1>2, <2>1, UpdateType, MachineType
    <2> QED BY <1>5, <2>2 DEF HandleDown
  <1>6. CASE UpUnmatched(m, c)
    BY <1>6 DEF UpUnmatched
  <1>7. CASE UpReleases(m, c)
    <2>1. gm' = [downAt |-> [m.downAt EXCEPT ![c] = None],
                 held |-> m.held \ {c},
                 lastPress |-> [m.lastPress EXCEPT ![c] = None],
                 pending |-> m.pending, born |-> m.born, pendingBorn |-> m.pendingBorn]
      BY <1>7 DEF UpReleases, Machine
    <2>2. gm' \in Machine
      BY <1>1, <1>2, <2>1, UpdateType, MachineType
    <2> QED BY <1>3, <1>7, <2>2 DEF UpReleases, Gesture, ButtonGesture
  <1>8. CASE UpPresses(m, c, defers)
    <2>1. gm' = [downAt |-> [m.downAt EXCEPT ![c] = None],
                 held |-> m.held, lastPress |-> m.lastPress, pending |-> m.pending,
                 born |-> m.born, pendingBorn |-> m.pendingBorn]
      BY <1>8 DEF UpPresses, Machine
    <2>2. gm' \in Machine
      BY <1>1, <1>2, <2>1, UpdateType, MachineType
    <2> QED BY <1>3, <1>8, <2>2 DEF UpPresses, Gesture, ButtonGesture
  <1>9. CASE UpDoubles(m, c, at, defers)
    <2>1. gm' = [downAt |-> [m.downAt EXCEPT ![c] = None],
                 held |-> m.held,
                 lastPress |-> [m.lastPress EXCEPT ![c] = None],
                 pending |-> [m.pending EXCEPT ![c] = None],
                 born |-> m.born, pendingBorn |-> m.pendingBorn]
      BY <1>9 DEF UpDoubles, Machine
    <2>2. gm' \in Machine
      BY <1>1, <1>2, <2>1, UpdateType, MachineType
    <2> QED BY <1>3, <1>9, <2>2 DEF UpDoubles, Gesture, ButtonGesture
  <1>10. CASE UpDefers(m, c, at, defers)
    <2>1. gm' = [downAt |-> [m.downAt EXCEPT ![c] = None],
                 held |-> m.held,
                 lastPress |-> [m.lastPress EXCEPT ![c] = at],
                 pending |-> [m.pending EXCEPT ![c] = at + DoublePressWindow],
                 born |-> m.born,
                 pendingBorn |-> [m.pendingBorn EXCEPT ![c] = m.born[c]]]
      BY <1>10 DEF UpDefers, Machine
    <2>2. gm' \in Machine
      BY <1>1, <1>2, <2>1, UpdateType, MachineType
    <2> QED BY <1>10, <2>2 DEF UpDefers
  <1> QED BY <1>4, <1>5, <1>6, <1>7, <1>8, <1>9, <1>10 DEF HandleUp

(* Tick, field by field. *)
LEMMA TickedIs ==
    ASSUME NEW m \in Machine, NEW now, NEW detects
    PROVE  Ticked(m, now, detects) =
             [downAt |-> m.downAt,
              held |-> m.held \cup HoldDue(m, now, detects),
              lastPress |-> [c \in Control |->
                               IF c \in HoldDue(m, now, detects) \cup PressDue(m, now)
                               THEN None ELSE m.lastPress[c]],
              pending |-> [c \in Control |->
                             IF c \in PressDue(m, now) THEN None ELSE m.pending[c]],
              born |-> m.born,
              pendingBorn |-> m.pendingBorn]
  <1> DEFINE holds == HoldDue(m, now, detects)
             lp == [c \in Control |->
                      IF c \in holds \cup PressDue(m, now) THEN None ELSE m.lastPress[c]]
             pd == [c \in Control |->
                      IF c \in PressDue(m, now) THEN None ELSE m.pending[c]]
  <1>1. Ticked(m, now, detects) = [m EXCEPT !.held = m.held \cup holds,
                                            !.lastPress = lp, !.pending = pd]
    BY DEF Ticked
  <1> HIDE DEF holds, lp, pd
  <1>2. Ticked(m, now, detects) =
          [downAt |-> m.downAt, held |-> m.held \cup holds, lastPress |-> lp,
           pending |-> pd, born |-> m.born, pendingBorn |-> m.pendingBorn]
    BY <1>1 DEF Machine
  <1> QED BY <1>2 DEF holds, lp, pd

LEMMA TickType ==
    ASSUME NEW m \in Machine, NEW now \in Nat, NEW detects \in SUBSET Control
    PROVE  /\ Ticked(m, now, detects) \in Machine
           /\ TickFirings(m, now, detects) \in SUBSET Firing
  <1>1. HoldDue(m, now, detects) \subseteq Control /\ PressDue(m, now) \subseteq Control
    BY DEF HoldDue, Holding, PressDue
  <1>2. Ticked(m, now, detects) \in Machine
    <2> DEFINE holds == HoldDue(m, now, detects)
               presses == PressDue(m, now)
               lp == [c \in Control |->
                        IF c \in holds \cup presses THEN None ELSE m.lastPress[c]]
               pd == [c \in Control |-> IF c \in presses THEN None ELSE m.pending[c]]
    <2>1. Ticked(m, now, detects) =
            [downAt |-> m.downAt, held |-> m.held \cup holds,
             lastPress |-> lp, pending |-> pd,
             born |-> m.born, pendingBorn |-> m.pendingBorn]
      BY TickedIs
    <2>2. /\ m.downAt \in [Control -> Time] /\ m.held \in SUBSET Control
          /\ m.lastPress \in [Control -> Time] /\ m.pending \in [Control -> Time]
          /\ m.born \in [Control -> Layer] /\ m.pendingBorn \in [Control -> Layer]
          /\ None \in Time
      BY DEF Machine, Time
    <2> HIDE DEF holds, presses
    <2>3. holds \subseteq Control
      BY <1>1 DEF holds
    <2>4. lp \in [Control -> Time] /\ pd \in [Control -> Time]
      BY <2>2
    <2> QED BY <2>1, <2>2, <2>3, <2>4, MachineType
  <1>3. \A c \in Control : m.born[c] \in Layer /\ m.pendingBorn[c] \in Layer
    BY DEF Machine
  <1>4. TickFirings(m, now, detects) \subseteq Firing
    BY <1>1, <1>3, FiringType DEF TickFirings, Gesture, ButtonGesture
  <1> QED BY <1>2, <1>4

-----------------------------------------------------------------------------
(* Every state is of the declared types. *)

LEMMA InitTypeOK == Init => TypeOK
  <1> SUFFICES ASSUME Init PROVE TypeOK
    OBVIOUS
  <1>1. gm \in Machine
    BY FreshType DEF Init
  <1>2. latched \in Layer
    BY LayerAssumption DEF Init, Layer
  <1>3. cfg \in Config
    BY ConfigAssumption DEF Init
  <1> QED BY <1>1, <1>2, <1>3 DEF Init, TypeOK, Time

LEMMA BindingsType ==
    ASSUME TypeOK
    PROVE  /\ DeferPress(cfg) \in SUBSET Control
           /\ DetectHold(cfg) \in SUBSET Control
           /\ cfg.maxLayer \in Layer
  BY ConfigAssumption DEF TypeOK, DeferPress, DetectHold, BoundTo, BindingIndex

LEMMA BoundActionType ==
    ASSUME TypeOK, NEW g \in out
    PROVE  BoundAction(g) \in Action
  <1>1. g.control \in Control /\ g.gesture \in Gesture /\ "hold" \in Gesture
    BY DEF TypeOK, Firing, Gesture, ButtonGesture
  <1>2. ResolvedLayer(g) \in Layer
    BY <1>1, ActiveType DEF TypeOK, ResolvedLayer
  <1>3. cfg \in Config
    BY DEF TypeOK
  <1> QED BY <1>1, <1>2, <1>3, LookupType DEF BoundAction

LEMMA BaseType == TypeOK => Base \in Machine
  BY FreshType DEF TypeOK, Base

(* A message taken off the inbox is an event, and leaves events. *)
LEMMA ReadsType ==
    ASSUME TypeOK, NEW ev, Reads(ev)
    PROVE  /\ ev \in Event /\ ev.control \in Control /\ ev.at \in Nat
           /\ inbox' \in Seq(Event)
           /\ UNCHANGED <<clock, pressed, cfg, latched, ducked>>
  <1>1. inbox \in Seq(Event) /\ inbox # <<>>
    BY DEF TypeOK, Reads
  <1>2. ev \in Event /\ inbox' \in Seq(Event)
    BY <1>1, HeadTailProperties DEF Reads
  <1> QED BY <1>2 DEF Reads, Event

LEMMA ReadTypeOK ==
    ASSUME TypeOK, NEW ev, ReadEvent(ev)
    PROVE  TypeOK'
  <1> USE DEF TypeOK
  <1>1. ev \in Event /\ ev.control \in Control /\ ev.at \in Nat
    BY ReadsType DEF ReadEvent, LearnSwallows, LearnCaptures, HandlesTurn, HandlesDown,
                     HandlesUp, Handles
  <1>2. Active \in Layer /\ Base \in Machine /\ DeferPress(cfg) \in SUBSET Control
    BY ActiveType, BaseType, BindingsType
  <1>3. None \in Time
    BY DEF Time
  <1>4. CASE LearnSwallows(ev)
    BY <1>4, ReadsType DEF LearnSwallows
  <1>5. CASE LearnCaptures(ev)
    BY <1>3, <1>5, ReadsType, FreshType DEF LearnCaptures
  <1>6. CASE HandlesTurn(ev)
    <2>1. gm' \in Machine /\ out' \in SUBSET Firing
      BY <1>1, <1>2, <1>6, HandleType DEF HandlesTurn
    <2> QED BY <1>3, <1>6, <2>1, ReadsType DEF HandlesTurn, Handles
  <1>7. CASE HandlesDown(ev)
    <2>1. gm' \in Machine /\ out' \in SUBSET Firing
      BY <1>1, <1>2, <1>7, HandleType DEF HandlesDown
    <2>2. heldLayers' \in Seq(HeldLayer)
      <3>1. Lookup(cfg, Active, ev.control, "hold") \in Action
        BY <1>1, <1>2, LookupType DEF Gesture, ButtonGesture
      <3>2. Lookup(cfg, Active, ev.control, "hold").layer \in Layer
        BY <3>1 DEF Action
      <3> QED BY <1>1, <1>7, <3>2, PushedType DEF HandlesDown
    <2>3. downLayer' \in [Control -> Layer \cup {None}]
      BY <1>1, <1>2, <1>7 DEF HandlesDown
    <2> QED BY <1>3, <1>7, <2>1, <2>2, <2>3, ReadsType DEF HandlesDown, Handles
  <1>8. CASE HandlesUp(ev)
    <2>1. gm' \in Machine /\ out' \in SUBSET Firing
      BY <1>1, <1>2, <1>8, HandleType DEF HandlesUp
    <2>2. heldLayers' \in Seq(HeldLayer)
      BY <1>1, <1>8, PoppedType DEF HandlesUp
    <2> QED BY <1>3, <1>8, <2>1, <2>2, ReadsType DEF HandlesUp, Handles
  <1> QED BY <1>4, <1>5, <1>6, <1>7, <1>8 DEF ReadEvent

(* A message from the device goes to the back of the inbox. *)
LEMMA DeliverType ==
    ASSUME TypeOK, NEW kind \in EventKind, NEW c \in Control, Deliver(kind, c)
    PROVE  inbox' \in Seq(Event)
  <1> DEFINE ev == [kind |-> kind, control |-> c, at |-> clock]
  <1>1. ev \in Event
    BY DEF TypeOK, Event
  <1>2. inbox \in Seq(Event)
    BY DEF TypeOK
  <1>3. CASE Len(inbox) < InboxSize /\ inbox' = Append(inbox, ev)
    BY <1>1, <1>2, <1>3
  <1>4. CASE \E i \in 1..Len(inbox) : inbox' = Append(Without(inbox, i), ev)
    <2>1. PICK i \in 1..Len(inbox) : inbox' = Append(Without(inbox, i), ev)
      BY <1>4
    <2>2. Without(inbox, i) \in Seq(Event)
      BY <1>2, WithoutType
    <2> QED BY <1>1, <2>1, <2>2
  <1> QED BY <1>3, <1>4 DEF Deliver

LEMMA UserTypeOK ==
    ASSUME TypeOK, NEW c \in Control, PushDown(c) \/ LetGo(c) \/ Turn(c)
    PROVE  TypeOK'
  <1>1. inbox' \in Seq(Event)
    BY DeliverType DEF PushDown, LetGo, Turn, EventKind
  <1> QED BY <1>1 DEF TypeOK, PushDown, LetGo, Turn, UserActs, layers

LEMMA TimerTypeOK ==
    ASSUME TypeOK, NEW now \in 0..clock, TimerFires(now)
    PROVE  TypeOK'
  <1>1. now \in Nat /\ gm \in Machine /\ DetectHold(cfg) \in SUBSET Control
    BY BindingsType DEF TypeOK
  <1>2. out' \in SUBSET Firing /\ gm' \in Machine
    BY <1>1, TickType, FreshType DEF TimerFires
  <1>3. learnUntil' \in Time
    BY DEF TimerFires, TypeOK, Time
  <1> QED BY <1>2, <1>3 DEF TypeOK, TimerFires, env, layers

LEMMA DispatchTypeOK ==
    ASSUME TypeOK, NEW g \in out, Dispatch(g)
    PROVE  TypeOK'
  <1>1. g.control \in Control
    BY DEF TypeOK, Firing
  <1>2. BoundAction(g) \in Action
    BY BoundActionType
  <1>3. Takes(g)
    BY DEF Dispatch, Latches, Cycles, Ducks, Invokes
  <1>4. /\ out' \in SUBSET Firing
        /\ downLayer' \in [Control -> Layer \cup {None}]
        /\ UNCHANGED <<gm, env, heldLayers, cfg, learnUntil>>
    BY <1>1, <1>3 DEF Takes, TypeOK
  <1>5. latched' \in Layer
    <2>1. CASE Latches(g)
      BY <1>2, <2>1, LayerAssumption DEF Latches, Latch, Action, Layer
    <2>2. CASE Cycles(g)
      <3>1. BoundAction(g).order \in Seq(Layer) /\ cfg.maxLayer \in Layer
        BY <1>2, BindingsType DEF Action
      <3> QED BY <2>2, <3>1, CycleType DEF Cycles
    <2>3. CASE Ducks(g) \/ Invokes(g)
      BY <2>3 DEF Ducks, Invokes, TypeOK
    <2> QED BY <2>1, <2>2, <2>3 DEF Dispatch
  <1>6. ducked' \in SUBSET Control
    BY <1>1 DEF Dispatch, Latches, Cycles, Ducks, Invokes, TypeOK
  <1> QED BY <1>4, <1>5, <1>6 DEF TypeOK, env

LEMMA RequestTypeOK ==
    ASSUME TypeOK,
           \/ \E cf \in Config : SetConfig(cf)
           \/ \E d \in {None, clock + LearnTimeout} : SetLearnUntil(d)
    PROVE  TypeOK'
  <1>1. CASE \E cf \in Config : SetConfig(cf)
    BY <1>1, LayerAssumption DEF SetConfig, TypeOK, env, Layer
  <1>2. CASE \E d \in {None, clock + LearnTimeout} : SetLearnUntil(d)
    <2>1. learnUntil' \in Time
      BY <1>2, BoundsAssumption DEF SetLearnUntil, TypeOK, Time
    <2> QED BY <1>2, <2>1, FreshType DEF SetLearnUntil, TypeOK, env, layers
  <1> QED BY <1>1, <1>2

(* Every variable of the run loop always has the type the Go declarations  *)
(* give it: no layer beyond the device's, no nil entry read as a value.    *)
THEOREM TypeCorrect == Spec => []TypeOK
  <1>1. Init => TypeOK
    BY InitTypeOK
  <1>2. TypeOK /\ [Next]_vars => TypeOK'
    <2> SUFFICES ASSUME TypeOK, [Next]_vars PROVE TypeOK'
      OBVIOUS
    <2>1. CASE Tock
      BY <2>1 DEF Tock, TypeOK, layers
    <2>2. CASE \E c \in Buttons : PushDown(c) \/ LetGo(c)
      BY <2>2, UserTypeOK, BoundsAssumption
    <2>3. CASE (\E c \in Knobs : Turn(c)) \/ Unplug
      BY <2>3, UserTypeOK, BoundsAssumption DEF Unplug, UserActs, TypeOK, layers
    <2>4. CASE NextEvent
      BY <2>4, ReadTypeOK DEF NextEvent
    <2>5. CASE NextTimer
      BY <2>5, TimerTypeOK DEF NextTimer
    <2>6. CASE NextDispatch
      BY <2>6, DispatchTypeOK DEF NextDispatch
    <2>7. CASE \/ \E cf \in Config : SetConfig(cf)
               \/ \E d \in {None, clock + LearnTimeout} : SetLearnUntil(d)
      BY <2>7, RequestTypeOK
    <2>8. CASE UNCHANGED vars
      BY <2>8 DEF TypeOK, vars, env, layers
    <2> QED BY <2>1, <2>2, <2>3, <2>4, <2>5, <2>6, <2>7, <2>8 DEF Next
  <1> QED BY <1>1, <1>2, PTL DEF Spec

-----------------------------------------------------------------------------
(* An armed learn is quiet. *)

(* A machine with no press in flight has nothing to say to Tick. *)
LEMMA FreshTicks ==
    ASSUME NEW now, NEW detects \in SUBSET Control
    PROVE  Ticked(Fresh, now, detects) = Fresh /\ TickFirings(Fresh, now, detects) = {}
  <1>1. HoldDue(Fresh, now, detects) = {}
    BY DEF HoldDue, Holding, Fresh
  <1>2. PressDue(Fresh, now) = {}
    BY DEF PressDue, Fresh
  <1>3. TickFirings(Fresh, now, detects) = {}
    BY <1>1, <1>2 DEF TickFirings
  <1>4. Ticked(Fresh, now, detects) = Fresh
    <2>1. /\ Fresh.held \cup {} = Fresh.held
          /\ [c \in Control |-> Fresh.lastPress[c]] = Fresh.lastPress
          /\ [c \in Control |-> Fresh.pending[c]] = Fresh.pending
      BY DEF Fresh
    <2> QED BY <1>1, <1>2, <2>1, FreshType, TickedIs DEF Fresh
  <1> QED BY <1>3, <1>4

LEMMA QuietStep == TypeOK /\ LearnIsQuiet /\ [Next]_vars => LearnIsQuiet'
  <1> SUFFICES ASSUME TypeOK, LearnIsQuiet, [Next]_vars, Armed'
               PROVE  (gm = Fresh /\ out = {})'
    BY DEF LearnIsQuiet
  <1> USE DEF Armed, LearnIsQuiet
  <1>1. CASE Tock
    BY <1>1 DEF Tock
  <1>2. CASE \E c \in Buttons : PushDown(c) \/ LetGo(c)
    BY <1>2 DEF PushDown, LetGo, UserActs
  <1>3. CASE (\E c \in Knobs : Turn(c)) \/ Unplug
    BY <1>3 DEF Turn, Unplug, UserActs
  <1>4. CASE NextEvent
    BY <1>4 DEF NextEvent, ReadEvent, LearnSwallows, LearnCaptures, HandlesTurn,
                HandlesDown, HandlesUp, Handles
  <1>5. CASE NextTimer
    <2>1. PICK now \in 0..clock : TimerFires(now)
      BY <1>5 DEF NextTimer
    <2>2. UNCHANGED learnUntil /\ gm' = Ticked(gm, now, DetectHold(cfg))
      BY <2>1 DEF TimerFires
    <2>3. gm = Fresh
      BY <2>2
    <2>4. DetectHold(cfg) \in SUBSET Control
      BY BindingsType
    <2> QED BY <2>1, <2>2, <2>3, <2>4, FreshTicks DEF TimerFires
  <1>6. CASE NextDispatch
    BY <1>6 DEF NextDispatch, Dispatch, Latches, Cycles, Ducks, Invokes, Takes
  <1>7. CASE \E cf \in Config : SetConfig(cf)
    BY <1>7 DEF SetConfig
  <1>8. CASE \E d \in {None, clock + LearnTimeout} : SetLearnUntil(d)
    BY <1>8 DEF SetLearnUntil, AtSelect
  <1>9. CASE UNCHANGED vars
    BY <1>9 DEF vars
  <1> QED BY <1>1, <1>2, <1>3, <1>4, <1>5, <1>6, <1>7, <1>8, <1>9 DEF Next

(* While MIDI learn is armed no press is in flight and no gesture waits to *)
(* be dispatched, so neither an event nor the timer can run an action.     *)
THEOREM LearnQuiet == Spec => []LearnIsQuiet
  <1>1. Init => LearnIsQuiet
    BY DEF Init, LearnIsQuiet
  <1> QED BY <1>1, QuietStep, TypeCorrect, PTL DEF Spec

-----------------------------------------------------------------------------
(* Timestamps are in order, and the gesture machine's maps agree. *)

Sound(m, t) == PressesPaired(m) /\ PressesOrdered(m) /\ NothingAfter(m, t)

LEMMA FreshSound == ASSUME NEW t \in Nat PROVE Sound(Fresh, t)
  BY DEF Sound, PressesPaired, PressesOrdered, NothingAfter, Fresh, None

LEMMA SoundLater ==
    ASSUME NEW m \in Machine, NEW t \in Nat, NEW u \in Nat, t <= u, Sound(m, t)
    PROVE  Sound(m, u)
  BY DEF Sound, NothingAfter, Machine, Time, None

(* A call of Handle with an event at time at leaves nothing after at. *)
LEMMA HandleSound ==
    ASSUME NEW m \in Machine, NEW c \in Control, NEW at \in Nat, NEW l \in Layer,
           NEW defers \in SUBSET Control, Sound(m, at),
           HandleTurn(m, c, l) \/ HandleDown(m, c, at, l) \/ HandleUp(m, c, at, defers)
    PROVE  Sound(gm', at)
  <1> DEFINE Good(x, d, h, lp, p) ==
               /\ p = None <=> lp = None
               /\ p # None => p = lp + DoublePressWindow
               /\ d # None => lp <= d
               /\ h => d # None /\ lp = None
               /\ d <= at /\ lp <= at
  <1>1. \A n \in Machine :
          Sound(n, at) <=> \A x \in Control :
             Good(x, n.downAt[x], x \in n.held, n.lastPress[x], n.pending[x])
    BY DEF Sound, PressesPaired, PressesOrdered, NothingAfter
  <1>2. gm' \in Machine
    BY HandleType
  <1>3. SUFFICES ASSUME NEW x \in Control
                 PROVE  Good(x, gm'.downAt[x], x \in gm'.held, gm'.lastPress[x], gm'.pending[x])
    BY <1>1, <1>2
  <1>4. Good(x, m.downAt[x], x \in m.held, m.lastPress[x], m.pending[x])
    BY <1>1
  <1>5. m.lastPress[x] \in Time /\ m.pending[x] \in Time /\ m.downAt[x] \in Time
    BY DEF Machine
  <1>6. at \in Time /\ None \in Time /\ at # None /\ at + DoublePressWindow # None
        /\ None <= at
    BY TimingAssumption DEF Time, None
  <1>7. CASE HandleTurn(m, c, l) \/ UpUnmatched(m, c)
    BY <1>4, <1>7 DEF HandleTurn, UpUnmatched
  <1>8. CASE HandleDown(m, c, at, l)
    BY <1>4, <1>5, <1>6, <1>8 DEF HandleDown, Machine
  <1>9. CASE UpReleases(m, c)
    BY <1>4, <1>5, <1>6, <1>9 DEF UpReleases, Machine
  <1>10. CASE UpPresses(m, c, defers)
    BY <1>4, <1>5, <1>6, <1>10 DEF UpPresses, Machine
  <1>11. CASE UpDoubles(m, c, at, defers)
    BY <1>4, <1>5, <1>6, <1>11 DEF UpDoubles, Machine
  <1>12. CASE UpDefers(m, c, at, defers)
    BY <1>4, <1>5, <1>6, <1>12 DEF UpDefers, Machine
  <1> QED BY <1>7, <1>8, <1>9, <1>10, <1>11, <1>12 DEF HandleUp

(* Tick: a hold ends the wait of a press only if that wait is over too,    *)
(* because the double press window is no longer than the hold threshold.   *)
LEMMA TickSound ==
    ASSUME NEW m \in Machine, NEW now \in Nat, NEW t \in Nat,
           NEW detects \in SUBSET Control, Sound(m, t)
    PROVE  Sound(Ticked(m, now, detects), t)
  <1> DEFINE holds == HoldDue(m, now, detects)
             presses == PressDue(m, now)
             n == Ticked(m, now, detects)
  <1>1. \A c \in Control :
          /\ m.downAt[c] \in Time /\ m.lastPress[c] \in Time /\ m.pending[c] \in Time
          /\ m.downAt[c] <= t /\ m.lastPress[c] <= t
          /\ m.pending[c] = None <=> m.lastPress[c] = None
          /\ m.pending[c] # None => m.pending[c] = m.lastPress[c] + DoublePressWindow
          /\ m.downAt[c] # None => m.lastPress[c] <= m.downAt[c]
          /\ c \in m.held => m.downAt[c] # None /\ m.lastPress[c] = None
    BY DEF Sound, PressesPaired, PressesOrdered, NothingAfter, Machine
  <1>2. \A c \in holds : m.downAt[c] # None /\ m.downAt[c] + HoldThreshold <= now
    BY DEF HoldDue, Holding
  <1>3. \A c \in holds : m.pending[c] # None => c \in presses
    <2> SUFFICES ASSUME NEW c \in Control, c \in holds, m.pending[c] # None
                 PROVE  m.pending[c] <= now
      BY DEF PressDue, HoldDue, Holding
    <2>1. /\ m.pending[c] = m.lastPress[c] + DoublePressWindow
          /\ m.lastPress[c] <= m.downAt[c]
          /\ m.downAt[c] # None /\ m.downAt[c] + HoldThreshold <= now
      BY <1>1, <1>2
    <2>2. m.downAt[c] \in Nat /\ m.lastPress[c] \in Nat
      BY <1>1, <2>1 DEF Time
    <2> QED BY <2>1, <2>2, TimingAssumption
  <1>4. /\ n.downAt = m.downAt /\ n.held = m.held \cup holds
        /\ n.lastPress = [c \in Control |->
                            IF c \in holds \cup presses THEN None ELSE m.lastPress[c]]
        /\ n.pending = [c \in Control |-> IF c \in presses THEN None ELSE m.pending[c]]
    BY TickedIs
  <1>5. None <= t /\ None = -1
    BY DEF None
  <1> HIDE DEF holds, presses, n
  <1>6. PressesPaired(n)
    BY <1>1, <1>3, <1>4 DEF PressesPaired
  <1>7. PressesOrdered(n)
    <2> SUFFICES ASSUME NEW c \in Control
                 PROVE  /\ n.downAt[c] # None => n.lastPress[c] <= n.downAt[c]
                        /\ c \in n.held => n.downAt[c] # None /\ n.lastPress[c] = None
      BY DEF PressesOrdered
    <2>1. n.downAt[c] # None => n.downAt[c] \in Nat
      BY <1>1, <1>4 DEF Time
    <2> QED BY <1>1, <1>2, <1>4, <1>5, <2>1
  <1>8. NothingAfter(n, t)
    BY <1>1, <1>4, <1>5 DEF NothingAfter
  <1> QED BY <1>6, <1>7, <1>8 DEF Sound, n

(* The inbox: messages in order, none older than t and none after now. *)
Queued(q, t, now) ==
    \A i \in 1..Len(q) :
        /\ t <= q[i].at /\ q[i].at <= now
        /\ \A j \in i..Len(q) : q[i].at <= q[j].at

LEMMA TailQueued ==
    ASSUME NEW q \in Seq(Event), q # <<>>, NEW t \in Nat, NEW now \in Nat, Queued(q, t, now)
    PROVE  Queued(Tail(q), Head(q).at, now) /\ t <= Head(q).at /\ Head(q).at <= now
  <1>1. /\ Head(q) = q[1] /\ Tail(q) \in Seq(Event) /\ Len(Tail(q)) = Len(q) - 1
        /\ \A i \in 1..Len(Tail(q)) : Tail(q)[i] = q[i + 1]
    BY HeadTailProperties
  <1>2. Len(q) \in Nat /\ 1 \in 1..Len(q) /\ Len(Tail(q)) \in Nat
    BY <1>1
  <1>3. \A i \in 1..Len(Tail(q)) : i \in Nat /\ i + 1 \in 1..Len(q)
    BY <1>1, <1>2
  <1>4. \A i \in 1..Len(Tail(q)) : \A j \in i..Len(Tail(q)) :
          j \in 1..Len(Tail(q)) /\ j + 1 \in (i + 1)..Len(q)
    BY <1>1, <1>2
  <1> QED BY <1>1, <1>2, <1>3, <1>4 DEF Queued

LEMMA WithoutQueued ==
    ASSUME NEW q \in Seq(Event), NEW k \in 1..Len(q), NEW now \in Nat, Queued(q, 0, now)
    PROVE  /\ Without(q, k) \in Seq(Event) /\ Queued(Without(q, k), 0, now)
           /\ \A i \in 1..Len(Without(q, k)) :
                 \E j \in 1..Len(q) : Without(q, k)[i] = q[j]
  <1> DEFINE w == Without(q, k)
             from(i) == IF i < k THEN i ELSE i + 1
  <1>1. w \in Seq(Event) /\ Len(w) = Len(q) - 1 /\ Len(w) \in Nat
    BY WithoutType
  <1>2. \A i \in 1..Len(w) : from(i) \in 1..Len(q) /\ w[i] = q[from(i)]
    BY <1>1 DEF Without
  <1>3. \A i \in 1..Len(w) : \A j \in i..Len(w) :
          j \in 1..Len(w) /\ from(j) \in from(i)..Len(q)
    BY <1>1
  <1> HIDE DEF w, from
  <1>4. Queued(w, 0, now)
    BY <1>2, <1>3 DEF Queued
  <1>5. \A i \in 1..Len(w) : \E j \in 1..Len(q) : w[i] = q[j]
    BY <1>2
  <1> QED BY <1>1, <1>4, <1>5 DEF w

LEMMA AppendQueued ==
    ASSUME NEW q \in Seq(Event), NEW t \in Nat, NEW now \in Nat, t <= now,
           NEW ev \in Event, ev.at = now, Queued(q, t, now)
    PROVE  Queued(Append(q, ev), t, now)
  <1>1. /\ Len(Append(q, ev)) = Len(q) + 1 /\ Append(q, ev)[Len(q) + 1] = ev
        /\ \A i \in 1..Len(q) : Append(q, ev)[i] = q[i]
    BY AppendProperties
  <1>2. Len(q) \in Nat
    OBVIOUS
  <1>3. \A i \in 1..(Len(q) + 1) : i \in 1..Len(q) \/ i = Len(q) + 1
    BY <1>2
  <1>4. \A i \in 1..(Len(q) + 1) : \A j \in i..(Len(q) + 1) :
          (i \in 1..Len(q) /\ j \in i..Len(q)) \/ j = Len(q) + 1
    BY <1>2
  <1> QED BY <1>1, <1>2, <1>3, <1>4 DEF Queued

Ordered == InOrder /\ MapsAgree

LEMMA InboxTimes == TypeOK => \A i \in 1..Len(inbox) : inbox[i].at \in Nat
  <1> SUFFICES ASSUME TypeOK, NEW i \in 1..Len(inbox) PROVE inbox[i].at \in Nat
    OBVIOUS
  <1>1. inbox[i] \in Event
    BY DEF TypeOK
  <1> QED BY <1>1 DEF Event

LEMMA OrderedIs ==
    TypeOK =>
    (Ordered <=> /\ Sound(gm, clock)
                 /\ Queued(inbox, 0, clock)
                 /\ \A i \in 1..Len(inbox) : NothingAfter(gm, inbox[i].at))
  <1>1. TypeOK => \A i \in 1..Len(inbox) : 0 <= inbox[i].at
    BY InboxTimes
  <1> QED BY <1>1 DEF Ordered, InOrder, MapsAgree, Sound, Queued

LEMMA UserOrdered ==
    ASSUME TypeOK, Ordered, NEW c \in Control, PushDown(c) \/ LetGo(c) \/ Turn(c)
    PROVE  Ordered'
  <1>1. PICK kind \in EventKind : Deliver(kind, c)
    BY DEF PushDown, LetGo, Turn, EventKind
  <1> DEFINE ev == [kind |-> kind, control |-> c, at |-> clock]
  <1>2. ev \in Event /\ ev.at = clock /\ inbox \in Seq(Event) /\ clock \in Nat
    BY DEF TypeOK, Event
  <1>3. UNCHANGED <<gm, clock>>
    BY DEF PushDown, LetGo, Turn, UserActs
  <1> SUFFICES ASSUME NEW q \in Seq(Event), inbox' = Append(q, ev), Queued(q, 0, clock),
                      \A i \in 1..Len(q) : NothingAfter(gm, q[i].at)
               PROVE  Ordered'
    <2>1. CASE inbox' = Append(inbox, ev)
      BY <1>2, <2>1, OrderedIs
    <2>2. CASE \E i \in 1..Len(inbox) : inbox' = Append(Without(inbox, i), ev)
      <3>1. PICK i \in 1..Len(inbox) : inbox' = Append(Without(inbox, i), ev)
        BY <2>2
      <3>2. /\ Without(inbox, i) \in Seq(Event) /\ Queued(Without(inbox, i), 0, clock)
            /\ \A k \in 1..Len(Without(inbox, i)) :
                  \E j \in 1..Len(inbox) : Without(inbox, i)[k] = inbox[j]
        BY <1>2, OrderedIs, WithoutQueued
      <3>3. \A k \in 1..Len(Without(inbox, i)) : NothingAfter(gm, Without(inbox, i)[k].at)
        BY <3>2, OrderedIs
      <3> QED BY <3>1, <3>2, <3>3
    <2> QED BY <1>1, <2>1, <2>2 DEF Deliver
  <1>4. Queued(inbox', 0, clock)
    BY <1>2, AppendQueued
  <1>5. \A i \in 1..Len(inbox') : NothingAfter(gm, inbox'[i].at)
    <2>1. NothingAfter(gm, ev.at)
      BY <1>2, OrderedIs DEF Sound
    <2>2. /\ Len(Append(q, ev)) = Len(q) + 1 /\ Append(q, ev)[Len(q) + 1] = ev
          /\ \A i \in 1..Len(q) : Append(q, ev)[i] = q[i]
      BY <1>2, AppendProperties
    <2> QED BY <2>1, <2>2
  <1>6. Sound(gm, clock)
    BY OrderedIs
  <1> QED BY <1>3, <1>4, <1>5, <1>6 DEF Ordered, InOrder, MapsAgree, Sound, Queued

LEMMA ReadOrdered ==
    ASSUME TypeOK, LearnIsQuiet, Ordered, NEW ev, ReadEvent(ev)
    PROVE  Ordered'
  <1>1. Reads(ev)
    BY DEF ReadEvent, LearnSwallows, LearnCaptures, HandlesTurn, HandlesDown, HandlesUp, Handles
  <1>2. /\ inbox \in Seq(Event) /\ inbox # <<>> /\ clock \in Nat
        /\ ev = Head(inbox) /\ inbox' = Tail(inbox) /\ clock' = clock
        /\ ev.control \in Control /\ ev.at \in Nat
    BY <1>1, ReadsType DEF Reads, TypeOK
  <1>3. Queued(inbox', ev.at, clock) /\ ev.at <= clock
    BY <1>2, OrderedIs, TailQueued
  <1>4. Sound(gm, ev.at)
    <2>1. 1 \in 1..Len(inbox) /\ ev = inbox[1]
      BY <1>2, HeadTailProperties
    <2> QED BY <2>1, OrderedIs DEF Sound
  <1>5. Sound(Base, ev.at) /\ Base \in Machine
    BY <1>2, <1>4, FreshSound, BaseType DEF Base
  <1>6. Sound(gm', ev.at)
    <2>1. CASE LearnSwallows(ev)
      BY <1>4, <2>1 DEF LearnSwallows
    <2>2. CASE LearnCaptures(ev)
      BY <1>2, <2>2, FreshSound DEF LearnCaptures
    <2>3. CASE HandlesTurn(ev) \/ HandlesDown(ev) \/ HandlesUp(ev)
      <3>1. Active \in Layer /\ DeferPress(cfg) \in SUBSET Control
        BY ActiveType, BindingsType
      <3> QED BY <1>2, <1>5, <2>3, <3>1, HandleSound DEF HandlesTurn, HandlesDown, HandlesUp
    <2> QED BY <2>1, <2>2, <2>3 DEF ReadEvent
  <1>7. gm' \in Machine /\ inbox' \in Seq(Event)
    BY ReadTypeOK DEF TypeOK
  <1>8. Sound(gm', clock)
    BY <1>2, <1>3, <1>6, <1>7, SoundLater
  <1>9. \A i \in 1..Len(inbox') : NothingAfter(gm', inbox'[i].at)
    <2> TAKE i \in 1..Len(inbox')
    <2>1. inbox'[i] \in Event /\ ev.at <= inbox'[i].at
      BY <1>3, <1>7 DEF Queued
    <2>2. inbox'[i].at \in Nat
      BY <2>1 DEF Event
    <2> QED BY <1>2, <1>6, <1>7, <2>1, <2>2, SoundLater DEF Sound
  <1> QED BY <1>2, <1>3, <1>8, <1>9 DEF Ordered, InOrder, MapsAgree, Sound, Queued

LEMMA OrderStep == TypeOK /\ LearnIsQuiet /\ Ordered /\ [Next]_vars => Ordered'
  <1> SUFFICES ASSUME TypeOK, LearnIsQuiet, Ordered, [Next]_vars PROVE Ordered'
    OBVIOUS
  <1>1. gm \in Machine /\ clock \in Nat /\ inbox \in Seq(Event)
    BY DEF TypeOK
  <1>2. CASE Tock
    <2>1. clock' = clock + 1 /\ UNCHANGED <<gm, inbox>>
      BY <1>2 DEF Tock
    <2>2. Sound(gm, clock')
      BY <1>1, <2>1, OrderedIs, SoundLater
    <2>3. \A i \in 1..Len(inbox) : inbox[i].at \in Nat
      BY InboxTimes
    <2> QED BY <1>1, <2>1, <2>2, <2>3 DEF Ordered, InOrder, MapsAgree, Sound
  <1>3. CASE \E c \in Buttons : PushDown(c) \/ LetGo(c)
    BY <1>3, UserOrdered, BoundsAssumption
  <1>4. CASE (\E c \in Knobs : Turn(c)) \/ Unplug
    BY <1>4, UserOrdered, BoundsAssumption
       DEF Unplug, UserActs, Ordered, InOrder, MapsAgree
  <1>5. CASE NextEvent
    BY <1>5, ReadOrdered DEF NextEvent
  <1>6. CASE NextTimer
    <2>1. PICK now \in 0..clock : TimerFires(now)
      BY <1>6 DEF NextTimer
    <2>2. DetectHold(cfg) \in SUBSET Control /\ now \in Nat
      BY <1>1, BindingsType
    <2>3. \A t \in Nat : Sound(gm, t) => Sound(gm', t)
      BY <1>1, <2>1, <2>2, TickSound, FreshSound DEF TimerFires
    <2>4. UNCHANGED <<inbox, clock>>
      BY <2>1 DEF TimerFires, env
    <2>5. \A i \in 1..Len(inbox) : inbox[i].at \in Nat
      BY InboxTimes
    <2>6. Sound(gm', clock) /\ \A i \in 1..Len(inbox) : NothingAfter(gm', inbox[i].at)
      BY <1>1, <2>3, <2>5, OrderedIs DEF Sound
    <2> QED BY <2>4, <2>6, OrderedIs DEF Ordered, InOrder, MapsAgree, Sound, Queued
  <1>7. CASE NextDispatch
    BY <1>7 DEF NextDispatch, Dispatch, Latches, Cycles, Ducks, Invokes, Takes, env,
                Ordered, InOrder, MapsAgree
  <1>8. CASE \E cf \in Config : SetConfig(cf)
    BY <1>8 DEF SetConfig, env, Ordered, InOrder, MapsAgree
  <1>9. CASE \E d \in {None, clock + LearnTimeout} : SetLearnUntil(d)
    <2>1. gm' = Fresh /\ UNCHANGED <<clock, inbox>>
      BY <1>9 DEF SetLearnUntil, env
    <2>2. \A i \in 1..Len(inbox) : inbox[i].at \in Nat
      BY InboxTimes
    <2>3. Sound(Fresh, clock) /\ \A i \in 1..Len(inbox) : NothingAfter(Fresh, inbox[i].at)
      BY <1>1, <2>2, FreshSound DEF Sound
    <2> QED BY <2>1, <2>3, OrderedIs DEF Ordered, InOrder, MapsAgree, Sound, Queued
  <1>10. CASE UNCHANGED vars
    BY <1>10 DEF vars, env, Ordered, InOrder, MapsAgree
  <1> QED BY <1>2, <1>3, <1>4, <1>5, <1>6, <1>7, <1>8, <1>9, <1>10 DEF Next

LEMMA OrderedAlways == Spec => []Ordered
  <1>1. Init => Ordered
    BY FreshSound DEF Init, Ordered, InOrder, MapsAgree, Sound
  <1> QED BY <1>1, OrderStep, TypeCorrect, LearnQuiet, PTL DEF Spec

(* In every reachable state the maps lastPress and pending of gesture.go   *)
(* have an entry for the same controls, and the deadline in the one is the *)
(* release in the other plus the window.                                   *)
THEOREM MapsAlwaysAgree == Spec => []MapsAgree
  <1>1. Ordered => MapsAgree
    BY DEF Ordered
  <1> QED BY <1>1, OrderedAlways, PTL

-----------------------------------------------------------------------------
(* Deferred presses and the timer. *)

LEMMA UpKeepsInTime ==
    ASSUME NEW m \in Machine, NEW c \in Control, NEW at \in Nat,
           NEW defers \in SUBSET Control, PressesPaired(m), HandleUp(m, c, at, defers),
           NEW x \in Control, m.pending[x] # None, gm'.pending[x] \notin {None, m.pending[x]}
    PROVE  gm'.pending[x] > m.pending[x] + DoublePressWindow
  <1>1. /\ m.pending \in [Control -> Time] /\ m.lastPress[x] \in Time
        /\ m.lastPress[x] # None
        /\ m.pending[x] = m.lastPress[x] + DoublePressWindow
    BY DEF PressesPaired, Machine
  <1>2. gm'.pending = m.pending \/ gm'.pending = [m.pending EXCEPT ![c] = None]
        \/ UpDefers(m, c, at, defers)
    BY DEF HandleUp, UpUnmatched, UpReleases, UpPresses, UpDoubles, Machine
  <1>3. UpDefers(m, c, at, defers)
    BY <1>1, <1>2
  <1>4. gm'.pending = [m.pending EXCEPT ![c] = at + DoublePressWindow] /\ ~Pairs(m, c, at)
    BY <1>3 DEF UpDefers, Machine
  <1>5. x = c /\ gm'.pending[x] = at + DoublePressWindow
    BY <1>1, <1>4
  <1>6. at > m.lastPress[x] + DoublePressWindow /\ m.lastPress[x] \in Nat
    BY <1>1, <1>4, <1>5, TimingAssumption DEF Pairs, Time
  <1> QED BY <1>1, <1>5, <1>6, TimingAssumption

LEMMA KeptStep ==
    ASSUME TypeOK, LearnIsQuiet, MapsAgree, Next, NEW x \in Control, Replaced(x)
    PROVE  gm'.pending[x] > gm.pending[x] + DoublePressWindow
  <1>1. gm \in Machine /\ gm # Fresh
    BY DEF TypeOK, Replaced, Fresh
  <1>2. gm' # gm /\ gm' # Fresh
    BY DEF Replaced, Fresh
  <1>3. ~Armed /\ Base = gm
    BY <1>1 DEF LearnIsQuiet, Base
  <1>4. CASE NextEvent
    <2>1. PICK ev : ReadEvent(ev)
      BY <1>4 DEF NextEvent
    <2>2. HandlesTurn(ev) \/ HandlesDown(ev) \/ HandlesUp(ev)
      BY <1>2, <2>1 DEF ReadEvent, LearnSwallows, LearnCaptures
    <2>3. ev.control \in Control /\ ev.at \in Nat /\ DeferPress(cfg) \in SUBSET Control
      BY <2>2, ReadsType, BindingsType DEF HandlesTurn, HandlesDown, HandlesUp, Handles
    <2>4. CASE HandlesTurn(ev) \/ HandlesDown(ev)
      BY <1>1, <1>3, <2>4 DEF HandlesTurn, HandlesDown, HandleTurn, HandleDown, Machine, Replaced
    <2>5. CASE HandlesUp(ev)
      BY <1>1, <1>3, <2>3, <2>5, UpKeepsInTime DEF HandlesUp, MapsAgree, Replaced
    <2> QED BY <2>2, <2>4, <2>5
  <1>5. CASE NextTimer
    <2>1. PICK now \in 0..clock : TimerFires(now)
      BY <1>5 DEF NextTimer
    <2>2. gm' = Ticked(gm, now, DetectHold(cfg))
      BY <1>2, <2>1 DEF TimerFires
    <2>3. gm'.pending[x] \in {None, gm.pending[x]}
      BY <1>1, <2>2, TickedIs
    <2> QED BY <2>3 DEF Replaced
  <1>6. CASE ~(NextEvent \/ NextTimer)
    BY <1>2, <1>6 DEF Next, Tock, PushDown, LetGo, Turn, Unplug, UserActs, NextDispatch, Dispatch,
                      Latches, Cycles, Ducks, Invokes, Takes, SetConfig, SetLearnUntil
  <1> QED BY <1>4, <1>5, <1>6

(* A press that waits for its double press window is never overwritten by  *)
(* another one before that window has closed: handleUp can lose a press    *)
(* only if it runs ahead of a Tick that is already due.                    *)
THEOREM InTimePressesKept == Spec => InTimePressKept
  <1> DEFINE Kept == \A c \in Control : Replaced(c) =>
                        gm'.pending[c] > gm.pending[c] + DoublePressWindow
  <1>1. TypeOK /\ LearnIsQuiet /\ MapsAgree /\ [Next]_vars => [Kept]_vars
    BY KeptStep
  <1>2. Spec => [][Kept]_vars
    <2> HIDE DEF Kept
    <2> QED BY <1>1, TypeCorrect, LearnQuiet, MapsAlwaysAgree, PTL DEF Spec
  <1> QED BY <1>2 DEF InTimePressKept

LEMMA TimerIs == TypeOK => TimerWorks
  <1> SUFFICES ASSUME TypeOK, NEW now \in 0..clock
               PROVE  WorkAt(now) <=> \E d \in WakeTimes : d <= now
    BY DEF TimerWorks
  <1> DEFINE hooks == DetectHold(cfg)
  <1>1. (\E d \in Deadlines(gm, hooks) : d <= now)
            <=> HoldDue(gm, now, hooks) # {} \/ PressDue(gm, now) # {}
    BY DEF Deadlines, HoldDue, PressDue
  <1>2. TickFirings(gm, now, hooks) # {}
            <=> HoldDue(gm, now, hooks) # {} \/ PressDue(gm, now) # {}
    BY DEF TickFirings
  <1>3. (\E d \in WakeTimes : d <= now)
            <=> (\E d \in Deadlines(gm, hooks) : d <= now) \/ (Armed /\ learnUntil <= now)
    BY DEF WakeTimes
  <1> QED BY <1>1, <1>2, <1>3 DEF WorkAt

(* Run's timer is set exactly when Tick has a gesture to emit or learn to  *)
(* disarm, whatever configuration is installed: NextDeadline never asks to *)
(* be woken for nothing, so the loop cannot spin, and forgets nothing.     *)
THEOREM TimerNeverSpins == Spec => []TimerWorks
  BY TimerIs, TypeCorrect, PTL

-----------------------------------------------------------------------------
(* The momentary stack. *)

LEMMA WithoutIs ==
    ASSUME NEW s \in Seq(HeldLayer), NEW i \in 1..Len(s), NEW j \in 1..Len(Without(s, i))
    PROVE  /\ Without(s, i) \in Seq(HeldLayer) /\ Len(Without(s, i)) = Len(s) - 1
           /\ j < i => j \in 1..Len(s) /\ Without(s, i)[j] = s[j]
           /\ ~(j < i) => j + 1 \in 1..Len(s) /\ j + 1 # i /\ Without(s, i)[j] = s[j + 1]
  <1>1. Without(s, i) \in Seq(HeldLayer) /\ Len(Without(s, i)) = Len(s) - 1
    BY WithoutType
  <1> QED BY <1>1 DEF Without

(* Popping leaves no entry of the control, and only entries that were there. *)
LEMMA PoppedIs ==
    ASSUME TypeOK, HeldOnce, NEW c \in Control
    PROVE  /\ \A i, j \in 1..Len(Popped(c)) :
                 Popped(c)[i].control = Popped(c)[j].control => i = j
           /\ \A j \in 1..Len(Popped(c)) :
                 /\ Popped(c)[j].control # c
                 /\ \E k \in 1..Len(heldLayers) : Popped(c)[j] = heldLayers[k]
  <1>1. CASE Entries(c) = {}
    <2>1. Popped(c) = heldLayers
      BY <1>1 DEF Popped
    <2>2. \A j \in 1..Len(heldLayers) : heldLayers[j].control # c
      BY <1>1 DEF Entries
    <2> QED BY <2>1, <2>2 DEF HeldOnce
  <1>2. CASE Entries(c) # {}
    <2> DEFINE i == CHOOSE i \in Entries(c) : \A j \in Entries(c) : i <= j
    <2>1. i \in 1..Len(heldLayers) /\ heldLayers \in Seq(HeldLayer)
      BY <1>2, FirstEntry DEF TypeOK
    <2>2. Popped(c) = Without(heldLayers, i)
      BY <1>2 DEF Popped
    <2>3. i \in Entries(c)
      <3>1. Entries(c) \in SUBSET Nat
        BY <2>1 DEF Entries
      <3>2. \E k \in Entries(c) : \A j \in Entries(c) : k <= j
        BY <1>2, <3>1, LeastNatural
      <3> QED BY <3>2
    <2>4. heldLayers[i].control = c
      BY <2>3 DEF Entries
    <2> HIDE DEF i
    <2>5. \A j \in 1..Len(Popped(c)) :
             /\ j < i => j \in 1..Len(heldLayers) /\ Popped(c)[j] = heldLayers[j]
             /\ ~(j < i) => /\ j + 1 \in 1..Len(heldLayers) /\ j + 1 # i
                            /\ Popped(c)[j] = heldLayers[j + 1]
      BY <2>1, <2>2, WithoutIs
    <2>6. \A j, k \in 1..Len(Popped(c)) : Popped(c)[j].control = Popped(c)[k].control => j = k
      <3> TAKE j, k \in 1..Len(Popped(c))
      <3>1. j \in Nat /\ k \in Nat /\ i \in Nat
        BY <2>1
      <3> QED BY <2>5, <3>1 DEF HeldOnce
    <2>7. \A j \in 1..Len(Popped(c)) :
             /\ Popped(c)[j].control # c
             /\ \E k \in 1..Len(heldLayers) : Popped(c)[j] = heldLayers[k]
      <3> TAKE j \in 1..Len(Popped(c))
      <3>1. j \in Nat /\ i \in Nat
        BY <2>1
      <3> QED BY <2>1, <2>4, <2>5, <3>1 DEF HeldOnce
    <2> QED BY <2>6, <2>7
  <1> QED BY <1>1, <1>2

LEMMA PushedIs ==
    ASSUME TypeOK, HeldOnce, NEW c \in Control, NEW l \in Layer
    PROVE  /\ \A i, j \in 1..Len(Pushed(c, l)) :
                 Pushed(c, l)[i].control = Pushed(c, l)[j].control => i = j
           /\ \A j \in 1..Len(Pushed(c, l)) :
                 \/ Pushed(c, l)[j].control = c
                 \/ \E k \in 1..Len(heldLayers) : Pushed(c, l)[j] = heldLayers[k]
  <1> DEFINE e == [control |-> c, layer |-> l]
  <1>1. Popped(c) \in Seq(HeldLayer) /\ e \in HeldLayer /\ e.control = c
    BY PoppedType DEF HeldLayer
  <1>2. /\ Pushed(c, l) = Append(Popped(c), e)
        /\ Len(Pushed(c, l)) = Len(Popped(c)) + 1
        /\ Pushed(c, l)[Len(Popped(c)) + 1] = e
        /\ \A j \in 1..Len(Popped(c)) : Pushed(c, l)[j] = Popped(c)[j]
        /\ Len(Popped(c)) \in Nat
    BY <1>1, AppendProperties DEF Pushed
  <1>3. \A j \in 1..Len(Pushed(c, l)) : j \in 1..Len(Popped(c)) \/ j = Len(Popped(c)) + 1
    BY <1>2
  <1> HIDE DEF e
  <1> QED BY <1>1, <1>2, <1>3, PoppedIs

(* What a step does to the stack. *)
LEMMA StackStep ==
    ASSUME TypeOK, [Next]_vars
    PROVE  \/ UNCHANGED heldLayers
           \/ heldLayers' = <<>>
           \/ \E ev \in Event : HandlesUp(ev) /\ heldLayers' = Popped(ev.control)
           \/ \E ev \in Event, l \in Layer : HandlesDown(ev) /\ heldLayers' = Pushed(ev.control, l)
  <1>1. CASE NextEvent
    <2>1. PICK ev : ReadEvent(ev)
      BY <1>1 DEF NextEvent
    <2>2. CASE HandlesDown(ev)
      <3>1. Lookup(cfg, Active, ev.control, "hold") \in Action
        BY <2>2, ReadsType, ActiveType, LookupType
           DEF HandlesDown, Handles, TypeOK, Gesture, ButtonGesture
      <3>2. Lookup(cfg, Active, ev.control, "hold").layer \in Layer
        BY <3>1 DEF Action
      <3>3. ev \in Event
        BY <2>2, ReadsType DEF HandlesDown, Handles
      <3>4. \E l \in Layer : UNCHANGED heldLayers \/ heldLayers' = Pushed(ev.control, l)
        BY <2>2, <3>2 DEF HandlesDown
      <3> QED BY <2>2, <3>3, <3>4
    <2>3. CASE HandlesUp(ev)
      BY <2>3, ReadsType DEF HandlesUp, Handles
    <2>4. CASE ~(HandlesDown(ev) \/ HandlesUp(ev))
      BY <2>1, <2>4 DEF ReadEvent, LearnSwallows, LearnCaptures, HandlesTurn
    <2> QED BY <2>2, <2>3, <2>4
  <1>2. CASE ~NextEvent
    BY <1>2 DEF Next, Tock, PushDown, LetGo, Turn, Unplug, UserActs, NextTimer, TimerFires,
                NextDispatch, Dispatch, Latches, Cycles, Ducks, Invokes, Takes, SetConfig,
                SetLearnUntil, vars, layers
  <1> QED BY <1>1, <1>2

LEMMA HeldOnceStep == TypeOK /\ HeldOnce /\ [Next]_vars => HeldOnce'
  <1> SUFFICES ASSUME TypeOK, HeldOnce, [Next]_vars PROVE HeldOnce'
    OBVIOUS
  <1>1. CASE UNCHANGED heldLayers
    BY <1>1 DEF HeldOnce
  <1>2. CASE heldLayers' = <<>>
    BY <1>2 DEF HeldOnce
  <1>3. CASE \E ev \in Event : HandlesUp(ev) /\ heldLayers' = Popped(ev.control)
    BY <1>3, PoppedIs, ReadsType DEF HeldOnce, HandlesUp, Handles
  <1>4. CASE \E ev \in Event, l \in Layer : HandlesDown(ev) /\ heldLayers' = Pushed(ev.control, l)
    BY <1>4, PushedIs, ReadsType DEF HeldOnce, HandlesDown, Handles
  <1> QED BY <1>1, <1>2, <1>3, <1>4, StackStep

(* No control is on the momentary stack twice, whatever downs and ups the  *)
(* inbox lost, so the one popMomentary of an up always undoes its button.  *)
THEOREM HeldAtMostOnce == Spec => []HeldOnce
  <1>1. Init => HeldOnce
    BY DEF Init, HeldOnce
  <1> QED BY <1>1, HeldOnceStep, TypeCorrect, PTL DEF Spec

-----------------------------------------------------------------------------
(* Downs and ups that are not lost. *)

(* Behind position i of the inbox the button's up is still to come.        *)
Owed(c, i) ==
    \/ c \in pressed
    \/ \E j \in (i + 1)..Len(inbox) : inbox[j].kind = "up" /\ inbox[j].control = c

OnStack(x) == \E k \in 1..Len(heldLayers) : heldLayers[k].control = x
DownAt(x, i) == i \in 1..Len(inbox) /\ inbox[i].kind = "down" /\ inbox[i].control = x

EveryUpComes ==
    /\ learnUntil = None
    /\ \A x \in Control : OnStack(x) => Owed(x, 0)
    /\ \A x \in Control, i \in Nat : DownAt(x, i) => Owed(x, i)

LEMMA UserOwes ==
    ASSUME ~DropOldest, TypeOK, EveryUpComes, NEW c \in Control,
           PushDown(c) \/ LetGo(c) \/ Turn(c)
    PROVE  EveryUpComes'
  <1> DEFINE n == Len(inbox) + 1
  <1>1. /\ inbox \in Seq(Event) /\ n \in Nat /\ pressed \in SUBSET Control
        /\ UNCHANGED <<heldLayers, learnUntil>>
    BY DEF TypeOK, PushDown, LetGo, Turn, UserActs, layers
  <1>2. PICK kind \in EventKind :
          /\ Deliver(kind, c)
          /\ kind = "down" => pressed' = pressed \cup {c}
          /\ kind = "up" => pressed' = pressed \ {c}
          /\ kind = "turn" => pressed' = pressed
    BY DEF PushDown, LetGo, Turn, EventKind
  <1> DEFINE ev == [kind |-> kind, control |-> c, at |-> clock]
  <1>3. inbox' = Append(inbox, ev) /\ ev \in Event /\ ev.kind = kind /\ ev.control = c
    BY <1>2 DEF Deliver, Event, TypeOK
  <1>4. /\ Len(inbox') = n /\ inbox'[n] = ev
        /\ \A i \in 1..Len(inbox) : inbox'[i] = inbox[i]
    BY <1>1, <1>3, AppendProperties
  <1> HIDE DEF ev
  <1>5. ASSUME NEW x \in Control, NEW i \in 0..Len(inbox), Owed(x, i)
        PROVE  Owed(x, i)'
    <2>1. CASE x \in pressed'
      BY <2>1 DEF Owed
    <2>2. CASE x \notin pressed' /\ x \in pressed
      <3>1. kind = "up" /\ x = c
        BY <1>2, <2>2 DEF EventKind
      <3>2. n \in (i + 1)..Len(inbox')
        BY <1>1, <1>4
      <3>3. inbox'[n].kind = "up" /\ inbox'[n].control = x
        BY <1>3, <1>4, <3>1
      <3> QED BY <3>2, <3>3 DEF Owed
    <2>3. CASE x \notin pressed
      <3>1. PICK j \in (i + 1)..Len(inbox) : inbox[j].kind = "up" /\ inbox[j].control = x
        BY <1>5, <2>3 DEF Owed
      <3>2. j \in (i + 1)..Len(inbox') /\ inbox'[j] = inbox[j]
        BY <1>1, <1>4
      <3> QED BY <3>1, <3>2 DEF Owed
    <2> QED BY <2>1, <2>2, <2>3
  <1>6. ASSUME NEW x \in Control, OnStack(x)'
        PROVE  Owed(x, 0)'
    BY <1>1, <1>5, <1>6 DEF EveryUpComes, OnStack
  <1>7. ASSUME NEW x \in Control, NEW i \in Nat, DownAt(x, i)'
        PROVE  Owed(x, i)'
    <2>1. i \in 1..n /\ inbox'[i].kind = "down" /\ inbox'[i].control = x
      BY <1>4, <1>7 DEF DownAt
    <2>2. CASE i = n
      BY <1>2, <1>3, <1>4, <2>1, <2>2 DEF Owed
    <2>3. CASE i \in 1..Len(inbox)
      <3>1. DownAt(x, i)
        BY <1>4, <2>1, <2>3 DEF DownAt
      <3>2. Owed(x, i) /\ i \in 0..Len(inbox)
        BY <2>3, <3>1 DEF EveryUpComes
      <3> QED BY <1>5, <3>2
    <2> QED BY <1>1, <2>1, <2>2, <2>3
  <1> QED BY <1>1, <1>6, <1>7 DEF EveryUpComes

(* Taking a message off the inbox moves the rest one place forward. *)
LEMMA ReadsOwes ==
    ASSUME TypeOK, NEW ev, Reads(ev), NEW x \in Control
    PROVE  /\ \A i \in Nat : Owed(x, i + 1) => Owed(x, i)'
           /\ Owed(x, 0) /\ ~(ev.kind = "up" /\ ev.control = x) => Owed(x, 0)'
           /\ \A i \in Nat : DownAt(x, i)' => DownAt(x, i + 1)
           /\ ev.kind = "down" /\ ev.control = x => DownAt(x, 1)
  <1>1. /\ inbox \in Seq(Event) /\ inbox # <<>> /\ Len(inbox) \in Nat \ {0}
        /\ ev = inbox[1] /\ pressed' = pressed
        /\ Len(inbox') = Len(inbox) - 1
        /\ \A i \in 1..Len(inbox') : inbox'[i] = inbox[i + 1]
    BY HeadTailProperties DEF Reads, TypeOK
  <1>2. ASSUME NEW i \in Nat, NEW j \in (i + 2)..Len(inbox)
        PROVE  j - 1 \in (i + 1)..Len(inbox') /\ inbox'[j - 1] = inbox[j]
    <2>1. j - 1 \in (i + 1)..Len(inbox') /\ j - 1 \in 1..Len(inbox') /\ (j - 1) + 1 = j
      BY <1>1
    <2> QED BY <1>1, <2>1
  <1>3. ASSUME NEW i \in Nat, Owed(x, i + 1)
        PROVE  Owed(x, i)'
    <2>1. CASE x \in pressed
      BY <1>1, <2>1 DEF Owed
    <2>2. CASE x \notin pressed
      <3>1. PICK j \in ((i + 1) + 1)..Len(inbox) : inbox[j].kind = "up" /\ inbox[j].control = x
        BY <1>3, <2>2 DEF Owed
      <3>2. j \in (i + 2)..Len(inbox)
        BY <1>1
      <3> QED BY <1>2, <3>1, <3>2 DEF Owed
    <2> QED BY <2>1, <2>2
  <1>4. ASSUME Owed(x, 0), ~(ev.kind = "up" /\ ev.control = x)
        PROVE  Owed(x, 0)'
    <2>1. CASE x \in pressed
      BY <1>1, <2>1 DEF Owed
    <2>2. CASE x \notin pressed
      <3>1. PICK j \in 1..Len(inbox) : inbox[j].kind = "up" /\ inbox[j].control = x
        BY <1>4, <2>2 DEF Owed
      <3>2. j # 1 /\ j \in (0 + 2)..Len(inbox)
        BY <1>1, <1>4, <3>1
      <3> QED BY <1>2, <3>1, <3>2 DEF Owed
    <2> QED BY <2>1, <2>2
  <1>5. \A i \in Nat : DownAt(x, i)' => DownAt(x, i + 1)
    BY <1>1 DEF DownAt
  <1>6. ev.kind = "down" /\ ev.control = x => DownAt(x, 1)
    BY <1>1 DEF DownAt
  <1> QED BY <1>3, <1>4, <1>5, <1>6

LEMMA ReadOwes ==
    ASSUME TypeOK, HeldOnce, EveryUpComes, NEW ev, ReadEvent(ev)
    PROVE  EveryUpComes'
  <1>1. /\ learnUntil' = None /\ ~Armed
        /\ HandlesTurn(ev) \/ HandlesDown(ev) \/ HandlesUp(ev)
    BY DEF EveryUpComes, Armed, Suppressed, ReadEvent, LearnSwallows, LearnCaptures,
           HandlesTurn, HandlesDown, HandlesUp, Handles
  <1>2. Reads(ev) /\ ev.control \in Control /\ ev.kind \in EventKind
    BY <1>1, ReadsType DEF HandlesTurn, HandlesDown, HandlesUp, Handles, Event
  <1>3. ASSUME NEW x \in Control, NEW i \in Nat, DownAt(x, i)'
        PROVE  Owed(x, i)'
    <2>1. DownAt(x, i + 1) /\ i + 1 \in Nat
      BY <1>2, <1>3, ReadsOwes
    <2>2. Owed(x, i + 1)
      BY <2>1 DEF EveryUpComes
    <2> QED BY <1>2, <2>2, ReadsOwes
  <1>4. ASSUME NEW x \in Control, OnStack(x)'
        PROVE  Owed(x, 0)'
    <2>1. CASE HandlesTurn(ev)
      <3>1. Owed(x, 0) /\ ev.kind # "up"
        BY <1>4, <2>1 DEF HandlesTurn, OnStack, EveryUpComes
      <3> QED BY <1>2, <3>1, ReadsOwes
    <2>2. CASE HandlesUp(ev)
      <3>1. heldLayers' = Popped(ev.control)
        BY <2>2 DEF HandlesUp
      <3>2. OnStack(x) /\ x # ev.control
        BY <1>2, <1>4, <3>1, PoppedIs DEF OnStack
      <3> QED BY <1>2, <3>2, ReadsOwes DEF EveryUpComes
    <2>3. CASE HandlesDown(ev)
      <3>1. OnStack(x) \/ x = ev.control
        <4>1. CASE UNCHANGED heldLayers
          BY <1>4, <4>1 DEF OnStack
        <4>2. CASE ~UNCHANGED heldLayers
          <5>1. Lookup(cfg, Active, ev.control, "hold") \in Action
            BY <1>2, ActiveType, LookupType DEF TypeOK, Gesture, ButtonGesture
          <5>2. PICK l \in Layer : heldLayers' = Pushed(ev.control, l)
            BY <2>3, <4>2, <5>1 DEF HandlesDown, Action
          <5> QED BY <1>2, <1>4, <5>2, PushedIs DEF OnStack
        <4> QED BY <4>1, <4>2
      <3>2. CASE x = ev.control
        <4>1. DownAt(x, 1) /\ 0 + 1 = 1
          BY <1>2, <2>3, <3>2, ReadsOwes DEF HandlesDown
        <4>2. Owed(x, 0 + 1)
          BY <4>1 DEF EveryUpComes
        <4> QED BY <1>2, <4>2, ReadsOwes
      <3>3. CASE OnStack(x)
        <4>1. Owed(x, 0) /\ ev.kind # "up"
          BY <2>3, <3>3 DEF HandlesDown, EveryUpComes
        <4> QED BY <1>2, <4>1, ReadsOwes
      <3> QED BY <3>1, <3>2, <3>3
    <2> QED BY <1>1, <2>1, <2>2, <2>3
  <1> QED BY <1>1, <1>3, <1>4 DEF EveryUpComes

LEMMA UpStep ==
    ASSUME ~LearnAllowed, ~DropOldest, ~Unplugs, TypeOK, HeldOnce, EveryUpComes, [Next]_vars
    PROVE  EveryUpComes'
  <1>1. CASE \E c \in Buttons : PushDown(c) \/ LetGo(c)
    BY <1>1, UserOwes, BoundsAssumption
  <1>2. CASE (\E c \in Knobs : Turn(c)) \/ Unplug
    BY <1>2, UserOwes, BoundsAssumption DEF Unplug
  <1>3. CASE NextEvent
    BY <1>3, ReadOwes DEF NextEvent
  <1>4. CASE Tock
    BY <1>4 DEF Tock, layers, EveryUpComes, OnStack, DownAt, Owed
  <1>5. CASE NextTimer
    BY <1>5 DEF NextTimer, TimerFires, env, layers, EveryUpComes, Armed, OnStack, DownAt, Owed
  <1>6. CASE NextDispatch
    BY <1>6 DEF NextDispatch, Dispatch, Latches, Cycles, Ducks, Invokes, Takes, env,
                EveryUpComes, OnStack, DownAt, Owed
  <1>7. CASE \E cf \in Config : SetConfig(cf)
    BY <1>7 DEF SetConfig, env, EveryUpComes, OnStack, DownAt, Owed
  <1>8. CASE \E d \in {None, clock + LearnTimeout} : SetLearnUntil(d)
    BY <1>8 DEF SetLearnUntil
  <1>9. CASE UNCHANGED vars
    BY <1>9 DEF vars, env, layers, EveryUpComes, OnStack, DownAt, Owed
  <1> QED BY <1>1, <1>2, <1>3, <1>4, <1>5, <1>6, <1>7, <1>8, <1>9 DEF Next

(* If nobody arms learn, the inbox never overflows and the device stays    *)
(* plugged in, every momentary layer ends: with every button up and every  *)
(* message handled the active layer is the latched one, across any number  *)
(* of configuration reloads.                                               *)
THEOREM MomentaryEnds ==
    ASSUME ~LearnAllowed, ~DropOldest, ~Unplugs
    PROVE  Spec => []RestsOnLatchedLayer
  <1>1. Init => EveryUpComes
    BY DEF Init, EveryUpComes, OnStack, DownAt
  <1>2. TypeOK /\ HeldOnce /\ EveryUpComes /\ [Next]_vars => EveryUpComes'
    BY UpStep
  <1>3. TypeOK /\ EveryUpComes => RestsOnLatchedLayer
    <2> SUFFICES ASSUME TypeOK, EveryUpComes, AtRest PROVE Active = latched
      BY DEF RestsOnLatchedLayer
    <2>1. heldLayers \in Seq(HeldLayer)
      BY DEF TypeOK
    <2>2. \A x \in Control : ~Owed(x, 0)
      BY DEF AtRest, Owed
    <2>3. heldLayers = <<>>
      <3> SUFFICES ASSUME heldLayers # <<>> PROVE FALSE
        OBVIOUS
      <3>1. 1 \in 1..Len(heldLayers) /\ heldLayers[1] \in HeldLayer
        BY <2>1
      <3>2. heldLayers[1].control \in Control
        BY <3>1 DEF HeldLayer
      <3> QED BY <2>2, <3>1, <3>2 DEF EveryUpComes, OnStack
    <2> QED BY <2>3 DEF Active
  <1> QED BY <1>1, <1>2, <1>3, TypeCorrect, HeldAtMostOnce, PTL DEF Spec

-----------------------------------------------------------------------------
(* The pins of downLayer. *)

LEMMA NeverDeferredIs ==
    ASSUME TypeOK, NEW c \in NeverDeferred
    PROVE  c \in Control /\ c \notin DeferPress(cfg)
  BY DEF NeverDeferred, TypeOK

LEMMA PinsRead ==
    ASSUME TypeOK, PinsKept, NEW ev, ReadEvent(ev)
    PROVE  PinsKept'
  <1>1. Reads(ev) /\ out = {}
    BY DEF ReadEvent, LearnSwallows, LearnCaptures, HandlesTurn, HandlesDown, HandlesUp,
           Handles, Reads, AtSelect
  <1>2. /\ ev.control \in Control /\ UNCHANGED cfg
        /\ gm \in Machine /\ Base \in Machine /\ Active \in Layer
        /\ downLayer \in [Control -> Layer \cup {None}]
    BY <1>1, ReadsType, BaseType, ActiveType DEF TypeOK
  <1>3. \A c \in NeverDeferred :
          /\ c \in Control /\ c \notin DeferPress(cfg)
          /\ Base.pending[c] = None
          /\ Base.downAt[c] # None => downLayer[c] = Base.born[c]
    BY NeverDeferredIs DEF PinsKept, Base, Fresh
  <1>4. CASE LearnSwallows(ev)
    BY <1>1, <1>4 DEF LearnSwallows, PinsKept, NeverDeferred
  <1>5. CASE LearnCaptures(ev)
    <2>1. gm' = Fresh /\ out' = {}
      BY <1>1, <1>5 DEF LearnCaptures
    <2> QED BY <2>1, <1>3 DEF PinsKept, Fresh
  <1>6. CASE HandlesTurn(ev)
    BY <1>3, <1>6 DEF HandlesTurn, HandleTurn, Fires, PinsKept, ButtonGesture
  <1>7. CASE HandlesDown(ev)
    <2>1. /\ gm'.pending = Base.pending /\ out' = {}
          /\ gm'.downAt = [Base.downAt EXCEPT ![ev.control] = ev.at]
          /\ gm'.born = [Base.born EXCEPT ![ev.control] = Active]
          /\ downLayer' = [downLayer EXCEPT ![ev.control] = Active]
      BY <1>2, <1>7 DEF HandlesDown, HandleDown, Machine
    <2> QED BY <1>2, <1>3, <2>1 DEF PinsKept, Machine
  <1>8. CASE HandlesUp(ev)
    <2> DEFINE c == ev.control
    <2>1. HandleUp(Base, c, ev.at, DeferPress(cfg)) /\ UNCHANGED downLayer
      BY <1>8 DEF HandlesUp
    <2>2. CASE UpUnmatched(Base, c)
      BY <1>3, <2>1, <2>2 DEF UpUnmatched, PinsKept
    <2>3. CASE UpReleases(Base, c) \/ UpPresses(Base, c, DeferPress(cfg))
      <3>1. PICK k \in ButtonGesture \ {"hold"} : out' = {Fires(c, k, Base.born[c])}
        BY <2>3 DEF UpReleases, UpPresses, ButtonGesture
      <3>2. /\ gm'.pending = Base.pending /\ gm'.born = Base.born
            /\ gm'.downAt = [Base.downAt EXCEPT ![c] = None] /\ Base.downAt[c] # None
        BY <1>2, <2>3 DEF UpReleases, UpPresses, Machine
      <3> QED BY <1>2, <1>3, <2>1, <3>1, <3>2 DEF PinsKept, Fires, Machine
    <2>4. CASE UpDoubles(Base, c, ev.at, DeferPress(cfg))
      <3>1. /\ c \in DeferPress(cfg) /\ out' = {Fires(c, "double", Base.born[c])}
            /\ gm'.pending = [Base.pending EXCEPT ![c] = None] /\ gm'.born = Base.born
            /\ gm'.downAt = [Base.downAt EXCEPT ![c] = None]
        BY <1>2, <2>4 DEF UpDoubles, Machine
      <3> QED BY <1>2, <1>3, <2>1, <3>1 DEF PinsKept, Fires, Machine
    <2>5. CASE UpDefers(Base, c, ev.at, DeferPress(cfg))
      <3>1. /\ c \in DeferPress(cfg) /\ out' = {}
            /\ gm'.pending = [Base.pending EXCEPT ![c] = ev.at + DoublePressWindow]
            /\ gm'.downAt = [Base.downAt EXCEPT ![c] = None] /\ gm'.born = Base.born
        BY <1>2, <2>5 DEF UpDefers, Machine
      <3> QED BY <1>2, <1>3, <2>1, <3>1 DEF PinsKept, Machine
    <2> QED BY <2>1, <2>2, <2>3, <2>4, <2>5 DEF HandleUp
  <1> QED BY <1>4, <1>5, <1>6, <1>7, <1>8 DEF ReadEvent

LEMMA PinsTimer ==
    ASSUME TypeOK, PinsKept, NEW now \in 0..clock, TimerFires(now)
    PROVE  PinsKept'
  <1>1. /\ gm \in Machine
        /\ UNCHANGED downLayer
        /\ out' = TickFirings(gm, now, DetectHold(cfg))
        /\ gm' = Fresh \/ gm' = Ticked(gm, now, DetectHold(cfg))
    BY DEF TypeOK, TimerFires, layers
  <1>2. \A c \in NeverDeferred :
          /\ c \in Control /\ gm.pending[c] = None
          /\ gm.downAt[c] # None => downLayer[c] = gm.born[c]
    BY NeverDeferredIs DEF PinsKept
  <1>3. \A c \in NeverDeferred :
          gm'.pending[c] = None /\ (gm'.downAt[c] # None => downLayer'[c] = gm'.born[c])
    <2>1. CASE gm' = Fresh
      BY <1>2, <2>1 DEF Fresh
    <2>2. CASE gm' = Ticked(gm, now, DetectHold(cfg))
      BY <1>1, <1>2, <2>2, TickedIs
    <2> QED BY <1>1, <2>1, <2>2
  <1>4. ASSUME NEW g \in out', g.control \in NeverDeferred
        PROVE  /\ g = Fires(g.control, "hold", gm.born[g.control])
               /\ gm.downAt[g.control] # None
    BY <1>1, <1>2, <1>4 DEF TickFirings, Fires, HoldDue, Holding, PressDue
  <1>5. ASSUME NEW g \in out', g.control \in NeverDeferred
        PROVE  /\ downLayer'[g.control] = g.born /\ g.gesture = "hold"
               /\ \A h \in out' : h.control = g.control => h = g
    <2>1. g = Fires(g.control, "hold", gm.born[g.control]) /\ gm.downAt[g.control] # None
      BY <1>4, <1>5
    <2>2. g.born = gm.born[g.control] /\ g.gesture = "hold"
      BY <2>1 DEF Fires
    <2>3. \A h \in out' : h.control = g.control => h = g
      BY <1>4, <1>5, <2>1
    <2> QED BY <1>1, <1>2, <1>5, <2>1, <2>2, <2>3
  <1> QED BY <1>3, <1>5 DEF PinsKept

LEMMA PinsDispatch ==
    ASSUME TypeOK, PinsKept, NEW g \in out, Dispatch(g)
    PROVE  PinsKept'
  <1>1. Takes(g)
    BY DEF Dispatch, Latches, Cycles, Ducks, Invokes
  <1>2. /\ gm' = gm /\ out' = out \ {g}
        /\ downLayer' = IF g.gesture \in ButtonGesture \ {"hold"}
                        THEN [downLayer EXCEPT ![g.control] = None] ELSE downLayer
        /\ downLayer \in [Control -> Layer \cup {None}]
        /\ g.control \in Control
    BY <1>1 DEF Takes, TypeOK, Firing
  <1>3. CASE g.gesture \notin ButtonGesture \ {"hold"}
    BY <1>2, <1>3 DEF PinsKept
  <1>4. CASE g.gesture \in ButtonGesture \ {"hold"}
    <2>1. \A c \in Control \ {g.control} : downLayer'[c] = downLayer[c]
      BY <1>2, <1>4
    <2>2. g.control \in NeverDeferred =>
            gm.downAt[g.control] = None /\ \A h \in out' : h.control # g.control
      BY <1>2, <1>4 DEF PinsKept
    <2>3. \A c \in NeverDeferred : c \in Control
      BY DEF NeverDeferred
    <2> QED BY <1>2, <2>1, <2>2, <2>3 DEF PinsKept
  <1> QED BY <1>3, <1>4

LEMMA PinsStep == TypeOK /\ PinsKept /\ [Next]_vars => PinsKept'
  <1> SUFFICES ASSUME TypeOK, PinsKept, [Next]_vars PROVE PinsKept'
    OBVIOUS
  <1>1. CASE NextEvent
    BY <1>1, PinsRead DEF NextEvent
  <1>2. CASE NextTimer
    BY <1>2, PinsTimer DEF NextTimer
  <1>3. CASE NextDispatch
    BY <1>3, PinsDispatch DEF NextDispatch
  <1>4. CASE \E d \in {None, clock + LearnTimeout} : SetLearnUntil(d)
    <2>1. gm' = Fresh /\ out' = {}
      BY <1>4 DEF SetLearnUntil, AtSelect
    <2> QED BY <2>1, NeverDeferredIs DEF PinsKept, Fresh
  <1>5. CASE UNCHANGED <<gm, out, downLayer>>
    BY <1>5 DEF PinsKept
  <1> QED BY <1>1, <1>2, <1>3, <1>4, <1>5 DEF Next, Tock, PushDown, LetGo, Turn, Unplug, UserActs,
             SetConfig, vars, layers

(* A press, hold, release or double press of a control that no             *)
(* configuration binds a double press to always resolves on the layer that *)
(* was active when the control went down, however the layers have changed  *)
(* since and whichever downs and ups the inbox lost.                       *)
THEOREM LayerPinned == Spec => []PinnedLayer
  <1>1. Init => PinsKept
    BY DEF Init, PinsKept, Fresh, NeverDeferred
  <1>2. TypeOK /\ PinsKept => PinnedLayer
    <2> SUFFICES ASSUME TypeOK, PinsKept, NEW g \in out,
                        g.gesture \in ButtonGesture, g.control \in NeverDeferred
                 PROVE  ResolvedLayer(g) = g.born
      BY DEF PinnedLayer, Pinned
    <2>1. downLayer[g.control] = g.born
      BY DEF PinsKept
    <2>2. g.born # None
      BY LayerAssumption DEF TypeOK, Firing, Layer, None
    <2> QED BY <2>1, <2>2 DEF ResolvedLayer
  <1> QED BY <1>1, <1>2, PinsStep, TypeCorrect, PTL DEF Spec

-----------------------------------------------------------------------------
(* Ducks. *)

(* Behind position i, or now for 0, the button is down. *)
UpAt(x, i) == i \in 1..Len(inbox) /\ inbox[i].kind = "up" /\ inbox[i].control = x
IsDown(x, i) == IF i = 0 THEN gm.downAt[x] # None ELSE DownAt(x, i)

(* Downs and ups alternate: every down is followed by its up, which comes  *)
(* before the next down.                                                   *)
Alternate ==
    /\ EveryUpComes
    /\ \A x \in Control, i \in Nat : IsDown(x, i) => Owed(x, i)
    /\ \A x \in Control, i, j \in Nat : IsDown(x, i) /\ DownAt(x, j) /\ i < j
          => \E k \in Nat : i < k /\ k < j /\ UpAt(x, k)

LEMMA UserAlternates ==
    ASSUME ~DropOldest, TypeOK, Alternate, NEW c \in Control,
           PushDown(c) \/ LetGo(c) \/ Turn(c)
    PROVE  Alternate'
  <1> DEFINE n == Len(inbox) + 1
  <1>1. /\ inbox \in Seq(Event) /\ n \in Nat /\ pressed \in SUBSET Control
        /\ UNCHANGED gm /\ EveryUpComes /\ EveryUpComes'
    BY UserOwes DEF Alternate, TypeOK, PushDown, LetGo, Turn, UserActs
  <1>2. PICK kind \in EventKind :
          /\ Deliver(kind, c)
          /\ kind = "down" => c \notin pressed
          /\ kind = "down" => pressed' = pressed \cup {c}
          /\ kind = "up" => pressed' = pressed \ {c}
          /\ kind = "turn" => pressed' = pressed
    BY DEF PushDown, LetGo, Turn, EventKind
  <1> DEFINE ev == [kind |-> kind, control |-> c, at |-> clock]
  <1>3. inbox' = Append(inbox, ev) /\ ev \in Event /\ ev.kind = kind /\ ev.control = c
    BY <1>2 DEF Deliver, Event, TypeOK
  <1>4. /\ Len(inbox') = n /\ inbox'[n] = ev
        /\ \A i \in 1..Len(inbox) : inbox'[i] = inbox[i]
    BY <1>1, <1>3, AppendProperties
  <1> HIDE DEF ev
  <1>5. ASSUME NEW x \in Control, NEW i \in Nat
        PROVE  /\ UpAt(x, i) => UpAt(x, i)'
               /\ IsDown(x, i)' => IsDown(x, i) \/ (i = n /\ kind = "down" /\ x = c)
    BY <1>1, <1>3, <1>4 DEF UpAt, IsDown, DownAt
  <1>6. ASSUME NEW x \in Control, NEW i \in Nat, IsDown(x, i)'
        PROVE  Owed(x, i)'
    <2>1. CASE i = 0
      <3>1. Owed(x, 0) /\ gm.downAt[x] # None
        BY <1>1, <1>6, <2>1 DEF Alternate, IsDown
      <3>2. CASE x \in pressed'
        BY <3>2 DEF Owed
      <3>3. CASE x \notin pressed' /\ x \in pressed
        <4>1. kind = "up" /\ x = c
          BY <1>2, <3>3 DEF EventKind
        <4>2. n \in (0 + 1)..Len(inbox') /\ inbox'[n].kind = "up" /\ inbox'[n].control = x
          BY <1>1, <1>3, <1>4, <4>1
        <4> QED BY <2>1, <4>2 DEF Owed
      <3>4. CASE x \notin pressed
        <4>1. PICK j \in (0 + 1)..Len(inbox) : inbox[j].kind = "up" /\ inbox[j].control = x
          BY <3>1, <3>4 DEF Owed
        <4>2. j \in (0 + 1)..Len(inbox') /\ inbox'[j] = inbox[j]
          BY <1>1, <1>4
        <4> QED BY <2>1, <4>1, <4>2 DEF Owed
      <3> QED BY <3>2, <3>3, <3>4
    <2>2. CASE i # 0
      BY <1>1, <1>6, <2>2 DEF EveryUpComes, IsDown
    <2> QED BY <2>1, <2>2
  <1>7. ASSUME NEW x \in Control, NEW i \in Nat, NEW j \in Nat, IsDown(x, i)', DownAt(x, j)', i < j
        PROVE  \E k \in Nat : i < k /\ k < j /\ UpAt(x, k)'
    <2>1. /\ IsDown(x, j)' /\ j \in 1..n
          /\ IsDown(x, i)
      BY <1>1, <1>4, <1>5, <1>7 DEF DownAt, IsDown
    <2>2. CASE j = n /\ kind = "down" /\ x = c
      <3>1. Owed(x, i) /\ x \notin pressed
        BY <1>2, <2>1, <2>2 DEF Alternate
      <3>2. PICK k \in (i + 1)..Len(inbox) : inbox[k].kind = "up" /\ inbox[k].control = x
        BY <3>1 DEF Owed
      <3>3. k \in Nat /\ i < k /\ k < j /\ UpAt(x, k)
        BY <1>1, <2>2, <3>2 DEF UpAt
      <3> QED BY <1>5, <3>3
    <2>3. CASE IsDown(x, j)
      <3>1. DownAt(x, j)
        BY <1>7, <2>3 DEF IsDown
      <3> QED BY <1>5, <1>7, <2>1, <3>1 DEF Alternate
    <2> QED BY <1>5, <2>1, <2>2, <2>3
  <1> QED BY <1>1, <1>6, <1>7 DEF Alternate

LEMMA ReadAlternates ==
    ASSUME TypeOK, HeldOnce, Alternate, NEW ev, ReadEvent(ev)
    PROVE  Alternate'
  <1>1. /\ EveryUpComes /\ EveryUpComes' /\ ~Armed /\ Base = gm
        /\ HandlesTurn(ev) \/ HandlesDown(ev) \/ HandlesUp(ev)
    BY ReadOwes DEF Alternate, EveryUpComes, Armed, Suppressed, ReadEvent, LearnSwallows,
           LearnCaptures, HandlesTurn, HandlesDown, HandlesUp, Handles, Base
  <1>2. Reads(ev) /\ ev \in Event /\ ev.control \in Control /\ gm \in Machine
    BY <1>1, ReadsType DEF HandlesTurn, HandlesDown, HandlesUp, Handles, TypeOK
  <1>3. /\ inbox \in Seq(Event) /\ inbox # <<>> /\ ev = inbox[1] /\ Len(inbox) \in Nat
        /\ Len(inbox') = Len(inbox) - 1
        /\ \A i \in 1..Len(inbox') : inbox'[i] = inbox[i + 1]
    BY <1>2, HeadTailProperties DEF Reads, TypeOK
  <1>4. ASSUME NEW x \in Control, NEW k \in Nat \ {0, 1}, UpAt(x, k)
        PROVE  k - 1 \in Nat /\ UpAt(x, k - 1)'
    <2>1. k - 1 \in 1..Len(inbox') /\ (k - 1) + 1 = k /\ k - 1 \in Nat
      BY <1>3, <1>4 DEF UpAt
    <2> QED BY <1>3, <1>4, <2>1 DEF UpAt
  (* A button that is down was down before, or went down with this message. *)
  <1>5. ASSUME NEW x \in Control, gm'.downAt[x] # None
        PROVE  \/ gm.downAt[x] # None /\ ~(ev.kind = "up" /\ ev.control = x)
               \/ DownAt(x, 1)
    <2>1. CASE HandlesTurn(ev)
      BY <1>1, <1>5, <2>1 DEF HandlesTurn, HandleTurn
    <2>2. CASE HandlesDown(ev)
      <3>1. gm'.downAt = [gm.downAt EXCEPT ![ev.control] = ev.at] /\ ev.kind = "down"
        BY <1>1, <1>2, <2>2 DEF HandlesDown, HandleDown, Machine
      <3> QED BY <1>2, <1>3, <1>5, <3>1 DEF DownAt, Machine
    <2>3. CASE HandlesUp(ev)
      <3>1. gm'.downAt = [gm.downAt EXCEPT ![ev.control] = None]
        <4>1. HandleUp(gm, ev.control, ev.at, DeferPress(cfg))
          BY <1>1, <2>3 DEF HandlesUp
        <4> QED BY <1>2, <4>1 DEF HandleUp, UpUnmatched, UpReleases, UpPresses, UpDoubles,
                                  UpDefers, Machine
      <3> QED BY <1>2, <1>5, <3>1 DEF Machine
    <2> QED BY <1>1, <2>1, <2>2, <2>3
  <1>6. ASSUME NEW x \in Control, NEW i \in Nat, IsDown(x, i)'
        PROVE  Owed(x, i)'
    <2>1. CASE i # 0
      BY <1>1, <1>6, <2>1 DEF EveryUpComes, IsDown
    <2>2. CASE i = 0 /\ DownAt(x, 1)
      <3>1. Owed(x, 0 + 1)
        BY <1>1, <2>2 DEF EveryUpComes
      <3> QED BY <1>2, <2>2, <3>1, ReadsOwes
    <2>3. CASE i = 0 /\ gm.downAt[x] # None /\ ~(ev.kind = "up" /\ ev.control = x)
      <3>1. Owed(x, 0)
        BY <2>3 DEF Alternate, IsDown
      <3> QED BY <1>2, <2>3, <3>1, ReadsOwes
    <2> QED BY <1>5, <1>6, <2>1, <2>2, <2>3 DEF IsDown
  <1>7. ASSUME NEW x \in Control, NEW i \in Nat, NEW j \in Nat,
               IsDown(x, i)', DownAt(x, j)', i < j
        PROVE  \E k \in Nat : i < k /\ k < j /\ UpAt(x, k)'
    <2>1. DownAt(x, j + 1) /\ j + 1 \in Nat
      BY <1>2, <1>7, ReadsOwes
    <2>2. ASSUME NEW h \in {0, i + 1}, IsDown(x, h),
                 h = 0 => ~(ev.kind = "up" /\ ev.control = x) /\ i = 0
          PROVE  \E k \in Nat : i < k /\ k < j /\ UpAt(x, k)'
      <3>1. h \in Nat /\ h < j + 1
        BY <1>7, <2>2
      <3>2. PICK k \in Nat : h < k /\ k < j + 1 /\ UpAt(x, k)
        BY <2>1, <2>2, <3>1 DEF Alternate
      <3>3. k # 0 /\ (h = 0 => k # 1)
        BY <1>3, <2>2, <3>2 DEF UpAt
      <3> QED BY <1>4, <2>2, <3>2, <3>3
    <2>3. CASE i # 0
      <3>1. DownAt(x, i + 1)
        BY <1>2, <1>7, <2>3, ReadsOwes DEF IsDown
      <3> QED BY <2>2, <2>3, <3>1 DEF IsDown
    <2>4. CASE i = 0 /\ DownAt(x, 1)
      BY <2>2, <2>4 DEF IsDown
    <2>5. CASE i = 0 /\ gm.downAt[x] # None /\ ~(ev.kind = "up" /\ ev.control = x)
      BY <2>2, <2>5 DEF IsDown
    <2> QED BY <1>5, <1>7, <2>3, <2>4, <2>5 DEF IsDown
  <1> QED BY <1>1, <1>6, <1>7 DEF Alternate

LEMMA AlternateStep ==
    ASSUME ~LearnAllowed, ~DropOldest, ~Unplugs, TypeOK, HeldOnce, Alternate, [Next]_vars
    PROVE  Alternate'
  <1>1. EveryUpComes'
    BY UpStep DEF Alternate
  <1>2. CASE \E c \in Buttons : PushDown(c) \/ LetGo(c)
    BY <1>2, UserAlternates, BoundsAssumption
  <1>3. CASE (\E c \in Knobs : Turn(c)) \/ Unplug
    BY <1>3, UserAlternates, BoundsAssumption DEF Unplug
  <1>4. CASE NextEvent
    BY <1>4, ReadAlternates DEF NextEvent
  <1>5. CASE UNCHANGED <<inbox, pressed>> /\ gm'.downAt = gm.downAt
    BY <1>1, <1>5 DEF Alternate, IsDown, DownAt, UpAt, Owed
  <1>6. CASE Tock \/ NextDispatch \/ (\E cf \in Config : SetConfig(cf)) \/ UNCHANGED vars
    BY <1>5, <1>6 DEF Tock, NextDispatch, Dispatch, Latches, Cycles, Ducks, Invokes, Takes,
                      SetConfig, vars, env
  <1>7. CASE NextTimer
    <2>1. PICK now \in 0..clock : TimerFires(now)
      BY <1>7 DEF NextTimer
    <2>2. gm' = Ticked(gm, now, DetectHold(cfg)) /\ UNCHANGED <<inbox, pressed>>
      BY <2>1 DEF Alternate, EveryUpComes, Armed, TimerFires, env
    <2> QED BY <1>5, <2>2, TickedIs DEF TypeOK
  <1>8. CASE \E d \in {None, clock + LearnTimeout} : SetLearnUntil(d)
    BY <1>8 DEF SetLearnUntil
  <1> QED BY <1>2, <1>3, <1>4, <1>6, <1>7, <1>8 DEF Next

(* A control that ducks is held, or its release is in hand, and the layer  *)
(* its press is pinned to binds its hold to a duck.                        *)
DucksHeld ==
    /\ \A c \in ducked : /\ downLayer[c] \in Layer /\ Ducking(cfg, downLayer[c], c)
                         /\ \/ gm.downAt[c] # None /\ c \in gm.held
                            \/ \E g \in out : g.control = c /\ g.gesture = "release"
    /\ \A g \in out : g.gesture = "hold" => /\ gm.downAt[g.control] # None
                                          /\ g.control \in gm.held

LEMMA DuckingIs ==
    ASSUME DucksAlike, TypeOK, NEW l \in Layer, NEW c \in Control, Ducking(cfg, l, c)
    PROVE  /\ c \in NeverDeferred /\ c \notin DeferPress(cfg)
           /\ \A cf \in Config : Ducking(cf, l, c)
           /\ Lookup(cfg, l, c, "release").type \in {"none", "duck"}
  BY DEF DucksAlike, TypeOK, NeverDeferred

LEMMA DuckRead ==
    ASSUME DucksAlike, TypeOK, HeldOnce, Alternate, DucksHeld, NEW ev, ReadEvent(ev)
    PROVE  DucksHeld'
  <1>1. /\ ~Armed /\ Base = gm /\ out = {}
        /\ HandlesTurn(ev) \/ HandlesDown(ev) \/ HandlesUp(ev)
    BY DEF Alternate, EveryUpComes, Armed, Suppressed, ReadEvent, LearnSwallows,
           LearnCaptures, HandlesTurn, HandlesDown, HandlesUp, Handles, Base, Reads, AtSelect
  <1>2. /\ Reads(ev) /\ ev \in Event /\ ev.control \in Control /\ gm \in Machine
        /\ UNCHANGED <<cfg, ducked>> /\ ducked \subseteq Control
        /\ downLayer \in [Control -> Layer \cup {None}]
    BY <1>1, ReadsType DEF HandlesTurn, HandlesDown, HandlesUp, Handles, TypeOK
  <1>3. \A c \in ducked : /\ c \in Control /\ gm.downAt[c] # None /\ c \in gm.held
                          /\ downLayer[c] \in Layer /\ Ducking(cfg, downLayer[c], c)
    BY <1>1, <1>2 DEF DucksHeld
  <1>4. CASE HandlesTurn(ev)
    BY <1>1, <1>2, <1>3, <1>4 DEF HandlesTurn, HandleTurn, Fires, DucksHeld
  <1>5. CASE HandlesDown(ev)
    <2>1. /\ gm'.downAt = [gm.downAt EXCEPT ![ev.control] = ev.at]
          /\ gm'.held = gm.held \ {ev.control} /\ out' = {}
          /\ downLayer' = [downLayer EXCEPT ![ev.control] = Active]
      BY <1>1, <1>2, <1>5 DEF HandlesDown, HandleDown, Machine
    <2>2. DownAt(ev.control, 1)
      BY <1>2, <1>5, ReadsOwes DEF HandlesDown
    <2>3. ev.control \notin ducked
      <3> SUFFICES ASSUME ev.control \in ducked PROVE FALSE
        OBVIOUS
      <3>1. IsDown(ev.control, 0)
        BY <1>3 DEF IsDown
      <3> QED BY <1>2, <2>2, <3>1 DEF Alternate
    <2> QED BY <1>2, <1>3, <2>1, <2>3 DEF DucksHeld, Machine
  <1>6. CASE HandlesUp(ev)
    <2> DEFINE c == ev.control
    <2>1. HandleUp(gm, c, ev.at, DeferPress(cfg)) /\ UNCHANGED downLayer
      BY <1>1, <1>6 DEF HandlesUp
    <2>2. CASE c \in ducked
      <3>1. c \notin DeferPress(cfg) /\ gm.downAt[c] # None /\ c \in gm.held
        BY <1>2, <1>3, <2>2, DuckingIs
      <3>2. UpReleases(gm, c)
        BY <2>1, <3>1 DEF HandleUp, UpUnmatched, UpPresses, UpDoubles, UpDefers
      <3>3. /\ gm'.downAt = [gm.downAt EXCEPT ![c] = None] /\ gm'.held = gm.held \ {c}
            /\ out' = {Fires(c, "release", gm.born[c])}
        BY <1>2, <3>2 DEF UpReleases, Machine
      <3> QED BY <1>2, <1>3, <2>1, <3>3 DEF DucksHeld, Fires, Machine
    <2>3. CASE c \notin ducked
      <3>1. /\ \A x \in Control \ {c} : gm'.downAt[x] = gm.downAt[x] /\ (x \in gm'.held <=> x \in gm.held)
            /\ \A g \in out' : g.gesture # "hold"
        <4>1. UpUnmatched(gm, c) => gm' = gm /\ out' = {}
          BY DEF UpUnmatched
        <4>2. UpReleases(gm, c) => /\ gm'.downAt = [gm.downAt EXCEPT ![c] = None]
                                   /\ gm'.held = gm.held \ {c}
                                   /\ \A g \in out' : g.gesture = "release"
          BY <1>2 DEF UpReleases, Fires, Machine
        <4>3. UpPresses(gm, c, DeferPress(cfg))
                => /\ gm'.downAt = [gm.downAt EXCEPT ![c] = None] /\ gm'.held = gm.held
                   /\ \A g \in out' : g.gesture = "press"
          BY <1>2 DEF UpPresses, Fires, Machine
        <4>4. UpDoubles(gm, c, ev.at, DeferPress(cfg))
                => /\ gm'.downAt = [gm.downAt EXCEPT ![c] = None] /\ gm'.held = gm.held
                   /\ \A g \in out' : g.gesture = "double"
          BY <1>2 DEF UpDoubles, Fires, Machine
        <4>5. UpDefers(gm, c, ev.at, DeferPress(cfg))
                => /\ gm'.downAt = [gm.downAt EXCEPT ![c] = None] /\ gm'.held = gm.held
                   /\ out' = {}
          BY <1>2 DEF UpDefers, Machine
        <4> QED BY <1>2, <2>1, <4>1, <4>2, <4>3, <4>4, <4>5 DEF HandleUp, Machine
      <3> QED BY <1>2, <1>3, <2>1, <2>3, <3>1 DEF DucksHeld
    <2> QED BY <2>2, <2>3
  <1> QED BY <1>1, <1>4, <1>5, <1>6

LEMMA DuckDispatch ==
    ASSUME DucksAlike, TypeOK, PinsKept, DucksHeld, NEW g \in out, Dispatch(g)
    PROVE  DucksHeld'
  <1>1. /\ g.control \in Control /\ g.gesture \in Gesture /\ g.born \in Layer /\ None \notin Layer
        /\ gm' = gm /\ out' = out \ {g} /\ UNCHANGED cfg
        /\ downLayer' = IF g.gesture \in ButtonGesture \ {"hold"}
                        THEN [downLayer EXCEPT ![g.control] = None] ELSE downLayer
        /\ downLayer \in [Control -> Layer \cup {None}] /\ ducked \subseteq Control
    BY LayerAssumption DEF TypeOK, Firing, Dispatch, Latches, Cycles, Ducks, Invokes, Takes,
                           Layer, None
  <1>2. ducked' = IF BoundAction(g).type # "duck" THEN ducked
                  ELSE IF g.gesture = "hold" THEN ducked \cup {g.control} ELSE ducked \ {g.control}
    BY DEF Dispatch, Latches, Cycles, Ducks, Invokes
  (* What a gesture of a control that ducks does. *)
  <1>3. ASSUME g.control \in ducked
        PROVE  \/ g.gesture \in {"hold", "turn"}
               \/ g.control \notin ducked'
    <2>1. /\ downLayer[g.control] \in Layer /\ Ducking(cfg, downLayer[g.control], g.control)
          /\ g.control \in NeverDeferred
      BY <1>1, <1>3, DuckingIs DEF DucksHeld
    <2>2. CASE g.gesture \in ButtonGesture \ {"hold"}
      <3>1. gm.downAt[g.control] = None /\ \A h \in out : h.control = g.control => h = g
        BY <2>1, <2>2 DEF PinsKept
      <3>2. g.gesture = "release"
        BY <1>3, <3>1 DEF DucksHeld
      <3>3. BoundAction(g).type = "duck"
        BY <1>1, <2>1, <3>2, DuckingIs DEF BoundAction, ResolvedLayer, ButtonGesture, Ducking
      <3> QED BY <1>2, <3>2, <3>3
    <2> QED BY <1>1, <2>2 DEF Gesture
  <1>4. ASSUME NEW c \in ducked', c \in ducked
        PROVE  /\ downLayer'[c] \in Layer /\ Ducking(cfg, downLayer'[c], c)
               /\ \/ gm'.downAt[c] # None /\ c \in gm'.held
                  \/ \E h \in out' : h.control = c /\ h.gesture = "release"
    <2>1. downLayer'[c] = downLayer[c]
      BY <1>1, <1>3, <1>4 DEF ButtonGesture
    <2>2. \A h \in out : h.control = c /\ h.gesture = "release" => h # g
      BY <1>3, <1>4
    <2> QED BY <1>1, <1>4, <2>1, <2>2 DEF DucksHeld
  <1>5. ASSUME NEW c \in ducked', c \notin ducked
        PROVE  /\ downLayer'[c] \in Layer /\ Ducking(cfg, downLayer'[c], c)
               /\ gm'.downAt[c] # None /\ c \in gm'.held
    <2>1. c = g.control /\ g.gesture = "hold" /\ BoundAction(g).type = "duck"
      BY <1>2, <1>5
    <2>2. gm.downAt[c] # None /\ c \in gm.held /\ UNCHANGED downLayer
      BY <1>1, <2>1 DEF DucksHeld
    <2>3. Ducking(cfg, ResolvedLayer(g), c) /\ ResolvedLayer(g) \in Layer
      BY <1>1, <2>1, ActiveType DEF BoundAction, Ducking, ResolvedLayer, ButtonGesture
    <2>4. c \in NeverDeferred
      BY <1>1, <2>1, <2>3, DuckingIs
    <2>5. downLayer[c] = g.born
      BY <2>1, <2>4 DEF PinsKept, ButtonGesture
    <2>6. ResolvedLayer(g) = downLayer[c]
      BY <1>1, <2>1, <2>5 DEF ResolvedLayer, ButtonGesture
    <2> QED BY <1>1, <2>2, <2>3, <2>6
  <1>6. \A h \in out' : h.gesture = "hold" => gm'.downAt[h.control] # None /\ h.control \in gm'.held
    BY <1>1 DEF DucksHeld
  <1> QED BY <1>1, <1>4, <1>5, <1>6 DEF DucksHeld

LEMMA DuckStep ==
    ASSUME ~LearnAllowed, ~DropOldest, ~Unplugs, DucksAlike,
           TypeOK, HeldOnce, PinsKept, Alternate, DucksHeld, [Next]_vars
    PROVE  DucksHeld'
  <1>1. CASE NextEvent
    BY <1>1, DuckRead DEF NextEvent
  <1>2. CASE NextDispatch
    BY <1>2, DuckDispatch DEF NextDispatch
  <1>3. CASE NextTimer
    <2>1. PICK now \in 0..clock : TimerFires(now)
      BY <1>3 DEF NextTimer
    <2>2. /\ gm' = Ticked(gm, now, DetectHold(cfg)) /\ out = {}
          /\ out' = TickFirings(gm, now, DetectHold(cfg))
          /\ UNCHANGED <<cfg, downLayer, ducked>>
      BY <2>1 DEF Alternate, EveryUpComes, Armed, TimerFires, AtSelect, layers
    <2>3. /\ gm'.downAt = gm.downAt
          /\ gm'.held = gm.held \cup HoldDue(gm, now, DetectHold(cfg))
      BY <2>2, TickedIs DEF TypeOK
    <2>4. \A g \in out' : g.gesture = "hold" =>
             gm'.downAt[g.control] # None /\ g.control \in gm'.held
      BY <2>2, <2>3 DEF TickFirings, Fires, HoldDue, Holding
    <2> QED BY <2>2, <2>3, <2>4 DEF DucksHeld
  <1>4. CASE \E cf \in Config : SetConfig(cf)
    <2>1. PICK cf \in Config : cfg' = cf /\ UNCHANGED <<gm, out, downLayer, ducked>>
      BY <1>4 DEF SetConfig
    <2>2. \A c \in ducked : Ducking(cf, downLayer[c], c)
      BY <2>1, DuckingIs DEF DucksHeld, TypeOK
    <2> QED BY <2>1, <2>2 DEF DucksHeld
  <1>5. CASE \E d \in {None, clock + LearnTimeout} : SetLearnUntil(d)
    BY <1>5 DEF SetLearnUntil
  <1>6. CASE UNCHANGED <<gm, out, cfg, downLayer, ducked>>
    BY <1>6 DEF DucksHeld
  <1> QED BY <1>1, <1>2, <1>3, <1>4, <1>5, <1>6 DEF Next, Tock, PushDown, LetGo, Turn, Unplug,
             UserActs, vars, layers

(* If nobody arms learn, the inbox never overflows and the device stays    *)
(* plugged in, every duck ends with the release of its button, whichever   *)
(* layers were switched and configurations installed while it was held, as *)
(* long as the configurations agree on what ducks.                         *)
THEOREM DucksAlwaysEnd ==
    ASSUME ~LearnAllowed, ~DropOldest, ~Unplugs, DucksAlike
    PROVE  Spec => []DuckEnds
  <1> DEFINE Inv == PinsKept /\ Alternate /\ DucksHeld
  <1>1. Init => Inv
    <2> SUFFICES ASSUME Init PROVE Inv
      OBVIOUS
    <2>1. PinsKept /\ DucksHeld
      BY DEF Init, PinsKept, Fresh, NeverDeferred, DucksHeld
    <2>2. Alternate
      BY DEF Init, Alternate, EveryUpComes, OnStack, IsDown, DownAt, Fresh
    <2> QED BY <2>1, <2>2
  <1>2. TypeOK /\ HeldOnce /\ Inv /\ [Next]_vars => Inv'
    BY PinsStep, AlternateStep, DuckStep
  <1>3. TypeOK /\ Inv => DuckEnds
    <2> SUFFICES ASSUME TypeOK, Inv, AtRest, NEW c \in ducked PROVE FALSE
      BY DEF DuckEnds
    <2>1. c \in Control /\ gm.downAt[c] # None
      BY DEF AtRest, DucksHeld, TypeOK
    <2>2. Owed(c, 0)
      BY <2>1 DEF Alternate, IsDown
    <2> QED BY <2>2 DEF AtRest, Owed
  <1> HIDE DEF Inv
  <1> QED BY <1>1, <1>2, <1>3, TypeCorrect, HeldAtMostOnce, PTL DEF Spec
=============================================================================
