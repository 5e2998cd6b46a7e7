----------------------------- MODULE MCInputLoop -----------------------------
(***************************************************************************)
(* The configurations the InputLoop runs install.  All of them have one    *)
(* side button, which switches layers as in the default configuration      *)
(* (hold: momentary, press: latch), and one pad that the layers overlay.   *)
(***************************************************************************)
EXTENDS InputLoop

CONSTANTS side, pad

Act(type, l) == [type |-> type, layer |-> l, order |-> <<>>]
CycleOver(order) == [type |-> "cycle", layer |-> 0, order |-> order]

Bind(l, c, g, a) == [layer |-> l, control |-> c, gesture |-> g, action |-> a]

(* What newBindingIndex makes of a set of bindings with distinct keys. *)
Index(name, bindings) ==
    [profile  |-> name,
     byKey    |-> [k \in Layer \X Control \X Gesture |->
                     LET b == {x \in bindings : <<x.layer, x.control, x.gesture>> = k}
                     IN  IF b = {} THEN Act("none", 0) ELSE (CHOOSE x \in b : TRUE).action],
     maxLayer |-> CHOOSE l \in Layer :
                     /\ \A b \in bindings : b.layer <= l
                     /\ l = 0 \/ \E b \in bindings : b.layer = l]

SideButton == {Bind(0, side, "hold", Act("momentary", 1)),
               Bind(0, side, "press", Act("latch", 1))}

(* The pad ducks on layer 1 only. *)
DuckOnLayer1 == Index("a", SideButton \cup {Bind(1, pad, "hold", Act("duck", 0)),
                                            Bind(0, pad, "press", Act("other", 0))})

(* The pad tells single, double and long presses apart. *)
DoubleOnPad == Index("a", SideButton \cup {Bind(0, pad, "double", Act("other", 0)),
                                           Bind(0, pad, "press", Act("other", 0)),
                                           Bind(1, pad, "hold", Act("other", 0))})

(* Another profile, that cycles layers and has only a press for the pad. *)
CyclingProfile == Index("b", {Bind(0, side, "press", CycleOver(<<0, 1>>)),
                              Bind(1, side, "hold", Act("momentary", 0)),
                              Bind(0, pad, "press", CycleOver(<<>>))})

OnlyDuck    == {DuckOnLayer1}
TwoProfiles == {DoubleOnPad, CyclingProfile}

(* The hypothesis of theorem DucksAlwaysEnd (InputLoop_proofs). *)
ASSUME ConfigsDuckAlike == DucksAlike
=============================================================================
