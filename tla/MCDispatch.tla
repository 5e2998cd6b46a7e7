----------------------------- MODULE MCDispatch -----------------------------
(* Two knobs on overlapping targets, and a fader and a button on the same. *)
EXTENDS Dispatch

CONSTANTS a, b

Inv(type, control, refs, step, amount) ==
    [type |-> type, control |-> control, refs |-> refs, step |-> step, amount |-> amount]

(* A target of two streams resolves to them in either order, since the     *)
(* resolver's cache is a map.                                              *)
Both == {<<a, b>>, <<b, a>>}

Knobs == {Inv("adjust", "knob1", <<a>>, 1, 1), Inv("adjust", "knob1", <<a>>, 1, -1)}
            \cup {Inv("adjust", "knob1", s, 1, 1) : s \in {<<b>>}}
            \cup {Inv("adjust", "knob2", s, 2, 1) : s \in Both}

Fader == {Inv("follow", "fader", <<a>>, 0, p) : p \in {0, 5}}
Button == {Inv("set", "button", <<a>>, 0, 3)}

Inputs == Knobs \cup Fader \cup Button

(* What ActsOneByOne excepts does not occur: the hypothesis of its theorem *)
(* (AudioGraph_proofs).                                                    *)
ASSUME InputsAlike == StepsAlike
=============================================================================
