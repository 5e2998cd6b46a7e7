------------------------------ MODULE MCLevels ------------------------------
(* Every stream starts half way up, muted or not. *)
EXTENDS Levels, TLC

CONSTANTS a, b

HalfWay == {[percent |-> 1, muted |-> m] : m \in BOOLEAN}

(* Somebody else moves levels where one stream is in use. *)
Unused(r) ==
    /\ level[r] = [percent |-> 1, muted |-> FALSE] /\ cache[r] = Unknown
    /\ call.refs \subseteq Ref \ {r} /\ ~Pending(r)

SharedAlone == outside = 0 \/ \E r \in Ref : Unused(r)

(* No definition tells the streams apart. *)
Symmetry == Permutations(Ref)
=============================================================================
