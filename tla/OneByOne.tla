------------------------------- MODULE OneByOne -------------------------------
(***************************************************************************)
(* What the dispatch queue promises whoever turns a knob: an invocation    *)
(* acts on the levels of its refs as if it were executed on its own, in    *)
(* the order in which it was made, or is dropped and does not act at all.  *)
(* Levels are positions on the curve of audio/curve.go, on which a step is *)
(* an addition.                                                            *)
(***************************************************************************)
EXTENDS Integers, Sequences

CONSTANTS Ref,         \* the streams
          Invocations  \* what the run loop may enqueue

VARIABLE position

(* The mergeable actions and one that is not: volume.adjust and media.seek *)
(* (both sums of deltas), volume.follow and volume.set.                    *)
Invocation == [type : {"adjust", "follow", "set"}, control : STRING,
               refs : Seq(Ref), step : Int, amount : Int]

Touches(inv, r) == \E i \in 1..Len(inv.refs) : inv.refs[i] = r

(* The level handlers of actions/volume.go, each on every ref it is given. *)
Effect(pos, inv) ==
    [r \in Ref |-> IF ~Touches(inv, r) THEN pos[r]
                   ELSE IF inv.type = "adjust" THEN pos[r] + inv.step * inv.amount
                   ELSE inv.amount]

Init == position = [r \in Ref |-> 0]

Acts(inv) == position' = Effect(position, inv)

Next == \E inv \in Invocations : Acts(inv)

Spec == Init /\ [][Next]_position
=============================================================================
