---------------------------- MODULE MCConfigStore ----------------------------
(***************************************************************************)
(* A scene of two entries, whose targets are alike.  The client has one    *)
(* reload under way at a time; the events of two may be one event.         *)
(***************************************************************************)
EXTENDS ConfigStore, FiniteSets, TLC

CONSTANTS music, voice, reload

Symmetry == Permutations(Target)

(* While several write the configuration, the client has its stream and no *)
(* reload under way.                                                       *)
ClientOrCallers ==
    \/ Cardinality({c \in Caller : at[c] # "idle"}) <= 1
    \/ listening /\ ~suppress /\ answer[reload] = Nothing
=============================================================================
