-------------------------------- MODULE MCMix --------------------------------
(***************************************************************************)
(* Two applications, one of which has two streams.  One duck spares voice  *)
(* and the other, which goes lower, an application without streams: the    *)
(* streams of music are in both.                                           *)
(***************************************************************************)
EXTENDS Mix

CONSTANTS music, voice, game, music1, music2, voice1, duckVoice, duckGame

Owners == [r \in Ref |-> IF r = voice1 THEN voice ELSE music]

Targets == [c \in Control |-> IF c = duckVoice THEN voice ELSE game]

Depths == [c \in Control |-> IF c = duckVoice THEN 1 ELSE 0]

(***************************************************************************)
(* Solos write mutes and ducks levels, so a behaviour with both is one     *)
(* with solos next to one with ducks.  They are explored one kind at a     *)
(* time: solos over loud streams, ducks over unmuted ones.                 *)
(***************************************************************************)
Unmuted == solo = NoSolo /\ spoiledMuted = {} /\ muted = ownMuted /\ \A r \in Ref : ~muted[r]
Loud == ducking = {} /\ spoiledPercent = {} /\ percent = ownPercent
            /\ \A r \in Ref : percent[r] = MaxPercent
OneKind == Unmuted \/ Loud
=============================================================================
