--------------------------------- MODULE Mix ---------------------------------
(***************************************************************************)
(* The sessions of internal/actions/mix.go: a solo, of which there is one  *)
(* at a time, and the ducks, one per control.  Both remember what they     *)
(* found and put it back.                                                  *)
(*                                                                         *)
(* A handler runs to its end on the dispatcher goroutine, which alone      *)
(* touches the sessions, so a call is one action; the level cache it reads *)
(* and writes through is module Levels and is exact here.  Between calls   *)
(* streams come and go and somebody else moves levels.  Writes that end a  *)
(* session fail for the refs in failed, those that start one for the refs  *)
(* in refused; those in unread have no cached level to read either, so the *)
(* handler skips them.                                                     *)
(***************************************************************************)
EXTENDS Integers

CONSTANTS Ref,          \* the streams, those still to come included
          App,          \* what a target names
          AppOf,        \* the application of a stream
          Soloed,       \* the applications a control is bound to solo
          Control,      \* the controls bound to a duck
          DuckTarget,   \* the application a control's duck leaves alone
          DuckPercent,  \* the level it takes the others down to
          MaxPercent,   \* VolumeOptions.MaxPercent, in coarse units
          Present,      \* the streams there are at the start
          Fails,        \* whether a request to the server may fail
          MaxOutside    \* bound: levels moved by somebody else

Percent == 0..MaxPercent

ASSUME MixAssumption ==
    /\ MaxPercent \in Nat /\ MaxOutside \in Nat /\ Fails \in BOOLEAN
    /\ AppOf \in [Ref -> App] /\ Soloed \subseteq App
    /\ DuckTarget \in [Control -> App]
    /\ DuckPercent \in [Control -> Percent]
    /\ Present \subseteq Ref

VARIABLES alive, gone,      \* the streams there are, and were
          percent, muted,   \* their levels
          solo,             \* currentSolo
          ducks, ducking,   \* ducks: the session of a control, if it has one
          ownPercent,       \* the level a stream was given by somebody else
          ownMuted,
          spoiledPercent,   \* refs whose session cannot put back what it found
          spoiledMuted,
          outside           \* how many levels somebody else moved

streams == <<alive, gone>>
volumes == <<percent, ducks, ducking, ownPercent, spoiledPercent>>
mutes == <<muted, solo, ownMuted, spoiledMuted>>
vars == <<streams, volumes, mutes, outside>>

(* A session is the refs it touched, with what they were before. *)
Prior(S) == UNION {[T -> S] : T \in SUBSET Ref}
Nothing == [r \in {} |-> 0]
NoSolo == [target |-> {}, prior |-> Nothing]

Init ==
    /\ alive = Present
    /\ gone = {}
    /\ percent \in [Ref -> {MaxPercent}]
    /\ muted \in [Ref -> BOOLEAN]
    /\ solo = NoSolo
    /\ ducks = [c \in Control |-> Nothing]
    /\ ducking = {}
    /\ ownPercent = percent
    /\ ownMuted = muted
    /\ spoiledPercent = {}
    /\ spoiledMuted = {}
    /\ outside = 0

(* The engine's dispatch-time resolution: Refs, and everything else. *)
Refs(app) == {r \in alive : AppOf[r] = app}
Others(app) == alive \ Refs(app)

-----------------------------------------------------------------------------
(* The streams and their other users *)

Appears(r) ==
    /\ r \notin alive \cup gone
    /\ alive' = alive \cup {r}
    /\ UNCHANGED <<gone, volumes, mutes, outside>>

Exits(r) ==
    /\ r \in alive
    /\ alive' = alive \ {r}
    /\ gone' = gone \cup {r}
    /\ UNCHANGED <<volumes, mutes, outside>>

OutsideActs == outside < MaxOutside /\ outside' = outside + 1 /\ UNCHANGED streams

DucksOf(r) == {c \in ducking : r \in DOMAIN ducks[c]}

Moves(r, p) ==
    /\ OutsideActs
    /\ r \in alive
    /\ percent' = [percent EXCEPT ![r] = p]
    /\ ownPercent' = [ownPercent EXCEPT ![r] = p]
    /\ spoiledPercent' = IF DucksOf(r) = {} THEN spoiledPercent ELSE spoiledPercent \cup {r}
    /\ UNCHANGED <<ducks, ducking, mutes>>

Mutes(r, m) ==
    /\ OutsideActs
    /\ r \in alive
    /\ muted' = [muted EXCEPT ![r] = m]
    /\ ownMuted' = [ownMuted EXCEPT ![r] = m]
    /\ spoiledMuted' = IF r \in DOMAIN solo.prior THEN spoiledMuted \cup {r} ELSE spoiledMuted
    /\ UNCHANGED <<solo, volumes>>

-----------------------------------------------------------------------------
(* executeSolo *)

(* restoreSolo *)
Restorable(failed) == DOMAIN solo.prior \cap (alive \ failed)

(* Mutant of Restored: a stream a solo touched is unmuted. *)
RestoredLoud(failed) == [r \in Ref |-> r \notin Restorable(failed) /\ muted[r]]

Restored(failed) ==
    [r \in Ref |-> IF r \in Restorable(failed) THEN solo.prior[r] ELSE muted[r]]

Spoils(failed) == {r \in DOMAIN solo.prior \cap failed : solo.prior[r] # muted[r]}

Solos == UNCHANGED <<streams, volumes, ownMuted, outside>>

(* The same refs again, or a target that resolves to nothing. *)
SoloEnds(app, failed) ==
    /\ Solos
    /\ solo # NoSolo
    /\ solo.target = Refs(app) \/ Refs(app) = {}
    /\ muted' = Restored(failed)
    /\ solo' = NoSolo
    /\ spoiledMuted' = spoiledMuted \cup Spoils(failed)

(* Mutant of SoloStarts: the session remembers the application soloed and  *)
(* not its refs.                                                           *)
SoloStartsByApp(app, failed, refused, unread) ==
    LET found == Restored(failed)
    IN  /\ Solos
        /\ solo.target # Refs(app) /\ Refs(app) # {}
        /\ muted' = [r \in Ref |-> IF r \in alive \ refused THEN r \notin Refs(app) ELSE found[r]]
        /\ solo' = [target |-> {app}, prior |-> [r \in alive \ unread |-> found[r]]]
        /\ spoiledMuted' = spoiledMuted \cup Spoils(failed)

(* Any other target: the old solo ends and the new one starts. *)
SoloStarts(app, failed, refused, unread) ==
    LET found == Restored(failed)
    IN  /\ Solos
        /\ solo.target # Refs(app) /\ Refs(app) # {}
        /\ muted' = [r \in Ref |-> IF r \in alive \ refused THEN r \notin Refs(app) ELSE found[r]]
        /\ solo' = [target |-> Refs(app), prior |-> [r \in alive \ unread |-> found[r]]]
        /\ spoiledMuted' = spoiledMuted \cup Spoils(failed)

-----------------------------------------------------------------------------
(* executeDuck *)

DucksOnly == UNCHANGED <<streams, ownPercent, mutes, outside>>

Duckable(c, unread) == {r \in Others(DuckTarget[c]) \ unread : percent[r] > DuckPercent[c]}

(* Mutant of Found: what a stream was is looked up after the write. *)
FoundAfter(c, lowered) == [r \in lowered |-> DuckPercent[c]]

Found(c, lowered) == [r \in lowered |-> percent[r]]

(* The hold: a ref that is quieter already is left alone. *)
DuckHold(c, refused, unread) ==
    LET lowered == Duckable(c, unread)
    IN  /\ DucksOnly
        /\ c \notin ducking
        /\ percent' = [r \in Ref |-> IF r \in lowered \ refused THEN DuckPercent[c] ELSE percent[r]]
        /\ ducks' = [ducks EXCEPT ![c] = Found(c, lowered)]
        /\ ducking' = ducking \cup {c}
        /\ spoiledPercent' = spoiledPercent \cup {r \in lowered : DucksOf(r) # {}}

(* The release. *)
DuckRelease(c, failed) ==
    LET back == DOMAIN ducks[c] \cap (alive \ failed)
    IN  /\ DucksOnly
        /\ c \in ducking
        /\ percent' = [r \in Ref |-> IF r \in back THEN ducks[c][r] ELSE percent[r]]
        /\ ducks' = [ducks EXCEPT ![c] = Nothing]
        /\ ducking' = ducking \ {c}
        /\ spoiledPercent' = spoiledPercent \cup (DOMAIN ducks[c] \cap failed)

-----------------------------------------------------------------------------

Failing(S) == IF Fails THEN SUBSET (S \cap alive) ELSE {{}}

Solo(app) ==
    \E failed \in Failing(DOMAIN solo.prior) :
        \/ SoloEnds(app, failed)
        \/ \E refused \in Failing(Ref) :
              \E unread \in SUBSET refused : SoloStarts(app, failed, refused, unread)

Duck(c) ==
    \/ \E refused \in Failing(Others(DuckTarget[c])) :
          \E unread \in SUBSET refused : DuckHold(c, refused, unread)
    \/ \E failed \in Failing(DOMAIN ducks[c]) : DuckRelease(c, failed)

Next ==
    \/ \E r \in Ref : Appears(r) \/ Exits(r)
    \/ \E r \in Ref, p \in Percent : Moves(r, p)
    \/ \E r \in Ref, m \in BOOLEAN : Mutes(r, m)
    \/ \E app \in Soloed : Solo(app)
    \/ \E c \in Control : Duck(c)

Spec == Init /\ [][Next]_vars

-----------------------------------------------------------------------------
(* Properties *)

(* Every variable keeps its type, and a session its shape. *)
TypeOK ==
    /\ alive \in SUBSET Ref /\ gone \in SUBSET Ref
    /\ percent \in [Ref -> Percent] /\ ownPercent \in [Ref -> Percent]
    /\ muted \in [Ref -> BOOLEAN] /\ ownMuted \in [Ref -> BOOLEAN]
    /\ solo \in [target : SUBSET Ref, prior : Prior(BOOLEAN)]
    /\ ducks \in [Control -> Prior(Percent)]
    /\ ducking \in SUBSET Control
    /\ spoiledPercent \in SUBSET Ref /\ spoiledMuted \in SUBSET Ref
    /\ outside \in Nat

(* mix.go, executeSolo: the solo "restores every ref solo touched to its   *)
(* exact prior mute state", through any chain of solos of other targets    *)
(* and whatever write failed while one started: a stream no solo is        *)
(* holding is muted or not as it was.                                      *)
SoloRestores ==
    \A r \in alive \ spoiledMuted : r \notin DOMAIN solo.prior => muted[r] = ownMuted[r]

(* mix.go, executeDuck: a stream no duck is holding has the level it had,  *)
(* whatever write failed when the duck began and whoever ducks another     *)
(* stream meanwhile.  A stream ducked twice at a time is spoiled: the      *)
(* second duck remembers the level that the first one set.                 *)
DuckRestores ==
    \A r \in alive \ spoiledPercent : DucksOf(r) = {} => percent[r] = ownPercent[r]
=============================================================================
