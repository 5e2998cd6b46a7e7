------------------------------ MODULE Mix_proofs ------------------------------
(***************************************************************************)
(* That solos and ducks put back what they found, for any streams,         *)
(* applications, controls and levels, and whatever requests fail.          *)
(***************************************************************************)
EXTENDS Mix, TLAPS

(* A session is a function on some of the streams. *)
LEMMA PriorIs ==
    ASSUME NEW S, NEW f \in Prior(S)
    PROVE  DOMAIN f \subseteq Ref /\ \A r \in DOMAIN f : f[r] \in S
BY DEF Prior

LEMMA IsPrior ==
    ASSUME NEW S, NEW T \in SUBSET Ref, NEW f \in [T -> S]
    PROVE  f \in Prior(S)
BY DEF Prior

LEMMA NothingIsPrior == ASSUME NEW S PROVE Nothing \in Prior(S) /\ DOMAIN Nothing = {}
BY DEF Nothing, Prior

-----------------------------------------------------------------------------
(* Types *)

LEMMA MixInitTypeOK == Init => TypeOK
<1> SUFFICES ASSUME Init PROVE TypeOK
    OBVIOUS
<1>1. MaxPercent \in Percent
    BY MixAssumption DEF Percent
<1>2. percent \in [Ref -> Percent] /\ ownPercent \in [Ref -> Percent]
    BY <1>1 DEF Init
<1>3. solo \in [target : SUBSET Ref, prior : Prior(BOOLEAN)]
    BY NothingIsPrior DEF Init, NoSolo
<1>4. ducks \in [Control -> Prior(Percent)]
    BY NothingIsPrior DEF Init
<1> QED
    BY <1>2, <1>3, <1>4, MixAssumption DEF Init, TypeOK

LEMMA RestoredType ==
    ASSUME TypeOK, NEW failed
    PROVE  Restored(failed) \in [Ref -> BOOLEAN]
<1>1. \A r \in DOMAIN solo.prior : solo.prior[r] \in BOOLEAN
    BY PriorIs DEF TypeOK
<1> QED
    BY <1>1 DEF TypeOK, Restored, Restorable

LEMMA SpoilsType == ASSUME TypeOK, NEW failed PROVE Spoils(failed) \subseteq Ref
BY PriorIs DEF TypeOK, Spoils

LEMMA SoloTypeOK == ASSUME TypeOK, NEW app \in App, Solo(app) PROVE TypeOK'
<1>1. CASE \E failed \in Failing(DOMAIN solo.prior) : SoloEnds(app, failed)
    <2> PICK failed \in Failing(DOMAIN solo.prior) : SoloEnds(app, failed)
        BY <1>1
    <2>1. muted' \in [Ref -> BOOLEAN]
        BY RestoredType DEF SoloEnds
    <2>2. solo' \in [target : SUBSET Ref, prior : Prior(BOOLEAN)]
        BY NothingIsPrior DEF SoloEnds, NoSolo
    <2>3. spoiledMuted' \in SUBSET Ref
        BY SpoilsType DEF SoloEnds, TypeOK
    <2> QED
        BY <2>1, <2>2, <2>3 DEF TypeOK, SoloEnds, Solos, streams, volumes
<1>2. CASE \E failed \in Failing(DOMAIN solo.prior), refused \in Failing(Ref) :
              \E unread \in SUBSET refused : SoloStarts(app, failed, refused, unread)
    <2> PICK failed \in Failing(DOMAIN solo.prior), refused \in Failing(Ref) :
                \E unread \in SUBSET refused : SoloStarts(app, failed, refused, unread)
        BY <1>2
    <2> PICK unread \in SUBSET refused : SoloStarts(app, failed, refused, unread)
        OBVIOUS
    <2> DEFINE found == Restored(failed)
               prior == [r \in alive \ unread |-> found[r]]
    <2>1. found \in [Ref -> BOOLEAN]
        BY RestoredType
    <2>2. muted' \in [Ref -> BOOLEAN]
        BY <2>1 DEF SoloStarts
    <2>3. prior \in [alive \ unread -> BOOLEAN]
        BY <2>1 DEF TypeOK
    <2>4. prior \in Prior(BOOLEAN)
        <3> alive \ unread \in SUBSET Ref
            BY DEF TypeOK
        <3> HIDE DEF prior
        <3> QED
            BY <2>3, IsPrior
    <2>5. solo' \in [target : SUBSET Ref, prior : Prior(BOOLEAN)]
        BY <2>4 DEF SoloStarts, TypeOK, Refs
    <2>6. spoiledMuted' \in SUBSET Ref
        BY SpoilsType DEF SoloStarts, TypeOK
    <2> QED
        BY <2>2, <2>5, <2>6 DEF TypeOK, SoloStarts, Solos, streams, volumes
<1> QED
    BY <1>1, <1>2 DEF Solo

LEMMA DuckTypeOK == ASSUME TypeOK, NEW c \in Control, Duck(c) PROVE TypeOK'
<1> USE DEF Percent
<1>1. CASE \E refused \in Failing(Others(DuckTarget[c])) :
              \E unread \in SUBSET refused : DuckHold(c, refused, unread)
    <2> PICK refused \in Failing(Others(DuckTarget[c])) :
                \E unread \in SUBSET refused : DuckHold(c, refused, unread)
        BY <1>1
    <2> PICK unread \in SUBSET refused : DuckHold(c, refused, unread)
        OBVIOUS
    <2> DEFINE lowered == Duckable(c, unread)
    <2>1. lowered \in SUBSET Ref
        BY DEF Duckable, Others, TypeOK
    <2>2. percent' \in [Ref -> Percent]
        BY MixAssumption DEF DuckHold, TypeOK
    <2>3. Found(c, lowered) \in [lowered -> Percent]
        BY <2>1 DEF Found, TypeOK
    <2>4. Found(c, lowered) \in Prior(Percent)
        BY <2>1, <2>3, IsPrior
    <2>5. ducks' \in [Control -> Prior(Percent)]
        BY <2>4 DEF DuckHold, TypeOK
    <2>6. spoiledPercent' \in SUBSET Ref
        BY <2>1 DEF DuckHold, TypeOK
    <2> QED
        BY <2>2, <2>5, <2>6 DEF TypeOK, DuckHold, DucksOnly, streams, mutes
<1>2. CASE \E failed \in Failing(DOMAIN ducks[c]) : DuckRelease(c, failed)
    <2> PICK failed \in Failing(DOMAIN ducks[c]) : DuckRelease(c, failed)
        BY <1>2
    <2>1. DOMAIN ducks[c] \subseteq Ref /\ \A r \in DOMAIN ducks[c] : ducks[c][r] \in Percent
        BY PriorIs DEF TypeOK
    <2>2. percent' \in [Ref -> Percent]
        BY <2>1 DEF DuckRelease, TypeOK
    <2>3. ducks' \in [Control -> Prior(Percent)]
        BY NothingIsPrior DEF DuckRelease, TypeOK
    <2>4. spoiledPercent' \in SUBSET Ref
        BY <2>1 DEF DuckRelease, TypeOK
    <2> QED
        BY <2>2, <2>3, <2>4 DEF TypeOK, DuckRelease, DucksOnly, streams, mutes
<1> QED
    BY <1>1, <1>2 DEF Duck

LEMMA OutsideTypeOK ==
    ASSUME TypeOK, NEW r \in Ref,
           \/ Appears(r) \/ Exits(r)
           \/ \E p \in Percent : Moves(r, p)
           \/ \E m \in BOOLEAN : Mutes(r, m)
    PROVE  TypeOK'
<1>1. CASE Appears(r) \/ Exits(r)
    BY <1>1 DEF TypeOK, Appears, Exits, volumes, mutes
<1>2. CASE \E p \in Percent : Moves(r, p)
    BY <1>2 DEF TypeOK, Moves, OutsideActs, streams, mutes
<1>3. CASE \E m \in BOOLEAN : Mutes(r, m)
    BY <1>3 DEF TypeOK, Mutes, OutsideActs, streams, volumes
<1> QED
    BY <1>1, <1>2, <1>3

(* Types hold in every reachable state: a session names streams and levels *)
(* it found, whatever requests failed while it began and ended.            *)
THEOREM SessionsTypeCorrect == Spec => []TypeOK
<1>1. TypeOK /\ [Next]_vars => TypeOK'
    <2> SUFFICES ASSUME TypeOK, [Next]_vars PROVE TypeOK'
        OBVIOUS
    <2>1. CASE UNCHANGED vars
        BY <2>1 DEF TypeOK, vars, streams, volumes, mutes
    <2>2. CASE \E app \in Soloed : Solo(app)
        BY <2>2, SoloTypeOK, MixAssumption
    <2>3. CASE \E c \in Control : Duck(c)
        BY <2>3, DuckTypeOK
    <2>4. CASE \/ \E r \in Ref : Appears(r) \/ Exits(r)
               \/ \E r \in Ref, p \in Percent : Moves(r, p)
               \/ \E r \in Ref, m \in BOOLEAN : Mutes(r, m)
        BY <2>4, OutsideTypeOK
    <2> QED
        BY <2>1, <2>2, <2>3, <2>4 DEF Next
<1> QED
    BY <1>1, MixInitTypeOK, PTL DEF Spec

-----------------------------------------------------------------------------
(* Solo *)

(* What SoloRestores rests on: the solo's session has what a stream's own  *)
(* state was, and a stream it does not have is in that state.              *)
SoloKeeps ==
    /\ alive \cap gone = {}
    /\ DOMAIN solo.prior \subseteq alive \cup gone
    /\ \A r \in Ref \ (gone \cup spoiledMuted) :
          IF r \in DOMAIN solo.prior THEN solo.prior[r] = ownMuted[r]
                                     ELSE muted[r] = ownMuted[r]

(* Ending a session puts back every stream it does not spoil. *)
LEMMA RestoredIs ==
    ASSUME TypeOK, SoloKeeps, NEW failed,
           NEW r \in Ref \ (gone \cup spoiledMuted \cup Spoils(failed))
    PROVE  Restored(failed)[r] = ownMuted[r]
<1>1. CASE r \in DOMAIN solo.prior
    <2>1. r \in alive
        BY <1>1 DEF SoloKeeps
    <2>2. CASE r \in failed
        BY <1>1, <2>2 DEF Spoils, Restored, Restorable, SoloKeeps
    <2>3. CASE r \notin failed
        BY <1>1, <2>1, <2>3 DEF Restored, Restorable, SoloKeeps
    <2> QED
        BY <2>2, <2>3
<1>2. CASE r \notin DOMAIN solo.prior
    BY <1>2 DEF Restored, Restorable, SoloKeeps
<1> QED
    BY <1>1, <1>2

LEMMA SoloStep == TypeOK /\ SoloKeeps /\ [Next]_vars => SoloKeeps'
<1> SUFFICES ASSUME TypeOK, SoloKeeps, [Next]_vars PROVE SoloKeeps'
    OBVIOUS
<1> USE DEF SoloKeeps
<1>1. CASE UNCHANGED vars
    BY <1>1 DEF vars, streams, mutes
<1>2. ASSUME NEW app \in Soloed, NEW failed, SoloEnds(app, failed) PROVE SoloKeeps'
    <2>1. DOMAIN solo'.prior = {}
        BY <1>2, NothingIsPrior DEF SoloEnds, NoSolo
    <2>2. \A r \in Ref \ (gone \cup spoiledMuted)' : muted'[r] = ownMuted'[r]
        BY <1>2, RestoredIs DEF SoloEnds, Solos, streams
    <2> QED
        BY <1>2, <2>1, <2>2 DEF SoloEnds, Solos, streams
<1>3. ASSUME NEW app \in Soloed, NEW failed, NEW refused, NEW unread,
             SoloStarts(app, failed, refused, unread), unread \subseteq refused
      PROVE  SoloKeeps'
    <2>1. DOMAIN solo'.prior = alive \ unread
        BY <1>3 DEF SoloStarts
    <2>2. DOMAIN solo'.prior \subseteq (alive \cup gone)'
        BY <1>3, <2>1 DEF SoloStarts, Solos, streams
    <2>3. ASSUME NEW r \in Ref \ (gone \cup spoiledMuted)'
          PROVE  IF r \in DOMAIN solo'.prior THEN solo'.prior[r] = ownMuted'[r]
                                             ELSE muted'[r] = ownMuted'[r]
        <3>1. Restored(failed)[r] = ownMuted'[r]
            BY <1>3, <2>3, RestoredIs DEF SoloStarts, Solos, streams
        <3>2. CASE r \in alive \ unread
            BY <1>3, <2>1, <3>1, <3>2 DEF SoloStarts
        <3>3. CASE r \notin alive \ unread
            <4>1. r \notin alive \ refused
                BY <1>3, <3>3
            <4> QED
                BY <1>3, <2>1, <3>1, <3>3, <4>1 DEF SoloStarts
        <3> QED
            BY <3>2, <3>3
    <2> QED
        BY <1>3, <2>2, <2>3 DEF SoloStarts, Solos, streams
<1>4. CASE \E app \in Soloed : Solo(app)
    BY <1>2, <1>3, <1>4 DEF Solo
<1>5. CASE \E r \in Ref : Appears(r) \/ Exits(r)
    BY <1>5 DEF Appears, Exits, mutes
<1>6. CASE \E r \in Ref, p \in Percent : Moves(r, p)
    BY <1>6 DEF Moves, OutsideActs, streams, mutes
<1>7. CASE \E r \in Ref, m \in BOOLEAN : Mutes(r, m)
    BY <1>7 DEF Mutes, OutsideActs, streams, TypeOK
<1>8. CASE \E c \in Control : Duck(c)
    BY <1>8 DEF Duck, DuckHold, DuckRelease, DucksOnly, streams, mutes
<1> QED
    BY <1>1, <1>4, <1>5, <1>6, <1>7, <1>8 DEF Next

(* mix.go, executeSolo: however solos of one target follow those of        *)
(* another and whatever fails while one begins, a stream no solo holds is  *)
(* as its user left it.                                                    *)
THEOREM SoloPutsBack == Spec => []SoloRestores
<1>1. Init => SoloKeeps
    BY NothingIsPrior DEF Init, SoloKeeps, NoSolo
<1>2. TypeOK /\ SoloKeeps => SoloRestores
    <2> SUFFICES ASSUME TypeOK, SoloKeeps, NEW r \in alive \ spoiledMuted,
                        r \notin DOMAIN solo.prior
                 PROVE  muted[r] = ownMuted[r]
        BY DEF SoloRestores
    <2> QED
        BY DEF SoloKeeps, TypeOK
<1> QED
    BY <1>1, <1>2, SoloStep, SessionsTypeCorrect, PTL DEF Spec

-----------------------------------------------------------------------------
(* Duck *)

(* What DuckRestores rests on: at most one duck holds a stream, that duck  *)
(* has its own level, and a stream no duck holds is at that level.         *)
DuckKeeps ==
    /\ alive \cap gone = {}
    /\ \A c \in Control : DOMAIN ducks[c] \subseteq alive \cup gone
    /\ \A r \in Ref \ (gone \cup spoiledPercent) :
          /\ DucksOf(r) = {} => percent[r] = ownPercent[r]
          /\ \A c \in DucksOf(r) : ducks[c][r] = ownPercent[r]
          /\ \A c, d \in DucksOf(r) : c = d

LEMMA HoldStep ==
    ASSUME TypeOK, DuckKeeps, NEW c \in Control, NEW refused, NEW unread,
           DuckHold(c, refused, unread)
    PROVE  DuckKeeps'
<1> DEFINE lowered == Duckable(c, unread)
<1>1. lowered \subseteq alive
    BY DEF Duckable, Others
<1>2. /\ ducks'[c] = [r \in lowered |-> percent[r]]
      /\ \A d \in Control \ {c} : ducks'[d] = ducks[d]
    BY DEF DuckHold, Found, TypeOK
<1>3. \A d \in Control : DOMAIN ducks'[d] \subseteq (alive \cup gone)'
    BY <1>1, <1>2 DEF DuckHold, DucksOnly, streams, DuckKeeps
<1>4. ASSUME NEW r \in Ref \ (gone \cup spoiledPercent)'
      PROVE  /\ DucksOf(r)' = {} => percent'[r] = ownPercent'[r]
             /\ \A d \in DucksOf(r)' : ducks'[d][r] = ownPercent'[r]
             /\ \A d, e \in DucksOf(r)' : d = e
    <2>1. r \in Ref \ (gone \cup spoiledPercent)
        BY <1>4 DEF DuckHold, DucksOnly, streams
    <2>2. ownPercent' = ownPercent
        BY DEF DuckHold, DucksOnly
    <2>3. CASE r \in lowered
        <3>1. DucksOf(r) = {}
            BY <1>4, <2>3 DEF DuckHold
        <3>2. DucksOf(r)' = {c}
            <4>1. c \in DucksOf(r)'
                BY <1>2, <2>3 DEF DucksOf, DuckHold
            <4>2. \A d \in DucksOf(r)' : d = c
                BY <1>2, <3>1 DEF DucksOf, DuckHold, TypeOK
            <4> QED
                BY <4>1, <4>2
        <3> QED
            BY <1>2, <2>1, <2>2, <2>3, <3>1, <3>2 DEF DuckKeeps
    <2>4. CASE r \notin lowered
        <3>1. DucksOf(r)' = DucksOf(r) /\ c \notin DucksOf(r)
            BY <1>2, <2>4 DEF DucksOf, DuckHold, TypeOK
        <3>2. percent'[r] = percent[r]
            BY <1>4, <2>4 DEF DuckHold
        <3>3. \A d \in DucksOf(r) : ducks'[d] = ducks[d]
            BY <1>2, <3>1 DEF DucksOf, TypeOK
        <3> QED
            BY <2>1, <2>2, <3>1, <3>2, <3>3 DEF DuckKeeps
    <2> QED
        BY <2>3, <2>4
<1>5. (alive \cap gone)' = {}
    BY DEF DuckHold, DucksOnly, streams, DuckKeeps
<1> QED
    BY <1>3, <1>4, <1>5 DEF DuckKeeps

LEMMA ReleaseStep ==
    ASSUME TypeOK, DuckKeeps, NEW c \in Control, NEW failed, DuckRelease(c, failed)
    PROVE  DuckKeeps'
<1>1. /\ DOMAIN ducks'[c] = {}
      /\ \A d \in Control \ {c} : ducks'[d] = ducks[d]
    BY NothingIsPrior DEF DuckRelease, TypeOK
<1>2. \A d \in Control : DOMAIN ducks'[d] \subseteq (alive \cup gone)'
    BY <1>1 DEF DuckRelease, DucksOnly, streams, DuckKeeps
<1>3. ASSUME NEW r \in Ref \ (gone \cup spoiledPercent)'
      PROVE  /\ DucksOf(r)' = {} => percent'[r] = ownPercent'[r]
             /\ \A d \in DucksOf(r)' : ducks'[d][r] = ownPercent'[r]
             /\ \A d, e \in DucksOf(r)' : d = e
    <2>1. r \in Ref \ (gone \cup spoiledPercent)
        BY <1>3 DEF DuckRelease, DucksOnly, streams
    <2>2. ownPercent' = ownPercent
        BY DEF DuckRelease, DucksOnly
    <2>3. DucksOf(r)' = DucksOf(r) \ {c}
        BY <1>1 DEF DucksOf, DuckRelease, TypeOK
    <2>4. CASE c \in DucksOf(r)
        <3>1. r \in DOMAIN ducks[c] \cap (alive \ failed)
            BY <1>3, <2>1, <2>4 DEF DucksOf, DuckRelease, DuckKeeps
        <3>2. percent'[r] = ownPercent[r]
            BY <1>3, <2>1, <2>4, <3>1 DEF DuckRelease, DuckKeeps
        <3>3. DucksOf(r)' = {}
            BY <2>1, <2>3, <2>4 DEF DuckKeeps
        <3> QED
            BY <2>2, <3>2, <3>3
    <2>5. CASE c \notin DucksOf(r)
        <3>1. r \notin DOMAIN ducks[c]
            BY <2>5 DEF DucksOf, DuckRelease
        <3>2. percent'[r] = percent[r]
            BY <1>3, <3>1 DEF DuckRelease
        <3>3. \A d \in DucksOf(r) : ducks'[d] = ducks[d]
            BY <1>1, <2>5 DEF DucksOf, TypeOK
        <3> QED
            BY <2>1, <2>2, <2>3, <2>5, <3>2, <3>3 DEF DuckKeeps
    <2> QED
        BY <2>4, <2>5
<1>4. (alive \cap gone)' = {}
    BY DEF DuckRelease, DucksOnly, streams, DuckKeeps
<1> QED
    BY <1>2, <1>3, <1>4 DEF DuckKeeps

LEMMA DuckStep == TypeOK /\ DuckKeeps /\ [Next]_vars => DuckKeeps'
<1> SUFFICES ASSUME TypeOK, DuckKeeps, [Next]_vars PROVE DuckKeeps'
    OBVIOUS
<1>1. CASE UNCHANGED vars
    BY <1>1 DEF vars, streams, volumes, DuckKeeps, DucksOf
<1>2. CASE \E c \in Control : Duck(c)
    BY <1>2, HoldStep, ReleaseStep DEF Duck
<1>3. CASE \E app \in Soloed : Solo(app)
    <2>1. UNCHANGED <<streams, volumes>>
        BY <1>3 DEF Solo, SoloEnds, SoloStarts, Solos
    <2> QED
        BY <2>1 DEF streams, volumes, DuckKeeps, DucksOf
<1>4. CASE \E r \in Ref : Appears(r) \/ Exits(r)
    BY <1>4 DEF Appears, Exits, volumes, DuckKeeps, DucksOf
<1>5. ASSUME NEW r \in Ref, NEW p \in Percent, Moves(r, p) PROVE DuckKeeps'
    <2>1. \A x \in Ref : DucksOf(x)' = DucksOf(x)
        BY <1>5 DEF Moves, DucksOf
    <2>2. UNCHANGED <<alive, gone, ducks>>
        BY <1>5 DEF Moves, OutsideActs, streams
    <2>3. \A x \in Ref \ {r} : percent'[x] = percent[x] /\ ownPercent'[x] = ownPercent[x]
        BY <1>5 DEF Moves, TypeOK
    <2>4. percent'[r] = p /\ ownPercent'[r] = p
        BY <1>5 DEF Moves, TypeOK
    <2>5. DucksOf(r) # {} => r \in spoiledPercent'
        BY <1>5 DEF Moves
    <2>6. spoiledPercent \subseteq spoiledPercent'
        BY <1>5 DEF Moves
    <2> QED
        BY <2>1, <2>2, <2>3, <2>4, <2>5, <2>6 DEF DuckKeeps
<1>6. CASE \E r \in Ref, m \in BOOLEAN : Mutes(r, m)
    BY <1>6 DEF Mutes, OutsideActs, streams, volumes, DuckKeeps, DucksOf
<1> QED
    BY <1>1, <1>2, <1>3, <1>4, <1>5, <1>6 DEF Next

(* mix.go, executeDuck: a stream no duck holds is at the level its user    *)
(* gave it, whatever fails while a duck begins, unless two ducks held it   *)
(* at once, its user moved it under a duck or putting it back failed.      *)
THEOREM DuckPutsBack == Spec => []DuckRestores
<1>1. Init => DuckKeeps
    BY NothingIsPrior DEF Init, DuckKeeps, DucksOf
<1>2. TypeOK /\ DuckKeeps => DuckRestores
    <2> SUFFICES ASSUME TypeOK, DuckKeeps, NEW r \in alive \ spoiledPercent,
                        DucksOf(r) = {}
                 PROVE  percent[r] = ownPercent[r]
        BY DEF DuckRestores
    <2>1. r \in Ref \ (gone \cup spoiledPercent)
        BY DEF DuckKeeps, TypeOK
    <2> QED
        BY <2>1 DEF DuckKeeps
<1> QED
    BY <1>1, <1>2, DuckStep, SessionsTypeCorrect, PTL DEF Spec
=============================================================================
