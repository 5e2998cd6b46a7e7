---------------------------- MODULE Levels_proofs ----------------------------
(***************************************************************************)
(* The level cache, for any streams, any depth of the subscriber's channel *)
(* and any number of handlers and of changes by others.                    *)
(***************************************************************************)
EXTENDS Levels, SequenceTheorems, TLAPS

(* The stages in which the handler has a ref in hand, those in which it    *)
(* goes by the state it read of it, and the survey of a mute toggle.       *)
HandStages == {"seed", "surveyed", "unmute", "unmuted", "write", "writing", "written", "mute",
               "setmute", "muted"}

InHand(r) == call.ref = r /\ call.at \in HandStages

Surveying == /\ call.op = "toggle"
             /\ call.at \in {"survey", "surveyed"} \/ (call.at = "seed" /\ call.then = "surveyed")

(* Which handler comes through which stage, and with what.                 *)
Shape ==
    /\ call.todo \subseteq call.refs
    /\ call.at = "idle" => call.refs = {}
    /\ call.at \in HandStages => call.ref \in call.todo
    /\ call.at \in {"survey", "surveyed"} => call.op = "toggle"
    /\ call.at \in {"unmute", "unmuted"} => call.op \in {"adjust", "set"}
    /\ call.at \in {"write", "writing", "written"} => call.op # "toggle"
    /\ call.at = "mute" => call.op = "apply"
    /\ call.at \in {"setmute", "muted"} => call.op \in {"toggle", "apply"}
    /\ call.at = "seed" => \/ call.then = "surveyed" /\ call.op = "toggle"
                           \/ call.then = "unmute" /\ call.op \in {"adjust", "set"}
                           \/ call.then = "setmute" /\ call.op \in {"toggle", "apply"}
    /\ call.at \in {"seed", "surveyed", "unmute", "unmuted", "setmute", "muted"}
          => call.seen \in Level
    /\ call.at \in {"write", "writing", "written"} /\ call.op # "apply" => call.seen \in Level
    /\ call.at \in {"unmute", "unmuted", "surveyed", "mute", "setmute", "muted"}
          => cache[call.ref] # Unknown
    /\ call.at \in {"write", "writing", "written"} /\ call.op # "apply"
          => cache[call.ref] # Unknown

(* A mute toggle knows the refs it has surveyed. *)
Knows == call.op = "toggle" =>
    /\ Surveying => call.audible \subseteq call.refs \ call.todo
    /\ \A r \in call.refs : ~Surveying \/ r \notin call.todo => cache[r] # Unknown

(* Only a ref in hand has a write in flight. *)
Flights == \A r \in Ref :
    inFlight[r] = IF call.at \in {"writing", "written"} /\ call.ref = r THEN 1 ELSE 0

Typed == TypeOK /\ Shape /\ Knows /\ Flights

-----------------------------------------------------------------------------
(* Levels *)

LEMMA UnknownIsNoLevel == Unknown \notin Level
  BY LevelsAssumption DEF Unknown, Level, Percent

LEMMA ClampedIsPercent == ASSUME NEW p \in Int PROVE Clamped(p) \in Percent
  BY LevelsAssumption DEF Clamped, Percent

LEMMA TargetIsPercent ==
    ASSUME call \in Call, call.op # "adjust" \/ call.seen \in Level
    PROVE  Target \in Percent
  <1>1. call.op = "adjust" => call.seen.percent \in Int
    BY DEF Level, Percent
  <1>2. call.arg \in Int
    BY DEF Call
  <1> QED
    BY <1>1, <1>2, ClampedIsPercent DEF Target

LEMMA LevelFields ==
    ASSUME NEW l \in Level
    PROVE  /\ l.percent \in Percent /\ l.muted \in BOOLEAN
           /\ \A m \in BOOLEAN : [l EXCEPT !.muted = m] = [percent |-> l.percent, muted |-> m]
           /\ \A p \in Percent : [l EXCEPT !.percent = p] = [percent |-> p, muted |-> l.muted]
           /\ \A m \in BOOLEAN : [l EXCEPT !.muted = m] \in Level
           /\ \A p \in Percent : [l EXCEPT !.percent = p] \in Level
           /\ \A k \in Level : k.percent = l.percent /\ k.muted = l.muted => k = l
  BY DEF Level

LEMMA PercentOfUnknown ==
    ASSUME NEW p \in Percent
    PROVE  [Unknown EXCEPT !.percent = p] \in Level
  BY DEF Unknown, Level

-----------------------------------------------------------------------------
(* The call *)

(* What the handler does to the call it runs. *)
LEMMA CallSteps ==
    ASSUME call \in Call
    PROVE  /\ NoCall \in Call
           /\ \A s \in Stage : [call EXCEPT !.at = s] \in Call
           /\ \A r \in Ref : Drops(r) \in Call
           /\ \A s \in Stage, r \in Ref : [Drops(r) EXCEPT !.at = s] \in Call
           /\ \A s, t \in Stage, r \in Ref, l \in Level :
                /\ [call EXCEPT !.ref = r, !.at = s, !.seen = l] \in Call
                /\ [call EXCEPT !.ref = r, !.at = s, !.then = t, !.seen = l] \in Call
           /\ \A s \in Stage, r \in Ref : [call EXCEPT !.ref = r, !.at = s] \in Call
           /\ \A s \in Stage, k \in BOOLEAN : [call EXCEPT !.at = s, !.ok = k] \in Call
           /\ \A s \in Stage, r \in Ref, k \in BOOLEAN :
                 [Drops(r) EXCEPT !.at = s, !.ok = k] \in Call
  <1>1. NoCall \in Call
    BY DEF Call, NoCall, Op, Stage
  <1>2. \A r \in Ref : Drops(r) \in Call
    BY DEF Call, Drops, Stage
  <1>3. \A c \in Call, s \in Stage : [c EXCEPT !.at = s] \in Call
    BY DEF Call
  <1>4. \A s, t \in Stage, r \in Ref, l \in Level :
           /\ [call EXCEPT !.ref = r, !.at = s, !.seen = l] \in Call
           /\ [call EXCEPT !.ref = r, !.at = s, !.then = t, !.seen = l] \in Call
    BY DEF Call
  <1>5. /\ \A s \in Stage, r \in Ref : [call EXCEPT !.ref = r, !.at = s] \in Call
        /\ \A c \in Call, s \in Stage, k \in BOOLEAN : [c EXCEPT !.at = s, !.ok = k] \in Call
    BY DEF Call
  <1> QED
    BY <1>1, <1>2, <1>3, <1>4, <1>5

-----------------------------------------------------------------------------
(* Types *)

AudioEvent == [ref : Ref, state : Level]

QueuesTyped ==
    /\ level \in [Ref -> Level]
    /\ notes \in Seq(Ref)
    /\ feed \in Seq(AudioEvent)
    /\ calls \in 0..MaxCalls
    /\ outside \in 0..MaxOutside
    /\ disturbed \in SUBSET Ref

HandlerTyped ==
    /\ cache \in [Ref -> Level \cup {Unknown}]
    /\ inFlight \in [Ref -> 0..1]
    /\ call \in Call

LEMMA TypedParts == Typed <=> QueuesTyped /\ HandlerTyped /\ Shape /\ Knows /\ Flights
  BY DEF Typed, TypeOK, QueuesTyped, HandlerTyped, AudioEvent

LEMMA SetsTyped ==
    ASSUME QueuesTyped, NEW r \in Ref, NEW l \in Level, Sets(r, l)
    PROVE  level' \in [Ref -> Level] /\ notes' \in Seq(Ref)
  BY DEF QueuesTyped, Sets

LEMMA InitTyped == Init => Typed
  <1> SUFFICES ASSUME Init PROVE QueuesTyped /\ HandlerTyped /\ Shape /\ Knows /\ Flights
    BY TypedParts
  <1>1. QueuesTyped
    BY LevelsAssumption DEF Init, QueuesTyped
  <1>2. NoCall \in Call
    BY DEF NoCall, Call, Op, Stage
  <1>3. HandlerTyped
    BY <1>2 DEF Init, HandlerTyped
  <1> QED
    BY <1>1, <1>3 DEF Init, NoCall, Shape, Knows, Flights, Surveying, HandStages

(* The server and the event path. *)
LEMMA EventsTyped ==
    Typed /\ (Fetch \/ ObserveState \/ \E r \in Ref, l \in Level : Outside(r, l)) => Typed'
  <1> SUFFICES ASSUME QueuesTyped, HandlerTyped, Shape, Knows, Flights,
                      Fetch \/ ObserveState \/ \E r \in Ref, l \in Level : Outside(r, l)
               PROVE  QueuesTyped' /\ HandlerTyped' /\ Shape' /\ Knows' /\ Flights'
    BY TypedParts, PTL
  <1>1. CASE Fetch
    <2> DEFINE event == [ref |-> Head(notes), state |-> level[Head(notes)]]
    <2>1. Head(notes) \in Ref /\ notes' \in Seq(Ref)
      BY <1>1 DEF Fetch, QueuesTyped
    <2>2. level[Head(notes)] \in Level
      BY <2>1 DEF QueuesTyped
    <2>3. event \in AudioEvent
      BY <2>1, <2>2 DEF AudioEvent
    <2>4. /\ feed' \in {feed, Append(feed, event)}
          /\ disturbed' \in {disturbed, disturbed \cup {Head(notes)}}
      BY <1>1 DEF Fetch
    <2> HIDE DEF event
    <2>5. feed \in Seq(AudioEvent) /\ disturbed \subseteq Ref
      BY DEF QueuesTyped
    <2>6. Append(feed, event) \in Seq(AudioEvent)
      BY <2>3, <2>5, AppendProperties
    <2>7. feed' \in Seq(AudioEvent) /\ disturbed' \in SUBSET Ref
      BY <2>1, <2>4, <2>5, <2>6
    <2> QED
      BY <1>1, <2>1, <2>7 DEF Fetch, QueuesTyped, HandlerTyped, Shape, Knows, Flights, Surveying,
                              InHand
  <1>2. CASE ObserveState
    <2>1. Head(feed) \in AudioEvent /\ feed' \in Seq(AudioEvent)
      BY <1>2, HeadTailProperties DEF ObserveState, QueuesTyped
    <2>2. cache' \in [Ref -> Level \cup {Unknown}]
          /\ \A r \in Ref : cache[r] # Unknown => cache'[r] # Unknown
      BY <1>2, <2>1, UnknownIsNoLevel DEF ObserveState, HandlerTyped, AudioEvent
    <2>3. call.todo \subseteq Ref /\ call.refs \subseteq Ref
      BY DEF HandlerTyped, Call
    <2>4. Shape'
      BY <1>2, <2>2, <2>3 DEF ObserveState, Shape, HandStages
    <2>5. Knows'
      BY <1>2, <2>2, <2>3 DEF ObserveState, Knows, Surveying
    <2> QED
      BY <1>2, <2>1, <2>2, <2>4, <2>5 DEF ObserveState, QueuesTyped, HandlerTyped, Flights
  <1>3. ASSUME NEW r \in Ref, NEW l \in Level, Outside(r, l)
        PROVE  QueuesTyped' /\ HandlerTyped' /\ Shape' /\ Knows' /\ Flights'
    <2>1. level' \in [Ref -> Level] /\ notes' \in Seq(Ref)
      BY <1>3, SetsTyped DEF Outside
    <2>2. outside' \in 0..MaxOutside
      BY <1>3, LevelsAssumption DEF Outside, QueuesTyped
    <2> QED
      BY <1>3, <2>1, <2>2 DEF Outside, QueuesTyped, HandlerTyped, Shape, Knows, Flights, Surveying
  <1> QED
    BY <1>1, <1>2, <1>3

(* The handler writes to the server, if at all, the stream in hand. *)
LEMMA HandlerQueues ==
    ASSUME Typed, Handler
    PROVE  QueuesTyped'
  <1> USE TypedParts
  <1>1. /\ call \in Call /\ QueuesTyped
        /\ call.at \in HandStages => call.ref \in Ref /\ level[call.ref] \in Level
    BY DEF HandlerTyped, QueuesTyped, Shape, Call
  <1>2. call.at \in {"unmute", "writing", "setmute"} =>
           /\ [level[call.ref] EXCEPT !.muted = FALSE] \in Level
           /\ [level[call.ref] EXCEPT !.muted = call.mute] \in Level
    BY <1>1, LevelFields DEF HandStages, Call
  <1>3. call.at = "writing" => [level[call.ref] EXCEPT !.percent = Target] \in Level
    BY <1>1, LevelFields, TargetIsPercent DEF HandStages, Shape
  <1>4. SUFFICES /\ level' \in [Ref -> Level] /\ notes' \in Seq(Ref)
                 /\ UNCHANGED <<feed, calls, outside>> /\ disturbed' \in SUBSET Ref
    BY <1>1 DEF QueuesTyped
  <1>5. ASSUME NEW r \in Ref, NEW then, GetCached(r, then) PROVE UNCHANGED <<level, notes>>
    BY <1>5 DEF GetCached
  <1>6. CASE \E r \in Ref : Survey(r) \/ Read(r)
    BY <1>1, <1>5, <1>6 DEF Survey, Read, At, Reaches, QueuesTyped
  <1>7. CASE ReadBeforeMute
    BY <1>1, <1>5, <1>7 DEF ReadBeforeMute, At, Reaches, QueuesTyped, HandStages
  <1>8. CASE Seed \/ Surveyed \/ Decide \/ Unmuted \/ StartWrite \/ Written \/ Muted \/ Return
    BY <1>1, <1>8 DEF Seed, Surveyed, Decide, Unmuted, StartWrite, Written, Muted, Return, At,
                      Reaches, QueuesTyped
  <1>9. CASE Unmute
    BY <1>1, <1>2, <1>9, SetsTyped DEF Unmute, At, Reaches, QueuesTyped, HandStages
  <1>10. CASE SetVolume
    BY <1>1, <1>3, <1>10, SetsTyped DEF SetVolume, At, Reaches, QueuesTyped, HandStages
  <1>11. CASE SetMute
    BY <1>1, <1>2, <1>11, SetsTyped DEF SetMute, At, Reaches, QueuesTyped, HandStages
  <1> QED
    BY <1>6, <1>7, <1>8, <1>9, <1>10, <1>11 DEF Handler

LEMMA GetCachedTyped ==
    ASSUME Typed, NEW r \in Ref, NEW then, r \in call.todo, GetCached(r, then),
           \/ call.at = "survey" /\ then = "surveyed"
           \/ call.at = "next" /\ then = "unmute" /\ call.op \in {"adjust", "set"}
           \/ call.at = "next" /\ then = "setmute" /\ call.op = "toggle"
           \/ call.at = "mute" /\ then = "setmute" /\ r = call.ref
    PROVE  HandlerTyped' /\ Shape' /\ Knows' /\ Flights'
  <1> USE TypedParts
  <1>1. /\ call \in Call /\ then \in Stage
        /\ cache[r] # Unknown => cache[r] \in Level
        /\ level[r] \in Level
    BY DEF HandlerTyped, QueuesTyped, Stage
  <1>2. UNCHANGED <<cache, inFlight>>
    BY DEF GetCached
  <1>3. CASE /\ cache[r] # Unknown
             /\ call' = [call EXCEPT !.ref = r, !.at = then, !.seen = cache[r]]
    <2>1. call' \in Call
      BY <1>1, <1>3, CallSteps
    <2>2. Shape'
      BY <1>1, <1>2, <1>3 DEF Shape, HandStages, Call
    <2>3. Knows' /\ Flights'
      BY <1>1, <1>2, <1>3 DEF Shape, Knows, Surveying, Flights, Call
    <2> QED
      BY <1>2, <2>1, <2>2, <2>3 DEF HandlerTyped
  <1>4. CASE call' = [call EXCEPT !.ref = r, !.at = "seed", !.then = then, !.seen = level[r]]
    <2>1. call' \in Call
      BY <1>1, <1>4, CallSteps DEF Stage
    <2>2. Shape'
      BY <1>1, <1>2, <1>4 DEF Shape, HandStages, Call
    <2>3. Knows' /\ Flights'
      BY <1>1, <1>2, <1>4 DEF Shape, Knows, Surveying, Flights, Call
    <2> QED
      BY <1>2, <2>1, <2>2, <2>3 DEF HandlerTyped
  <1>5. CASE then = "surveyed" /\ call' = NoCall
    BY <1>1, <1>2, <1>5, CallSteps
    DEF HandlerTyped, Shape, Knows, Surveying, Flights, NoCall, HandStages
  <1>6. CASE then # "surveyed" /\ call' = [Drops(r) EXCEPT !.at = "next"]
    <2>1. call' \in Call
      BY <1>1, <1>6, CallSteps DEF Stage
    <2>2. Shape'
      BY <1>1, <1>2, <1>6 DEF Shape, HandStages, Call, Drops
    <2>3. Knows' /\ Flights'
      BY <1>1, <1>2, <1>6 DEF Shape, Knows, Surveying, Flights, Call, Drops
    <2> QED
      BY <1>2, <2>1, <2>2, <2>3 DEF HandlerTyped
  <1> QED
    BY <1>3, <1>4, <1>5, <1>6 DEF GetCached

(* A step that commits what the cache has of the ref in hand. *)
LEMMA CommitsCache ==
    ASSUME HandlerTyped, NEW r \in Ref, NEW l \in Level, cache' = [cache EXCEPT ![r] = l]
    PROVE  /\ cache' \in [Ref -> Level \cup {Unknown}] /\ cache'[r] = l /\ cache'[r] # Unknown
           /\ \A s \in Ref : cache[s] # Unknown => cache'[s] # Unknown
           /\ \A s \in Ref \ {r} : cache'[s] = cache[s]
  BY UnknownIsNoLevel DEF HandlerTyped

LEMMA HandlerSteps ==
    ASSUME Typed, Handler
    PROVE  HandlerTyped' /\ Shape' /\ Knows' /\ Flights'
  <1> USE TypedParts
  <1>1. /\ call \in Call /\ HandlerTyped /\ Shape /\ Knows /\ Flights
        /\ call.refs \subseteq Ref /\ call.todo \subseteq Ref
        /\ call.at \in HandStages => call.ref \in Ref
    BY DEF HandlerTyped, Shape, Call
  <1>2. ASSUME NEW r \in Ref, Survey(r) PROVE HandlerTyped' /\ Shape' /\ Knows' /\ Flights'
    BY <1>2, GetCachedTyped DEF Survey, At, Reaches
  <1>3. ASSUME NEW r \in Ref, Read(r) PROVE HandlerTyped' /\ Shape' /\ Knows' /\ Flights'
    <2>1. CASE call.op # "apply"
      BY <1>3, <2>1, GetCachedTyped DEF Read, At, Reaches
    <2>2. CASE call.op = "apply"
      <3>1. call' = [call EXCEPT !.ref = r, !.at = "write"] /\ UNCHANGED <<cache, inFlight>>
            /\ r \in call.todo /\ call.at = "next"
        BY <1>3, <2>2 DEF Read, At, Reaches
      <3>2. call' \in Call
        BY <1>1, <3>1, CallSteps DEF Stage
      <3> QED
        BY <1>1, <2>2, <3>1, <3>2
        DEF HandlerTyped, Shape, Knows, Surveying, Flights, HandStages, Call
    <2> QED
      BY <2>1, <2>2
  <1>4. CASE ReadBeforeMute
    BY <1>1, <1>4, GetCachedTyped DEF ReadBeforeMute, At, Reaches, Shape, HandStages
  <1>5. CASE Seed
    <2>1. call.at = "seed" /\ call.seen \in Level /\ call.ref \in Ref /\ call.then \in Stage
          /\ call' = [call EXCEPT !.at = call.then] /\ UNCHANGED inFlight
          /\ cache' = [cache EXCEPT ![call.ref] = call.seen]
      BY <1>1, <1>5 DEF Seed, At, Reaches, Goes, Shape, HandStages, Call
    <2>2. call' \in Call
      BY <1>1, <2>1, CallSteps
    <2>3. /\ cache' \in [Ref -> Level \cup {Unknown}] /\ cache'[call.ref] # Unknown
          /\ \A s \in Ref : cache[s] # Unknown => cache'[s] # Unknown
      BY <1>1, <2>1, CommitsCache
    <2>4. Shape'
      BY <1>1, <2>1, <2>3 DEF Shape, HandStages, Call
    <2>5. Knows' /\ Flights'
      BY <1>1, <2>1, <2>3 DEF Shape, Knows, Surveying, Flights, Call
    <2> QED
      BY <1>1, <2>1, <2>2, <2>3, <2>4, <2>5 DEF HandlerTyped
  <1>6. CASE Surveyed
    <2>1. call' = [Drops(call.ref) EXCEPT
                     !.at = "survey",
                     !.audible = IF call.seen.muted THEN @ ELSE @ \cup {call.ref}]
          /\ call.at = "surveyed" /\ UNCHANGED <<cache, inFlight>> /\ call.ref \in call.todo
      BY <1>1, <1>6 DEF Surveyed, At, Reaches, Shape, HandStages
    <2>2. call' \in Call
      BY <1>1, <2>1 DEF Drops, Call, Stage
    <2> QED
      BY <1>1, <2>1, <2>2
      DEF Drops, HandlerTyped, Shape, Knows, Surveying, Flights, HandStages, Call
  <1>7. CASE Decide
    <2>1. call' = [call EXCEPT !.at = "next", !.mute = call.audible # {},
                               !.todo = IF call.audible # {} THEN call.audible ELSE call.refs]
          /\ call.at = "survey" /\ UNCHANGED <<cache, inFlight>> /\ call.todo = {}
          /\ call.op = "toggle"
      BY <1>1, <1>7 DEF Decide, At, Reaches, Shape
    <2>2. call' \in Call
      BY <1>1, <2>1 DEF Call, Stage
    <2>3. call.audible \subseteq call.refs
      BY <1>1, <2>1 DEF Knows, Surveying
    <2> QED
      BY <1>1, <2>1, <2>2, <2>3
      DEF HandlerTyped, Shape, Knows, Surveying, Flights, HandStages, Call
  <1>8. ASSUME NEW s \in Stage, call.ref \in call.todo, call' = [call EXCEPT !.at = s],
               \/ call.at = "unmute" /\ s \in {"write", "unmuted"}
               \/ call.at = "setmute" /\ s = "muted",
               UNCHANGED <<cache, inFlight>>
        PROVE  HandlerTyped' /\ Shape' /\ Knows' /\ Flights'
    <2>1. call' \in Call
      BY <1>1, <1>8, CallSteps
    <2>2. Shape'
      BY <1>1, <1>8 DEF Shape, HandStages, Call
    <2>3. Knows' /\ Flights'
      BY <1>1, <1>8 DEF Shape, Knows, Surveying, Flights, Call
    <2> QED
      BY <1>1, <1>8, <2>1, <2>2, <2>3 DEF HandlerTyped
  <1>9. ASSUME call.at \in {"unmute", "setmute", "written", "muted"},
               GoesOn \/ call' = [Drops(call.ref) EXCEPT !.at = "next", !.ok = FALSE],
               cache' \in [Ref -> Level \cup {Unknown}], inFlight' \in [Ref -> 0..1],
               \A r \in Ref : cache[r] # Unknown => cache'[r] # Unknown,
               \A r \in Ref : inFlight'[r] = 0
        PROVE  HandlerTyped' /\ Shape' /\ Knows' /\ Flights'
    <2>1. call' \in Call /\ call'.op = call.op /\ call'.refs = call.refs /\ call'.at = "next"
          /\ call'.todo = call.todo \ {call.ref}
      <3>1. call' \in Call
        <4>1. call.ref \in Ref /\ "next" \in Stage
          BY <1>1, <1>9 DEF Stage, HandStages
        <4>2. /\ [Drops(call.ref) EXCEPT !.at = "next"] \in Call
              /\ [Drops(call.ref) EXCEPT !.at = "next", !.ok = FALSE] \in Call
          BY <1>1, <4>1, CallSteps
        <4> QED
          BY <1>9, <4>2 DEF GoesOn
      <3>2. CASE GoesOn
        BY <1>1, <3>1, <3>2 DEF Call, Drops, GoesOn
      <3>3. CASE call' = [Drops(call.ref) EXCEPT !.at = "next", !.ok = FALSE]
        BY <1>1, <3>1, <3>3 DEF Call, Drops
      <3> QED
        BY <1>9, <3>1, <3>2, <3>3
    <2>2. call.op = "toggle" => ~Surveying /\ call.ref \in call.todo
                               /\ cache[call.ref] # Unknown
      BY <1>1, <1>9 DEF Surveying, Shape, HandStages
    <2>3. Shape'
      BY <1>1, <2>1 DEF Shape, HandStages
    <2>4. Knows'
      BY <1>1, <1>9, <2>1, <2>2 DEF Knows, Surveying
    <2> QED
      BY <1>9, <2>1, <2>3, <2>4 DEF HandlerTyped, Flights
  <1>10. \A r \in Ref : call.at \notin {"writing", "written"} => inFlight[r] = 0
    BY <1>1 DEF Flights
  <1>11. CASE Unmute \/ SetMute
    <2>1. call.ref \in Ref /\ call.ref \in call.todo /\ UNCHANGED <<cache, inFlight>>
          /\ "write" \in Stage /\ "unmuted" \in Stage /\ "muted" \in Stage
      BY <1>1, <1>11 DEF Unmute, SetMute, At, Reaches, Shape, HandStages, Stage
    <2>2. CASE Unmute
      BY <1>1, <1>8, <1>9, <1>10, <2>1, <2>2 DEF Unmute, At, Reaches, Goes, HandlerTyped
    <2>3. CASE SetMute
      BY <1>1, <1>8, <1>9, <1>10, <2>1, <2>3 DEF SetMute, Reaches, Goes, HandlerTyped
    <2> QED
      BY <1>11, <2>2, <2>3
  <1>12. CASE Unmuted
    <2>1. call.at = "unmuted" /\ call.ref \in Ref /\ call.ref \in call.todo
          /\ call.seen \in Level /\ call' = [call EXCEPT !.at = "write"] /\ UNCHANGED inFlight
          /\ cache' = [cache EXCEPT ![call.ref] = [call.seen EXCEPT !.muted = FALSE]]
      BY <1>1, <1>12 DEF Unmuted, At, Reaches, Goes, Shape, HandStages
    <2>2. [call.seen EXCEPT !.muted = FALSE] \in Level
      BY <2>1, LevelFields
    <2>3. call' \in Call
      BY <1>1, <2>1, CallSteps DEF Stage
    <2>4. /\ cache' \in [Ref -> Level \cup {Unknown}] /\ cache'[call.ref] # Unknown
          /\ \A s \in Ref : cache[s] # Unknown => cache'[s] # Unknown
      BY <1>1, <2>1, <2>2, CommitsCache
    <2>5. Shape'
      BY <1>1, <2>1, <2>4 DEF Shape, HandStages, Call
    <2>6. Knows' /\ Flights'
      BY <1>1, <2>1, <2>4 DEF Shape, Knows, Surveying, Flights, Call
    <2> QED
      BY <1>1, <2>1, <2>3, <2>4, <2>5, <2>6 DEF HandlerTyped
  <1>13. CASE StartWrite \/ SetVolume
    <2>1. /\ call.ref \in Ref /\ call.ref \in call.todo /\ UNCHANGED cache
          /\ \/ /\ call.at = "write" /\ call' = [call EXCEPT !.at = "writing"]
                /\ inFlight' = [inFlight EXCEPT ![call.ref] = @ + 1]
             \/ /\ call.at = "writing" /\ UNCHANGED inFlight
                /\ \E k \in BOOLEAN : call' = [call EXCEPT !.at = "written", !.ok = k]
      BY <1>1, <1>13 DEF StartWrite, SetVolume, At, Reaches, Goes, Shape, HandStages
    <2>2. call' \in Call
      BY <1>1, <2>1, CallSteps DEF Stage
    <2>3. inFlight' \in [Ref -> 0..1] /\ Flights'
      <3>1. CASE call.at = "write"
        <4>1. call'.at = "writing" /\ call'.ref = call.ref /\ inFlight[call.ref] = 0
              /\ inFlight' = [inFlight EXCEPT ![call.ref] = @ + 1]
          BY <1>1, <1>10, <2>1, <3>1 DEF Call
        <4>2. inFlight' = [inFlight EXCEPT ![call.ref] = 1]
          BY <4>1
        <4> QED
          BY <1>1, <1>10, <2>1, <3>1, <4>1, <4>2 DEF Flights, HandlerTyped
      <3>2. CASE call.at = "writing"
        <4>1. call'.at = "written" /\ call'.ref = call.ref /\ UNCHANGED inFlight
          BY <1>1, <2>1, <3>2 DEF Call
        <4> QED
          BY <1>1, <3>2, <4>1 DEF Flights, HandlerTyped
      <3> QED
        BY <2>1, <3>1, <3>2
    <2>4. Shape'
      BY <1>1, <2>1 DEF Shape, HandStages, Call
    <2>5. Knows'
      BY <1>1, <2>1 DEF Shape, Knows, Surveying, Call
    <2> QED
      BY <1>1, <2>1, <2>2, <2>3, <2>4, <2>5 DEF HandlerTyped
  <1>14. CASE Written
    <2>1. /\ call.at = "written" /\ call.ref \in Ref /\ call.ref \in call.todo
          /\ inFlight' = [inFlight EXCEPT ![call.ref] = @ - 1]
          /\ cache' = IF call.ok THEN [cache EXCEPT ![call.ref].percent = Target] ELSE cache
          /\ IF call.op = "apply" /\ call.ok THEN call' = [call EXCEPT !.at = "mute"] ELSE GoesOn
      BY <1>1, <1>14 DEF Written, At, Reaches, Goes, Shape, HandStages
    <2>2. Target \in Percent /\ cache[call.ref] \in Level \cup {Unknown}
      BY <1>1, <2>1, TargetIsPercent DEF Shape, HandlerTyped
    <2>3. [cache[call.ref] EXCEPT !.percent = Target] \in Level
      BY <2>2, LevelFields, PercentOfUnknown
    <2>4. inFlight' \in [Ref -> 0..1] /\ \A r \in Ref : inFlight'[r] = 0
      BY <1>1, <2>1 DEF Flights, HandlerTyped
    <2>5. /\ cache' \in [Ref -> Level \cup {Unknown}]
          /\ \A r \in Ref : cache[r] # Unknown => cache'[r] # Unknown
          /\ call.ok => cache'[call.ref] # Unknown
      <3>1. CASE call.ok
        <4>1. cache' = [cache EXCEPT ![call.ref] = [cache[call.ref] EXCEPT !.percent = Target]]
          BY <2>1, <3>1
        <4> DEFINE new == [cache[call.ref] EXCEPT !.percent = Target]
        <4>2. new \in Level /\ cache' = [cache EXCEPT ![call.ref] = new]
          BY <2>3, <4>1
        <4> HIDE DEF new
        <4> QED
          BY <1>1, <2>1, <4>2, CommitsCache
      <3>2. CASE ~call.ok
        BY <1>1, <2>1, <3>2 DEF HandlerTyped
      <3> QED
        BY <3>1, <3>2
    <2>6. CASE call.op = "apply" /\ call.ok
      <3>1. call' = [call EXCEPT !.at = "mute"] /\ call' \in Call
        BY <1>1, <2>1, <2>6, CallSteps DEF Stage
      <3> QED
        BY <1>1, <2>1, <2>4, <2>5, <2>6, <3>1
        DEF HandlerTyped, Shape, Knows, Surveying, Flights, HandStages, Call
    <2>7. CASE ~(call.op = "apply" /\ call.ok)
      BY <1>9, <2>1, <2>4, <2>5, <2>7
    <2> QED
      BY <2>6, <2>7
  <1>15. CASE Muted
    <2>1. call.at = "muted" /\ call.ref \in Ref /\ call.seen \in Level /\ call.mute \in BOOLEAN
          /\ GoesOn /\ UNCHANGED inFlight
          /\ cache' = [cache EXCEPT ![call.ref] = [call.seen EXCEPT !.muted = call.mute]]
      BY <1>1, <1>15 DEF Muted, At, Reaches, Shape, HandStages, Call
    <2>2. [call.seen EXCEPT !.muted = call.mute] \in Level
      BY <2>1, LevelFields
    <2>3. /\ cache' \in [Ref -> Level \cup {Unknown}]
          /\ \A s \in Ref : cache[s] # Unknown => cache'[s] # Unknown
      BY <1>1, <2>1, <2>2, CommitsCache
    <2> QED
      BY <1>1, <1>9, <1>10, <2>1, <2>3 DEF HandlerTyped
  <1>16. CASE Return
    BY <1>1, <1>10, <1>16, CallSteps
    DEF Return, At, Reaches, HandlerTyped, Shape, Knows, Surveying, Flights, NoCall, HandStages
  <1> QED
    BY <1>2, <1>3, <1>4, <1>5, <1>6, <1>7, <1>11, <1>12, <1>13, <1>14, <1>15, <1>16 DEF Handler

LEMMA InvokeTyped == Typed /\ Invoke => Typed'
  <1> SUFFICES ASSUME QueuesTyped, HandlerTyped, Shape, Knows, Flights, Invoke
               PROVE  QueuesTyped' /\ HandlerTyped' /\ Shape' /\ Knows' /\ Flights'
    BY TypedParts, PTL
  <1>1. PICK op \in Ops, refs \in SUBSET Ref \ {{}}, arg \in {-1} \cup Percent, mute \in BOOLEAN :
           Execute(op, refs, arg, mute)
    BY DEF Invoke
  <1>2. /\ call.at = "idle" /\ calls' \in 0..MaxCalls /\ refs \subseteq Ref
        /\ UNCHANGED <<level, cache, inFlight, notes, feed, outside>>
        /\ disturbed' \in SUBSET Ref
    BY <1>1, LevelsAssumption DEF Execute, QueuesTyped
  <1>3. /\ call' = [NoCall EXCEPT !.op = op, !.refs = refs, !.todo = refs,
                                  !.at = IF op = "toggle" THEN "survey" ELSE "next",
                                  !.arg = arg, !.mute = mute]
        /\ op \in Op /\ arg \in Int
    BY <1>1, LevelsAssumption DEF Execute, Percent
  <1>4. call' \in Call
    BY <1>2, <1>3, LevelsAssumption DEF NoCall, Call, Stage
  <1>5. Shape' /\ Knows' /\ Flights'
    BY <1>2, <1>3 DEF NoCall, Shape, Knows, Surveying, Flights, HandStages
  <1> QED
    BY <1>2, <1>4, <1>5 DEF QueuesTyped, HandlerTyped

LEMMA StepTyped == Typed /\ [Next]_vars => Typed'
  <1>1. Typed /\ UNCHANGED vars => Typed'
    BY DEF vars, Typed, TypeOK, Shape, Knows, Surveying, Flights
  <1>2. Typed /\ Handler => Typed'
    BY HandlerQueues, HandlerSteps, TypedParts, PTL
  <1> QED
    BY <1>1, <1>2, EventsTyped, InvokeTyped DEF Next

(* internal/actions/volume.go: every level the cache holds is one the      *)
(* server can have, and a stream has at most one write in flight.          *)
THEOREM LevelsTyped == Spec => []TypeOK
  <1>1. Spec => []Typed
    BY InitTyped, StepTyped, PTL DEF Spec
  <1> QED
    BY <1>1, PTL DEF Typed

-----------------------------------------------------------------------------
(* What is under way about a stream *)

NoteOf(r) == \E i \in 1 .. Len(notes) : notes[i] = r

(* The last event of a stream carries what the server has, unless there is *)
(* a note of a later change.                                               *)
Latest(r) ==
    \A i \in 1 .. Len(feed) :
        feed[i].ref = r => \/ NoteOf(r) \/ feed[i].state = level[r]
                           \/ \E j \in i + 1 .. Len(feed) : feed[j].ref = r

(* All of them do. *)
Echoes(r) == \A i \in 1 .. Len(feed) : feed[i].ref = r => feed[i].state = level[r]

SameNews(r) ==
    /\ Pending(r)' <=> Pending(r)
    /\ Latest(r) => Latest(r)'
    /\ Echoes(r) => Echoes(r)'

LEMMA NoNews ==
    ASSUME NEW r \in Ref, UNCHANGED <<notes, feed>>, level'[r] = level[r]
    PROVE  SameNews(r)
  BY DEF SameNews, Pending, Latest, Echoes, NoteOf

LEMMA Noted ==
    ASSUME QueuesTyped, NEW s \in Ref, notes' = Append(notes, s)
    PROVE  /\ NoteOf(s)'
           /\ \A r \in Ref : NoteOf(r) => NoteOf(r)'
           /\ \A r \in Ref \ {s} : NoteOf(r)' => NoteOf(r)
  <1>1. /\ notes \in Seq(Ref) /\ Len(notes') = Len(notes) + 1 /\ notes'[Len(notes) + 1] = s
        /\ \A i \in 1 .. Len(notes) : notes'[i] = notes[i]
    BY AppendProperties DEF QueuesTyped
  <1>2. Len(notes) \in Nat
    BY <1>1
  <1> QED
    BY <1>1, <1>2 DEF NoteOf

LEMMA SetsNews ==
    ASSUME QueuesTyped, NEW s \in Ref, NEW l \in Level, Sets(s, l), UNCHANGED feed
    PROVE  /\ \A r \in Ref \ {s} : level'[r] = level[r] /\ SameNews(r)
           /\ level'[s] = l
           /\ Latest(s) => Latest(s)'
           /\ ~Pending(s) => Echoes(s)'
           /\ level[s] = l => SameNews(s)
           /\ level[s] # l => Pending(s)'
  <1>1. /\ level' \in [Ref -> Level] /\ level'[s] = l
        /\ \A r \in Ref \ {s} : level'[r] = level[r]
    BY DEF Sets, QueuesTyped
  <1>2. CASE level[s] = l
    <2>1. \A r \in Ref : level'[r] = level[r]
      BY <1>1, <1>2
    <2>2. \A r \in Ref : SameNews(r)
      BY <1>2, <2>1, NoNews DEF Sets
    <2>3. ~Pending(s) => Echoes(s)'
      BY DEF Pending, Echoes
    <2> QED
      BY <1>1, <1>2, <2>1, <2>2, <2>3 DEF SameNews
  <1>3. CASE level[s] # l
    <2>1. /\ NoteOf(s)'
          /\ \A r \in Ref : NoteOf(r) => NoteOf(r)'
          /\ \A r \in Ref \ {s} : NoteOf(r)' => NoteOf(r)
      BY <1>3, Noted DEF Sets
    <2>2. \A r \in Ref \ {s} : SameNews(r)
      BY <1>1, <2>1 DEF SameNews, Pending, Latest, Echoes, NoteOf
    <2>3. Latest(s)' /\ Pending(s)'
      BY <2>1 DEF Latest, Pending, NoteOf
    <2>4. ~Pending(s) => Echoes(s)'
      BY DEF Pending, Echoes
    <2> QED
      BY <1>1, <1>3, <2>2, <2>3, <2>4
  <1> QED
    BY <1>2, <1>3

LEMMA FetchNews ==
    ASSUME QueuesTyped, Fetch, NEW r \in Ref \ disturbed'
    PROVE  SameNews(r)
  <1> DEFINE s == Head(notes)
             event == [ref |-> s, state |-> level[s]]
  <1>1. /\ notes \in Seq(Ref) /\ notes # <<>> /\ notes' = Tail(notes) /\ Len(notes) \in Nat
        /\ Len(notes') = Len(notes) - 1
        /\ \A i \in 1 .. Len(notes') : notes'[i] = notes[i + 1]
        /\ notes[1] = s /\ s \in Ref /\ UNCHANGED level
    BY HeadTailProperties DEF Fetch, QueuesTyped
  <1>2. NoteOf(r)' => NoteOf(r)
    BY <1>1 DEF NoteOf
  <1>3. NoteOf(r) => NoteOf(r)' \/ s = r
    <2> SUFFICES ASSUME NEW i \in 1 .. Len(notes), notes[i] = r, s # r PROVE NoteOf(r)'
      BY DEF NoteOf
    <2>1. i - 1 \in 1 .. Len(notes') /\ notes'[i - 1] = r
      BY <1>1
    <2> QED
      BY <2>1 DEF NoteOf
  <1>4. CASE disturbed' = disturbed \cup {s} /\ UNCHANGED feed
    <2>1. s # r
      BY <1>4
    <2> QED
      BY <1>1, <1>2, <1>3, <1>4, <2>1 DEF SameNews, Pending, Latest, Echoes, NoteOf
  <1>5. CASE feed' = Append(feed, event)
    <2>1. event \in AudioEvent /\ event.ref = s /\ event.state = level[s]
      BY <1>1 DEF AudioEvent, QueuesTyped
    <2> HIDE DEF event
    <2>2. /\ feed \in Seq(AudioEvent) /\ Len(feed) \in Nat /\ Len(feed') = Len(feed) + 1
          /\ \A i \in 1 .. Len(feed) : feed'[i] = feed[i]
          /\ feed'[Len(feed) + 1] = event
      BY <1>5, <2>1, AppendProperties DEF QueuesTyped
    <2>3. s = r => Pending(r) /\ Pending(r)'
      BY <1>1, <2>1, <2>2 DEF Pending
    <2>4. s # r => (Pending(r)' <=> Pending(r))
      BY <1>2, <1>3, <2>1, <2>2 DEF Pending, NoteOf
    <2>5. Echoes(r) => Echoes(r)'
      BY <1>1, <2>1, <2>2 DEF Echoes
    <2>6. Latest(r) => Latest(r)'
      BY <1>1, <1>3, <2>1, <2>2 DEF Latest
    <2> QED
      BY <2>3, <2>4, <2>5, <2>6 DEF SameNews
  <1> QED
    BY <1>4, <1>5 DEF Fetch

LEMMA ObservedNews ==
    ASSUME QueuesTyped, ObserveState, NEW r \in Ref
    PROVE  /\ Latest(r) => Latest(r)'
           /\ Echoes(r) => Echoes(r)'
           /\ Pending(r)' => Pending(r)
           /\ Echoes(r) /\ Head(feed).ref = r => Head(feed).state = level[r]
           /\ Head(feed).ref # r => (Pending(r) => Pending(r)')
           /\ Latest(r) /\ Head(feed).ref = r => Pending(r)' \/ Head(feed).state = level[r]
  <1>1. /\ feed \in Seq(AudioEvent) /\ feed # <<>> /\ feed' = Tail(feed) /\ Len(feed) \in Nat
        /\ Len(feed') = Len(feed) - 1 /\ Len(feed) >= 1
        /\ \A i \in 1 .. Len(feed') : feed'[i] = feed[i + 1]
        /\ feed[1] = Head(feed) /\ UNCHANGED <<level, notes>>
    BY HeadTailProperties DEF ObserveState, QueuesTyped
  <1>2. \A i \in 2 .. Len(feed) : i - 1 \in 1 .. Len(feed') /\ feed'[i - 1] = feed[i]
    BY <1>1
  <1>3. Echoes(r) => Echoes(r)'
    BY <1>1 DEF Echoes
  <1>4. Pending(r)' => Pending(r)
    BY <1>1 DEF Pending
  <1>5. Head(feed).ref # r => (Pending(r) => Pending(r)')
    <2> SUFFICES ASSUME NEW i \in 1 .. Len(feed), feed[i].ref = r, Head(feed).ref # r
                 PROVE  \E j \in 1 .. Len(feed') : feed'[j].ref = r
      BY <1>1 DEF Pending
    <2>1. i \in 2 .. Len(feed)
      BY <1>1
    <2> QED
      BY <1>2, <2>1
  <1>6. Latest(r) => Latest(r)'
    <2> SUFFICES ASSUME Latest(r), NEW i \in 1 .. Len(feed'), feed'[i].ref = r
                 PROVE  \/ NoteOf(r)' \/ feed'[i].state = level'[r]
                        \/ \E j \in i + 1 .. Len(feed') : feed'[j].ref = r
      BY DEF Latest
    <2>1. i + 1 \in 1 .. Len(feed) /\ feed'[i] = feed[i + 1]
      BY <1>1
    <2>2. CASE \E j \in (i + 1) + 1 .. Len(feed) : feed[j].ref = r
      <3>1. PICK j \in (i + 1) + 1 .. Len(feed) : feed[j].ref = r
        BY <2>2
      <3>2. j - 1 \in i + 1 .. Len(feed') /\ feed'[j - 1] = feed[j]
        BY <1>1, <1>2, <3>1
      <3> QED
        BY <3>1, <3>2
    <2> QED
      BY <1>1, <2>1, <2>2 DEF Latest, NoteOf
  <1>7. Latest(r) /\ Head(feed).ref = r => Pending(r)' \/ Head(feed).state = level[r]
    <2> SUFFICES ASSUME Latest(r), feed[1].ref = r, feed[1].state # level[r] PROVE Pending(r)'
      BY <1>1
    <2>1. NoteOf(r) \/ \E j \in 1 + 1 .. Len(feed) : feed[j].ref = r
      BY <1>1 DEF Latest
    <2> QED
      BY <1>1, <1>2, <2>1 DEF Pending, NoteOf
  <1>8. Echoes(r) /\ Head(feed).ref = r => Head(feed).state = level[r]
    BY <1>1 DEF Echoes
  <1> QED
    BY <1>3, <1>4, <1>5, <1>6, <1>7, <1>8

-----------------------------------------------------------------------------
(* What holds of a stream that is not disturbed *)

(* Nothing is under way about it, and the cache is right. *)
Fresh(r) == ~Pending(r) /\ cache[r] \in {Unknown, level[r]}

(* The handler is not concerned with it, or done; it has still to come to  *)
(* it, or to look at it.                                                   *)
Resting(r) == ~Touching(r) \/ (~Surveying /\ r \notin call.todo)

Waiting(r) == Touching(r) /\ (Surveying \/ (r \in call.todo /\ ~InHand(r)))

(* The handler has it in hand. *)
Reading(r) == Fresh(r) /\ call.seen = level[r] /\ (call.at = "unmute" => cache[r] = level[r])

Unmuting(r) ==
    /\ call.seen.muted /\ level[r] = [call.seen EXCEPT !.muted = FALSE]
    /\ cache[r] \in {call.seen, level[r]} /\ Echoes(r)

Writing(r) ==
    IF call.op = "apply" THEN Fresh(r)
    ELSE /\ cache[r] = level[r] /\ Echoes(r)
         /\ ~level[r].muted /\ call.seen.percent = level[r].percent

Wrote(r) ==
    IF call.op = "apply"
    THEN IF call.ok THEN Echoes(r) /\ level[r].percent = Target ELSE Fresh(r)
    ELSE /\ ~level[r].muted /\ ~cache[r].muted
         /\ IF call.ok THEN level[r].percent = Target ELSE cache[r] = level[r]

Muting(r) ==
    /\ Echoes(r) /\ cache[r].percent = level[r].percent
    /\ call.at = "setmute" => /\ call.seen.percent = level[r].percent
                              /\ call.op = "toggle" => Fresh(r)

Mutes(r) == call.seen.percent = level[r].percent /\ level[r].muted = call.mute

Handled(r) ==
    /\ call.at \in {"seed", "surveyed", "unmute"} => Reading(r)
    /\ call.at = "unmuted" => Unmuting(r)
    /\ call.at \in {"write", "writing"} => Writing(r)
    /\ call.at = "written" => Wrote(r)
    /\ call.at \in {"mute", "setmute"} => Muting(r)
    /\ call.at = "muted" => Mutes(r)

(* What a mute toggle has found, then done. *)
Toggles(r) ==
    call.op = "toggle" /\ r \in call.refs \ call.todo =>
       IF Surveying THEN r \in call.audible <=> ~level[r].muted
       ELSE call.ok => level[r].muted = call.mute

Holds(r) ==
    /\ Latest(r)
    /\ Resting(r) => Pending(r) \/ cache[r] \in {Unknown, level[r]}
    /\ Waiting(r) => Fresh(r)
    /\ InHand(r) => Handled(r)
    /\ Toggles(r)

AllHold == \A r \in Ref \ disturbed : Holds(r)

-----------------------------------------------------------------------------
(* The events *)

LEMMA InitHolds == Init => AllHold
  <1> SUFFICES ASSUME Init, NEW r \in Ref PROVE Holds(r)
    BY DEF AllHold
  <1>1. call.at = "idle" /\ call.op = "set"
    BY DEF Init, NoCall
  <1>2. Latest(r)
    BY DEF Init, Latest
  <1>3. cache[r] = Unknown /\ ~Waiting(r) /\ ~InHand(r) /\ Toggles(r)
    BY <1>1 DEF Init, Waiting, Touching, InHand, HandStages, Toggles
  <1> QED
    BY <1>2, <1>3 DEF Holds

(* News of a stream that changes neither its level nor the cache.          *)
LEMMA NewsHolds ==
    ASSUME NEW r \in Ref, Holds(r), SameNews(r), UNCHANGED call, level'[r] = level[r],
           cache'[r] = cache[r]
    PROVE  Holds(r)'
  <1>1. Resting(r)' <=> Resting(r)
    BY DEF Resting, Touching, Surveying
  <1>2. Waiting(r)' <=> Waiting(r)
    BY DEF Waiting, Touching, Surveying, InHand
  <1>3. InHand(r)' <=> InHand(r)
    BY DEF InHand
  <1>4. Fresh(r) => Fresh(r)'
    BY DEF Fresh, SameNews
  <1>5. Handled(r) => Handled(r)'
    BY <1>4 DEF Handled, Reading, Unmuting, Writing, Wrote, Muting, Mutes, SameNews, Target
  <1>6. Toggles(r)'
    BY DEF Holds, Toggles, Surveying
  <1> QED
    BY <1>1, <1>2, <1>3, <1>4, <1>5, <1>6 DEF Holds, SameNews

LEMMA ObserveHolds ==
    ASSUME Typed, ObserveState, NEW r \in Ref, Holds(r)
    PROVE  Holds(r)'
  <1> USE TypedParts
  <1>1. /\ Latest(r) => Latest(r)'
        /\ Echoes(r) => Echoes(r)'
        /\ Pending(r)' => Pending(r)
        /\ Echoes(r) /\ Head(feed).ref = r => Head(feed).state = level[r]
        /\ Head(feed).ref # r => (Pending(r) => Pending(r)')
        /\ Latest(r) /\ Head(feed).ref = r => Pending(r)' \/ Head(feed).state = level[r]
    BY ObservedNews
  <1>2. CASE Head(feed).ref # r
    <2>1. cache'[r] = cache[r] /\ UNCHANGED <<call, level>>
      BY <1>2 DEF ObserveState, HandlerTyped
    <2> QED
      BY <1>1, <1>2, <2>1, NewsHolds DEF SameNews
  <1>3. CASE Head(feed).ref = r
    <2>1. /\ UNCHANGED <<level, call>>
          /\ cache'[r] = IF inFlight[r] > 0 THEN cache[r] ELSE Head(feed).state
      BY <1>3 DEF ObserveState, HandlerTyped
    <2>2. Pending(r)
      <3>1. feed \in Seq(AudioEvent) /\ feed # <<>>
        BY DEF ObserveState, QueuesTyped
      <3>2. 1 \in 1 .. Len(feed) /\ feed[1].ref = r
        BY <1>3, <3>1
      <3> QED
        BY <3>2 DEF Pending
    <2>3. ~Fresh(r)
      BY <2>2 DEF Fresh
    <2>4. inFlight[r] = IF call.at \in {"writing", "written"} /\ call.ref = r THEN 1 ELSE 0
      BY DEF Flights
    <2>5. (Resting(r)' <=> Resting(r)) /\ (Waiting(r)' <=> Waiting(r)) /\ (InHand(r)' <=> InHand(r))
      BY <2>1 DEF Resting, Waiting, InHand, Touching, Surveying
    <2>6. Resting(r) => inFlight[r] = 0
      BY <2>4 DEF Resting, Touching, Surveying, Shape, HandStages
    <2>7. Resting(r) => Pending(r)' \/ cache'[r] \in {Unknown, level'[r]}
      BY <1>1, <1>3, <2>1, <2>6 DEF Holds
    <2>8. InHand(r) => Handled(r)'
      <3> SUFFICES ASSUME InHand(r) PROVE Handled(r)'
        OBVIOUS
      <3>1. Handled(r)
        BY DEF Holds
      <3>2. CASE call.at = "unmuted"
        BY <1>1, <1>3, <2>1, <2>4, <3>1, <3>2 DEF Handled, Unmuting
      <3>3. CASE call.at \in {"write", "writing"}
        BY <1>1, <1>3, <2>1, <2>3, <2>4, <3>1, <3>3 DEF Handled, Writing
      <3>4. CASE call.at = "written"
        <4>1. cache'[r] = cache[r] /\ Target' = Target
          BY <2>1, <2>4, <3>4 DEF InHand, Target
        <4> QED
          BY <1>1, <2>1, <2>3, <3>1, <3>4, <4>1 DEF Handled, Wrote
      <3>5. CASE call.at \in {"mute", "setmute"}
        BY <1>1, <1>3, <2>1, <2>3, <2>4, <3>1, <3>5 DEF Handled, Muting
      <3>6. CASE call.at = "muted"
        BY <2>1, <3>1, <3>6 DEF Handled, Mutes
      <3> QED
        BY <2>1, <2>3, <3>1, <3>2, <3>3, <3>4, <3>5, <3>6 DEF Handled, Reading, InHand, HandStages
    <2>9. Toggles(r)'
      BY <2>1 DEF Holds, Toggles, Surveying
    <2> QED
      BY <1>1, <2>3, <2>5, <2>7, <2>8, <2>9 DEF Holds
  <1> QED
    BY <1>2, <1>3

LEMMA OutsideHolds ==
    ASSUME Typed, NEW s \in Ref, NEW l \in Level, Outside(s, l), NEW r \in Ref \ disturbed',
           Holds(r)
    PROVE  Holds(r)'
  <1> USE TypedParts
  <1>1. Sets(s, l) /\ UNCHANGED <<feed, cache, call>> /\ level[s] # l
    BY DEF Outside
  <1>2. CASE r # s
    BY <1>1, <1>2, SetsNews, NewsHolds
  <1>3. CASE r = s
    <2>1. ~Touching(r)
      BY <1>3 DEF Outside
    <2>2. Latest(r)' /\ Pending(r)'
      BY <1>1, <1>3, SetsNews DEF Holds
    <2>3. ~Touching(r)' /\ ~InHand(r)' /\ r \notin call'.refs
      BY <1>1, <2>1 DEF Touching, InHand, Shape, HandStages
    <2> QED
      BY <2>2, <2>3 DEF Holds, Waiting, Toggles
  <1> QED
    BY <1>2, <1>3

LEMMA EventsHold ==
    Typed /\ AllHold /\ (Fetch \/ ObserveState \/ \E r \in Ref, l \in Level : Outside(r, l))
       => AllHold'
  <1> SUFFICES ASSUME Typed, AllHold, NEW r \in Ref \ disturbed',
                      Fetch \/ ObserveState \/ \E s \in Ref, l \in Level : Outside(s, l)
               PROVE  Holds(r)'
    BY DEF AllHold
  <1>1. Holds(r)
    BY DEF AllHold, Fetch, ObserveState, Outside
  <1>2. CASE Fetch
    BY <1>1, <1>2, FetchNews, NewsHolds, TypedParts DEF Fetch
  <1> QED
    BY <1>1, <1>2, ObserveHolds, OutsideHolds

-----------------------------------------------------------------------------
(* The handler *)

LEMMA InvokeHolds == Typed /\ AllHold /\ Invoke => AllHold'
  <1> SUFFICES ASSUME Typed, AllHold, Invoke, NEW r \in Ref \ disturbed' PROVE Holds(r)'
    BY DEF AllHold
  <1> USE TypedParts
  <1>1. PICK op \in Ops, refs \in SUBSET Ref \ {{}}, arg \in {-1} \cup Percent, mute \in BOOLEAN :
           Execute(op, refs, arg, mute)
    BY DEF Invoke
  <1>2. /\ call.at = "idle" /\ r \notin disturbed
        /\ UNCHANGED <<level, cache, notes, feed>>
        /\ r \in refs => ~Pending(r)
    BY <1>1 DEF Execute
  <1>3. /\ call'.op = op /\ call'.refs = refs /\ call'.todo = refs
        /\ call'.at = IF op = "toggle" THEN "survey" ELSE "next"
    BY <1>1 DEF Execute, NoCall
  <1>4. Holds(r) /\ ~Touching(r)
    BY <1>2 DEF AllHold, Touching
  <1>5. Latest(r)' /\ (Pending(r)' <=> Pending(r))
    BY <1>2, <1>4 DEF Holds, Latest, Pending, NoteOf
  <1>6. Pending(r) \/ cache[r] \in {Unknown, level[r]}
    BY <1>4 DEF Holds, Resting
  <1>7. Waiting(r)' => Fresh(r)'
    BY <1>2, <1>3, <1>5, <1>6 DEF Waiting, Touching, Fresh
  <1>8. ~InHand(r)' /\ Toggles(r)'
    BY <1>3 DEF InHand, HandStages, Toggles
  <1> QED
    BY <1>2, <1>5, <1>6, <1>7, <1>8 DEF Holds

(* A stream the handler does not have in hand, before or after its step.   *)
LEMMA OthersHold ==
    ASSUME NEW r \in Ref, Holds(r), SameNews(r), level'[r] = level[r], cache'[r] = cache[r],
           ~InHand(r), ~InHand(r)',
           call'.refs = call.refs, call'.op = call.op, call'.mute = call.mute,
           Touching(r)' <=> Touching(r), Surveying' <=> Surveying,
           r \in call'.todo <=> r \in call.todo, r \in call'.audible <=> r \in call.audible,
           call.op = "toggle" /\ call'.ok => call.ok
    PROVE  Holds(r)'
  <1>1. (Resting(r)' <=> Resting(r)) /\ (Waiting(r)' => Waiting(r))
    BY DEF Resting, Waiting
  <1>2. Fresh(r) => Fresh(r)'
    BY DEF Fresh, SameNews
  <1>3. Toggles(r)'
    BY DEF Holds, Toggles
  <1> QED
    BY <1>1, <1>2, <1>3 DEF Holds, SameNews

(* The handler is done with a stream. *)
LEMMA DoneHolds ==
    ASSUME Typed, NEW r \in Ref, r \in call.todo, call' \in Call,
           call'.at = "next", call'.op = call.op, call'.mute = call.mute,
           call'.todo = call.todo \ {r},
           Latest(r)', Pending(r)' \/ cache'[r] \in {Unknown, level'[r]},
           call'.op = "toggle" /\ call'.ok => level'[r].muted = call'.mute
    PROVE  Holds(r)'
  <1>1. r \notin call'.todo /\ ~Surveying' /\ ~InHand(r)'
    BY DEF Surveying, InHand, HandStages
  <1> QED
    BY <1>1 DEF Holds, Resting, Waiting, Toggles

(* It takes a stream in hand, or goes on with it. *)
LEMMA InHandHolds ==
    ASSUME NEW r \in Ref, r \in call'.todo, Latest(r)', InHand(r)', Handled(r)',
           Surveying' => Fresh(r)', Touching(r)'
    PROVE  Holds(r)'
  BY DEF Holds, Resting, Waiting, Toggles

(* What the steps below do to the call's fields. *)
LEMMA CallFields ==
    ASSUME call \in Call, NEW s \in Stage
    PROVE  /\ call' = [call EXCEPT !.at = s] =>
                 /\ call'.at = s /\ call'.op = call.op /\ call'.refs = call.refs
                 /\ call'.todo = call.todo /\ call'.then = call.then /\ call'.ref = call.ref
                 /\ call'.seen = call.seen /\ call'.ok = call.ok /\ call'.arg = call.arg
                 /\ call'.mute = call.mute /\ call'.audible = call.audible
           /\ \A r \in Ref : call' = [Drops(r) EXCEPT !.at = s] =>
                 /\ call'.at = s /\ call'.op = call.op /\ call'.refs = call.refs
                 /\ call'.todo = call.todo \ {r} /\ call'.ok = call.ok
                 /\ call'.mute = call.mute /\ call'.audible = call.audible
           /\ \A r \in Ref : call' = [Drops(r) EXCEPT !.at = s, !.ok = FALSE] =>
                 /\ call'.at = s /\ call'.op = call.op /\ call'.refs = call.refs
                 /\ call'.todo = call.todo \ {r} /\ call'.ok = FALSE
                 /\ call'.mute = call.mute /\ call'.audible = call.audible
           /\ \A r \in Ref, l \in Level : call' = [call EXCEPT !.ref = r, !.at = s, !.seen = l] =>
                 /\ call'.at = s /\ call'.op = call.op /\ call'.refs = call.refs
                 /\ call'.todo = call.todo /\ call'.ref = r /\ call'.seen = l
                 /\ call'.ok = call.ok /\ call'.mute = call.mute /\ call'.audible = call.audible
           /\ \A r \in Ref, l \in Level, t \in Stage :
                 call' = [call EXCEPT !.ref = r, !.at = s, !.then = t, !.seen = l] =>
                 /\ call'.at = s /\ call'.op = call.op /\ call'.refs = call.refs
                 /\ call'.todo = call.todo /\ call'.ref = r /\ call'.seen = l /\ call'.then = t
                 /\ call'.ok = call.ok /\ call'.mute = call.mute /\ call'.audible = call.audible
  BY DEF Call, Drops

LEMMA FreshEchoes == ASSUME NEW r \in Ref, Fresh(r) PROVE Echoes(r)
  BY DEF Fresh, Pending, Echoes

LEMMA GetCachedHolds ==
    ASSUME Typed, NEW r \in Ref, NEW then, r \in call.todo, GetCached(r, then), UNCHANGED feed,
           \/ call.at = "survey" /\ then = "surveyed"
           \/ call.at = "next" /\ then = "unmute" /\ call.op \in {"adjust", "set"}
           \/ call.at = "next" /\ then = "setmute" /\ call.op = "toggle"
           \/ call.at = "mute" /\ then = "setmute" /\ r = call.ref,
           NEW s \in Ref, Holds(s)
    PROVE  Holds(s)'
  <1> USE TypedParts
  <1>1. /\ call \in Call /\ then \in Stage /\ "seed" \in Stage /\ "next" \in Stage
        /\ cache[r] # Unknown => cache[r] \in Level
        /\ level[r] \in Level /\ r \in call.refs
    BY DEF HandlerTyped, QueuesTyped, Stage, Shape
  <1>2. UNCHANGED <<cache, level, notes, feed>>
    BY DEF GetCached
  <1>3. SameNews(s)
    BY <1>2, NoNews
  <1>4. s # r => ~InHand(s)
    BY DEF InHand, HandStages
  <1>5. Surveying <=> then = "surveyed"
    BY DEF Surveying, Shape
  <1>6. s = r /\ call.at # "mute" => Waiting(s) /\ Fresh(s)
    BY <1>1 DEF Waiting, Touching, Surveying, InHand, HandStages, Shape, Holds
  <1>7. s = r /\ call.at = "mute" => /\ call.op = "apply" /\ cache[r] # Unknown
                                    /\ InHand(s) /\ Muting(s)
    BY <1>1 DEF InHand, HandStages, Shape, Holds, Handled
  <1>8. CASE /\ cache[r] # Unknown
             /\ call' = [call EXCEPT !.ref = r, !.at = then, !.seen = cache[r]]
    <2>1. /\ call'.at = then /\ call'.op = call.op /\ call'.refs = call.refs
          /\ call'.todo = call.todo /\ call'.ref = r /\ call'.seen = cache[r]
          /\ call'.ok = call.ok /\ call'.mute = call.mute /\ call'.audible = call.audible
      BY <1>1, <1>8, CallFields
    <2>2. Surveying' <=> Surveying
      BY <1>5, <2>1 DEF Surveying
    <2>3. CASE s # r
      BY <1>2, <1>3, <1>4, <2>1, <2>2, <2>3, OthersHold DEF Touching, InHand
    <2>4. CASE s = r
      <3>1. Latest(s)' /\ InHand(s)' /\ Touching(s)'
        BY <1>1, <1>3, <2>1, <2>4 DEF Holds, SameNews, InHand, HandStages, Touching
      <3>2. Surveying' => Fresh(s)'
        BY <1>2, <1>3, <1>5, <1>6, <2>2, <2>4 DEF Fresh, SameNews
      <3>3. CASE call.at # "mute"
        <4>1. Fresh(s) /\ Fresh(s)' /\ Echoes(s)' /\ cache[r] = level[r]
          BY <1>2, <1>3, <1>6, <1>8, <2>4, <3>3, FreshEchoes DEF Fresh, SameNews
        <4> QED
          BY <1>1, <1>2, <2>1, <2>4, <3>1, <3>2, <3>3, <4>1, InHandHolds
          DEF Handled, Reading, Muting
      <3>4. CASE call.at = "mute"
        <4>1. Handled(s)'
          BY <1>2, <1>3, <1>7, <2>1, <2>4, <3>4 DEF Handled, Muting, SameNews
        <4> QED
          BY <2>1, <1>1, <2>4, <3>1, <3>2, <4>1, InHandHolds
      <3> QED
        BY <3>3, <3>4
    <2> QED
      BY <2>3, <2>4
  <1>9. CASE /\ cache[r] = Unknown
             /\ call' = [call EXCEPT !.ref = r, !.at = "seed", !.then = then, !.seen = level[r]]
    <2>1. /\ call'.at = "seed" /\ call'.op = call.op /\ call'.refs = call.refs
          /\ call'.todo = call.todo /\ call'.ref = r /\ call'.seen = level[r] /\ call'.then = then
          /\ call'.ok = call.ok /\ call'.mute = call.mute /\ call'.audible = call.audible
      BY <1>1, <1>9, CallFields
    <2>2. Surveying' <=> Surveying
      BY <1>5, <2>1 DEF Surveying, Shape
    <2>3. CASE s # r
      BY <1>2, <1>3, <1>4, <2>1, <2>2, <2>3, OthersHold DEF Touching, InHand
    <2>4. CASE s = r
      <3>1. Latest(s)' /\ InHand(s)' /\ Touching(s)'
        BY <1>1, <1>3, <2>1, <2>4 DEF Holds, SameNews, InHand, HandStages, Touching
      <3>2. Fresh(s)'
        BY <1>2, <1>3, <1>6, <1>7, <1>9, <2>4 DEF Fresh, SameNews
      <3>3. Handled(s)'
        BY <1>2, <2>1, <2>4, <3>2 DEF Handled, Reading
      <3> QED
        BY <1>1, <2>1, <2>4, <3>1, <3>2, <3>3, InHandHolds
    <2> QED
      BY <2>3, <2>4
  <1>10. CASE then = "surveyed" /\ call' = NoCall
    <2>1. ~Touching(s)' /\ ~InHand(s)' /\ ~Waiting(s)' /\ Toggles(s)'
      BY <1>10 DEF NoCall, Touching, InHand, HandStages, Waiting, Toggles
    <2>2. Resting(s) \/ Waiting(s)
      BY <1>5, <1>10 DEF Resting, Waiting
    <2> QED
      BY <1>2, <1>3, <2>1, <2>2 DEF Holds, Fresh, SameNews
  <1>11. CASE then # "surveyed" /\ cache[r] = Unknown /\ call' = [Drops(r) EXCEPT !.at = "next"]
    <2>1. /\ call'.at = "next" /\ call'.op = call.op /\ call'.refs = call.refs
          /\ call'.todo = call.todo \ {r} /\ call'.ok = call.ok
          /\ call'.mute = call.mute /\ call'.audible = call.audible
      BY <1>1, <1>11, CallFields
    <2>2. Surveying' <=> Surveying
      BY <1>5, <1>11, <2>1 DEF Surveying
    <2>3. CASE s # r
      BY <1>2, <1>3, <1>4, <2>1, <2>2, <2>3, OthersHold DEF Touching, InHand, HandStages
    <2>4. CASE s = r
      <3>1. call.op # "toggle"
        BY <1>1, <1>5, <1>7, <1>11, <2>4 DEF Knows
      <3>2. call' \in Call
        BY <1>1, <1>11, CallSteps
      <3>3. Latest(s)' /\ Fresh(s)'
        BY <1>2, <1>3, <1>6, <1>7, <1>11, <2>4 DEF Holds, Fresh, SameNews
      <3> QED
        BY <1>1, <2>1, <2>4, <3>1, <3>2, <3>3, DoneHolds DEF Fresh
    <2> QED
      BY <2>3, <2>4
  <1> QED
    BY <1>8, <1>9, <1>10, <1>11 DEF GetCached

(* A step on the stream in hand, for the other streams. *)
LEMMA ElsewhereHolds ==
    ASSUME Typed, call.at \in HandStages, NEW s \in Ref \ {call.ref}, Holds(s), UNCHANGED feed,
           UNCHANGED <<level, notes>> \/ \E l \in Level : Sets(call.ref, l),
           cache'[s] = cache[s],
           call'.at \in HandStages => call'.ref = call.ref,
           call'.at # "idle", call'.refs = call.refs, call'.op = call.op, call'.mute = call.mute,
           Surveying' <=> Surveying, call'.todo \in {call.todo, call.todo \ {call.ref}},
           call'.audible \in {call.audible, call.audible \cup {call.ref}},
           call.op = "toggle" /\ call'.ok => call.ok
    PROVE  Holds(s)'
  <1> USE TypedParts
  <1>1. call.ref \in Ref
    BY DEF Shape, HandStages, HandlerTyped, Call
  <1>2. SameNews(s) /\ level'[s] = level[s]
    BY <1>1, NoNews, SetsNews
  <1>3. ~InHand(s) /\ ~InHand(s)'
    BY DEF InHand
  <1>4. Touching(s)' <=> Touching(s)
    BY DEF Touching, HandStages
  <1>5. (s \in call'.todo <=> s \in call.todo) /\ (s \in call'.audible <=> s \in call.audible)
    OBVIOUS
  <1> QED
    BY <1>2, <1>3, <1>4, <1>5, OthersHold

LEMMA UnmuteHolds ==
    ASSUME Typed, Unmute \/ Unmuted, NEW s \in Ref, Holds(s)
    PROVE  Holds(s)'
  <1> USE TypedParts
  <1> DEFINE r == call.ref
  <1>1. /\ r \in Ref /\ r \in call.todo /\ r \in call.refs /\ call \in Call
        /\ call.at \in {"unmute", "unmuted"} /\ call.at \in HandStages /\ ~Surveying
        /\ UNCHANGED feed /\ level[r] \in Level /\ call.seen \in Level
        /\ call.op # "toggle" /\ call.op # "apply"
    BY DEF Unmute, Unmuted, At, Reaches, Shape, HandStages, HandlerTyped, QueuesTyped, Call,
           Surveying
  <1>2. [level[r] EXCEPT !.muted = FALSE] \in Level /\ [call.seen EXCEPT !.muted = FALSE] \in Level
    BY <1>1, LevelFields
  <1>3. s = r => InHand(s) /\ Handled(s) /\ Latest(s)
    BY <1>1 DEF InHand, Holds
  <1>4. CASE /\ call.at = "unmute" /\ ~call.seen.muted /\ UNCHANGED <<level, notes, cache>>
             /\ call' = [call EXCEPT !.at = "write"]
    <2>1. /\ call'.at = "write" /\ call'.op = call.op /\ call'.refs = call.refs
          /\ call'.todo = call.todo /\ call'.ref = call.ref /\ call'.seen = call.seen
          /\ call'.ok = call.ok /\ call'.mute = call.mute /\ call'.audible = call.audible
      BY <1>1, <1>4, CallFields DEF Stage
    <2>2. ~Surveying'
      BY <2>1 DEF Surveying
    <2>3. CASE s # r
      BY <1>1, <1>4, <2>1, <2>2, <2>3, ElsewhereHolds
    <2>4. CASE s = r
      <3>1. Reading(s) /\ cache[s] = level[s] /\ Echoes(s) /\ SameNews(s)
        BY <1>1, <1>3, <1>4, <2>4, FreshEchoes, NoNews DEF Handled, Reading
      <3>2. Handled(s)'
        BY <1>1, <1>4, <2>1, <2>4, <3>1 DEF Handled, Reading, Writing, SameNews
      <3> QED
        BY <1>1, <1>3, <2>1, <2>2, <2>4, <3>1, <3>2, InHandHolds
        DEF InHand, HandStages, Touching, SameNews
    <2> QED
      BY <2>3, <2>4
  <1>5. CASE /\ call.at = "unmute" /\ call.seen.muted /\ UNCHANGED cache
             /\ call' = [call EXCEPT !.at = "unmuted"]
             /\ Sets(r, [level[r] EXCEPT !.muted = FALSE])
    <2>1. /\ call'.at = "unmuted" /\ call'.op = call.op /\ call'.refs = call.refs
          /\ call'.todo = call.todo /\ call'.ref = call.ref /\ call'.seen = call.seen
          /\ call'.ok = call.ok /\ call'.mute = call.mute /\ call'.audible = call.audible
      BY <1>1, <1>5, CallFields DEF Stage
    <2>2. ~Surveying'
      BY <2>1 DEF Surveying
    <2>3. CASE s # r
      BY <1>1, <1>2, <1>5, <2>1, <2>2, <2>3, ElsewhereHolds
    <2>4. CASE s = r
      <3>1. Fresh(s) /\ call.seen = level[s] /\ cache[s] = level[s]
        BY <1>3, <1>5, <2>4 DEF Handled, Reading
      <3>2. level'[s] = [call.seen EXCEPT !.muted = FALSE] /\ Latest(s)' /\ Echoes(s)'
        BY <1>1, <1>2, <1>3, <1>5, <2>4, <3>1, SetsNews DEF Fresh
      <3>3. Handled(s)'
        BY <1>5, <2>1, <3>1, <3>2 DEF Handled, Unmuting
      <3> QED
        BY <1>1, <1>3, <2>1, <2>2, <2>4, <3>2, <3>3, InHandHolds DEF InHand, HandStages, Touching
    <2> QED
      BY <2>3, <2>4
  <1>6. CASE /\ call.at = "unmute" /\ UNCHANGED <<level, notes, cache>>
             /\ call' = [Drops(r) EXCEPT !.at = "next"]
    <2>1. /\ call'.at = "next" /\ call'.op = call.op /\ call'.refs = call.refs
          /\ call'.todo = call.todo \ {r} /\ call'.ok = call.ok
          /\ call'.mute = call.mute /\ call'.audible = call.audible /\ call' \in Call
      BY <1>1, <1>6, CallFields, CallSteps DEF Stage
    <2>2. CASE s # r
      BY <1>1, <1>6, <2>1, <2>2, ElsewhereHolds DEF Surveying, HandStages
    <2>3. CASE s = r
      <3>1. cache[s] = level[s] /\ Latest(s)'
        BY <1>1, <1>3, <1>6, <2>3, NoNews DEF Handled, Reading, SameNews
      <3> QED
        BY <1>1, <1>6, <2>1, <2>3, <3>1, DoneHolds
    <2> QED
      BY <2>2, <2>3
  <1>7. CASE Unmuted
    <2>1. /\ call.at = "unmuted" /\ UNCHANGED <<level, notes>>
          /\ call' = [call EXCEPT !.at = "write"]
          /\ cache' = [cache EXCEPT ![r] = [call.seen EXCEPT !.muted = FALSE]]
      BY <1>7 DEF Unmuted, At, Reaches, Goes
    <2>2. /\ call'.at = "write" /\ call'.op = call.op /\ call'.refs = call.refs
          /\ call'.todo = call.todo /\ call'.ref = call.ref /\ call'.seen = call.seen
          /\ call'.ok = call.ok /\ call'.mute = call.mute /\ call'.audible = call.audible
      BY <1>1, <2>1, CallFields DEF Stage
    <2>3. ~Surveying'
      BY <2>2 DEF Surveying
    <2>4. /\ cache'[r] = [call.seen EXCEPT !.muted = FALSE]
          /\ \A t \in Ref \ {r} : cache'[t] = cache[t]
      BY <1>1, <1>2, <2>1, CommitsCache
    <2>5. CASE s # r
      BY <1>1, <2>1, <2>2, <2>3, <2>4, <2>5, ElsewhereHolds
    <2>6. CASE s = r
      <3>1. level[s] = [call.seen EXCEPT !.muted = FALSE] /\ Echoes(s) /\ SameNews(s)
        BY <1>1, <1>3, <2>1, <2>6, NoNews DEF Handled, Unmuting
      <3>2. ~level[s].muted /\ level[s].percent = call.seen.percent
        BY <1>1, <3>1, LevelFields
      <3>3. Handled(s)'
        BY <1>1, <2>1, <2>2, <2>4, <2>6, <3>1, <3>2 DEF Handled, Writing, SameNews
      <3> QED
        BY <1>1, <1>3, <2>2, <2>3, <2>6, <3>1, <3>3, InHandHolds
        DEF InHand, HandStages, Touching, SameNews
    <2> QED
      BY <2>5, <2>6
  <1> QED
    BY <1>4, <1>5, <1>6, <1>7 DEF Unmute, At, Reaches, Goes, GoesOn

LEMMA SurveyHolds ==
    ASSUME Typed, Seed \/ Surveyed \/ Decide \/ Return, NEW s \in Ref, Holds(s)
    PROVE  Holds(s)'
  <1> USE TypedParts
  <1> DEFINE r == call.ref
  <1>1. /\ call \in Call /\ UNCHANGED <<level, notes, feed>>
        /\ call.at \in HandStages => r \in Ref /\ r \in call.todo
        /\ call.todo \subseteq call.refs /\ level[s] \in Level
    BY DEF Seed, Surveyed, Decide, Return, At, Reaches, Shape, HandlerTyped, QueuesTyped, Call
  <1>2. SameNews(s)
    BY <1>1, NoNews
  <1>3. CASE Seed
    <2>1. /\ call.at = "seed" /\ call' = [call EXCEPT !.at = call.then]
          /\ call.then \in {"surveyed", "unmute", "setmute"} /\ call.then \in Stage
          /\ call.seen \in Level /\ cache' = [cache EXCEPT ![r] = call.seen]
      BY <1>3 DEF Seed, At, Reaches, Goes, Shape, Stage
    <2>2. /\ call'.at = call.then /\ call'.op = call.op /\ call'.refs = call.refs
          /\ call'.todo = call.todo /\ call'.ref = call.ref /\ call'.seen = call.seen
          /\ call'.ok = call.ok /\ call'.mute = call.mute /\ call'.audible = call.audible
      BY <1>1, <2>1, CallFields
    <2>3. Surveying' <=> Surveying
      BY <2>1, <2>2 DEF Surveying, Shape
    <2>4. cache'[r] = call.seen /\ \A t \in Ref \ {r} : cache'[t] = cache[t]
      BY <1>1, <2>1, CommitsCache DEF HandStages
    <2>5. CASE s # r
      BY <1>1, <2>1, <2>2, <2>3, <2>4, <2>5, ElsewhereHolds DEF HandStages
    <2>6. CASE s = r
      <3>1. Fresh(s) /\ call.seen = level[s] /\ Latest(s)
        BY <1>1, <2>1, <2>6 DEF Holds, InHand, HandStages, Handled, Reading
      <3>2. Fresh(s)' /\ Echoes(s)' /\ Latest(s)'
        BY <1>1, <1>2, <2>4, <2>6, <3>1, FreshEchoes DEF Fresh, SameNews
      <3>3. Handled(s)'
        BY <1>1, <2>1, <2>2, <2>4, <2>6, <3>1, <3>2 DEF Handled, Reading, Muting
      <3> QED
        BY <1>1, <2>1, <2>2, <2>6, <3>2, <3>3, InHandHolds DEF InHand, HandStages, Touching
    <2> QED
      BY <2>5, <2>6
  <1>4. CASE Surveyed
    <2>1. /\ call.at = "surveyed" /\ UNCHANGED cache /\ call.op = "toggle"
          /\ call' = [Drops(r) EXCEPT
                        !.at = "survey",
                        !.audible = IF call.seen.muted THEN @ ELSE @ \cup {r}]
      BY <1>4 DEF Surveyed, At, Reaches, Shape
    <2>2. /\ call'.at = "survey" /\ call'.op = call.op /\ call'.refs = call.refs
          /\ call'.todo = call.todo \ {r} /\ call'.ok = call.ok /\ call'.mute = call.mute
          /\ call'.audible = IF call.seen.muted THEN call.audible ELSE call.audible \cup {r}
      BY <1>1, <2>1 DEF Call, Drops
    <2>3. Surveying' /\ Surveying
      BY <2>1, <2>2 DEF Surveying
    <2>4. CASE s # r
      BY <1>1, <2>1, <2>2, <2>3, <2>4, ElsewhereHolds DEF HandStages
    <2>5. CASE s = r
      <3>1. Fresh(s) /\ call.seen = level[s] /\ Latest(s)
        BY <1>1, <2>1, <2>5 DEF Holds, InHand, HandStages, Handled, Reading
      <3>2. Fresh(s)' /\ Latest(s)'
        BY <1>1, <1>2, <2>1, <3>1 DEF Fresh, SameNews
      <3>3. r \notin call.audible
        BY <1>1, <2>1, <2>3 DEF Knows, HandStages
      <3>4. Toggles(s)'
        BY <1>1, <2>2, <2>3, <2>5, <3>1, <3>3 DEF Toggles
      <3> QED
        BY <2>2, <2>3, <3>2, <3>4 DEF Holds, Resting, InHand, HandStages, Fresh
    <2> QED
      BY <2>4, <2>5
  <1>5. CASE Decide
    <2>1. /\ call.at = "survey" /\ UNCHANGED cache /\ call.op = "toggle" /\ call.todo = {}
          /\ call'.at = "next" /\ call'.op = call.op /\ call'.refs = call.refs
          /\ call'.mute = (call.audible # {})
          /\ call'.todo = IF call.audible # {} THEN call.audible ELSE call.refs
      BY <1>1, <1>5 DEF Decide, At, Reaches, Shape, Call
    <2>2. Surveying /\ ~Surveying' /\ ~InHand(s)'
      BY <2>1 DEF Surveying, InHand, HandStages
    <2>3. s \in call.refs => Fresh(s)
      BY <2>1, <2>2 DEF Holds, Waiting, Touching
    <2>4. Fresh(s) => Fresh(s)'
      BY <1>1, <1>2, <2>1 DEF Fresh, SameNews
    <2>5. s \in call.refs => (s \in call.audible <=> ~level[s].muted)
      BY <2>1, <2>2 DEF Holds, Toggles
    <2>6. level[s].muted \in BOOLEAN
      BY <1>1, LevelFields
    <2>7. Toggles(s)'
      BY <1>1, <2>1, <2>2, <2>5, <2>6 DEF Toggles
    <2>8. s \notin call.refs => Pending(s)' \/ cache'[s] \in {Unknown, level'[s]}
      BY <1>1, <1>2, <2>1 DEF Holds, Resting, Touching, SameNews
    <2>9. Latest(s)'
      BY <1>2 DEF Holds, SameNews
    <2> QED
      BY <2>1, <2>2, <2>3, <2>4, <2>7, <2>8, <2>9 DEF Holds, Resting, Waiting, Touching, Fresh
  <1>6. CASE Return
    <2>1. call.at = "next" /\ call.todo = {} /\ UNCHANGED cache /\ call' = NoCall
      BY <1>6 DEF Return, At, Reaches
    <2>2. Resting(s)
      BY <2>1 DEF Resting, Surveying
    <2>3. ~Touching(s)' /\ ~InHand(s)' /\ ~Waiting(s)' /\ Toggles(s)'
      BY <2>1 DEF NoCall, Touching, InHand, HandStages, Waiting, Toggles
    <2> QED
      BY <1>1, <1>2, <2>1, <2>2, <2>3 DEF Holds, SameNews
  <1> QED
    BY <1>3, <1>4, <1>5, <1>6

LEMMA ReadHolds ==
    ASSUME Typed, NEW r \in Ref, Survey(r) \/ Read(r) \/ (ReadBeforeMute /\ r = call.ref),
           NEW s \in Ref, Holds(s)
    PROVE  Holds(s)'
  <1> USE TypedParts
  <1>1. UNCHANGED feed /\ call \in Call /\ r \in call.todo
    BY DEF Survey, Read, ReadBeforeMute, At, Reaches, HandlerTyped, Shape, HandStages
  <1>2. CASE Survey(r) \/ ReadBeforeMute \/ (Read(r) /\ call.op # "apply")
    BY <1>1, <1>2, GetCachedHolds DEF Survey, Read, ReadBeforeMute, At, Reaches
  <1>3. CASE Read(r) /\ call.op = "apply"
    <2>1. /\ call.at = "next" /\ r \in call.todo /\ UNCHANGED <<cache, level, notes, feed>>
          /\ call' = [call EXCEPT !.ref = r, !.at = "write"]
      BY <1>3 DEF Read, At, Reaches
    <2>2. /\ call'.at = "write" /\ call'.op = call.op /\ call'.refs = call.refs
          /\ call'.todo = call.todo /\ call'.ref = r /\ call'.ok = call.ok
          /\ call'.mute = call.mute /\ call'.audible = call.audible
      BY <1>1, <2>1 DEF Call
    <2>3. ~Surveying /\ ~Surveying' /\ ~InHand(s) /\ SameNews(s)
      BY <2>1, <2>2, NoNews DEF Surveying, InHand, HandStages
    <2>4. CASE s # r
      BY <2>1, <2>2, <2>3, <2>4, OthersHold DEF InHand, Touching
    <2>5. CASE s = r
      <3>1. r \in call.refs
        BY <1>1 DEF Shape
      <3>2. Fresh(s) /\ Fresh(s)' /\ Latest(s)'
        BY <2>1, <2>3, <2>5, <3>1 DEF Holds, Waiting, Touching, Fresh, SameNews
      <3>3. Handled(s)'
        BY <1>3, <2>2, <3>2 DEF Handled, Writing
      <3> QED
        BY <2>1, <2>2, <2>3, <2>5, <3>1, <3>2, <3>3, InHandHolds DEF InHand, HandStages, Touching
    <2> QED
      BY <2>4, <2>5
  <1> QED
    BY <1>2, <1>3

LEMMA WriteHolds ==
    ASSUME Typed, StartWrite \/ SetVolume \/ Written, NEW s \in Ref, Holds(s)
    PROVE  Holds(s)'
  <1> USE TypedParts
  <1> DEFINE r == call.ref
  <1>1. /\ r \in Ref /\ r \in call.todo /\ r \in call.refs /\ call \in Call
        /\ call.at \in {"write", "writing", "written"} /\ call.at \in HandStages
        /\ ~Surveying /\ UNCHANGED feed /\ level[r] \in Level /\ call.op # "toggle"
        /\ call.op # "apply" => cache[r] \in Level
    BY DEF StartWrite, SetVolume, Written, At, Reaches, Shape, HandStages, HandlerTyped,
           QueuesTyped, Call, Surveying
  <1>2. Target \in Percent
    BY <1>1, TargetIsPercent DEF Shape
  <1>3. s = r => InHand(s) /\ Handled(s) /\ Latest(s)
    BY <1>1 DEF InHand, Holds
  <1>4. CASE StartWrite
    <2>1. /\ call.at = "write" /\ UNCHANGED <<level, notes, cache>>
          /\ call' = [call EXCEPT !.at = "writing"]
      BY <1>4 DEF StartWrite, At, Reaches, Goes
    <2>2. /\ call'.at = "writing" /\ call'.op = call.op /\ call'.refs = call.refs
          /\ call'.todo = call.todo /\ call'.ref = call.ref /\ call'.seen = call.seen
          /\ call'.ok = call.ok /\ call'.mute = call.mute /\ call'.audible = call.audible
      BY <1>1, <2>1, CallFields DEF Stage
    <2>3. ~Surveying'
      BY <2>2 DEF Surveying
    <2>4. CASE s # r
      BY <1>1, <2>1, <2>2, <2>3, <2>4, ElsewhereHolds
    <2>5. CASE s = r
      <3>1. Writing(s) /\ SameNews(s)
        BY <1>1, <1>3, <2>1, <2>5, NoNews DEF Handled
      <3>2. Handled(s)'
        BY <2>1, <2>2, <3>1 DEF Handled, Writing, Fresh, SameNews
      <3> QED
        BY <1>1, <1>3, <2>2, <2>3, <2>5, <3>1, <3>2, InHandHolds
        DEF InHand, HandStages, Touching, SameNews
    <2> QED
      BY <2>4, <2>5
  <1>5. CASE SetVolume
    <2> DEFINE new == [level[r] EXCEPT !.percent = Target]
    <2>1. /\ call.at = "writing" /\ UNCHANGED cache
          /\ \/ Sets(r, new) /\ call' = [call EXCEPT !.at = "written", !.ok = TRUE]
             \/ UNCHANGED <<level, notes>> /\ call' = [call EXCEPT !.at = "written", !.ok = FALSE]
      BY <1>5 DEF SetVolume, At, Reaches
    <2>2. /\ call'.at = "written" /\ call'.op = call.op /\ call'.refs = call.refs
          /\ call'.todo = call.todo /\ call'.ref = call.ref /\ call'.seen = call.seen
          /\ call'.arg = call.arg /\ call'.mute = call.mute /\ call'.audible = call.audible
          /\ \/ Sets(r, new) /\ call'.ok = TRUE
             \/ UNCHANGED <<level, notes>> /\ call'.ok = FALSE
      BY <1>1, <2>1 DEF Call
    <2>3. ~Surveying'
      BY <2>2 DEF Surveying
    <2>4. new \in Level /\ new.percent = Target /\ new.muted = level[r].muted
      BY <1>1, <1>2, LevelFields
    <2>5. Target' = Target
      BY <2>2 DEF Target
    <2> HIDE DEF new
    <2>6. CASE s # r
      BY <1>1, <2>1, <2>2, <2>3, <2>4, <2>6, ElsewhereHolds
    <2>7. CASE s = r
      <3>1. Writing(s)
        BY <1>3, <2>1, <2>7 DEF Handled
      <3>2. CASE Sets(r, new) /\ call'.ok = TRUE
        <4>1. /\ level'[s] = new /\ Latest(s)'
              /\ ~Pending(s) => Echoes(s)'
          BY <1>1, <1>3, <2>4, <2>7, <3>2, SetsNews
        <4>2. Handled(s)'
          BY <2>1, <2>2, <2>4, <2>5, <2>7, <3>1, <3>2, <4>1 DEF Handled, Writing, Wrote, Fresh
        <4> QED
          BY <1>1, <2>2, <2>3, <2>7, <4>1, <4>2, InHandHolds DEF InHand, HandStages, Touching
      <3>3. CASE UNCHANGED <<level, notes>> /\ call'.ok = FALSE
        <4>1. SameNews(s)
          BY <1>1, <3>3, NoNews
        <4>2. Handled(s)'
          BY <2>1, <2>2, <3>1, <3>3, <4>1 DEF Handled, Writing, Wrote, Fresh, SameNews
        <4> QED
          BY <1>1, <1>3, <2>2, <2>3, <2>7, <4>1, <4>2, InHandHolds
          DEF InHand, HandStages, Touching, SameNews
      <3> QED
        BY <2>2, <3>2, <3>3
    <2> QED
      BY <2>6, <2>7
  <1>6. CASE Written
    <2>1. /\ call.at = "written" /\ UNCHANGED <<level, notes>>
          /\ cache' = IF call.ok THEN [cache EXCEPT ![r].percent = Target] ELSE cache
          /\ IF call.op = "apply" /\ call.ok THEN call' = [call EXCEPT !.at = "mute"]
             ELSE call' = [Drops(r) EXCEPT !.at = "next"]
      BY <1>6 DEF Written, At, Reaches, Goes, GoesOn
    <2>2. /\ cache'[r] = IF call.ok THEN [cache[r] EXCEPT !.percent = Target] ELSE cache[r]
          /\ \A t \in Ref \ {r} : cache'[t] = cache[t]
      <3>1. CASE call.ok
        <4>1. cache' = [cache EXCEPT ![r] = [cache[r] EXCEPT !.percent = Target]]
          BY <2>1, <3>1
        <4>2. cache \in [Ref -> Level \cup {Unknown}]
          BY DEF HandlerTyped
        <4> QED
          BY <1>1, <3>1, <4>1, <4>2
      <3>2. CASE ~call.ok
        BY <2>1, <3>2
      <3> QED
        BY <3>1, <3>2
    <2>3. /\ call'.op = call.op /\ call'.refs = call.refs
          /\ call'.ok = call.ok /\ call'.mute = call.mute /\ call'.audible = call.audible
          /\ IF call.op = "apply" /\ call.ok
             THEN call'.at = "mute" /\ call'.todo = call.todo /\ call'.ref = call.ref
             ELSE call'.at = "next" /\ call'.todo = call.todo \ {r} /\ call' \in Call
      <3>1. "mute" \in Stage /\ "next" \in Stage
        BY DEF Stage
      <3>2. CASE call.op = "apply" /\ call.ok
        BY <1>1, <2>1, <3>1, <3>2, CallFields
      <3>3. CASE ~(call.op = "apply" /\ call.ok)
        <4>1. call' = [Drops(r) EXCEPT !.at = "next"]
          BY <2>1, <3>3
        <4> QED
          BY <1>1, <3>1, <3>3, <4>1, CallFields, CallSteps
      <3> QED
        BY <3>2, <3>3
    <2>4. ~Surveying'
      BY <2>3 DEF Surveying
    <2>5. CASE s # r
      BY <1>1, <2>1, <2>2, <2>3, <2>4, <2>5, ElsewhereHolds DEF HandStages
    <2>6. CASE s = r
      <3>1. Wrote(s) /\ SameNews(s) /\ Latest(s)'
        BY <1>1, <1>3, <2>1, <2>6, NoNews DEF Handled, SameNews
      <3>2. CASE call.op = "apply" /\ call.ok
        <4>1. cache'[s].percent = Target
          <5>1. cache[r] \in Level \cup {Unknown}
            BY <1>1 DEF HandlerTyped
          <5> QED
            BY <1>2, <2>2, <2>6, <3>2, <5>1 DEF Level, Unknown
        <4>2. Handled(s)'
          BY <2>1, <2>3, <3>1, <3>2, <4>1 DEF Handled, Wrote, Muting, SameNews
        <4> QED
          BY <1>1, <2>3, <2>4, <2>6, <3>1, <3>2, <4>2, InHandHolds DEF InHand, HandStages, Touching
      <3>3. CASE call.op = "apply" /\ ~call.ok
        BY <1>1, <2>1, <2>2, <2>3, <2>6, <3>1, <3>3, DoneHolds DEF Wrote, Fresh, SameNews
      <3>4. CASE call.op # "apply"
        <4>1. cache'[s] = level[s]
          <5>1. CASE call.ok
            <6>1. cache'[s] \in Level /\ cache'[s].percent = Target
                  /\ cache'[s].muted = cache[r].muted
              <7>1. /\ cache[r] \in Level
                    /\ cache'[s] = [percent |-> Target, muted |-> cache[r].muted]
                BY <1>1, <1>2, <2>2, <2>6, <3>4, <5>1, LevelFields
              <7> QED
                BY <1>2, <7>1 DEF Level
            <6>2. level[s].percent = Target /\ level[s].muted = cache[r].muted
              BY <1>1, <2>6, <3>1, <3>4, <5>1, LevelFields DEF Wrote
            <6> QED
              BY <1>1, <2>6, <6>1, <6>2, LevelFields
          <5>2. CASE ~call.ok
            BY <2>2, <2>6, <3>1, <3>4, <5>2 DEF Wrote
          <5> QED
            BY <5>1, <5>2
        <4> QED
          BY <1>1, <2>1, <2>3, <2>6, <3>1, <3>4, <4>1, DoneHolds
      <3> QED
        BY <3>2, <3>3, <3>4
    <2> QED
      BY <2>5, <2>6
  <1> QED
    BY <1>4, <1>5, <1>6

LEMMA MuteHolds ==
    ASSUME Typed, SetMute \/ Muted, NEW s \in Ref \ disturbed', Holds(s)
    PROVE  Holds(s)'
  <1> USE TypedParts
  <1> DEFINE r == call.ref
  <1>1. /\ r \in Ref /\ r \in call.todo /\ r \in call.refs /\ call \in Call
        /\ call.at \in {"setmute", "muted"} /\ call.at \in HandStages
        /\ ~Surveying /\ UNCHANGED feed /\ level[r] \in Level /\ call.seen \in Level
        /\ call.mute \in BOOLEAN /\ call.op \in {"toggle", "apply"}
    BY DEF SetMute, Muted, At, Reaches, Shape, HandStages, HandlerTyped, QueuesTyped, Call,
           Surveying
  <1>2. s = r => InHand(s) /\ Handled(s) /\ Latest(s)
    BY <1>1 DEF InHand, Holds
  <1>3. CASE /\ call.at = "setmute" /\ UNCHANGED cache /\ call' = [call EXCEPT !.at = "muted"]
             /\ Sets(r, [level[r] EXCEPT !.muted = call.mute])
    <2> DEFINE new == [level[r] EXCEPT !.muted = call.mute]
    <2>1. /\ call'.at = "muted" /\ call'.op = call.op /\ call'.refs = call.refs
          /\ call'.todo = call.todo /\ call'.ref = call.ref /\ call'.seen = call.seen
          /\ call'.ok = call.ok /\ call'.mute = call.mute /\ call'.audible = call.audible
      BY <1>1, <1>3, CallFields DEF Stage
    <2>2. ~Surveying'
      BY <2>1 DEF Surveying
    <2>3. Sets(r, new) /\ new \in Level /\ new.percent = level[r].percent /\ new.muted = call.mute
      BY <1>1, <1>3, LevelFields
    <2> HIDE DEF new
    <2>4. CASE s # r
      BY <1>1, <1>3, <2>1, <2>2, <2>3, <2>4, ElsewhereHolds
    <2>5. CASE s = r
      <3>1. level'[s] = new /\ Latest(s)'
        BY <1>1, <1>2, <2>3, <2>5, SetsNews
      <3>2. Handled(s)'
        BY <1>2, <1>3, <2>1, <2>3, <2>5, <3>1 DEF Handled, Muting, Mutes
      <3> QED
        BY <1>1, <2>1, <2>2, <2>5, <3>1, <3>2, InHandHolds DEF InHand, HandStages, Touching
    <2> QED
      BY <2>4, <2>5
  <1>4. CASE /\ call.at = "setmute" /\ UNCHANGED <<cache, level, notes>>
             /\ call' = [Drops(r) EXCEPT !.at = "next", !.ok = FALSE]
             /\ call.op = "apply" => r \in disturbed'
    <2>1. /\ call'.at = "next" /\ call'.op = call.op /\ call'.refs = call.refs
          /\ call'.todo = call.todo \ {r} /\ call'.ok = FALSE
          /\ call'.mute = call.mute /\ call'.audible = call.audible /\ call' \in Call
      BY <1>1, <1>4, CallFields, CallSteps DEF Stage
    <2>2. CASE s # r
      BY <1>1, <1>4, <2>1, <2>2, ElsewhereHolds DEF Surveying, HandStages
    <2>3. CASE s = r
      <3>1. Fresh(s) /\ SameNews(s)
        BY <1>1, <1>2, <1>4, <2>3, NoNews DEF Handled, Muting
      <3> QED
        BY <1>1, <1>2, <1>4, <2>1, <2>3, <3>1, DoneHolds DEF Fresh, SameNews
    <2> QED
      BY <2>2, <2>3
  <1>5. CASE Muted
    <2>1. /\ call.at = "muted" /\ UNCHANGED <<level, notes>>
          /\ call' = [Drops(r) EXCEPT !.at = "next"]
          /\ cache' = [cache EXCEPT ![r] = [call.seen EXCEPT !.muted = call.mute]]
      BY <1>5 DEF Muted, At, Reaches, GoesOn
    <2>2. /\ call'.at = "next" /\ call'.op = call.op /\ call'.refs = call.refs
          /\ call'.todo = call.todo \ {r} /\ call'.ok = call.ok
          /\ call'.mute = call.mute /\ call'.audible = call.audible /\ call' \in Call
      BY <1>1, <2>1, CallFields, CallSteps DEF Stage
    <2> DEFINE new == [call.seen EXCEPT !.muted = call.mute]
    <2>3. /\ new \in Level /\ new.percent = call.seen.percent /\ new.muted = call.mute
          /\ cache' = [cache EXCEPT ![r] = new]
      BY <1>1, <2>1, LevelFields
    <2> HIDE DEF new
    <2>4. cache'[r] = new /\ \A t \in Ref \ {r} : cache'[t] = cache[t]
      BY <1>1, <2>3, CommitsCache
    <2>5. CASE s # r
      BY <1>1, <2>1, <2>2, <2>4, <2>5, ElsewhereHolds DEF Surveying, HandStages
    <2>6. CASE s = r
      <3>1. Mutes(s) /\ Latest(s)'
        BY <1>1, <1>2, <2>1, <2>6, NoNews DEF Handled, SameNews
      <3>2. cache'[s] = level[s]
        BY <1>1, <2>3, <2>4, <2>6, <3>1, LevelFields DEF Mutes
      <3> QED
        BY <1>1, <2>1, <2>2, <2>6, <3>1, <3>2, DoneHolds DEF Mutes
    <2> QED
      BY <2>5, <2>6
  <1> QED
    BY <1>3, <1>4, <1>5 DEF SetMute, Reaches, Goes

LEMMA StepHolds == Typed /\ AllHold /\ [Next]_vars => AllHold'
  <1>1. Typed /\ AllHold /\ Handler => AllHold'
    <2> SUFFICES ASSUME Typed, AllHold, Handler, NEW s \in Ref \ disturbed' PROVE Holds(s)'
      BY DEF AllHold
    <2>1. disturbed \subseteq disturbed'
      BY DEF Handler, Seed, Surveyed, Decide, Unmute, Unmuted, StartWrite, SetVolume, Written,
             ReadBeforeMute, SetMute, Muted, Return, Survey, Read, At
    <2>2. Holds(s)
      BY <2>1 DEF AllHold
    <2>3. CASE ReadBeforeMute
      <3>1. call.ref \in Ref
        BY <2>3, TypedParts DEF ReadBeforeMute, At, Reaches, Shape, HandStages, HandlerTyped, Call
      <3> QED
        BY <2>2, <2>3, <3>1, ReadHolds
    <2> QED
      BY <2>2, <2>3, SurveyHolds, ReadHolds, UnmuteHolds, WriteHolds, MuteHolds DEF Handler
  <1>2. AllHold /\ UNCHANGED vars => AllHold'
    <2> SUFFICES ASSUME AllHold, UNCHANGED vars, NEW s \in Ref \ disturbed' PROVE Holds(s)'
      BY DEF AllHold
    <2> QED
      BY NoNews, NewsHolds DEF AllHold, vars
  <1> QED
    BY <1>1, <1>2, EventsHold, InvokeHolds DEF Next

-----------------------------------------------------------------------------
(* What follows for the handlers *)

LEMMA AlwaysHolds == Spec => [](Typed /\ AllHold)
  BY InitTyped, InitHolds, StepTyped, StepHolds, PTL DEF Spec

(* volume.go, VolumeHandlers: the cache spares a handler its own reads,    *)
(* so once a stream that is not disturbed has come to rest, the cache has  *)
(* the level the server has, though every write comes back late as an      *)
(* event and those that come during a write are dropped.                   *)
THEOREM CacheSettles == Spec => []Settles
  <1>1. Typed /\ AllHold => Settles
    <2> SUFFICES ASSUME AllHold, NEW r \in Ref \ disturbed, ~Pending(r), ~Touching(r)
                 PROVE  cache[r] \in {Unknown, level[r]}
      BY DEF Settles, Settled
    <2> QED
      BY DEF AllHold, Holds, Resting
  <1> QED
    BY <1>1, AlwaysHolds, PTL

(* volume.go, ensureUnmuted: turning a knob on a muted stream is not       *)
(* "a dead end": it is audible when its volume is written.                 *)
THEOREM KnobsAreHeard == Spec => []Heard
  <1>1. Typed /\ AllHold => Heard
    <2> SUFFICES ASSUME Typed, AllHold, call.op \in {"adjust", "set"},
                        call.at \in {"write", "writing", "written"}, call.ref \notin disturbed
                 PROVE  ~level[call.ref].muted
      BY DEF Heard
    <2>1. call.ref \in Ref
      BY TypedParts DEF HandlerTyped, Call, Shape, HandStages
    <2> QED
      BY <2>1 DEF AllHold, Holds, InHand, HandStages, Handled, Writing, Wrote
  <1> QED
    BY <1>1, AlwaysHolds, PTL

(* volume.go, executeMuteToggle: the streams of a target "converge" on all *)
(* muted or all audible, whatever they were and in whatever order they are *)
(* looked at and written, if no request failed.                            *)
THEOREM TogglesConverge == Spec => []TogglesAlike
  <1>1. Typed /\ AllHold => TogglesAlike
    <2> SUFFICES ASSUME Typed, AllHold, Toggled, call.refs \cap disturbed = {},
                        NEW r \in call.refs, NEW s \in call.refs
                 PROVE  level[r].muted = level[s].muted
      BY DEF TogglesAlike, Alike
    <2>1. \A t \in call.refs : t \in Ref \ disturbed
      BY TypedParts DEF HandlerTyped, Call
    <2>2. \A t \in call.refs : level[t].muted = call.mute
      BY <2>1 DEF AllHold, Holds, Toggles, Toggled, Surveying
    <2> QED
      BY <2>2
  <1> QED
    BY <1>1, AlwaysHolds, PTL

(* volume.go, ObserveState: a detent is never written from a level that an *)
(* event has set back, so that detents add up.                             *)
THEOREM DetentsAddUp == Spec => DetentCounts
  <1>1. Typed /\ AllHold /\ [Next]_vars => [\A r \in Ref \ disturbed : StepsFromServer(r)]_vars
    <2> SUFFICES ASSUME Typed, AllHold, Next, NEW r \in Ref \ disturbed, Detent(r), call'.ok
                 PROVE  level'[r].percent = Clamped(level[r].percent + call.arg)
      BY DEF StepsFromServer
    <2>1. SetVolume
      BY DEF Detent, Next, Outside, Fetch, ObserveState, Invoke, Execute, Handler, Seed, Surveyed,
             Decide, Unmute, Unmuted, StartWrite, Written, ReadBeforeMute, SetMute, Muted, Return,
             Survey, Read, At, Reaches
    <2>2. call \in Call /\ level \in [Ref -> Level]
      BY TypedParts DEF HandlerTyped, QueuesTyped
    <2>3. Sets(r, [level[r] EXCEPT !.percent = Target])
      <3>1. \/ Sets(r, [level[r] EXCEPT !.percent = Target])
            \/ call' = [call EXCEPT !.at = "written", !.ok = FALSE]
        BY <2>1 DEF SetVolume, Detent
      <3> QED
        BY <2>2, <3>1 DEF Call
    <2>4. call.seen.percent = level[r].percent
      BY DEF Detent, AllHold, Holds, InHand, HandStages, Handled, Writing
    <2>5. level'[r].percent = Target
      <3>1. level'[r] = [level[r] EXCEPT !.percent = Target]
        BY <2>2, <2>3 DEF Sets
      <3>2. level[r] \in Level
        BY <2>2
      <3> QED
        BY <3>1, <3>2 DEF Level
    <2> QED
      BY <2>4, <2>5 DEF Target, Detent
  <1> QED
    BY <1>1, AlwaysHolds, PTL DEF Spec, DetentCounts

=============================================================================
