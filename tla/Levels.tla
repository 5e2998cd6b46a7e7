-------------------------------- MODULE Levels --------------------------------
(***************************************************************************)
(* The level cache of internal/actions/volume.go between its two writers:  *)
(* the dispatcher goroutine, which runs one handler at a time against the  *)
(* PulseAudio server, and Run's goroutine, which folds the change events   *)
(* of audio/subscribe.go into the cache (ObserveState).  The server tells  *)
(* of every change, its own clients' included, and the state an event      *)
(* carries is fetched after the event arrives, so a handler's writes come  *)
(* back as echoes that are late, and older than the cache.                 *)
(*                                                                         *)
(* Refs are streams: devices have no echo (handleAudioEvent), only a       *)
(* refresh on the dispatcher goroutine.  A request to the server and what  *)
(* the handler does with the reply are two steps.                          *)
(***************************************************************************)
EXTENDS Integers, Sequences

CONSTANTS Ref,         \* the streams
          MaxPercent,  \* VolumeOptions.MaxPercent, in coarse units
          Initial,     \* the levels the server may start with
          Ops,         \* the handlers that are invoked
          Fails,       \* whether a request to the server may fail
          FeedSize,    \* the depth of a subscriber's channel (32)
          MaxCalls,    \* bound: invocations
          MaxOutside   \* bound: changes made by somebody else

Op == {"adjust", "set", "toggle", "apply"}
Percent == 0..MaxPercent
Level == [percent : Percent, muted : BOOLEAN]

ASSUME LevelsAssumption ==
    /\ MaxPercent \in Nat
    /\ Initial \subseteq Level
    /\ Ops \subseteq Op
    /\ Fails \in BOOLEAN
    /\ FeedSize \in Nat \ {0}
    /\ MaxCalls \in Nat /\ MaxOutside \in Nat

VARIABLES level,      \* what the server has
          cache,      \* cachedLevel.state, Unknown until known is set
          inFlight,   \* cachedLevel.inFlight
          notes,      \* change events of the server, not handled yet
          feed,       \* audio events with the state fetched for them
          call,       \* the handler the dispatcher is running
          calls,      \* how many were run
          outside,    \* how many changes somebody else made
          disturbed   \* refs on which a handler met another change's event,
                      \* or a scene was left half applied

vars == <<level, cache, inFlight, notes, feed, call, calls, outside, disturbed>>

(* A cache entry that is made by a write starts unmuted, as Go's zero does. *)
Unknown == [percent |-> -1, muted |-> FALSE]

Stage == {"idle", "survey", "surveyed", "next", "seed", "unmute", "unmuted",
          "write", "writing", "written", "mute", "setmute", "muted"}

Nobody == "nobody"

(* op on refs, those in todo still to do; ref is the one in hand, seen the *)
(* state getCached returned for it and then where that call returns to.    *)
Call == [op : Op, refs : SUBSET Ref, todo : SUBSET Ref, at : Stage, then : Stage,
         ref : Ref \cup {Nobody}, seen : Level \cup {Unknown}, ok : BOOLEAN,
         arg : Int, mute : BOOLEAN, audible : SUBSET Ref]

NoCall == [op |-> "set", refs |-> {}, todo |-> {}, at |-> "idle", then |-> "idle",
           ref |-> Nobody, seen |-> Unknown, ok |-> TRUE,
           arg |-> 0, mute |-> FALSE, audible |-> {}]

Init ==
    /\ level \in [Ref -> Initial]
    /\ cache = [r \in Ref |-> Unknown]
    /\ inFlight = [r \in Ref |-> 0]
    /\ notes = <<>>
    /\ feed = <<>>
    /\ call = NoCall
    /\ calls = 0
    /\ outside = 0
    /\ disturbed = {}

Clamped(p) == IF p < 0 THEN 0 ELSE IF p > MaxPercent THEN MaxPercent ELSE p

Pending(r) ==
    \/ \E i \in 1..Len(notes) : notes[i] = r
    \/ \E i \in 1..Len(feed) : feed[i].ref = r

Touching(r) == call.at # "idle" /\ r \in call.refs

-----------------------------------------------------------------------------
(* The server and the event path *)

(* The server tells its subscribers of a change, and of nothing else. *)
Sets(r, l) ==
    /\ level' = [level EXCEPT ![r] = l]
    /\ notes' = IF level[r] = l THEN notes ELSE Append(notes, r)

(* Another mixer, or the application itself, moves a level. *)
Outside(r, l) ==
    /\ outside < MaxOutside
    /\ outside' = outside + 1
    /\ level[r] # l
    /\ Sets(r, l)
    /\ disturbed' = IF Touching(r) THEN disturbed \cup {r} ELSE disturbed
    /\ UNCHANGED <<cache, inFlight, feed, call, calls>>

(* handleStreamEvent asks for the state now; fanOut drops what a slow      *)
(* subscriber has no room for.                                             *)
Fetch ==
    /\ notes # <<>>
    /\ notes' = Tail(notes)
    /\ \/ /\ Len(feed) < FeedSize
          /\ feed' = Append(feed, [ref |-> Head(notes), state |-> level[Head(notes)]])
          /\ UNCHANGED disturbed
       \/ /\ Len(feed) = FeedSize
          /\ disturbed' = disturbed \cup {Head(notes)}
          /\ UNCHANGED feed
    /\ UNCHANGED <<level, cache, inFlight, call, calls, outside>>

ObserveState ==
    /\ feed # <<>>
    /\ feed' = Tail(feed)
    /\ cache' = IF inFlight[Head(feed).ref] > 0 THEN cache
                ELSE [cache EXCEPT ![Head(feed).ref] = Head(feed).state]
    /\ UNCHANGED <<level, inFlight, notes, call, calls, outside, disturbed>>

-----------------------------------------------------------------------------
(* The dispatcher goroutine *)

Reaches(stage) == call.at = stage /\ UNCHANGED <<calls, outside, feed>>

At(stage) == Reaches(stage) /\ UNCHANGED disturbed

Goes(stage) == call' = [call EXCEPT !.at = stage]

(* The handler is done with the ref in hand, and with what it read of it. *)
Drops(r) == [call EXCEPT !.todo = @ \ {r}, !.ref = Nobody, !.seen = Unknown, !.then = "idle"]

GoesOn == call' = [Drops(call.ref) EXCEPT !.at = "next"]

Execute(op, refs, arg, mute) ==
    /\ call.at = "idle"
    /\ calls < MaxCalls
    /\ calls' = calls + 1
    /\ call' = [NoCall EXCEPT !.op = op, !.refs = refs, !.todo = refs,
                              !.at = IF op = "toggle" THEN "survey" ELSE "next",
                              !.arg = arg, !.mute = mute]
    /\ disturbed' = disturbed \cup {r \in refs : Pending(r)}
    /\ UNCHANGED <<level, cache, inFlight, notes, feed, outside>>

(* getCached: the cache, or what the server has the first time.  A handler *)
(* whose GetVolume fails skips the ref, and a mute toggle gives up.        *)
GetCached(r, then) ==
    /\ \/ /\ cache[r] # Unknown
          /\ call' = [call EXCEPT !.ref = r, !.at = then, !.seen = cache[r]]
       \/ /\ cache[r] = Unknown
          /\ call' = [call EXCEPT !.ref = r, !.at = "seed", !.then = then, !.seen = level[r]]
       \/ /\ cache[r] = Unknown
          /\ Fails
          /\ call' = IF then = "surveyed" THEN NoCall
                     ELSE [Drops(r) EXCEPT !.at = "next"]
    /\ UNCHANGED <<level, cache, inFlight, notes>>

Seed ==
    /\ At("seed")
    /\ cache' = [cache EXCEPT ![call.ref] = call.seen]
    /\ Goes(call.then)
    /\ UNCHANGED <<level, inFlight, notes>>

(* executeMuteToggle looks at every ref, then mutes those that are not     *)
(* muted, or unmutes all of them if there are none.                        *)
Survey(r) == At("survey") /\ r \in call.todo /\ GetCached(r, "surveyed")

Surveyed ==
    /\ At("surveyed")
    /\ call' = [Drops(call.ref) EXCEPT
                   !.at = "survey",
                   !.audible = IF call.seen.muted THEN @ ELSE @ \cup {call.ref}]
    /\ UNCHANGED <<level, cache, inFlight, notes>>

(* Mutant of Decide: it picks the refs that are already as they should be. *)
DecideTheRest ==
    /\ At("survey")
    /\ call.todo = {}
    /\ call' = [call EXCEPT !.at = "next", !.mute = call.audible # {},
                            !.todo = call.refs \ call.audible]
    /\ UNCHANGED <<level, cache, inFlight, notes>>

Decide ==
    /\ At("survey")
    /\ call.todo = {}
    /\ call' = [call EXCEPT !.at = "next", !.mute = call.audible # {},
                            !.todo = IF call.audible # {} THEN call.audible ELSE call.refs]
    /\ UNCHANGED <<level, cache, inFlight, notes>>

(* The next ref of executeAdjust, executeSet and executeFollow is read, of *)
(* executeMuteToggle goes to writeMute and of executeApply to writeVolume. *)
Read(r) ==
    /\ At("next")
    /\ r \in call.todo
    /\ \/ call.op \in {"adjust", "set"} /\ GetCached(r, "unmute")
       \/ call.op = "toggle" /\ GetCached(r, "setmute")
       \/ /\ call.op = "apply"
          /\ call' = [call EXCEPT !.ref = r, !.at = "write"]
          /\ UNCHANGED <<level, cache, inFlight, notes>>

(* Mutant of Unmute: it unmutes the streams that are audible. *)
UnmuteAudible ==
    /\ At("unmute")
    /\ Goes("write")
    /\ Sets(call.ref, IF call.seen.muted THEN level[call.ref] ELSE [level[call.ref] EXCEPT !.muted = FALSE])
    /\ UNCHANGED <<cache, inFlight>>

(* ensureUnmuted *)
Unmute ==
    /\ At("unmute")
    /\ \/ ~call.seen.muted /\ Goes("write") /\ UNCHANGED <<level, notes>>
       \/ call.seen.muted /\ Goes("unmuted") /\ Sets(call.ref, [level[call.ref] EXCEPT !.muted = FALSE])
       \/ call.seen.muted /\ Fails /\ GoesOn /\ UNCHANGED <<level, notes>>
    /\ UNCHANGED <<cache, inFlight>>

(* Mutant of Unmuted: the new state is left for writeVolume to commit. *)
UnmutedUncommitted ==
    /\ At("unmuted")
    /\ Goes("write")
    /\ UNCHANGED <<level, cache, inFlight, notes>>

Unmuted ==
    /\ At("unmuted")
    /\ cache' = [cache EXCEPT ![call.ref] = [call.seen EXCEPT !.muted = FALSE]]
    /\ Goes("write")
    /\ UNCHANGED <<level, inFlight, notes>>

(* writeVolume *)
Target == IF call.op = "adjust" THEN Clamped(call.seen.percent + call.arg) ELSE Clamped(call.arg)

StartWrite ==
    /\ At("write")
    /\ inFlight' = [inFlight EXCEPT ![call.ref] = @ + 1]
    /\ Goes("writing")
    /\ UNCHANGED <<level, cache, notes>>

SetVolume ==
    /\ At("writing")
    /\ \/ /\ Sets(call.ref, [level[call.ref] EXCEPT !.percent = Target])
          /\ call' = [call EXCEPT !.at = "written", !.ok = TRUE]
       \/ /\ Fails
          /\ call' = [call EXCEPT !.at = "written", !.ok = FALSE]
          /\ UNCHANGED <<level, notes>>
    /\ UNCHANGED <<cache, inFlight>>

(* Mutants of Written: it leaves the new level to the echo, or the write   *)
(* in flight.                                                              *)
WrittenByEcho ==
    /\ At("written")
    /\ inFlight' = [inFlight EXCEPT ![call.ref] = @ - 1]
    /\ IF call.op = "apply" /\ call.ok THEN Goes("mute") ELSE GoesOn
    /\ UNCHANGED <<level, cache, notes>>

WrittenInFlight ==
    /\ At("written")
    /\ cache' = IF call.ok THEN [cache EXCEPT ![call.ref].percent = Target] ELSE cache
    /\ IF call.op = "apply" /\ call.ok THEN Goes("mute") ELSE GoesOn
    /\ UNCHANGED <<level, inFlight, notes>>

Written ==
    /\ At("written")
    /\ inFlight' = [inFlight EXCEPT ![call.ref] = @ - 1]
    /\ cache' = IF call.ok THEN [cache EXCEPT ![call.ref].percent = Target] ELSE cache
    /\ IF call.op = "apply" /\ call.ok THEN Goes("mute") ELSE GoesOn
    /\ UNCHANGED <<level, notes>>

(* writeMute: the percent it commits is the one it read first. *)
ReadBeforeMute == At("mute") /\ GetCached(call.ref, "setmute")

SetMute ==
    /\ Reaches("setmute")
    /\ \/ /\ Goes("muted")
          /\ Sets(call.ref, [level[call.ref] EXCEPT !.muted = call.mute])
          /\ UNCHANGED disturbed
       \/ /\ Fails
          /\ call' = [Drops(call.ref) EXCEPT !.at = "next", !.ok = FALSE]
          /\ disturbed' = IF call.op = "apply" THEN disturbed \cup {call.ref} ELSE disturbed
          /\ UNCHANGED <<level, notes>>
    /\ UNCHANGED <<cache, inFlight>>

Muted ==
    /\ At("muted")
    /\ cache' = [cache EXCEPT ![call.ref] = [call.seen EXCEPT !.muted = call.mute]]
    /\ GoesOn
    /\ UNCHANGED <<level, inFlight, notes>>

Return ==
    /\ At("next")
    /\ call.todo = {}
    /\ call' = NoCall
    /\ UNCHANGED <<level, cache, inFlight, notes>>

-----------------------------------------------------------------------------

Invoke ==
    \E op \in Ops, refs \in SUBSET Ref \ {{}}, arg \in {-1} \cup Percent, mute \in BOOLEAN :
        /\ op = "adjust" => arg \in {-1, 1}
        /\ op \in {"set", "apply"} => arg \in Percent
        /\ op = "toggle" => arg = 0
        /\ op # "apply" => ~mute
        /\ Execute(op, refs, arg, mute)

Handler ==
    \/ Seed
    \/ Surveyed
    \/ Decide
    \/ Unmute
    \/ Unmuted
    \/ StartWrite
    \/ SetVolume
    \/ Written
    \/ ReadBeforeMute
    \/ SetMute
    \/ Muted
    \/ Return
    \/ \E r \in Ref : Survey(r) \/ Read(r)

Next ==
    \/ \E r \in Ref, l \in Level : Outside(r, l)
    \/ Fetch
    \/ ObserveState
    \/ Invoke
    \/ Handler

Spec == Init /\ [][Next]_vars

-----------------------------------------------------------------------------
(* Properties *)

(* Every variable keeps its type; one goroutine writes, so a ref has at    *)
(* most one write in flight.                                               *)
TypeOK ==
    /\ level \in [Ref -> Level]
    /\ cache \in [Ref -> Level \cup {Unknown}]
    /\ inFlight \in [Ref -> 0..1]
    /\ notes \in Seq(Ref)
    /\ feed \in Seq([ref : Ref, state : Level])
    /\ call \in Call
    /\ calls \in 0..MaxCalls
    /\ outside \in 0..MaxOutside
    /\ disturbed \in SUBSET Ref

(* volume.go, VolumeHandlers: the cache exists so that a handler need not  *)
(* ask the server.  When no handler works on a ref and no event about it   *)
(* is under way, the cache has what the server has: the events dropped     *)
(* while a write was in flight are made good by what the write committed.  *)
(* The exception is a ref on which a handler met the event of an earlier   *)
(* change, which this file does not tell apart from a change by others.    *)
Settled(r) == ~Pending(r) /\ ~Touching(r) => cache[r] \in {Unknown, level[r]}

Settles == \A r \in Ref \ disturbed : Settled(r)

(* volume.go, ObserveState: no detent may "silently undo the previous      *)
(* one": what a detent writes is one step from what the server has.  A     *)
(* stream is disturbed by the late echo of an own write too, which the     *)
(* guard the comment is about does not catch.                              *)
Detent(r) == call.op = "adjust" /\ call.ref = r /\ call.at = "writing" /\ call'.at = "written"

StepsFromServer(r) ==
    Detent(r) /\ call'.ok => level'[r].percent = Clamped(level[r].percent + call.arg)

DetentCounts == [][\A r \in Ref \ disturbed : StepsFromServer(r)]_vars

(* volume.go, ensureUnmuted: "Turning a knob on a muted target and hearing *)
(* nothing is a dead end", so the stream is audible when a handler that    *)
(* unmutes first comes to write its volume.                                *)
Heard ==
    call.op \in {"adjust", "set"} /\ call.at \in {"write", "writing", "written"}
        => call.ref \in disturbed \/ ~level[call.ref].muted

(* volume.go, executeMuteToggle: the streams of a target converge "instead *)
(* of oscillating" out of phase: a toggle that returns no error leaves     *)
(* them all muted or all audible.                                          *)
Toggled == call.op = "toggle" /\ call.ok /\ call.at = "next" /\ call.todo = {}

Alike(S) == \A r, s \in S : level[r].muted = level[s].muted

TogglesAlike == Toggled /\ call.refs \cap disturbed = {} => Alike(call.refs)
=============================================================================
