-------------------------------- MODULE Hub --------------------------------
(***************************************************************************)
(* The event hub (internal/api/hub.go): providers change their state and   *)
(* mark it dirty, Run builds snapshots of it no more often than once in an *)
(* interval and hands each to every stream's mailbox, and the handler of a *)
(* stream (stream_sse.go) writes what it finds there.                      *)
(*                                                                         *)
(* A snapshot is what cmd/knobd's daemonState reads of one provider after  *)
(* the other: the engine, the configuration, and the others.  Of a         *)
(* provider there is only how often it has changed; the media tracker      *)
(* stands for the connections, the level cache and the Spotify account,    *)
(* which also change first and notify afterwards.                          *)
(***************************************************************************)
EXTENDS Integers, Sequences

CONSTANTS Client,
          QueueDepth,   \* subscriberEventQueueDepth
          MaxChanges,   \* bound: changes of the state, by anybody
          MaxConnects   \* bound: how often clients connect

ASSUME HubAssumption == /\ QueueDepth \in Nat \ {0}
                        /\ MaxChanges \in Nat /\ MaxConnects \in Nat

VARIABLES value,      \* how often each provider has changed
          owing,      \* a provider has changed and has yet to notify
          setter,     \* where configStore.SetConfig is
          dirty,      \* dirtyCh
          at, view,   \* where Run is, and what it has read so far
          throttled,  \* less than flushInterval since lastFlush
          timer,      \* timerC
          stream,     \* the handler of each client's GET /events, and its mailbox
          stopped,    \* the daemon's context
          broadcasts, \* how many events there have been
          shown, told,        \* history: the last state and event written to a client
          silent,             \* history: a change nobody notifies the hub of
          changes, connects   \* counters of the bounds

daemon == <<value, owing, setter, silent>>
run == <<at, view, throttled, timer>>
written == <<shown, told>>
vars == <<daemon, dirty, run, stream, stopped, broadcasts, written, changes, connects>>

Engine == 1
Config == 2
Media == 3
Source == {Engine, Config, Media}

(* What has been read so far, in the order of daemonState.State. *)
NoState == <<>>
Complete(v) == Len(v) = 3

Mailbox == [at : {"away", "builds", "streams"}, view : Seq(Nat), state : Seq(Nat),
            events : Seq(Nat), closed : BOOLEAN]
Away == [at |-> "away", view |-> NoState, state |-> NoState, events |-> <<>>, closed |-> FALSE]

Init ==
    /\ value = [s \in Source |-> 0] /\ owing = FALSE /\ setter = "idle"
    /\ dirty = FALSE
    /\ at = "selects" /\ view = NoState /\ throttled = FALSE /\ timer = "off"
    /\ stream = [c \in Client |-> Away]
    /\ stopped = FALSE /\ broadcasts = 0
    /\ shown = [c \in Client |-> NoState] /\ told = [c \in Client |-> 0]
    /\ silent = FALSE /\ changes = 0 /\ connects = 0

-----------------------------------------------------------------------------
(* The hub's mailboxes *)

Subscribed == {c \in Client : stream[c].at # "away"}

(* Mutant of SentEvent: what does not fit is dropped. *)
SentEventOrDropped(box) ==
    IF Len(box.events) < QueueDepth THEN [box EXCEPT !.events = Append(@, broadcasts + 1)]
    ELSE box

SentEvent(box) ==
    IF Len(box.events) < QueueDepth
    THEN [box EXCEPT !.events = Append(@, broadcasts + 1)]
    ELSE [box EXCEPT !.closed = TRUE]

Broadcast ==
    /\ broadcasts' = broadcasts + 1
    /\ stream' = [c \in Client |-> IF c \in Subscribed THEN SentEvent(stream[c])
                                   ELSE stream[c]]

SentState(box, st) == [box EXCEPT !.state = st]

-----------------------------------------------------------------------------
(* The providers *)

Changed == changes < MaxChanges /\ changes' = changes + 1

Bumps(s) == value' = [value EXCEPT ![s] = @ + 1]

NotifyStateDirty == dirty' = TRUE /\ silent' = FALSE

Silently == silent' = TRUE /\ UNCHANGED dirty

(* An arm of the engine's Run ends in markLEDsDirty before it serves a     *)
(* snapshot again.                                                         *)
EngineChanges ==
    /\ Changed /\ Bumps(Engine) /\ NotifyStateDirty
    /\ UNCHANGED <<owing, setter, run, stream, stopped, broadcasts, written, connects>>

(* ... and the arm that captures an input for learn tells of it first. *)
LearnCaptures ==
    /\ Changed /\ Broadcast /\ Bumps(Engine) /\ NotifyStateDirty
    /\ UNCHANGED <<owing, setter, run, stopped, written, connects>>

OtherChanges ==
    /\ Changed /\ Bumps(Media) /\ owing' = TRUE
    /\ UNCHANGED <<setter, dirty, run, stream, stopped, broadcasts, written, silent, connects>>

OtherNotifies ==
    /\ owing /\ owing' = FALSE /\ NotifyStateDirty
    /\ UNCHANGED <<value, setter, run, stream, stopped, broadcasts, written, changes, connects>>

(* Tracker.Cycle, and a level cached by a handler that then does not write *)
(* it, or fails to.                                                        *)
OtherChangesSilently ==
    /\ Changed /\ Bumps(Media) /\ Silently
    /\ UNCHANGED <<owing, setter, run, stream, stopped, broadcasts, written, connects>>

(* configStore.SetConfig and apply: the store is locked until the file is  *)
(* saved or the engine is rolled back.                                     *)
Locked == setter \in {"offers", "saves", "rolls"}

SetConfig(from, to) ==
    /\ setter = from /\ setter' = to
    /\ UNCHANGED <<owing, run, stopped, written, connects>>

Locks ==
    /\ SetConfig("idle", "offers")
    /\ Changed
    /\ UNCHANGED <<value, silent, dirty, stream, broadcasts>>

EngineTakes(from, to) ==
    /\ SetConfig(from, to)
    /\ Bumps(Engine) /\ NotifyStateDirty
    /\ UNCHANGED <<stream, broadcasts, changes>>

Commits ==
    /\ SetConfig("saves", "announces")
    /\ Bumps(Config)
    /\ UNCHANGED <<silent, dirty, stream, broadcasts, changes>>

SaveFails ==
    /\ SetConfig("saves", "rolls")
    /\ UNCHANGED <<value, silent, dirty, stream, broadcasts, changes>>

(* The caller's context ends before the engine takes the configuration. *)
GivesUp ==
    /\ SetConfig("offers", "idle") \/ SetConfig("rolls", "idle")
    /\ UNCHANGED <<value, silent, dirty, stream, broadcasts, changes>>

Announces ==
    /\ SetConfig("announces", "idle")
    /\ Broadcast
    /\ UNCHANGED <<value, silent, dirty, changes>>

Sets == EngineTakes("offers", "saves") \/ Commits \/ SaveFails
        \/ EngineTakes("rolls", "idle") \/ Announces

-----------------------------------------------------------------------------
(* daemonState.State *)

(* Mutant of Readable: the configuration is read without its lock. *)
ReadableAlways(s) == s \in Source

Readable(s) == s # Config \/ ~Locked

Reads(v) == Append(v, value[Len(v) + 1])

-----------------------------------------------------------------------------
(* Hub.Run *)

Selecting == at = "selects" /\ ~stopped

Steps == UNCHANGED <<daemon, stopped, broadcasts, written, changes, connects>>

Builds == at' = "builds" /\ view' = NoState

TakesDirty ==
    /\ Selecting /\ dirty /\ dirty' = FALSE
    /\ Steps /\ UNCHANGED <<throttled, stream>>

IgnoresDirty == TakesDirty /\ Subscribed = {} /\ UNCHANGED <<at, view, timer>>

PublishesNow == TakesDirty /\ Subscribed # {} /\ ~throttled /\ Builds /\ UNCHANGED timer

(* The rest of the interval, unless the timer is set already. *)
ArmsTimer ==
    /\ TakesDirty /\ Subscribed # {} /\ throttled
    /\ timer' = IF timer = "off" THEN "armed" ELSE timer
    /\ UNCHANGED <<at, view>>

TimerFires ==
    /\ Selecting /\ timer = "due" /\ timer' = "off"
    /\ Builds
    /\ Steps /\ UNCHANGED <<dirty, throttled, stream>>

(* publishState; the engine serves no snapshots after the end. *)
ReadsNext ==
    /\ at = "builds" /\ ~Complete(view)
    /\ Readable(Len(view) + 1)
    /\ view' = Reads(view)
    /\ Steps /\ UNCHANGED <<dirty, at, throttled, timer, stream>>

Publishes ==
    /\ at = "builds" /\ Complete(view)
    /\ stream' = [c \in Client |-> IF c \in Subscribed THEN SentState(stream[c], view)
                                   ELSE stream[c]]
    /\ at' = "selects" /\ view' = NoState
    /\ throttled' = TRUE
    /\ Steps /\ UNCHANGED <<dirty, timer>>

Ends ==
    /\ stopped /\ at # "ended" /\ at' = "ended"
    /\ view' = NoState
    /\ stream' = [c \in Client |-> [stream[c] EXCEPT !.closed = c \in Subscribed]]
    /\ Steps /\ UNCHANGED <<dirty, throttled, timer>>

Run == IgnoresDirty \/ PublishesNow \/ ArmsTimer \/ TimerFires \/ ReadsNext \/ Publishes \/ Ends

IntervalEnds ==
    /\ throttled /\ throttled' = FALSE
    /\ timer' = IF timer = "armed" THEN "due" ELSE timer
    /\ UNCHANGED <<daemon, dirty, at, view, stream, stopped, broadcasts, written,
                   changes, connects>>

-----------------------------------------------------------------------------
(* handleEvents, for one client's connections one after the other *)

Handles(c) == UNCHANGED <<daemon, dirty, run, stopped, broadcasts, changes>>

(* Subscribes, and then says hello. *)
Connects(c) ==
    /\ stream[c].at = "away" /\ ~stopped
    /\ connects < MaxConnects /\ connects' = connects + 1
    /\ stream' = [stream EXCEPT ![c].at = "builds"]
    /\ told' = [told EXCEPT ![c] = broadcasts]
    /\ shown' = [shown EXCEPT ![c] = NoState]
    /\ Handles(c)

BuildsNext(c) ==
    /\ stream[c].at = "builds" /\ ~Complete(stream[c].view)
    /\ Readable(Len(stream[c].view) + 1)
    /\ stream' = [stream EXCEPT ![c].view = Reads(@)]
    /\ UNCHANGED <<written, connects>> /\ Handles(c)

WritesFirst(c) ==
    /\ stream[c].at = "builds" /\ Complete(stream[c].view)
    /\ stream' = [stream EXCEPT ![c].at = "streams", ![c].view = NoState]
    /\ shown' = [shown EXCEPT ![c] = stream[c].view]
    /\ UNCHANGED <<told, connects>> /\ Handles(c)

WritesState(c) ==
    /\ stream[c].at = "streams" /\ stream[c].state # NoState
    /\ stream' = [stream EXCEPT ![c].state = NoState]
    /\ shown' = [shown EXCEPT ![c] = stream[c].state]
    /\ UNCHANGED <<told, connects>> /\ Handles(c)

WritesEvent(c) ==
    /\ stream[c].at = "streams" /\ stream[c].events # <<>>
    /\ stream' = [stream EXCEPT ![c].events = Tail(@)]
    /\ told' = [told EXCEPT ![c] = Head(stream[c].events)]
    /\ UNCHANGED <<shown, connects>> /\ Handles(c)

Leaves(c) ==
    /\ stream' = [stream EXCEPT ![c] = Away]
    /\ UNCHANGED <<written, connects>> /\ Handles(c)

(* Closed by the hub, or the daemon's context is over. *)
IsClosed(c) == stream[c].at = "streams" /\ (stream[c].closed \/ stopped) /\ Leaves(c)

(* The state cannot be built after the end. *)
FirstFails(c) == stream[c].at = "builds" /\ stopped /\ Leaves(c)

Disconnects(c) == stream[c].at # "away" /\ Leaves(c)

Serves(c) == \/ BuildsNext(c) \/ WritesFirst(c) \/ WritesState(c) \/ WritesEvent(c)
             \/ IsClosed(c) \/ FirstFails(c)

Stops ==
    /\ ~stopped /\ stopped' = TRUE
    /\ UNCHANGED <<daemon, dirty, run, stream, broadcasts, written, changes, connects>>

-----------------------------------------------------------------------------
Provides == EngineChanges \/ LearnCaptures \/ OtherChanges \/ OtherNotifies
            \/ OtherChangesSilently \/ Locks \/ Sets \/ GivesUp

Next == Provides \/ Run \/ IntervalEnds \/ Stops
        \/ \E c \in Client : Connects(c) \/ Serves(c) \/ Disconnects(c)

Spec == Init /\ [][Next]_vars

(* The goroutines run, the interval ends, a client reads what is written   *)
(* to it, and a handler picks among the arms that are ready at random.     *)
Fairness ==
    /\ WF_vars(Run) /\ WF_vars(IntervalEnds)
    /\ WF_vars(OtherNotifies) /\ WF_vars(Sets)
    /\ \A c \in Client : WF_vars(Serves(c))

FairSpec == Spec /\ Fairness

-----------------------------------------------------------------------------
(* Properties *)

Current == [i \in 1 .. 3 |-> value[i]]

(* hub.go, Run: "drop the stale one, keep the newest": whatever changed    *)
(* while a snapshot was built, in the interval, or as a client connected,  *)
(* a client that stays connected in the end shows the state as it is, but  *)
(* for a change the hub is not told of; and no stream outlives the daemon. *)
CaughtUp(c) ==
    /\ stopped => stream[c].at = "away"
    /\ stream[c].at # "away" => silent \/ shown[c] = Current

ClientsCatchUp == <>[](\A c \in Client : CaughtUp(c))

(* hub.go, sendEvent: "events that must never be silently dropped": while  *)
(* a stream is not closed, what its client was told and what is queued for *)
(* it are all the events since it subscribed, in their order.              *)
NoEventDropped ==
    \A c \in Subscribed :
        stream[c].closed \/
        stream[c].events = [i \in 1 .. broadcasts - told[c] |-> told[c] + i]
=============================================================================
