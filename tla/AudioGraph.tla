------------------------------ MODULE AudioGraph ------------------------------
(***************************************************************************)
(* How Run comes to know the streams and the default device.  Changes on   *)
(* the PulseAudio server pass through the backend's event goroutine        *)
(* (audio/subscribe.go), the supervisor that survives the loss of the      *)
(* connection (audio/supervisor.go) and Run's handleAudioEvent, each with  *)
(* a channel that drops what it has no room for.  What events do not tell, *)
(* Run asks for with a resync on the dispatch queue (module Dispatch),     *)
(* whose answer replaces the resolver's cache (engine/resolver.go).  The   *)
(* queue fills with resyncs and refreshes; an invocation would take a      *)
(* place in it as a refresh does, and is left to module Dispatch.          *)
(***************************************************************************)
EXTENDS Dispatch

CONSTANTS Device,       \* what may be the default device
          NoDevice,     \* the default before the first answer
          HandoffDepth, \* eventBufferSize (64)
          FeedDepth,    \* subBufferSize (32) of the backend's channel
          SubDepth,     \* subBufferSize (32) of the supervisor's channel
          Cancels,      \* whether the daemon is told to end
          MaxChanges,   \* bound: changes of the graph
          MaxLosses     \* bound: losses of the connection

ASSUME AudioGraphAssumption ==
    /\ NoDevice \notin Device
    /\ Ref \cap {"default", "resync"} = {}
    /\ HandoffDepth \in Nat \ {0} /\ FeedDepth \in Nat \ {0} /\ SubDepth \in Nat \ {0}
    /\ Cancels \in BOOLEAN
    /\ MaxChanges \in Nat /\ MaxLosses \in Nat

VARIABLES alive, gone, default, \* the streams there are and were, and the device
          broken,               \* the backend's connection is dead
          link, everConnected,  \* where the supervisor is with its backend
          notes, missed,        \* dispatcher.events and dropped
          feed,                 \* the backend's channel to the supervisor
          subs,                 \* the supervisor's channel to Run
          known, knownDefault,  \* the resolver's streams and default device
          asking, answer,       \* where executeResync is, and what it has read
          streamsCh,            \* the answer Run has not taken
          running,              \* Run has not returned
          doubt,                \* history: what something that was lost told of
          overtaken,            \* history: streams whose event an older answer follows
          changes, losses       \* counters of the bounds

server == <<alive, gone, default, broken, changes, losses>>
supervisor == <<link, everConnected>>
cache == <<known, knownDefault>>
resync == <<asking, answer, streamsCh>>
history == <<doubt, overtaken>>
graphVars == <<dispatchVars, server, supervisor, notes, missed, feed, subs, cache, resync,
               running, history>>

(* connectAndSubscribe is done at "subscribed", setBackend at "inUse". *)
Link == {"none", "subscribed", "inUse"}

(* The requests of executeResync that are under way or done. *)
Asking == {"no", "devices", "sending"}

Things == Ref \cup {"default"}

(* EventStreamChanged and EventStreamRemoved of a stream,                  *)
(* EventDefaultChanged, which the events of single devices are treated     *)
(* like, and EventResync.                                                  *)
Event == [what : Things \cup {"resync"}, there : BOOLEAN]

Tells(x, there) == [what |-> x, there |-> there]
EventResync == Tells("resync", TRUE)

StreamsResult == [streams : SUBSET Ref, default : Device \cup {NoDevice}]

(* The engine subscribes before the first connection or after it. *)
Init ==
    /\ DispatchInit
    /\ alive \in SUBSET Ref /\ gone = {} /\ default \in Device /\ broken = FALSE
    /\ link \in {"none", "inUse"} /\ everConnected = (link = "inUse")
    /\ notes = <<>> /\ missed = FALSE /\ feed = <<>> /\ subs = <<>>
    /\ known = {} /\ knownDefault = NoDevice
    /\ asking = "no" /\ streamsCh = <<>>
    /\ answer = [streams |-> {}, default |-> NoDevice]
    /\ running = TRUE
    /\ doubt = {} /\ overtaken = {}
    /\ changes = 0 /\ losses = 0

-----------------------------------------------------------------------------
(* The server *)

Subscribed == link # "none" /\ ~broken

(* onSubscribeEvent: a full handoff channel drops the note and counts it.  *)
Notes(note) ==
    /\ notes' = IF Subscribed /\ Len(notes) < HandoffDepth THEN Append(notes, note) ELSE notes
    /\ missed' = (missed \/ (Subscribed /\ Len(notes) >= HandoffDepth))

Changes ==
    /\ changes < MaxChanges
    /\ changes' = changes + 1
    /\ UNCHANGED <<dispatchVars, broken, losses, supervisor, feed, subs, cache, resync,
                   running, history>>

(* The server counts its streams up: an index is not used again. *)
StreamAppears(r) ==
    /\ Changes
    /\ r \notin alive \cup gone
    /\ alive' = alive \cup {r}
    /\ Notes(Tells(r, TRUE))
    /\ UNCHANGED <<gone, default>>

StreamExits(r) ==
    /\ Changes
    /\ r \in alive
    /\ alive' = alive \ {r}
    /\ gone' = gone \cup {r}
    /\ Notes(Tells(r, FALSE))
    /\ UNCHANGED default

DefaultMoves(d) ==
    /\ Changes
    /\ d # default
    /\ default' = d
    /\ Notes(Tells("default", TRUE))
    /\ UNCHANGED <<alive, gone>>

(* The connection breaks, or the server restarts and counts from the start. *)
Breaks(restarts) ==
    /\ losses < MaxLosses
    /\ losses' = losses + 1
    /\ Subscribed
    /\ broken' = TRUE
    /\ alive' = IF restarts THEN {} ELSE alive
    /\ gone' = IF restarts THEN {} ELSE gone
    /\ UNCHANGED <<dispatchVars, default, changes, supervisor, notes, missed, feed, subs,
                   cache, resync, running, history>>

-----------------------------------------------------------------------------
(* The backend's event goroutine *)

(* fanOut, of the dispatcher and of the supervisor: what there is no room *)
(* for is dropped, and nobody is told.                                    *)
Fits(channel, depth, evs) == SubSeq(evs, 1, Min({Len(evs), depth - Len(channel)}))

FannedOut(channel, depth, evs) == channel \o Fits(channel, depth, evs)

Dropped(channel, depth, evs) ==
    {evs[i].what : i \in (Len(Fits(channel, depth, evs)) + 1)..Len(evs)}

Doubted(things) == IF "resync" \in things THEN Things ELSE doubt \cup things

(* handleEvent, then the resync for what the handoff missed.  A stream     *)
(* that is there is asked about first: if it has gone or the request fails *)
(* nothing is told.                                                        *)
HandleNote(fails) ==
    /\ notes # <<>>
    /\ LET note == Head(notes)
           asks == note.what \in Ref /\ note.there
           told == asks => (note.what \in alive /\ ~broken /\ ~fails)
           evs  == (IF told THEN <<note>> ELSE <<>>)
                     \o (IF missed THEN <<EventResync>> ELSE <<>>)
       IN  /\ fails => asks /\ ~broken /\ note.what \in alive
           /\ feed' = FannedOut(feed, FeedDepth, evs)
           /\ doubt' = Doubted(Dropped(feed, FeedDepth, evs)
                                 \cup (IF fails THEN {note.what} ELSE {}))
    /\ notes' = Tail(notes)
    /\ missed' = FALSE
    /\ UNCHANGED <<dispatchVars, server, supervisor, subs, cache, resync, running, overtaken>>

-----------------------------------------------------------------------------
(* The supervisor *)

Connects ==
    /\ link = "none"
    /\ link' = "subscribed"
    /\ UNCHANGED <<dispatchVars, server, everConnected, notes, missed, feed, subs, cache,
                   resync, running, history>>

(* Mutant of Announcement: a new connection is like the first. *)
AnnouncementNever == <<>>

(* The event a connection begins with. *)
Announcement == IF everConnected THEN <<EventResync>> ELSE <<>>

SetBackend ==
    /\ link = "subscribed"
    /\ link' = "inUse"
    /\ everConnected' = TRUE
    /\ subs' = FannedOut(subs, SubDepth, Announcement)
    /\ doubt' = Doubted(Dropped(subs, SubDepth, Announcement))
    /\ UNCHANGED <<dispatchVars, server, notes, missed, feed, cache, resync, running, overtaken>>

Pump ==
    /\ link = "inUse"
    /\ feed # <<>>
    /\ feed' = Tail(feed)
    /\ subs' = FannedOut(subs, SubDepth, <<Head(feed)>>)
    /\ doubt' = Doubted(Dropped(subs, SubDepth, <<Head(feed)>>))
    /\ UNCHANGED <<dispatchVars, server, supervisor, notes, missed, cache, resync, running,
                   overtaken>>

(* The backend closed its channel, and what was in it has been passed on. *)
ClearBackend ==
    /\ link = "inUse"
    /\ broken
    /\ feed = <<>>
    /\ link' = "none"
    /\ broken' = FALSE
    /\ notes' = <<>>
    /\ missed' = FALSE
    /\ UNCHANGED <<dispatchVars, alive, gone, default, changes, losses, everConnected, feed,
                   subs, cache, resync, running, history>>

-----------------------------------------------------------------------------
(* Run *)

(* A resync that has not read anything yet. *)
ResyncWaits ==
    Resync \in Range(queue \o drained \o (IF asking = "no" THEN batch ELSE Tail(batch)))

(* The answers Run will take, the last of which decides what it knows. *)
InTransit == streamsCh \o (IF asking = "sending" THEN <<answer>> ELSE <<>>)

HandleStreamEvent ==
    /\ running
    /\ subs # <<>>
    /\ LET ev == Head(subs)
           x  == ev.what
       IN  /\ x \in Ref
           /\ known' = IF ev.there THEN known \cup {x} ELSE known \ {x}
           /\ overtaken' = IF InTransit # <<>> /\ (x \in Last(InTransit).streams) # ev.there
                           THEN overtaken \cup {x} ELSE overtaken \ {x}
    /\ subs' = Tail(subs)
    /\ UNCHANGED <<dispatchVars, server, supervisor, notes, missed, feed, knownDefault, resync,
                   running, doubt>>

HandleDeviceEvent ==
    /\ running
    /\ subs # <<>>
    /\ Head(subs).what \notin Ref
    /\ subs' = Tail(subs)
    /\ queue' = Queued(Resync)
    /\ doubt' = IF Len(queue) >= QueueDepth /\ ~ResyncWaits THEN Things ELSE doubt
    /\ UNCHANGED <<drained, batch, position, enqueued, server, supervisor, notes, missed, feed,
                   cache, resync, running, overtaken>>

(* A device some binding of the active layer acts on has its level asked for. *)
TakeAnswer ==
    /\ running
    /\ streamsCh # <<>>
    /\ known' = Head(streamsCh).streams
    /\ knownDefault' = Head(streamsCh).default
    /\ streamsCh' = Tail(streamsCh)
    /\ queue' \in {queue, Queued(Refresh)}
    /\ UNCHANGED <<drained, batch, position, enqueued, server, supervisor, notes, missed, feed,
                   subs, asking, answer, running, history>>

(* Run returns: it closes dispatchCh and waits for the dispatcher. *)
Cancelled ==
    /\ Cancels
    /\ running
    /\ running' = FALSE
    /\ UNCHANGED <<dispatchVars, server, supervisor, notes, missed, feed, subs, cache, resync,
                   history>>

-----------------------------------------------------------------------------
(* The dispatcher goroutine *)

AtResync == batch # <<>> /\ Head(batch) = Resync

Works ==
    /\ ~AtResync
    /\ Receive \/ Drained \/ Executed
    /\ UNCHANGED <<server, supervisor, notes, missed, feed, subs, cache, resync, running, history>>

(* Sinks and Sources; currentBackend waits for one that is in use. *)
ReadDevices ==
    /\ AtResync
    /\ asking = "no"
    /\ link = "inUse" /\ ~broken
    /\ asking' = "devices"
    /\ answer' = [answer EXCEPT !.default = default]
    /\ doubt' = doubt \ {"default"}
    /\ UNCHANGED <<dispatchVars, server, supervisor, notes, missed, feed, subs, cache, streamsCh,
                   running, overtaken>>

(* An older event that is still to come can undo what the answer tells. *)
ReadStreams ==
    /\ asking = "devices"
    /\ link = "inUse" /\ ~broken
    /\ asking' = "sending"
    /\ answer' = [answer EXCEPT !.streams = alive]
    /\ doubt' = doubt \ (Ref \ {ev.what : ev \in Range(subs \o feed)})
    /\ overtaken' = {}
    /\ UNCHANGED <<dispatchVars, server, supervisor, notes, missed, feed, subs, cache, streamsCh,
                   running>>

EndResync ==
    /\ asking' = "no"
    /\ batch' = Tail(batch)
    /\ UNCHANGED <<queue, drained, position, enqueued, server, supervisor, notes, missed, feed,
                   subs, cache, answer, running, overtaken>>

(* A read fails, on a broken connection or on a good one, or there is none *)
(* and the context ends the wait.                                          *)
ResyncFails ==
    /\ AtResync
    /\ asking # "sending"
    /\ link = "inUse" \/ ~running
    /\ doubt' = IF link = "inUse" /\ ~broken THEN Things ELSE doubt
    /\ UNCHANGED streamsCh
    /\ EndResync

Answers ==
    /\ asking = "sending"
    /\ streamsCh = <<>>
    /\ streamsCh' = <<answer>>
    /\ UNCHANGED doubt
    /\ EndResync

(* Mutant of GivesUp: the answer is sent whatever becomes of Run. *)
GivesUpNever == FALSE

(* ctx.Done ends the wait for room in streamsCh. *)
GivesUp == ~running

AnswerDropped ==
    /\ asking = "sending"
    /\ GivesUp
    /\ UNCHANGED <<doubt, streamsCh>>
    /\ EndResync

Dispatches ==
    \/ Works
    \/ ReadDevices
    \/ ReadStreams
    \/ ResyncFails
    \/ Answers
    \/ AnswerDropped

Next ==
    \/ \E r \in Ref : StreamAppears(r) \/ StreamExits(r)
    \/ \E d \in Device : DefaultMoves(d)
    \/ \E restarts \in BOOLEAN : Breaks(restarts)
    \/ \E fails \in BOOLEAN : HandleNote(fails)
    \/ Connects
    \/ SetBackend
    \/ Pump
    \/ ClearBackend
    \/ HandleStreamEvent
    \/ HandleDeviceEvent
    \/ TakeAnswer
    \/ Cancelled
    \/ Dispatches

Spec == Init /\ [][Next]_graphVars

(* The dispatcher goroutine is not suspended for ever; nothing is asked of *)
(* the server, of Run or of the connection.                                *)
FairSpec == Spec /\ WF_graphVars(Dispatches)

-----------------------------------------------------------------------------
(* Properties *)

(* Channels hold what their depth allows, and their items are of their type. *)
TypeOK ==
    /\ DispatchTypeOK
    /\ alive \subseteq Ref /\ gone \subseteq Ref /\ alive \cap gone = {} /\ default \in Device
    /\ broken \in BOOLEAN /\ link \in Link /\ everConnected \in BOOLEAN
    /\ notes \in Seq(Event) /\ Len(notes) <= HandoffDepth /\ missed \in BOOLEAN
    /\ feed \in Seq(Event) /\ Len(feed) <= FeedDepth
    /\ subs \in Seq(Event) /\ Len(subs) <= SubDepth
    /\ known \subseteq Ref /\ knownDefault \in Device \cup {NoDevice}
    /\ asking \in Asking /\ answer \in StreamsResult
    /\ streamsCh \in Seq(StreamsResult) /\ Len(streamsCh) <= 1
    /\ running \in BOOLEAN
    /\ doubt \subseteq Things /\ overtaken \subseteq Ref
    /\ changes \in 0..MaxChanges /\ losses \in 0..MaxLosses

(* Everything that happened has been told, and every answer was taken. *)
Quiet ==
    /\ running
    /\ link = "inUse" /\ ~broken
    /\ notes = <<>> /\ feed = <<>> /\ subs = <<>>
    /\ queue = <<>> /\ drained = <<>> /\ batch = <<>>
    /\ streamsCh = <<>>

Unknown ==
    {x \in Ref : (x \in known) # (x \in alive)}
      \cup (IF knownDefault = default THEN {} ELSE {"default"})

(* audio/supervisor.go, audio/subscribe.go, Engine.handleAudioEvent: when  *)
(* nothing is under way, the resolver knows which streams there are and    *)
(* which device is the default, whatever came between and however often    *)
(* the connection was lost.  Excepted is what a dropped event or a failed  *)
(* request told of, until the next resync, and a stream whose event Run    *)
(* handled while the answer of a resync that had not seen it was coming.   *)
KnowsTheGraph == Quiet => Unknown \subseteq doubt \cup overtaken

(* Engine.Run's deferred close of dispatchCh and executeResync: once Run   *)
(* was told to end, the dispatcher ends, though nobody takes its answers   *)
(* and no connection may ever come.                                        *)
Exits == ~running ~> (queue = <<>> /\ drained = <<>> /\ batch = <<>>)
=============================================================================
