# A verification of knobd

knobd is a daemon that turns a MIDI controller (knobs, pads, side buttons, a
fader) into a mixer for PulseAudio/PipeWire streams, media players and Spotify.
This directory holds TLA+ models of its core, the TLC runs that check them on
small instances, and TLAPS proofs of what they promise for every instance.
Paths below are relative to `src/daemon/internal/` unless they start with `src/`.

## 1. Inventory

| Component | Code | State | Operations | What makes it correct |
|---|---|---|---|---|
| Gesture machine | `engine/gesture.go` | `down`, `lastPress`, `pending` maps | Handle, Tick, NextDeadline, Reset | a press becomes exactly one of press, hold+release, double press; the wake-ups it announces are the ones it serves |
| Input loop | `engine/engine.go` | select loop, `downLayer`, `learnUntil` | device, timer, configuration, learn arms; dispatchGesture | a gesture acts with the binding of the layer its control went down on; what begins with a hold ends with the release |
| Layers | `engine/layers.go` | momentary stack, latched layer | push, pop, latch, cycle, reset | at rest the active layer is the latched one |
| Binding index | `engine/bindings.go` | immutable tables per configuration | lookup, deferPress, detectHold | layers overlay layer 0 |
| Learn mode | `engine/learn.go`, `api/learn.go` | a deadline | arm, disarm, capture, expire | nothing acts while armed; it never stays armed |
| Dispatch queue | `engine/dispatch.go` | bounded channel, batch in hand | enqueue, drain, coalesce, resync | coalescing changes nothing but the number of calls; nothing is lost that must not be |
| Target resolver | `engine/resolver.go`, `audio/matcher.go`, `audio/focus.go`, `proctree/` | streams, devices, focus, memo | resolve, upsert, remove, setStreams | its cache follows the server |
| Volume handlers | `actions/volume.go`, `audio/curve.go` | level cache with in-flight counts | adjust, set, follow, mute toggle, ObserveState | the cache has what the server has; detents add up |
| Solo and duck | `actions/mix.go` | one solo session, one duck session per control | solo, duck | what a session changed is put back |
| Scenes | `actions/scene.go` | none; reads levels, writes configuration | apply, save | saving loses nobody's edit |
| Assignment | `actions/assign.go` | none; rewrites configuration | assign, bind | the same |
| Configuration store | `src/daemon/cmd/knobd/configstore.go`, `config/` | current document, engine copy, file | Get, Put, Save | the three agree after any failure |
| PulseAudio backend | `audio/pulse.go`, `audio/subscribe.go` | connection, subscriber channels | requests, event fan-out | events tell of every change, in order |
| Audio supervisor | `audio/supervisor.go` | current backend, subscribers | reconnect, forward, wait | after a reconnect everybody resyncs |
| MIDI port and supervisor | `midi/` | bounded inbox, current port | read, write, reconnect | the newest input survives |
| LEDs | `engine/led.go`, `device/led.go` | desired and sent state, throttle, flash | flush, flash, repaint | the device shows the last desired state in the end |
| Media tracker | `media/` | players by recency, pinned player | observe, current, cycle | the players it knows are those on the bus, in the order of their last activity |
| Focus provider | `focus/` | last focused application, KWin script | install, watch | the engine knows the last focus |
| Spotify | `spotify/`, `actions/spotify.go` | tokens, login flow, status | login, callback, refresh, logout, jobs | the port comes free for the next login; a request carries its own account's token; the volume a knob stops at is sent |
| API server and hub | `api/` | subscribers, dirty flag, last state | broadcast, subscribe | every subscriber sees the last state in the end |
| Wiring | `src/daemon/cmd/knobd/main.go` | none | start, connect callbacks | order of shutdown |
| UI and tray | `src/ui` | its copy of the configuration, banner, event stream | reload, dismiss, reconnect | an outdated copy has the banner up |
| Generators | `schema/`, `cmd/schemagen`, `cmd/codemap` | build time | | no protocol of their own |

**How they interact.** The MIDI reader goroutine decodes messages into a small
inbox. `Engine.Run` is one goroutine with one `select`: it takes device events,
timer ticks, audio events, focus changes and requests (configuration, learn,
snapshot), so everything in the input loop is sequential, but the *order* of
ready arms is random. Gestures that act on the outside become `Invocation`s on
a bounded channel to one dispatcher goroutine, which alone talks to the audio
backend. The server answers with change events, also for the daemon's own
writes; they come back through a subscription goroutine and Run into the level
cache the dispatcher reads: one cache, two goroutines, a lock held per access
and not per handler. HTTP handlers change configuration and learn through
Run's channels and are told of changes by the hub.

**What is hard.** Timers that race events with older timestamps; layers and
configurations that change between a button's down and its up; learn that
swallows half a press; messages lost at full queues and unplugged devices;
echoes that overtake, or lag behind, later writes; handlers that fail half way;
sessions that overlap; reconnects. `PROJECT.json` lists each at its line under
`hazards`, with the properties that cover it, or why none does.

## 2. What is modelled

### GestureMachine, InputLoop, MCInputLoop

`GestureMachine` is `gesture.go`: the record `gm` has the maps as functions
(`None` for no entry) and each branch of `Handle` and `Tick` is an operator over
an explicit machine, since Run sometimes resets the machine and then hands it
the event. `born`/`pendingBorn` are history: the layer a press began on.

`InputLoop` composes it with layers, bindings, learn and configurations:

| Model | Code |
|---|---|
| `NextEvent` (`LearnSwallows`, `LearnCaptures`, `HandlesTurn/Down/Up`) | the `msgs` arm |
| `NextTimer` (`TimerFires`) | the `timerC` arm, with any value between the deadline and now |
| `Dispatch` (`Latches`, `Cycles`, `Ducks`, `Invokes`) | one iteration of the loop over the gestures returned; no other arm runs until `out` is empty |
| `SetConfig`, `SetLearnUntil` | the `configCh`, `learnCh` arms |
| `inbox`, `Deliver` | `realPort.deliver` and the read goroutine's one message in hand |
| `PushDown`, `LetGo`, `Turn`, `Unplug`, `Tock` | user, device, clock (external) |

A binding index is an input: a function from layer, control and gesture to an
action whose type is one of the six that `dispatchGesture` tells apart.
`ducked` records what the duck handler was last told for a control. The audio,
focus, LED, flash and snapshot arms of Run touch none of this state.

### Levels, MCLevels

`Levels` is the cache of `volume.go` between its two writers. A request to the
server and what the handler does with the reply are two steps of `call.at`, so
events can come between; an event is first a note (the server's subscription
message), then a fetched state in a bounded feed, then `ObserveState`.
`disturbed` is history: the refs for which the cache could not be expected to
be right (a handler began while an event of an earlier change was under way,
somebody else moved the stream during a handler, the feed overflowed, or a
scene's second write failed). The response curve becomes a step of one unit; a
percent has three values.

### Mix, MCMix

`Mix` is `mix.go` at the grain of whole handlers: only the dispatcher touches
the sessions. What can fail is chosen per ref (`failed` when a session ends,
`refused` when it starts, `unread` for refs whose level cannot even be read).
`ownPercent`/`ownMuted` are history: what a stream was given by its own users.

### OneByOne, Dispatch, MCDispatch

`Dispatch` is the queue between Run and the dispatcher goroutine:

| Model | Code |
|---|---|
| `Enqueue`, `Queued` | `enqueueDispatch`, which drops at the limit |
| `Receive`, `Drained` | the first receive and `drain`; Run may enqueue in between |
| `Coalesced`, `Mergeable`, `Merge` | `coalesce`, `mergeable`, `merge` |
| `Executed` | `executeWork`, on levels that are positions of the curve |

`OneByOne` is what the queue promises: an invocation acts on its own and at
once. `Dispatch` implements it under the mapping `Settling`, the levels as they
will be when all that is queued was executed: a step of the queue changes them
only as the invocation enqueued in it does, so receiving, coalescing and
executing are stutters, and so is a drop.

### AudioGraph, MCAudioGraph

`AudioGraph` extends `Dispatch` with the road from the server to the resolver's
cache: `notes`/`missed` (the handoff from the client's callback), `feed` (the
backend's subscriber channel), `subs` (the supervisor's), each of which drops
what it has no room for; Run's handling of an event; and the resync: reads that
wait for a connection (`ReadDevices`, `ReadStreams`), fail with it or without
(`ResyncFails`), and an answer on a channel of one (`Answers`, `TakeAnswer`).
`Connects`, `SetBackend`, `Pump`, `ClearBackend` are the supervisor's loop: the
old backend's channel is drained before a new connection is made, and every
connection but the first is announced by a resync. `doubt` and `overtaken` are
history: what a dropped event or a failed request told of, until a resync makes
up for it; and the streams whose event Run handled while an older answer that
contradicts it was under way.

### MidiSupervisor, Leds, MCLeds

`MidiSupervisor` is the self-healing port and the goroutine that takes note of
its connections; `Leds` extends it with what Run writes through it. A port is
`live`, `gone` (its controller is unplugged) or `closed`; ports are numbered in
the order they were opened, so a write may still hold an old one.

| Model | Code |
|---|---|
| `sup`: `Opens`, `GivesUp`, `SetPort`, `NotifyConnected`, `ReadFails`, `Receives`, `HandingEnds`, `ClearPort`, `NotifyDisconnected`, `Returns` | `Supervisor.run`, `connect` and `pump` |
| `Close`, `LooksForPort`, `ClosesPort`, `CloseReturns` | `Supervisor.Close`, which looks for the port and closes it in two steps |
| `TakesConnected`, `WatcherReturns` | `watchConnections` in `cmd/knobd/state.go` |
| `FlushLEDs`, `TakesPort`, `Writes`, `WriteFails`, `WriteRefused`, `FlushEnds` | `flushLEDs`, and each of its writes, which reads the port and then writes to it |
| `MarkLEDsDirty`, `HandlesChange`, `SetConfig`, `HandlesLedCh`, `HandlesFlash`, `LedTimerFires`, `Repaints` | the arms of Run that end in `markLEDsDirty` or `flushLEDs` |
| `CacheChanges`, `NotifyLEDDirty`, `FlashControl` | the dispatcher, which changes a cache and reports it |
| `CacheChangesSilently` | `getCached` keeps a level it fetched; its handler then leaves that level alone, or fails to write it |

What a control should show is an arbitrary value that changes. `missed` and
`silent` are history: the controls whose last write failed although the controller
was there, and those whose cached level changed with nobody told since a flush.

### ConfigStore, MCConfigStore

A configuration is one knob that an assignment rewrites and one scene of two
entries; a level saved is named after the target it belongs to, so that a level
in the wrong entry shows.

| Model | Code |
|---|---|
| `Locks`, `EngineTakes`, `Replied`, `GivesUp`, `WritesTemp`, `SaveFails`, `Commits`, `RollsBack`, `RolledBack`, `Announces` | `configStore.SetConfig` and `apply`, `Engine.SetConfig`, `config.Save` |
| `Dispatches`, `Reads` | the run loop resolves the entries; `executeSave` and `applyAssignment` read the configuration and edit it |
| `Puts`, `Reloads` | `PUT /config`, SIGHUP |
| `StartsCurrent`, `StartsOld`, `StartsOldAgain`, `BacksUp`, `Upgrades` | `LoadAndUpgrade`; the daemon may stop (`Stops`) between any two steps |
| `EditsFile` | somebody's editor (external) |
| `Broadcasts`, `LosesStream` | `Hub.NotifyConfigChanged`: to who is subscribed, and a stream whose queue is full is closed |
| `Listens`, `Drops` | the UI's pump (`events.rs`), which connects again after a backoff and fetches nothing |
| `ReloadAsks`, `ReloadAnswered`, `ReloadTaken`, `ReloadFails` | `reload` (`ConfigContext.tsx`) around its await: the window opens before the request, the banner goes after the answer |
| `HearsOfChange`, `SuppressEnds`, `Dismisses` | its listener, the end of the window, `dismissChanged` |

`byHand`, `abandoned`, `overtaken` and `excused` are history, each named for the
case in which the code promises less (section 5). `late` is history of the
answers on their way: those read before an event the client then heard or lost.

### MediaTracker, MCMediaTracker

Players are numbered in the order of their bus names. The bus sends signals in
its order; the backend is one goroutine that lists, asks and takes signals
(`at`), and sends what it makes of them to the tracker through a bounded
channel; the tracker's players are ranked by `recency`, which has of the code's
`seq` only whose is lower than whose, and who has none (`Nobody`, seq 0).

| Model | Code |
|---|---|
| `Lists`, `AsksNext`, `OwnerAnswers`, `OwnerUnanswered`, `PropertiesAnswer`, `PropertiesUnanswered` | `run`, `listPlayerNames`, `handleAppear` |
| `HandlesOwner`, `HandlesVanish`, `HandlesProps`, `Sending` | `handleSignal` and its cases, `send` |
| `Applies`, `Notifies`, `Cycles`, `Visible`, `Resolves` | `Tracker.consume`, `apply`, `Cycle`, `visible`, `Resolve` |
| `Ahead`, `IsFirst` | what `visible` sorts by, and the first of what it returns |
| `Transports` | `executeTransport` of `actions/media.go` |
| `Appears`, `TakesOver`, `Vanishes`, `Shows` | the players (external) |

### Hub, MCHub

A snapshot is read from one provider after the other (`Reads`), by the hub's Run
for everybody and by a new stream for itself; of a provider there is only how
often it has changed.

| Model | Code |
|---|---|
| `TakesDirty` and its three outcomes, `TimerFires`, `ReadsNext`, `Publishes`, `Ends` | `Hub.Run`, `publishState`, `closeAllSubscribers` |
| `Broadcast`, `SentEvent`, `SentState` | `Hub.Broadcast`, `sendEvent`, `sendState` |
| `Connects`, `BuildsNext`, `WritesFirst`, `WritesState`, `WritesEvent`, `IsClosed`, `FirstFails`, `Disconnects` | `handleEvents` |
| `EngineChanges`, `LearnCaptures`, `OtherChanges`, `OtherNotifies`, `Locks` to `Announces` | who changes the state and calls the hub, with `configStore`'s lock |
| `OtherChangesSilently` | `Tracker.Cycle`, and a level cached by a handler that does not write it or fails to: nobody calls the hub |

### SpotifyAccount, SpotifyJobs, MCSpotify

Tokens are told apart by the account they were granted to. Each goroutine that
calls the client is a process with a place in `op`; Spotify and the Secret
Service answer as they will.

| Model | Code |
|---|---|
| `AccessToken`, `ReadStored`, `RefreshTokens`, `DropRevoked`, `ClearRevoked`, `PersistRotated`, `CacheRefreshed` | `TokenManager.AccessToken` and `refresh`, between whose steps its mutex is free |
| `Respond`, `Unauthorized`, `Calls` | `Client.do` and its one retry |
| `Login` (`StartLogin`), `CancelPrior`, `Bind`, `Register`, `LoginStarted` | `Service.Login` around `Auth.StartLogin` |
| `Serve`, `Shutdown`, `Watch`, `LoginTimesOut`, `Callback`, `ExchangeCode`, `Finish` | the login's server, watcher and callback handler, and `finish` |
| `LoginEnds`, `StoreTokens`, `CacheTokens`, `LoginConfirmed` | the `onComplete` of `Service.Login`, with `SetTokens` in its two halves |
| `Logout`, `LogoutDeletes`, `LogoutResets`, `ValidateStoredToken`, `GetDevices`, `GetPlaylists` | `Service`, `cmd/knobd/spotify.go` |
| `Enqueue`, `TakeRequests`, `TakeVolumeAdjust`, `AnswerRequest`, `CacheVolume`, `HandVolume`, ... | `SpotifyHandlers.Execute`, `Run`, `publishVolume` |
| `TakeVolume`, `VolumeWritten` | `runVolumeWriter` |

## 3. The runs

| Run | Question | Instance and why it is enough |
|---|---|---|
| `InputCore` | Do momentary layers and ducks end, for every overlap of two buttons? | two buttons, hold after 3 ticks, inbox 2, input until tick 4, clock to 7: a hold of one button spans a full press of the other, in both nestings |
| `InputReload` | Do the maps, the stack, the pins and the timer stay right under everything at once: two profiles, learn, an inbox of one that overruns, unplugging, a turning knob? | hold 2, window 1, input until 2, clock to 4: every pair of these events fits in a press |
| `InputLive` | Do deferred presses, long presses and armed learn come to an end under fairness, across configurations? | one button, the user may stop at any time |
| `LevelsKept` | Do handlers of any kind keep the cache, the detents and the mutes right when requests fail, echoes come at any time and somebody else uses the mixer? | two streams are what a mute toggle needs to get out of phase, two calls are what a late echo needs to be met; somebody else moves one stream alone (`SharedAlone`: entries are independent) |
| `MixSessions` | Does any chain of solos, or of ducks that meet on a stream, put back what it found? | two applications soloed and a third stream that appears, or ducks of two depths with different targets (`OneKind`: solos and ducks are different state); one change by others |
| `DispatchMerges` | Is a coalesced batch what its items would have been, with targets that overlap and ops that do not commute? | two knobs, a fader and a button on two streams, a queue of 3: a merge has something between, before and after it |
| `GraphKnown` | Does the resolver know the graph in the end, whatever was lost on the way, and does the dispatcher end with Run? | one stream (entries are independent) that comes and goes, two devices, one loss of the connection; room for one in each channel, so that each drops. Room for two in any one channel, three changes or two losses also pass, at sizes too long to keep |
| `LedsShow` | Does the controller show in the end what it should, and does Close end, over unplugging, failed writes, flashes and a throttle? | one control (no write depends on another), a throttle of 1 tick and a flash of 2, one unplugging, two inputs: a flash, a change or a failed write in either order |
| `ConfigSync` | Do engine, store and file agree, does a handler keep what it does not mean to change, and does an outdated client know? | two targets of a scene, two edits, one stop anywhere: any two of a put, an assignment, a scene.save, SIGHUP and an edit of the file overlap. One event on its way and one reload of the client's (the proof has any number), and its stream is down or a reload under way only while at most one caller is at work (`ClientOrCallers`): one change is what an answer or a stream needs to cross |
| `MediaBus` | Does the tracker know the players and rank them by their last activity? | two players, one of which may be ignored, three changes, a channel of one so that the backend waits, any call may time out |
| `HubPush` | Does a client that stays see the state as it is, and a stream that is open all events? | one client (mailboxes are independent) that connects twice, a queue of one, two changes of any providers; three changes pass too, at a size too long to keep |
| `SpotifySends` | Does a request carry its own account's token, does the port come free, is the last volume sent? | two Client IDs, two logins, three jobs, and one each of an edit, a logout, a list and an expiry, one kind of activity at a time (`OneKind` in MCSpotify says which meet) |

Symmetry is used in `ConfigSync`, for the two targets of the scene, and in
`LevelsKept`, for the streams, which no definition tells apart; neither run has
a liveness property, for which TLC's symmetry is unsound. Elsewhere the bindings
or numbers tell the instances apart. `CHECK_DEADLOCK FALSE` everywhere: the
clock, the user, the players and the clients stop at a bound, and the daemon
then rightly waits in its selects.
All bounds are named in the modules (`MaxTime`, `InputUntil`, `MaxCalls`,
`MaxOutside`, `InboxSize`, `FeedSize`, `MaxEnqueued`, `MaxChanges`, `MaxLosses`,
`MaxUnplugs`, `MaxInputs`, `MaxEdits`, `MaxStops`, `MaxConnects`, `MaxLogouts`,
`MaxLists`, `MaxExpiries`, `MaxJobs`, `QueueDepth`, and the sets `Flow` of logins and
`Reload` of a client's calls of reload). `MaxTime`
exceeds `InputUntil` by at least the longest deadline, so everything begun by
the user also ends. Constraints (`SharedAlone`, `OneKind`, `ClientOrCallers`) keep apart what is
independent in the code or would make a run too long; what `ClientOrCallers` keeps
apart passes too with one edit, two reloads and two events, at a size too long to
keep, and the theorems do without it.

**Fairness.** `AudioGraph!FairSpec` asks only that the dispatcher goroutine is
not suspended for ever: `Exits` must hold although Run no longer takes answers
and no connection may ever come. `InputLoop!Fairness` (in `InputLive`): Weak fairness of the
clock and of Run's arms. Go's `select` picks at random among the ready arms, so
an arm that stays ready is taken in the end; handling an event keeps the timer
arm armed unless it removed the deadline. Nothing is asked of the user, of the
API or of the device. In the model a deadline arm and an event arm never
disable each other for ever because the user stops at `InputUntil`.

`Leds!Fairness`: Run, the supervisor's goroutine, `watchConnections`, the
dispatcher's report and main's Close are goroutines that go on, and the clock
ticks; the controller need never come back, and a write may fail every time.
`Hub!Fairness`: the hub's Run, a provider that has changed and is about to
notify, `SetConfig` (the engine takes what is offered unless the caller gives up)
and the handler of a stream go on, and the throttle's interval ends; a client that does not read is the
closed stream of `NoEventDropped`. Nobody has to change, connect or stay.
`SpotifyJobs!Fairness`: Run, the volume writer and the requests of the two,
which end with an answer or with their context; this takes for granted that the
Secret Service answers or its prompt times out (`secret.go`). No login, list or
logout is asked to go on.

Reading the properties: `PinnedLayer` says it of the controls that no
configuration binds a double press to, `InTimePressKept` of second presses in
time, `Settles`, `DetentCounts`, `Heard`, `TogglesAlike` of refs not
`disturbed`, the mix properties of refs not spoiled, `KnowsTheGraph` of what is
neither in `doubt` nor `overtaken`, `Shows` of controls neither
`missed` nor `silent`, `InSync`
unless `byHand` or `abandoned`, `HandlersKeepEdits` of handlers not `overtaken`
(a put or a reload came after they were dispatched, or an overtaken handler wrote),
`StaleIsTold` unless `excused`, `KnowsThePlayers` and `MostRecentWins` of what is
not `unasked` or `raced`, `ClientsCatchUp` unless the last change was `silent`.
Each of these restrictions is there because the code breaks the unrestricted
form, as section 5 shows.

## 4. What is proved

The proofs of a module `M` are in `M_proofs`, for `InputLoop`, `Mix`, `Levels`,
`ConfigStore`, `Hub`, `Leds` and `AudioGraph`; the last also holds those about
`Dispatch`, which `AudioGraph` extends, and `Music_proofs` those about `SpotifyJobs`
and `MediaTracker`. They hold for every set of controls, streams, configurations,
targets, clients, accounts, logins, jobs and players, every channel size, any number of calls, edits, stops, connections and losses,
every timing with window <= threshold, and unbounded time and input; they use
only the named assumptions on the constants and the hypotheses a theorem states.

- `TypeCorrect`. The interesting part is `Cycle` (the latched layer stays a
  layer though a configuration lowers the highest) and `popMomentary`.
- `LearnQuiet`: `LearnIsQuiet` is inductive with the types.
- `MapsAlwaysAgree`, `InTimePressesKept`: "`pending` and `lastPress` are in
  step" is not inductive, since a press later than the wait would break it. The
  strengthening is `Ordered`: timestamps in the inbox ascend and none is
  earlier than anything in the machine (`Sound`), nor later than the clock.
  Losing messages keeps the order, and so does the reset that learn does.
- `TimerNeverSpins`: in every typed state the deadlines `NextDeadline`
  announces have passed exactly when `Tick` or learn has work, whichever
  configuration the down came under.
- `HeldAtMostOnce`: from what removing the first entry of a control does to a
  stack without repetitions.
- `MomentaryEnds`: if learn, losses and unplugging are excluded, at rest the
  active layer is the latched one. The invariant is that each stacked control
  still owes an up: it is pressed, or its up is in the inbox and not followed
  by a down that is still to come.
- `DucksAlwaysEnd`: the same exclusions, and the configurations agree on what
  ducks (`DucksAlike`, which those of the run satisfy, `ConfigsDuckAlike`; without
  it a reload during a duck keeps it, section 5). `Alternate` says that the downs
  and ups of a control take turns from the machine through the inbox to the
  device, and `DucksHeld` that a control that ducks is held or has its release in
  `out`, and that its press is pinned to a layer on which hold and release of
  every configuration belong to a duck. A hold that is still in `out` has its
  control held, so the begin comes before its end is owed to anybody.
- `LayerPinned`: `PinsKept` says that the pin of a press in progress is the
  layer it was born on and that nothing in hand can take it from a later press.
- `SessionsTypeCorrect`, `SoloPutsBack`, `DuckPutsBack`: the sessions' prior
  values are the streams' own on every ref that is not spoiled (`SoloKeeps`,
  `DuckKeeps`), for any subset of failing requests.
- `PortAlwaysFrees`: the invariant `PortInv` says that there is one listener at
  most, that where `StartLogin` is tells whether its login has a listener and a
  server, and that only registered logins are a session or are taken as one.
  `FlowStep` is the step of a login that opens nothing, which twelve of its
  sixteen actions are; the other four have a lemma each.
- `OwnTokensOnly`: the cached token is always that of the cached account
  (`CachesOwnToken`), though account and token are written and read by different
  goroutines, and a goroutine that is to send has a token of its account.

- `LevelsTyped`, `CacheSettles`, `KnobsAreHeard`, `TogglesConverge`,
  `DetentsAddUp`: the four properties follow from one invariant, `AllHold`, over
  the streams that are not `disturbed`; none is inductive alone, since each needs
  that what the others say of the cache was so when the handler read it. It says
  per stage of a handler what it and the cache know of the stream in hand
  (`Reading`, `Unmuting`, `Writing`, `Wrote`, `Muting`), and of the rest that the
  last event under way about a stream carries the server's level, unless a note
  about it has not been fetched (`Latest`). `Toggles` adds which refs a mute toggle
  found audible. `Shape` and `Flights` type the stages: one write at most is in
  flight, for the ref in hand.
- `ConfigTyped`, `ConfigInSync`, `ClientsAreTold`, `HandlersUndoNothing`:
  `EngineRuns` says what the engine has in each stage of a SetConfig, whose lock
  keeps the others out (`at[c] \in Locked <=> lock = c`). `Current` says that a
  handler nothing has overtaken holds the store's configuration with its own part
  changed, and refs of the scene as it is. `StaleIsTold` needs `AnswersTold`: an answer
  that the client has not taken yet is what the store holds, or an event is still to
  come, or has overtaken it (`late`). The theorem has all the excuses of `StaleIsTold`
  and is for any number of overlapping reloads.
- `StreamsLoseNothing`: the invariant `HubInv` says in which order a stream owes
  its events (`Owes`): the queue continues what was told without a gap.
- `LedsTyped`, `NoPortLeaks`, `BeliefsAreTrue`: `OneAtATime` says that only the
  last port opened may be open and who has it in hand, so that each way out of
  opening, reading and closing closes it. `Repainted` says that, while the port
  is live and neither a connection nor its repaint waits to be handled, the loop
  believes of no LED anything but what it shows.
- `DispatchTyped`, `QueueKeepsPromise`: the refinement of `OneByOne`. Its mapping
  is a fold over what is queued, drained and coalesced (`Settling`). What a fold
  computes cannot be had by the library's induction theorems; the lemmas instead
  name the levels a fold passes (`Way`) and take the least index at which two
  of them differ (`LevelsWay`, `CoalescedActs`). Coalescing then keeps what the fold
  computes as two adjacent items that are merged act like the one they become
  (`MergedActs`); `Kin` says that merging keeps an item's step one that can be
  enqueued. The hypothesis is `StepsAlike`, which the run's inputs satisfy (`InputsAlike`);
  without it `merge` sums turns of different steps (section 5).
- `GraphTyped`, `GraphIsKnown`: `KnowsTheGraph` speaks of a state at rest, so the
  invariant, `GraphInv`, has to say for any state which correction is on its
  way. `LinkParts` says which parts of the supervisor and of its channels may be
  non-empty at once; `FeedTrue` and `SubsTrue` that the last event about a stream
  in a channel is true of the server, unless a note is to be fetched or the stream
  is in `doubt`; `StreamKnown` that a belief that is wrong has an event, an
  answer, a resync or a reconnection coming.
  `DefaultKnown` says the same of the default device.
- `PlayersAreKnown`: the invariant is `MediaInv`. `OwnersDistinct` says that a
  unique name is of one process and not used again; `Told` that the last event
  about a player, in the backend's hand, in the channel or at the tracker, is what
  the backend believes; `SignalsTrue` that the last signal about an owner and about
  a status tells how things are, and that those of a former owner come before
  the one that names its successor. `PlayerKnown` then says of each player that the
  signal of its owner waits, or that it is still to be asked about, or a call timed
  out, or that the backend follows its owner with the right status or has
  the signal that corrects it coming. That a late answer, which tells of now, meets
  signals that tell of before is why `SignalsTrue` speaks of the last one only.
- `MostRecentAlwaysWins`: at rest the tracker's ranking is the bus's, but before
  that each signal and event that waits may change it, and whether a status counts
  depends on the one before. The invariant, `RankInv`, does not compute what the
  ranking becomes but says that a way there exists, which is the form one step can
  be added to or taken from without induction: there is a moment `m` of the past at
  which the backend is, from which the signals that wait lead to the present
  (`Leads`), and a ranking to which the events that wait lead the tracker
  (`Convinces`), and the one at `m` is the other once the players still to be asked
  about have started in the order of their names (`Agrees`, `AskedInOrder`). Players
  whose end is still to be told (`Ended`) are left out, since their ranks go
  with that signal. An answer tells of now and not of `m`; that the two are the same
  for the player that is asked (`Foretold`) is just what `raced` excludes.
- `OneIsSelected`: a ranking is one by numbers like `seq`, of which only 0 is
  given twice (`RanksByNumber`), so that the sort is by a total order.
  `CyclingGoesBack`, an action property, states what section 5 says of `Cycle`.

Only model-checked, as the prover has neither liveness nor ENABLED:
`DeferredPressEnds`, `LongPressHolds`, `LearnEnds`, `Exits`, `Shows`,
`CloseEnds`, `ClientsCatchUp` and `LastVolumeIsSent`. Every invariant and every
action property of the runs is proved. Nothing is declared RECURSIVE, so the modules
stay within the prover's reach.

## 5. Where the code does not keep what it says

The passing runs exclude each of these by a restriction named above; dropping
the restriction shows the trace.

Gestures, levels and the graph:

- a second press later than the window, handled before the timer arm, replaces
  the deferred press in `pending`, and the first never fires;
- a deferred press that fires while its control is down again deletes the pin
  of that second press;
- learn armed during a duck swallows its release, and the duck stays; learn
  armed under a momentary layer leaves the layer on;
- a configuration installed during a duck, a release binding that the duck's
  layer overlays on layer 0, or a device unplugged under a duck also keep it;
- `ObserveState` drops echoes while a write is in flight (`volume.go:92`); one
  fetched before a write and handled after it still sets the cache back, and the
  next detent starts from there; late echoes can also make a mute toggle act on
  one stream of two;
- a scene whose mute fails after its volume leaves a cache entry that calls a
  muted stream audible;
- a stream that appears during a solo makes the next press of the same button
  start a new solo instead of ending it;
- two ducks released in the order they began leave a stream at the first one's
  level (`mix.go:221`), although each is said to restore what it found (`:191`);
- a resync's answer replaces the resolver's streams (`engine.go:560`), so a
  stream that appeared after the read, and whose event Run handled before it
  took the answer, is forgotten until its next event or the next resync; one
  answered before an older event of a stream is undone by that event, if the
  newer was dropped;
- the fan-outs drop without a resync, although the comment on `EventResync`
  (`audio/backend.go:151`) promises one for a slow subscriber: only what the
  handoff dropped leads to one;
- `merge` keeps the first item's action, so turns of one control on two layers
  that bind it to the same target with different steps are summed with the first
  step (read, not checked).

LEDs, configuration and hub:

- a control whose LED write failed is not written again until something else
  leads to a flush (`missed`); nor is one whose level a handler fetched into the
  cache and then did not write, or failed to (`volume.go:145-152`, `silent`);
- `watchConnections` picks between a connection and a disconnection that wait
  together at random, so its status may be that of the earlier one;
- a context that ends after the engine took the configuration, or before it was
  rolled back, leaves the engine with one the store does not have (`abandoned`),
  against "keeping all three in sync" (`configstore.go:22`);
- the handlers' read-modify-write undoes a PUT or a reload that came after they
  read the configuration (`overtaken`); re-reading it is said to be enough
  (`scene.go:101-105`). `scene.save` also pairs the refs resolved for the entries
  as they were with the entries as they are;
- a backup that was torn by a crash is found by the next start and kept
  (`config.go:83`);
- the UI's banner is said to be up "once a config_changed push has arrived ...
  that this session hasn't reloaded past yet" (`ConfigContext.tsx:14-16`), but an
  event within 1.5 s of a reload's start is ignored, whoever made the change; one
  that comes later and before the reload's answer is wiped when the answer is taken
  (`:49`), though the answer may be older; and a reload that fails suppresses too.
  An event sent while the pump has no stream, or lost with one, is not made up for,
  as nothing is fetched on a reconnect (`events.rs:30-50`). All of these, and a
  banner dismissed, are `excused`;
- `Tracker.Cycle` does not call `onChange` (`tracker.go:12-14` names the changes
  that do), and a handler that cached a level and does not write it, or fails to, notifies nobody, so
  that clients keep the old state until the next change (`silent`);
- snapshots and `config_changed` come from different goroutines: two revisions
  may be announced in the other order. A client is told to look for gaps in
  `Seq`, but there are none: a stream that would have one is closed.

Media players:

- cycling puts the selected player first in the order it cycles in, so that it
  goes back and forth between two of three players (`tracker.go:176-203`,
  `CyclingGoesBack`); with
  two, a player that starts after a Cycle makes the next Cycle select the one
  already selected;
- the answer of a discovery is newer than the signals still queued: a player may
  be put before one that started later (`raced`);
- a player whose calls timed out is known without its status until it changes
  (`unasked`); the unique name of an owner that was replaced stays in `owners`.

Spotify:

- `LoginInProgress` is set after `StartLogin` has returned (`service.go:208`) and
  may overwrite the end of the same login, or of the one it cancelled, so that
  it stays set;
- a callback that has exchanged its code and loses the `once` to the watcher
  drops its tokens, though the page says the account is connected
  (`auth.go:159-192`);
- a refresh under way during a logout stores or caches a token again
  (`token.go:143`), and so does a login between the halves of `SetTokens`;
- two refreshes at once, with rotation: the loser's `invalid_grant` deletes the
  token the winner has stored; after it `Authorized` stays set, against
  "so the UI shows Connect again" (`token.go:125-129`);
- a new Client ID leaves `Authorized` as it was, and a callback for the old one
  sets it; `client.meID` survives a change of account.

Two observations about `volume.go`: no checked property needs the in-flight
guard of `ObserveState`, because the write commits over whatever the event
brought and the harmful echoes are those that come later; and an event lost at
a full subscriber channel leaves the cache stale until the next event.

## 6. Not modelled, and the plan

Out of scope for good: parsing of MIDI bytes, JSON, D-Bus and HTTP (I/O and
formats), name matching over strings, the response curve's real arithmetic, the
migration and validation of documents, the focus provider's script, the UI's
components and the generators.

Small branches left out: a `ListNames` that fails (`mpris.go:156`) and the depth of
the D-Bus library's `sigCh` (the bus's signals are taken to arrive, in order); a fetch
for an event that fails (`subscribe.go:173`), whose effect is that of the full feed
that is modelled; the error `duck` returns for a gesture bound to it that is not a
hold (`mix.go:243`), which no instance binds.

Left, in this order (the components' notes in `PROJECT.json` say the same):

1. Compositions: `Dispatch` with `InputLoop` and `Mix`, to see what a dropped
   release does to a duck; `ConfigStore` with the levels that `scene.save` reads.
   Each module alone is near what a run of a few minutes explores, so these
   need an abstraction of their parts first.
2. An abstract `ButtonPress` specification (a press is one of press, hold and
   release, double) that `InputLoop` implements for in-time presses, and a layer
   specification without a stack.
3. Proofs: the `ButtonPress` refinement, once stated.
4. The registration of subscribers and the backoff in `audio/supervisor.go`.
