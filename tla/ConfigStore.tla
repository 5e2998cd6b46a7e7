----------------------------- MODULE ConfigStore -----------------------------
(***************************************************************************)
(* The configuration: the store of cmd/knobd (configstore.go) between the  *)
(* engine, which runs it, and the file (internal/config), which outlives   *)
(* the daemon.  It is replaced by a client of the API, by two handlers of  *)
(* the dispatcher that read, edit and write it (knob.assign_focused_app    *)
(* and scene.save) and by SIGHUP; the file is also edited by hand.  A      *)
(* configuration is the knob an assignment rewrites and the entries of one *)
(* scene, with what scene.save has put into them.                          *)
(***************************************************************************)
EXTENDS Integers, Sequences

CONSTANTS Target,     \* targets of the entries of the scene
          Nothing,    \* no level saved yet, no ref, no backup, no configuration
          Torn,       \* part of a document
          Reload,     \* the client's calls of reload that may overlap
          Asked,      \* what such a call has before the daemon has answered it
          QueueDepth, \* config_changed events that fit between the hub and the client
          MaxEdits,   \* bound: edits of a configuration, by anybody
          MaxStops    \* bound: how often the daemon stops

ASSUME ConfigStoreAssumption ==
    /\ MaxEdits \in Nat /\ MaxStops \in Nat
    /\ QueueDepth \in Nat \ {0}
    /\ Nothing # Torn /\ Nothing \notin Target

VARIABLES daemon,     \* where the daemon's start is
          file, backup,
          store,      \* configStore.cfg; before that what the start has loaded
          engine,     \* the configuration Run resolves against
          lock,       \* who holds configStore.mu for writing
          at, want,   \* where each caller is, and what it writes
          refs,       \* Invocation.SceneRefs of the scene.save under way
          told, listening,            \* config_changed on its way to the client, and
                                      \* whether it has a stream the hub sends to
          seen, banner, suppress,     \* its copy, changedExternally, suppressUntil
          answer,                     \* what each of its calls of reload has
          edits, stops,               \* counters of the bounds
          byHand,     \* history: the file was edited since the store wrote it
          abandoned,  \* history: the last SetConfig ended with its context
          overtaken,  \* history: since a handler was dispatched the store was changed
                      \* by others or by an overtaken handler, or the engine did not
                      \* run what it held
          late,       \* history: answers older than an event the client heard or lost
          excused     \* history: what told the client of the last change was lost,
                      \* ignored, dismissed or wiped by an answer

disk == <<file, backup>>
callers == <<lock, at, want, refs>>
client == <<told, listening, seen, banner, suppress, answer, late, excused>>
counters == <<edits, stops>>
history == <<byHand, abandoned, overtaken>>
vars == <<daemon, disk, store, engine, callers, client, counters, history>>

Handler == {"assign", "save"}          \* one after the other, on the dispatcher
Caller == Handler \cup {"put", "hup"}
Nobody == "nobody"

Entry == [target : Target, saved : Target \cup {Nothing}]
Config == [knob : 0 .. MaxEdits, scene : [1 .. 2 -> Entry]]
ASSUME AnswerAssumption == Asked # Nothing /\ {Asked, Nothing} \cap Config = {}

File == [old : BOOLEAN, cfg : Config]  \* old: of an earlier schema version

Start == {"down", "backs up", "saves", "up"}
Stage == {"idle", "queued", "locks", "offers", "applied", "saves", "renames",
          "rolls", "rolled", "announces"}
Locked == {"offers", "applied", "saves", "renames", "rolls", "rolled"}

TypeOK ==
    /\ daemon \in Start
    /\ file \in File /\ backup \in Config \cup {Nothing, Torn}
    /\ store \in Config /\ engine \in Config
    /\ lock \in Caller \cup {Nobody}
    /\ at \in [Caller -> Stage] /\ want \in [Caller -> Config \cup {Nothing}]
    /\ \A c \in Caller : at[c] \in Locked <=> lock = c
    /\ refs \in [1 .. 2 -> Target \cup {Nothing}]
    /\ overtaken \in [Handler -> BOOLEAN]
    /\ told \in 0 .. QueueDepth /\ listening \in BOOLEAN
    /\ seen \in Config /\ banner \in BOOLEAN /\ suppress \in BOOLEAN
    /\ answer \in [Reload -> Config \cup {Nothing, Asked}]
    /\ late \subseteq Reload /\ excused \in BOOLEAN
    /\ edits \in 0 .. MaxEdits /\ stops \in 0 .. MaxStops
    /\ byHand \in BOOLEAN /\ abandoned \in BOOLEAN

NoRefs == <<Nothing, Nothing>>

(* Nobody is at work. *)
Quiet == /\ lock = Nobody
         /\ at = [c \in Caller |-> "idle"]
         /\ want = [c \in Caller |-> Nothing]
         /\ refs = NoRefs
         /\ overtaken = [h \in Handler |-> FALSE]

Scenes == {s \in [1 .. 2 -> Entry] :
              s[1].target # s[2].target /\ s[1].saved = Nothing /\ s[2].saved = Nothing}

Init ==
    /\ daemon = "down"
    /\ file \in [old : BOOLEAN, cfg : [knob : {0}, scene : Scenes]]
    /\ backup = Nothing
    /\ store = file.cfg /\ engine = file.cfg
    /\ Quiet
    /\ told = 0 /\ listening = FALSE
    /\ seen = file.cfg /\ banner = FALSE /\ suppress = FALSE
    /\ answer = [r \in Reload |-> Nothing] /\ late = {} /\ excused = FALSE
    /\ edits = 0 /\ stops = 0
    /\ byHand = FALSE /\ abandoned = FALSE

-----------------------------------------------------------------------------
(* What the client may hear of a change of the store *)

Answered == {r \in Reload : answer[r] \in Config}

(* The client will not hear of the store's change to cfg. *)
Misses(cfg) == late' = late \cup Answered /\ excused' = (excused \/ seen # cfg)

(* Its stream is closed, or breaks, with some of what was on its way; lost: *)
(* and with an event that was still to be sent.                             *)
LosesStream(lost) ==
    /\ listening' = FALSE
    /\ told' \in 0 .. told
    /\ IF lost \/ told' # told THEN Misses(store) ELSE UNCHANGED <<late, excused>>
    /\ UNCHANGED <<seen, banner, suppress, answer>>

(* Hub.NotifyConfigChanged: to who is subscribed, and a full queue is closed. *)
Broadcasts ==
    \/ /\ ~listening /\ Misses(store)
       /\ UNCHANGED <<told, listening, seen, banner, suppress, answer>>
    \/ /\ listening /\ told < QueueDepth /\ told' = told + 1
       /\ UNCHANGED <<listening, seen, banner, suppress, answer, late, excused>>
    \/ listening /\ told = QueueDepth /\ LosesStream(TRUE)

-----------------------------------------------------------------------------
(* The file, between starts and under a running daemon *)

Edited == edits < MaxEdits /\ edits' = edits + 1

(* An edit changes the knob, or the order of the entries. *)
Edit(cfg) == {[cfg EXCEPT !.knob = edits + 1],
              [cfg EXCEPT !.scene = <<cfg.scene[2], cfg.scene[1]>>]}

(* An old document may be put back. *)
EditsFile ==
    /\ Edited
    /\ \E cfg \in Edit(file.cfg), old \in BOOLEAN :
          (old => file.old \/ daemon = "down") /\ file' = [old |-> old, cfg |-> cfg]
    /\ byHand' = TRUE
    /\ UNCHANGED <<daemon, backup, store, engine, callers, client, stops, abandoned,
                   overtaken>>

-----------------------------------------------------------------------------
(* LoadAndUpgrade, and the end of the daemon *)

Loads(then) ==
    /\ daemon = "down" /\ daemon' = then
    /\ store' = file.cfg
    /\ abandoned' = FALSE
    /\ IF file.cfg # store THEN Misses(file.cfg) ELSE UNCHANGED <<late, excused>>
    /\ UNCHANGED <<file, callers, told, listening, seen, banner, suppress, answer, counters,
                   byHand, overtaken>>

StartsCurrent == ~file.old /\ Loads("up") /\ engine' = store' /\ UNCHANGED backup

(* The backup is being written. *)
StartsOld ==
    /\ file.old /\ backup = Nothing
    /\ Loads("backs up") /\ backup' = Torn
    /\ UNCHANGED engine

(* There is one from another start. *)
StartsOldAgain ==
    /\ file.old /\ backup # Nothing
    /\ Loads("saves")
    /\ UNCHANGED <<engine, backup>>

BacksUp ==
    /\ daemon = "backs up" /\ daemon' = "saves"
    /\ backup' = store
    /\ UNCHANGED <<file, store, engine, callers, client, counters, history>>

Upgrades ==
    /\ daemon = "saves" /\ daemon' = "up"
    /\ file' = [old |-> FALSE, cfg |-> store]
    /\ engine' = store /\ byHand' = FALSE
    /\ UNCHANGED <<backup, store, callers, client, counters, abandoned, overtaken>>

(* The daemon ends, or is killed, or its start fails, between any two steps. *)
Stops ==
    /\ daemon # "down" /\ daemon' = "down"
    /\ stops < MaxStops /\ stops' = stops + 1
    /\ LosesStream(\E c \in Caller : at[c] = "announces")
    /\ lock' = Nobody /\ at' = [c \in Caller |-> "idle"]
    /\ want' = [c \in Caller |-> Nothing]
    /\ refs' = NoRefs /\ overtaken' = [h \in Handler |-> FALSE]
    /\ UNCHANGED <<disk, store, engine, edits, byHand, abandoned>>

-----------------------------------------------------------------------------
(* The callers, up to SetConfig *)

Up == daemon = "up"

(* SetConfig returns: what the caller held is gone. *)
Returns(c, from) ==
    /\ Up /\ at[c] = from /\ at' = [at EXCEPT ![c] = "idle"]
    /\ want' = [want EXCEPT ![c] = Nothing]
    /\ refs' = IF c = "save" THEN NoRefs ELSE refs
    /\ overtaken' = IF c \in Handler THEN [overtaken EXCEPT ![c] = FALSE] ELSE overtaken

Goes(c, from, to) == Up /\ at[c] = from /\ at' = [at EXCEPT ![c] = to]

(* The client puts an edit of its copy. *)
Puts ==
    /\ Goes("put", "idle", "locks")
    /\ Edited
    /\ \E cfg \in Edit(seen) : want' = [want EXCEPT !["put"] = cfg]
    /\ UNCHANGED <<daemon, disk, store, engine, lock, refs, client, stops, history>>

(* SIGHUP: Load migrates what it reads and writes nothing. *)
Reloads ==
    /\ Goes("hup", "idle", "locks")
    /\ want' = [want EXCEPT !["hup"] = file.cfg]
    /\ UNCHANGED <<daemon, disk, store, engine, lock, refs, client, counters, history>>

(* The run loop resolves the scene's entries and enqueues the action. *)
Dispatches(h) ==
    /\ Goes(h, "idle", "queued")
    /\ Edited
    /\ IF h = "save"
       THEN refs' \in {r \in [1 .. 2 -> Target \cup {Nothing}] :
                         \A i \in 1 .. 2 : r[i] \in {engine.scene[i].target, Nothing}}
       ELSE UNCHANGED refs
    /\ overtaken' = [overtaken EXCEPT ![h] = engine # store]
    /\ UNCHANGED <<daemon, disk, store, engine, lock, want, client, stops,
                   byHand, abandoned>>

(* Mutant of DispatcherFree: handlers do not wait for each other. *)
DispatcherFreeAlways == TRUE

DispatcherFree == \A h \in Handler : at[h] \in {"idle", "queued"}

(* applyAssignment: the turn of one encoder is rebound. *)
Assigned(cfg) == [cfg EXCEPT !.knob = edits]

(* executeSave: what the i-th ref shows goes into the i-th entry. *)
Saved(scene) ==
    [i \in 1 .. 2 |-> IF refs[i] = Nothing THEN scene[i]
                      ELSE [scene[i] EXCEPT !.saved = refs[i]]]

(* The handler reads the configuration and edits it. *)
Reads(h) ==
    /\ Goes(h, "queued", "locks")
    /\ DispatcherFree /\ lock = Nobody
    /\ want' = [want EXCEPT ![h] = IF h = "save" THEN [store EXCEPT !.scene = Saved(@)]
                                   ELSE Assigned(store)]
    /\ UNCHANGED <<daemon, disk, store, engine, lock, refs, client, counters, history>>

-----------------------------------------------------------------------------
(* SetConfig of the store *)

Locks(c) ==
    /\ Goes(c, "locks", "offers")
    /\ lock = Nobody /\ lock' = c
    /\ UNCHANGED <<daemon, disk, store, engine, want, refs, client, counters, history>>

(* Run takes the configuration; the reply is read later, or never. *)
EngineTakes(c) ==
    /\ Goes(c, "offers", "applied")
    /\ engine' = want[c]
    /\ UNCHANGED <<daemon, disk, store, lock, want, refs, client, counters, history>>

Replied(c) ==
    /\ Goes(c, "applied", "saves")
    /\ UNCHANGED <<daemon, disk, store, engine, lock, want, refs, client, counters,
                   history>>

Unlocks(c) == lock = c /\ lock' = Nobody

(* Engine.SetConfig ends with its context, before or after Run took the    *)
(* configuration: a handler's has two seconds, a request's ends with the   *)
(* client.                                                                 *)
GivesUp(c) ==
    /\ c # "hup"
    /\ \E s \in {"offers", "applied", "rolls", "rolled"} : Returns(c, s)
    /\ Unlocks(c)
    /\ abandoned' = (abandoned \/ engine # store)
    /\ UNCHANGED <<daemon, disk, store, engine, client, counters, byHand>>

(* Mutant of WritesTemp: the file is written in place. *)
WritesInPlace(c) ==
    /\ Goes(c, "saves", "renames")
    /\ file' = Torn
    /\ UNCHANGED <<daemon, backup, store, engine, lock, want, refs, client, counters,
                   history>>

(* Save *)
WritesTemp(c) ==
    /\ Goes(c, "saves", "renames")
    /\ UNCHANGED <<daemon, disk, store, engine, lock, want, refs, client, counters,
                   history>>

SaveFails(c) ==
    /\ Goes(c, "saves", "rolls") \/ Goes(c, "renames", "rolls")
    /\ UNCHANGED <<daemon, disk, store, engine, lock, want, refs, client, counters,
                   history>>

Commits(c) ==
    /\ Goes(c, "renames", "announces")
    /\ file' = [old |-> FALSE, cfg |-> want[c]]
    /\ store' = want[c]
    /\ Unlocks(c)
    /\ byHand' = FALSE /\ abandoned' = FALSE
    /\ overtaken' = IF c \in Handler /\ ~overtaken[c] THEN overtaken
                    ELSE [h \in Handler |-> at[h] # "idle"]
    /\ UNCHANGED <<daemon, backup, engine, want, refs, client, counters>>

(* Mutant of RollsBack: the engine is given what could not be saved. *)
RollsForward(c) ==
    /\ Goes(c, "rolls", "rolled")
    /\ engine' = want[c]
    /\ UNCHANGED <<daemon, disk, store, lock, want, refs, client, counters, history>>

RollsBack(c) ==
    /\ Goes(c, "rolls", "rolled")
    /\ engine' = store
    /\ UNCHANGED <<daemon, disk, store, lock, want, refs, client, counters, history>>

RolledBack(c) ==
    /\ Returns(c, "rolled")
    /\ Unlocks(c)
    /\ abandoned' = FALSE
    /\ UNCHANGED <<daemon, disk, store, engine, client, counters, byHand>>

(* Mutant of Announces: a reload is not announced. *)
AnnouncesUnlessReloaded(c) ==
    /\ Returns(c, "announces")
    /\ IF c = "hup" THEN UNCHANGED client ELSE Broadcasts
    /\ UNCHANGED <<daemon, disk, store, engine, lock, counters, byHand, abandoned>>

(* onChanged; the client that put the configuration then gets its answer. *)
Announces(c) ==
    /\ Returns(c, "announces")
    /\ Broadcasts
    /\ UNCHANGED <<daemon, disk, store, engine, lock, counters, byHand, abandoned>>

-----------------------------------------------------------------------------
(* The client: the pump of events.rs and ConfigProvider *)

Others == <<daemon, disk, store, engine, callers, counters, history>>

(* The pump connects, at first or after its backoff.  Nothing is fetched   *)
(* again: what was broadcast meanwhile stays lost.                         *)
Listens ==
    /\ Up /\ ~listening /\ listening' = TRUE
    /\ UNCHANGED <<Others, told, seen, banner, suppress, answer, late, excused>>

Drops == listening /\ LosesStream(FALSE) /\ UNCHANGED Others

(* The listener of config_changed: ignored in the window of a reload. *)
HearsOfChange ==
    /\ told > 0 /\ told' = told - 1
    /\ late' = late \cup Answered
    /\ IF suppress THEN UNCHANGED banner /\ excused' = (excused \/ seen # store)
                   ELSE banner' = TRUE /\ excused' = FALSE
    /\ UNCHANGED <<Others, listening, seen, suppress, answer>>

(* reload, when the client mounts, after it has put, or for the user: the  *)
(* window opens before the request is sent.                                *)
ReloadAsks(r) ==
    /\ answer[r] = Nothing /\ answer' = [answer EXCEPT ![r] = Asked]
    /\ suppress' = TRUE
    /\ UNCHANGED <<Others, told, listening, seen, banner, late, excused>>

SuppressEnds ==
    /\ suppress /\ suppress' = FALSE
    /\ UNCHANGED <<Others, told, listening, seen, banner, answer, late, excused>>

(* GET /config: Config needs the lock for reading. *)
ReloadAnswered(r) ==
    /\ Up /\ lock = Nobody
    /\ answer[r] = Asked /\ answer' = [answer EXCEPT ![r] = store]
    /\ UNCHANGED <<Others, told, listening, seen, banner, suppress, late, excused>>

(* reload goes on: the banner goes, whatever put it up. *)
ReloadTaken(r) ==
    /\ r \in Answered /\ answer' = [answer EXCEPT ![r] = Nothing]
    /\ seen' = answer[r] /\ banner' = FALSE
    /\ late' = late \ {r} /\ excused' = (r \in late /\ answer[r] # store)
    /\ UNCHANGED <<Others, told, listening, suppress>>

(* The request fails, or its answer gets lost. *)
ReloadFails(r) ==
    /\ answer[r] # Nothing /\ answer' = [answer EXCEPT ![r] = Nothing]
    /\ late' = late \ {r}
    /\ UNCHANGED <<Others, told, listening, seen, banner, suppress, excused>>

(* dismissChanged *)
Dismisses ==
    /\ banner /\ banner' = FALSE
    /\ excused' = (excused \/ seen # store)
    /\ UNCHANGED <<Others, told, listening, seen, suppress, answer, late>>

-----------------------------------------------------------------------------
SetConfig(c) ==
    \/ Locks(c) \/ EngineTakes(c) \/ Replied(c) \/ GivesUp(c)
    \/ WritesTemp(c) \/ SaveFails(c) \/ Commits(c) \/ RollsBack(c) \/ RolledBack(c)
    \/ Announces(c)

ClientActs ==
    \/ Listens \/ Drops \/ HearsOfChange \/ SuppressEnds \/ Dismisses
    \/ \E r \in Reload :
          ReloadAsks(r) \/ ReloadAnswered(r) \/ ReloadTaken(r) \/ ReloadFails(r)

Next ==
    \/ EditsFile \/ StartsCurrent \/ StartsOld \/ StartsOldAgain \/ BacksUp \/ Upgrades \/ Stops
    \/ Puts \/ Reloads \/ \E h \in Handler : Dispatches(h) \/ Reads(h)
    \/ \E c \in Caller : SetConfig(c)
    \/ ClientActs

Spec == Init /\ [][Next]_vars

-----------------------------------------------------------------------------
(* Properties *)

(* "Keeping all three in sync": the file holds what the store holds, over  *)
(* failed saves, crashes and restarts, unless somebody edited it; and the  *)
(* engine runs it whenever no SetConfig is under way, unless the last one  *)
(* lost its context with the engine's answer or the rollback outstanding.  *)
InSync ==
    /\ byHand \/ file.cfg = store
    /\ Up /\ lock = Nobody => abandoned \/ engine = store

(* A handler writes back a whole configuration, of which it means to       *)
(* change its own part only: what another handler has put there is kept,   *)
(* and no level is saved into the entry of another target.  Only a client  *)
(* or a reload that was under way when the handler was dispatched, or came *)
(* later, may be undone, and what was written after a handler undid one.   *)
HandlersKeepEdits ==
    [][\A h \in Handler :
          (at[h] = "renames" /\ at'[h] = "announces" /\ ~overtaken[h]) =>
             IF h = "assign" THEN store'.scene = store.scene
             ELSE /\ store'.knob = store.knob
                  /\ \A i \in 1 .. 2 :
                        /\ store'.scene[i].target = store.scene[i].target
                        /\ store'.scene[i].saved \in {store.scene[i].saved,
                                                      store.scene[i].target}]_vars

(* A change of the store is still on its way to the client. *)
Coming == told > 0 \/ \E c \in Caller : at[c] = "announces"

(* A client with an outdated copy has the banner up, or an event that will *)
(* put it up is on its way, over commits, reloads and answers that cross   *)
(* them.  It is excused while what told it of the last change was lost     *)
(* (the daemon's end or its start with another file, no stream, or a       *)
(* stream that broke with events in it), came within the window of a       *)
(* reload, was dismissed, or was wiped by the answer to a reload that the  *)
(* daemon had read before the change.                                      *)
StaleIsTold == Coming \/ seen = store \/ banner \/ excused
=============================================================================
