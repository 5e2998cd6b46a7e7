-------------------------- MODULE ConfigStore_proofs --------------------------
(***************************************************************************)
(* The configuration store, for any scene of two entries, any number of    *)
(* edits and any number of stops.                                          *)
(***************************************************************************)
EXTENDS ConfigStore, TLAPS

(* A caller beyond its reading holds a configuration to write; only a      *)
(* daemon that is up has callers; and the dispatcher runs one handler.     *)
Writing == {"locks", "offers", "applied", "saves", "renames"}

Working ==
    /\ \A c \in Caller : at[c] \in Writing \cup {"rolls"} => want[c] \in Config
    /\ daemon # "up" => at = [c \in Caller |-> "idle"]
    /\ at["assign"] \in {"idle", "queued"} \/ at["save"] \in {"idle", "queued"}

(* What the engine runs while a SetConfig is under way. *)
EngineRuns ==
    \A c \in Caller :
        /\ at[c] = "offers" => abandoned \/ engine = store
        /\ at[c] \in {"applied", "saves", "renames"} => engine = want[c]
        /\ at[c] = "rolled" => engine = store

(* What a handler holds that nothing has overtaken: refs of the scene as   *)
(* it is, then the store's configuration with the handler's part changed.  *)
SameTargets(r) == \A i \in 1 .. 2 : r[i] \in {Nothing, store.scene[i].target}

Resaves(cfg) ==
    /\ cfg.knob = store.knob
    /\ \A i \in 1 .. 2 : /\ cfg.scene[i].target = store.scene[i].target
                         /\ cfg.scene[i].saved \in {store.scene[i].saved,
                                                    store.scene[i].target}

Current ==
    /\ at["save"] = "queued" /\ ~overtaken["save"] => SameTargets(refs)
    /\ at["save"] \in Writing /\ ~overtaken["save"] => Resaves(want["save"])
    /\ at["assign"] \in Writing /\ ~overtaken["assign"] => want["assign"].scene = store.scene
-----------------------------------------------------------------------------
(* What an edit makes is a configuration *)

LEMMA EditsConfigs ==
    ASSUME NEW cfg \in Config, edits \in 0 .. MaxEdits, Edited
    PROVE  Edit(cfg) \subseteq Config /\ edits' \in 0 .. MaxEdits
  BY ConfigStoreAssumption DEF Edit, Edited, Config

LEMMA AssignsConfigs ==
    ASSUME NEW cfg \in Config, edits \in 0 .. MaxEdits
    PROVE  Assigned(cfg) \in Config /\ Assigned(cfg).scene = cfg.scene
  BY ConfigStoreAssumption DEF Assigned, Config

LEMMA SavesConfigs ==
    ASSUME store \in Config, refs \in [1 .. 2 -> Target \cup {Nothing}], SameTargets(refs)
    PROVE  [store EXCEPT !.scene = Saved(@)] \in Config
           /\ Resaves([store EXCEPT !.scene = Saved(@)])
  BY DEF Saved, Config, Entry, SameTargets, Resaves

LEMMA SavesTyped ==
    ASSUME store \in Config, refs \in [1 .. 2 -> Target \cup {Nothing}]
    PROVE  [store EXCEPT !.scene = Saved(@)] \in Config
  BY DEF Saved, Config, Entry

-----------------------------------------------------------------------------
(* Types, and where the callers are *)

Typed == TypeOK /\ Working

(* TypeOK, apart for what the callers hold, the client, and the rest. *)
DataTyped ==
    /\ daemon \in Start
    /\ file \in File /\ backup \in Config \cup {Nothing, Torn}
    /\ store \in Config /\ engine \in Config
    /\ edits \in 0 .. MaxEdits /\ stops \in 0 .. MaxStops
    /\ byHand \in BOOLEAN /\ abandoned \in BOOLEAN

ClientTyped ==
    /\ told \in 0 .. QueueDepth /\ listening \in BOOLEAN
    /\ seen \in Config /\ banner \in BOOLEAN /\ suppress \in BOOLEAN
    /\ answer \in [Reload -> Config \cup {Nothing, Asked}]
    /\ late \subseteq Reload /\ excused \in BOOLEAN

CallersTyped ==
    /\ lock \in Caller \cup {Nobody}
    /\ at \in [Caller -> Stage] /\ want \in [Caller -> Config \cup {Nothing}]
    /\ \A c \in Caller : at[c] \in Locked <=> lock = c
    /\ refs \in [1 .. 2 -> Target \cup {Nothing}]
    /\ overtaken \in [Handler -> BOOLEAN]
    /\ Working

LEMMA TypedParts == Typed <=> DataTyped /\ ClientTyped /\ CallersTyped
  BY DEF Typed, TypeOK, DataTyped, ClientTyped, CallersTyped

LEMMA InitTyped == Init => Typed
  <1> SUFFICES ASSUME Init PROVE Typed
    OBVIOUS
  <1>1. file.cfg \in Config /\ file \in File
    BY ConfigStoreAssumption DEF Init, Config, File, Scenes, Entry
  <1>2. NoRefs \in [1 .. 2 -> Target \cup {Nothing}]
    BY DEF NoRefs
  <1>3. Working
    BY DEF Init, Quiet, Working, Writing, Caller, Handler
  <1>4. \A c \in Caller : at[c] \in Locked <=> lock = c
    BY DEF Init, Quiet, Locked, Caller, Handler, Nobody
  <1>5. lock \in Caller \cup {Nobody} /\ at \in [Caller -> Stage] /\ daemon \in Start
    BY DEF Init, Quiet, Stage, Start
  <1>6. overtaken \in [Handler -> BOOLEAN] /\ want \in [Caller -> Config \cup {Nothing}]
    BY DEF Init, Quiet
  <1>7. /\ listening \in BOOLEAN /\ banner \in BOOLEAN
        /\ suppress \in BOOLEAN /\ late \subseteq Reload /\ excused \in BOOLEAN
        /\ answer \in [Reload -> Config \cup {Nothing, Asked}]
        /\ byHand \in BOOLEAN /\ abandoned \in BOOLEAN
    BY DEF Init
  <1>8. edits \in 0 .. MaxEdits /\ stops \in 0 .. MaxStops /\ told \in 0 .. QueueDepth
    BY ConfigStoreAssumption DEF Init
  <1>9. refs \in [1 .. 2 -> Target \cup {Nothing}] /\ store \in Config /\ engine \in Config
        /\ backup \in Config \cup {Nothing, Torn} /\ seen \in Config
    BY <1>1, <1>2 DEF Init, Quiet
  <1> QED
    BY <1>1, <1>3, <1>4, <1>5, <1>6, <1>7, <1>8, <1>9 DEF Typed, TypeOK

(* A caller goes from one stage to another, with the lock and with what it *)
(* writes as its stage needs them; what the others hold stays.             *)
LEMMA CallersMove ==
    ASSUME CallersTyped, NEW c \in Caller, NEW from \in Stage, NEW to \in Stage,
           Goes(c, from, to), daemon' = daemon,
           to \in Locked => lock' = c,
           to \notin Locked => lock' = IF lock = c THEN Nobody ELSE lock,
           lock # c => to \notin Locked \/ lock = Nobody,
           want' \in [Caller -> Config \cup {Nothing}],
           \A d \in Caller \ {c} : want'[d] = want[d],
           to \in Writing \cup {"rolls"} => want'[c] \in Config,
           refs' \in [1 .. 2 -> Target \cup {Nothing}],
           overtaken' \in [Handler -> BOOLEAN],
           c \in Handler /\ to \notin {"idle", "queued"} =>
               from \notin {"idle", "queued"} \/ DispatcherFree
    PROVE  CallersTyped'
  <1>1. /\ at \in [Caller -> Stage] /\ daemon = "up" /\ at[c] = from
        /\ at' = [at EXCEPT ![c] = to]
    BY DEF CallersTyped, Goes, Up
  <1>2. at' \in [Caller -> Stage] /\ at'[c] = to /\ \A d \in Caller \ {c} : at'[d] = at[d]
    BY <1>1
  <1>3. lock' \in Caller \cup {Nobody}
    BY DEF CallersTyped
  <1>4. \A d \in Caller : at'[d] \in Locked <=> lock' = d
    BY <1>2 DEF CallersTyped, Caller, Handler, Nobody
  <1>5. Working'
    <2>1. \A d \in Caller : at'[d] \in Writing \cup {"rolls"} => want'[d] \in Config
      BY <1>2 DEF CallersTyped, Working
    <2>2. at'["assign"] \in {"idle", "queued"} \/ at'["save"] \in {"idle", "queued"}
      BY <1>1, <1>2 DEF CallersTyped, Working, DispatcherFree, Caller, Handler
    <2> QED
      BY <1>1, <2>1, <2>2 DEF Working, Writing
  <1> QED
    BY <1>2, <1>3, <1>4, <1>5 DEF CallersTyped

(* What the client has stays what it is when its stream goes and when the  *)
(* hub broadcasts.                                                         *)
LEMMA StreamTyped ==
    ASSUME ClientTyped, store \in Config,
           Broadcasts \/ \E lost \in BOOLEAN : LosesStream(lost)
    PROVE  ClientTyped'
  <1>1. Answered \subseteq Reload
    BY DEF Answered
  <1>2. ASSUME Misses(store) PROVE late' \subseteq Reload /\ excused' \in BOOLEAN
    <2>1. excused' \in BOOLEAN
      BY <1>2, Zenon DEF Misses
    <2> QED
      BY <1>1, <1>2, <2>1 DEF Misses, ClientTyped
  <1>3. ASSUME NEW lost \in BOOLEAN, LosesStream(lost) PROVE ClientTyped'
    <2>1. late' \subseteq Reload /\ excused' \in BOOLEAN
      BY <1>2, <1>3 DEF LosesStream, ClientTyped
    <2>2. told' \in 0 .. QueueDepth
      BY <1>3, ConfigStoreAssumption DEF LosesStream, ClientTyped
    <2> QED
      BY <1>3, <2>1, <2>2 DEF LosesStream, ClientTyped
  <1>4. CASE ~listening /\ Broadcasts
    <2>1. Misses(store) /\ UNCHANGED <<told, listening, seen, banner, suppress, answer>>
      BY <1>4 DEF Broadcasts
    <2> QED
      BY <1>2, <2>1 DEF ClientTyped
  <1>5. CASE /\ told < QueueDepth /\ told' = told + 1
             /\ UNCHANGED <<listening, seen, banner, suppress, answer, late, excused>>
    <2>1. told' \in 0 .. QueueDepth
      BY <1>5, ConfigStoreAssumption DEF ClientTyped
    <2> QED
      BY <1>5, <2>1 DEF ClientTyped
  <1>6. CASE LosesStream(TRUE)
    BY <1>3, <1>6
  <1> QED
    BY <1>3, <1>4, <1>5, <1>6 DEF Broadcasts

LEMMA ClientActsTyped == ASSUME ClientTyped, store \in Config, ClientActs PROVE ClientTyped'
  <1>1. Answered \subseteq Reload
    BY DEF Answered
  <1>2. CASE Listens \/ SuppressEnds
    BY <1>2 DEF Listens, SuppressEnds, ClientTyped
  <1>3. CASE Drops
    BY <1>3, StreamTyped DEF Drops
  <1>4. CASE HearsOfChange
    <2>1. told' \in 0 .. QueueDepth
      BY <1>4, ConfigStoreAssumption DEF HearsOfChange, ClientTyped
    <2>2. banner' = banner \/ banner' = TRUE
      BY <1>4, Zenon DEF HearsOfChange
    <2>3. excused' \in BOOLEAN
      BY <1>4, Zenon DEF HearsOfChange
    <2> QED
      BY <1>1, <1>4, <2>1, <2>2, <2>3 DEF HearsOfChange, ClientTyped
  <1>5. CASE Dismisses
    <2>1. excused' \in BOOLEAN
      BY <1>5, Zenon DEF Dismisses
    <2> QED
      BY <1>5, <2>1 DEF Dismisses, ClientTyped
  <1>6. ASSUME NEW r \in Reload, ReloadAsks(r) \/ ReloadAnswered(r) \/ ReloadFails(r)
        PROVE  ClientTyped'
    <2>1. answer' \in [Reload -> Config \cup {Nothing, Asked}]
      BY <1>6 DEF ReloadAsks, ReloadAnswered, ReloadFails, ClientTyped
    <2> QED
      BY <1>6, <2>1 DEF ReloadAsks, ReloadAnswered, ReloadFails, ClientTyped
  <1>7. ASSUME NEW r \in Reload, ReloadTaken(r) PROVE ClientTyped'
    <2>1. seen' \in Config /\ answer' \in [Reload -> Config \cup {Nothing, Asked}]
      BY <1>7 DEF ReloadTaken, Answered, ClientTyped
    <2>2. excused' \in BOOLEAN
      BY <1>7, Zenon DEF ReloadTaken
    <2> QED
      BY <1>7, <2>1, <2>2 DEF ReloadTaken, ClientTyped
  <1> QED
    BY <1>2, <1>3, <1>4, <1>5, <1>6, <1>7 DEF ClientActs

(* The client changes nothing but what is its own. *)
LEMMA ClientLeavesOthers == ClientActs => UNCHANGED Others
  BY DEF ClientActs, Listens, Drops, HearsOfChange, SuppressEnds, Dismisses, ReloadAsks,
         ReloadAnswered, ReloadTaken, ReloadFails

LEMMA StepClientTyped == ASSUME ClientTyped, DataTyped, [Next]_vars PROVE ClientTyped'
  <1>1. store \in Config /\ Answered \subseteq Reload
    BY DEF DataTyped, Answered
  <1>2. CASE UNCHANGED client
    BY <1>2 DEF client, ClientTyped
  <1>3. CASE ClientActs
    BY <1>1, <1>3, ClientActsTyped
  <1>4. CASE StartsCurrent \/ StartsOld \/ StartsOldAgain
    <2>1. PICK then \in {"up", "backs up", "saves"} : Loads(then)
      BY <1>4 DEF StartsCurrent, StartsOld, StartsOldAgain
    <2>2. CASE Misses(file.cfg)
      <3>1. excused' \in BOOLEAN
        BY <2>2, Zenon DEF Misses
      <3> QED
        BY <1>1, <2>1, <2>2, <3>1 DEF Loads, Misses, ClientTyped
    <2>3. CASE UNCHANGED <<late, excused>>
      BY <2>1, <2>3 DEF Loads, ClientTyped
    <2> QED
      BY <2>1, <2>2, <2>3 DEF Loads
  <1>5. CASE Stops
    <2>1. \E lost \in BOOLEAN : LosesStream(lost)
      BY <1>5, Zenon DEF Stops
    <2> QED
      BY <1>1, <2>1, StreamTyped
  <1>6. CASE \E c \in Caller : Announces(c)
    BY <1>1, <1>6, StreamTyped DEF Announces
  <1>7. CASE \/ EditsFile \/ BacksUp \/ Upgrades \/ Puts \/ Reloads
             \/ \E h \in Handler : Dispatches(h) \/ Reads(h)
    BY <1>2, <1>7 DEF EditsFile, BacksUp, Upgrades, Puts, Reloads, Dispatches, Reads
  <1>8. CASE \E c \in Caller :
                \/ Locks(c) \/ EngineTakes(c) \/ Replied(c) \/ GivesUp(c) \/ WritesTemp(c)
                \/ SaveFails(c) \/ Commits(c) \/ RollsBack(c) \/ RolledBack(c)
    BY <1>2, <1>8 DEF Locks, EngineTakes, Replied, GivesUp, WritesTemp, SaveFails, Commits,
                      RollsBack, RolledBack
  <1>9. CASE UNCHANGED vars
    BY <1>2, <1>9 DEF vars
  <1> QED
    BY <1>3, <1>4, <1>5, <1>6, <1>7, <1>8, <1>9 DEF Next, SetConfig

LEMMA StepTyped == Typed /\ [Next]_vars => Typed'
  <1> SUFFICES ASSUME DataTyped, ClientTyped, CallersTyped, [Next]_vars
               PROVE  DataTyped' /\ CallersTyped'
    BY TypedParts, StepClientTyped, PTL
  <1>1. CASE UNCHANGED vars
    BY <1>1 DEF DataTyped, CallersTyped, Working, vars, disk, callers, client, counters, history
  <1>2. CASE EditsFile
    <2>1. file' \in File /\ edits' \in 0 .. MaxEdits
      BY <1>2, EditsConfigs DEF EditsFile, DataTyped, File
    <2> QED
      BY <1>2, <2>1 DEF EditsFile, callers, client, DataTyped, CallersTyped, Working
  <1>3. ASSUME NEW then \in {"up", "backs up", "saves"}, Loads(then),
               engine' \in Config, backup' \in Config \cup {Nothing, Torn}
        PROVE  DataTyped' /\ CallersTyped'
    BY <1>3 DEF Loads, callers, client, counters, DataTyped, CallersTyped, Working, File, Start
  <1>4. CASE StartsCurrent
    BY <1>3, <1>4 DEF StartsCurrent, Loads, DataTyped, File
  <1>5. CASE StartsOld \/ StartsOldAgain
    BY <1>3, <1>5 DEF StartsOld, StartsOldAgain, DataTyped
  <1>6. CASE BacksUp
    BY <1>6 DEF BacksUp, callers, client, counters, history, DataTyped, CallersTyped, Working,
                Start
  <1>7. CASE Upgrades
    BY <1>7 DEF Upgrades, callers, client, counters, DataTyped, CallersTyped, Working, File,
                Start
  <1>8. CASE Stops
    <2>1. DataTyped'
      <3>1. stops' \in 0 .. MaxStops
        BY <1>8, ConfigStoreAssumption DEF Stops, DataTyped
      <3> QED
        BY <1>8, <3>1 DEF Stops, disk, DataTyped, Start
    <2>2. /\ at' \in [Caller -> Stage] /\ want' \in [Caller -> Config \cup {Nothing}]
          /\ overtaken' \in [Handler -> BOOLEAN] /\ refs' \in [1 .. 2 -> Target \cup {Nothing}]
      BY <1>8 DEF Stops, Stage, NoRefs
    <2>3. Working'
      BY <1>8 DEF Stops, Working, Writing, Caller, Handler
    <2>4. lock' \in Caller \cup {Nobody} /\ \A c \in Caller : at'[c] \in Locked <=> lock' = c
      BY <1>8 DEF Stops, Locked, Caller, Handler, Nobody
    <2> QED
      BY <2>1, <2>2, <2>3, <2>4 DEF CallersTyped
  <1>9. CASE Puts
    <2>1. want' \in [Caller -> Config \cup {Nothing}] /\ want'["put"] \in Config
          /\ edits' \in 0 .. MaxEdits /\ \A d \in Caller \ {"put"} : want'[d] = want[d]
      BY <1>9, EditsConfigs DEF Puts, DataTyped, ClientTyped, CallersTyped, Caller
    <2>2. DataTyped'
      BY <1>9, <2>1 DEF Puts, Goes, Up, disk, client, history, DataTyped
    <2>3. "put" \in Caller /\ "put" \notin Handler /\ "idle" \in Stage /\ "locks" \in Stage
          /\ "locks" \notin Locked
      BY DEF Caller, Handler, Stage, Locked
    <2>4. lock # "put"
      BY <1>9, <2>3 DEF Puts, Goes, CallersTyped, Locked
    <2> QED
      BY <1>9, <2>1, <2>2, <2>3, <2>4, CallersMove DEF Puts, history, CallersTyped
  <1>10. CASE Reloads
    <2>1. "hup" \in Caller /\ "hup" \notin Handler /\ "idle" \in Stage /\ "locks" \in Stage
          /\ "locks" \notin Locked
      BY DEF Caller, Handler, Stage, Locked
    <2>2. want' \in [Caller -> Config \cup {Nothing}] /\ want'["hup"] \in Config
          /\ \A d \in Caller \ {"hup"} : want'[d] = want[d]
      BY <1>10, <2>1 DEF Reloads, DataTyped, CallersTyped, File
    <2>3. DataTyped'
      BY <1>10 DEF Reloads, disk, client, counters, history, DataTyped
    <2>4. lock # "hup"
      BY <1>10, <2>1 DEF Reloads, Goes, CallersTyped, Locked
    <2> QED
      BY <1>10, <2>1, <2>2, <2>3, <2>4, CallersMove DEF Reloads, history, CallersTyped
  <1>11. ASSUME NEW h \in Handler, Dispatches(h) PROVE DataTyped' /\ CallersTyped'
    <2>1. h \in Caller /\ "idle" \in Stage /\ "queued" \in Stage /\ "queued" \notin Locked
      BY DEF Caller, Stage, Locked
    <2>2. lock # h
      BY <1>11, <2>1 DEF Dispatches, Goes, CallersTyped, Locked
    <2>3. edits' \in 0 .. MaxEdits
      BY <1>11, EditsConfigs DEF Dispatches, DataTyped
    <2>4. DataTyped'
      BY <1>11, <2>3 DEF Dispatches, Goes, Up, disk, client, DataTyped
    <2>5. refs' \in [1 .. 2 -> Target \cup {Nothing}] /\ overtaken' \in [Handler -> BOOLEAN]
      BY <1>11 DEF Dispatches, CallersTyped
    <2> QED
      BY <1>11, <2>1, <2>2, <2>4, <2>5, CallersMove DEF Dispatches, CallersTyped, Writing
  <1>12. ASSUME NEW h \in Handler, Reads(h) PROVE DataTyped' /\ CallersTyped'
    <2>1. h \in Caller /\ "locks" \in Stage /\ "queued" \in Stage /\ "locks" \notin Locked
      BY DEF Caller, Stage, Locked
    <2>2. want' \in [Caller -> Config \cup {Nothing}] /\ want'[h] \in Config
          /\ \A d \in Caller \ {h} : want'[d] = want[d]
      BY <1>12, <2>1, AssignsConfigs, SavesTyped DEF Reads, DataTyped, CallersTyped
    <2>3. DataTyped'
      BY <1>12 DEF Reads, Goes, Up, disk, client, counters, history, DataTyped
    <2>4. lock # h
      BY <1>12, <2>1 DEF Reads, Caller, Handler, Nobody
    <2> QED
      BY <1>12, <2>1, <2>2, <2>3, <2>4, CallersMove DEF Reads, history, CallersTyped
  <1> USE DEF Stage, Locked, Writing
  <1>13. ASSUME NEW c \in Caller, Locks(c) PROVE DataTyped' /\ CallersTyped'
    <2>1. DataTyped'
      BY <1>13 DEF Locks, Goes, Up, disk, client, counters, history, DataTyped
    <2>2. want[c] \in Config
      BY <1>13 DEF Locks, Goes, CallersTyped, Working
    <2> QED
      BY <1>13, <2>1, <2>2, CallersMove DEF Locks, history, CallersTyped
  <1>14. ASSUME NEW c \in Caller, EngineTakes(c) \/ Replied(c) \/ WritesTemp(c) \/ SaveFails(c)
                                  \/ RollsBack(c)
         PROVE  DataTyped' /\ CallersTyped'
    <2>1. lock = c
      BY <1>14 DEF EngineTakes, Replied, WritesTemp, SaveFails, RollsBack, Goes, CallersTyped
    <2>2. want[c] \in Config
      BY <1>14 DEF EngineTakes, Replied, WritesTemp, SaveFails, RollsBack, Goes, CallersTyped,
                   Working
    <2>3. DataTyped'
      BY <1>14, <2>2 DEF EngineTakes, Replied, WritesTemp, SaveFails, RollsBack, Goes, Up, disk,
                         client, counters, history, DataTyped
    <2>4. PICK from \in {"offers", "applied", "saves", "renames", "rolls"},
                to \in {"applied", "saves", "renames", "rolls", "rolled"} : Goes(c, from, to)
      BY <1>14 DEF EngineTakes, Replied, WritesTemp, SaveFails, RollsBack
    <2>5. daemon' = daemon /\ UNCHANGED <<lock, want, refs, overtaken>>
      BY <1>14 DEF EngineTakes, Replied, WritesTemp, SaveFails, RollsBack, history
    <2> QED
      BY <2>1, <2>2, <2>3, <2>4, <2>5, CallersMove DEF CallersTyped
  <1>15. ASSUME NEW c \in Caller, Commits(c) PROVE DataTyped' /\ CallersTyped'
    <2>1. lock = c /\ want[c] \in Config
      BY <1>15 DEF Commits, Goes, CallersTyped, Working
    <2>2. DataTyped'
      BY <1>15, <2>1 DEF Commits, Goes, Up, client, counters, File, DataTyped
    <2>3. overtaken' \in [Handler -> BOOLEAN]
      BY <1>15 DEF Commits, CallersTyped
    <2> QED
      BY <1>15, <2>1, <2>2, <2>3, CallersMove DEF Commits, Unlocks, CallersTyped
  <1>16. ASSUME NEW c \in Caller, NEW from \in Stage \ {"idle", "queued"}, Returns(c, from),
                daemon' = daemon, lock' = IF lock = c THEN Nobody ELSE lock
         PROVE  CallersTyped'
    <2>1. /\ want' \in [Caller -> Config \cup {Nothing}]
          /\ \A d \in Caller \ {c} : want'[d] = want[d]
      BY <1>16 DEF Returns, CallersTyped
    <2>2. refs' \in [1 .. 2 -> Target \cup {Nothing}] /\ overtaken' \in [Handler -> BOOLEAN]
      BY <1>16 DEF Returns, CallersTyped, NoRefs
    <2>3. Goes(c, from, "idle")
      BY <1>16 DEF Returns, Goes
    <2> QED
      BY <1>16, <2>1, <2>2, <2>3, CallersMove
  <1>17. ASSUME NEW c \in Caller, GivesUp(c) PROVE DataTyped' /\ CallersTyped'
    BY <1>16, <1>17 DEF GivesUp, Unlocks, disk, client, counters, DataTyped
  <1>18. ASSUME NEW c \in Caller, RolledBack(c) PROVE DataTyped' /\ CallersTyped'
    BY <1>16, <1>18 DEF RolledBack, Unlocks, disk, client, counters, DataTyped
  <1>19. ASSUME NEW c \in Caller, Announces(c) PROVE DataTyped' /\ CallersTyped'
    <2>1. lock # c
      BY <1>19 DEF Announces, Returns, CallersTyped
    <2> QED
      BY <1>16, <1>19, <2>1 DEF Announces, disk, counters, DataTyped
  <1>20. CASE ClientActs
    BY <1>20, ClientLeavesOthers
       DEF Others, disk, callers, counters, history, DataTyped, CallersTyped, Working
  <1> QED
    BY <1>1, <1>2, <1>4, <1>5, <1>6, <1>7, <1>8, <1>9, <1>10, <1>11, <1>12, <1>13, <1>14,
       <1>15, <1>17, <1>18, <1>19, <1>20
    DEF Next, SetConfig

(* Every variable keeps its type; the lock is held by the caller that is   *)
(* between locking and committing (cmd/knobd/configstore.go), and by no    *)
(* other.                                                                  *)
THEOREM ConfigTyped == Spec => []TypeOK
  <1>1. Spec => []Typed
    BY InitTyped, StepTyped, PTL DEF Spec
  <1>2. Typed => TypeOK
    BY DEF Typed
  <1> QED
    BY <1>1, <1>2, PTL

-----------------------------------------------------------------------------
(* The file, the store and the engine *)

SyncInv == InSync /\ EngineRuns

(* A caller without the lock is in no stage of EngineRuns. *)
LEMMA StepSync == Typed /\ SyncInv /\ [Next]_vars => SyncInv'
  <1> SUFFICES ASSUME CallersTyped, InSync, EngineRuns, [Next]_vars
               PROVE  InSync' /\ EngineRuns'
    BY TypedParts DEF SyncInv
  <1>1. at \in [Caller -> Stage] /\ \A c \in Caller : at[c] \in Locked => lock = c
    BY DEF CallersTyped
  <1>2. CASE UNCHANGED vars
    BY <1>2 DEF InSync, EngineRuns, Up, vars, disk, callers, client, counters, history
  <1>3. CASE EditsFile \/ BacksUp \/ ClientActs
    BY <1>3, ClientLeavesOthers
       DEF EditsFile, BacksUp, Others, InSync, EngineRuns, Up, disk, callers, client, counters,
           history
  <1>4. CASE StartsCurrent \/ StartsOld \/ StartsOldAgain \/ Upgrades
    <2>1. at = [c \in Caller |-> "idle"] /\ UNCHANGED at
      BY <1>4 DEF StartsCurrent, StartsOld, StartsOldAgain, Upgrades, Loads, callers,
                  CallersTyped, Working
    <2>2. EngineRuns'
      BY <2>1 DEF EngineRuns
    <2>3. InSync'
      <3>1. CASE Upgrades
        BY <3>1 DEF Upgrades, InSync
      <3>2. CASE StartsCurrent
        BY <3>2 DEF StartsCurrent, Loads, InSync
      <3>3. CASE StartsOld \/ StartsOldAgain
        BY <3>3 DEF StartsOld, StartsOldAgain, Loads, InSync, Up
      <3> QED
        BY <1>4, <3>1, <3>2, <3>3
    <2> QED
      BY <2>2, <2>3
  <1>5. CASE Stops
    BY <1>5 DEF Stops, InSync, EngineRuns, Up, disk
  <1>6. CASE Puts \/ Reloads \/ \E h \in Handler : Dispatches(h) \/ Reads(h)
    <2>1. PICK c \in Caller, from \in {"idle", "queued"}, to \in {"queued", "locks"} :
             Goes(c, from, to) /\ \A d \in Caller \ {c} : want'[d] = want[d]
      BY <1>1, <1>6 DEF Puts, Reloads, Dispatches, Reads, Caller, Handler, CallersTyped
    <2>2. UNCHANGED <<daemon, disk, store, engine, lock, byHand, abandoned>>
      BY <1>6 DEF Puts, Reloads, Dispatches, Reads, history
    <2> QED
      BY <1>1, <2>1, <2>2 DEF Goes, InSync, EngineRuns, Up, disk
  <1>7. ASSUME NEW c \in Caller, Locks(c) PROVE InSync' /\ EngineRuns'
    BY <1>1, <1>7 DEF Locks, Goes, InSync, EngineRuns, Up, Caller, Handler, Nobody, disk,
                      history
  <1>8. ASSUME NEW c \in Caller, EngineTakes(c) \/ Replied(c) \/ WritesTemp(c) \/ SaveFails(c)
                                 \/ RollsBack(c)
        PROVE  InSync' /\ EngineRuns'
    <2>1. PICK from \in {"offers", "applied", "saves", "renames", "rolls"},
               to \in {"applied", "saves", "renames", "rolls", "rolled"} :
             /\ Goes(c, from, to)
             /\ to = "rolls" \/ engine' = IF to = "rolled" THEN store ELSE want[c]
      BY <1>8 DEF EngineTakes, Replied, WritesTemp, SaveFails, RollsBack, Goes, EngineRuns
    <2>2. UNCHANGED <<daemon, file, store, lock, want, byHand, abandoned>>
      BY <1>8 DEF EngineTakes, Replied, WritesTemp, SaveFails, RollsBack, disk, history
    <2>3. lock = c
      BY <1>1, <2>1 DEF Goes, Locked
    <2>4. \A d \in Caller \ {c} : at'[d] = at[d] /\ at[d] \notin Locked
      BY <1>1, <2>1, <2>3 DEF Goes
    <2> QED
      BY <1>1, <2>1, <2>2, <2>3, <2>4
      DEF Goes, InSync, EngineRuns, Up, Caller, Handler, Nobody, Locked
  <1>9. ASSUME NEW c \in Caller, Commits(c) PROVE InSync' /\ EngineRuns'
    <2>1. lock = c /\ engine = want[c]
      BY <1>1, <1>9 DEF Commits, Goes, Locked, EngineRuns
    <2>2. \A d \in Caller : at'[d] \notin Locked
      BY <1>1, <1>9, <2>1 DEF Commits, Goes, Locked
    <2> QED
      BY <1>9, <2>1, <2>2 DEF Commits, InSync, EngineRuns, Locked
  <1>10. ASSUME NEW c \in Caller, GivesUp(c) \/ RolledBack(c) PROVE InSync' /\ EngineRuns'
    <2>1. lock = c /\ UNCHANGED <<file, store, engine, byHand>>
          /\ \A d \in Caller : at'[d] \notin Locked
      BY <1>1, <1>10 DEF GivesUp, RolledBack, Returns, Locked, disk
    <2>2. abandoned' \/ engine = store
      BY <1>10 DEF GivesUp, RolledBack, Returns, EngineRuns
    <2> QED
      BY <2>1, <2>2 DEF InSync, EngineRuns, Locked
  <1>11. ASSUME NEW c \in Caller, Announces(c) PROVE InSync' /\ EngineRuns'
    BY <1>1, <1>11 DEF Announces, Returns, InSync, EngineRuns, Up, CallersTyped, disk
  <1> QED
    BY <1>2, <1>3, <1>4, <1>5, <1>6, <1>7, <1>8, <1>9, <1>10, <1>11 DEF Next, SetConfig

(* cmd/knobd/configstore.go, configStore: "keeping all three in sync": the *)
(* file holds what the store holds over failed saves, crashes and          *)
(* restarts, unless it was edited by hand, and between two calls the       *)
(* engine runs it, unless a caller's context ended on the engine's answer. *)
THEOREM ConfigInSync == Spec => []InSync
  <1>1. Init => SyncInv
    BY DEF Init, Quiet, SyncInv, InSync, EngineRuns, Up
  <1>2. Spec => []Typed
    BY InitTyped, StepTyped, PTL DEF Spec
  <1>3. Spec => []SyncInv
    BY <1>1, <1>2, StepSync, PTL DEF Spec
  <1> QED
    BY <1>3, PTL DEF SyncInv

-----------------------------------------------------------------------------
(* The client *)

(* An answer that the daemon has read and the client has not taken yet is  *)
(* what the store holds, or the event of its change is still to come, or   *)
(* has overtaken the answer.                                               *)
AnswersTold == \A r \in Answered : answer[r] = store \/ Coming \/ r \in late

ToldInv == StaleIsTold /\ AnswersTold

LEMMA ComingTells == Coming' => ToldInv'
  BY DEF ToldInv, StaleIsTold, AnswersTold

LEMMA MissingExcuses ==
    ASSUME Misses(store'), UNCHANGED <<seen, answer>>
    PROVE  ToldInv'
  BY DEF Misses, ToldInv, StaleIsTold, AnswersTold, Answered

LEMMA StaysTold ==
    ASSUME ToldInv, UNCHANGED <<store, seen, banner, answer, late, excused>>,
           Coming => Coming'
    PROVE  ToldInv'
  BY DEF ToldInv, StaleIsTold, AnswersTold, Answered

LEMMA StreamTold ==
    ASSUME ToldInv, NEW lost \in BOOLEAN, LosesStream(lost), UNCHANGED store,
           lost \/ UNCHANGED at \/ ~ \E c \in Caller : at[c] = "announces"
    PROVE  ToldInv'
  <1>1. UNCHANGED <<seen, banner, answer>>
    BY DEF LosesStream
  <1>2. CASE lost \/ told' # told
    BY <1>1, <1>2, MissingExcuses DEF LosesStream
  <1>3. CASE ~lost /\ told' = told
    BY <1>1, <1>3, StaysTold DEF LosesStream, Coming
  <1> QED
    BY <1>2, <1>3

LEMMA ClientActsTold == ASSUME ClientTyped, ToldInv, ClientActs PROVE ToldInv'
  <1>1. UNCHANGED <<store, at>>
    BY ClientLeavesOthers DEF Others, callers
  <1>2. told \in Nat /\ answer \in [Reload -> Config \cup {Nothing, Asked}]
    BY DEF ClientTyped
  <1>3. CASE Listens \/ SuppressEnds
    BY <1>1, <1>3, StaysTold DEF Listens, SuppressEnds, Coming
  <1>4. CASE Drops
    BY <1>1, <1>4, StreamTold DEF Drops
  <1>5. CASE HearsOfChange
    <2>1. UNCHANGED <<seen, answer>> /\ late' = late \cup Answered
      BY <1>5 DEF HearsOfChange
    <2>2. banner' \/ excused' \/ seen = store
      BY <1>5 DEF HearsOfChange
    <2> QED
      BY <1>1, <2>1, <2>2 DEF ToldInv, StaleIsTold, AnswersTold, Answered
  <1>6. CASE Dismisses
    <2>1. UNCHANGED <<told, seen, answer, late>> /\ excused' = (excused \/ seen # store)
      BY <1>6 DEF Dismisses
    <2> QED
      BY <1>1, <2>1 DEF ToldInv, StaleIsTold, AnswersTold, Answered, Coming
  <1>7. ASSUME NEW r \in Reload, ReloadAsks(r) \/ ReloadAnswered(r) \/ ReloadFails(r)
        PROVE  ToldInv'
    <2>1. /\ UNCHANGED <<told, seen, banner, excused>>
          /\ late \ {r} \subseteq late' /\ \A q \in Reload \ {r} : answer'[q] = answer[q]
      BY <1>2, <1>7 DEF ReloadAsks, ReloadAnswered, ReloadFails
    <2>2. answer'[r] \in {Nothing, Asked, store}
      BY <1>2, <1>7 DEF ReloadAsks, ReloadAnswered, ReloadFails
    <2>3. StaleIsTold'
      BY <1>1, <2>1 DEF ToldInv, StaleIsTold, Coming
    <2>4. AnswersTold'
      <3>1. r \in Answered' => answer'[r] = store
        BY <2>2, AnswerAssumption DEF Answered
      <3>2. \A q \in Answered' \ {r} : q \in Answered /\ answer'[q] = answer[q]
        BY <2>1 DEF Answered
      <3> QED
        BY <1>1, <2>1, <3>1, <3>2 DEF ToldInv, AnswersTold, Coming
    <2> QED
      BY <2>3, <2>4 DEF ToldInv
  <1>8. ASSUME NEW r \in Reload, ReloadTaken(r) PROVE ToldInv'
    <2>1. /\ UNCHANGED told /\ r \in Answered /\ seen' = answer[r]
          /\ excused' = (r \in late /\ answer[r] # store) /\ late' = late \ {r}
          /\ answer' = [answer EXCEPT ![r] = Nothing]
      BY <1>8 DEF ReloadTaken
    <2>2. StaleIsTold'
      BY <1>1, <2>1 DEF ToldInv, StaleIsTold, AnswersTold, Coming
    <2>3. \A q \in Answered' : q # r /\ q \in Answered /\ answer'[q] = answer[q]
      BY <1>2, <2>1, AnswerAssumption DEF Answered
    <2>4. AnswersTold'
      BY <1>1, <2>1, <2>3 DEF ToldInv, AnswersTold, Coming
    <2> QED
      BY <2>2, <2>4 DEF ToldInv
  <1> QED
    BY <1>3, <1>4, <1>5, <1>6, <1>7, <1>8 DEF ClientActs

LEMMA StepTold == Typed /\ ToldInv /\ [Next]_vars => ToldInv'
  <1> SUFFICES ASSUME ClientTyped, CallersTyped, ToldInv, [Next]_vars PROVE ToldInv'
    BY TypedParts
  <1>1. at \in [Caller -> Stage] /\ told \in Nat
    BY DEF CallersTyped, ClientTyped
  <1>2. CASE UNCHANGED vars
    BY <1>2, StaysTold DEF Coming, vars, callers, client
  <1>3. CASE EditsFile \/ BacksUp \/ Upgrades
    BY <1>3, StaysTold DEF EditsFile, BacksUp, Upgrades, Coming, callers, client
  <1>4. CASE StartsCurrent \/ StartsOld \/ StartsOldAgain
    <2>1. PICK then \in {"up", "backs up", "saves"} : Loads(then)
      BY <1>4 DEF StartsCurrent, StartsOld, StartsOldAgain
    <2>2. UNCHANGED <<told, at, seen, banner, answer>> /\ store' = file.cfg
      BY <2>1 DEF Loads, callers
    <2>3. CASE file.cfg # store
      BY <2>1, <2>2, <2>3, MissingExcuses DEF Loads
    <2>4. CASE file.cfg = store
      BY <2>1, <2>2, <2>4, StaysTold DEF Loads, Coming
    <2> QED
      BY <2>3, <2>4
  <1>5. CASE Stops
    <2> DEFINE lost == \E c \in Caller : at[c] = "announces"
    <2>1. lost \in BOOLEAN /\ LosesStream(lost) /\ UNCHANGED store
      BY <1>5, Zenon DEF Stops
    <2>2. ~lost => ~ \E c \in Caller : at[c] = "announces"
      OBVIOUS
    <2> HIDE DEF lost
    <2> QED
      BY <2>1, <2>2, StreamTold
  <1>6. CASE ClientActs
    BY <1>6, ClientActsTold
  <1>7. ASSUME NEW c \in Caller, NEW from \in Stage \ {"announces"}, NEW to \in Stage,
               Goes(c, from, to), UNCHANGED <<store, client>>
        PROVE  ToldInv'
    <2>1. Coming => Coming'
      BY <1>1, <1>7 DEF Goes, Coming, client
    <2> QED
      BY <1>7, <2>1, StaysTold DEF client
  <1>8. CASE Puts \/ Reloads \/ \E h \in Handler : Dispatches(h) \/ Reads(h)
    BY <1>7, <1>8 DEF Puts, Reloads, Dispatches, Reads, Stage, Caller, Handler
  <1>9. ASSUME NEW c \in Caller,
               Locks(c) \/ EngineTakes(c) \/ Replied(c) \/ WritesTemp(c) \/ SaveFails(c)
               \/ RollsBack(c)
        PROVE  ToldInv'
    <2>1. PICK from \in Stage \ {"announces"}, to \in Stage : Goes(c, from, to)
      BY <1>9 DEF Locks, EngineTakes, Replied, WritesTemp, SaveFails, RollsBack, Stage
    <2> QED
      BY <1>7, <1>9, <2>1 DEF Locks, EngineTakes, Replied, WritesTemp, SaveFails, RollsBack
  <1>10. ASSUME NEW c \in Caller, GivesUp(c) \/ RolledBack(c) PROVE ToldInv'
    <2>1. PICK from \in Stage \ {"announces"} : Goes(c, from, "idle")
      BY <1>10 DEF GivesUp, RolledBack, Returns, Goes, Stage
    <2> QED
      BY <1>7, <1>10, <2>1 DEF GivesUp, RolledBack, Stage
  <1>11. ASSUME NEW c \in Caller, Commits(c) PROVE ToldInv'
    <2>1. Coming'
      BY <1>1, <1>11 DEF Commits, Goes, Coming
    <2> QED
      BY <2>1, ComingTells
  <1>12. ASSUME NEW c \in Caller, Announces(c) PROVE ToldInv'
    <2>1. Broadcasts /\ UNCHANGED store
      BY <1>12 DEF Announces
    <2>2. CASE LosesStream(TRUE)
      BY <2>1, <2>2, StreamTold
    <2>3. CASE Misses(store) /\ UNCHANGED <<seen, answer>>
      BY <2>1, <2>3, MissingExcuses
    <2>4. CASE told' = told + 1
      <3>1. Coming'
        BY <1>1, <2>4 DEF Coming
      <3> QED
        BY <3>1, ComingTells
    <2> QED
      BY <2>1, <2>2, <2>3, <2>4 DEF Broadcasts
  <1> QED
    BY <1>2, <1>3, <1>4, <1>5, <1>6, <1>8, <1>9, <1>10, <1>11, <1>12 DEF Next, SetConfig

(* ConfigContext.tsx, ConfigProvider: whenever the client's copy is not    *)
(* what the store holds, the banner is up or an event is on its way.       *)
(* Excused is a client that ignored the event in the window of a reload,   *)
(* dismissed the banner, had it wiped by the answer to a reload read       *)
(* before the change, or lost the event: with its stream, for want of one, *)
(* with the daemon's end, or because the daemon started with another file. *)
(* For any number of reloads under way and any depth of the queue.         *)
THEOREM ClientsAreTold == Spec => []StaleIsTold
  <1>1. Init => ToldInv
    BY AnswerAssumption DEF Init, ToldInv, StaleIsTold, AnswersTold, Answered
  <1>2. Spec => []Typed
    BY InitTyped, StepTyped, PTL DEF Spec
  <1>3. Spec => []ToldInv
    BY <1>1, <1>2, StepTold, PTL DEF Spec
  <1> QED
    BY <1>3, PTL DEF ToldInv

-----------------------------------------------------------------------------
(* The handlers *)

(* What a handler holds is still current after a step that leaves the      *)
(* store alone and brings no handler into its reading or its writing.      *)
LEMMA StaysCurrent ==
    ASSUME Current, UNCHANGED store,
           at'["save"] = "queued" => at["save"] = "queued" /\ UNCHANGED refs,
           \A h \in Handler :
               /\ at'[h] \in Writing => at[h] \in Writing /\ want'[h] = want[h]
               /\ at'[h] \in Writing \cup {"queued"} => overtaken'[h] = overtaken[h]
    PROVE  Current'
  BY DEF Current, SameTargets, Resaves, Handler

LEMMA StepCurrent == Typed /\ Current /\ [Next]_vars => Current'
  <1> SUFFICES ASSUME DataTyped, CallersTyped, Current, [Next]_vars PROVE Current'
    BY TypedParts
  <1>1. /\ at \in [Caller -> Stage] /\ want \in [Caller -> Config \cup {Nothing}]
        /\ overtaken \in [Handler -> BOOLEAN]
        /\ at["assign"] \in {"idle", "queued"} \/ at["save"] \in {"idle", "queued"}
    BY DEF CallersTyped, Working
  <1>2. CASE UNCHANGED vars
    BY <1>2, StaysCurrent DEF vars, callers, history
  <1>3. CASE EditsFile \/ BacksUp \/ ClientActs
    BY <1>3, ClientLeavesOthers, StaysCurrent DEF EditsFile, BacksUp, Others, callers, history
  <1>4. CASE StartsCurrent \/ StartsOld \/ StartsOldAgain \/ Upgrades \/ Stops
    <2>1. at' = [c \in Caller |-> "idle"]
      BY <1>4 DEF StartsCurrent, StartsOld, StartsOldAgain, Upgrades, Loads, Stops, callers,
                  CallersTyped, Working
    <2> QED
      BY <2>1 DEF Current, Writing, Caller, Handler
  <1>5. ASSUME NEW c \in Caller \ Handler, NEW from \in Stage, NEW to \in Stage,
               Goes(c, from, to), UNCHANGED <<store, refs, overtaken>>,
               \A d \in Caller \ {c} : want'[d] = want[d]
        PROVE  Current'
    <2>1. \A h \in Handler : at'[h] = at[h] /\ want'[h] = want[h]
      BY <1>1, <1>5 DEF Goes, Caller
    <2> QED
      BY <1>5, <2>1, StaysCurrent DEF Handler
  <1>6. CASE Puts \/ Reloads
    <2>1. \E c \in Caller \ Handler : Goes(c, "idle", "locks")
                                      /\ \A d \in Caller \ {c} : want'[d] = want[d]
      BY <1>1, <1>6 DEF Puts, Reloads, Caller, Handler
    <2> QED
      BY <1>5, <1>6, <2>1 DEF Puts, Reloads, history, Stage
  <1>7. ASSUME NEW h \in Handler, Dispatches(h) PROVE Current'
    <2>1. \A g \in Handler \ {h} : at'[g] = at[g] /\ overtaken'[g] = overtaken[g]
      BY <1>1, <1>7 DEF Dispatches, Goes, Caller
    <2>2. at'[h] = "queued" /\ overtaken'[h] = (engine # store)
      BY <1>1, <1>7 DEF Dispatches, Goes, Caller
    <2>3. h = "save" => Current'
      BY <1>7, <2>1, <2>2 DEF Dispatches, Current, SameTargets, Resaves, Writing, Handler
    <2>4. h = "assign" => Current'
      BY <1>7, <2>1, <2>2 DEF Dispatches, Current, SameTargets, Resaves, Writing, Handler
    <2> QED
      BY <2>3, <2>4 DEF Handler
  <1>8. ASSUME NEW h \in Handler, Reads(h) PROVE Current'
    <2>1. at'[h] = "locks" /\ at[h] = "queued"
          /\ \A g \in Handler \ {h} : at'[g] = at[g] /\ want'[g] = want[g]
      BY <1>1, <1>8 DEF Reads, Goes, Caller
    <2>2. UNCHANGED <<store, refs, overtaken>>
      BY <1>8 DEF Reads, history
    <2>3. CASE h = "assign"
      <3>1. want'["assign"].scene = store'.scene
        BY <1>1, <1>8, <2>2, <2>3, AssignsConfigs DEF Reads, DataTyped, Caller, Handler
      <3> QED
        BY <2>1, <2>2, <2>3, <3>1 DEF Current, SameTargets, Resaves, Writing, Handler
    <2>4. CASE h = "save"
      <3>1. ~overtaken["save"] => Resaves(want'["save"])
        BY <1>1, <1>8, <2>1, <2>4, SavesConfigs
        DEF Reads, DataTyped, CallersTyped, Current, Caller, Handler
      <3> QED
        BY <2>1, <2>2, <2>4, <3>1 DEF Current, SameTargets, Resaves, Writing, Handler
    <2> QED
      BY <2>3, <2>4 DEF Handler
  <1>9. ASSUME NEW c \in Caller,
               Locks(c) \/ EngineTakes(c) \/ Replied(c) \/ WritesTemp(c) \/ SaveFails(c)
               \/ RollsBack(c)
        PROVE  Current'
    <2>1. PICK from \in Stage, to \in Stage \ {"idle", "queued"} :
             Goes(c, from, to) /\ (to \in Writing => from \in Writing)
      BY <1>9 DEF Locks, EngineTakes, Replied, WritesTemp, SaveFails, RollsBack, Stage, Writing
    <2>2. UNCHANGED <<store, want, refs, overtaken>>
      BY <1>9 DEF Locks, EngineTakes, Replied, WritesTemp, SaveFails, RollsBack, history
    <2> QED
      BY <1>1, <2>1, <2>2, StaysCurrent DEF Goes, Caller, Handler, Writing
  <1>10. ASSUME NEW c \in Caller, GivesUp(c) \/ RolledBack(c) \/ Announces(c) PROVE Current'
    <2>1. at'[c] = "idle" /\ UNCHANGED store /\ \A d \in Caller \ {c} :
             /\ at'[d] = at[d] /\ want'[d] = want[d]
             /\ d \in Handler => overtaken'[d] = overtaken[d]
      BY <1>1, <1>10 DEF GivesUp, RolledBack, Announces, Returns
    <2>2. c # "save" => UNCHANGED refs
      BY <1>10 DEF GivesUp, RolledBack, Announces, Returns
    <2> QED
      BY <2>1, <2>2, StaysCurrent DEF Writing, Caller, Handler
  <1>11. ASSUME NEW c \in Caller, Commits(c) PROVE Current'
    <2>1. at[c] = "renames" /\ at'[c] = "announces" /\ \A d \in Caller \ {c} : at'[d] = at[d]
      BY <1>1, <1>11 DEF Commits, Goes
    <2>2. UNCHANGED <<want, refs>> /\ store' = want[c]
      BY <1>11 DEF Commits
    <2>3. CASE c \notin Handler \/ overtaken[c]
      <3>1. \A h \in Handler : overtaken'[h] = (at[h] # "idle")
        BY <1>11, <2>3 DEF Commits
      <3> QED
        BY <2>1, <3>1 DEF Current, Writing, Caller, Handler
    <2>4. CASE c = "assign" /\ ~overtaken[c]
      <3>1. store'.scene = store.scene /\ UNCHANGED overtaken
        BY <1>11, <2>1, <2>2, <2>4 DEF Commits, Current, Writing, Handler
      <3>2. at'["save"] \notin Writing /\ at'["assign"] \notin Writing /\ at'["save"] = at["save"]
        BY <1>1, <2>1, <2>4 DEF Writing, Caller, Handler
      <3> QED
        BY <2>2, <3>1, <3>2 DEF Current, SameTargets
    <2>5. CASE c = "save" /\ ~overtaken[c]
      <3>1. at'["assign"] \notin Writing /\ at'["save"] = "announces"
        BY <1>1, <2>1, <2>5 DEF Writing, Caller, Handler
      <3> QED
        BY <3>1 DEF Current, Writing
    <2> QED
      BY <2>3, <2>4, <2>5 DEF Handler
  <1> QED
    BY <1>2, <1>3, <1>4, <1>6, <1>7, <1>8, <1>9, <1>10, <1>11 DEF Next, SetConfig

(* actions/assign.go and actions/scene.go: the handler that writes back a  *)
(* whole configuration changes its own part of what the store holds then,  *)
(* and no level goes to the entry of another target, unless a client, a    *)
(* reload or an overtaken handler wrote since it was dispatched.           *)
THEOREM HandlersUndoNothing == Spec => HandlersKeepEdits
  <1> DEFINE Keeps(h) ==
        (at[h] = "renames" /\ at'[h] = "announces" /\ ~overtaken[h]) =>
           IF h = "assign" THEN store'.scene = store.scene
           ELSE /\ store'.knob = store.knob
                /\ \A i \in 1 .. 2 :
                      /\ store'.scene[i].target = store.scene[i].target
                      /\ store'.scene[i].saved \in {store.scene[i].saved,
                                                    store.scene[i].target}
  <1>1. Init => Current
    BY DEF Init, Quiet, Current, Writing, Caller, Handler
  <1>2. Spec => []Typed
    BY InitTyped, StepTyped, PTL DEF Spec
  <1>3. Spec => []Current
    BY <1>1, <1>2, StepCurrent, PTL DEF Spec
  <1>4. Typed /\ Current /\ [Next]_vars => [\A h \in Handler : Keeps(h)]_vars
    <2> SUFFICES ASSUME CallersTyped, Current, Next, NEW h \in Handler,
                        at[h] = "renames", at'[h] = "announces", ~overtaken[h]
                 PROVE  Keeps(h)
      BY TypedParts
    <2>1. at \in [Caller -> Stage] /\ h \in Caller
      BY DEF CallersTyped, Caller
    <2>2. Commits(h)
      <3>1. ASSUME NEW c \in Caller, NEW from \in Stage, NEW to \in Stage \ {"announces"},
                   Goes(c, from, to)
            PROVE  FALSE
        BY <2>1, <3>1 DEF Goes
      <3>2. at' # at /\ at' # [c \in Caller |-> "idle"]
        BY <2>1
      <3>3. ~(EditsFile \/ StartsCurrent \/ StartsOld \/ StartsOldAgain \/ BacksUp \/ Upgrades
              \/ Stops \/ ClientActs)
        BY <3>2, ClientLeavesOthers
           DEF EditsFile, StartsCurrent, StartsOld, StartsOldAgain, Loads, BacksUp, Upgrades,
               Stops, Others, callers
      <3>4. ~(Puts \/ Reloads \/ \E g \in Handler : Dispatches(g) \/ Reads(g))
        BY <3>1 DEF Puts, Reloads, Dispatches, Reads, Stage, Caller, Handler
      <3>5. \A c \in Caller : ~(Locks(c) \/ EngineTakes(c) \/ Replied(c) \/ WritesTemp(c)
                               \/ SaveFails(c) \/ RollsBack(c))
        BY <3>1 DEF Locks, EngineTakes, Replied, WritesTemp, SaveFails, RollsBack, Stage
      <3>6. \A c \in Caller : ~(GivesUp(c) \/ RolledBack(c) \/ Announces(c))
        BY <2>1 DEF GivesUp, RolledBack, Announces, Returns
      <3>7. \A c \in Caller : Commits(c) => c = h
        BY <2>1 DEF Commits, Goes
      <3> QED
        BY <3>3, <3>4, <3>5, <3>6, <3>7 DEF Next, SetConfig
    <2>3. store' = want[h]
      BY <2>2 DEF Commits
    <2>4. CASE h = "assign"
      BY <2>3, <2>4 DEF Current, Writing
    <2>5. CASE h = "save"
      BY <2>3, <2>5 DEF Current, Writing, Resaves
    <2> QED
      BY <2>4, <2>5 DEF Handler
  <1> QED
    BY <1>2, <1>3, <1>4, PTL DEF Spec, HandlersKeepEdits

=============================================================================
