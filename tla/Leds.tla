-------------------------------- MODULE Leds --------------------------------
(***************************************************************************)
(* The LEDs of the controller (engine/led.go and the arms of Run that      *)
(* serve them), over the self-healing port.  What a control should show is *)
(* an arbitrary value that changes: in an arm of Run, which marks the LEDs *)
(* dirty, or in a cache that another goroutine writes and then reports     *)
(* (NotifyLEDDirty), or does not report.  A flush writes what differs from *)
(* what was last pushed, one control after the other, while the supervisor *)
(* goes on.                                                                *)
(***************************************************************************)
EXTENDS MidiSupervisor

CONSTANTS Control,     \* controls with an LED
          Value,       \* what a control may show in the long run
          Off,         \* ledOffUpdate: what it shows before a level is known
          Interval,    \* ledFlushInterval
          Flash,       \* DefaultFlashDuration
          MaxInputs    \* bound: changes of what should be shown, flashes asked for,
                       \* and writes that fail although the controller is there

ASSUME LedsAssumption ==
    /\ Off \in Value
    /\ Interval \in Nat \ {0} /\ Flash \in Nat \ {0}
    /\ MaxInputs \in Nat

VARIABLES desired,         \* what ledDesired makes of bindings, levels and layers
          light,           \* what the LEDs of the controller show
          at,              \* where Run is
          todo, aim,       \* what a flush has still to write, and its ledDesired
          taken,           \* the port a write has read, 0 when none is under way
          lastPushed, dirty, sincePush, \* ledState; the time since lastPush
          flashing, flashLeft,          \* ledState.override; the time to its until
          ledCh, flashCh,
          unreported,      \* a cache has changed and NotifyLEDDirty is still to come
          missed,          \* history: controls whose last write failed on a live port
          silent,          \* history: controls whose cache changed without a report
                           \* since a flush last looked
          inputs           \* counter of the bound

ledState == <<lastPushed, dirty, sincePush, flashing, flashLeft, silent>>
flush == <<at, todo, aim, taken>>
channels == <<ledCh, flashCh, unreported>>
vars == <<supVars, desired, light, flush, ledState, channels, missed, inputs>>

(* The full ring of a flash, an unpushed control, and what the controller *)
(* shows by itself: none of them is a value.                              *)
FullRing == "full ring"
Unpushed == "unpushed"
PowerOn  == "power-on"
Nobody   == "nobody"

Shown == Value \cup {FullRing}

TypeOK ==
    /\ SupTypeOK
    /\ desired \in [Control -> Value] /\ light \in [Control -> Shown \cup {PowerOn}]
    /\ at \in {"starts", "selects", "flushes", "returned"}
    /\ todo \subseteq Control /\ aim \in [Control -> Shown] /\ taken \in 0 .. Len(ports)
    /\ lastPushed \in [Control -> Shown \cup {Unpushed}]
    /\ dirty \in BOOLEAN /\ sincePush \in 0 .. Interval
    /\ flashing \in Control \cup {Nobody}
    /\ flashLeft \in IF flashing = Nobody THEN {0} ELSE 0 .. Flash
    /\ ledCh \in BOOLEAN /\ flashCh \in Control \cup {Nobody} /\ unreported \in BOOLEAN
    /\ missed \subseteq Control /\ silent \subseteq Control /\ inputs \in 0 .. MaxInputs

-----------------------------------------------------------------------------
(* ledState *)

(* reset *)
AllForgotten == [c \in Control |-> Unpushed]

Init ==
    /\ SupInit
    /\ desired = [c \in Control |-> Off]
    /\ light = [c \in Control |-> PowerOn]
    /\ at = "starts" /\ todo = {} /\ taken = 0 /\ aim = [c \in Control |-> FullRing]
    /\ lastPushed = AllForgotten /\ dirty = FALSE /\ sincePush = Interval
    /\ flashing = Nobody /\ flashLeft = 0
    /\ ledCh = FALSE /\ flashCh = Nobody /\ unreported = FALSE
    /\ missed = {} /\ silent = {} /\ inputs = 0

(* An override that has not expired wins over the desired value. *)
LedDesired(wanted, flashed, left) ==
    [c \in Control |-> IF c = flashed /\ left > 0 THEN FullRing ELSE wanted[c]]

(* Mutant of FlushLEDs: a flush ends the override before its deadline. *)
FlushLEDsClearing(wanted, pushed, flashed, left) ==
    /\ dirty' = FALSE /\ sincePush' = 0 /\ silent' = {}
    /\ flashing' = Nobody /\ flashLeft' = left
    /\ lastPushed' = pushed
    /\ aim' = LedDesired(wanted, flashed, left)
    /\ todo' = {c \in Control : aim'[c] # pushed[c]}
    /\ at' = "flushes"
    /\ UNCHANGED taken

(* flushLEDs, up to its first write. *)
FlushLEDs(wanted, pushed, flashed, left) ==
    /\ dirty' = FALSE /\ sincePush' = 0 /\ silent' = {}
    /\ flashing' = IF left = 0 THEN Nobody ELSE flashed
    /\ flashLeft' = left
    /\ lastPushed' = pushed
    /\ aim' = LedDesired(wanted, flashed, left)
    /\ todo' = {c \in Control : aim'[c] # pushed[c]}
    /\ at' = "flushes"
    /\ UNCHANGED taken

OweFlush(pushed, flashed, left) ==
    /\ dirty' = TRUE
    /\ lastPushed' = pushed /\ flashing' = flashed /\ flashLeft' = left
    /\ at' = "selects"
    /\ UNCHANGED <<sincePush, todo, aim, taken, silent>>

(* Flushes at once when the last flush is long enough ago. *)
MarkLEDsDirty(wanted, pushed, flashed, left) ==
    IF sincePush >= Interval THEN FlushLEDs(wanted, pushed, flashed, left)
                             ELSE OweFlush(pushed, flashed, left)

-----------------------------------------------------------------------------
(* The arms of Run *)

AtSelect == at = "selects"

RunStarts ==
    /\ at = "starts"
    /\ MarkLEDsDirty(desired, lastPushed, flashing, flashLeft)
    /\ UNCHANGED <<supVars, desired, light, channels, missed, inputs>>

Counted == inputs < MaxInputs /\ inputs' = inputs + 1

Changes(c, v) ==
    /\ Counted
    /\ v # desired[c]
    /\ desired' = [desired EXCEPT ![c] = v]

(* An audio event, a focus change, a resync, a layer switch. *)
HandlesChange(c, v) ==
    /\ AtSelect
    /\ Changes(c, v)
    /\ MarkLEDsDirty(desired', lastPushed, flashing, flashLeft)
    /\ UNCHANGED <<supVars, light, channels, missed>>

(* The arm of configCh. *)
SetConfig(c, v) ==
    /\ AtSelect
    /\ Changes(c, v)
    /\ MarkLEDsDirty(desired', AllForgotten, flashing, flashLeft)
    /\ UNCHANGED <<supVars, light, channels, missed>>

HandlesLedCh ==
    /\ AtSelect
    /\ ledCh /\ ledCh' = FALSE
    /\ MarkLEDsDirty(desired, lastPushed, flashing, flashLeft)
    /\ UNCHANGED <<supVars, desired, light, flashCh, unreported, missed, inputs>>

HandlesFlash ==
    /\ AtSelect
    /\ flashCh # Nobody /\ flashCh' = Nobody
    /\ MarkLEDsDirty(desired, lastPushed, flashCh, Flash)
    /\ UNCHANGED <<supVars, desired, light, ledCh, unreported, missed, inputs>>

(* Mutant of LedTimerDue: the override's deadline arms no timer. *)
LedTimerDueDirty == dirty /\ sincePush >= Interval

(* ledTimerC: a flush is owed, or the override has expired. *)
LedTimerDue == \/ dirty /\ sincePush >= Interval
               \/ flashing # Nobody /\ flashLeft = 0

LedTimerFires ==
    /\ AtSelect
    /\ LedTimerDue
    /\ FlushLEDs(desired, lastPushed, flashing, flashLeft)
    /\ UNCHANGED <<supVars, desired, light, channels, missed, inputs>>

(* The arm of repaintCh, for watchConnections. *)
Repaints ==
    /\ AtSelect
    /\ watcher = "asks" /\ watcher' = "awaits"
    /\ FlushLEDs(desired, AllForgotten, flashing, flashLeft)
    /\ UNCHANGED <<controller, ports, port, sup, connectedCh, closing,
                   cancelled, desired, light, channels, missed, inputs>>

(* Its variables are gone with it. *)
RunReturns ==
    /\ at = "selects" /\ cancelled
    /\ at' = "returned"
    /\ aim' = [c \in Control |-> FullRing]
    /\ lastPushed' = AllForgotten /\ dirty' = FALSE
    /\ flashing' = Nobody /\ flashLeft' = 0
    /\ UNCHANGED <<supVars, desired, light, todo, taken, sincePush, silent, channels, missed,
                   inputs>>

-----------------------------------------------------------------------------
(* The writes of a flush *)

(* Supervisor.Write: no port, or runCtx is cancelled. *)
WriteRefused(c) ==
    /\ at = "flushes" /\ taken = 0 /\ c \in todo
    /\ port = 0 \/ cancelled
    /\ todo' = todo \ {c}
    /\ UNCHANGED <<supVars, desired, light, at, aim, taken, ledState, channels, missed, inputs>>

(* Supervisor.Write has read the port and let go of portMu. *)
TakesPort ==
    /\ at = "flushes" /\ taken = 0 /\ todo # {}
    /\ port # 0 /\ taken' = port
    /\ UNCHANGED <<supVars, desired, light, at, todo, aim, ledState, channels, missed, inputs>>

(* realPort.Write *)
Writes(c) ==
    /\ taken # 0 /\ taken' = 0
    /\ c \in todo /\ todo' = todo \ {c}
    /\ Live(taken)
    /\ light' = [light EXCEPT ![c] = aim[c]]
    /\ lastPushed' = [lastPushed EXCEPT ![c] = aim[c]]
    /\ missed' = missed \ {c}
    /\ UNCHANGED <<supVars, desired, at, aim, dirty, sincePush, flashing, flashLeft, silent,
                   channels, inputs>>

(* Mutant of WriteFails: what was written is believed to be there. *)
WriteFailsBelieved(c) ==
    /\ taken # 0 /\ taken' = 0
    /\ c \in todo /\ todo' = todo \ {c}
    /\ IF Live(taken)
       THEN Counted /\ missed' = missed \cup {c}
       ELSE UNCHANGED <<inputs, missed>>
    /\ lastPushed' = [lastPushed EXCEPT ![c] = aim[c]]
    /\ UNCHANGED <<supVars, desired, light, at, aim, dirty, sincePush, flashing, flashLeft,
                   silent, channels>>

WriteFails(c) ==
    /\ taken # 0 /\ taken' = 0
    /\ c \in todo /\ todo' = todo \ {c}
    /\ IF Live(taken)
       THEN Counted /\ missed' = missed \cup {c}
       ELSE UNCHANGED <<inputs, missed>>
    /\ UNCHANGED <<supVars, desired, light, at, aim, ledState, channels>>

(* The arm ends; a repaint is answered. *)
FlushEnds ==
    /\ at = "flushes" /\ todo = {} /\ at' = "selects"
    /\ watcher' = IF watcher = "awaits" THEN "selects" ELSE watcher
    /\ UNCHANGED <<controller, ports, port, sup, connectedCh, closing,
                   cancelled, desired, light, todo, aim, taken, ledState, channels, missed,
                   inputs>>

-----------------------------------------------------------------------------
(* The others *)

(* A handler or the refresh of device levels changes a cache. *)
CacheChanges(c, v) ==
    /\ ~unreported /\ unreported' = TRUE
    /\ Changes(c, v)
    /\ UNCHANGED <<supVars, light, flush, ledState, ledCh, flashCh, missed>>

(* getCached keeps the level it fetched and tells nobody: neither does its *)
(* caller, when it then leaves the level alone or fails to write it.       *)
CacheChangesSilently(c, v) ==
    /\ Changes(c, v)
    /\ silent' = silent \cup {c}
    /\ UNCHANGED <<supVars, light, flush, lastPushed, dirty, sincePush, flashing, flashLeft,
                   channels, missed>>

NotifyLEDDirty ==
    /\ unreported /\ unreported' = FALSE
    /\ ledCh' = TRUE
    /\ UNCHANGED <<supVars, desired, light, flush, ledState, flashCh, missed, inputs>>

(* A request that meets a pending one is dropped. *)
FlashControl(c) ==
    /\ Counted
    /\ flashCh' = IF flashCh = Nobody THEN c ELSE flashCh
    /\ UNCHANGED <<supVars, desired, light, flush, ledState, ledCh, unreported, missed>>

ClockTicks ==
    /\ sincePush' = IF sincePush < Interval THEN sincePush + 1 ELSE sincePush
    /\ flashLeft' = IF flashLeft > 0 THEN flashLeft - 1 ELSE 0
    /\ UNCHANGED <<supVars, desired, light, flush, lastPushed, dirty, flashing, silent, channels,
                   missed, inputs>>

(* The controller forgets what it showed. *)
LosesController ==
    /\ Unplug
    /\ light' = [c \in Control |-> PowerOn]
    /\ UNCHANGED <<desired, flush, ledState, channels, missed, inputs>>

(* main closes the supervisor when Run and watchConnections have returned. *)
CloseSupervisor ==
    /\ Close
    /\ at = "returned" /\ watcher = "returned"
    /\ UNCHANGED <<desired, light, flush, ledState, channels, missed, inputs>>

SupervisorStep(A) == A /\ UNCHANGED <<desired, light, flush, ledState, channels, missed, inputs>>

-----------------------------------------------------------------------------
RunArm == \/ RunStarts \/ HandlesLedCh \/ HandlesFlash \/ LedTimerFires \/ Repaints
          \/ RunReturns \/ FlushEnds \/ TakesPort
          \/ \E c \in Control : WriteRefused(c) \/ Writes(c) \/ WriteFails(c)

Input == \/ \E c \in Control, v \in Value : HandlesChange(c, v) \/ SetConfig(c, v)
                                           \/ CacheChanges(c, v) \/ CacheChangesSilently(c, v)
         \/ \E c \in Control : FlashControl(c)

Next == \/ RunArm \/ Input \/ NotifyLEDDirty \/ ClockTicks
        \/ LosesController \/ CloseSupervisor
        \/ SupervisorStep(PlugIn) \/ SupervisorStep(Cancel)
        \/ SupervisorStep(Run) \/ SupervisorStep(CloseSteps) \/ SupervisorStep(Watches)

Spec == Init /\ [][Next]_vars

(* The goroutines run and the clock ticks: main too, which closes the      *)
(* supervisor when Run has returned.                                       *)
Fairness ==
    /\ WF_vars(RunArm) /\ WF_vars(NotifyLEDDirty) /\ WF_vars(ClockTicks)
    /\ WF_vars(SupervisorStep(Run)) /\ WF_vars(SupervisorStep(Watches))
    /\ WF_vars(CloseSupervisor \/ SupervisorStep(CloseSteps))

FairSpec == Spec /\ Fairness

-----------------------------------------------------------------------------
(* Properties *)

(* The reconnect is over: run reads from a live port, and its repaint has  *)
(* been answered.                                                          *)
Settled ==
    /\ sup \in {"reads", "hands"} /\ Live(port)
    /\ ~connectedCh /\ watcher = "selects"

(* What Run believes to have pushed is what the controller shows: a write  *)
(* that failed, or went to the port of a controller that has gone since,   *)
(* is not counted, and no reconnect leaves an older belief behind.         *)
BeliefsHold ==
    Settled => \A c \in Control : lastPushed[c] \in {Unpushed, light[c]}

(* In the end the controller shows what it should, when it is plugged in:  *)
(* over reconnects, throttled flushes, caches that change between a flush  *)
(* and its report, and flashes, which end.  Only a control whose last      *)
(* write failed on a live port, or whose cached level changed with nobody  *)
(* told, may wait for the next flush, which nothing schedules.             *)
Shows ==
    \A c \in Control :
        <>[](cancelled \/ ~plugged \/ c \in missed \cup silent \/ light[c] = desired[c])

(* Close waits for run, which no read, message in hand or retry detains.   *)
CloseEnds == closedFlag ~> closer = "returned"

(* No port is left open: one at most while run goes on, which it or Close  *)
(* closes even when Close came while it was being opened.                  *)
PortsClosed ==
    LET open == {p \in DOMAIN ports : ports[p] # "closed"}
    IN  /\ Cardinality(open) <= 1
        /\ sup = "done" => open = {}
=============================================================================
