----------------------------- MODULE Leds_proofs -----------------------------
(***************************************************************************)
(* The LEDs and the self-healing port, for any controls and any number of  *)
(* unplugs, failed writes, changes and flashes.                            *)
(***************************************************************************)
EXTENDS Leds, FiniteSetTheorems, TLAPS

-----------------------------------------------------------------------------
(* Types *)

LEDTyped ==
    /\ desired \in [Control -> Value] /\ light \in [Control -> Shown \cup {PowerOn}]
    /\ at \in {"starts", "selects", "flushes", "returned"}
    /\ todo \subseteq Control /\ aim \in [Control -> Shown] /\ taken \in 0 .. Len(ports)
    /\ lastPushed \in [Control -> Shown \cup {Unpushed}]
    /\ dirty \in BOOLEAN /\ sincePush \in 0 .. Interval
    /\ flashing \in Control \cup {Nobody}
    /\ flashLeft \in IF flashing = Nobody THEN {0} ELSE 0 .. Flash
    /\ ledCh \in BOOLEAN /\ flashCh \in Control \cup {Nobody} /\ unreported \in BOOLEAN
    /\ missed \subseteq Control /\ silent \subseteq Control /\ inputs \in 0 .. MaxInputs

LEMMA TypedParts == TypeOK <=> SupTypeOK /\ LEDTyped
  BY DEF TypeOK, LEDTyped

LEMMA InitTyped == Init => TypeOK
  <1> SUFFICES ASSUME Init PROVE TypeOK
    OBVIOUS
  <1>1. ports \in Seq(PortState) /\ Len(ports) = 0
    BY DEF Init, SupInit
  <1>2. SupTypeOK
    <2>1. /\ plugged \in BOOLEAN /\ connectedCh \in BOOLEAN /\ closedFlag \in BOOLEAN
          /\ cancelled \in BOOLEAN
      BY DEF Init, SupInit
    <2>2. unplugs \in 0 .. MaxUnplugs /\ port \in 0 .. Len(ports) /\ held \in 0 .. Len(ports)
      BY <1>1, MidiSupervisorAssumption DEF Init, SupInit
    <2> QED BY <1>1, <2>1, <2>2 DEF Init, SupInit, SupTypeOK, Sup, Closer, Watcher
  <1>3. /\ desired \in [Control -> Value] /\ light \in [Control -> Shown \cup {PowerOn}]
        /\ aim \in [Control -> Shown] /\ lastPushed \in [Control -> Shown \cup {Unpushed}]
    BY LedsAssumption DEF Init, AllForgotten, Shown
  <1>4. LEDTyped
    <2>1. taken \in 0 .. Len(ports) /\ sincePush \in 0 .. Interval /\ inputs \in 0 .. MaxInputs
      BY <1>1, LedsAssumption DEF Init
    <2>2. dirty \in BOOLEAN /\ ledCh \in BOOLEAN /\ unreported \in BOOLEAN
      BY DEF Init
    <2> QED BY <1>3, <2>1, <2>2 DEF Init, LEDTyped
  <1> QED BY <1>2, <1>4, TypedParts

(* The override gives way to what is wanted, and both are shown. *)
LEMMA LedDesiredType ==
    ASSUME NEW wanted \in [Control -> Value], NEW flashed, NEW left
    PROVE  LedDesired(wanted, flashed, left) \in [Control -> Shown]
  BY DEF LedDesired, Shown

LEMMA MarkTyped ==
    ASSUME NEW wanted \in [Control -> Value],
           NEW pushed \in [Control -> Shown \cup {Unpushed}],
           NEW flashed \in Control \cup {Nobody},
           NEW left \in IF flashed = Nobody THEN {0} ELSE 0 .. Flash,
           sincePush \in 0 .. Interval, todo \subseteq Control, aim \in [Control -> Shown],
           silent \subseteq Control,
           \/ MarkLEDsDirty(wanted, pushed, flashed, left)
           \/ FlushLEDs(wanted, pushed, flashed, left)
    PROVE  /\ at' \in {"selects", "flushes"} /\ UNCHANGED taken
           /\ todo' \subseteq Control /\ aim' \in [Control -> Shown]
           /\ lastPushed' = pushed /\ silent' \subseteq Control
           /\ dirty' \in BOOLEAN /\ sincePush' \in 0 .. Interval
           /\ flashing' \in Control \cup {Nobody}
           /\ flashLeft' \in IF flashing' = Nobody THEN {0} ELSE 0 .. Flash
  <1>1. CASE FlushLEDs(wanted, pushed, flashed, left)
    <2>1. aim' \in [Control -> Shown]
      BY <1>1, LedDesiredType DEF FlushLEDs
    <2>2. flashing' \in Control \cup {Nobody} /\ flashLeft' \in IF flashing' = Nobody THEN {0} ELSE 0 .. Flash
      BY <1>1 DEF FlushLEDs
    <2>3. dirty' \in BOOLEAN /\ at' = "flushes" /\ todo' \subseteq Control
      BY <1>1 DEF FlushLEDs
    <2>4. /\ sincePush' \in 0 .. Interval /\ UNCHANGED taken /\ lastPushed' = pushed
          /\ silent' \subseteq Control
      BY <1>1, LedsAssumption DEF FlushLEDs
    <2> QED BY <2>1, <2>2, <2>3, <2>4
  <1>2. CASE OweFlush(pushed, flashed, left)
    BY <1>2 DEF OweFlush
  <1> QED BY <1>1, <1>2 DEF MarkLEDsDirty

(* A step of the supervisor, of Close or of the watcher. *)
LEMMA SupervisorTyped ==
    ASSUME SupTypeOK,
           Unplug \/ PlugIn \/ Close \/ Cancel \/ Run \/ CloseSteps \/ Watches
    PROVE  SupTypeOK' /\ Len(ports) <= Len(ports')
  <1> USE DEF SupTypeOK, controller, closing, SupGoes, Sup, Closer, Watcher
  <1>1. ports \in Seq(PortState) /\ Len(ports) \in Nat
    OBVIOUS
  <1>2. CASE Unplug
    <2>1. ports' \in Seq(PortState) /\ Len(ports') = Len(ports)
      BY <1>1, <1>2 DEF Unplug, PortState
    <2>2. plugged' \in BOOLEAN
      BY <1>2 DEF Unplug
    <2>4. unplugs' \in 0 .. MaxUnplugs
      BY <1>2, MidiSupervisorAssumption DEF Unplug
    <2>3. Len(ports) <= Len(ports')
      BY <1>1, <2>1
    <2> QED BY <1>2, <2>1, <2>2, <2>3, <2>4 DEF Unplug
  <1>3. ASSUME NEW p \in 0 .. Len(ports)
        PROVE  Closed(p) \in Seq(PortState) /\ Len(Closed(p)) = Len(ports)
    BY <1>1 DEF Closed, PortState
  <1>4. ASSUME NEW from \in Sup, ClearPort(from)
        PROVE  SupTypeOK' /\ Len(ports) <= Len(ports')
    <2>1. ports' \in Seq(PortState) /\ Len(ports') = Len(ports)
      BY <1>3, <1>4 DEF ClearPort
    <2> QED BY <1>4, <2>1 DEF ClearPort
  <1>5. CASE ReadFails \/ HandingEnds
    BY <1>4, <1>5 DEF ReadFails, HandingEnds
  <1>6. CASE Opens
    <2>1. /\ ports' \in Seq(PortState) /\ Len(ports') = Len(ports) + 1
      BY <1>1, <1>6 DEF Opens, PortState
    <2> QED BY <1>1, <1>6, <2>1 DEF Opens
  <1>7. CASE ClosesPort
    <2>1. ports' \in Seq(PortState) /\ Len(ports') = Len(ports)
      BY <1>3, <1>7 DEF ClosesPort
    <2> QED BY <1>7, <2>1 DEF ClosesPort
  <1>8. CASE PlugIn \/ Close \/ Cancel \/ LooksForPort \/ CloseReturns \/ Watches
    <2>1. UNCHANGED <<ports, port, unplugs, sup>> /\ Len(ports) <= Len(ports')
      BY <1>1, <1>8 DEF PlugIn, Close, Cancel, LooksForPort, CloseReturns, Watches, TakesConnected,
                        WatcherReturns
    <2> QED BY <1>8, <2>1 DEF PlugIn, Close, Cancel, LooksForPort, CloseReturns, Watches,
                              TakesConnected, WatcherReturns
  <1>9. CASE GivesUp \/ SetPort \/ NotifyConnected \/ Receives \/ NotifyDisconnected \/ Returns
    <2>1. UNCHANGED ports /\ Len(ports) <= Len(ports')
      BY <1>1, <1>9 DEF GivesUp, SetPort, NotifyConnected, Receives, NotifyDisconnected, Returns
    <2>2. port' \in 0 .. Len(ports)
      BY <1>1, <1>9 DEF GivesUp, SetPort, NotifyConnected, Receives, NotifyDisconnected, Returns
    <2>3. UNCHANGED <<plugged, unplugs, closedFlag, closer, held, watcher, cancelled>>
      BY <1>9 DEF GivesUp, SetPort, NotifyConnected, Receives, NotifyDisconnected, Returns
    <2>4. connectedCh' \in BOOLEAN
      BY <1>9 DEF GivesUp, SetPort, NotifyConnected, Receives, NotifyDisconnected, Returns
    <2>5. sup' \in {"tries", "opened", "stored", "reads", "hands", "dropped", "done"}
      BY <1>9 DEF GivesUp, SetPort, NotifyConnected, Receives, NotifyDisconnected, Returns
    <2> QED BY <2>1, <2>2, <2>3, <2>4, <2>5
  <1> QED BY <1>2, <1>5, <1>6, <1>7, <1>8, <1>9 DEF Run, CloseSteps

(* The steps that only the supervisor, Close and the watcher take. *)
SupervisorActs ==
    \/ LosesController \/ CloseSupervisor
    \/ SupervisorStep(PlugIn) \/ SupervisorStep(Cancel)
    \/ SupervisorStep(Run) \/ SupervisorStep(CloseSteps) \/ SupervisorStep(Watches)

LEMMA SupervisorActsTyped == ASSUME TypeOK, SupervisorActs PROVE TypeOK'
  <1>1. /\ Unplug \/ PlugIn \/ Close \/ Cancel \/ Run \/ CloseSteps \/ Watches
        /\ UNCHANGED <<desired, flush, ledState, channels, missed, inputs>>
        /\ UNCHANGED light \/ light' = [c \in Control |-> PowerOn]
    BY DEF SupervisorActs, LosesController, CloseSupervisor, SupervisorStep
  <1>2. SupTypeOK' /\ Len(ports) <= Len(ports')
    BY <1>1, SupervisorTyped, TypedParts
  <1>3. Len(ports) \in Nat /\ Len(ports') \in Nat
    BY <1>2, TypedParts DEF SupTypeOK
  <1>4. LEDTyped'
    BY <1>1, <1>2, <1>3, TypedParts DEF LEDTyped, flush, ledState, channels
  <1> QED BY <1>2, <1>4 DEF TypeOK, LEDTyped

LEMMA MarksTyped ==
    ASSUME TypeOK,
           \/ RunStarts \/ HandlesLedCh \/ HandlesFlash \/ LedTimerFires \/ Repaints
           \/ \E c \in Control, v \in Value : HandlesChange(c, v) \/ SetConfig(c, v)
    PROVE  TypeOK'
  <1>1. SupTypeOK /\ LEDTyped
    BY TypedParts
  <1>2. AllForgotten \in [Control -> Shown \cup {Unpushed}]
    BY DEF AllForgotten
  <1>3. /\ desired' \in [Control -> Value] /\ UNCHANGED <<light, unreported, missed, ports>>
        /\ ledCh' \in BOOLEAN /\ flashCh' \in Control \cup {Nobody} /\ inputs' \in 0 .. MaxInputs
        /\ SupTypeOK'
    <2>1. UNCHANGED supVars \/ Repaints
      BY DEF RunStarts, HandlesLedCh, HandlesFlash, LedTimerFires, HandlesChange, SetConfig
    <2>2. SupTypeOK' /\ UNCHANGED ports
      BY <1>1, <2>1 DEF Repaints, SupTypeOK, supVars, controller, closing, Watcher
    <2>3. desired' \in [Control -> Value] /\ UNCHANGED <<light, unreported, missed>>
      BY <1>1 DEF RunStarts, HandlesLedCh, HandlesFlash, LedTimerFires, Repaints, HandlesChange,
                  SetConfig, Changes, LEDTyped, channels
    <2>4. inputs' \in 0 .. MaxInputs
      BY <1>1, LedsAssumption
         DEF RunStarts, HandlesLedCh, HandlesFlash, LedTimerFires, Repaints, HandlesChange,
             SetConfig, Changes, Counted, LEDTyped
    <2>5. ledCh' \in BOOLEAN /\ flashCh' \in Control \cup {Nobody}
      BY <1>1 DEF RunStarts, HandlesLedCh, HandlesFlash, LedTimerFires, Repaints, HandlesChange,
                  SetConfig, LEDTyped, channels
    <2> QED BY <2>2, <2>3, <2>4, <2>5
  <1>4. \E p \in {lastPushed, AllForgotten}, f \in Control \cup {Nobody} :
          \E l \in IF f = Nobody THEN {0} ELSE 0 .. Flash :
             MarkLEDsDirty(desired', p, f, l) \/ FlushLEDs(desired', p, f, l)
    <2>1. CASE HandlesFlash
      <3>1. MarkLEDsDirty(desired', lastPushed, flashCh, Flash) /\ flashCh \in Control /\ flashCh # Nobody
        BY <1>1, <2>1 DEF HandlesFlash, LEDTyped
      <3>2. Flash \in IF flashCh = Nobody THEN {0} ELSE 0 .. Flash
        BY <3>1, LedsAssumption
      <3> QED BY <3>1, <3>2
    <2>2. CASE ~HandlesFlash
      BY <1>1, <2>2 DEF RunStarts, HandlesLedCh, LedTimerFires, Repaints, HandlesChange,
                        SetConfig, LEDTyped
    <2> QED BY <2>1, <2>2
  <1>5. PICK p \in {lastPushed, AllForgotten}, f \in Control \cup {Nobody} :
          \E l \in IF f = Nobody THEN {0} ELSE 0 .. Flash :
             MarkLEDsDirty(desired', p, f, l) \/ FlushLEDs(desired', p, f, l)
    BY <1>4
  <1> PICK l \in IF f = Nobody THEN {0} ELSE 0 .. Flash :
          MarkLEDsDirty(desired', p, f, l) \/ FlushLEDs(desired', p, f, l)
    BY <1>5
  <1>6. p \in [Control -> Shown \cup {Unpushed}]
    BY <1>1, <1>2 DEF LEDTyped
  <1>7. LEDTyped'
    <2>1. /\ at' \in {"selects", "flushes"} /\ UNCHANGED taken
          /\ todo' \subseteq Control /\ aim' \in [Control -> Shown]
          /\ lastPushed' = p /\ silent' \subseteq Control
          /\ dirty' \in BOOLEAN /\ sincePush' \in 0 .. Interval
          /\ flashing' \in Control \cup {Nobody}
          /\ flashLeft' \in IF flashing' = Nobody THEN {0} ELSE 0 .. Flash
      BY <1>1, <1>3, <1>6, MarkTyped DEF LEDTyped
    <2> QED BY <1>1, <1>3, <1>6, <2>1 DEF LEDTyped
  <1> QED BY <1>3, <1>7 DEF TypeOK, LEDTyped

LEMMA StepTyped == TypeOK /\ [Next]_vars => TypeOK'
  <1> SUFFICES ASSUME TypeOK, [Next]_vars PROVE TypeOK'
    OBVIOUS
  <1>1. SupTypeOK /\ LEDTyped
    BY TypedParts
  <1>2. CASE SupervisorActs
    BY <1>2, SupervisorActsTyped
  <1>3. CASE \/ RunStarts \/ HandlesLedCh \/ HandlesFlash \/ LedTimerFires \/ Repaints
             \/ \E c \in Control, v \in Value : HandlesChange(c, v) \/ SetConfig(c, v)
    BY <1>3, MarksTyped
  <1>4. ASSUME NEW c \in Control, WriteRefused(c) \/ Writes(c) \/ WriteFails(c)
        PROVE  TypeOK'
    <2>1. SupTypeOK' /\ UNCHANGED ports
      BY <1>1, <1>4 DEF WriteRefused, Writes, WriteFails, SupTypeOK, supVars, controller, closing
    <2>2. LEDTyped'
      BY <1>1, <1>4, <2>1, LedsAssumption
         DEF WriteRefused, Writes, WriteFails, LEDTyped, Shown, Counted, ledState, channels
    <2> QED BY <2>1, <2>2 DEF TypeOK, LEDTyped
  <1>5. ASSUME \/ RunReturns \/ FlushEnds \/ TakesPort \/ NotifyLEDDirty \/ ClockTicks
               \/ \E c \in Control : FlashControl(c)
               \/ \E c \in Control, v \in Value : CacheChanges(c, v) \/ CacheChangesSilently(c, v)
        PROVE  TypeOK'
    <2>1. SupTypeOK' /\ UNCHANGED ports
      BY <1>1, <1>5 DEF RunReturns, FlushEnds, TakesPort, NotifyLEDDirty, ClockTicks,
                        FlashControl, CacheChanges, CacheChangesSilently, SupTypeOK, Watcher,
                        supVars, controller, closing
    <2>2. ASSUME RunReturns \/ FlushEnds \/ TakesPort \/ NotifyLEDDirty PROVE LEDTyped'
      <3>1. AllForgotten \in [Control -> Shown \cup {Unpushed}] /\ port \in 0 .. Len(ports)
        BY <1>1 DEF AllForgotten, SupTypeOK
      <3>2. [c \in Control |-> FullRing] \in [Control -> Shown]
        BY DEF Shown
      <3>3. dirty' \in BOOLEAN /\ ledCh' \in BOOLEAN /\ unreported' \in BOOLEAN
        BY <1>1, <2>2 DEF RunReturns, FlushEnds, TakesPort, NotifyLEDDirty, LEDTyped, ledState,
                          channels
      <3>4. UNCHANGED <<desired, light, todo, sincePush, flashCh, missed, silent, inputs>>
        BY <2>2 DEF RunReturns, FlushEnds, TakesPort, NotifyLEDDirty, flush, ledState, channels
      <3>5. /\ at' \in {"starts", "selects", "flushes", "returned"}
            /\ flashing' \in Control \cup {Nobody}
            /\ flashLeft' \in IF flashing' = Nobody THEN {0} ELSE 0 .. Flash
        BY <1>1, <2>2 DEF RunReturns, FlushEnds, TakesPort, NotifyLEDDirty, LEDTyped, flush,
                          ledState
      <3>6. /\ aim' \in [Control -> Shown] /\ lastPushed' \in [Control -> Shown \cup {Unpushed}]
            /\ taken' \in 0 .. Len(ports)
        BY <1>1, <2>2, <3>1, <3>2
           DEF RunReturns, FlushEnds, TakesPort, NotifyLEDDirty, LEDTyped, flush, ledState
      <3> QED BY <1>1, <2>1, <3>3, <3>4, <3>5, <3>6 DEF LEDTyped
    <2>3. ASSUME ClockTicks PROVE LEDTyped'
      BY <1>1, <2>1, <2>3, LedsAssumption DEF ClockTicks, LEDTyped, flush, channels
    <2>4. ASSUME \/ \E c \in Control : FlashControl(c)
                 \/ \E c \in Control, v \in Value :
                       CacheChanges(c, v) \/ CacheChangesSilently(c, v)
          PROVE  LEDTyped'
      <3>1. /\ UNCHANGED <<light, flush, lastPushed, dirty, sincePush, flashing, flashLeft, ledCh,
                         missed>>
            /\ silent' \subseteq Control
        BY <1>1, <2>4
           DEF FlashControl, CacheChanges, CacheChangesSilently, LEDTyped, ledState, channels
      <3>2. inputs' \in 0 .. MaxInputs
        BY <1>1, <2>4, LedsAssumption
           DEF FlashControl, CacheChanges, CacheChangesSilently, Changes, Counted, LEDTyped
      <3>3. desired' \in [Control -> Value]
        BY <1>1, <2>4 DEF FlashControl, CacheChanges, CacheChangesSilently, Changes, LEDTyped
      <3>4. flashCh' \in Control \cup {Nobody}
        BY <1>1, <2>4 DEF FlashControl, CacheChanges, CacheChangesSilently, LEDTyped, channels
      <3>5. unreported' \in BOOLEAN
        <4>1. unreported \in BOOLEAN
          BY <1>1 DEF LEDTyped
        <4>2. unreported' = unreported \/ unreported' = TRUE
          BY <2>4, Zenon DEF FlashControl, CacheChanges, CacheChangesSilently, channels
        <4> QED BY <4>1, <4>2
      <3> QED BY <1>1, <2>1, <3>1, <3>2, <3>3, <3>4, <3>5 DEF LEDTyped, flush
    <2> QED BY <1>5, <2>1, <2>2, <2>3, <2>4 DEF TypeOK, LEDTyped
  <1>6. CASE UNCHANGED vars
    BY <1>1, <1>6 DEF vars, TypeOK, SupTypeOK, supVars, controller, closing, flush, ledState,
                      channels
  <1> QED BY <1>2, <1>3, <1>4, <1>5, <1>6 DEF Next, RunArm, Input, SupervisorActs

(* Every variable of the LEDs, the port and the watcher keeps its type:    *)
(* in particular a flash that has no control left has no time left either, *)
(* and no write holds a port that was never opened.                        *)
THEOREM LedsTyped == Spec => []TypeOK
  BY InitTyped, StepTyped, PTL DEF Spec

-----------------------------------------------------------------------------
(* Ports *)

(* The last port opened is the only one that may be open, and is the one   *)
(* Supervisor.port holds; run has closed it before it tries for another.   *)
OneAtATime ==
    /\ \A p \in DOMAIN ports : ports[p] # "closed" => p = Len(ports)
    /\ sup \in {"tries", "dropped", "done"} => \A p \in DOMAIN ports : ports[p] = "closed"
    /\ sup \in {"tries", "opened", "dropped", "done"} => port = 0
    /\ sup \in {"stored", "reads", "hands"} => port = Len(ports) /\ port # 0
    /\ sup = "opened" => Len(ports) # 0

LEMMA PortStep ==
    ASSUME SupTypeOK, OneAtATime,
           Unplug \/ PlugIn \/ Close \/ Cancel \/ Run \/ CloseSteps \/ Watches
    PROVE  OneAtATime'
  <1>1. /\ ports \in Seq(PortState) /\ Len(ports) \in Nat /\ DOMAIN ports = 1 .. Len(ports)
        /\ port \in 0 .. Len(ports) /\ held \in 0 .. Len(ports)
    BY DEF SupTypeOK
  <1>2. CASE Unplug
    <2>1. /\ Len(ports') = Len(ports) /\ DOMAIN ports' = DOMAIN ports
          /\ \A p \in DOMAIN ports : ports'[p] # "closed" => ports[p] # "closed"
      BY <1>1, <1>2 DEF Unplug
    <2> QED BY <1>2, <2>1 DEF Unplug, OneAtATime
  <1>3. ASSUME NEW p \in 0 .. Len(ports), ports' = Closed(p)
        PROVE  /\ Len(ports') = Len(ports) /\ DOMAIN ports' = DOMAIN ports
               /\ \A q \in DOMAIN ports : ports'[q] # "closed" => ports[q] # "closed" /\ q # p
    BY <1>1, <1>3 DEF Closed
  <1>4. CASE ReadFails \/ HandingEnds
    <2>1. PICK from \in {"reads", "hands"} : ClearPort(from)
      BY <1>4 DEF ReadFails, HandingEnds
    <2> QED BY <1>1, <1>3, <2>1 DEF ClearPort, SupGoes, OneAtATime
  <1>5. CASE ClosesPort
    BY <1>1, <1>3, <1>5 DEF ClosesPort, OneAtATime
  <1>6. CASE Opens
    <2>1. /\ Len(ports') = Len(ports) + 1 /\ DOMAIN ports' = 1 .. Len(ports')
          /\ \A p \in DOMAIN ports : ports'[p] = ports[p]
      BY <1>1, <1>6 DEF Opens
    <2> QED BY <1>1, <1>6, <2>1 DEF Opens, SupGoes, OneAtATime
  <1>7. CASE \/ PlugIn \/ Close \/ Cancel \/ LooksForPort \/ CloseReturns \/ Watches
             \/ GivesUp \/ SetPort \/ NotifyConnected \/ Receives \/ NotifyDisconnected
             \/ Returns
    BY <1>1, <1>7 DEF PlugIn, Close, Cancel, LooksForPort, CloseReturns, Watches, TakesConnected,
                WatcherReturns, GivesUp, SetPort, NotifyConnected, Receives, OneAtATime,
                NotifyDisconnected, Returns, SupGoes
  <1> QED BY <1>2, <1>4, <1>5, <1>6, <1>7 DEF Run, CloseSteps

(* Run writes through the port, and never opens or closes one. *)
LEMMA OthersLeavePorts ==
    ASSUME [Next]_vars, ~SupervisorActs
    PROVE  UNCHANGED <<controller, ports, port, sup, connectedCh, closing>>
  BY DEF Next, RunArm, Input, SupervisorActs, RunStarts, HandlesLedCh, HandlesFlash, LedTimerFires,
         Repaints, RunReturns, FlushEnds, TakesPort, WriteRefused, Writes, WriteFails,
         HandlesChange, SetConfig, CacheChanges, CacheChangesSilently, FlashControl, NotifyLEDDirty,
         ClockTicks, vars, supVars

LEMMA OneAtATimeStep == TypeOK /\ OneAtATime /\ [Next]_vars => OneAtATime'
  <1> SUFFICES ASSUME TypeOK, OneAtATime, [Next]_vars PROVE OneAtATime'
    OBVIOUS
  <1>1. CASE SupervisorActs
    BY <1>1, PortStep, TypedParts
       DEF SupervisorActs, LosesController, CloseSupervisor, SupervisorStep
  <1>2. CASE ~SupervisorActs
    BY <1>2, OthersLeavePorts DEF OneAtATime
  <1> QED BY <1>1, <1>2

LEMMA OneIsOne == TypeOK /\ OneAtATime => PortsClosed
  <1> SUFFICES ASSUME TypeOK, OneAtATime PROVE PortsClosed
    OBVIOUS
  <1> DEFINE open == {p \in DOMAIN ports : ports[p] # "closed"}
  <1>1. open \subseteq {Len(ports)}
    BY DEF OneAtATime
  <1>2. Cardinality(open) <= 1
    <2>1. open = {} \/ open = {Len(ports)}
      BY <1>1
    <2>2. Cardinality({}) = 0 /\ Cardinality({Len(ports)}) = 1
      BY FS_EmptySet, FS_Singleton
    <2> HIDE DEF open
    <2>3. Cardinality(open) = 0 \/ Cardinality(open) = 1
      BY <2>1, <2>2, Zenon
    <2> QED BY <2>3
  <1>3. sup = "done" => open = {}
    BY DEF OneAtATime
  <1> QED BY <1>2, <1>3 DEF PortsClosed

(* However often the controller comes and goes, and wherever Close finds   *)
(* run, at most one port is open, and none when run has returned.          *)
THEOREM NoPortLeaks == Spec => []PortsClosed
  <1>1. Init => OneAtATime
    BY DEF Init, SupInit, OneAtATime
  <1> QED BY <1>1, OneAtATimeStep, OneIsOne, LedsTyped, PTL DEF Spec

-----------------------------------------------------------------------------
(* Beliefs *)

Believed == \A c \in Control : lastPushed[c] \in {Unpushed, light[c]}

(* Once Run has taken the repaint of the present connection, what it       *)
(* believes is what the controller shows, while the repaint is under way   *)
(* too.                                                                    *)
Repainted ==
    sup \in {"reads", "hands"} /\ Live(port) /\ ~connectedCh /\ watcher \in {"selects", "awaits"}
        => Believed

LEMMA RepaintedStep == TypeOK /\ OneAtATime /\ Repainted /\ [Next]_vars => Repainted'
  <1> SUFFICES ASSUME TypeOK, OneAtATime, Repainted, [Next]_vars PROVE Repainted'
    OBVIOUS
  <1>1. SupTypeOK /\ LEDTyped
    BY TypedParts
  <1>2. CASE LosesController
    <2>1. ports \in Seq(PortState) /\ port \in 0 .. Len(ports) /\ UNCHANGED port
      BY <1>1, <1>2 DEF LosesController, Unplug, SupTypeOK
    <2>2. ~Live(port)'
      BY <1>2, <2>1 DEF LosesController, Unplug, Live
    <2> QED BY <2>2 DEF Repainted
  <1>3. CASE \/ CloseSupervisor \/ SupervisorStep(PlugIn) \/ SupervisorStep(Cancel)
             \/ SupervisorStep(Run) \/ SupervisorStep(CloseSteps) \/ SupervisorStep(Watches)
    <2>1. UNCHANGED <<lastPushed, light>>
      BY <1>3 DEF CloseSupervisor, SupervisorStep, ledState
    <2>2. CASE UNCHANGED <<ports, port, connectedCh>>
      BY <1>3, <2>1, <2>2 DEF Repainted, Believed, Live, SupervisorStep, CloseSupervisor, Close, PlugIn,
         Cancel, Run, Opens, GivesUp, SetPort, NotifyConnected, Receives, ReadFails, HandingEnds,
         ClearPort, NotifyDisconnected, Returns, CloseSteps, LooksForPort, ClosesPort,
         CloseReturns, Watches, TakesConnected, WatcherReturns, SupGoes, closing
    <2>3. CASE SupervisorStep(ClosesPort)
      <3>1. ports \in Seq(PortState) /\ port \in 0 .. Len(ports) /\ held \in 0 .. Len(ports)
        BY <1>1 DEF SupTypeOK
      <3>2. Live(port)' => Live(port)
        BY <2>3, <3>1 DEF SupervisorStep, ClosesPort, Closed, Live
      <3> QED BY <2>1, <2>3, <3>2 DEF Repainted, Believed, SupervisorStep, ClosesPort, closing
    <2>4. CASE ~UNCHANGED <<ports, port, connectedCh>> /\ ~SupervisorStep(ClosesPort)
      BY <1>3, <2>4 DEF Repainted, SupervisorStep, CloseSupervisor, Close, PlugIn,
         Cancel, Run, Opens, GivesUp, SetPort, NotifyConnected, Receives, ReadFails, HandingEnds,
         ClearPort, NotifyDisconnected, Returns, CloseSteps, LooksForPort,
         CloseReturns, Watches, TakesConnected, WatcherReturns, SupGoes, closing
    <2> QED BY <2>2, <2>3, <2>4
  <1>4. CASE ~SupervisorActs
    <2>1. UNCHANGED <<ports, port, sup, connectedCh>>
      BY <1>4, OthersLeavePorts
    <2>2. CASE \/ UNCHANGED light /\ (UNCHANGED lastPushed \/ lastPushed' = AllForgotten)
               \/ \E c \in Control : /\ light' = [light EXCEPT ![c] = aim[c]]
                                     /\ lastPushed' = [lastPushed EXCEPT ![c] = aim[c]]
      <3>1. Believed => Believed'
        BY <1>1, <2>2 DEF Believed, AllForgotten, LEDTyped
      <3>2. watcher' \in {"selects", "awaits"} =>
              watcher \in {"selects", "awaits"} \/ lastPushed' = AllForgotten
        BY <1>4, <2>1 DEF Next, RunArm, Input, SupervisorActs, RunStarts, HandlesLedCh, HandlesFlash,
             LedTimerFires, Repaints, FlushLEDs, RunReturns, FlushEnds, TakesPort, WriteRefused, Writes,
             WriteFails, HandlesChange, SetConfig, CacheChanges, CacheChangesSilently,
             FlashControl, NotifyLEDDirty, ClockTicks, vars, supVars
      <3>3. lastPushed' = AllForgotten => Believed'
        BY DEF Believed, AllForgotten
      <3> QED BY <2>1, <3>1, <3>2, <3>3 DEF Repainted, Live
    <2>3. \/ UNCHANGED light /\ (UNCHANGED lastPushed \/ lastPushed' = AllForgotten)
          \/ \E c \in Control : /\ light' = [light EXCEPT ![c] = aim[c]]
                                /\ lastPushed' = [lastPushed EXCEPT ![c] = aim[c]]
      BY <1>4 DEF Next, RunArm, Input, SupervisorActs, RunStarts, HandlesLedCh, HandlesFlash,
             LedTimerFires, Repaints, MarkLEDsDirty, FlushLEDs, OweFlush, RunReturns, FlushEnds,
             TakesPort, WriteRefused, Writes, WriteFails, HandlesChange, SetConfig, CacheChanges,
             CacheChangesSilently, FlashControl, NotifyLEDDirty, ClockTicks, vars, flush, ledState
    <2> QED BY <2>2, <2>3
  <1> QED BY <1>2, <1>3, <1>4 DEF SupervisorActs

(* When the reconnect is over, what Run believes to have pushed is what    *)
(* the controller shows, so a later flush writes all that differs: failed  *)
(* writes and writes to a port whose controller is gone are not believed.  *)
THEOREM BeliefsAreTrue == Spec => []BeliefsHold
  <1>1. Init => Repainted
    BY DEF Init, SupInit, Repainted
  <1>2. Repainted => BeliefsHold
    BY DEF Repainted, Believed, BeliefsHold, Settled
  <1>3. Spec => []OneAtATime
    <2>1. Init => OneAtATime
      BY DEF Init, SupInit, OneAtATime
    <2> QED BY <2>1, OneAtATimeStep, LedsTyped, PTL DEF Spec
  <1> QED BY <1>1, <1>2, <1>3, RepaintedStep, LedsTyped, PTL DEF Spec
=============================================================================
