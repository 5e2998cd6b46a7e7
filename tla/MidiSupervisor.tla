--------------------------- MODULE MidiSupervisor ---------------------------
(***************************************************************************)
(* The self-healing MIDI port (midi/supervisor.go) over the ports it opens *)
(* (midi/rawmidi.go), and the goroutine that takes note of its             *)
(* connections (watchConnections, cmd/knobd/state.go).  The controller is  *)
(* unplugged and plugged in again; opening it may fail while it is there.  *)
(* Module InputLoop has the messages the port delivers: here one is only   *)
(* under way from the port to the reader or not.                           *)
(***************************************************************************)
EXTENDS Integers, Sequences, FiniteSets

CONSTANT MaxUnplugs \* bound: how often the controller is unplugged

ASSUME MidiSupervisorAssumption == MaxUnplugs \in Nat

VARIABLES plugged, unplugs, \* the controller, and the counter of the bound
          ports,            \* the ports opened so far, oldest first
          port,             \* Supervisor.port, 0 for nil
          sup,              \* where run is
          connectedCh,
          closedFlag,       \* Close was called: closedFlag is set and ctx cancelled
          closer, held,     \* where Close is, and the port it found
          watcher,          \* where watchConnections is
          cancelled         \* runCtx is cancelled

controller == <<plugged, unplugs>>
closing == <<closedFlag, closer, held>>
supVars == <<controller, ports, port, sup, connectedCh, closing, watcher,
             cancelled>>

(* run tries to connect until it does; has opened a port, has stored it,   *)
(* reads from it or hands a message on; has dropped the port; has returned. *)
Sup == {"tries", "opened", "stored", "reads", "hands", "dropped", "done"}

(* A port reads and writes, or its controller has gone, or it is closed.   *)
PortState == {"live", "gone", "closed"}

Closer == {"no", "looks", "closes", "awaits", "returned"}
Watcher == {"selects", "asks", "awaits", "returned"}

SupTypeOK ==
    /\ plugged \in BOOLEAN /\ unplugs \in 0 .. MaxUnplugs
    /\ ports \in Seq(PortState) /\ port \in 0 .. Len(ports)
    /\ sup \in Sup
    /\ connectedCh \in BOOLEAN
    /\ closedFlag \in BOOLEAN /\ closer \in Closer /\ held \in 0 .. Len(ports)
    /\ watcher \in Watcher /\ cancelled \in BOOLEAN

SupInit ==
    /\ plugged \in BOOLEAN /\ unplugs = 0
    /\ ports = <<>> /\ port = 0
    /\ sup = "tries"
    /\ connectedCh = FALSE
    /\ closedFlag = FALSE /\ closer = "no" /\ held = 0
    /\ watcher = "selects" /\ cancelled = FALSE

Live(p) == p # 0 /\ ports[p] = "live"

(* realPort.Close is idempotent. *)
Closed(p) == IF p = 0 THEN ports ELSE [ports EXCEPT ![p] = "closed"]

SupGoes(from, to) == sup = from /\ sup' = to

-----------------------------------------------------------------------------
(* The controller *)

Unplug ==
    /\ plugged /\ unplugs < MaxUnplugs
    /\ plugged' = FALSE /\ unplugs' = unplugs + 1
    /\ ports' = [p \in DOMAIN ports |-> IF ports[p] = "live" THEN "gone" ELSE ports[p]]
    /\ UNCHANGED <<port, sup, connectedCh, closing, watcher, cancelled>>

PlugIn ==
    /\ ~plugged /\ plugged' = TRUE
    /\ UNCHANGED <<unplugs, ports, port, sup, connectedCh, closing, watcher,
                   cancelled>>

-----------------------------------------------------------------------------
(* run *)

Opens ==
    /\ SupGoes("tries", "opened")
    /\ plugged
    /\ ports' = Append(ports, "live")
    /\ UNCHANGED <<controller, port, connectedCh, closing, watcher, cancelled>>

(* An attempt that fails is followed by another one, after a hotplug hint, *)
(* the backstop ticker or the backoff, unless Close ends the wait.         *)
GivesUp ==
    /\ SupGoes("tries", "done")
    /\ closedFlag
    /\ UNCHANGED <<controller, ports, port, connectedCh, closing, watcher, cancelled>>

SetPort ==
    /\ SupGoes("opened", "stored")
    /\ port' = Len(ports)
    /\ UNCHANGED <<controller, ports, connectedCh, closing, watcher, cancelled>>

(* notify: what the channel already holds is replaced. *)
NotifyConnected ==
    /\ SupGoes("stored", "reads")
    /\ connectedCh' = TRUE
    /\ UNCHANGED <<controller, ports, port, closing, watcher, cancelled>>

(* pump has a message in hand.  Run's reader takes it at once, until it    *)
(* returns with runCtx.                                                    *)
Receives ==
    /\ SupGoes("reads", "hands")
    /\ Live(port) /\ cancelled
    /\ UNCHANGED <<controller, ports, port, connectedCh, closing, watcher, cancelled>>

(* Mutant of ClearPort: the port is dropped and not closed. *)
ClearPortOpen(from) ==
    /\ SupGoes(from, "dropped")
    /\ port' = 0
    /\ UNCHANGED <<controller, ports, connectedCh, closing, watcher, cancelled>>

(* pump returns, and clearPort drops and closes the port. *)
ClearPort(from) ==
    /\ SupGoes(from, "dropped")
    /\ port' = 0
    /\ ports' = Closed(port)
    /\ UNCHANGED <<controller, connectedCh, closing, watcher, cancelled>>

ReadFails ==
    /\ ~Live(port) \/ closedFlag
    /\ ClearPort("reads")

(* Mutant of HandingEnds: pump waits for the reader alone. *)
HandingEndsNever == FALSE

HandingEnds ==
    /\ closedFlag
    /\ ClearPort("hands")

(* What watchConnections makes of disconnectedCh is only connStatus. *)
NotifyDisconnected ==
    /\ SupGoes("dropped", "tries")
    /\ ~closedFlag
    /\ UNCHANGED <<controller, ports, port, connectedCh, closing, watcher, cancelled>>

Returns ==
    /\ SupGoes("dropped", "done")
    /\ closedFlag
    /\ UNCHANGED <<controller, ports, port, connectedCh, closing, watcher,
                   cancelled>>

-----------------------------------------------------------------------------
(* Close *)

Close ==
    /\ closer = "no" /\ closer' = "looks"
    /\ closedFlag' = TRUE
    /\ UNCHANGED <<controller, ports, port, sup, connectedCh, held, watcher,
                   cancelled>>

LooksForPort ==
    /\ closer = "looks" /\ closer' = "closes"
    /\ held' = port
    /\ UNCHANGED <<controller, ports, port, sup, connectedCh, closedFlag,
                   watcher, cancelled>>

ClosesPort ==
    /\ closer = "closes" /\ closer' = "awaits"
    /\ ports' = Closed(held)
    /\ held' = 0
    /\ UNCHANGED <<controller, port, sup, connectedCh, closedFlag, watcher,
                   cancelled>>

CloseReturns ==
    /\ closer = "awaits" /\ closer' = "returned"
    /\ sup = "done"
    /\ UNCHANGED <<controller, ports, port, sup, connectedCh, closedFlag, held,
                   watcher, cancelled>>

-----------------------------------------------------------------------------
(* watchConnections *)

(* A connection asks the engine for a repaint, and waits for it. *)
TakesConnected ==
    /\ watcher = "selects" /\ watcher' = "asks"
    /\ connectedCh /\ connectedCh' = FALSE
    /\ UNCHANGED <<controller, ports, port, sup, closing, cancelled>>

WatcherReturns ==
    /\ cancelled
    /\ watcher # "returned" /\ watcher' = "returned"
    /\ UNCHANGED <<controller, ports, port, sup, connectedCh, closing, cancelled>>

Cancel ==
    /\ ~cancelled /\ cancelled' = TRUE
    /\ UNCHANGED <<controller, ports, port, sup, connectedCh, closing, watcher>>

-----------------------------------------------------------------------------
Run == \/ Opens \/ GivesUp \/ SetPort \/ NotifyConnected
       \/ Receives \/ ReadFails \/ HandingEnds \/ NotifyDisconnected \/ Returns

CloseSteps == LooksForPort \/ ClosesPort \/ CloseReturns

Watches == TakesConnected \/ WatcherReturns
=============================================================================
