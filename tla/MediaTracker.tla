---------------------------- MODULE MediaTracker ----------------------------
(***************************************************************************)
(* The media players: the session bus they are on, the backend that        *)
(* follows them (internal/media/mpris.go) and the tracker that says which  *)
(* one is selected (internal/media/tracker.go).                            *)
(*                                                                         *)
(* Players are numbered in the order of their bus names.  Of what a player *)
(* shows there is its PlaybackStatus, and of the rest only that it changes.*)
(* Signals arrive in the order of the bus.  A process that has lost a name *)
(* says no more in it.                                                     *)
(***************************************************************************)
EXTENDS Integers, Sequences

CONSTANTS Players,      \* how many bus names there are
          EventsSize,   \* the capacity of the events channel
          MaxChanges,   \* bound: changes of the players, by anybody
          IgnoreLists,  \* the players an ignore list of the configuration may name
          Fails         \* whether a call to a player may time out

ASSUME MediaTrackerAssumption ==
    /\ Players \in Nat /\ EventsSize \in Nat \ {0} /\ MaxChanges \in Nat
    /\ IgnoreLists \subseteq SUBSET (1 .. Players)
    /\ Fails \in BOOLEAN

VARIABLES bus,          \* who owns a name, and the status it shows
          born,         \* how many owners there have been
          signals,      \* sigCh
          at,           \* where mprisBackend.run is
          listed,       \* names still to be asked of those run has listed
          asked,        \* the name handleAppear asks about, and its owner
          event,        \* what run sends next
          state, owners,        \* mprisBackend's state and owners
          events,       \* the channel to the tracker
          known,        \* the players the tracker has, with their status
          recency,      \* per player, those whose seq is lower
          selected,     \* the player the last Cycle selected
          notifying,    \* consume is between apply and onChange
          changes,      \* counter of the bound
          started,      \* history: the recency there is on the bus
          unasked,      \* history: players a call about which has timed out
          raced         \* history: a call has timed out, or an answer or a Cycle
                        \* has overtaken a signal

backend == <<signals, at, listed, asked, event, state, owners>>
tracker == <<known, recency, selected, notifying>>
history == <<started, unasked, raced>>
mvars == <<bus, born, backend, events, tracker, changes, history>>

Player == 1 .. Players
Owner == 1 .. (Players + MaxChanges)
Nobody == 0
Place == Player \cup {Nobody}
Status == {"playing", "paused", "unknown"}   \* unknown: no answer, so ""
Same == "same"                               \* another property has changed

(* A signal tells of a name's new owner or of an owner's new properties,   *)
(* an event of a player's status or that it has vanished.                  *)
NoOne == [player |-> Nobody, owner |-> Nobody]
NoEvent == [player |-> Nobody, status |-> "vanished"]

(* At the start some may be there, and playing already; those are listed   *)
(* by name.                                                                *)
MediaInit ==
    /\ bus \in [Player -> [owner : {Nobody} \cup Player, status : {"playing", "paused"}]]
    /\ \A p \in Player :
          bus[p].owner = p \/ (bus[p].owner = Nobody /\ bus[p].status = "paused")
    /\ born = Players
    /\ signals = <<>> /\ at = "lists" /\ listed = {} /\ asked = NoOne /\ event = NoEvent
    /\ state = [p \in Player |-> "vanished"]
    /\ owners = [o \in Owner |-> Nobody]
    /\ events = <<>>
    /\ known = [p \in Player |-> "vanished"]
    /\ recency = [p \in Player |-> {}] /\ selected = Nobody /\ notifying = FALSE
    /\ changes = 0
    /\ started = [p \in Player |->
                     IF bus[p].status = "playing"
                     THEN {q \in Place \ {p} : q < p \/ bus[q].status # "playing"}
                     ELSE {}]
    /\ unasked = {} /\ raced = FALSE

-----------------------------------------------------------------------------
(* The players *)

Present(p) == bus[p].owner # Nobody

Changed == changes < MaxChanges /\ changes' = changes + 1

(* A player is given the highest seq, or none.  Nobody stands for seq 0,   *)
(* which a player has that is not there or has not been active.            *)
Activated(rank, p) ==
    [q \in Player |-> IF q = p THEN Place \ {p} ELSE rank[q] \ {p}]
Removed(rank, p) ==
    [q \in Player |-> IF q = p \/ Nobody \notin rank[q] THEN {} ELSE rank[q] \cup {p}]

Sent(signal) == signals' = Append(signals, signal)

(* The process that has the name now, from what it was before. *)
Owns(p, status) ==
    /\ Changed
    /\ born' = born + 1
    /\ bus' = [bus EXCEPT ![p] = [owner |-> born + 1, status |-> status]]
    /\ Sent([kind |-> "owner", player |-> p, owner |-> born + 1])
    /\ started' = IF status = "playing" /\ bus[p].status # "playing"
                  THEN Activated(started, p) ELSE started
    /\ UNCHANGED <<at, listed, asked, event, state, owners, events, tracker, unasked, raced>>

Appears(p, status) == ~Present(p) /\ Owns(p, status)

(* Another process takes the name over. *)
TakesOver(p, status) == Present(p) /\ Owns(p, status)

Vanishes(p) ==
    /\ Changed
    /\ Present(p)
    /\ bus' = [bus EXCEPT ![p] = [owner |-> Nobody, status |-> "paused"]]
    /\ Sent([kind |-> "owner", player |-> p, owner |-> Nobody])
    /\ started' = Removed(started, p)
    /\ unasked' = unasked \ {p}
    /\ UNCHANGED <<born, at, listed, asked, event, state, owners, events, tracker, raced>>

(* PropertiesChanged, whoever made it play or pause. *)
Shows(p, status) ==
    /\ Changed
    /\ Present(p)
    /\ bus' = [bus EXCEPT ![p].status = IF status = Same THEN @ ELSE status]
    /\ Sent([kind |-> "props", owner |-> bus[p].owner, status |-> status])
    /\ started' = IF status = "playing" THEN Activated(started, p) ELSE started
    /\ UNCHANGED <<born, at, listed, asked, event, state, owners, events, tracker,
                   unasked, raced>>

PlaysOrPauses(p) == Shows(p, IF bus[p].status = "playing" THEN "paused" ELSE "playing")

-----------------------------------------------------------------------------
(* mprisBackend.run, which has asked for the signals before *)

Lists ==
    /\ at = "lists" /\ at' = "takes"
    /\ listed' = {p \in Player : Present(p)}
    /\ UNCHANGED <<bus, born, signals, asked, event, state, owners, events, tracker,
                   changes, history>>

AsksAbout(p) == at' = "asks owner" /\ asked' = [player |-> p, owner |-> Nobody]

(* The names are sorted. *)
AsksNext ==
    /\ at = "takes"
    /\ \E p \in listed :
          /\ \A q \in listed : p <= q
          /\ listed' = listed \ {p}
          /\ AsksAbout(p)
    /\ UNCHANGED <<bus, born, signals, event, state, owners, events, tracker, changes, history>>

(* handleSignal takes the next one. *)
TakesSignal(kind) ==
    /\ at = "takes" /\ listed = {}
    /\ signals # <<>> /\ Head(signals).kind = kind
    /\ signals' = Tail(signals)
    /\ UNCHANGED <<bus, born, listed, events, tracker, changes, history>>

HandlesOwner ==
    /\ TakesSignal("owner")
    /\ Head(signals).owner # Nobody
    /\ AsksAbout(Head(signals).player)
    /\ UNCHANGED <<event, state, owners>>

Sends(p, status) == at' = "sends" /\ event' = [player |-> p, status |-> status]

HandlesVanish ==
    /\ TakesSignal("owner")
    /\ Head(signals).owner = Nobody
    /\ LET p == Head(signals).player
       IN  /\ state' = [state EXCEPT ![p] = "vanished"]
           /\ owners' = [o \in Owner |-> IF owners[o] = p THEN Nobody ELSE owners[o]]
           /\ Sends(p, "vanished")
    /\ UNCHANGED asked

(* Mutant of Merged: a change is taken for all there is to know. *)
MergedNever(p, status) == IF status = Same THEN "unknown" ELSE status

(* What has not changed is as it was. *)
Merged(p, status) ==
    CASE status # Same -> status
      [] status = Same /\ state[p] = "vanished" -> "unknown"
      [] OTHER -> state[p]

HandlesProps ==
    /\ TakesSignal("props")
    /\ LET p == owners[Head(signals).owner]
       IN  IF p = Nobody
           THEN UNCHANGED <<at, event, state>>
           ELSE /\ state' = [state EXCEPT ![p] = Merged(p, Head(signals).status)]
                /\ Sends(p, state'[p])
    /\ UNCHANGED <<asked, owners>>

(* GetNameOwner *)
OwnerAnswers ==
    /\ at = "asks owner" /\ at' = "asks properties"
    /\ Present(asked.player)
    /\ asked' = [asked EXCEPT !.owner = bus[asked.player].owner]
    /\ UNCHANGED <<bus, born, signals, listed, event, state, owners, events, tracker,
                   changes, history>>

OwnerUnanswered ==
    /\ at = "asks owner" /\ at' = "takes"
    /\ ~Present(asked.player) \/ Fails
    /\ asked' = NoOne
    /\ unasked' = IF Present(asked.player) THEN unasked \cup {asked.player} ELSE unasked
    /\ raced' = (raced \/ Present(asked.player))
    /\ UNCHANGED <<bus, born, signals, listed, event, state, owners, events, tracker,
                   changes, started>>

Appeared(status) ==
    /\ asked' = NoOne
    /\ owners' = [owners EXCEPT ![asked.owner] = asked.player]
    /\ state' = [state EXCEPT ![asked.player] = status]
    /\ Sends(asked.player, status)
    /\ UNCHANGED <<bus, born, signals, listed, events, tracker, changes, started>>

(* A signal of the player's, or about its name, still on its way. *)
Pending(p) ==
    \E i \in DOMAIN signals :
        IF signals[i].kind = "owner" THEN signals[i].player = p
                                     ELSE signals[i].owner = bus[p].owner

(* GetAll is answered by whoever has the name by now. *)
PropertiesAnswer ==
    /\ at = "asks properties"
    /\ Present(asked.player)
    /\ Appeared(bus[asked.player].status)
    /\ unasked' = unasked \ {asked.player}
    /\ raced' = (raced \/ Pending(asked.player))

PropertiesUnanswered ==
    /\ at = "asks properties"
    /\ ~Present(asked.player) \/ Fails
    /\ Appeared("unknown")
    /\ unasked' = IF Present(asked.player) THEN unasked \cup {asked.player} ELSE unasked
    /\ raced' = (raced \/ Present(asked.player))

Sending ==
    /\ at = "sends" /\ at' = "takes"
    /\ Len(events) < EventsSize
    /\ events' = Append(events, event)
    /\ event' = NoEvent
    /\ UNCHANGED <<bus, born, signals, listed, asked, state, owners, tracker, changes, history>>

Backend ==
    \/ Lists \/ AsksNext \/ HandlesOwner \/ HandlesVanish \/ HandlesProps
    \/ OwnerAnswers \/ OwnerUnanswered \/ PropertiesAnswer \/ PropertiesUnanswered
    \/ Sending

-----------------------------------------------------------------------------
(* The tracker: consume, and what the handlers ask it *)

(* Mutant of Starts: every change of a playing player counts. *)
StartsAlways(p, status) == status = "playing"

Starts(p, status) == status = "playing" /\ known[p] # "playing"

SelectedAfter(p, status) ==
    IF status = "vanished" /\ selected = p THEN Nobody ELSE selected

Applies ==
    /\ events # <<>> /\ ~notifying
    /\ events' = Tail(events)
    /\ notifying' = TRUE
    /\ LET p == Head(events).player
           status == Head(events).status
       IN  /\ known' = [known EXCEPT ![p] = status]
           /\ recency' = CASE status = "vanished" -> Removed(recency, p)
                           [] Starts(p, status) -> Activated(recency, p)
                           [] OTHER -> recency
           /\ selected' = SelectedAfter(p, status)
    /\ UNCHANGED <<bus, born, backend, changes, history>>

(* Between apply and the end of onChange. *)
Notifies ==
    /\ notifying /\ notifying' = FALSE
    /\ UNCHANGED <<bus, born, backend, events, known, recency, selected, changes, history>>

Visible(ignored) == {p \in Player \ ignored : known[p] # "vanished"}

(* The most recently active first, then by name. *)
Ahead(p, q) == q \in recency[p] \/ (p \notin recency[q] /\ p < q)

IsFirst(p, players) == p \in players /\ \A q \in players \ {p} : Ahead(p, q)

(* Resolve of a ref, which fits the players in named; Selected for the     *)
(* empty ref.                                                              *)
Resolves(p, named, ignored) ==
    IsFirst(p, {q \in Visible(ignored) : named = {} \/ q \in named})

(* The player after the one the last Cycle has selected, if it is visible  *)
(* still, or after the first; after the last comes the first.              *)
NextInCycle(p, visible) ==
    LET current(c) == IF selected \in visible THEN c = selected ELSE IsFirst(c, visible)
        after(c) == {q \in visible \ {c} : Ahead(c, q)}
    IN  \E c \in visible :
            /\ current(c)
            /\ IsFirst(p, IF after(c) # {} THEN after(c) ELSE visible)

(* Nothing on its way from the bus to the tracker. *)
Settled ==
    /\ at = "takes" /\ listed = {} /\ signals = <<>> /\ events = <<>>

(* executeTargetCycle.  The tracker's onChange is not called. *)
Cycles(ignored) ==
    /\ Changed
    /\ \E p \in Player :
          /\ NextInCycle(p, Visible(ignored))
          /\ selected' = p
          /\ recency' = Activated(recency, p)
          /\ started' = Activated(started, p)
    /\ raced' = (raced \/ ~Settled)
    /\ UNCHANGED <<bus, born, backend, events, known, notifying, unasked>>

(* executeTransport: play/pause, or another property set; sent without     *)
(* waiting for a reply, and lost if the player is gone.                    *)
Transports(named, ignored) ==
    \E p \in Player :
        /\ Resolves(p, named, ignored)
        /\ PlaysOrPauses(p) \/ Shows(p, Same)

-----------------------------------------------------------------------------
PlayersAct ==
    \E p \in Player :
        \/ \E status \in {"playing", "paused"} : Appears(p, status) \/ TakesOver(p, status)
        \/ Vanishes(p)
        \/ PlaysOrPauses(p)
        \/ Shows(p, Same)

Tracks == Applies \/ Notifies

Handlers ==
    \E ignored \in IgnoreLists :
        \/ Cycles(ignored)
        \/ \E named \in {{}} \cup {{p} : p \in Player} : Transports(named, ignored)

MediaNext == PlayersAct \/ Backend \/ Tracks \/ Handlers

MediaSpec == MediaInit /\ [][MediaNext]_mvars

-----------------------------------------------------------------------------
(* Properties *)

(* When nothing is on its way, what the tracker says of the players is     *)
(* what the bus says, however the discovery and the signals overlapped,    *)
(* but for players a call about which has timed out.                       *)
KnowsThePlayers ==
    Settled =>
        \A p \in Player \ unasked :
            known[p] = IF Present(p) THEN bus[p].status ELSE "vanished"

(* "The selected player is whichever last either started Playing or was    *)
(* explicitly chosen via Cycle", and when it vanishes "the most recently   *)
(* active remaining one takes over": but for calls that timed out, answers *)
(* that were ahead of the signals and a Cycle ahead of them.               *)
MostRecentWins ==
    Settled /\ ~raced => recency = started
=============================================================================
