----------------------------- MODULE Hub_proofs -----------------------------
(***************************************************************************)
(* What holds of the event hub for any set of clients, depth of their      *)
(* queues and bounds.                                                      *)
(***************************************************************************)
EXTENDS Hub, SequenceTheorems, TLAPS

(* What may have been read of the three providers. *)
State == {s \in Seq(Nat) : Len(s) <= 3}

Box == [at : {"away", "builds", "streams"}, view : State, state : State,
        events : Seq(Nat), closed : BOOLEAN]

HubTyped ==
    /\ value \in [Source -> Nat]
    /\ view \in State
    /\ stream \in [Client -> Box]
    /\ broadcasts \in Nat
    /\ told \in [Client -> Nat]

(* The events after the k-th, up to the n-th. *)
After(k, n) == [i \in 1 .. n - k |-> k + i]

(* What a stream that is not closed owes its client. *)
Owes(box, last) ==
    box.closed \/ (last <= broadcasts /\ box.events = After(last, broadcasts))

HubInv ==
    /\ HubTyped
    /\ \A c \in Client : IF stream[c].at = "away" THEN stream[c] = Away
                         ELSE Owes(stream[c], told[c])

-----------------------------------------------------------------------------
(* Sequences of events *)

LEMMA NothingAfter ==
    ASSUME NEW n \in Nat
    PROVE  After(n, n) = <<>>
  BY DEF After

LEMMA OneMoreAfter ==
    ASSUME NEW k \in Nat, NEW n \in Nat, k <= n
    PROVE  Append(After(k, n), n + 1) = After(k, n + 1)
  <1>1. Len(After(k, n)) = n - k /\ After(k, n) \in Seq(Nat)
    BY DEF After
  <1> QED
    BY <1>1 DEF After

LEMMA NextAfter ==
    ASSUME NEW k \in Nat, NEW n \in Nat, k <= n, After(k, n) # <<>>
    PROVE  /\ k + 1 <= n /\ Head(After(k, n)) = k + 1
           /\ Tail(After(k, n)) = After(k + 1, n)
  <1>1. Len(After(k, n)) = n - k /\ After(k, n) \in Seq(Nat)
    BY DEF After
  <1>2. n - k # 0
    BY <1>1
  <1>3. k + 1 <= n /\ Head(After(k, n)) = k + 1
    BY <1>1, <1>2 DEF After
  <1>4. /\ Tail(After(k, n)) \in Seq(Nat) /\ Len(Tail(After(k, n))) = (n - k) - 1
        /\ \A i \in 1 .. (n - k) - 1 : Tail(After(k, n))[i] = After(k, n)[i + 1]
    BY <1>1, HeadTailProperties
  <1>5. \A i \in 1 .. (n - k) - 1 : After(k, n)[i + 1] = (k + 1) + i
    BY DEF After
  <1>6. /\ After(k + 1, n) \in Seq(Nat) /\ Len(After(k + 1, n)) = (n - k) - 1
        /\ \A i \in 1 .. (n - k) - 1 : After(k + 1, n)[i] = (k + 1) + i
    BY <1>3 DEF After
  <1>7. Tail(After(k, n)) = After(k + 1, n)
    BY <1>4, <1>5, <1>6, SeqEqual
  <1> QED
    BY <1>3, <1>7

-----------------------------------------------------------------------------
(* The steps *)

LEMMA AwayTyped == Away \in Box /\ Away.at = "away"
  BY DEF Away, Box, NoState, State

(* Nothing the clients or their mailboxes see. *)
LEMMA KeepsStreams ==
    ASSUME HubInv, value' \in [Source -> Nat], view' \in State,
           UNCHANGED <<stream, broadcasts, told>>
    PROVE  HubInv'
  BY DEF HubInv, HubTyped, Owes

(* One client's handler moves on. *)
LEMMA MovesStream ==
    ASSUME HubInv, NEW c \in Client, NEW box \in Box,
           stream' = [stream EXCEPT ![c] = box],
           value' = value, view' = view, broadcasts' = broadcasts,
           told' \in [Client -> Nat], \A d \in Client \ {c} : told'[d] = told[d],
           IF box.at = "away" THEN box = Away ELSE Owes(box, told'[c])
    PROVE  HubInv'
  <1>1. HubTyped'
    BY DEF HubInv, HubTyped
  <1>2. \A d \in Client : stream'[d] = IF d = c THEN box ELSE stream[d]
    BY DEF HubInv, HubTyped
  <1> QED
    BY <1>1, <1>2 DEF HubInv, Owes

LEMMA BroadcastKeeps ==
    ASSUME HubInv, Broadcast, value' \in [Source -> Nat], view' = view, told' = told
    PROVE  HubInv'
  <1>1. /\ stream \in [Client -> Box] /\ broadcasts \in Nat /\ told \in [Client -> Nat]
        /\ view \in State
    BY DEF HubInv, HubTyped
  <1>2. broadcasts' = broadcasts + 1
        /\ stream' = [c \in Client |-> IF c \in Subscribed THEN SentEvent(stream[c])
                                       ELSE stream[c]]
    BY DEF Broadcast
  <1>3. ASSUME NEW c \in Client
        PROVE  /\ stream'[c] \in Box
               /\ IF stream'[c].at = "away" THEN stream'[c] = Away
                  ELSE Owes(stream[c], told[c])'
    <2> DEFINE box == stream[c]
    <2>1. box \in Box /\ Len(box.events) \in Nat
      BY <1>1 DEF Box
    <2>2. CASE c \notin Subscribed
      BY <2>1, <2>2, <1>2 DEF Subscribed, HubInv
    <2>3. CASE c \in Subscribed /\ Len(box.events) < QueueDepth
      <3> DEFINE new == [box EXCEPT !.events = Append(@, broadcasts + 1)]
      <3>1. stream'[c] = new /\ box.at # "away"
        BY <2>3, <1>2 DEF SentEvent, Subscribed
      <3>2. /\ new \in Box /\ new.at = box.at /\ new.closed = box.closed
            /\ new.events = Append(box.events, broadcasts + 1)
        <4>1. Append(box.events, broadcasts + 1) \in Seq(Nat)
          BY <1>1, <2>1 DEF Box
        <4> QED
          BY <4>1, <2>1 DEF Box
      <3>3. Owes(box, told[c])
        BY <3>1 DEF HubInv
      <3>4. CASE box.closed
        BY <3>1, <3>2, <3>4 DEF Owes
      <3>5. CASE ~box.closed
        <4>1. told[c] <= broadcasts /\ box.events = After(told[c], broadcasts)
          BY <3>3, <3>5 DEF Owes
        <4>2. new.events = After(told[c], broadcasts + 1)
          BY <4>1, <3>2, <1>1, OneMoreAfter
        <4> QED
          BY <4>1, <4>2, <3>1, <3>2, <1>1, <1>2 DEF Owes
      <3> QED
        BY <3>4, <3>5
    <2>4. CASE c \in Subscribed /\ ~(Len(box.events) < QueueDepth)
      <3>1. stream'[c] = [box EXCEPT !.closed = TRUE] /\ box.at # "away"
        BY <2>4, <1>2 DEF SentEvent, Subscribed
      <3> QED
        BY <3>1, <2>1 DEF Box, Owes
    <2> QED
      BY <2>2, <2>3, <2>4
  <1>4. stream' \in [Client -> Box]
    BY <1>2, <1>3
  <1> QED
    BY <1>1, <1>2, <1>3, <1>4 DEF HubInv, HubTyped

LEMMA ReadsState ==
    ASSUME HubInv, NEW v \in State, ~Complete(v)
    PROVE  Reads(v) \in State
  <1>1. Len(v) + 1 \in Source /\ value \in [Source -> Nat]
    <2>1. v \in Seq(Nat) /\ Len(v) <= 3 /\ Len(v) # 3
      BY DEF State, Complete
    <2>2. Len(v) \in Nat
      BY <2>1
    <2> QED
      BY <2>1, <2>2 DEF Source, Engine, Config, Media, HubInv, HubTyped
  <1>2. value[Len(v) + 1] \in Nat
    BY <1>1
  <1>3. Append(v, value[Len(v) + 1]) \in Seq(Nat) /\ Len(Append(v, value[Len(v) + 1])) <= 3
    BY <1>1, <1>2, AppendProperties DEF State, Source, Engine, Config, Media
  <1> QED
    BY <1>3 DEF Reads, State

LEMMA ProvidesKeeps ==
    ASSUME HubInv, Provides
    PROVE  HubInv'
  <1>1. value \in [Source -> Nat] /\ view \in State
    BY DEF HubInv, HubTyped
  <1>2. \A s \in Source : Bumps(s) => value' \in [Source -> Nat]
    BY <1>1 DEF Bumps
  <1>3. Engine \in Source /\ Config \in Source /\ Media \in Source
    BY DEF Source
  <1>4. CASE EngineChanges \/ OtherChanges \/ OtherNotifies \/ OtherChangesSilently
    <2>1. value' \in [Source -> Nat] /\ view' = view /\ UNCHANGED <<stream, broadcasts, told>>
      BY <1>1, <1>2, <1>3, <1>4 DEF EngineChanges, OtherChanges, OtherNotifies,
             OtherChangesSilently, run, written
    <2> QED
      BY <1>1, <2>1, KeepsStreams
  <1>5. CASE LearnCaptures
    BY <1>2, <1>3, <1>5, BroadcastKeeps DEF LearnCaptures, run, written
  <1>6. CASE Announces
    BY <1>1, <1>6, BroadcastKeeps DEF Announces, SetConfig, run, written
  <1>7. CASE Locks \/ EngineTakes("offers", "saves") \/ EngineTakes("rolls", "idle")
             \/ Commits \/ SaveFails \/ GivesUp
    <2>1. value' \in [Source -> Nat] /\ view' = view /\ UNCHANGED <<stream, broadcasts, told>>
      BY <1>1, <1>2, <1>3, <1>7 DEF Locks, EngineTakes, Commits, SaveFails, GivesUp, SetConfig,
             run, written
    <2> QED
      BY <1>1, <2>1, KeepsStreams
  <1> QED
    BY <1>4, <1>5, <1>6, <1>7 DEF Provides, Sets

LEMMA RunKeeps ==
    ASSUME HubInv, Run
    PROVE  HubInv'
  <1>1. /\ value \in [Source -> Nat] /\ view \in State /\ stream \in [Client -> Box]
        /\ broadcasts \in Nat /\ told \in [Client -> Nat] /\ NoState \in State
    BY DEF HubInv, HubTyped, NoState, State
  <1>2. value' = value /\ broadcasts' = broadcasts /\ told' = told
    BY DEF Run, IgnoresDirty, PublishesNow, ArmsTimer, TakesDirty, TimerFires, ReadsNext,
           Publishes, Ends, Steps, daemon, written
  <1>3. CASE IgnoresDirty \/ PublishesNow \/ ArmsTimer \/ TimerFires
    <2>1. view' \in {view, NoState} /\ stream' = stream
      BY <1>3 DEF IgnoresDirty, PublishesNow, ArmsTimer, TakesDirty, TimerFires, Builds
    <2> QED
      BY <1>1, <1>2, <2>1, KeepsStreams
  <1>4. CASE ReadsNext
    <2>1. view' \in State /\ stream' = stream
      BY <1>1, <1>4, ReadsState DEF ReadsNext
    <2> QED
      BY <1>1, <1>2, <2>1, KeepsStreams
  <1>5. CASE Publishes \/ Ends
    <2>1. view' = NoState
      BY <1>5 DEF Publishes, Ends
    <2>2. ASSUME NEW c \in Client
          PROVE  /\ stream'[c] \in Box
                 /\ IF stream'[c].at = "away" THEN stream'[c] = Away
                    ELSE Owes(stream[c], told[c])'
      <3> DEFINE box == stream[c]
      <3>1. box \in Box /\ (IF box.at = "away" THEN box = Away ELSE Owes(box, told[c]))
        BY <1>1 DEF HubInv
      <3>2. CASE Publishes
        <4>1. stream'[c] = IF c \in Subscribed THEN [box EXCEPT !.state = view] ELSE box
          BY <3>2 DEF Publishes, SentState
        <4> QED
          BY <1>1, <1>2, <3>1, <4>1 DEF Box, Owes, Subscribed
      <3>3. CASE Ends
        <4>1. stream'[c] = [box EXCEPT !.closed = c \in Subscribed]
          BY <3>3 DEF Ends
        <4>2. CASE c \in Subscribed
          BY <3>1, <4>1, <4>2 DEF Box, Owes, Subscribed
        <4>3. CASE c \notin Subscribed
          <5>1. box = Away
            BY <3>1, <4>3 DEF Subscribed
          <5>2. (c \in Subscribed) = FALSE
            BY <4>3
          <5>3. stream'[c] = [box EXCEPT !.closed = FALSE]
            BY <4>1, <5>2, Zenon
          <5>4. box.closed = FALSE
            BY <5>1 DEF Away
          <5>5. [box EXCEPT !.closed = FALSE] = box
            BY <3>1, <5>4 DEF Box
          <5>6. stream'[c] = Away
            BY <5>1, <5>3, <5>5
          <5> QED
            BY <5>6, AwayTyped
        <4> QED
          BY <4>2, <4>3
      <3> QED
        BY <1>5, <3>2, <3>3
    <2>3. stream' \in [Client -> Box]
      BY <1>5, <2>2 DEF Publishes, Ends
    <2> QED
      BY <1>1, <1>2, <2>1, <2>2, <2>3 DEF HubInv, HubTyped
  <1> QED
    BY <1>3, <1>4, <1>5 DEF Run

LEMMA ClientKeeps ==
    ASSUME HubInv, NEW c \in Client, Connects(c) \/ Serves(c) \/ Disconnects(c)
    PROVE  HubInv'
  <1> DEFINE box == stream[c]
  <1>1. /\ stream \in [Client -> Box] /\ box \in Box /\ view \in State
        /\ broadcasts \in Nat /\ told \in [Client -> Nat] /\ NoState \in State
        /\ IF box.at = "away" THEN box = Away ELSE Owes(box, told[c])
    BY DEF HubInv, HubTyped, NoState, State
  <1>2. value' = value /\ view' = view /\ broadcasts' = broadcasts
    BY DEF Connects, Serves, Disconnects, BuildsNext, WritesFirst, WritesState, WritesEvent,
           IsClosed, FirstFails, Leaves, Handles, daemon, run
  <1>3. CASE Connects(c)
    <2> DEFINE new == [box EXCEPT !.at = "builds"]
    <2>1. stream' = [stream EXCEPT ![c] = new] /\ told' = [told EXCEPT ![c] = broadcasts]
          /\ box = Away
      BY <1>1, <1>3 DEF Connects
    <2>2. new \in Box /\ new.at = "builds" /\ new.events = box.events
      BY <1>1 DEF Box
    <2>3. box.events = After(broadcasts, broadcasts)
      <3>1. box.events = <<>>
        BY <2>1 DEF Away
      <3> QED
        BY <1>1, <3>1, NothingAfter
    <2> HIDE DEF new, box
    <2>4. Owes(new, told'[c]) /\ told' \in [Client -> Nat]
          /\ \A d \in Client \ {c} : told'[d] = told[d]
      BY <1>1, <2>1, <2>2, <2>3 DEF Owes
    <2> QED
      BY <1>1, <1>2, <2>1, <2>2, <2>4, MovesStream
  <1>4. CASE BuildsNext(c) \/ WritesFirst(c) \/ WritesState(c)
    <2>1. PICK new \in Box : /\ stream' = [stream EXCEPT ![c] = new]
                             /\ new.at # "away" /\ box.at # "away"
                             /\ new.closed = box.closed /\ new.events = box.events
      <3>1. CASE BuildsNext(c)
        <4> DEFINE new == [box EXCEPT !.view = Reads(@)]
        <4>1. Reads(box.view) \in State
          BY <1>1, <3>1, ReadsState DEF BuildsNext, Box
        <4>2. new \in Box /\ new.at = box.at /\ new.closed = box.closed
              /\ new.events = box.events
          BY <1>1, <4>1 DEF Box
        <4>3. stream' = [stream EXCEPT ![c] = new] /\ box.at # "away"
          BY <1>1, <3>1 DEF BuildsNext
        <4> QED
          BY <4>2, <4>3
      <3>2. CASE WritesFirst(c)
        <4> DEFINE new == [box EXCEPT !.at = "streams", !.view = NoState]
        <4>1. new \in Box /\ new.at = "streams" /\ new.closed = box.closed
              /\ new.events = box.events
          BY <1>1 DEF Box
        <4>2. stream' = [stream EXCEPT ![c] = new] /\ box.at # "away"
          BY <1>1, <3>2 DEF WritesFirst
        <4> QED
          BY <4>1, <4>2
      <3>3. CASE WritesState(c)
        <4> DEFINE new == [box EXCEPT !.state = NoState]
        <4>1. new \in Box /\ new.at = box.at /\ new.closed = box.closed
              /\ new.events = box.events
          BY <1>1 DEF Box
        <4>2. stream' = [stream EXCEPT ![c] = new] /\ box.at # "away"
          BY <1>1, <3>3 DEF WritesState
        <4> QED
          BY <4>1, <4>2
      <3> QED
        BY <1>4, <3>1, <3>2, <3>3
    <2>2. told' = told
      BY <1>4 DEF BuildsNext, WritesFirst, WritesState, written
    <2>3. Owes(new, told[c])
      BY <1>1, <2>1 DEF Owes
    <2> QED
      BY <1>1, <1>2, <2>1, <2>2, <2>3, MovesStream DEF Owes
  <1>5. CASE WritesEvent(c)
    <2> DEFINE new == [box EXCEPT !.events = Tail(@)]
    <2>1. /\ stream' = [stream EXCEPT ![c] = new] /\ told' = [told EXCEPT ![c] = Head(box.events)]
          /\ box.at # "away" /\ box.events # <<>> /\ box.events \in Seq(Nat)
      BY <1>1, <1>5 DEF WritesEvent, Box
    <2>2. Head(box.events) \in Nat /\ Tail(box.events) \in Seq(Nat)
      BY <2>1, HeadTailProperties
    <2>3. /\ new \in Box /\ new.at = box.at /\ new.closed = box.closed
          /\ new.events = Tail(box.events)
      BY <1>1, <2>2 DEF Box
    <2> HIDE DEF new
    <2>4. Owes(new, Head(box.events))
      <3>1. CASE box.closed
        BY <2>3, <3>1 DEF Owes
      <3>2. CASE ~box.closed
        <4>1. told[c] <= broadcasts /\ box.events = After(told[c], broadcasts)
              /\ told[c] \in Nat
          BY <1>1, <2>1, <3>2 DEF Owes
        <4>2. /\ told[c] + 1 <= broadcasts /\ Head(box.events) = told[c] + 1
              /\ Tail(box.events) = After(told[c] + 1, broadcasts)
          BY <4>1, <1>1, <2>1, NextAfter
        <4> QED
          BY <4>2, <2>3 DEF Owes
      <3> QED
        BY <3>1, <3>2
    <2> QED
      BY <1>1, <1>2, <2>1, <2>2, <2>3, <2>4, MovesStream DEF Owes
  <1>6. CASE IsClosed(c) \/ FirstFails(c) \/ Disconnects(c)
    <2>1. stream' = [stream EXCEPT ![c] = Away] /\ told' = told
      BY <1>6 DEF IsClosed, FirstFails, Disconnects, Leaves, written
    <2> QED
      BY <1>1, <1>2, <2>1, AwayTyped, MovesStream
  <1> QED
    BY <1>3, <1>4, <1>5, <1>6 DEF Serves

LEMMA InitHub == Init => HubInv
  <1> SUFFICES ASSUME Init PROVE HubInv
    OBVIOUS
  <1>1. /\ value = [s \in Source |-> 0] /\ view = NoState /\ broadcasts = 0
        /\ stream = [c \in Client |-> Away] /\ told = [c \in Client |-> 0]
    BY DEF Init
  <1>2. NoState \in State
    BY DEF NoState, State
  <1> QED
    BY <1>1, <1>2, AwayTyped DEF HubInv, HubTyped

LEMMA NextHub == HubInv /\ [Next]_vars => HubInv'
  <1> SUFFICES ASSUME HubInv, [Next]_vars PROVE HubInv'
    OBVIOUS
  <1>1. value \in [Source -> Nat] /\ view \in State
    BY DEF HubInv, HubTyped
  <1>2. CASE UNCHANGED vars \/ IntervalEnds \/ Stops
    BY <1>1, <1>2, KeepsStreams DEF vars, IntervalEnds, Stops, daemon, run, written
  <1>3. CASE Provides \/ Run
    BY <1>3, ProvidesKeeps, RunKeeps
  <1>4. CASE \E c \in Client : Connects(c) \/ Serves(c) \/ Disconnects(c)
    BY <1>4, ClientKeeps
  <1> QED
    BY <1>2, <1>3, <1>4 DEF Next

(* However many clients there are and however deep their queues, a stream  *)
(* that is not closed has been told of, or holds, every event since it     *)
(* subscribed, in order (Hub.Broadcast and sendEvent, hub.go; handleEvents,*)
(* stream_sse.go).                                                         *)
THEOREM StreamsLoseNothing == Spec => []NoEventDropped
  <1>1. HubInv => NoEventDropped
    BY DEF HubInv, NoEventDropped, Owes, After, Subscribed
  <1> QED
    BY InitHub, NextHub, <1>1, PTL DEF Spec
=============================================================================
