------------------------------- MODULE Dispatch -------------------------------
(***************************************************************************)
(* The work queue of internal/engine/dispatch.go between Run, which never  *)
(* blocks on it, and the one goroutine that talks to the audio backend.    *)
(* That goroutine receives an item, drains whatever else is queued,        *)
(* coalesces what it got and executes it item by item.  Requests to the    *)
(* backend do not fail here; what a resync does is module AudioGraph.      *)
(***************************************************************************)
EXTENDS Integers, SequencesExt

CONSTANTS Ref,          \* the streams
          Invocations,  \* what the run loop may enqueue
          QueueDepth,   \* dispatchQueueDepth (64)
          MaxEnqueued   \* bound: items the run loop enqueues

VARIABLES queue,     \* dispatchCh
          drained,   \* drain's batch while it is receiving
          batch,     \* what is left of the coalesced batch
          position,  \* the levels the executed invocations have made
          enqueued   \* how many items Run has enqueued

dispatchVars == <<queue, drained, batch, position, enqueued>>

A == INSTANCE OneByOne

ASSUME DispatchAssumption ==
    /\ Invocations \subseteq A!Invocation
    /\ QueueDepth \in Nat \ {0}
    /\ MaxEnqueued \in Nat

Resync == [type |-> "resync", control |-> "", refs |-> <<>>, step |-> 0, amount |-> 0]
Refresh == [Resync EXCEPT !.type = "refresh"]

Work == A!Invocation \cup {Resync, Refresh}

DispatchInit ==
    /\ queue = <<Resync>>
    /\ drained = <<>>
    /\ batch = <<>>
    /\ position = [r \in Ref |-> 0]
    /\ enqueued = 0

-----------------------------------------------------------------------------
(* Run's end *)

(* Mutant of Queued: the queue has no limit. *)
QueuedAlways(w) == Append(queue, w)

(* enqueueDispatch: a full queue drops the item. *)
Queued(w) == IF Len(queue) < QueueDepth THEN Append(queue, w) ELSE queue

(* A gesture's invocation, or what module AudioGraph says in detail. *)
Enqueue(w) ==
    /\ enqueued < MaxEnqueued
    /\ enqueued' = enqueued + 1
    /\ queue' = Queued(w)
    /\ UNCHANGED <<drained, batch, position>>

-----------------------------------------------------------------------------
(* The dispatcher goroutine *)

(* Mutant of Mergeable: items are merged whatever they act on. *)
MergeableAcross(v, w) ==
    v.type = w.type /\ v.type \in {"adjust", "follow"} /\ v.control = w.control

Mergeable(v, w) ==
    /\ v.type = w.type
    /\ v.type \in {"adjust", "follow"}
    /\ v.control = w.control
    /\ v.refs = w.refs

(* The sum of the turns, or the last position of the fader. *)
Merge(v, w) ==
    [v EXCEPT !.amount = IF v.type = "adjust" THEN @ + w.amount ELSE w.amount]

Coalesced(items) ==
    LET Add(done, w) == IF done # <<>> /\ Mergeable(Last(done), w)
                        THEN Append(Front(done), Merge(Last(done), w))
                        ELSE Append(done, w)
    IN  FoldLeft(Add, <<>>, items)

(* The first receive, which waits, or one of drain's. *)
Receive ==
    /\ batch = <<>>
    /\ queue # <<>>
    /\ drained' = Append(drained, Head(queue))
    /\ queue' = Tail(queue)
    /\ UNCHANGED <<batch, position, enqueued>>

(* drain found nothing more. *)
Drained ==
    /\ batch = <<>>
    /\ queue = <<>>
    /\ drained # <<>>
    /\ batch' = Coalesced(drained)
    /\ drained' = <<>>
    /\ UNCHANGED <<queue, position, enqueued>>

(* executeWork is done with an item; a resync or a refresh sets no level. *)
Executed ==
    /\ batch # <<>>
    /\ batch' = Tail(batch)
    /\ position' = IF Head(batch).type \in {"resync", "refresh"} THEN position
                   ELSE A!Effect(position, Head(batch))
    /\ UNCHANGED <<queue, drained, enqueued>>

DispatchNext ==
    \/ \E w \in Invocations \cup {Resync, Refresh} : Enqueue(w)
    \/ Receive
    \/ Drained
    \/ Executed

DispatchSpec == DispatchInit /\ [][DispatchNext]_dispatchVars

-----------------------------------------------------------------------------
(* Properties *)

(* Nothing but work of its type is queued, and no more than fits.          *)
DispatchTypeOK ==
    /\ queue \in Seq(Work) /\ Len(queue) <= QueueDepth
    /\ drained \in Seq(Work)
    /\ batch \in Seq(Work)
    /\ position \in [Ref -> Int]
    /\ enqueued \in 0..MaxEnqueued

(* dispatch.go, coalesce: executing a coalesced batch is what executing    *)
(* its items one by one would have been, for turns and fader moves of      *)
(* several controls on targets that overlap.  The levels as they will be   *)
(* once all that is queued was executed change only by the invocation that *)
(* was enqueued.  (A level that meets an end of its range part way is      *)
(* excepted, as the comment on coalesce says: positions have no ends here; *)
(* so is a control whose bindings on two layers have different steps.)     *)
Settling == FoldLeft(LAMBDA pos, w : IF w.type \in {"resync", "refresh"} THEN pos
                                     ELSE A!Effect(pos, w),
                     position, batch \o drained \o queue)

StepsAlike == \A v \in Invocations, w \in Invocations : Mergeable(v, w) => v.step = w.step

Instantly == INSTANCE OneByOne WITH position <- Settling

ActsOneByOne == Instantly!Spec
=============================================================================
