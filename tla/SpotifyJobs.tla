---------------------------- MODULE SpotifyJobs ----------------------------
(***************************************************************************)
(* The spotify.* actions (internal/actions/spotify.go): dispatch queues a  *)
(* job, Run takes the jobs one by one and makes their requests, and the    *)
(* volume writer sends the volume the knobs have been turned to.           *)
(***************************************************************************)
EXTENDS SpotifyAccount, Sequences

CONSTANTS Job,        \* the actions bound to controls, with the detents of a turn
          QueueDepth, \* spotifyQueueDepth
          MaxPercent, \* the loudest volume, in the steps of the actions
          MaxJobs     \* bound: how many actions fire

ASSUME JobAssumption == /\ QueueDepth \in Nat \ {0} /\ MaxPercent \in Nat \ {0}
                        /\ MaxJobs \in Nat

VARIABLES queue,    \* SpotifyHandlers.jobs
          run,      \* the job Run is at, and the request it has got to
          volume,   \* volKnown, volPercent, and whether spotifyVolumeCacheTTL has not passed
          pending,  \* volPending
          writer,   \* the volume runVolumeWriter is sending
          fired,    \* counter of the bound
          tried     \* history: the last volume the writer took up

runVars == <<run, volume, pending>>
vars == <<accountVars, queue, runVars, writer, fired, tried>>

Percent == 0..MaxPercent
None == -1

(* The requests of a job, one after the other; which of two it makes       *)
(* depends on the answer before.                                           *)
LikeToggle == <<{"CurrentlyPlaying"}, {"LibraryContains"},
                {"SaveToLibrary", "RemoveFromLibrary"}>>
AddToPlaylist == <<{"CurrentlyPlaying"}, {"AddPlaylistItems"}>>
RemoveFromPlaylist == <<{"CurrentlyPlaying"}, {"RemovePlaylistItems"}>>
StartPlaylist == <<{"PlayContext"}>>
QueueTrack == <<{"Queue"}>>
TransferPlayback == <<{"Devices"}, {"Transfer"}>>

Script(type) ==
    CASE type = "like_toggle" -> LikeToggle
      [] type = "add_to_playlist" -> AddToPlaylist
      [] type = "remove_from_playlist" -> RemoveFromPlaylist
      [] type = "start_playlist" -> StartPlaylist
      [] type = "queue_track" -> QueueTrack
      [] type = "transfer_playback" -> TransferPlayback

(* The types whose id may not be one. *)
WithId == {"add_to_playlist", "remove_from_playlist", "start_playlist", "queue_track"}

OnVolume == {"volume_adjust", "volume_set"}

(* Nothing plays, or no device has the name: the answer ends the job.      *)
MayFindNothing == {"CurrentlyPlaying", "Devices"}

Resting == [at |-> "idle", request |-> "none", left |-> <<>>, delta |-> 0, percent |-> 0]

Init ==
    /\ AccountInit
    /\ queue = <<>> /\ run = Resting
    /\ volume = [known |-> FALSE, percent |-> 0, fresh |-> FALSE]
    /\ pending = None /\ writer = None
    /\ fired = 0 /\ tried = None

(* Everything of the account but where this goroutine is in a request. *)
account == <<clientID, tokens, status, logins, callers, used>>

-----------------------------------------------------------------------------
(* The queue *)

Enqueue(job) ==
    /\ fired < MaxJobs /\ fired' = fired + 1
    /\ queue' = IF Len(queue) < QueueDepth THEN Append(queue, job) ELSE queue
    /\ UNCHANGED <<accountVars, runVars, writer, tried>>

-----------------------------------------------------------------------------
(* Run *)

RunOnly == UNCHANGED <<account, writer, fired, tried>>

Asks(request, left) ==
    /\ run' = [run EXCEPT !.at = "asks", !.request = request, !.left = left]
    /\ Calls("runner")

Rests == run' = Resting

Clamp(v) == IF v < 0 THEN 0 ELSE IF v > MaxPercent THEN MaxPercent ELSE v

Publishing(v) == run' = [Resting EXCEPT !.at = "caches", !.percent = v]

Takes == run.at = "idle" /\ queue # <<>> /\ queue' = Tail(queue)

TakeRequests ==
    /\ Takes /\ Head(queue).type \notin OnVolume
    /\ LET script == Script(Head(queue).type)
       IN  \E request \in Head(script) : Asks(request, Tail(script))
    /\ UNCHANGED <<volume, pending>> /\ RunOnly

TakeBadId ==
    /\ Takes /\ Head(queue).type \in WithId
    /\ UNCHANGED <<op, runVars>> /\ RunOnly

TakeVolumeSet ==
    /\ Takes /\ Head(queue).type = "volume_set"
    /\ Publishing(Clamp(Head(queue).value))
    /\ UNCHANGED <<op, volume, pending>> /\ RunOnly

(* From the cached volume, or else from the one Spotify tells. *)
TakeVolumeAdjust ==
    /\ Takes /\ Head(queue).type = "volume_adjust"
    /\ LET delta == Head(queue).value
       IN  IF delta = 0 THEN UNCHANGED <<run, op>>
           ELSE IF volume.known /\ volume.fresh
           THEN Publishing(Clamp(volume.percent + delta)) /\ UNCHANGED op
           ELSE /\ run' = [Resting EXCEPT !.at = "asks", !.request = "CurrentVolume",
                                          !.delta = delta]
                /\ Calls("runner")
    /\ UNCHANGED <<volume, pending>> /\ RunOnly

AnswerRequest ==
    /\ run.at = "asks" /\ run.request # "CurrentVolume" /\ Answered("runner")
    /\ \/ /\ ~Succeeded("runner") \/ run.left = <<>> \/ run.request \in MayFindNothing
          /\ Rests /\ Done("runner")
       \/ /\ Succeeded("runner") /\ run.left # <<>>
          /\ \E request \in Head(run.left) : Asks(request, Tail(run.left))
    /\ UNCHANGED <<queue, volume, pending>> /\ RunOnly

AnswerVolume ==
    /\ run.at = "asks" /\ run.request = "CurrentVolume" /\ Answered("runner")
    /\ \/ Rests
       \/ Succeeded("runner") /\ \E v \in Percent : Publishing(Clamp(v + run.delta))
    /\ Done("runner")
    /\ UNCHANGED <<queue, volume, pending>> /\ RunOnly

(* publishVolume: the cache and the ring first. *)
CacheVolume ==
    /\ run.at = "caches"
    /\ volume' = [known |-> TRUE, percent |-> run.percent, fresh |-> TRUE]
    /\ run' = [run EXCEPT !.at = "hands"]
    /\ UNCHANGED <<op, queue, pending>> /\ RunOnly

(* Mutant of HandVolume: a volume that is waiting stays. *)
HandVolumeUnlessFull ==
    /\ run.at = "hands"
    /\ pending' = IF pending = None THEN run.percent ELSE pending
    /\ Rests /\ UNCHANGED <<op, queue, volume>> /\ RunOnly

(* Then one select after the other: put the volume, or else take out the   *)
(* one that is in the way, which the writer may have taken meanwhile.      *)
HandVolume ==
    /\ \/ run.at = "hands" /\ pending = None
          /\ pending' = run.percent /\ Rests
       \/ run.at = "hands" /\ pending # None
          /\ run' = [run EXCEPT !.at = "drains"] /\ UNCHANGED pending
       \/ run.at = "drains" /\ pending' = None /\ run' = [run EXCEPT !.at = "hands"]
    /\ UNCHANGED <<op, queue, volume>> /\ RunOnly

VolumeGoesStale ==
    /\ volume.fresh /\ volume' = [volume EXCEPT !.fresh = FALSE]
    /\ UNCHANGED <<accountVars, queue, run, pending, writer, fired, tried>>

RunStep ==
    \/ TakeRequests \/ TakeBadId \/ TakeVolumeSet \/ TakeVolumeAdjust
    \/ AnswerRequest \/ AnswerVolume \/ CacheVolume \/ HandVolume

-----------------------------------------------------------------------------
(* The volume writer *)

WriterOnly == UNCHANGED <<account, queue, run, volume, fired>>

TakeVolume ==
    /\ writer = None /\ pending # None
    /\ writer' = pending /\ pending' = None /\ tried' = pending
    /\ Calls("writer") /\ WriterOnly

(* A write that failed is logged. *)
VolumeWritten ==
    /\ writer # None /\ Answered("writer")
    /\ writer' = None /\ Done("writer")
    /\ WriterOnly /\ UNCHANGED <<pending, tried>>

-----------------------------------------------------------------------------

AccountOnly == UNCHANGED <<queue, runVars, writer, fired, tried>>

Next ==
    \/ AccountNext /\ AccountOnly
    \/ \E job \in Job : Enqueue(job)
    \/ RunStep \/ VolumeGoesStale
    \/ TakeVolume \/ VolumeWritten

(* Both goroutines run, and a request of theirs ends: with an answer, or   *)
(* with its context.                                                       *)
Fairness ==
    /\ WF_vars(RunStep)
    /\ WF_vars(Step("runner") /\ AccountOnly)
    /\ WF_vars(TakeVolume \/ VolumeWritten)
    /\ WF_vars(Step("writer") /\ AccountOnly)

Spec == Init /\ [][Next]_vars /\ Fairness

-----------------------------------------------------------------------------
(* Properties *)

(* Turning stops at a volume the writer takes up: whatever it was busy     *)
(* with, the volume it took last is the one the last job settled on, and   *)
(* the one the ring shows ("any value that arrives after that point        *)
(* silently supersedes it", spotify.go).                                   *)
LastVolumeIsSent == <>[](volume.known => tried = volume.percent)
=============================================================================
