----------------------------- MODULE MCSpotify -----------------------------
(***************************************************************************)
(* Two Client IDs, two logins, and the jobs of a knob and of two buttons.  *)
(***************************************************************************)
EXTENDS SpotifyJobs

CONSTANTS mine, yours, first, second

Jobs == {[type |-> "volume_adjust", value |-> 1], [type |-> "volume_set", value |-> 0],
         [type |-> "add_to_playlist", value |-> 0]}

(***************************************************************************)
(* Jobs, logins that meet, and the account's other requests share little:  *)
(* the port is the logins' alone, and jobs meet the rest in the cached     *)
(* token only.  They are explored one kind at a time: jobs while the       *)
(* account is left alone; two logins that meet, neither of which stores    *)
(* its tokens then; and one login, with any two of an edit of the Client   *)
(* ID, a logout, a list and an expiry.  The two Client IDs are alike: the  *)
(* first is the one before the edit.                                       *)
(***************************************************************************)
Begun == {f \in Flow : flow[f].login # "none"}
Disturbed == used.edits + used.lists + used.logouts + used.expiries
Quiet == startup = "done" /\ Disturbed = 0 /\ yours \notin stored
Storing == {f \in Flow : flow[f].complete \in {"stores", "caches", "asks who"}}

OneKind ==
    /\ used.edits = 0 => clientID = mine
    /\ \/ Begun = {} /\ Quiet
       \/ fired = 0 /\ Begun = Flow /\ Quiet /\ Storing = {}
       \/ fired = 0 /\ Begun \subseteq {first} /\ Disturbed <= 2
=============================================================================
