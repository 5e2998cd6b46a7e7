--------------------------- MODULE MCMediaTracker ---------------------------
(* MediaTracker with two players, the first of which may be ignored. *)
EXTENDS MediaTracker

FirstOrNone == {{}, {1}}
=============================================================================
