---------------------------- MODULE MCAudioGraph ----------------------------
(* One stream that comes and goes, and two devices. *)
EXTENDS AudioGraph

CONSTANTS a, speakers, phones
=============================================================================
