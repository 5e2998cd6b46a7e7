------------------------------- MODULE MCLeds -------------------------------
(***************************************************************************)
(* One control: the flush of several writes them one after the other, and  *)
(* no write depends on another.  Two inputs let a flash or a change meet a *)
(* failed write.                                                           *)
(***************************************************************************)
EXTENDS Leds

CONSTANT ring
=============================================================================
