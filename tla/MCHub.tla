------------------------------- MODULE MCHub -------------------------------
(* Hub with one client that stays and connects again. *)
EXTENDS Hub

CONSTANTS ui
=============================================================================
