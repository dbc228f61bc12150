------------------------------ MODULE MCPresence ------------------------------
(* A small instance of Presence for TLC: the sessions and the hypotheses   *)
(* are model values of the .cfg.                                           *)
EXTENDS Presence
=============================================================================
