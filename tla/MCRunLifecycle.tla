--------------------------- MODULE MCRunLifecycle ---------------------------
(***************************************************************************)
(* Two runs that compete for one slot of the pool: a plan may yield more   *)
(* results than the top holds, and the process may be restarted once.      *)
(***************************************************************************)
EXTENDS RunLifecycle, TLC
=============================================================================
