----------------------------- MODULE MCEventBus -----------------------------
(***************************************************************************)
(* The event bus on two runs and one stream.   HistoryLimit and QueueLimit *)
(* are small enough that a burst of errors fills them, and the clock can   *)
(* pass the retention period, so that one run prunes the other.            *)
(***************************************************************************)
EXTENDS EventBus, TLC
=============================================================================
