------------------------------ MODULE RunRecord ------------------------------
(***************************************************************************)
(* What the runs table promises to whoever reads it.  A run is recorded as *)
(* running when it is accepted.  It is recorded as done or error at most   *)
(* once, only with the outcome the pipeline reported to its stream, or as  *)
(* error if it was refused.  Hypotheses appear with the status done and    *)
(* never without it.                                                       *)
(***************************************************************************)
EXTENDS Integers

CONSTANT Runs

VARIABLES status,       (* what the table says of each run                 *)
          outcome,      (* the terminal event of its stream                *)
          hypotheses    (* how many hypotheses the table holds for it      *)

vars == <<status, outcome, hypotheses>>

Init ==
    /\ status = [r \in Runs |-> "none"]
    /\ outcome = [r \in Runs |-> "none"]
    /\ hypotheses = [r \in Runs |-> 0]

Accept(r) ==
    /\ status[r] = "none"
    /\ status' = [status EXCEPT ![r] = "running"]
    /\ UNCHANGED <<outcome, hypotheses>>

Settle(r) ==
    /\ status[r] = "running"
    /\ outcome[r] = "none"
    /\ \E end \in {"done", "error"} : outcome' = [outcome EXCEPT ![r] = end]
    /\ UNCHANGED <<status, hypotheses>>

Record(r) ==
    /\ status[r] = "running"
    /\ outcome[r] # "none"
    /\ status' = [status EXCEPT ![r] = outcome[r]]
    /\ hypotheses'[r] \in Nat
    /\ outcome[r] = "error" => hypotheses'[r] = 0
    /\ hypotheses' = [hypotheses EXCEPT ![r] = hypotheses'[r]]
    /\ UNCHANGED outcome

Refuse(r) ==
    /\ status[r] = "running"
    /\ outcome[r] = "none"
    /\ status' = [status EXCEPT ![r] = "error"]
    /\ UNCHANGED <<outcome, hypotheses>>

Next == \E r \in Runs : Accept(r) \/ Settle(r) \/ Record(r) \/ Refuse(r)

Spec == Init /\ [][Next]_vars
=============================================================================
