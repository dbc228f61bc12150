------------------------------- MODULE Dialogue -------------------------------
(***************************************************************************)
(* What the stored history of a chat promises, whoever writes it.  A text  *)
(* is asked and may be answered; both are recorded in the log of one       *)
(* session, at its end, at most once each and the answer after its         *)
(* question.  A record that could not be stored is lost and stays so.      *)
(***************************************************************************)
EXTENDS Integers, Sequences

CONSTANTS Sessions, Messages

VARIABLES log,    (* log[s]: the entries of session s, oldest first        *)
          lost    (* the entries that could not be stored                  *)

vars == <<log, lost>>

Entries == [role : {"user", "assistant"}, text : Messages]
Question(m) == [role |-> "user", text |-> m]
In(e, q) == \E i \in 1..Len(q) : q[i] = e

Init ==
    /\ log = [s \in Sessions |-> <<>>]
    /\ lost = {}

(* The question was dealt with before: in the same log, or not at all.     *)
Due(s, e) == e.role = "assistant" => In(Question(e.text), log[s]) \/ Question(e.text) \in lost

Record(s, e) ==
    /\ e \notin lost
    /\ \A t \in Sessions : ~In(e, log[t])
    /\ Due(s, e)
    /\ \/ log' = [log EXCEPT ![s] = Append(@, e)] /\ UNCHANGED lost
       \/ lost' = lost \cup {e} /\ UNCHANGED log

Next == \E s \in Sessions, e \in Entries : Record(s, e)

Spec == Init /\ [][Next]_vars
=============================================================================
