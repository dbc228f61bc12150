------------------------------ MODULE EventFeed ------------------------------
(***************************************************************************)
(* What a reader of a run's event stream may rely on, without saying how   *)
(* the bus keeps its promise.  A run emits numbered events.  A reader has  *)
(* a cursor, the number of the last event it was given.  The cursor only   *)
(* moves forward and never past what the run emitted; it moves one event   *)
(* at a time as long as the reader is not marked lossy, that is as long as *)
(* no bound of the implementation took an event away from it.              *)
(***************************************************************************)
EXTENDS Integers

CONSTANTS Runs,      (* the runs that emit events                          *)
          Readers,   (* the stream consumers                               *)
          NoRun      (* the value of reading[s] before s opens a stream    *)

VARIABLES published,   (* published[r]: how many events r has emitted      *)
          reading,     (* reading[s]: the run s reads, or NoRun            *)
          cursor,      (* cursor[s]: number of the last event s was given  *)
          lossy        (* lossy[s]: some event will never reach s          *)

vars == <<published, reading, cursor, lossy>>

Init ==
    /\ published = [r \in Runs |-> 0]
    /\ reading = [s \in Readers |-> NoRun]
    /\ cursor = [s \in Readers |-> 0]
    /\ lossy = [s \in Readers |-> FALSE]

(* A run emits a burst of events; readers of that run whose bound is hit   *)
(* become lossy, and nobody ever stops being lossy.                        *)
Emit(r) ==
    /\ published'[r] > published[r]
    /\ published' = [published EXCEPT ![r] = published'[r]]
    /\ \A s \in Readers : /\ lossy[s] => lossy'[s]
                          /\ lossy'[s] # lossy[s] => reading[s] = r
    /\ UNCHANGED <<reading, cursor>>

(* A reader opens its one stream, possibly too late to see everything.     *)
Open(s) ==
    /\ reading[s] = NoRun
    /\ \E r \in Runs : reading' = [reading EXCEPT ![s] = r]
    /\ lossy' = [lossy EXCEPT ![s] = lossy'[s]]
    /\ UNCHANGED <<published, cursor>>

(* A reader is given the next event, or a later one if it is lossy.        *)
Deliver(s) ==
    /\ reading[s] # NoRun
    /\ cursor' = [cursor EXCEPT ![s] = cursor'[s]]
    /\ cursor'[s] > cursor[s]
    /\ cursor'[s] <= published[reading[s]]
    /\ ~lossy[s] => cursor'[s] = cursor[s] + 1
    /\ UNCHANGED <<published, reading, lossy>>

Next ==
    \/ \E r \in Runs : Emit(r)
    \/ \E s \in Readers : Open(s) \/ Deliver(s)

Spec == Init /\ [][Next]_vars
=============================================================================
