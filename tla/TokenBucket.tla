----------------------------- MODULE TokenBucket ------------------------------
(***************************************************************************)
(* What a rate limit promises to the clients of aqr/chat/web.py: every     *)
(* address has a bucket of its own, which fills with time, is never        *)
(* forgotten, and gives a fixed Cost for every request that is let in.     *)
(***************************************************************************)
EXTENDS Integers

CONSTANTS Addresses, Capacity, Cost

VARIABLE level      (* what is in the bucket of an address                 *)

Filled(n) == IF n > Capacity THEN Capacity ELSE n

Init == level = [a \in Addresses |-> Capacity]

Take(a) ==
    /\ level[a] >= Cost
    /\ level' = [level EXCEPT ![a] = @ - Cost]

Fill == level' = [a \in Addresses |-> Filled(level[a] + 1)]

Next == Fill \/ \E a \in Addresses : Take(a)

Spec == Init /\ [][Next]_level
=============================================================================
