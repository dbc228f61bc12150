------------------------------ MODULE RateLimit -------------------------------
(***************************************************************************)
(* aqr/chat/web.py, _rate_buckets: a token bucket per address in front of  *)
(* POST /chat/{token}/settings.  A bucket is refilled when it is used, by  *)
(* the time since it was last used; an accepted request also forgets every *)
(* bucket that was not used for MaxAge.  Requests are counted before their *)
(* token is looked at.                                                     *)
(*                                                                         *)
(* The unit of time is the one in which a bucket gains one unit; a request *)
(* costs Cost units (30 seconds and 30 units per token in the code).  The  *)
(* rounding of floating-point numbers is left out.  _rate_limit_consume    *)
(* does not suspend, so it is one step.                                    *)
(***************************************************************************)
EXTENDS Integers

CONSTANTS Addresses,  (* what _client_ip tells apart                       *)
          Capacity,   (* _RATE_BUCKET_CAPACITY, in units                   *)
          Cost,       (* one token, in units                               *)
          MaxAge,     (* max_age of _prune_rate_buckets                    *)
          LongestWatch(* bound: how long requests are counted              *)

ASSUME RateAssumption ==
    /\ Cost \in Nat \ {0}
    /\ Capacity \in Nat
    /\ Capacity >= Cost
    /\ MaxAge \in Nat
    /\ MaxAge >= Capacity
    /\ LongestWatch \in Nat

VARIABLES known,    (* the addresses in _rate_buckets                      *)
          tokens,   (* what was left when a bucket was last used           *)
          age,      (* how long ago that was                               *)
          accepted, (* per address: requests let in since the watch began  *)
          watched   (* how long the watch goes on                          *)

buckets == <<known, tokens, age>>
rateVars == <<buckets, accepted, watched>>

-----------------------------------------------------------------------------
Filled(n) == IF n > Capacity THEN Capacity ELSE n

(* What _rate_limit_consume finds: an unknown address has a full bucket.   *)
Level(a) == IF a \in known THEN Filled(tokens[a] + age[a]) ELSE Capacity

RateInit ==
    /\ known = {}
    /\ tokens = [a \in Addresses |-> 0]
    /\ age = [a \in Addresses |-> 0]
    /\ accepted = [a \in Addresses |-> 0]
    /\ watched = 0

(* Mutant: a bucket is forgotten early. *)
StaleEarly(a) == a \in known /\ age[a] * 2 > MaxAge

Stale(a) == a \in known /\ age[a] > MaxAge

(* The bucket of a is used and holds n; others are forgotten if they may.  *)
Keep(a, n, forgotten) ==
    LET kept == (known \ forgotten) \cup {a} IN
    /\ known' = kept
    /\ tokens' = [b \in Addresses |-> IF b = a THEN n ELSE IF b \in kept THEN tokens[b] ELSE 0]
    /\ age' = [b \in Addresses |-> IF b = a \/ b \notin kept THEN 0 ELSE age[b]]

(* The request is let in: it pays, and stale buckets are pruned.           *)
Accept(a) ==
    /\ Level(a) >= Cost
    /\ Keep(a, Level(a) - Cost, {b \in Addresses \ {a} : Stale(b)})
    /\ accepted' = [accepted EXCEPT ![a] = @ + 1]
    /\ UNCHANGED watched

(* Mutant: a refused request forgets the bucket. *)
RefuseReset(a) ==
    /\ Level(a) < Cost
    /\ known' = known \ {a}
    /\ UNCHANGED <<tokens, age, accepted, watched>>

(* 429: the refilled level is kept, nothing is pruned.                     *)
Refuse(a) ==
    /\ Level(a) < Cost
    /\ Keep(a, Level(a), {})
    /\ UNCHANGED <<accepted, watched>>

(* Ages beyond MaxAge are not told apart.                                  *)
Older(a) == IF age[a] > MaxAge THEN age[a] ELSE age[a] + 1

Tick ==
    /\ watched < LongestWatch
    /\ age' = [a \in Addresses |-> IF a \in known THEN Older(a) ELSE 0]
    /\ watched' = watched + 1
    /\ UNCHANGED <<known, tokens, accepted>>

(* Somebody starts to count requests, at any time.                         *)
Watch ==
    /\ accepted' = [a \in Addresses |-> 0]
    /\ watched' = 0
    /\ UNCHANGED buckets

RateNext == Tick \/ Watch \/ \E a \in Addresses : Accept(a) \/ Refuse(a)

RateSpec == RateInit /\ [][RateNext]_rateVars

-----------------------------------------------------------------------------
RateTypeOK ==
    /\ known \subseteq Addresses
    /\ tokens \in [Addresses -> 0..Capacity]
    /\ age \in [Addresses -> 0..(MaxAge + 1)]
    /\ accepted \in [Addresses -> Nat]
    /\ watched \in 0..LongestWatch

(* However requests are timed, and whenever buckets are forgotten: in any  *)
(* stretch of time an address gets no more than a full bucket and what     *)
(* flows in meanwhile.  So this bounds the tokens a client can try (B15).  *)
RateBound == \A a \in Addresses : Cost * accepted[a] <= Capacity + watched

(* Forgetting a bucket cannot be noticed: the limit behaves as one that    *)
(* forgets nothing.                                                        *)
Bucket == INSTANCE TokenBucket WITH level <- [a \in Addresses |-> Level(a)]
ImplementsBucket == Bucket!Spec
=============================================================================
