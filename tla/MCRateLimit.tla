----------------------------- MODULE MCRateLimit ------------------------------
(***************************************************************************)
(* Two addresses, a bucket of two requests that cost two units each, and   *)
(* buckets that are forgotten as early as the assumption allows.           *)
(***************************************************************************)
EXTENDS RateLimit
=============================================================================
