------------------------------- MODULE MCLlmEnv -------------------------------
(***************************************************************************)
(* Two chat sessions and one call outside any session, in a process        *)
(* started with any of the five keys.  Of the two models one takes a key   *)
(* that the fallback looks for and one (Gemini) a key that it does not.    *)
(***************************************************************************)
EXTENDS LlmEnv, TLC
=============================================================================
