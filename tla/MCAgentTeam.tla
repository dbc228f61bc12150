----------------------------- MODULE MCAgentTeam ------------------------------
(***************************************************************************)
(* Two tickers, momentum (which is screened first) and another family, a   *)
(* pool of one slot that others may hold for as long as they like.         *)
(***************************************************************************)
EXTENDS AgentTeam
=============================================================================
