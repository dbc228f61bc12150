----------------------------- MODULE MCChatSession -----------------------------
(***************************************************************************)
(* Two sockets, of the same session or of two, and two messages.  The      *)
(* history is cut to three of the four entries that may be stored.         *)
(***************************************************************************)
EXTENDS ChatSession, TLC

Symmetry == Permutations(Sockets) \cup Permutations(Sessions) \cup Permutations(Messages)
=============================================================================
