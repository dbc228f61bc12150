-------------------------- MODULE MCSessionSettings ---------------------------
(***************************************************************************)
(* Three requests to a session of the app and one whose token came from    *)
(* elsewhere.  Forms differ in the model, in one key, or in everything.    *)
(***************************************************************************)
EXTENDS SessionSettings, TLC

MCForms ==
    {[c \in Columns |-> IF c \in ones THEN 1 ELSE 0] :
        ones \in {{}, {"llm_api_key"}, {"llm_model"}}}
=============================================================================
