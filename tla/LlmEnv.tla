-------------------------------- MODULE LlmEnv --------------------------------
(***************************************************************************)
(* aqr/llm_env.py: LLM calls get their API key through os.environ.  A call *)
(* resolves its credentials, takes the one lock of the process, replaces   *)
(* the five key variables by its own key, awaits the answer, puts the      *)
(* variables back and releases the lock.                                   *)
(*                                                                         *)
(* A key is named by whose it is: the key of a chat session by the session *)
(* (a caller), a key of the environment the process was started with by    *)
(* its variable.                                                           *)
(***************************************************************************)
EXTENDS Integers, Sequences

CONSTANTS Callers,      (* coroutines that call an LLM, one call at a time *)
          Sessions,     (* those inside a chat session with credentials    *)
          Background,   (* those in a background task: drain may cancel it *)
          ModelVars,    (* bound: the variables the models in use ask for  *)
          Unset         (* a variable that is absent or empty              *)

(* _LLM_ENV_KEYS and, in its order, _API_KEY_ENV_KEYS *)
EnvVars == {"ANTHROPIC_API_KEY", "OPENAI_API_KEY", "GIGACHAT_CREDENTIALS",
            "DEEPSEEK_API_KEY", "GEMINI_API_KEY"}
FallbackOrder == <<"DEEPSEEK_API_KEY", "ANTHROPIC_API_KEY", "OPENAI_API_KEY",
                   "GIGACHAT_CREDENTIALS">>

ASSUME EnvAssumption ==
    /\ Sessions \subseteq Callers
    /\ Background \subseteq Callers
    /\ ModelVars \subseteq EnvVars
    /\ Callers \cap EnvVars = {}
    /\ Unset \notin Callers \cup EnvVars

VARIABLES ambient,    (* the environment the process was started with      *)
          model,      (* the variable AQR_LLM_MODEL asks for, or Unset     *)
          env,        (* os.environ, restricted to EnvVars                 *)
          locked,     (* _llm_env_lock._locked                             *)
          waiters,    (* _llm_env_lock._waiters                            *)
          pc,         (* "idle", "waiting" for the lock, or "calling"      *)
          creds,      (* the credentials a call resolved                   *)
          saved,      (* the `saved` of its llm_env_override               *)
          used        (* the key the LLM client sent                       *)

processVars == <<ambient, model>>
vars == <<processVars, env, locked, waiters, pc, creds, saved, used>>

-----------------------------------------------------------------------------
Keys == EnvVars \cup Callers
Values == Keys \cup {Unset}
Nothing == [v \in EnvVars |-> Unset]
Credentials == [var : EnvVars \cup {Unset}, key : Values]
NoCredentials == [var |-> Unset, key |-> Unset]

Init ==
    /\ ambient \in {e \in [EnvVars -> Values] : \A v \in EnvVars : e[v] \in {v, Unset}}
    /\ model \in ModelVars \cup {Unset}
    /\ env = ambient
    /\ locked = FALSE
    /\ waiters = <<>>
    /\ pc = [c \in Callers |-> "idle"]
    /\ creds = [c \in Callers |-> NoCredentials]
    /\ saved = [c \in Callers |-> Nothing]
    /\ used = [c \in Callers |-> Unset]

(* resolve_llm_credentials: those of the session, whose model decides the  *)
(* variable, or the first key found in os.environ, whatever the variable   *)
(* AQR_LLM_MODEL asks for.  The set is empty where the code raises.        *)
FirstKey(e) == {e[FallbackOrder[i]] : i \in
    {i \in 1..Len(FallbackOrder) :
        /\ e[FallbackOrder[i]] # Unset
        /\ \A j \in 1..(i - 1) : e[FallbackOrder[j]] = Unset}}

Resolved(c) ==
    IF c \in Sessions THEN [var : ModelVars, key : {c}]
    ELSE {cr \in [var : {model}, key : FirstKey(env)] : model # Unset}

(* Mutant: the other providers' keys stay visible. *)
OverriddenOne(cr) == [env EXCEPT ![cr.var] = cr.key]

(* llm_env_override: every variable is popped, one is set.                 *)
Overridden(cr) == [v \in EnvVars |-> IF v = cr.var THEN cr.key ELSE Unset]

(* The caller holds the lock, replaces the environment and starts the call.*)
Enter(c, cr) ==
    /\ locked' = TRUE
    /\ pc' = [pc EXCEPT ![c] = "calling"]
    /\ saved' = [saved EXCEPT ![c] = env]
    /\ env' = Overridden(cr)

(* plan, narrate or review up to the first await that suspends: the lock   *)
(* if it is taken or others wait for it, the call if not.                  *)
Call(c) ==
    /\ pc[c] = "idle"
    /\ \E cr \in Resolved(c) :
          /\ creds' = [creds EXCEPT ![c] = cr]
          /\ IF ~locked /\ waiters = <<>>
                THEN Enter(c, cr) /\ UNCHANGED waiters
                ELSE /\ waiters' = Append(waiters, c)
                     /\ pc' = [pc EXCEPT ![c] = "waiting"]
                     /\ UNCHANGED <<locked, saved, env>>
    /\ UNCHANGED <<processVars, used>>

(* Mutant: nobody checks that the lock is still free. *)
GrantedBlindly(c) ==
    /\ pc[c] = "waiting"
    /\ c = Head(waiters)
    /\ Enter(c, creds[c])
    /\ waiters' = Tail(waiters)
    /\ UNCHANGED <<processVars, creds, used>>

(* Mutant: the waiter that came last is woken first. *)
GrantedNewest(c) ==
    /\ pc[c] = "waiting"
    /\ ~locked
    /\ c = waiters[Len(waiters)]
    /\ Enter(c, creds[c])
    /\ waiters' = SubSeq(waiters, 1, Len(waiters) - 1)
    /\ UNCHANGED <<processVars, creds, used>>

(* The lock was released and its first waiter resumes.                     *)
Granted(c) ==
    /\ pc[c] = "waiting"
    /\ ~locked
    /\ c = Head(waiters)
    /\ Enter(c, creds[c])
    /\ waiters' = Tail(waiters)
    /\ UNCHANGED <<processVars, creds, used>>

(* The LLM client reads the key from os.environ, at some time during the   *)
(* call, and sends its request.                                            *)
Send(c) ==
    /\ pc[c] = "calling"
    /\ used[c] = Unset
    /\ used' = [used EXCEPT ![c] = env[creds[c].var]]
    /\ UNCHANGED <<processVars, env, locked, waiters, pc, creds, saved>>

(* Mutant: only variables that had a value are restored. *)
RestoredSet(c) == [v \in EnvVars |-> IF saved[c][v] = Unset THEN env[v] ELSE saved[c][v]]

(* The finally clause of llm_env_override.                                 *)
Restored(c) == saved[c]

(* The coroutine is back before resolve_llm_credentials, or gone.          *)
Forget(c) ==
    /\ pc' = [pc EXCEPT ![c] = "idle"]
    /\ creds' = [creds EXCEPT ![c] = NoCredentials]
    /\ saved' = [saved EXCEPT ![c] = Nothing]
    /\ used' = [used EXCEPT ![c] = Unset]

(* The call returned, raised or was cancelled: the environment is put back *)
(* and then the lock is released, without a suspension in between.         *)
Leave(c) ==
    /\ pc[c] = "calling"
    /\ env' = Restored(c)
    /\ locked' = FALSE
    /\ Forget(c)
    /\ UNCHANGED <<processVars, waiters>>

Without(q, i) == SubSeq(q, 1, i - 1) \o SubSeq(q, i + 1, Len(q))

(* Mutant: the cancelled caller stays among the waiters. *)
CancelListed(c) ==
    /\ c \in Background
    /\ pc[c] = "waiting"
    /\ Forget(c)
    /\ UNCHANGED <<processVars, env, locked, waiters>>

(* A background task is cancelled (by drain) while it waits for the lock.  *)
CancelWaiting(c) ==
    /\ c \in Background
    /\ pc[c] = "waiting"
    /\ \E i \in 1..Len(waiters) : waiters[i] = c /\ waiters' = Without(waiters, i)
    /\ Forget(c)
    /\ UNCHANGED <<processVars, env, locked>>

-----------------------------------------------------------------------------
Next ==
    \E c \in Callers : Call(c) \/ Granted(c) \/ Send(c) \/ Leave(c) \/ CancelWaiting(c)

Spec == Init /\ [][Next]_vars

(* The event loop resumes the waiter it woke, and a call to the LLM is     *)
(* answered or runs into the timeout of its client.                        *)
Fairness == \A c \in Callers : WF_vars(Granted(c)) /\ WF_vars(Leave(c))

FairSpec == Spec /\ Fairness

-----------------------------------------------------------------------------
Distinct(q) == \A i, j \in 1..Len(q) : i # j => q[i] # q[j]

(* Types, and nobody waits for the lock twice.                             *)
TypeOK ==
    /\ ambient \in [EnvVars -> Values]
    /\ model \in ModelVars \cup {Unset}
    /\ env \in [EnvVars -> Values]
    /\ locked \in BOOLEAN
    /\ waiters \in Seq(Callers)
    /\ Distinct(waiters)
    /\ pc \in [Callers -> {"idle", "waiting", "calling"}]
    /\ creds \in [Callers -> Credentials]
    /\ saved \in [Callers -> [EnvVars -> Values]]
    /\ used \in [Callers -> Values]

(* However calls overlap, fail or are cancelled: whenever the lock is free *)
(* the environment is the one the process was started with.                *)
FreeMeansAmbient == ~locked => env = ambient

(* Calls are serialized, and from the override to the end of its call the  *)
(* holder finds its own key in its own variable and no other key at all,   *)
(* whenever the client chooses to look.                                    *)
HolderOwnsEnvironment ==
    \A c \in Callers :
        pc[c] = "calling" =>
            /\ env = [v \in EnvVars |-> IF v = creds[c].var THEN creds[c].key ELSE Unset]
            /\ \A d \in Callers : pc[d] = "calling" => d = c

(* What the override is for (race B4): a session's call is sent with that  *)
(* session's key, and any call with the key it resolved.                   *)
KeysStayApart ==
    \A c \in Callers :
        used[c] # Unset => /\ used[c] = creds[c].key
                           /\ c \in Sessions => used[c] = c

(* The lock is handed over in the order of the calls: nobody who comes     *)
(* late gets between the release and the waiter it woke.                   *)
FirstComeFirstServed ==
    [][\A c \in Callers :
          pc[c] # "calling" /\ pc'[c] = "calling" => waiters = <<>> \/ c = Head(waiters)]_vars

(* A call that waits for the lock gets it (or is cancelled).               *)
CallsAreServed == \A c \in Callers : pc[c] = "waiting" ~> pc[c] # "waiting"

(* The module docstring: no race between sessions.  So a call outside any  *)
(* session runs on a key of the environment the process was started with.  *)
NoBorrowedKeys ==
    \A c \in Callers \ Sessions : used[c] # Unset => used[c] \in EnvVars
=============================================================================
