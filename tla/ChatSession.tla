------------------------------ MODULE ChatSession ------------------------------
(***************************************************************************)
(* aqr/chat/ws.py and the graph it runs, aqr/graph/graph.py.  A socket of  *)
(* a chat session takes one message at a time: it stores the question,     *)
(* streams the graph node by node, runs the graph a second time if the     *)
(* stream failed, stores the answer and reports it.  Several sockets of    *)
(* one session, and of several, interleave at every await.                 *)
(*                                                                         *)
(* What a client sends while its socket is busy waits for it, so a message *)
(* is chosen when it is taken.  Pings and malformed messages are answered  *)
(* without a change of state and are left out.                             *)
(***************************************************************************)
EXTENDS Integers, Sequences

CONSTANTS Sockets,        (* connections: one handshake each               *)
          Sessions,
          Messages,       (* bound: the texts that are ever asked          *)
          HistoryLimit,   (* `limit` of _load_history                      *)
          MaxSaves,       (* bound: how often a session is configured      *)
          None            (* no session, no credentials or no text         *)

ASSUME ChatAssumption ==
    /\ HistoryLimit \in Nat \ {0}
    /\ MaxSaves \in Nat
    /\ None \notin Sessions \cup Messages

VARIABLES settings,   (* session_settings: the number of the last save     *)
          log,        (* chat_messages of a session in the order of        *)
                      (* created_at                                        *)
          lost,       (* entries whose save failed: logged, not reported   *)
          asked,      (* the texts taken from a socket                     *)
          session,    (* the session that a socket's token names           *)
          link,       (* "up", "lost" (the client left) or "broken" (and a *)
                      (* send has failed since)                            *)
          pc,         (* where the handler of a socket is                  *)
          creds,      (* its `credentials`                                 *)
          active,     (* the ContextVar _active_credentials in its task    *)
          text,       (* the message it works on                           *)
          last,       (* the step in the `last_state` of its run           *)
          page        (* questions and answers its page shows              *)

tableVars == <<settings, log, lost, asked>>
socketVars == <<session, link, pc, creds, active, text, last, page>>
vars == <<tableVars, socketVars>>

-----------------------------------------------------------------------------
Question(m) == [role |-> "user", text |-> m]
Answer(m) == [role |-> "assistant", text |-> m]
Entries == [role : {"user", "assistant"}, text : Messages]

Credentials == [session : Sessions, version : Nat \ {0}]

(* What `step` in the state of the graph is, in the order in which the     *)
(* nodes produce it; "start" is the empty string.                          *)
Pipeline == <<"start", "plan", "load_data", "generate", "backtest", "validate", "narrate", "done">>
Steps == {Pipeline[i] : i \in 1..8}

Places == {"new", "idle", "saving", "stream", "rerun", "storing", "closed"}
Running == {"stream", "rerun", "storing"}

Init ==
    /\ settings = [s \in Sessions |-> 0]
    /\ log = [s \in Sessions |-> <<>>]
    /\ lost = {}
    /\ asked = {}
    /\ session = [w \in Sockets |-> None]
    /\ link = [w \in Sockets |-> "up"]
    /\ pc = [w \in Sockets |-> "new"]
    /\ creds = [w \in Sockets |-> None]
    /\ active = [w \in Sockets |-> None]
    /\ text = [w \in Sockets |-> None]
    /\ last = [w \in Sockets |-> "start"]
    /\ page = [w \in Sockets |-> <<>>]

(* Mutant: settings that were never saved are loaded all the same. *)
StoredUnchecked(s) == [session |-> s, version |-> settings[s]]

(* _load_credentials                                                       *)
Stored(s) == IF settings[s] = 0 THEN None ELSE [session |-> s, version |-> settings[s]]

(* Mutant: the rows stay in the descending order of the query. *)
LatestDescending(q) ==
    [i \in 1..(IF Len(q) > HistoryLimit THEN HistoryLimit ELSE Len(q)) |-> q[Len(q) + 1 - i]]

(* list_chat_history                                                       *)
Latest(q) ==
    SubSeq(q, IF Len(q) > HistoryLimit THEN Len(q) - HistoryLimit + 1 ELSE 1, Len(q))

(* _load_history: an empty list when the database fails.                   *)
History(s) == {Latest(log[s]), <<>>}

(* What _send_json may return.  Nobody notices at once that a client left. *)
Sendable(w) ==
    IF link[w] = "up" THEN {TRUE} ELSE IF link[w] = "lost" THEN {TRUE, FALSE} ELSE {FALSE}

(* A message of the server was sent, or the send failed.                   *)
Sent(w, ok) == link' = [link EXCEPT ![w] = IF ok THEN @ ELSE "broken"]

(* The page applies what reaches it.                                       *)
Shown(w, content) == page' = [page EXCEPT ![w] = IF link[w] = "up" THEN content ELSE @]

(* _save_history: an entry that cannot be stored is dropped.               *)
Save(w, e) ==
    \/ log' = [log EXCEPT ![session[w]] = Append(@, e)] /\ UNCHANGED lost
    \/ lost' = lost \cup {e} /\ UNCHANGED log

-----------------------------------------------------------------------------
(* POST /chat/{token}/settings                                             *)
Configure(s) ==
    /\ settings[s] < MaxSaves
    /\ settings' = [settings EXCEPT ![s] = @ + 1]
    /\ UNCHANGED <<log, lost, asked, socketVars>>

(* The handshake: credentials, then the history if there is any.           *)
Connect(w) ==
    /\ pc[w] = "new"
    /\ \E s \in Sessions :
          /\ session' = [session EXCEPT ![w] = s]
          /\ creds' = [creds EXCEPT ![w] = Stored(s)]
          /\ \E rows \in History(s) : Shown(w, rows)
    /\ pc' = [pc EXCEPT ![w] = "idle"]
    /\ UNCHANGED <<tableVars, link, active, text, last>>

(* {"type": "resume"}: the page replaces what it shows by the history.     *)
Resume(w) ==
    /\ pc[w] = "idle"
    /\ link[w] # "broken"
    /\ \E ok \in Sendable(w) : Sent(w, ok)
    /\ \E rows \in History(session[w]) : Shown(w, rows)
    /\ UNCHANGED <<tableVars, session, pc, creds, active, text, last>>

(* {"type": "message"}: credentials are loaded if the socket has none yet. *)
Current(w) == IF creds[w] = None THEN Stored(session[w]) ELSE creds[w]

Ask(w) ==
    /\ pc[w] = "idle"
    /\ link[w] # "broken"
    /\ Current(w) # None
    /\ creds' = [creds EXCEPT ![w] = Current(w)]
    /\ \E m \in Messages \ asked :
          /\ asked' = asked \cup {m}
          /\ text' = [text EXCEPT ![w] = m]
    /\ pc' = [pc EXCEPT ![w] = "saving"]
    /\ UNCHANGED <<settings, log, lost, session, link, active, last, page>>

(* The settings are missing, and still missing after another look: the     *)
(* message is refused.                                                     *)
Refuse(w) ==
    /\ pc[w] = "idle"
    /\ link[w] # "broken"
    /\ Current(w) = None
    /\ \E ok \in Sendable(w) : Sent(w, ok)
    /\ UNCHANGED <<tableVars, session, pc, creds, active, text, last, page>>

(* Mutant: one variable for the whole process. *)
SetCredentialsGlobally(w) == active' = [x \in Sockets |-> creds[w]]

(* set_credentials: a ContextVar belongs to the task of the socket.        *)
SetCredentials(w) == active' = [active EXCEPT ![w] = creds[w]]

(* The question is stored and echoed, and the run starts.                  *)
SaveQuestion(w) ==
    /\ pc[w] = "saving"
    /\ Save(w, Question(text[w]))
    /\ \E ok \in Sendable(w) : Sent(w, ok)
    /\ Shown(w, Append(page[w], Question(text[w])))
    /\ SetCredentials(w)
    /\ pc' = [pc EXCEPT ![w] = "stream"]
    /\ UNCHANGED <<settings, asked, session, creds, text, last>>

(* _llm_route, behind the node respond: where it may lead from a step.     *)
AfterRespond(step) == IF step = "done" THEN {} ELSE Steps \ {"start"}

(* The step that the next node produces: _deterministic_route behind the   *)
(* node route, then the chain of edges.                                    *)
NextSteps(step) ==
    IF step = "done" THEN AfterRespond(step)
    ELSE {Pipeline[i + 1] : i \in {i \in 1..7 : Pipeline[i] = step}}

(* Every node calls tools that may raise, except respond.                  *)
MayRaise(step) == NextSteps(step) # {"done"}

(* The stream yields the next state and the client is told.                *)
Node(w) ==
    /\ pc[w] = "stream"
    /\ TRUE \in Sendable(w)
    /\ \E step \in NextSteps(last[w]) :
          /\ last' = [last EXCEPT ![w] = step]
          /\ pc' = [pc EXCEPT ![w] = IF NextSteps(step) = {} THEN "storing" ELSE "stream"]
    /\ UNCHANGED <<tableVars, session, link, creds, active, text, page>>

(* The stream yields the next state, the client cannot be told and the     *)
(* loop breaks off before it keeps that state.                             *)
NodeUnseen(w) ==
    /\ pc[w] = "stream"
    /\ FALSE \in Sendable(w)
    /\ Sent(w, FALSE)
    /\ pc' = [pc EXCEPT ![w] = "storing"]
    /\ UNCHANGED <<tableVars, session, creds, active, text, last, page>>

(* A node raised: the graph is invoked again, from the initial state.      *)
NodeRaises(w) ==
    /\ pc[w] = "stream"
    /\ MayRaise(last[w])
    /\ pc' = [pc EXCEPT ![w] = "rerun"]
    /\ UNCHANGED <<tableVars, session, link, creds, active, text, last, page>>

(* The handler is back in its loop; reset_credentials.                     *)
Finish(w) ==
    /\ pc' = [pc EXCEPT ![w] = "idle"]
    /\ active' = [active EXCEPT ![w] = None]
    /\ text' = [text EXCEPT ![w] = None]
    /\ last' = [last EXCEPT ![w] = "start"]

(* Mutant: the second run stores its answer when it ends. *)
RerunStored(w) ==
    /\ pc[w] = "rerun"
    /\ TRUE \in Sendable(w)
    /\ last' = [last EXCEPT ![w] = "done"]
    /\ pc' = [pc EXCEPT ![w] = "storing"]
    /\ Save(w, Answer(text[w]))
    /\ UNCHANGED <<settings, asked, session, link, creds, active, text, page>>

(* ainvoke went through every node.                                        *)
Rerun(w) ==
    /\ pc[w] = "rerun"
    /\ TRUE \in Sendable(w)
    /\ last' = [last EXCEPT ![w] = "done"]
    /\ pc' = [pc EXCEPT ![w] = "storing"]
    /\ UNCHANGED <<tableVars, session, link, creds, active, text, page>>

(* It did, but the client cannot be told: the answer is dropped.           *)
RerunUnseen(w) ==
    /\ pc[w] = "rerun"
    /\ FALSE \in Sendable(w)
    /\ Sent(w, FALSE)
    /\ Finish(w)
    /\ UNCHANGED <<tableVars, session, creds, page>>

(* ainvoke raised as well: the client is sent an error.                    *)
RerunRaises(w) ==
    /\ pc[w] = "rerun"
    /\ \E ok \in Sendable(w) : Sent(w, ok)
    /\ Finish(w)
    /\ UNCHANGED <<tableVars, session, creds, page>>

(* The answer is stored if the last state holds one, and "done" is sent.   *)
StoreAnswer(w) ==
    /\ pc[w] = "storing"
    /\ IF last[w] = "done"
          THEN /\ Save(w, Answer(text[w]))
               /\ Shown(w, Append(page[w], Answer(text[w])))
          ELSE UNCHANGED <<log, lost, page>>
    /\ \E ok \in Sendable(w) : Sent(w, ok)
    /\ Finish(w)
    /\ UNCHANGED <<settings, asked, session, creds>>

(* The client closes its page or loses its connection.                     *)
Drop(w) ==
    /\ pc[w] \notin {"new", "closed"}
    /\ link[w] = "up"
    /\ link' = [link EXCEPT ![w] = "lost"]
    /\ UNCHANGED <<tableVars, session, pc, creds, active, text, last, page>>

(* receive_text raises: WebSocketDisconnect, or RuntimeError after a send  *)
(* has failed.                                                             *)
End(w) ==
    /\ pc[w] = "idle"
    /\ link[w] # "up"
    /\ pc' = [pc EXCEPT ![w] = "closed"]
    /\ UNCHANGED <<tableVars, session, link, creds, active, text, last, page>>

(* A message that is not an object, or settings that cannot be loaded, end *)
(* the loop with an error.                                                 *)
Abort(w) ==
    /\ pc[w] = "idle"
    /\ link[w] # "broken"
    /\ \E ok \in Sendable(w) : Sent(w, ok)
    /\ pc' = [pc EXCEPT ![w] = "closed"]
    /\ UNCHANGED <<tableVars, session, creds, active, text, last, page>>

-----------------------------------------------------------------------------
Handle(w) ==
    \/ SaveQuestion(w) \/ Node(w) \/ NodeUnseen(w) \/ NodeRaises(w)
    \/ Rerun(w) \/ RerunUnseen(w) \/ RerunRaises(w) \/ StoreAnswer(w)

Next ==
    \/ \E s \in Sessions : Configure(s)
    \/ \E w \in Sockets : Connect(w) \/ Resume(w) \/ Ask(w) \/ Refuse(w) \/ Handle(w)
                          \/ Drop(w) \/ End(w) \/ Abort(w)

Spec == Init /\ [][Next]_vars

-----------------------------------------------------------------------------
TypeOK ==
    /\ settings \in [Sessions -> 0..MaxSaves]
    /\ log \in [Sessions -> Seq(Entries)]
    /\ lost \subseteq Entries
    /\ asked \subseteq Messages
    /\ session \in [Sockets -> Sessions \cup {None}]
    /\ link \in [Sockets -> {"up", "lost", "broken"}]
    /\ pc \in [Sockets -> Places]
    /\ creds \in [Sockets -> Credentials \cup {None}]
    /\ active \in [Sockets -> Credentials \cup {None}]
    /\ text \in [Sockets -> Messages \cup {None}]
    /\ last \in [Sockets -> Steps]
    /\ page \in [Sockets -> Seq(Entries)]

(* While the graph runs for a socket, its nodes find credentials of that   *)
(* socket's session, ones that were really saved, whatever other sockets   *)
(* run at the same time; afterwards they find none.                        *)
RunsOnOwnCredentials ==
    \A w \in Sockets :
        IF pc[w] \in Running
        THEN /\ active[w] # None
             /\ active[w].session = session[w]
             /\ active[w].version <= settings[session[w]]
        ELSE active[w] = None

(* However often a page loads the history and whoever else writes to it:   *)
(* everything a page shows is stored in its session, or its save failed,   *)
(* and is shown in the order in which it is stored.                        *)
PageFollowsHistory ==
    \A w \in Sockets : \A j \in 1..Len(page[w]) :
        LET q == log[session[w]] IN
        /\ page[w][j] \in lost \/ \E p \in 1..Len(q) : q[p] = page[w][j]
        /\ \A i \in 1..(j - 1) : \A p, r \in 1..Len(q) :
              q[p] = page[w][i] /\ q[r] = page[w][j] => p < r

(* A question is stored at most once and answered at most once, in its own *)
(* session and after it, even where the graph ran twice for it.            *)
D == INSTANCE Dialogue
ImplementsDialogue == D!Spec

(* A run leads forward through the pipeline, one step at a time and none  *)
(* twice; what goes back to the start is only a run whose stream failed.   *)
RunsGoForward ==
    [][\A w \in Sockets :
          pc[w] = "stream" /\ last'[w] # last[w]
             => \E i \in 1..7 : last[w] = Pipeline[i] /\ last'[w] = Pipeline[i + 1]]_vars

(* A client that stays until "done" was told the whole run and is shown    *)
(* the answer: "done" never comes without one.                             *)
StayedMeansAnswered ==
    [][\A w \in Sockets :
          pc[w] = "storing" /\ pc'[w] = "idle" /\ link[w] = "up"
             => page'[w] = Append(page[w], Answer(text[w]))]_vars
=============================================================================
