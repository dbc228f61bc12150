---------------------------- MODULE SessionSettings ----------------------------
(***************************************************************************)
(* aqr/chat/web.py on aqr/registry/store.py: a browser gets a session and  *)
(* its token from POST /chat/new, then shows and saves the settings of the *)
(* session.  Every request first makes sure that the session has a row, in *)
(* a transaction of its own, then reads and writes the settings in another.*)
(*                                                                         *)
(* The database is Postgres at its default level, READ COMMITTED: a read   *)
(* sees what is committed, a write waits for the transaction that holds    *)
(* the row, and a second INSERT of a key raises IntegrityError.  Every     *)
(* database call is a suspension.  Signature and expiry of a token are     *)
(* checked without the database.                                           *)
(***************************************************************************)
EXTENDS Integers

CONSTANTS Requests,   (* requests, each made once                          *)
          Sessions,
          Presigned,  (* sessions whose token was signed outside the app   *)
          Plain,      (* columns that hold what was entered                *)
          Encrypted,  (* columns that hold Fernet tokens, new at each save *)
          Values,
          Forms,      (* bound: the forms that are sent                    *)
          NoRow

Columns == Plain \cup Encrypted

ASSUME SettingsAssumption ==
    /\ Requests # {} /\ Sessions # {} /\ Values # {}
    /\ Presigned \subseteq Sessions
    /\ Encrypted # {}
    /\ Forms \subseteq [Columns -> Values]
    /\ NoRow \notin [Columns -> [value : Values, by : Requests]]

VARIABLES sessions, (* committed rows of table sessions                    *)
          settings, (* committed row of session_settings, or NoRow         *)
          token,    (* per session: "none", "valid" or "expired"           *)
          pc,       (* where a request is                                  *)
          kind,     (* "new", "view" or "save"                             *)
          sess,     (* the session of a request                            *)
          form,     (* what a save was sent                                *)
          loaded,   (* the row its transaction read                        *)
          pending,  (* the row it flushed                                  *)
          last      (* the last save of a session that took effect         *)

rowVars == <<sessions, settings, token, last>>
dataVars == <<kind, sess, form, loaded, pending>>
vars == <<rowVars, pc, dataVars>>

-----------------------------------------------------------------------------
Rows == [Columns -> [value : Values, by : Requests]]
NoForm == [c \in Columns |-> CHOOSE v \in Values : TRUE]
AnySession == CHOOSE s \in Sessions : TRUE
AnyRequest == CHOOSE r \in Requests : TRUE

Init ==
    /\ sessions = {}
    /\ settings = [s \in Sessions |-> NoRow]
    /\ token = [s \in Sessions |-> IF s \in Presigned THEN "valid" ELSE "none"]
    /\ pc = [r \in Requests |-> "idle"]
    /\ kind = [r \in Requests |-> "view"]
    /\ sess = [r \in Requests |-> AnySession]
    /\ form = [r \in Requests |-> NoForm]
    /\ loaded = [r \in Requests |-> NoRow]
    /\ pending = [r \in Requests |-> NoRow]
    /\ last = [s \in Sessions |-> AnyRequest]

Goto(r, place) == pc' = [pc EXCEPT ![r] = place]

Start(r, k, s) ==
    /\ pc[r] = "idle"
    /\ Goto(r, "finding")
    /\ kind' = [kind EXCEPT ![r] = k]
    /\ sess' = [sess EXCEPT ![r] = s]
    /\ UNCHANGED <<rowVars, loaded, pending>>

(* POST /chat/new: a session nobody has yet.                               *)
New(r, s) ==
    /\ token[s] = "none"
    /\ \A q \in Requests : pc[q] # "idle" => sess[q] # s
    /\ Start(r, "new", s)
    /\ UNCHANGED form

(* verify_token: signature and expiry.                                     *)
Verified(s) == token[s] = "valid"

(* GET /chat/{token}/settings and /settings/status.                        *)
View(r, s) ==
    /\ Verified(s)
    /\ Start(r, "view", s)
    /\ UNCHANGED form

(* POST /chat/{token}/settings.                                            *)
Save(r, s) ==
    /\ Verified(s)
    /\ \E f \in Forms : form' = [form EXCEPT ![r] = f]
    /\ Start(r, "save", s)

Holds(place, s) == \E q \in Requests : pc[q] = place /\ sess[q] = s

(* get_or_create_session: the SELECT.                                      *)
FindSession(r) ==
    /\ pc[r] = "finding"
    /\ Goto(r, IF sess[r] \in sessions THEN "reading" ELSE "inserting")
    /\ UNCHANGED <<rowVars, dataVars>>

(* Mutant: the key is not unique. *)
InsertSessionTwice(r) ==
    /\ pc[r] = "inserting"
    /\ Goto(r, IF sess[r] \in sessions THEN "error" ELSE "inserted")
    /\ UNCHANGED <<rowVars, dataVars>>

(* get_or_create_session: the INSERT, once no other transaction holds the  *)
(* key.                                                                    *)
InsertSession(r) ==
    /\ pc[r] = "inserting"
    /\ ~Holds("inserted", sess[r])
    /\ Goto(r, IF sess[r] \in sessions THEN "error" ELSE "inserted")
    /\ UNCHANGED <<rowVars, dataVars>>

(* Mutant: chat_new answers without a commit. *)
CommitSessionForgotten(r) ==
    /\ pc[r] = "inserted"
    /\ token' = [token EXCEPT ![sess[r]] = IF kind[r] = "new" THEN "valid" ELSE @]
    /\ Goto(r, IF kind[r] = "new" THEN "done" ELSE "reading")
    /\ UNCHANGED <<sessions, settings, last, dataVars>>

(* The commit; after it chat_new answers with the token.                   *)
CommitSession(r) ==
    /\ pc[r] = "inserted"
    /\ sessions' = sessions \cup {sess[r]}
    /\ token' = [token EXCEPT ![sess[r]] = IF kind[r] = "new" THEN "valid" ELSE @]
    /\ Goto(r, IF kind[r] = "new" THEN "done" ELSE "reading")
    /\ UNCHANGED <<settings, last, dataVars>>

(* load_session_settings, or the SELECT of save_session_settings.          *)
Read(r) ==
    /\ pc[r] = "reading"
    /\ loaded' = [loaded EXCEPT ![r] = settings[sess[r]]]
    /\ Goto(r, IF kind[r] = "save" THEN "writing" ELSE "done")
    /\ UNCHANGED <<rowVars, kind, sess, form, pending>>

(* Mutant: an encrypted column is written only if its plaintext changed. *)
ChangedText(r, c) == form[r][c] # loaded[r][c].value

(* What SQLAlchemy writes of an object it loaded: the attributes whose     *)
(* value changed.  A Fernet token is different each time.                  *)
Changed(r, c) == c \in Encrypted \/ form[r][c] # loaded[r][c].value

Entered(r, c) == [value |-> form[r][c], by |-> r]

(* The UPDATE goes to the row as it is when the lock is granted.           *)
Updated(r) ==
    [c \in Columns |-> IF Changed(r, c) THEN Entered(r, c) ELSE settings[sess[r]][c]]

(* The flush of save_session_settings: an INSERT if the SELECT found       *)
(* nothing, otherwise an UPDATE.                                           *)
Write(r) ==
    /\ pc[r] = "writing"
    /\ ~Holds("written", sess[r])
    /\ IF loaded[r] = NoRow /\ settings[sess[r]] # NoRow
          THEN /\ Goto(r, "error")
               /\ UNCHANGED pending
          ELSE /\ Goto(r, "written")
               /\ pending' = [pending EXCEPT ![r] =
                     IF loaded[r] = NoRow THEN [c \in Columns |-> Entered(r, c)] ELSE Updated(r)]
    /\ UNCHANGED <<rowVars, kind, sess, form, loaded>>

TakesEffect(r) ==
    /\ settings' = [settings EXCEPT ![sess[r]] = pending[r]]
    /\ last' = [last EXCEPT ![sess[r]] = r]
    /\ UNCHANGED <<sessions, token, dataVars>>

Commit(r) ==
    /\ pc[r] = "written"
    /\ TakesEffect(r)
    /\ Goto(r, "done")

(* A call of the database raises: the transaction is rolled back.          *)
Fails(r) ==
    /\ pc[r] \in {"finding", "inserting", "inserted", "reading", "writing", "written"}
    /\ Goto(r, "error")
    /\ UNCHANGED <<rowVars, dataVars>>

(* The commit raises after it took effect.                                 *)
CommitUnheard(r) ==
    /\ pc[r] = "written"
    /\ TakesEffect(r)
    /\ Goto(r, "error")

Expire(s) ==
    /\ token[s] = "valid"
    /\ token' = [token EXCEPT ![s] = "expired"]
    /\ UNCHANGED <<sessions, settings, last, pc, dataVars>>

-----------------------------------------------------------------------------
Goes(r) ==
    \/ FindSession(r) \/ InsertSession(r) \/ CommitSession(r)
    \/ Read(r) \/ Write(r) \/ Commit(r)

Next ==
    \/ \E r \in Requests :
          \/ \E s \in Sessions : New(r, s) \/ View(r, s) \/ Save(r, s)
          \/ Goes(r) \/ Fails(r) \/ CommitUnheard(r)
    \/ \E s \in Sessions : Expire(s)

Spec == Init /\ [][Next]_vars

-----------------------------------------------------------------------------
AtMostOne(place) ==
    \A q, r \in Requests : pc[q] = place /\ pc[r] = place /\ sess[q] = sess[r] => q = r

(* Types, and one transaction at a time holds a key or a row.              *)
TypeOK ==
    /\ sessions \subseteq Sessions
    /\ settings \in [Sessions -> Rows \cup {NoRow}]
    /\ token \in [Sessions -> {"none", "valid", "expired"}]
    /\ pc \in [Requests -> {"idle", "finding", "inserting", "inserted", "reading",
                            "writing", "written", "done", "error"}]
    /\ kind \in [Requests -> {"new", "view", "save"}]
    /\ sess \in [Requests -> Sessions]
    /\ form \in [Requests -> [Columns -> Values]]
    /\ loaded \in [Requests -> Rows \cup {NoRow}]
    /\ pending \in [Requests -> Rows \cup {NoRow}]
    /\ last \in [Sessions -> Requests]
    /\ AtMostOne("inserted") /\ AtMostOne("written")

(* The keys of a session are always those of one save, the last one that   *)
(* took effect: no interleaving of saves pairs the LLM key of one with the *)
(* broker token of another.                                                *)
KeysTogether ==
    \A s \in Sessions :
        settings[s] # NoRow =>
            \A c \in Encrypted : settings[s][c] = Entered(last[s], c)

(* A token that /chat/new gave out belongs to a committed session, so that *)
(* the handshake of a socket, which looks for the row, lets it in; and     *)
(* settings never exist without their session.                             *)
TokenMeansSession ==
    \A s \in Sessions :
        \/ s \in sessions
        \/ settings[s] = NoRow /\ (s \in Presigned \/ token[s] = "none")
=============================================================================
