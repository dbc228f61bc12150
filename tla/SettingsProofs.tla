---------------------------- MODULE SettingsProofs ----------------------------
(***************************************************************************)
(* The settings page of aqr/chat/web.py.                                   *)
(*                                                                         *)
(* That saves never mix the keys of two of them, and that no token is      *)
(* given out for a session without a row, for any number of requests,      *)
(* sessions, columns and values, whatever fails.  The argument: what a     *)
(* save has flushed holds all of its own keys, because a Fernet token      *)
(* never equals the one that was read, and a row that exists was written   *)
(* by a request that is over.                                              *)
(*                                                                         *)
(* And that the token buckets in front of them bound the requests of every *)
(* address in every stretch of time, and that forgetting idle buckets      *)
(* cannot be noticed, for any number of addresses and any limits with      *)
(* MaxAge >= Capacity: a bucket is forgotten only once it is full.         *)
(***************************************************************************)
EXTENDS SessionSettings, RateLimit, TLAPS

(* A flushed row has the keys of its save.                                 *)
FlushedIsWhole ==
    \A r \in Requests :
        pc[r] = "written" =>
            /\ pending[r] \in Rows
            /\ \A c \in Encrypted : pending[r][c] = Entered(r, c)

(* Rows are never deleted.                                                 *)
ReadStillThere ==
    \A r \in Requests :
        pc[r] = "writing" /\ loaded[r] # NoRow => settings[sess[r]] # NoRow

LastIsOver ==
    \A s \in Sessions : settings[s] # NoRow => pc[last[s]] \in {"done", "error"}

(* Settings are only touched for a session that has its row.               *)
SessionFirst ==
    \A r \in Requests :
        pc[r] \in {"reading", "writing", "written"} => sess[r] \in sessions

IInv ==
    /\ TypeOK
    /\ FlushedIsWhole
    /\ ReadStillThere
    /\ LastIsOver
    /\ SessionFirst
    /\ KeysTogether
    /\ TokenMeansSession

-----------------------------------------------------------------------------
LEMMA EnteredType ==
    ASSUME TypeOK, NEW r \in Requests, NEW c \in Columns
    PROVE  Entered(r, c) \in [value : Values, by : Requests]
  <1>1. form[r] \in [Columns -> Values] BY DEF TypeOK
  <1>2. form[r][c] \in Values BY <1>1
  <1> QED BY <1>2 DEF Entered

LEMMA InitInv == Init => IInv
  <1> SUFFICES ASSUME Init PROVE IInv OBVIOUS
  <1>1. AnySession \in Sessions /\ AnyRequest \in Requests
    BY SettingsAssumption DEF AnySession, AnyRequest
  <1>2. NoForm \in [Columns -> Values]
    <2>1. (CHOOSE v \in Values : TRUE) \in Values BY SettingsAssumption
    <2> QED BY <2>1 DEF NoForm
  <1>3. \A r \in Requests : pc[r] = "idle" BY DEF Init
  <1>4. AtMostOne("inserted") /\ AtMostOne("written") BY <1>3 DEF AtMostOne
  <1>5. /\ settings \in [Sessions -> Rows \cup {NoRow}]
        /\ token \in [Sessions -> {"none", "valid", "expired"}]
        /\ pc \in [Requests -> {"idle", "finding", "inserting", "inserted", "reading",
                                "writing", "written", "done", "error"}]
        /\ kind \in [Requests -> {"new", "view", "save"}]
    BY DEF Init
  <1>6. /\ sess \in [Requests -> Sessions]
        /\ form \in [Requests -> [Columns -> Values]]
        /\ loaded \in [Requests -> Rows \cup {NoRow}]
        /\ pending \in [Requests -> Rows \cup {NoRow}]
        /\ last \in [Sessions -> Requests]
    BY <1>1, <1>2 DEF Init
  <1>7. TypeOK
    BY <1>4, <1>5, <1>6 DEF TypeOK, Init
  <1>8. \A s \in Sessions : settings[s] = NoRow BY DEF Init
  <1>9. TokenMeansSession BY <1>8 DEF TokenMeansSession, Init
  <1> QED BY <1>3, <1>7, <1>8, <1>9
          DEF IInv, FlushedIsWhole, ReadStillThere, LastIsOver, SessionFirst, KeysTogether

(* A request that only moves on, to a place that asks for nothing.         *)
LEMMA MoveInv ==
    ASSUME IInv, NEW r \in Requests, NEW place,
           Goto(r, place), UNCHANGED <<rowVars, dataVars>>,
           pc[r] \notin {"idle", "done"},
           pc[r] # "error",
           \/ place = "error"
           \/ place = "inserting"
           \/ place = "inserted" /\ ~Holds("inserted", sess[r])
           \/ place = "reading" /\ sess[r] \in sessions
    PROVE  IInv'
  <1> USE DEF IInv
  <1>1. /\ pc' = [pc EXCEPT ![r] = place]
        /\ UNCHANGED <<sessions, settings, token, last, kind, sess, form, loaded, pending>>
    BY DEF Goto, rowVars, dataVars
  <1>2. pc'[r] = place /\ \A q \in Requests \ {r} : pc'[q] = pc[q]
    BY <1>1 DEF TypeOK
  <1>3. AtMostOne("inserted")'
    BY <1>1, <1>2 DEF AtMostOne, Holds, TypeOK
  <1>4. AtMostOne("written")'
    BY <1>1, <1>2 DEF AtMostOne, TypeOK
  <1>5. TypeOK' BY <1>1, <1>3, <1>4 DEF TypeOK
  <1>6. FlushedIsWhole' /\ ReadStillThere' /\ SessionFirst'
    BY <1>1, <1>2 DEF FlushedIsWhole, ReadStillThere, SessionFirst, Entered
  <1>7. LastIsOver'
    BY <1>1, <1>2 DEF LastIsOver, TypeOK
  <1>8. KeysTogether' /\ TokenMeansSession'
    BY <1>1 DEF KeysTogether, TokenMeansSession, Entered
  <1> QED BY <1>5, <1>6, <1>7, <1>8

LEMMA StartInv ==
    ASSUME IInv, NEW r \in Requests, NEW s \in Sessions,
           NEW k \in {"new", "view", "save"}, Start(r, k, s),
           form' \in [Requests -> [Columns -> Values]],
           \A q \in Requests \ {r} : form'[q] = form[q]
    PROVE  IInv'
  <1> USE DEF IInv
  <1>1. /\ pc[r] = "idle"
        /\ pc' = [pc EXCEPT ![r] = "finding"]
        /\ kind' = [kind EXCEPT ![r] = k]
        /\ sess' = [sess EXCEPT ![r] = s]
        /\ UNCHANGED <<sessions, settings, token, last, loaded, pending>>
    BY DEF Start, Goto, rowVars
  <1>2. /\ pc'[r] = "finding"
        /\ \A q \in Requests \ {r} : pc'[q] = pc[q] /\ sess'[q] = sess[q]
    BY <1>1 DEF TypeOK
  <1>3. AtMostOne("inserted")' /\ AtMostOne("written")'
    <2>1. ASSUME NEW place \in {"inserted", "written"},
                 NEW p \in Requests, NEW q \in Requests,
                 pc'[p] = place, pc'[q] = place, sess'[p] = sess'[q]
          PROVE  p = q
      <3>1. p # r /\ q # r BY <1>2, <2>1
      <3>2. pc[p] = place /\ pc[q] = place /\ sess[p] = sess[q]
        BY <1>2, <2>1, <3>1
      <3> QED BY <2>1, <3>2 DEF AtMostOne, TypeOK
    <2> QED BY <2>1 DEF AtMostOne
  <1>4. TypeOK' BY <1>1, <1>3 DEF TypeOK
  <1>5. FlushedIsWhole' /\ ReadStillThere' /\ SessionFirst'
    BY <1>1, <1>2 DEF FlushedIsWhole, ReadStillThere, SessionFirst, Entered
  <1>6. LastIsOver' BY <1>1, <1>2 DEF LastIsOver, TypeOK
  <1>7. KeysTogether'
    <2>1. ASSUME NEW z \in Sessions, settings[z] # NoRow, NEW c \in Encrypted
          PROVE  settings'[z][c] = [value |-> form'[last'[z]][c], by |-> last'[z]]
      <3>1. last[z] \in Requests BY DEF TypeOK
      <3>2. last[z] # r BY <1>1, <2>1 DEF LastIsOver
      <3>3. form'[last[z]] = form[last[z]] BY <3>1, <3>2
      <3>4. settings[z][c] = [value |-> form[last[z]][c], by |-> last[z]]
        BY <2>1 DEF KeysTogether, Entered
      <3> QED BY <1>1, <3>3, <3>4
    <2> QED BY <1>1, <2>1 DEF KeysTogether, Entered
  <1>8. TokenMeansSession' BY <1>1 DEF TokenMeansSession
  <1> QED BY <1>4, <1>5, <1>6, <1>7, <1>8

LEMMA CommitSessionInv ==
    ASSUME IInv, NEW r \in Requests, CommitSession(r) PROVE IInv'
  <1> USE DEF IInv
  <1> DEFINE place == IF kind[r] = "new" THEN "done" ELSE "reading"
  <1>1. /\ pc[r] = "inserted"
        /\ sessions' = sessions \cup {sess[r]}
        /\ token' = [token EXCEPT ![sess[r]] = IF kind[r] = "new" THEN "valid" ELSE @]
        /\ pc' = [pc EXCEPT ![r] = place]
        /\ UNCHANGED <<settings, last, kind, sess, form, loaded, pending>>
    BY DEF CommitSession, Goto, dataVars
  <1>2. /\ pc'[r] = place
        /\ \A q \in Requests \ {r} : pc'[q] = pc[q]
        /\ place \in {"done", "reading"}
    BY <1>1 DEF TypeOK
  <1>3. AtMostOne("inserted")' /\ AtMostOne("written")'
    BY <1>1, <1>2 DEF AtMostOne, TypeOK
  <1>4. sess[r] \in Sessions BY DEF TypeOK
  <1>5. TypeOK' BY <1>1, <1>2, <1>3, <1>4 DEF TypeOK
  <1>6. FlushedIsWhole' /\ ReadStillThere' /\ SessionFirst'
    BY <1>1, <1>2 DEF FlushedIsWhole, ReadStillThere, SessionFirst, Entered
  <1>7. LastIsOver' BY <1>1, <1>2 DEF LastIsOver, TypeOK
  <1>8. KeysTogether' BY <1>1 DEF KeysTogether, Entered
  <1>9. TokenMeansSession'
    BY <1>1, <1>4 DEF TokenMeansSession, TypeOK
  <1> QED BY <1>5, <1>6, <1>7, <1>8, <1>9

LEMMA ReadInv == ASSUME IInv, NEW r \in Requests, Read(r) PROVE IInv'
  <1> USE DEF IInv
  <1> DEFINE place == IF kind[r] = "save" THEN "writing" ELSE "done"
  <1>1. /\ pc[r] = "reading"
        /\ loaded' = [loaded EXCEPT ![r] = settings[sess[r]]]
        /\ pc' = [pc EXCEPT ![r] = place]
        /\ UNCHANGED <<sessions, settings, token, last, kind, sess, form, pending>>
    BY DEF Read, Goto, rowVars
  <1>2. /\ pc'[r] = place
        /\ loaded'[r] = settings[sess[r]]
        /\ \A q \in Requests \ {r} : pc'[q] = pc[q] /\ loaded'[q] = loaded[q]
        /\ place \in {"done", "writing"}
    BY <1>1 DEF TypeOK
  <1>3. AtMostOne("inserted")' /\ AtMostOne("written")'
    BY <1>1, <1>2 DEF AtMostOne, TypeOK
  <1>4. settings[sess[r]] \in Rows \cup {NoRow} BY DEF TypeOK
  <1>5. TypeOK' BY <1>1, <1>2, <1>3, <1>4 DEF TypeOK
  <1>6. FlushedIsWhole' /\ ReadStillThere' /\ SessionFirst'
    BY <1>1, <1>2 DEF FlushedIsWhole, ReadStillThere, SessionFirst, Entered
  <1>7. LastIsOver' BY <1>1, <1>2 DEF LastIsOver, TypeOK
  <1>8. KeysTogether' /\ TokenMeansSession'
    BY <1>1 DEF KeysTogether, TokenMeansSession, Entered
  <1> QED BY <1>5, <1>6, <1>7, <1>8

(* What a save flushes, into a new row or into the one there is.           *)
LEMMA FlushedType ==
    ASSUME TypeOK, NEW r \in Requests, NEW row,
           \/ row = [c \in Columns |-> Entered(r, c)]
           \/ row = Updated(r) /\ settings[sess[r]] # NoRow
    PROVE  row \in Rows /\ \A c \in Encrypted : row[c] = Entered(r, c)
  <1>1. \A c \in Columns : Entered(r, c) \in [value : Values, by : Requests]
    BY EnteredType
  <1>2. Encrypted \subseteq Columns BY DEF Columns
  <1>3. CASE row = [c \in Columns |-> Entered(r, c)]
    BY <1>1, <1>2, <1>3 DEF Rows
  <1>4. CASE row = Updated(r) /\ settings[sess[r]] # NoRow
    <2>1. settings[sess[r]] \in Rows BY <1>4 DEF TypeOK
    <2>2. \A c \in Columns : settings[sess[r]][c] \in [value : Values, by : Requests]
      BY <2>1 DEF Rows
    <2>3. \A c \in Encrypted : Changed(r, c) BY DEF Changed
    <2> QED BY <1>1, <1>2, <1>4, <2>2, <2>3 DEF Rows, Updated
  <1> QED BY <1>3, <1>4

LEMMA WriteInv == ASSUME IInv, NEW r \in Requests, Write(r) PROVE IInv'
  <1> USE DEF IInv
  <1>1. /\ pc[r] = "writing"
        /\ ~Holds("written", sess[r])
        /\ UNCHANGED <<sessions, settings, token, last, kind, sess, form, loaded>>
    BY DEF Write, rowVars
  <1>2. CASE loaded[r] = NoRow /\ settings[sess[r]] # NoRow
    <2>1. Goto(r, "error") /\ UNCHANGED <<rowVars, dataVars>>
      BY <1>2 DEF Write, dataVars
    <2> QED BY <1>1, <2>1, MoveInv
  <1>3. CASE ~(loaded[r] = NoRow /\ settings[sess[r]] # NoRow)
    <2> DEFINE row == IF loaded[r] = NoRow THEN [c \in Columns |-> Entered(r, c)]
                      ELSE Updated(r)
    <2>1. pc' = [pc EXCEPT ![r] = "written"] /\ pending' = [pending EXCEPT ![r] = row]
      BY <1>3 DEF Write, Goto
    <2>2. loaded[r] # NoRow => settings[sess[r]] # NoRow
      BY <1>1 DEF ReadStillThere
    <2>3. row \in Rows /\ \A c \in Encrypted : row[c] = Entered(r, c)
      <3>1. \/ row = [c \in Columns |-> Entered(r, c)]
            \/ row = Updated(r) /\ settings[sess[r]] # NoRow
        BY <2>2
      <3> HIDE DEF row
      <3> QED BY <3>1, FlushedType
    <2> HIDE DEF row
    <2>4. /\ pc'[r] = "written"
          /\ pending'[r] = row
          /\ \A q \in Requests \ {r} : pc'[q] = pc[q] /\ pending'[q] = pending[q]
      BY <2>1 DEF TypeOK
    <2>5. AtMostOne("inserted")' BY <1>1, <2>4 DEF AtMostOne, TypeOK
    <2>6. AtMostOne("written")' BY <1>1, <2>4 DEF AtMostOne, TypeOK, Holds
    <2>7. TypeOK' BY <1>1, <2>1, <2>3, <2>5, <2>6 DEF TypeOK
    <2>8. FlushedIsWhole' BY <1>1, <2>3, <2>4 DEF FlushedIsWhole, Entered
    <2>9. ReadStillThere' /\ SessionFirst'
      BY <1>1, <2>4 DEF ReadStillThere, SessionFirst
    <2>10. LastIsOver' BY <1>1, <2>4 DEF LastIsOver, TypeOK
    <2>11. KeysTogether' /\ TokenMeansSession'
      BY <1>1 DEF KeysTogether, TokenMeansSession, Entered
    <2> QED BY <2>7, <2>8, <2>9, <2>10, <2>11
  <1> QED BY <1>2, <1>3

(* A save takes effect, whether its caller learns of it or not.            *)
LEMMA CommitInv ==
    ASSUME IInv, NEW r \in Requests, NEW place \in {"done", "error"},
           pc[r] = "written", TakesEffect(r), Goto(r, place)
    PROVE  IInv'
  <1> USE DEF IInv
  <1>1. /\ settings' = [settings EXCEPT ![sess[r]] = pending[r]]
        /\ last' = [last EXCEPT ![sess[r]] = r]
        /\ pc' = [pc EXCEPT ![r] = place]
        /\ UNCHANGED <<sessions, token, kind, sess, form, loaded, pending>>
    BY DEF TakesEffect, Goto, dataVars
  <1>2. /\ pc'[r] = place
        /\ \A q \in Requests \ {r} : pc'[q] = pc[q]
    BY <1>1 DEF TypeOK
  <1>3. /\ sess[r] \in Sessions
        /\ settings'[sess[r]] = pending[r]
        /\ last'[sess[r]] = r
        /\ \A z \in Sessions \ {sess[r]} : settings'[z] = settings[z] /\ last'[z] = last[z]
    BY <1>1 DEF TypeOK
  <1>4. /\ pending[r] \in Rows
        /\ pending[r] # NoRow
        /\ \A c \in Encrypted : pending[r][c] = Entered(r, c)
    BY SettingsAssumption DEF FlushedIsWhole, Rows
  <1>5. AtMostOne("inserted")' /\ AtMostOne("written")'
    BY <1>1, <1>2 DEF AtMostOne, TypeOK
  <1>6. TypeOK' BY <1>1, <1>4, <1>5 DEF TypeOK
  <1>7. FlushedIsWhole' /\ SessionFirst'
    BY <1>1, <1>2 DEF FlushedIsWhole, SessionFirst, Entered
  <1>8. ReadStillThere'
    BY <1>1, <1>2, <1>3, <1>4 DEF ReadStillThere, TypeOK
  <1>9. LastIsOver' BY <1>1, <1>2, <1>3 DEF LastIsOver, TypeOK
  <1>10. KeysTogether'
    BY <1>1, <1>3, <1>4 DEF KeysTogether, Entered
  <1>11. TokenMeansSession'
    BY <1>1, <1>3 DEF TokenMeansSession, SessionFirst
  <1> QED BY <1>6, <1>7, <1>8, <1>9, <1>10, <1>11

LEMMA StepInv == IInv /\ [Next]_vars => IInv'
  <1> SUFFICES ASSUME IInv, [Next]_vars PROVE IInv' OBVIOUS
  <1>1. ASSUME NEW r \in Requests, NEW s \in Sessions, New(r, s) \/ View(r, s)
        PROVE  IInv'
    <2>1. PICK k \in {"new", "view", "save"} : Start(r, k, s) /\ form' = form
      BY <1>1 DEF New, View
    <2>2. form' \in [Requests -> [Columns -> Values]]
      BY <2>1 DEF IInv, TypeOK
    <2> QED BY <2>1, <2>2, StartInv
  <1>2. ASSUME NEW r \in Requests, NEW s \in Sessions, Save(r, s) PROVE IInv'
    <2>1. PICK f \in Forms : form' = [form EXCEPT ![r] = f] BY <1>2 DEF Save
    <2>2. f \in [Columns -> Values] BY SettingsAssumption
    <2>3. /\ form' \in [Requests -> [Columns -> Values]]
          /\ \A q \in Requests \ {r} : form'[q] = form[q]
      BY <2>1, <2>2 DEF IInv, TypeOK
    <2>4. Start(r, "save", s) BY <1>2 DEF Save
    <2> QED BY <2>3, <2>4, StartInv
  <1>3. ASSUME NEW r \in Requests, FindSession(r) \/ InsertSession(r) \/ Fails(r)
        PROVE  IInv'
    <2>1. /\ UNCHANGED <<rowVars, dataVars>>
          /\ pc[r] \notin {"idle", "done"} /\ pc[r] # "error"
      BY <1>3 DEF FindSession, InsertSession, Fails
    <2>2. \/ Goto(r, "error")
          \/ Goto(r, "inserting")
          \/ Goto(r, "inserted") /\ ~Holds("inserted", sess[r])
          \/ Goto(r, "reading") /\ sess[r] \in sessions
      BY <1>3 DEF FindSession, InsertSession, Fails
    <2> QED BY <2>1, <2>2, MoveInv
  <1>4. ASSUME NEW r \in Requests, CommitSession(r) PROVE IInv'
    BY <1>4, CommitSessionInv
  <1>5. ASSUME NEW r \in Requests, Read(r) PROVE IInv'
    BY <1>5, ReadInv
  <1>6. ASSUME NEW r \in Requests, Write(r) PROVE IInv'
    BY <1>6, WriteInv
  <1>7. ASSUME NEW r \in Requests, Commit(r) \/ CommitUnheard(r) PROVE IInv'
    BY <1>7, CommitInv DEF Commit, CommitUnheard
  <1>8. ASSUME NEW s \in Sessions, Expire(s) PROVE IInv'
    <2>1. /\ token[s] = "valid"
          /\ token' = [token EXCEPT ![s] = "expired"]
          /\ UNCHANGED <<sessions, settings, last, pc, kind, sess, form, loaded, pending>>
      BY <1>8 DEF Expire, dataVars
    <2>2. TypeOK' BY <2>1 DEF IInv, TypeOK, AtMostOne
    <2>3. TokenMeansSession' BY <2>1 DEF IInv, TokenMeansSession, TypeOK
    <2> QED BY <2>1, <2>2, <2>3
            DEF IInv, FlushedIsWhole, ReadStillThere, LastIsOver, SessionFirst,
                KeysTogether, Entered
  <1>9. CASE UNCHANGED vars
    <2>1. UNCHANGED <<sessions, settings, token, last, pc, kind, sess, form, loaded, pending>>
      BY <1>9 DEF vars, rowVars, dataVars
    <2> QED BY <2>1
            DEF IInv, TypeOK, AtMostOne, FlushedIsWhole, ReadStillThere, LastIsOver,
                SessionFirst, KeysTogether, TokenMeansSession, Entered
  <1> QED BY <1>1, <1>2, <1>3, <1>4, <1>5, <1>6, <1>7, <1>8, <1>9 DEF Next, Goes

(* The inductive invariant of the settings holds in every reachable state. *)
THEOREM Invariance == Spec => []IInv
  BY InitInv, StepInv, PTL DEF Spec

(* Types, and one transaction at a time holds a key or a row.              *)
THEOREM TypeCorrect == Spec => []TypeOK
  BY Invariance, PTL DEF IInv

(* The keys of a session are those of the save that took effect last.      *)
THEOREM KeysAreOfOneSave == Spec => []KeysTogether
  BY Invariance, PTL DEF IInv

(* A token that was given out belongs to a session that exists.            *)
THEOREM TokensHaveSessions == Spec => []TokenMeansSession
  BY Invariance, PTL DEF IInv

-----------------------------------------------------------------------------
(* What flows in while requests are counted is either spent or still there.*)
Conserved ==
    \A a \in Addresses : Cost * accepted[a] + Level(a) <= Capacity + watched

RateIInv == RateTypeOK /\ Conserved

-----------------------------------------------------------------------------
(* A bucket holds between nothing and Capacity.                            *)
LEMMA LevelType ==
    ASSUME RateTypeOK, NEW a \in Addresses
    PROVE  /\ Level(a) \in 0..Capacity
           /\ Filled(Level(a)) = Level(a)
  BY RateAssumption DEF RateTypeOK, Level, Filled

(* A bucket that may be forgotten is full.                                 *)
LEMMA StaleIsFull ==
    ASSUME RateTypeOK, NEW a \in Addresses, Stale(a)
    PROVE  Level(a) = Capacity
  BY RateAssumption DEF RateTypeOK, Stale, Level, Filled

(* Using one bucket leaves what the others hold, forgotten or not.         *)
LEMMA KeepLevels ==
    ASSUME RateTypeOK, NEW a \in Addresses, NEW n \in 0..Capacity,
           NEW forgotten \in SUBSET {b \in Addresses \ {a} : Stale(b)},
           Keep(a, n, forgotten)
    PROVE  /\ known' \subseteq Addresses
           /\ tokens' \in [Addresses -> 0..Capacity]
           /\ age' \in [Addresses -> 0..(MaxAge + 1)]
           /\ Level(a)' = n
           /\ \A b \in Addresses \ {a} : Level(b)' = Level(b)
  <1>1. /\ known' = (known \ forgotten) \cup {a}
        /\ tokens' \in [Addresses -> 0..Capacity]
        /\ age' \in [Addresses -> 0..(MaxAge + 1)]
        /\ known' \subseteq Addresses
    BY RateAssumption DEF Keep, RateTypeOK
  <1>2. Level(a)' = n
    <2>1. tokens'[a] = n /\ age'[a] = 0 /\ a \in known'
      BY DEF Keep
    <2> QED BY <2>1, RateAssumption DEF Level, Filled
  <1>3. ASSUME NEW b \in Addresses \ {a} PROVE Level(b)' = Level(b)
    <2>1. CASE b \in forgotten
      <3>1. Level(b) = Capacity BY <2>1, StaleIsFull
      <3>2. b \notin known' BY <2>1, <1>1
      <3> QED BY <3>1, <3>2 DEF Level
    <2>2. CASE b \notin known
      <3>1. b \notin known' BY <2>2, <1>1
      <3> QED BY <2>2, <3>1 DEF Level
    <2>3. CASE b \in known /\ b \notin forgotten
      <3>1. b \in known' BY <2>3, <1>1
      <3>2. tokens'[b] = tokens[b] /\ age'[b] = age[b]
        BY <2>3, <3>1 DEF Keep
      <3> QED BY <2>3, <3>1, <3>2 DEF Level, Filled
    <2> QED BY <2>1, <2>2, <2>3
  <1> QED BY <1>1, <1>2, <1>3

(* One more request costs Cost more.                                       *)
LEMMA OneMore ==
    ASSUME NEW n \in Nat
    PROVE  /\ Cost * (n + 1) = Cost * n + Cost
           /\ Cost * n \in Nat
  BY RateAssumption

(* While the time goes on by one, every bucket gains one, up to Capacity.  *)
LEMMA TickFills ==
    ASSUME RateTypeOK, Tick, NEW a \in Addresses
    PROVE  Level(a)' = Filled(Level(a) + 1)
  <1>1. CASE a \notin known
    <2>1. a \notin known' BY <1>1 DEF Tick
    <2> QED BY <1>1, <2>1, RateAssumption DEF Level, Filled
  <1>2. CASE a \in known
    <2>1. a \in known' /\ tokens'[a] = tokens[a] /\ age'[a] = Older(a)
      BY <1>2 DEF Tick
    <2>2. Level(a)' = Filled(tokens[a] + Older(a))
      BY <2>1 DEF Level, Filled
    <2>3. tokens[a] \in 0..Capacity /\ age[a] \in 0..(MaxAge + 1)
      BY DEF RateTypeOK
    <2> QED BY <1>2, <2>2, <2>3, RateAssumption DEF Level, Filled, Older
  <1> QED BY <1>1, <1>2

-----------------------------------------------------------------------------
LEMMA RateInitInv == RateInit => RateIInv
  <1> SUFFICES ASSUME RateInit PROVE RateIInv OBVIOUS
  <1>1. RateTypeOK BY RateAssumption DEF RateInit, RateTypeOK
  <1>2. ASSUME NEW a \in Addresses
        PROVE  Cost * accepted[a] + Level(a) <= Capacity + watched
    <2>1. accepted[a] = 0 /\ watched = 0 /\ Level(a) = Capacity
      BY DEF RateInit, Level
    <2> QED BY <2>1, RateAssumption
  <1> QED BY <1>1, <1>2 DEF RateIInv, Conserved

LEMMA AcceptInv ==
    ASSUME RateIInv, NEW a \in Addresses, Accept(a) PROVE RateIInv'
  <1> USE DEF RateIInv
  <1> DEFINE stale == {b \in Addresses \ {a} : Stale(b)}
             paid == Level(a) - Cost
  <1>1. paid \in 0..Capacity
    BY LevelType, RateAssumption DEF Accept
  <1>2. Keep(a, paid, stale) BY DEF Accept
  <1> HIDE DEF paid
  <1>3. /\ known' \subseteq Addresses
        /\ tokens' \in [Addresses -> 0..Capacity]
        /\ age' \in [Addresses -> 0..(MaxAge + 1)]
        /\ Level(a)' = paid
        /\ \A b \in Addresses \ {a} : Level(b)' = Level(b)
    BY <1>1, <1>2, KeepLevels
  <1>4. /\ accepted' = [accepted EXCEPT ![a] = @ + 1]
        /\ accepted \in [Addresses -> Nat]
        /\ watched' = watched
        /\ watched \in 0..LongestWatch
    BY DEF Accept, RateTypeOK
  <1>5. RateTypeOK'
    BY <1>3, <1>4 DEF RateTypeOK
  <1>6. ASSUME NEW b \in Addresses
        PROVE  Cost * accepted'[b] + Level(b)' <= Capacity + watched'
    <2>1. Cost * accepted[b] + Level(b) <= Capacity + watched
      BY DEF Conserved
    <2>2. CASE b # a
      BY <1>3, <1>4, <2>1, <2>2
    <2>3. CASE b = a
      <3>1. accepted'[a] = accepted[a] + 1 /\ accepted[a] \in Nat
        BY <1>4
      <3>2. Cost * accepted'[a] = Cost * accepted[a] + Cost /\ Cost * accepted[a] \in Nat
        BY <3>1, OneMore
      <3>3. Level(a) \in 0..Capacity BY LevelType
      <3>4. Level(a)' = Level(a) - Cost BY <1>3 DEF paid
      <3> QED BY <1>4, <2>1, <2>3, <3>2, <3>3, <3>4, RateAssumption
    <2> QED BY <2>2, <2>3
  <1> QED BY <1>5, <1>6 DEF Conserved

LEMMA RefuseLevels ==
    ASSUME RateTypeOK, NEW a \in Addresses, Refuse(a)
    PROVE  RateTypeOK' /\ \A b \in Addresses : Level(b)' = Level(b)
  <1>1. Level(a) \in 0..Capacity BY LevelType
  <1>2. Keep(a, Level(a), {}) /\ accepted' = accepted /\ watched' = watched
    BY DEF Refuse
  <1>3. /\ known' \subseteq Addresses
        /\ tokens' \in [Addresses -> 0..Capacity]
        /\ age' \in [Addresses -> 0..(MaxAge + 1)]
        /\ Level(a)' = Level(a)
        /\ \A b \in Addresses \ {a} : Level(b)' = Level(b)
    <2> DEFINE n == Level(a)
    <2>1. n \in 0..Capacity /\ Keep(a, n, {}) BY <1>1, <1>2
    <2> HIDE DEF n
    <2>2. {} \in SUBSET {b \in Addresses \ {a} : Stale(b)} OBVIOUS
    <2>3. /\ known' \subseteq Addresses
          /\ tokens' \in [Addresses -> 0..Capacity]
          /\ age' \in [Addresses -> 0..(MaxAge + 1)]
          /\ Level(a)' = n
          /\ \A b \in Addresses \ {a} : Level(b)' = Level(b)
      BY <2>1, <2>2, KeepLevels
    <2> QED BY <2>3 DEF n
  <1> QED BY <1>2, <1>3 DEF RateTypeOK

LEMMA RateStepInv == RateIInv /\ [RateNext]_rateVars => RateIInv'
  <1> SUFFICES ASSUME RateIInv, [RateNext]_rateVars PROVE RateIInv' OBVIOUS
  <1> USE DEF RateIInv
  <1>1. CASE Tick
    <2>1. /\ watched' = watched + 1
          /\ watched < LongestWatch
          /\ accepted' = accepted
          /\ known' = known
          /\ tokens' = tokens
          /\ age' = [a \in Addresses |-> IF a \in known THEN Older(a) ELSE 0]
      BY <1>1 DEF Tick
    <2>2. ASSUME NEW a \in Addresses PROVE Older(a) \in 0..(MaxAge + 1)
      BY RateAssumption DEF RateTypeOK, Older
    <2>3. RateTypeOK' BY <2>1, <2>2, RateAssumption DEF RateTypeOK
    <2>4. ASSUME NEW a \in Addresses
          PROVE  Cost * accepted'[a] + Level(a)' <= Capacity + watched'
      <3>1. Cost * accepted[a] + Level(a) <= Capacity + watched
        BY DEF Conserved
      <3>2. Level(a)' = Filled(Level(a) + 1) BY <1>1, TickFills
      <3>3. Level(a) \in 0..Capacity BY LevelType
      <3>4. Level(a)' \in 0..(Level(a) + 1)
        BY <3>2, <3>3, RateAssumption DEF Filled
      <3>5. accepted[a] \in Nat /\ watched \in Nat BY DEF RateTypeOK
      <3>6. Cost * accepted[a] \in Nat BY <3>5, OneMore
      <3> QED BY <2>1, <3>1, <3>3, <3>4, <3>5, <3>6, RateAssumption
    <2> QED BY <2>3, <2>4 DEF Conserved
  <1>2. CASE Watch
    <2>1. /\ accepted' = [a \in Addresses |-> 0]
          /\ watched' = 0
          /\ UNCHANGED buckets
      BY <1>2 DEF Watch
    <2>2. RateTypeOK' BY <2>1, RateAssumption DEF RateTypeOK, buckets
    <2>3. ASSUME NEW a \in Addresses
          PROVE  Cost * accepted'[a] + Level(a)' <= Capacity + watched'
      <3>1. Level(a)' \in 0..Capacity
        BY <2>2, RateAssumption DEF RateTypeOK, Level, Filled
      <3> QED BY <2>1, <3>1, RateAssumption
    <2> QED BY <2>2, <2>3 DEF Conserved
  <1>3. CASE \E a \in Addresses : Accept(a)
    BY <1>3, AcceptInv
  <1>4. CASE \E a \in Addresses : Refuse(a)
    <2>1. PICK a \in Addresses : Refuse(a) BY <1>4
    <2>2. RateTypeOK' /\ \A b \in Addresses : Level(b)' = Level(b)
      BY <2>1, RefuseLevels
    <2>3. accepted' = accepted /\ watched' = watched BY <2>1 DEF Refuse
    <2> QED BY <2>2, <2>3 DEF Conserved
  <1>5. CASE UNCHANGED rateVars
    BY <1>5 DEF rateVars, buckets, RateTypeOK, Conserved, Level, Filled
  <1> QED BY <1>1, <1>2, <1>3, <1>4, <1>5 DEF RateNext

(* The inductive invariant of the buckets holds in every reachable state.  *)
THEOREM RateInvariance == RateSpec => []RateIInv
  BY RateInitInv, RateStepInv, PTL DEF RateSpec

(* Types, for any limits.                                                  *)
THEOREM RateTypeCorrect == RateSpec => []RateTypeOK
  BY RateInvariance, PTL DEF RateIInv

(* However an address times its requests, and whatever is forgotten        *)
(* meanwhile, it gets no more than a full bucket and the inflow.           *)
THEOREM RequestsAreBounded == RateSpec => []RateBound
  <1>1. RateIInv => RateBound
    <2> SUFFICES ASSUME RateIInv, NEW a \in Addresses
                 PROVE  Cost * accepted[a] <= Capacity + watched
      BY DEF RateBound
    <2>1. Level(a) \in 0..Capacity BY LevelType DEF RateIInv
    <2>2. accepted[a] \in Nat /\ watched \in Nat BY DEF RateIInv, RateTypeOK
    <2>3. Cost * accepted[a] \in Nat BY <2>2, OneMore
    <2>4. Cost * accepted[a] + Level(a) <= Capacity + watched
      BY DEF RateIInv, Conserved
    <2> QED BY <2>1, <2>2, <2>3, <2>4, RateAssumption
  <1> QED BY RateInvariance, <1>1, PTL

-----------------------------------------------------------------------------
levels == [a \in Addresses |-> Level(a)]

LEMMA InitBucket == RateInit => Bucket!Init
  BY DEF RateInit, Bucket!Init, Level

LEMMA StepBucket == RateIInv /\ [RateNext]_rateVars => [Bucket!Next]_levels
  <1> SUFFICES ASSUME RateIInv, [RateNext]_rateVars PROVE Bucket!Next \/ levels' = levels
    OBVIOUS
  <1> USE DEF RateIInv
  <1>1. CASE Tick
    <2>1. \A a \in Addresses : Level(a)' = Filled(Level(a) + 1)
      BY <1>1, TickFills
    <2>2. Bucket!Fill
      BY <2>1 DEF Bucket!Fill, Bucket!Filled, Filled
    <2> QED BY <2>2 DEF Bucket!Next
  <1>2. CASE Watch
    BY <1>2 DEF Watch, buckets, levels, Level, Filled
  <1>3. ASSUME NEW a \in Addresses, Accept(a) PROVE Bucket!Take(a)
    <2> DEFINE stale == {b \in Addresses \ {a} : Stale(b)}
               paid == Level(a) - Cost
    <2>1. paid \in 0..Capacity
      BY <1>3, LevelType, RateAssumption DEF Accept
    <2>2. Keep(a, paid, stale) /\ Level(a) >= Cost BY <1>3 DEF Accept
    <2> HIDE DEF paid
    <2>3. Level(a)' = paid /\ \A b \in Addresses \ {a} : Level(b)' = Level(b)
      BY <2>1, <2>2, KeepLevels
    <2> QED BY <2>2, <2>3 DEF Bucket!Take, paid
  <1>4. ASSUME NEW a \in Addresses, Refuse(a) PROVE levels' = levels
    BY <1>4, RefuseLevels DEF levels
  <1>5. CASE UNCHANGED rateVars
    BY <1>5 DEF rateVars, buckets, levels, Level, Filled
  <1> QED BY <1>1, <1>2, <1>3, <1>4, <1>5 DEF RateNext, Bucket!Next

(* Every behaviour of the buckets that are forgotten is one of buckets     *)
(* that never are.                                                         *)
THEOREM LimitImplementsBucket == RateSpec => ImplementsBucket
  <1>1. RateIInv /\ [RateNext]_rateVars => [Bucket!Next]_levels BY StepBucket
  <1>2. [Bucket!Next]_levels => [Bucket!Next]_([a \in Addresses |-> Level(a)])
    BY DEF levels
  <1> QED BY RateInvariance, InitBucket, <1>1, <1>2, PTL
          DEF RateSpec, ImplementsBucket, Bucket!Spec
=============================================================================
