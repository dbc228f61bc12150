------------------------------- MODULE Presence -------------------------------
(***************************************************************************)
(* aqr/explore/presence.py: who looks at the explore pages, who edits      *)
(* which hypothesis (the pessimistic lock), and the event streams that     *)
(* tell the pages (explore/templates/explore.html, handleSSEMessage).      *)
(*                                                                         *)
(* PresenceTracker._lock is never contended: no section under it that is   *)
(* reachable suspends, and asyncio does not suspend on a free lock.  So a  *)
(* handler is one action, broadcast included.  A stream is suspended at    *)
(* each yield; what it yields changes the page at once.                    *)
(*                                                                         *)
(* time.monotonic() is modelled by ages, which stop growing when they can  *)
(* no longer make a difference, so that time itself is not bounded.        *)
(***************************************************************************)
EXTENDS Integers, Sequences, FiniteSets

CONSTANTS Hyps,             (* hypotheses                                   *)
          Sessions,         (* session ids                                  *)
          Pages,            (* browser pages with an EventSource            *)
          None,             (* no session, no hypothesis                    *)
          LockTTL,          (* _LOCK_TTL, in ticks                          *)
          SessionTTL,       (* _HEARTBEAT_TTL                               *)
          CleanupInterval,  (* _CLEANUP_INTERVAL                            *)
          MaxUnread         (* bound: nobody calls while a page has more    *)

ASSUME PresenceAssumption ==
    /\ None \notin Hyps \cup Sessions
    /\ IsFiniteSet(Hyps)
    /\ LockTTL \in Nat
    /\ SessionTTL \in Nat
    /\ CleanupInterval \in Nat
    /\ MaxUnread \in Nat

VARIABLES holder,       (* _locks[h]["session_id"], None when absent        *)
          lockAge,      (* ticks since locked_at                            *)
          known,        (* keys of _sessions                                *)
          idle,         (* ticks since last_seen                            *)
          sweeping,     (* _cleanup_task is not None                        *)
          sinceSweep,   (* ticks the cleanup loop has slept                 *)
          conn,         (* "unloaded", "closed", or the stream's place      *)
          subscribers,  (* _subscribers: the pages whose queue is in        *)
          queue,        (* the queue of the page's stream                   *)
          shown,        (* the rows the page shows as locked                *)
          online,       (* the sessions in its presence bar                 *)
          reconnected   (* the EventSource of the page connected again      *)

lockVars == <<holder, lockAge>>
sessionVars == <<known, idle>>
sweepVars == <<sweeping, sinceSweep>>
pageVars == <<conn, shown, online, reconnected>>
streamVars == <<subscribers, queue>>
vars == <<lockVars, sessionVars, sweepVars, pageVars, streamVars>>

-----------------------------------------------------------------------------
Connected == {"greeted", "live"}
Locked == {h \in Hyps : holder[h] # None}

LockMsg(h) == [type |-> "lock", hyp |-> h]
UnlockMsg(h) == [type |-> "unlock", hyp |-> h]
PresenceMsg(s) == [type |-> "presence", online |-> s]
Messages == [type : {"lock", "unlock"}, hyp : Hyps]
            \cup [type : {"presence"}, online : SUBSET Sessions]

Init ==
    /\ holder = [h \in Hyps |-> None]
    /\ lockAge = [h \in Hyps |-> 0]
    /\ known = {}
    /\ idle = [s \in Sessions |-> 0]
    /\ sweeping = FALSE
    /\ sinceSweep = 0
    /\ conn = [p \in Pages |-> "unloaded"]
    /\ subscribers = {}
    /\ queue = [p \in Pages |-> <<>>]
    /\ shown = [p \in Pages |-> {}]
    /\ online = [p \in Pages |-> {}]
    /\ reconnected = [p \in Pages |-> FALSE]

(* _snapshot *)
Online(k, i) == {s \in k : i[s] < SessionTTL}

(* _broadcast and _broadcast_locked: to every queue; these have no maxsize.*)
Broadcast(msgs) ==
    /\ queue' = [p \in Pages |-> IF p \in subscribers THEN queue[p] \o msgs ELSE queue[p]]
    /\ UNCHANGED subscribers

CallAllowed == \A p \in Pages : Len(queue[p]) < MaxUnread

-----------------------------------------------------------------------------
(* heartbeat: refreshes the session and the lock it holds on h, if any.    *)
Heartbeat(s, h) ==
    /\ CallAllowed
    /\ known' = known \cup {s}
    /\ idle' = [idle EXCEPT ![s] = 0]
    /\ lockAge' = [x \in Hyps |-> IF x = h /\ holder[x] = s THEN 0 ELSE lockAge[x]]
    /\ Broadcast(<<PresenceMsg(Online(known', idle'))>>)
    /\ UNCHANGED <<holder, sweepVars, pageVars>>

(* Mutant: the lock of a session that went offline is free. *)
LockOffline(h, s) ==
    /\ CallAllowed
    /\ holder[h] = s \/ holder[h] \notin known
    /\ holder' = [holder EXCEPT ![h] = s]
    /\ lockAge' = [lockAge EXCEPT ![h] = 0]
    /\ known' = known \cup {s}
    /\ idle' = [idle EXCEPT ![s] = IF s \in known THEN @ ELSE 0]
    /\ Broadcast(<<LockMsg(h)>>)
    /\ UNCHANGED <<sweepVars, pageVars>>

(* lock: refused, without a change, when another session holds h.  The     *)
(* session is entered if it is unknown and not refreshed if it is known.   *)
Lock(h, s) ==
    /\ CallAllowed
    /\ holder[h] \in {None, s}
    /\ holder' = [holder EXCEPT ![h] = s]
    /\ lockAge' = [lockAge EXCEPT ![h] = 0]
    /\ known' = known \cup {s}
    /\ idle' = [idle EXCEPT ![s] = IF s \in known THEN @ ELSE 0]
    /\ Broadcast(<<LockMsg(h)>>)
    /\ UNCHANGED <<sweepVars, pageVars>>

(* unlock: refused, without a change, unless s holds h.                    *)
Unlock(h, s) ==
    /\ CallAllowed
    /\ holder[h] = s
    /\ holder' = [holder EXCEPT ![h] = None]
    /\ lockAge' = [lockAge EXCEPT ![h] = 0]
    /\ Broadcast(<<UnlockMsg(h)>>)
    /\ UNCHANGED <<sessionVars, sweepVars, pageVars>>

-----------------------------------------------------------------------------
StaleSessions == {s \in known : idle[s] > SessionTTL}
StaleLocks == {h \in Locked : lockAge[h] > LockTTL}

(* The stale locks in the order of the dictionary, whatever it is.         *)
Orders(S) == {q \in [1..Cardinality(S) -> S] : \A h \in S : \E i \in DOMAIN q : q[i] = h}

(* The broadcasts at the end of a sweep that found something.              *)
Announce(order) ==
    Broadcast(<<PresenceMsg(Online(known', idle))>>
                 \o [i \in 1..Len(order) |-> UnlockMsg(order[i])])

(* Mutant: only sessions are swept. *)
SweepSessions ==
    /\ sweeping
    /\ sinceSweep >= CleanupInterval
    /\ sinceSweep' = 0
    /\ known' = known \ StaleSessions
    /\ idle' = [s \in Sessions |-> IF s \in StaleSessions THEN 0 ELSE idle[s]]
    /\ IF StaleSessions # {}
          THEN Broadcast(<<PresenceMsg(Online(known', idle))>>)
          ELSE UNCHANGED streamVars
    /\ UNCHANGED <<holder, lockAge, sweeping, pageVars>>

(* One turn of _cleanup_loop.                                              *)
Sweep ==
    /\ sweeping
    /\ sinceSweep >= CleanupInterval
    /\ sinceSweep' = 0
    /\ known' = known \ StaleSessions
    /\ idle' = [s \in Sessions |-> IF s \in StaleSessions THEN 0 ELSE idle[s]]
    /\ holder' = [h \in Hyps |-> IF h \in StaleLocks THEN None ELSE holder[h]]
    /\ lockAge' = [h \in Hyps |-> IF h \in StaleLocks THEN 0 ELSE lockAge[h]]
    /\ IF StaleSessions \cup StaleLocks # {}
          THEN \E order \in Orders(StaleLocks) : Announce(order)
          ELSE UNCHANGED streamVars
    /\ UNCHANGED <<sweeping, pageVars>>

Older(age, limit) == IF age < limit THEN age + 1 ELSE age

Tick ==
    /\ lockAge' = [h \in Hyps |-> IF h \in Locked THEN Older(lockAge[h], LockTTL + 1) ELSE 0]
    /\ idle' = [s \in Sessions |-> IF s \in known THEN Older(idle[s], SessionTTL + 1) ELSE 0]
    /\ sinceSweep' = IF sweeping THEN Older(sinceSweep, CleanupInterval) ELSE 0
    /\ UNCHANGED <<holder, known, sweeping, pageVars, streamVars>>

-----------------------------------------------------------------------------
(* GET /api/explore/events starts the cleanup loop; subscribe appends its  *)
(* queue and yields who is online.                                         *)
Subscribe(p) ==
    /\ conn' = [conn EXCEPT ![p] = "greeted"]
    /\ subscribers' = subscribers \cup {p}
    /\ queue' = [queue EXCEPT ![p] = <<>>]
    /\ online' = [online EXCEPT ![p] = Online(known, idle)]
    /\ sweeping' = TRUE
    /\ UNCHANGED <<lockVars, sessionVars, sinceSweep>>

(* The page is loaded, or loaded again, and shows no row as locked.        *)
Load(p) ==
    /\ conn[p] \notin Connected
    /\ Subscribe(p)
    /\ shown' = [shown EXCEPT ![p] = {}]
    /\ reconnected' = [reconnected EXCEPT ![p] = FALSE]

(* The EventSource of a page that lost its stream connects again.          *)
Reconnect(p) ==
    /\ conn[p] = "closed"
    /\ Subscribe(p)
    /\ reconnected' = [reconnected EXCEPT ![p] = TRUE]
    /\ UNCHANGED shown

(* Mutant: a new stream is not told which rows are locked. *)
ListLocksUnsent(p) ==
    /\ conn[p] = "greeted"
    /\ conn' = [conn EXCEPT ![p] = "live"]
    /\ UNCHANGED <<lockVars, sessionVars, sweepVars, streamVars, shown, online, reconnected>>

(* The stream resumes after its first yield: the list of locked rows,      *)
(* which replaces what the page shows, is sent if it is not empty.         *)
ListLocks(p) ==
    /\ conn[p] = "greeted"
    /\ conn' = [conn EXCEPT ![p] = "live"]
    /\ shown' = [shown EXCEPT ![p] = IF Locked # {} THEN Locked ELSE @]
    /\ UNCHANGED <<lockVars, sessionVars, sweepVars, streamVars, online, reconnected>>

(* handleSSEMessage: what a message does to the rows shown as locked.      *)
Marked(rows, m) ==
    IF m.type = "lock" THEN rows \cup {m.hyp}
    ELSE IF m.type = "unlock" THEN rows \ {m.hyp}
    ELSE rows

(* The page is sent the next message and handles it.                       *)
Receive(p) ==
    /\ conn[p] = "live"
    /\ queue[p] # <<>>
    /\ queue' = [queue EXCEPT ![p] = Tail(@)]
    /\ LET m == Head(queue[p]) IN
       /\ shown' = [shown EXCEPT ![p] = Marked(@, m)]
       /\ online' = [online EXCEPT ![p] = IF m.type = "presence" THEN m.online ELSE @]
    /\ UNCHANGED <<lockVars, sessionVars, sweepVars, subscribers, conn, reconnected>>

(* Mutant: the queue stays in the list. *)
DisconnectListed(p) ==
    /\ conn[p] \in Connected
    /\ conn' = [conn EXCEPT ![p] = "closed"]
    /\ UNCHANGED <<lockVars, sessionVars, sweepVars, streamVars, shown, online, reconnected>>

(* The stream breaks; its finally clause takes the queue out of the list.  *)
Disconnect(p) ==
    /\ conn[p] \in Connected
    /\ conn' = [conn EXCEPT ![p] = "closed"]
    /\ subscribers' = subscribers \ {p}
    /\ queue' = [queue EXCEPT ![p] = <<>>]
    /\ UNCHANGED <<lockVars, sessionVars, sweepVars, shown, online, reconnected>>

-----------------------------------------------------------------------------
Next ==
    \/ \E s \in Sessions :
          \/ \E h \in Hyps \cup {None} : Heartbeat(s, h)
          \/ \E h \in Hyps : Lock(h, s) \/ Unlock(h, s)
    \/ Sweep
    \/ Tick
    \/ \E p \in Pages :
          \/ Load(p)
          \/ Reconnect(p)
          \/ ListLocks(p)
          \/ Receive(p)
          \/ Disconnect(p)

Spec == Init /\ [][Next]_vars

(* Time passes, the cleanup task wakes up, and a stream whose client reads *)
(* goes on.  Nobody has to call, to load a page or to close it.            *)
Fairness ==
    /\ WF_vars(Tick)
    /\ WF_vars(Sweep)
    /\ \A p \in Pages : WF_vars(ListLocks(p) \/ Receive(p))

FairSpec == Spec /\ Fairness

-----------------------------------------------------------------------------
(* Types; the list of subscribers holds the queues of the open streams and *)
(* no other, which nobody would ever empty.                                *)
TypeOK ==
    /\ holder \in [Hyps -> Sessions \cup {None}]
    /\ lockAge \in [Hyps -> 0..(LockTTL + 1)]
    /\ \A h \in Hyps \ Locked : lockAge[h] = 0
    /\ known \in SUBSET Sessions
    /\ idle \in [Sessions -> 0..(SessionTTL + 1)]
    /\ \A s \in Sessions \ known : idle[s] = 0
    /\ sweeping \in BOOLEAN
    /\ sinceSweep \in 0..CleanupInterval
    /\ conn \in [Pages -> Connected \cup {"unloaded", "closed"}]
    /\ subscribers = {p \in Pages : conn[p] \in Connected}
    /\ queue \in [Pages -> Seq(Messages)]
    /\ shown \in [Pages -> SUBSET Hyps]
    /\ online \in [Pages -> SUBSET Sessions]
    /\ reconnected \in [Pages -> BOOLEAN]

(* The rows p shows as locked once it has read its queue: the last message *)
(* about a row decides, or what p shows now if there is none.              *)
About(q, h) == {i \in 1..Len(q) : q[i].type \in {"lock", "unlock"} /\ q[i].hyp = h}
Final(q, rows) ==
    {h \in Hyps : IF About(q, h) = {} THEN h \in rows
                  ELSE \E i \in About(q, h) : /\ q[i].type = "lock"
                                              /\ \A j \in About(q, h) : j <= i}

(* However locks change while the stream opens (between its queue entering *)
(* the list, the yields and the live messages): a page that read all there *)
(* is shows every lock, and a page that was not reconnected shows exactly  *)
(* the locks there are.                                                    *)
PagesConverge ==
    \A p \in Pages : conn[p] = "live" =>
        /\ Locked \subseteq Final(queue[p], shown[p])
        /\ ~reconnected[p] => Final(queue[p], shown[p]) = Locked

(* The lock is pessimistic: a session keeps its lock, even while it counts *)
(* as offline, until it unlocks it or has not renewed it for LockTTL, and  *)
(* nobody takes it over without an unlock in between.                      *)
HolderKeepsLock ==
    [][\A h \in Locked : holder'[h] # holder[h] =>
          /\ holder'[h] = None
          /\ lockAge[h] > LockTTL \/ Unlock(h, holder[h])]_vars

(* What is stale goes.  "Locks auto-release after 5 min": once some page    *)
(* has connected, a lock is released or renewed again and again; and a     *)
(* page that stays connected stops showing a session that sends no more    *)
(* heartbeats, although the snapshot and the sweep draw the line at        *)
(* different ages (< and >).                                               *)
StaleGoes ==
    /\ \A h \in Hyps : (sweeping /\ h \in Locked) ~> (h \notin Locked \/ lockAge[h] = 0)
    /\ \A p \in Pages, s \in Sessions :
          (conn[p] = "live" /\ s \in online[p])
              ~> (conn[p] # "live" \/ s \notin online[p] \/ (s \in known /\ idle[s] = 0))
=============================================================================
