------------------------------- MODULE EventBus -------------------------------
(***************************************************************************)
(* The in-memory event bus of aqr/pipeline/events.py: the history of every *)
(* run, the queues of its SSE subscribers, and the retention that drops a  *)
(* finished run.                                                           *)
(*                                                                         *)
(* Everything runs on one asyncio event loop and no critical section of    *)
(* EventBus._lock contains an await, so register_run, publish, and the     *)
(* part of subscribe before its first yield are single actions.  A         *)
(* subscriber is a generator: it is suspended at each yield (while the SSE *)
(* response is sent) and at q.get(), and anything may happen in between.   *)
(*                                                                         *)
(* Event payloads are abstracted to a kind and the event's number within   *)
(* its run.  `published`, `last` and `dropped` are history variables.      *)
(***************************************************************************)
EXTENDS Integers, Sequences, FiniteSets

CONSTANTS Runs,            (* run ids                                       *)
          Subscribers,     (* calls of subscribe(), one stream each         *)
          NoRun,           (* run[s] of a client that asked for nothing yet *)
          HistoryLimit,    (* AQR_EVENT_HISTORY_LIMIT                       *)
          QueueLimit,      (* maxsize of a subscriber's queue               *)
          Retention,       (* AQR_EVENT_RETENTION_SECONDS, in clock ticks   *)
          MaxEvents,       (* bound: progress events a run publishes        *)
          MaxTime          (* bound: the clock                              *)

ASSUME BusAssumption ==
    /\ NoRun \notin Runs
    /\ HistoryLimit \in Nat \ {0}
    /\ QueueLimit \in Nat \ {0}
    /\ Retention \in Nat \ {0}
    /\ MaxEvents \in Nat
    /\ MaxTime \in Nat

VARIABLES history,       (* _history[r], <<>> when the key is absent        *)
          subscribers,   (* _subscribers[r]: the streams whose queue is in  *)
          owners,        (* keys of _owners, which are those of _done       *)
          done,          (* the asyncio.Event made for r is set             *)
          finishedAt,    (* _finished_at[r], NotFinished when absent        *)
          now,           (* time.time()                                     *)
          published,     (* how many events r published                     *)
          pc,            (* where the generator of stream s stands          *)
          run,           (* the run stream s was opened for                 *)
          snapshot,      (* rest of history_snapshot still to be yielded    *)
          queue,         (* q                                               *)
          hasDone,       (* the `done` captured by subscribe is not None    *)
          last,          (* the event last yielded                          *)
          dropped        (* a bound took an event away from s               *)

busVars == <<history, subscribers, owners, done, finishedAt, published>>
streamVars == <<pc, run, snapshot, queue, hasDone, last, dropped>>
vars == <<busVars, now, streamVars>>

-----------------------------------------------------------------------------
NotFinished == -1
Terminal == {"done", "error"}
Event == [kind : {"progress"} \cup Terminal, n : Nat]
NoEvent == [kind |-> "progress", n |-> 0]

(* The executor never suspends between the last event of a failed run and  *)
(* the repeats of it: run() reports a failure once (twice if the narrator  *)
(* failed) and _run_and_persist once more.  So these come as one burst.    *)
Bursts == { <<"progress">>, <<"done">>, <<"error">>, <<"error", "error">>,
            <<"error", "error", "error">> }
Ends(kinds) == kinds[Len(kinds)] \in Terminal

(* del history[:-limit] *)
KeepLast(q, limit) ==
    IF Len(q) <= limit THEN q ELSE SubSeq(q, Len(q) - limit + 1, Len(q))

(* Mutant: a queue that holds one event more than maxsize. *)
KeepFirstOffByOne(q, limit) ==
    IF Len(q) <= limit + 1 THEN q ELSE SubSeq(q, 1, limit + 1)

(* put_nowait until QueueFull *)
KeepFirst(q, limit) ==
    IF Len(q) <= limit THEN q ELSE SubSeq(q, 1, limit)

Active == {"replay", "live"}

Init ==
    /\ history = [r \in Runs |-> <<>>]
    /\ subscribers = [r \in Runs |-> {}]
    /\ owners = {}
    /\ done = [r \in Runs |-> FALSE]
    /\ finishedAt = [r \in Runs |-> NotFinished]
    /\ now = 0
    /\ published = [r \in Runs |-> 0]
    /\ pc = [s \in Subscribers |-> "idle"]
    /\ run = [s \in Subscribers |-> NoRun]
    /\ snapshot = [s \in Subscribers |-> <<>>]
    /\ queue = [s \in Subscribers |-> <<>>]
    /\ hasDone = [s \in Subscribers |-> FALSE]
    /\ last = [s \in Subscribers |-> NoEvent]
    /\ dropped = [s \in Subscribers |-> FALSE]

-----------------------------------------------------------------------------
(* register_run: called once per run, before its executor is scheduled.    *)
Register(r) ==
    /\ r \notin owners
    /\ ~done[r]
    /\ owners' = owners \cup {r}
    /\ history' = [history EXCEPT ![r] = <<>>]
    /\ subscribers' = [subscribers EXCEPT ![r] = {}]
    /\ UNCHANGED <<done, finishedAt, now, published, streamVars>>

(* Mutant: the retention ends one tick early. *)
ExpiredEarly == {r \in Runs : /\ finishedAt[r] # NotFinished
                              /\ now - finishedAt[r] >= Retention - 1}

(* The runs _prune_finished_locked drops. *)
Expired == {r \in Runs : /\ finishedAt[r] # NotFinished
                         /\ now - finishedAt[r] >= Retention}

BurstEvents(r, kinds) ==
    [i \in 1..Len(kinds) |-> [kind |-> kinds[i], n |-> published[r] + i]]

(* publish, once for each kind of the burst: prune, append, trim, fan out, *)
(* and mark the run finished if the event is terminal.  A registered run   *)
(* publishes until its executor has reported the end.                      *)
Publish(r, kinds) ==
    LET evs == BurstEvents(r, kinds)
        full(s) == Len(queue[s]) + Len(evs) > QueueLimit
    IN
    /\ r \in owners
    /\ ~done[r]
    /\ Ends(kinds) \/ published[r] < MaxEvents
    /\ history' = [x \in Runs |->
           CASE x = r -> KeepLast(history[r] \o evs, HistoryLimit)
             [] x # r /\ x \in Expired -> <<>>
             [] OTHER -> history[x]]
    /\ subscribers' = [x \in Runs |-> IF x \in Expired THEN {} ELSE subscribers[x]]
    /\ owners' = owners \ Expired
    /\ done' = [done EXCEPT ![r] = Ends(kinds)]
    /\ finishedAt' = [x \in Runs |->
           CASE x = r -> IF Ends(kinds) THEN now ELSE NotFinished
             [] x # r /\ x \in Expired -> NotFinished
             [] OTHER -> finishedAt[x]]
    /\ published' = [published EXCEPT ![r] = @ + Len(kinds)]
    /\ queue' = [s \in Subscribers |->
           IF s \in subscribers[r] THEN KeepFirst(queue[s] \o evs, QueueLimit)
                                   ELSE queue[s]]
    /\ dropped' = [s \in Subscribers |->
           dropped[s] \/ (s \in subscribers[r] /\ full(s))]
    /\ UNCHANGED <<now, pc, run, snapshot, hasDone, last>>

(* stream_run: the owns() check passes and the response is created; the    *)
(* generator does not run before the response starts.                      *)
OpenStream(s, r) ==
    /\ pc[s] = "idle"
    /\ r \in owners
    /\ pc' = [pc EXCEPT ![s] = "authorized"]
    /\ run' = [run EXCEPT ![s] = r]
    /\ UNCHANGED <<busVars, now, snapshot, queue, hasDone, last, dropped>>

(* Mutant: the queue is not put in the list. *)
SubscribeUnlisted(s) ==
    LET r == run[s] IN
    /\ pc[s] = "authorized"
    /\ pc' = [pc EXCEPT ![s] = "replay"]
    /\ snapshot' = [snapshot EXCEPT ![s] = history[r]]
    /\ hasDone' = [hasDone EXCEPT ![s] = r \in owners]
    /\ dropped' = [dropped EXCEPT ![s] = Len(history[r]) < published[r]]
    /\ UNCHANGED <<history, subscribers, owners, done, finishedAt, now, published,
                   run, queue, last>>

(* subscribe up to its first yield.  The run may have been pruned since    *)
(* owns() was asked: setdefault then makes a fresh entry for it.           *)
Subscribe(s) ==
    LET r == run[s] IN
    /\ pc[s] = "authorized"
    /\ pc' = [pc EXCEPT ![s] = "replay"]
    /\ subscribers' = [subscribers EXCEPT ![r] = @ \cup {s}]
    /\ snapshot' = [snapshot EXCEPT ![s] = history[r]]
    /\ hasDone' = [hasDone EXCEPT ![s] = r \in owners]
    /\ dropped' = [dropped EXCEPT ![s] = Len(history[r]) < published[r]]
    /\ UNCHANGED <<history, owners, done, finishedAt, now, published, run, queue, last>>

(* Mutant: the history is not copied, so the loop sees what is appended. *)
ReplayUncopied(s) ==
    /\ pc[s] = "replay"
    /\ snapshot[s] # <<>>
    /\ last' = [last EXCEPT ![s] = Head(snapshot[s])]
    /\ snapshot' = [snapshot EXCEPT ![s] =
           SelectSeq(history[run[s]], LAMBDA e : e.n > Head(snapshot[s]).n)]
    /\ UNCHANGED <<busVars, now, pc, run, queue, hasDone, dropped>>

(* `for ev in history_snapshot: yield ev` *)
Replay(s) ==
    /\ pc[s] = "replay"
    /\ snapshot[s] # <<>>
    /\ last' = [last EXCEPT ![s] = Head(snapshot[s])]
    /\ snapshot' = [snapshot EXCEPT ![s] = Tail(@)]
    /\ UNCHANGED <<busVars, now, pc, run, queue, hasDone, dropped>>

(* The finally clause: the queue leaves the list. *)
Leave(s) == subscribers' = [subscribers EXCEPT ![run[s]] = @ \ {s}]

(* Mutant: the flag is not looked at after the replay. *)
EndReplayUnchecked(s) ==
    /\ pc[s] = "replay"
    /\ snapshot[s] = <<>>
    /\ pc' = [pc EXCEPT ![s] = "live"]
    /\ UNCHANGED <<busVars, now, run, snapshot, queue, hasDone, last, dropped>>

(* `if done and done.is_set(): return`, once the snapshot is exhausted.    *)
EndReplay(s) ==
    /\ pc[s] = "replay"
    /\ snapshot[s] = <<>>
    /\ IF hasDone[s] /\ done[run[s]]
          THEN /\ pc' = [pc EXCEPT ![s] = "closed"]
               /\ Leave(s)
          ELSE /\ pc' = [pc EXCEPT ![s] = "live"]
               /\ UNCHANGED subscribers
    /\ UNCHANGED <<history, owners, done, finishedAt, published, now,
                   run, snapshot, queue, hasDone, last, dropped>>

(* Mutant: a LIFO queue. *)
ReceiveNewest(s) ==
    /\ pc[s] = "live"
    /\ queue[s] # <<>>
    /\ last' = [last EXCEPT ![s] = queue[s][Len(queue[s])]]
    /\ queue' = [queue EXCEPT ![s] = SubSeq(@, 1, Len(@) - 1)]
    /\ IF last'[s].kind \in Terminal
          THEN /\ pc' = [pc EXCEPT ![s] = "closed"]
               /\ Leave(s)
          ELSE UNCHANGED <<pc, subscribers>>
    /\ UNCHANGED <<history, owners, done, finishedAt, published, now,
                   run, snapshot, hasDone, dropped>>

(* `ev = await q.get(); yield ev`, and return after a terminal event.  A   *)
(* timeout of the wait changes nothing and is not an action.               *)
Receive(s) ==
    /\ pc[s] = "live"
    /\ queue[s] # <<>>
    /\ last' = [last EXCEPT ![s] = Head(queue[s])]
    /\ queue' = [queue EXCEPT ![s] = Tail(@)]
    /\ IF Head(queue[s]).kind \in Terminal
          THEN /\ pc' = [pc EXCEPT ![s] = "closed"]
               /\ Leave(s)
          ELSE UNCHANGED <<pc, subscribers>>
    /\ UNCHANGED <<history, owners, done, finishedAt, published, now,
                   run, snapshot, hasDone, dropped>>

(* The client goes away; the generator is closed some time later.          *)
Disconnect(s) ==
    /\ pc[s] \in Active
    /\ pc' = [pc EXCEPT ![s] = "abandoned"]
    /\ UNCHANGED <<busVars, now, run, snapshot, queue, hasDone, last, dropped>>

Unsubscribe(s) ==
    /\ pc[s] = "abandoned"
    /\ pc' = [pc EXCEPT ![s] = "gone"]
    /\ Leave(s)
    /\ UNCHANGED <<history, owners, done, finishedAt, published, now,
                   run, snapshot, queue, hasDone, last, dropped>>

Tick ==
    /\ now < MaxTime
    /\ now' = now + 1
    /\ UNCHANGED <<busVars, streamVars>>

Next ==
    \/ \E r \in Runs : Register(r)
    \/ \E r \in Runs, kinds \in Bursts : Publish(r, kinds)
    \/ \E s \in Subscribers, r \in Runs : OpenStream(s, r)
    \/ \E s \in Subscribers :
          \/ Subscribe(s)
          \/ Replay(s)
          \/ EndReplay(s)
          \/ Receive(s)
          \/ Disconnect(s)
          \/ Unsubscribe(s)
    \/ Tick

Spec == Init /\ [][Next]_vars

(* An executor that runs ends: its run publishes a terminal event, since   *)
(* every exception of the pipeline is caught and reported.  The event loop *)
(* is fair to a generator whose client keeps reading.                      *)
Fairness ==
    /\ \A r \in Runs : WF_vars(\E kinds \in Bursts : Ends(kinds) /\ Publish(r, kinds))
    /\ \A s \in Subscribers :
          WF_vars(Subscribe(s) \/ Replay(s) \/ EndReplay(s) \/ Receive(s))

FairSpec == Spec /\ Fairness

-----------------------------------------------------------------------------
(* Types, with the two bounds the code enforces: no history outgrows       *)
(* _history_limit and no queue its maxsize, however long the bursts.       *)
TypeOK ==
    /\ history \in [Runs -> Seq(Event)]
    /\ \A r \in Runs : Len(history[r]) <= HistoryLimit
    /\ subscribers \in [Runs -> SUBSET Subscribers]
    /\ owners \in SUBSET Runs
    /\ done \in [Runs -> BOOLEAN]
    /\ finishedAt \in [Runs -> Nat \cup {NotFinished}]
    /\ now \in Nat
    /\ published \in [Runs -> Nat]
    /\ pc \in [Subscribers -> Active \cup {"idle", "authorized", "closed", "abandoned", "gone"}]
    /\ run \in [Subscribers -> Runs \cup {NoRun}]
    /\ \A s \in Subscribers : pc[s] # "idle" => run[s] \in Runs
    /\ snapshot \in [Subscribers -> Seq(Event)]
    /\ queue \in [Subscribers -> Seq(Event)]
    /\ \A s \in Subscribers : Len(queue[s]) <= QueueLimit
    /\ hasDone \in [Subscribers -> BOOLEAN]
    /\ last \in [Subscribers -> Event]
    /\ dropped \in [Subscribers -> BOOLEAN]

(* The hand-over from history to live events neither repeats nor reorders: *)
(* what a stream still has to yield, snapshot first and queue after it, is *)
(* numbered upwards from the event it yielded last.  This is what          *)
(* subscribe's single critical section (append the queue, copy the         *)
(* history) is for.                                                        *)
Numbers(s) == <<last[s]>> \o snapshot[s] \o queue[s]
OrderedDelivery ==
    \A s \in Subscribers : \A i \in 1..(Len(Numbers(s)) - 1) :
        Numbers(s)[i].n < Numbers(s)[i + 1].n

(* No event is lost between the snapshot and the queue: a stream that      *)
(* subscribed to a registered run and hit no bound holds every event it    *)
(* was not yet given.                                                      *)
NoEventLost ==
    \A s \in Subscribers :
        pc[s] \in Active /\ hasDone[s] /\ ~dropped[s] =>
            Len(snapshot[s]) + Len(queue[s]) = published[run[s]] - last[s].n

(* _subscribers holds exactly the queues somebody will read: every queue   *)
(* in it belongs to an open stream of that run, and an open stream of a    *)
(* run that is still going is never taken out of it (by pruning).          *)
SubscribersMatchStreams ==
    /\ \A r \in Runs : \A s \in subscribers[r] :
          run[s] = r /\ pc[s] \in Active \cup {"abandoned"}
    /\ \A s \in Subscribers :
          pc[s] \in Active /\ hasDone[s] /\ ~done[run[s]] => s \in subscribers[run[s]]

(* Pruning, which any other run's publish triggers, never takes a run away *)
(* early: while a registered run is going, and for the retention period    *)
(* after its end, every step keeps its owner and its newest event.         *)
KeptStep ==
    \A r \in owners :
        ~done[r] \/ now - finishedAt[r] < Retention =>
            /\ r \in owners'
            /\ published'[r] > 0 =>
                  /\ history'[r] # <<>>
                  /\ history'[r][Len(history'[r])].n = published'[r]
KeptForRetention == [][KeptStep]_vars

(* Every step is one the abstract feed allows: a reader moves forward      *)
(* through the published events, one at a time unless a bound was hit.     *)
Feed == INSTANCE EventFeed WITH
            Readers <- Subscribers,
            reading <- [s \in Subscribers |->
                           IF pc[s] \in {"idle", "authorized"} THEN NoRun ELSE run[s]],
            cursor <- [s \in Subscribers |-> last[s].n],
            lossy <- dropped
ImplementsFeed == Feed!Spec

(* A stream whose client stays ends, provided it subscribed before its run *)
(* was pruned and its queue never overflowed: the `done` flag is read      *)
(* after the snapshot, so no terminal event can slip between them.         *)
StreamEnds ==
    \A s \in Subscribers :
        (pc[s] \in Active /\ hasDone[s]) ~> (pc[s] \notin Active \/ dropped[s])
=============================================================================
