---------------------------- MODULE EventBusProofs ----------------------------
(***************************************************************************)
(* Proofs about EventBus for every value of its constants: its types and   *)
(* bounds, the safety invariants that the TLC run checks, that no stream   *)
(* waits for an event it will not get, and that the bus implements         *)
(* EventFeed.                                                              *)
(***************************************************************************)
EXTENDS EventBus, SequenceTheorems, TLAPS

-----------------------------------------------------------------------------
(* The inductive invariant.                                                *)

(* Consecutive numbers, the first being c + 1.                             *)
Numbered(q, c) == \A i \in 1..Len(q) : q[i].n = c + i

(* What the maps say of one run: the history is the newest part of what    *)
(* the run published, and a run is finished exactly when its flag is set   *)
(* and it was not pruned.                                                  *)
RunInv(r) ==
    /\ Len(history[r]) <= published[r]
    /\ Numbered(history[r], published[r] - Len(history[r]))
    /\ finishedAt[r] # NotFinished => done[r] /\ r \in owners /\ finishedAt[r] <= now
    /\ r \in owners /\ done[r] => finishedAt[r] # NotFinished
    /\ r \in owners /\ published[r] > 0 => history[r] # <<>>
    /\ r \notin owners => history[r] = <<>>
    /\ r \notin owners /\ ~done[r] => published[r] = 0
    /\ done[r] => published[r] > 0

(* Where a stream stands determines its run and its membership.            *)
PlaceInv(s) ==
    /\ pc[s] = "idle" => run[s] = NoRun
    /\ pc[s] # "idle" => run[s] \in owners \/ done[run[s]]
    /\ pc[s] \in {"idle", "authorized"} =>
          /\ snapshot[s] = <<>>
          /\ queue[s] = <<>>
          /\ last[s].n = 0
          /\ ~dropped[s]
    /\ \A r \in Runs : s \in subscribers[r] =>
          run[s] = r /\ pc[s] \in Active \cup {"abandoned"}
    /\ pc[s] \in Active /\ ~done[run[s]] => s \in subscribers[run[s]]

(* What a stream still has to yield goes upwards: lst is the number        *)
(* yielded last, sn the rest of the snapshot, q the queue, bound what the  *)
(* run published.                                                          *)
Between(lst, q, bound) == \A i \in 1..Len(q) : lst < q[i].n /\ q[i].n <= bound
Rising(q) == \A i, k \in 1..Len(q) : i < k => q[i].n < q[k].n
Before(sn, q) == \A i \in 1..Len(sn), j \in 1..Len(q) : sn[i].n < q[j].n

Ordered(lst, sn, q, bound) ==
    /\ lst <= bound
    /\ Between(lst, sn, bound)
    /\ Between(lst, q, bound)
    /\ Rising(sn)
    /\ Rising(q)
    /\ Before(sn, q)

OrderInv(s) ==
    /\ pc[s] # "idle" => Ordered(last[s].n, snapshot[s], queue[s], published[run[s]])
    /\ pc[s] = "live" => snapshot[s] = <<>>

(* A stream that hit no bound holds the very next events, all of them.     *)
CompleteInv(s) ==
    pc[s] \in Active /\ ~dropped[s] =>
        /\ Numbered(snapshot[s], last[s].n)
        /\ Numbered(queue[s], last[s].n + Len(snapshot[s]))
        /\ published[run[s]] = last[s].n + Len(snapshot[s]) + Len(queue[s])

IInv ==
    /\ TypeOK
    /\ \A r \in Runs : RunInv(r)
    /\ \A s \in Subscribers : PlaceInv(s) /\ OrderInv(s) /\ CompleteInv(s)

-----------------------------------------------------------------------------
(* `del history[:-limit]` keeps the last `limit` elements.                 *)
LEMMA KeepLastFacts ==
    ASSUME NEW S, NEW q \in Seq(S), NEW limit \in Nat \ {0}
    PROVE  /\ KeepLast(q, limit) \in Seq(S)
           /\ Len(KeepLast(q, limit)) <= limit
           /\ Len(KeepLast(q, limit)) <= Len(q)
           /\ Len(q) > 0 => Len(KeepLast(q, limit)) > 0
           /\ \A i \in 1..Len(KeepLast(q, limit)) :
                 KeepLast(q, limit)[i] = q[Len(q) - Len(KeepLast(q, limit)) + i]
<1>1. CASE Len(q) <= limit
  BY <1>1 DEF KeepLast
<1>2. CASE Len(q) > limit
  <2> DEFINE h == SubSeq(q, Len(q) - limit + 1, Len(q))
  <2>1. \A i \in Len(q) - limit + 1 .. Len(q) : q[i] \in S
    BY <1>2
  <2>2. KeepLast(q, limit) = h
    BY <1>2 DEF KeepLast
  <2>3. /\ Len(q) - limit + 1 \in Int /\ Len(q) \in Int
        /\ Len(q) - limit + 1 <= Len(q) + 1
    BY <1>2
  <2>4. /\ h \in Seq(S)
        /\ Len(h) = limit
        /\ \A i \in 1..limit : h[i] = q[Len(q) - limit + i]
    BY <2>1, <2>3, SubSeqProperties
  <2> HIDE DEF h
  <2>5. /\ Len(h) = limit /\ Len(h) <= limit /\ Len(h) <= Len(q) /\ Len(h) > 0
    BY <1>2, <2>4
  <2>6. \A i \in 1..Len(h) : h[i] = q[Len(q) - Len(h) + i]
    BY <2>4
  <2> QED
    BY <2>2, <2>4, <2>5, <2>6
<1> QED
  BY <1>1, <1>2

(* put_nowait until the queue is full keeps the first `limit` elements.    *)
LEMMA KeepFirstFacts ==
    ASSUME NEW S, NEW q \in Seq(S), NEW limit \in Nat
    PROVE  /\ KeepFirst(q, limit) \in Seq(S)
           /\ Len(KeepFirst(q, limit)) <= limit
           /\ Len(KeepFirst(q, limit)) <= Len(q)
           /\ Len(q) <= limit => KeepFirst(q, limit) = q
           /\ \A i \in 1..Len(KeepFirst(q, limit)) : KeepFirst(q, limit)[i] = q[i]
<1>1. CASE Len(q) <= limit
  BY <1>1 DEF KeepFirst
<1>2. CASE Len(q) > limit
  <2>1. \A i \in 1 .. limit : q[i] \in S
    BY <1>2
  <2>2. KeepFirst(q, limit) = SubSeq(q, 1, limit)
    BY <1>2 DEF KeepFirst
  <2> QED
    BY <1>2, <2>1, <2>2, SubSeqProperties
<1> QED
  BY <1>1, <1>2

(* A burst is a nonempty sequence of events numbered on from published.    *)
LEMMA BurstFacts ==
    ASSUME NEW r \in Runs, NEW kinds \in Bursts, published[r] \in Nat
    PROVE  /\ BurstEvents(r, kinds) \in Seq(Event)
           /\ Len(BurstEvents(r, kinds)) = Len(kinds)
           /\ Len(kinds) \in Nat \ {0}
           /\ \A i \in 1..Len(kinds) : BurstEvents(r, kinds)[i].n = published[r] + i
           /\ Ends(kinds) \in BOOLEAN
<1>1. /\ Len(kinds) \in 1..3
      /\ \A i \in 1..Len(kinds) : kinds[i] \in {"progress"} \cup Terminal
  BY DEF Bursts, Terminal
<1> DEFINE evs == [i \in 1..Len(kinds) |-> [kind |-> kinds[i], n |-> published[r] + i]]
<1>2. \A i \in 1..Len(kinds) : evs[i] \in Event
  BY <1>1 DEF Event
<1>3. evs \in Seq(Event) /\ Len(evs) = Len(kinds)
  BY <1>1, <1>2
<1>4. BurstEvents(r, kinds) = evs
  BY DEF BurstEvents
<1> QED
  BY <1>1, <1>3, <1>4 DEF Ends

(* What a publish leaves in the history and in a subscribed queue.         *)
LEMMA PublishedSequences ==
    ASSUME TypeOK, NEW r \in Runs, NEW kinds \in Bursts
    PROVE  LET evs == BurstEvents(r, kinds)
               hist == KeepLast(history[r] \o evs, HistoryLimit)
           IN  /\ hist \in Seq(Event)
               /\ Len(hist) <= HistoryLimit
               /\ Len(hist) > 0
               /\ \A s \in Subscribers :
                     /\ KeepFirst(queue[s] \o evs, QueueLimit) \in Seq(Event)
                     /\ Len(KeepFirst(queue[s] \o evs, QueueLimit)) <= QueueLimit
<1> DEFINE evs == BurstEvents(r, kinds)
<1>1. evs \in Seq(Event) /\ Len(evs) \in Nat \ {0}
  BY BurstFacts DEF TypeOK
<1>2. history[r] \o evs \in Seq(Event) /\ Len(history[r] \o evs) > 0
  BY <1>1 DEF TypeOK
<1>3. \A s \in Subscribers : queue[s] \o evs \in Seq(Event)
  BY <1>1 DEF TypeOK
<1> HIDE DEF evs
<1> QED
  BY <1>2, <1>3, KeepLastFacts, KeepFirstFacts, BusAssumption DEF evs

(* Leaving takes a queue out of one list and touches no other.             *)
LEMMA LeaveFacts ==
    ASSUME TypeOK, NEW s \in Subscribers, Leave(s)
    PROVE  /\ subscribers' \in [Runs -> SUBSET Subscribers]
           /\ \A r \in Runs : subscribers'[r] =
                 IF r = run[s] THEN subscribers[r] \ {s} ELSE subscribers[r]
  BY DEF TypeOK, Leave

LEMMA TypeInit == Init => TypeOK
  BY BusAssumption DEF Init, TypeOK, NoEvent, Event, Active, NotFinished, Terminal

LEMMA TypeNext == TypeOK /\ [Next]_vars => TypeOK'
<1> SUFFICES ASSUME TypeOK, [Next]_vars
             PROVE  TypeOK'
  OBVIOUS
<1> USE DEF TypeOK, busVars, streamVars
<1>1. ASSUME NEW r \in Runs, Register(r)
      PROVE  TypeOK'
  BY <1>1, BusAssumption DEF Register
<1>2. ASSUME NEW r \in Runs, NEW kinds \in Bursts, Publish(r, kinds)
      PROVE  TypeOK'
  <2> DEFINE evs == BurstEvents(r, kinds)
  <2>1. Len(kinds) \in Nat \ {0} /\ Ends(kinds) \in BOOLEAN
    BY BurstFacts
  <2>2. /\ history' \in [Runs -> Seq(Event)]
        /\ \A x \in Runs : Len(history'[x]) <= HistoryLimit
    <3>1. history' = [x \in Runs |->
              CASE x = r -> KeepLast(history[r] \o evs, HistoryLimit)
                [] x # r /\ x \in Expired -> <<>>
                [] OTHER -> history[x]]
      BY <1>2 DEF Publish
    <3>2. KeepLast(history[r] \o evs, HistoryLimit) \in Seq(Event)
          /\ Len(KeepLast(history[r] \o evs, HistoryLimit)) <= HistoryLimit
      BY PublishedSequences
    <3> HIDE DEF evs
    <3>3. ASSUME NEW x \in Runs
          PROVE  history'[x] \in Seq(Event) /\ Len(history'[x]) <= HistoryLimit
      <4>1. CASE x = r
        BY <3>1, <3>2, <4>1
      <4>2. CASE x # r /\ x \in Expired
        BY <3>1, <4>2, BusAssumption
      <4>3. CASE x # r /\ x \notin Expired
        BY <3>1, <4>3
      <4> QED
        BY <4>1, <4>2, <4>3
    <3> QED
      BY <3>1, <3>3
  <2>3. /\ queue' \in [Subscribers -> Seq(Event)]
        /\ \A s \in Subscribers : Len(queue'[s]) <= QueueLimit
    <3>1. queue' = [s \in Subscribers |->
              IF s \in subscribers[r] THEN KeepFirst(queue[s] \o evs, QueueLimit)
                                      ELSE queue[s]]
      BY <1>2 DEF Publish
    <3>2. \A s \in Subscribers :
              /\ KeepFirst(queue[s] \o evs, QueueLimit) \in Seq(Event)
              /\ Len(KeepFirst(queue[s] \o evs, QueueLimit)) <= QueueLimit
      BY PublishedSequences
    <3> HIDE DEF evs
    <3> QED
      BY <3>1, <3>2
  <2>4. finishedAt' \in [Runs -> Nat \cup {NotFinished}]
    BY <1>2 DEF Publish
  <2>5. /\ subscribers' \in [Runs -> SUBSET Subscribers]
        /\ owners' \in SUBSET Runs
        /\ done' \in [Runs -> BOOLEAN]
        /\ published' \in [Runs -> Nat]
        /\ dropped' \in [Subscribers -> BOOLEAN]
    BY <1>2, <2>1 DEF Publish
  <2> QED
    BY <1>2, <2>2, <2>3, <2>4, <2>5 DEF Publish
<1>3. ASSUME NEW s \in Subscribers, NEW r \in Runs, OpenStream(s, r)
      PROVE  TypeOK'
  BY <1>3 DEF OpenStream
<1>4. ASSUME NEW s \in Subscribers, Subscribe(s)
      PROVE  TypeOK'
  <2>1. run[s] \in Runs
    BY <1>4 DEF Subscribe
  <2>2. subscribers' \in [Runs -> SUBSET Subscribers]
    BY <1>4, <2>1 DEF Subscribe
  <2>3. snapshot' \in [Subscribers -> Seq(Event)]
    BY <1>4, <2>1 DEF Subscribe
  <2> QED
    BY <1>4, <2>1, <2>2, <2>3 DEF Subscribe, Active
<1>5. ASSUME NEW s \in Subscribers, Replay(s)
      PROVE  TypeOK'
  BY <1>5, HeadTailProperties DEF Replay
<1>6. ASSUME NEW s \in Subscribers, EndReplay(s)
      PROVE  TypeOK'
  <2>1. subscribers' \in [Runs -> SUBSET Subscribers]
    BY <1>6, LeaveFacts DEF EndReplay
  <2> QED
    BY <1>6, <2>1 DEF EndReplay, Active
<1>7. ASSUME NEW s \in Subscribers, Receive(s)
      PROVE  TypeOK'
  <2>1. Head(queue[s]) \in Event /\ Tail(queue[s]) \in Seq(Event)
        /\ Len(Tail(queue[s])) <= QueueLimit
    BY <1>7, HeadTailProperties, BusAssumption DEF Receive
  <2>2. subscribers' \in [Runs -> SUBSET Subscribers]
    BY <1>7, LeaveFacts DEF Receive
  <2>3. pc' \in [Subscribers -> Active \cup {"idle", "authorized", "closed", "abandoned", "gone"}]
    BY <1>7 DEF Receive
  <2> QED
    BY <1>7, <2>1, <2>2, <2>3 DEF Receive
<1>8. ASSUME NEW s \in Subscribers, Disconnect(s)
      PROVE  TypeOK'
  BY <1>8 DEF Disconnect, Active
<1>9. ASSUME NEW s \in Subscribers, Unsubscribe(s)
      PROVE  TypeOK'
  <2>1. subscribers' \in [Runs -> SUBSET Subscribers]
    BY <1>9, LeaveFacts DEF Unsubscribe
  <2> QED
    BY <1>9, <2>1 DEF Unsubscribe, Active
<1>10. CASE Tick
  BY <1>10 DEF Tick
<1>11. CASE UNCHANGED vars
  BY <1>11 DEF vars
<1> QED
  BY <1>1, <1>2, <1>3, <1>4, <1>5, <1>6, <1>7, <1>8, <1>9, <1>10, <1>11 DEF Next

-----------------------------------------------------------------------------
(* Two consecutively numbered sequences concatenate to one.                *)
LEMMA ConcatNumbers ==
    ASSUME NEW q \in Seq(Event), NEW e \in Seq(Event), NEW c \in Int,
           Numbered(q, c), Numbered(e, c + Len(q))
    PROVE  /\ q \o e \in Seq(Event)
           /\ Len(q \o e) = Len(q) + Len(e)
           /\ Numbered(q \o e, c)
<1>1. /\ q \o e \in Seq(Event)
      /\ Len(q \o e) = Len(q) + Len(e)
  BY ConcatProperties
<1>2. ASSUME NEW i \in 1..Len(q), i \in 1..Len(q) + Len(e)
      PROVE  (q \o e)[i].n = c + i
  <2>1. (q \o e)[i] = q[i]
    BY <1>2, ConcatProperties
  <2> QED
    BY <2>1 DEF Numbered
<1>3. ASSUME NEW i \in Len(q) + 1 .. Len(q) + Len(e)
      PROVE  (q \o e)[i].n = c + i
  <2>1. (q \o e)[i] = e[i - Len(q)] /\ i - Len(q) \in 1..Len(e)
    BY ConcatProperties
  <2>2. e[i - Len(q)].n = c + Len(q) + (i - Len(q))
    BY <2>1 DEF Numbered
  <2> QED
    BY <2>1, <2>2
<1> QED
  BY <1>1, <1>2, <1>3 DEF Numbered

(* Trimming a consecutively numbered history keeps its newest part.        *)
LEMMA TrimmedNumbers ==
    ASSUME NEW all \in Seq(Event), NEW limit \in Nat \ {0}, NEW c \in Int,
           Len(all) > 0, Numbered(all, c)
    PROVE  LET h == KeepLast(all, limit)
           IN  /\ h \in Seq(Event)
               /\ Len(h) \in Nat \ {0}
               /\ Len(h) <= Len(all)
               /\ Numbered(h, c + Len(all) - Len(h))
<1> DEFINE h == KeepLast(all, limit)
<1>1. /\ h \in Seq(Event)
      /\ Len(h) <= Len(all)
      /\ Len(h) > 0
      /\ \A i \in 1..Len(h) : h[i] = all[Len(all) - Len(h) + i]
  BY KeepLastFacts
<1> HIDE DEF h
<1>2. Len(h) \in Nat \ {0}
  BY <1>1
<1>3. ASSUME NEW i \in 1..Len(h)
      PROVE  h[i].n = c + Len(all) - Len(h) + i
  <2>1. Len(all) - Len(h) + i \in 1..Len(all)
    BY <1>1, <1>2
  <2>2. all[Len(all) - Len(h) + i].n = c + (Len(all) - Len(h) + i)
    BY <2>1 DEF Numbered
  <2>3. h[i].n = c + (Len(all) - Len(h) + i)
    BY <1>1, <2>2
  <2> QED
    BY <1>2, <2>3
<1> QED
  BY <1>1, <1>2, <1>3 DEF h, Numbered

(* Taking the head off a consecutively numbered sequence.                  *)
LEMMA TailNumbers ==
    ASSUME NEW q \in Seq(Event), NEW c \in Int, q # <<>>, Numbered(q, c)
    PROVE  /\ Head(q).n = c + 1
           /\ Tail(q) \in Seq(Event)
           /\ Len(Tail(q)) = Len(q) - 1
           /\ Numbered(Tail(q), c + 1)
<1>1. /\ Tail(q) \in Seq(Event)
      /\ Len(Tail(q)) = Len(q) - 1
      /\ \A i \in 1..Len(Tail(q)) : Tail(q)[i] = q[i + 1]
      /\ Head(q) = q[1]
      /\ Len(q) \in Nat \ {0}
  BY HeadTailProperties, EmptySeq
<1>2. ASSUME NEW i \in 1..Len(Tail(q))
      PROVE  Tail(q)[i].n = c + 1 + i
  BY <1>1 DEF Numbered
<1> QED
  BY <1>1, <1>2 DEF Numbered

(* What publish does to the maps of the bus, one run at a time.            *)
LEMMA PublishMaps ==
    ASSUME TypeOK, \A y \in Runs : RunInv(y),
           NEW r \in Runs, NEW kinds \in Bursts, Publish(r, kinds)
    PROVE  /\ r \in owners /\ r \in owners' /\ ~done[r]
           /\ history'[r] = KeepLast(history[r] \o BurstEvents(r, kinds), HistoryLimit)
           /\ published'[r] = published[r] + Len(kinds)
           /\ done'[r] = Ends(kinds)
           /\ finishedAt'[r] = IF Ends(kinds) THEN now ELSE NotFinished
           /\ now' = now
           /\ \A x \in Expired :
                 /\ x \in Runs /\ x # r /\ done[x] /\ done'[x]
                 /\ x \notin owners' /\ history'[x] = <<>> /\ subscribers'[x] = {}
                 /\ published'[x] = published[x] /\ finishedAt'[x] = NotFinished
           /\ \A x \in (Runs \ Expired) \ {r} :
                 /\ history'[x] = history[x]
                 /\ published'[x] = published[x]
                 /\ finishedAt'[x] = finishedAt[x]
                 /\ done'[x] = done[x]
                 /\ x \in owners' <=> x \in owners
           /\ \A x \in Runs \ Expired : subscribers'[x] = subscribers[x]
<1>1. /\ r \in owners
      /\ ~done[r]
      /\ history' = [x \in Runs |->
            CASE x = r -> KeepLast(history[r] \o BurstEvents(r, kinds), HistoryLimit)
              [] x # r /\ x \in Expired -> <<>>
              [] OTHER -> history[x]]
      /\ subscribers' = [x \in Runs |-> IF x \in Expired THEN {} ELSE subscribers[x]]
      /\ owners' = owners \ Expired
      /\ done' = [done EXCEPT ![r] = Ends(kinds)]
      /\ finishedAt' = [x \in Runs |->
            CASE x = r -> IF Ends(kinds) THEN now ELSE NotFinished
              [] x # r /\ x \in Expired -> NotFinished
              [] OTHER -> finishedAt[x]]
      /\ published' = [published EXCEPT ![r] = @ + Len(kinds)]
      /\ now' = now
  BY DEF Publish
<1>2. /\ r \notin Expired
      /\ \A x \in Expired : x \in Runs /\ x # r /\ done[x]
  BY <1>1 DEF Expired, RunInv
<1>3. /\ done \in [Runs -> BOOLEAN]
      /\ published \in [Runs -> Nat]
      /\ owners \subseteq Runs
  BY DEF TypeOK
<1>4. ASSUME NEW x \in Expired
      PROVE  /\ x \in Runs /\ x # r /\ done[x] /\ done'[x]
             /\ x \notin owners' /\ history'[x] = <<>> /\ subscribers'[x] = {}
             /\ published'[x] = published[x] /\ finishedAt'[x] = NotFinished
  BY <1>1, <1>2, <1>3, <1>4
<1>5. ASSUME NEW x \in (Runs \ Expired) \ {r}
      PROVE  /\ history'[x] = history[x]
             /\ published'[x] = published[x]
             /\ finishedAt'[x] = finishedAt[x]
             /\ done'[x] = done[x]
             /\ x \in owners' <=> x \in owners
  BY <1>1, <1>3, <1>5
<1> QED
  BY <1>1, <1>2, <1>3, <1>4, <1>5

(* The history of a run stays the newest part of what it published.        *)
LEMMA RunInvNext ==
    ASSUME TypeOK, \A r \in Runs : RunInv(r), [Next]_vars, NEW x \in Runs
    PROVE  RunInv(x)'
<1>1. ASSUME NEW r \in Runs, Register(r)
      PROVE  RunInv(x)'
  BY <1>1 DEF Register, TypeOK, RunInv, Numbered
<1>2. ASSUME NEW r \in Runs, NEW kinds \in Bursts, Publish(r, kinds)
      PROVE  RunInv(x)'
  <2>1. CASE x = r
    <3> DEFINE evs == BurstEvents(r, kinds)
               old == history[r]
               new == history'[r]
               all == old \o evs
    <3>1. /\ evs \in Seq(Event)
          /\ Len(evs) = Len(kinds)
          /\ Len(kinds) \in Nat \ {0}
          /\ Numbered(evs, published[r])
          /\ Ends(kinds) \in BOOLEAN
      BY BurstFacts DEF TypeOK, Numbered
    <3>2. /\ old \in Seq(Event)
          /\ Len(old) \in Nat
          /\ published[r] \in Nat
          /\ now \in Nat
          /\ Numbered(old, published[r] - Len(old))
      BY DEF TypeOK, RunInv
    <3>3. /\ r \in owners' /\ done'[r] = Ends(kinds) /\ now' = now
          /\ finishedAt'[r] = IF Ends(kinds) THEN now ELSE NotFinished
          /\ published'[r] = published[r] + Len(kinds)
          /\ new = KeepLast(all, HistoryLimit)
      BY <1>2, PublishMaps
    <3>4. Len(old) <= published[r]
      BY DEF RunInv
    <3>5. /\ Len(new) <= published'[r]
          /\ Numbered(new, published'[r] - Len(new))
          /\ published'[r] > 0
          /\ new # <<>>
      <4> HIDE DEF evs, old, new, all
      <4>1. PICK c \in Int : c = published[r] - Len(old)
        BY <3>2
      <4>2. Numbered(old, c) /\ Numbered(evs, c + Len(old))
        BY <3>1, <3>2, <4>1
      <4>3. all \in Seq(Event) /\ Len(all) = Len(old) + Len(evs) /\ Numbered(all, c)
        BY <3>1, <3>2, <4>2, ConcatNumbers DEF all
      <4>4. Len(all) > 0
        BY <3>1, <3>2, <4>3
      <4>5. /\ Len(new) \in Nat \ {0}
            /\ Len(new) <= Len(all)
            /\ Numbered(new, c + Len(all) - Len(new))
        <5>1. HistoryLimit \in Nat \ {0}
          BY BusAssumption
        <5>2. new = KeepLast(all, HistoryLimit)
          BY <3>3
        <5>3. /\ KeepLast(all, HistoryLimit) \in Seq(Event)
              /\ Len(KeepLast(all, HistoryLimit)) \in Nat \ {0}
              /\ Len(KeepLast(all, HistoryLimit)) <= Len(all)
          BY <4>3, <4>4, <5>1, TrimmedNumbers
        <5>4. Numbered(KeepLast(all, HistoryLimit),
                       c + Len(all) - Len(KeepLast(all, HistoryLimit)))
          BY <4>3, <4>4, <5>1, TrimmedNumbers, Zenon
        <5> QED
          BY <5>2, <5>3, <5>4
      <4>6. PICK d \in Int : d = c + Len(all) - Len(new) /\ Numbered(new, d)
        BY <4>3, <4>5
      <4>7. c + Len(all) = published'[r] /\ Len(all) <= published'[r] /\ published'[r] > 0
        <5>1. Len(all) = Len(old) + Len(evs) /\ Len(evs) = Len(kinds)
          BY <3>1, <4>3
        <5>2. Len(kinds) \in Nat \ {0} /\ published[r] \in Nat /\ Len(old) \in Nat
          BY <3>1, <3>2
        <5>3. published'[r] = published[r] + Len(kinds)
          BY <3>3
        <5> QED
          BY <3>4, <4>1, <5>1, <5>2, <5>3
      <4>8. d = published'[r] - Len(new)
        BY <4>6, <4>7
      <4>9. Len(new) <= published'[r] /\ new # <<>>
        BY <3>1, <3>2, <3>3, <4>3, <4>5, <4>7
      <4> QED
        BY <4>6, <4>7, <4>8, <4>9
    <3>6. /\ finishedAt'[r] # NotFinished => done'[r] /\ finishedAt'[r] <= now'
          /\ done'[r] => finishedAt'[r] # NotFinished
      BY <3>1, <3>2, <3>3 DEF NotFinished
    <3> QED
      BY <2>1, <3>3, <3>5, <3>6 DEF RunInv, Numbered
  <2>2. CASE x \in Expired
    <3>1. /\ done[x] /\ done'[x] /\ x \notin owners' /\ history'[x] = <<>>
          /\ published'[x] = published[x] /\ finishedAt'[x] = NotFinished
      BY <1>2, <2>2, PublishMaps
    <3>2. published[x] > 0 /\ published[x] \in Nat
      BY <3>1 DEF RunInv, TypeOK
    <3> QED
      BY <3>1, <3>2 DEF RunInv, Numbered
  <2>3. CASE x # r /\ x \notin Expired
    <3>1. /\ history'[x] = history[x] /\ published'[x] = published[x]
          /\ finishedAt'[x] = finishedAt[x] /\ done'[x] = done[x]
          /\ (x \in owners' <=> x \in owners) /\ now' = now
      BY <1>2, <2>3, PublishMaps
    <3> QED
      BY <3>1 DEF RunInv, Numbered
  <2> QED
    BY <2>1, <2>2, <2>3
<1>3. ASSUME UNCHANGED <<history, owners, done, finishedAt, published, now>>
      PROVE  RunInv(x)'
  BY <1>3 DEF RunInv, Numbered
<1>4. ASSUME NEW s \in Subscribers, NEW r \in Runs, OpenStream(s, r)
      PROVE  RunInv(x)'
  BY <1>3, <1>4 DEF OpenStream, busVars
<1>5. ASSUME NEW s \in Subscribers,
             \/ Subscribe(s) \/ Replay(s) \/ EndReplay(s) \/ Receive(s)
             \/ Disconnect(s) \/ Unsubscribe(s)
      PROVE  RunInv(x)'
  BY <1>3, <1>5 DEF Subscribe, Replay, EndReplay, Receive, Disconnect, Unsubscribe, busVars
<1>6. CASE Tick
  BY <1>6 DEF Tick, RunInv, Numbered, TypeOK, busVars, NotFinished
<1>7. CASE UNCHANGED vars
  BY <1>3, <1>7 DEF vars, busVars
<1> QED
  BY <1>1, <1>2, <1>4, <1>5, <1>6, <1>7 DEF Next

-----------------------------------------------------------------------------
(* A step of one stream leaves every other stream as it is.                *)
StreamStep(s) ==
    \/ \E r \in Runs : OpenStream(s, r)
    \/ Subscribe(s) \/ Replay(s) \/ EndReplay(s) \/ Receive(s)
    \/ Disconnect(s) \/ Unsubscribe(s)

SameStream(x) ==
    /\ pc'[x] = pc[x] /\ run'[x] = run[x]
    /\ snapshot'[x] = snapshot[x] /\ queue'[x] = queue[x]
    /\ last'[x] = last[x] /\ dropped'[x] = dropped[x]

(* A stream that ends its replay, receives or unsubscribes goes on live or  *)
(* takes its queue out of the list for good.                               *)
LEMMA EndSteps ==
    ASSUME TypeOK, NEW s \in Subscribers, EndReplay(s) \/ Receive(s) \/ Unsubscribe(s)
    PROVE  /\ UNCHANGED <<run, owners, done, published, dropped>>
           /\ pc[s] \in {"replay", "live", "abandoned"}
           /\ pc' = [pc EXCEPT ![s] = pc'[s]]
           /\ \/ subscribers' = subscribers /\ pc'[s] = "live"
              \/ /\ pc'[s] \in {"closed", "gone"}
                 /\ \A r \in Runs : subscribers'[r] =
                       IF r = run[s] THEN subscribers[r] \ {s} ELSE subscribers[r]
<1>1. CASE EndReplay(s)
  BY <1>1, LeaveFacts DEF EndReplay, TypeOK
<1>2. CASE Receive(s)
  <2>1. CASE Head(queue[s]).kind \in Terminal
    BY <1>2, <2>1, LeaveFacts DEF Receive, TypeOK
  <2>2. CASE Head(queue[s]).kind \notin Terminal
    BY <1>2, <2>2 DEF Receive, TypeOK
  <2> QED
    BY <2>1, <2>2
<1>3. CASE Unsubscribe(s)
  BY <1>3, LeaveFacts DEF Unsubscribe, TypeOK
<1> QED
  BY <1>1, <1>2, <1>3

LEMMA OtherStreams ==
    ASSUME TypeOK, NEW s \in Subscribers, StreamStep(s),
           NEW x \in Subscribers, x # s
    PROVE  /\ SameStream(x)
           /\ \A r \in Runs : x \in subscribers'[r] <=> x \in subscribers[r]
           /\ owners' = owners /\ done' = done /\ published' = published
<1> USE DEF SameStream, busVars
<1>1. ASSUME NEW r \in Runs, OpenStream(s, r)
      PROVE  SameStream(x) /\ UNCHANGED <<subscribers, owners, done, published>>
  BY <1>1 DEF OpenStream, TypeOK
<1>2. ASSUME Subscribe(s)
      PROVE  /\ SameStream(x) /\ UNCHANGED <<owners, done, published>>
             /\ \A r \in Runs : x \in subscribers'[r] <=> x \in subscribers[r]
  BY <1>2 DEF Subscribe, TypeOK
<1>3. ASSUME Replay(s) \/ Disconnect(s)
      PROVE  SameStream(x) /\ UNCHANGED <<subscribers, owners, done, published>>
  BY <1>3 DEF Replay, Disconnect, TypeOK
<1>4. ASSUME EndReplay(s) \/ Receive(s) \/ Unsubscribe(s)
      PROVE  /\ SameStream(x) /\ UNCHANGED <<owners, done, published>>
             /\ \A r \in Runs : x \in subscribers'[r] <=> x \in subscribers[r]
  <2>1. snapshot'[x] = snapshot[x] /\ queue'[x] = queue[x] /\ last'[x] = last[x]
    BY <1>4 DEF EndReplay, Receive, Unsubscribe, TypeOK
  <2>2. pc'[x] = pc[x]
    BY <1>4, EndSteps DEF TypeOK
  <2> QED
    BY <1>4, <2>1, <2>2, EndSteps
<1> QED
  BY <1>1, <1>2, <1>3, <1>4 DEF StreamStep

(* A run that is about to be registered has no stream yet.                 *)
LEMMA FreshRun ==
    ASSUME TypeOK, NEW r \in Runs, Register(r),
           NEW x \in Subscribers, PlaceInv(x)
    PROVE  /\ pc[x] # "idle" => run[x] # r
           /\ \A y \in Runs : x \in subscribers'[y] <=> x \in subscribers[y]
  BY DEF TypeOK, Register, PlaceInv, Active

(* What publish does to one stream.                                        *)
LEMMA PublishStream ==
    ASSUME TypeOK, NEW r \in Runs, NEW kinds \in Bursts, Publish(r, kinds),
           NEW x \in Subscribers
    PROVE  /\ pc' = pc /\ run' = run /\ snapshot' = snapshot /\ last' = last
           /\ x \notin subscribers[r] => queue'[x] = queue[x] /\ dropped'[x] = dropped[x]
           /\ x \in subscribers[r] =>
                 /\ queue'[x] = KeepFirst(queue[x] \o BurstEvents(r, kinds), QueueLimit)
                 /\ dropped'[x] = (dropped[x] \/ Len(queue[x]) + Len(kinds) > QueueLimit)
<1>1. Len(BurstEvents(r, kinds)) = Len(kinds)
  BY BurstFacts DEF TypeOK
<1> QED
  BY <1>1 DEF Publish, TypeOK

(* The place of every stream is kept.                                      *)
LEMMA PlaceInvNext ==
    ASSUME TypeOK, \A r \in Runs : RunInv(r), \A s \in Subscribers : PlaceInv(s),
           [Next]_vars, NEW x \in Subscribers
    PROVE  PlaceInv(x)'
<1>1. ASSUME NEW r \in Runs, Register(r)
      PROVE  PlaceInv(x)'
  <2>1. /\ UNCHANGED streamVars /\ done' = done /\ owners' = owners \cup {r}
        /\ \A y \in Runs : x \in subscribers'[y] <=> x \in subscribers[y]
    BY <1>1, FreshRun DEF Register
  <2>2. pc[x] \in Active => pc[x] # "idle"
    BY DEF Active
  <2>3. PlaceInv(x) /\ (pc[x] # "idle" => run[x] \in Runs)
    BY DEF TypeOK
  <2> QED
    BY <2>1, <2>2, <2>3 DEF PlaceInv, streamVars
<1>2. ASSUME NEW r \in Runs, NEW kinds \in Bursts, Publish(r, kinds)
      PROVE  PlaceInv(x)'
  <2>1. /\ pc' = pc /\ run' = run /\ snapshot' = snapshot /\ last' = last
        /\ x \notin subscribers[r] => queue'[x] = queue[x] /\ dropped'[x] = dropped[x]
    BY <1>2, PublishStream
  <2>2. ASSUME NEW y \in Runs
        PROVE  /\ done[y] => done'[y]
               /\ y \in owners => y \in owners' \/ done'[y]
               /\ subscribers'[y] = subscribers[y] \/ (done'[y] /\ subscribers'[y] = {})
    BY <1>2, PublishMaps
  <2>3. pc[x] \in {"idle", "authorized"} => x \notin subscribers[r]
    BY DEF PlaceInv, Active
  <2>4. PlaceInv(x) /\ (pc[x] # "idle" => run[x] \in Runs)
    BY DEF TypeOK
  <2>5. pc[x] \in Active => pc[x] # "idle"
    BY DEF Active
  <2> QED
    BY <2>1, <2>2, <2>3, <2>4, <2>5 DEF PlaceInv
<1>3. ASSUME NEW s \in Subscribers, StreamStep(s)
      PROVE  PlaceInv(x)'
  <2>1. CASE x # s
    <3>1. /\ SameStream(x)
          /\ \A r \in Runs : x \in subscribers'[r] <=> x \in subscribers[r]
          /\ owners' = owners /\ done' = done
      BY <1>3, <2>1, OtherStreams
    <3>2. pc[x] \in Active => pc[x] # "idle"
      BY DEF Active
    <3>3. PlaceInv(x) /\ (pc[x] # "idle" => run[x] \in Runs)
      BY DEF TypeOK
    <3> QED
      BY <3>1, <3>2, <3>3 DEF PlaceInv, SameStream
  <2>2. ASSUME x = s, NEW r \in Runs, OpenStream(s, r)
        PROVE  PlaceInv(x)'
    BY <2>2 DEF OpenStream, PlaceInv, TypeOK, Active, busVars
  <2>3. ASSUME x = s, Subscribe(s)
        PROVE  PlaceInv(x)'
    BY <2>3 DEF Subscribe, PlaceInv, TypeOK, Active
  <2>4. ASSUME x = s, Replay(s) \/ Disconnect(s)
        PROVE  PlaceInv(x)'
    BY <2>4 DEF Replay, Disconnect, PlaceInv, TypeOK, Active, busVars
  <2>5. ASSUME x = s, EndReplay(s) \/ Receive(s) \/ Unsubscribe(s)
        PROVE  PlaceInv(x)'
    <3>1. PlaceInv(x) /\ (pc[x] # "idle" => run[x] \in Runs) /\ pc'[x] = pc'[s]
      BY <2>5 DEF TypeOK
    <3>2. /\ run' = run /\ owners' = owners /\ done' = done
          /\ pc[x] \in {"replay", "live", "abandoned"}
      BY <2>5, EndSteps
    <3>3. CASE subscribers' = subscribers /\ pc'[x] = "live"
      <4>1. pc[x] \in {"replay", "live"}
        BY <2>5, <3>3 DEF EndReplay, Receive, Unsubscribe, TypeOK
      <4> QED
        BY <3>1, <3>2, <3>3, <4>1 DEF PlaceInv, Active
    <3>4. CASE /\ pc'[x] \in {"closed", "gone"}
               /\ \A r \in Runs : subscribers'[r] =
                     IF r = run[x] THEN subscribers[r] \ {x} ELSE subscribers[r]
      BY <3>1, <3>2, <3>4 DEF PlaceInv, Active
    <3> QED
      BY <2>5, <3>3, <3>4, EndSteps
  <2> QED
    BY <1>3, <2>1, <2>2, <2>3, <2>4, <2>5 DEF StreamStep
<1>4. CASE Tick \/ UNCHANGED vars
  BY <1>4 DEF Tick, vars, busVars, streamVars, PlaceInv
<1> QED
  BY <1>1, <1>2, <1>3, <1>4 DEF Next, StreamStep

-----------------------------------------------------------------------------
(* A queue after a fan-out: what it held, then new numbers in order.       *)
LEMMA FannedOut ==
    ASSUME NEW q \in Seq(Event), NEW e \in Seq(Event), NEW p \in Nat,
           NEW limit \in Nat, Numbered(e, p)
    PROVE  LET w == KeepFirst(q \o e, limit)
           IN  /\ w \in Seq(Event)
               /\ \A k \in 1..Len(w) :
                     \/ k \in 1..Len(q) /\ w[k] = q[k]
                     \/ k > Len(q) /\ w[k].n = p + (k - Len(q))
               /\ Len(w) <= Len(q) + Len(e)
               /\ Len(q) + Len(e) <= limit => w = q \o e
<1> DEFINE w == KeepFirst(q \o e, limit)
<1>1. /\ q \o e \in Seq(Event)
      /\ Len(q \o e) = Len(q) + Len(e)
  BY ConcatProperties
<1>2. /\ w \in Seq(Event)
      /\ Len(w) <= Len(q) + Len(e)
      /\ Len(q) + Len(e) <= limit => w = q \o e
      /\ \A k \in 1..Len(w) : w[k] = (q \o e)[k]
  BY <1>1, KeepFirstFacts
<1> HIDE DEF w
<1>3. ASSUME NEW k \in 1..Len(w)
      PROVE  \/ k \in 1..Len(q) /\ w[k] = q[k]
             \/ k > Len(q) /\ w[k].n = p + (k - Len(q))
  <2>1. CASE k <= Len(q)
    BY <1>2, <2>1, ConcatProperties
  <2>2. CASE k > Len(q)
    <3>1. k - Len(q) \in 1..Len(e) /\ k \in 1..Len(q) + Len(e)
      BY <1>2, <2>2
    <3>2. w[k] = e[k - Len(q)]
      BY <1>2, <2>2, <3>1, ConcatProperties
    <3>3. e[k - Len(q)].n = p + (k - Len(q))
      BY <3>1 DEF Numbered
    <3> QED
      BY <2>2, <3>2, <3>3
  <2> QED
    BY <2>1, <2>2
<1> QED
  BY <1>2, <1>3 DEF w

(* The three ways in which a stream's pending events change.               *)
LEMMA NumberType ==
    ASSUME NEW q \in Seq(Event)
    PROVE  Len(q) \in Nat /\ \A i \in 1..Len(q) : q[i].n \in Nat
<1>1. Len(q) \in Nat /\ \A i \in 1..Len(q) : q[i] \in Event
  OBVIOUS
<1> QED
  BY <1>1 DEF Event

LEMMA OrderedFanOut ==
    ASSUME NEW lst \in Nat, NEW sn \in Seq(Event), NEW q \in Seq(Event),
           NEW p \in Nat, NEW e \in Seq(Event), NEW limit \in Nat,
           Ordered(lst, sn, q, p), Numbered(e, p)
    PROVE  Ordered(lst, sn, KeepFirst(q \o e, limit), p + Len(e))
<1> DEFINE w == KeepFirst(q \o e, limit)
           top == p + Len(e)
<1>1. /\ w \in Seq(Event)
      /\ \A k \in 1..Len(w) :
            \/ k \in 1..Len(q) /\ w[k] = q[k]
            \/ k > Len(q) /\ w[k].n = p + (k - Len(q))
      /\ Len(w) <= Len(q) + Len(e)
  BY FannedOut
<1> HIDE DEF w
<1>2. /\ top \in Nat /\ p <= top
      /\ Len(q) \in Nat /\ Len(w) \in Nat /\ Len(e) \in Nat /\ Len(sn) \in Nat
  BY <1>1
<1>3. /\ \A i \in 1..Len(q) : q[i].n \in Nat
      /\ \A i \in 1..Len(w) : w[i].n \in Nat
      /\ \A i \in 1..Len(sn) : sn[i].n \in Nat
  BY <1>1, NumberType
<1>4. Between(lst, w, top)
  <2> SUFFICES ASSUME NEW k \in 1..Len(w)
               PROVE  lst < w[k].n /\ w[k].n <= top
    BY DEF Between
  <2>1. CASE k \in 1..Len(q) /\ w[k] = q[k]
    <3>1. lst < q[k].n /\ q[k].n <= p
      BY <2>1 DEF Ordered, Between
    <3> QED
      BY <1>2, <1>3, <2>1, <3>1
  <2>2. CASE k > Len(q) /\ w[k].n = p + (k - Len(q))
    <3>1. lst <= p /\ k <= Len(q) + Len(e)
      BY <1>1, <1>2 DEF Ordered
    <3> QED
      BY <1>2, <2>2, <3>1
  <2> QED
    BY <1>1, <2>1, <2>2
<1>5. \A k \in 1..Len(w) : k <= Len(q) => w[k] = q[k] /\ k \in 1..Len(q)
  <2> SUFFICES ASSUME NEW k \in 1..Len(w), k <= Len(q)
               PROVE  w[k] = q[k] /\ k \in 1..Len(q)
    OBVIOUS
  <2>1. ~(k > Len(q))
    BY <1>2
  <2> QED
    BY <1>1, <2>1
<1>6. \A k \in 1..Len(w) : k > Len(q) => w[k].n = p + (k - Len(q))
  <2> SUFFICES ASSUME NEW k \in 1..Len(w), k > Len(q)
               PROVE  w[k].n = p + (k - Len(q))
    OBVIOUS
  <2>1. k \notin 1..Len(q)
    BY <1>2
  <2> QED
    BY <1>1, <2>1
<1>7. Rising(w)
  <2> SUFFICES ASSUME NEW j \in 1..Len(w), NEW k \in 1..Len(w), j < k
               PROVE  w[j].n < w[k].n
    BY DEF Rising
  <2>1. CASE k <= Len(q)
    <3>2. j <= Len(q)
      BY <1>2, <2>1
    <3>1. w[j] = q[j] /\ w[k] = q[k] /\ j \in 1..Len(q) /\ k \in 1..Len(q)
      BY <1>5, <2>1, <3>2
    <3> QED
      BY <3>1 DEF Ordered, Rising
  <2>2. CASE j <= Len(q) /\ k > Len(q)
    <3>1. w[j] = q[j] /\ j \in 1..Len(q) /\ w[k].n = p + (k - Len(q))
      BY <1>5, <1>6, <2>2
    <3>2. q[j].n <= p /\ q[j].n \in Nat
      BY <1>3, <3>1 DEF Ordered, Between
    <3>3. k - Len(q) \in Nat \ {0}
      BY <1>2, <2>2
    <3>4. p < p + (k - Len(q))
      BY <3>3
    <3> QED
      BY <3>1, <3>2, <3>3, <3>4
  <2>3. CASE j > Len(q)
    <3>3. k > Len(q)
      BY <1>2, <2>3
    <3>1. w[j].n = p + (j - Len(q)) /\ w[k].n = p + (k - Len(q))
      BY <1>6, <2>3, <3>3
    <3>2. p + (j - Len(q)) < p + (k - Len(q))
      BY <1>2
    <3> QED
      BY <3>1, <3>2
  <2> QED
    BY <1>2, <2>1, <2>2, <2>3
<1>8. Before(sn, w)
  <2> SUFFICES ASSUME NEW i \in 1..Len(sn), NEW k \in 1..Len(w)
               PROVE  sn[i].n < w[k].n
    BY DEF Before
  <2>1. sn[i].n <= p
    BY DEF Ordered, Between
  <2>2. CASE k \in 1..Len(q) /\ w[k] = q[k]
    BY <2>2 DEF Ordered, Before
  <2>3. CASE k > Len(q) /\ w[k].n = p + (k - Len(q))
    BY <1>2, <1>3, <2>1, <2>3
  <2> QED
    BY <1>1, <2>2, <2>3
<1>9. Between(lst, sn, top)
  <2> SUFFICES ASSUME NEW i \in 1..Len(sn)
               PROVE  lst < sn[i].n /\ sn[i].n <= top
    BY DEF Between
  <2>1. lst < sn[i].n /\ sn[i].n <= p
    BY DEF Ordered, Between
  <2> QED
    BY <1>2, <1>3, <2>1
<1>10. lst <= top /\ Rising(sn)
  BY <1>2 DEF Ordered
<1> HIDE DEF top
<1>11. Ordered(lst, sn, w, top)
  BY <1>4, <1>7, <1>8, <1>9, <1>10 DEF Ordered
<1> QED
  BY <1>11 DEF w, top

(* Yielding from the snapshot. *)
LEMMA OrderedReplay ==
    ASSUME NEW lst \in Nat, NEW sn \in Seq(Event), NEW q \in Seq(Event),
           NEW p \in Nat, Ordered(lst, sn, q, p), sn # <<>>
    PROVE  Ordered(Head(sn).n, Tail(sn), q, p) /\ lst < Head(sn).n /\ Head(sn).n <= p
<1>1. /\ Tail(sn) \in Seq(Event) /\ Len(Tail(sn)) = Len(sn) - 1
      /\ \A i \in 1..Len(Tail(sn)) : Tail(sn)[i] = sn[i + 1]
      /\ Head(sn) = sn[1] /\ Len(sn) \in Nat \ {0}
  BY HeadTailProperties, EmptySeq
<1>2. lst < sn[1].n /\ sn[1].n <= p
  BY <1>1 DEF Ordered, Between
<1>3. Between(sn[1].n, Tail(sn), p)
  BY <1>1 DEF Ordered, Between, Rising
<1>4. Between(sn[1].n, q, p)
  BY <1>1 DEF Ordered, Between, Before
<1>5. Rising(Tail(sn))
  BY <1>1 DEF Ordered, Rising
<1>6. Before(Tail(sn), q)
  BY <1>1 DEF Ordered, Before
<1> QED
  BY <1>1, <1>2, <1>3, <1>4, <1>5, <1>6 DEF Ordered

(* Yielding from the queue. *)
LEMMA OrderedReceive ==
    ASSUME NEW lst \in Nat, NEW q \in Seq(Event),
           NEW p \in Nat, Ordered(lst, <<>>, q, p), q # <<>>
    PROVE  Ordered(Head(q).n, <<>>, Tail(q), p) /\ lst < Head(q).n /\ Head(q).n <= p
<1>1. /\ Tail(q) \in Seq(Event) /\ Len(Tail(q)) = Len(q) - 1
      /\ \A i \in 1..Len(Tail(q)) : Tail(q)[i] = q[i + 1]
      /\ Head(q) = q[1] /\ Len(q) \in Nat \ {0}
  BY HeadTailProperties, EmptySeq
<1>2. lst < q[1].n /\ q[1].n <= p
  BY <1>1 DEF Ordered, Between
<1>3. Between(q[1].n, Tail(q), p)
  BY <1>1 DEF Ordered, Between, Rising
<1>4. Rising(Tail(q))
  BY <1>1 DEF Ordered, Rising
<1>5. Between(q[1].n, <<>>, p) /\ Rising(<<>>) /\ Before(<<>>, Tail(q))
  BY DEF Between, Rising, Before
<1> QED
  BY <1>1, <1>2, <1>3, <1>4, <1>5 DEF Ordered

(* Publishing more does not disturb what is pending.                       *)
LEMMA OrderedGrows ==
    ASSUME NEW lst \in Nat, NEW sn \in Seq(Event), NEW q \in Seq(Event),
           NEW p \in Nat, NEW more \in Nat, p <= more, Ordered(lst, sn, q, p)
    PROVE  Ordered(lst, sn, q, more)
<1>1. /\ \A i \in 1..Len(q) : q[i].n \in Nat
      /\ \A i \in 1..Len(sn) : sn[i].n \in Nat
  BY NumberType
<1>2. lst <= more
  BY DEF Ordered
<1>3. Between(lst, sn, more) /\ Between(lst, q, more)
  BY <1>1 DEF Ordered, Between
<1> QED
  BY <1>2, <1>3 DEF Ordered

(* A stream that just subscribed has the whole history before it.          *)
LEMMA OrderedHistory ==
    ASSUME NEW h \in Seq(Event), NEW p \in Nat, Len(h) <= p,
           Numbered(h, p - Len(h))
    PROVE  Ordered(0, h, <<>>, p)
<1>1. Between(0, h, p) /\ Rising(h)
  BY DEF Between, Rising, Numbered
<1>2. Between(0, <<>>, p) /\ Rising(<<>>) /\ Before(h, <<>>)
  BY DEF Between, Rising, Before
<1> QED
  BY <1>1, <1>2 DEF Ordered

(* What is pending stays in order.                                         *)
LEMMA OrderInvNext ==
    ASSUME IInv, [Next]_vars, NEW x \in Subscribers
    PROVE  OrderInv(x)'
<1>1. /\ TypeOK
      /\ \A r \in Runs : RunInv(r)
      /\ PlaceInv(x) /\ OrderInv(x)
  BY DEF IInv
<1>2. /\ last[x].n \in Nat
      /\ snapshot[x] \in Seq(Event) /\ queue[x] \in Seq(Event)
      /\ pc[x] # "idle" => run[x] \in Runs
      /\ \A r \in Runs : published[r] \in Nat
  BY <1>1 DEF TypeOK, Event
<1>3. ASSUME SameStream(x), published' = published
      PROVE  OrderInv(x)'
  BY <1>1, <1>3 DEF OrderInv, SameStream
<1>4. ASSUME NEW r \in Runs, Register(r)
      PROVE  OrderInv(x)'
  BY <1>3, <1>4 DEF Register, SameStream, streamVars
<1>5. ASSUME NEW r \in Runs, NEW kinds \in Bursts, Publish(r, kinds)
      PROVE  OrderInv(x)'
  <2>1. /\ pc' = pc /\ run' = run /\ snapshot' = snapshot /\ last' = last
        /\ x \notin subscribers[r] => queue'[x] = queue[x]
        /\ x \in subscribers[r] =>
              queue'[x] = KeepFirst(queue[x] \o BurstEvents(r, kinds), QueueLimit)
    BY <1>1, <1>5, PublishStream
  <2>2. /\ published'[r] = published[r] + Len(kinds)
        /\ \A y \in Runs \ {r} : published'[y] = published[y]
    BY <1>1, <1>5, PublishMaps
  <2>3. /\ BurstEvents(r, kinds) \in Seq(Event)
        /\ Len(BurstEvents(r, kinds)) = Len(kinds)
        /\ Len(kinds) \in Nat
        /\ Numbered(BurstEvents(r, kinds), published[r])
    BY <1>2, BurstFacts DEF Numbered
  <2>4. CASE pc[x] = "idle"
    BY <1>1, <2>1, <2>4 DEF OrderInv
  <2>5. CASE pc[x] # "idle" /\ x \in subscribers[r]
    <3>1. run[x] = r /\ QueueLimit \in Nat
      BY <1>1, <2>5, BusAssumption DEF PlaceInv
    <3>2. Ordered(last[x].n, snapshot[x], queue[x], published[r])
      BY <1>1, <2>5, <3>1 DEF OrderInv
    <3>3. Ordered(last[x].n, snapshot[x],
                  KeepFirst(queue[x] \o BurstEvents(r, kinds), QueueLimit),
                  published[r] + Len(BurstEvents(r, kinds)))
      BY <1>2, <2>3, <3>1, <3>2, OrderedFanOut
    <3> QED
      BY <1>1, <2>1, <2>2, <2>3, <2>5, <3>1, <3>3 DEF OrderInv
  <2>6. CASE pc[x] # "idle" /\ x \notin subscribers[r]
    <3>1. /\ published'[run[x]] \in Nat
          /\ published[run[x]] \in Nat
          /\ published[run[x]] <= published'[run[x]]
      BY <1>2, <2>2, <2>3, <2>6
    <3>2. Ordered(last[x].n, snapshot[x], queue[x], published[run[x]])
      BY <1>1, <2>6 DEF OrderInv
    <3>3. Ordered(last[x].n, snapshot[x], queue[x], published'[run[x]])
      BY <1>2, <3>1, <3>2, OrderedGrows
    <3> QED
      BY <1>1, <2>1, <2>6, <3>3 DEF OrderInv
  <2> QED
    BY <2>4, <2>5, <2>6
<1>6. ASSUME NEW s \in Subscribers, StreamStep(s), x # s
      PROVE  OrderInv(x)'
  BY <1>1, <1>3, <1>6, OtherStreams
<1>7. ASSUME NEW r \in Runs, OpenStream(x, r)
      PROVE  OrderInv(x)'
  <2>1. /\ snapshot'[x] = <<>> /\ queue'[x] = <<>> /\ last'[x].n = 0
        /\ pc'[x] = "authorized" /\ run'[x] = r /\ published'[r] = published[r]
    BY <1>1, <1>7 DEF OpenStream, PlaceInv, TypeOK, busVars
  <2>2. Ordered(0, <<>>, <<>>, published[r])
    BY <1>2 DEF Ordered, Between, Rising, Before
  <2> QED
    BY <2>1, <2>2 DEF OrderInv
<1>8. ASSUME Subscribe(x)
      PROVE  OrderInv(x)'
  <2>1. run[x] \in Runs
    BY <1>2, <1>8 DEF Subscribe
  <2>2. /\ snapshot'[x] = history[run[x]] /\ queue'[x] = <<>> /\ last'[x].n = 0
        /\ pc'[x] = "replay" /\ run'[x] = run[x] /\ published' = published
    BY <1>1, <1>8 DEF Subscribe, PlaceInv, TypeOK
  <2>3. /\ history[run[x]] \in Seq(Event)
        /\ Len(history[run[x]]) <= published[run[x]]
        /\ Numbered(history[run[x]], published[run[x]] - Len(history[run[x]]))
    BY <1>1, <2>1 DEF RunInv, TypeOK
  <2>4. Ordered(0, history[run[x]], <<>>, published[run[x]])
    BY <1>2, <2>1, <2>3, OrderedHistory
  <2> QED
    BY <2>2, <2>4 DEF OrderInv
<1>9. ASSUME Replay(x)
      PROVE  OrderInv(x)'
  <2>1. /\ snapshot'[x] = Tail(snapshot[x]) /\ last'[x] = Head(snapshot[x])
        /\ UNCHANGED <<pc, run, queue, published>>
        /\ pc[x] = "replay" /\ snapshot[x] # <<>>
    BY <1>1, <1>9 DEF Replay, TypeOK, busVars
  <2>2. Ordered(last[x].n, snapshot[x], queue[x], published[run[x]])
    BY <1>1, <2>1 DEF OrderInv
  <2>3. Ordered(Head(snapshot[x]).n, Tail(snapshot[x]), queue[x], published[run[x]])
    BY <1>2, <2>1, <2>2, OrderedReplay
  <2> QED
    BY <2>1, <2>3 DEF OrderInv
<1>10. ASSUME Receive(x)
       PROVE  OrderInv(x)'
  <2>1. /\ queue'[x] = Tail(queue[x]) /\ last'[x] = Head(queue[x])
        /\ UNCHANGED <<run, snapshot, published>>
        /\ pc[x] = "live" /\ queue[x] # <<>>
    BY <1>1, <1>10 DEF Receive, TypeOK
  <2>2. snapshot[x] = <<>>
    BY <1>1, <2>1 DEF OrderInv
  <2>3. Ordered(last[x].n, <<>>, queue[x], published[run[x]])
    BY <1>1, <2>1, <2>2 DEF OrderInv
  <2>4. Ordered(Head(queue[x]).n, <<>>, Tail(queue[x]), published[run[x]])
    BY <1>2, <2>1, <2>3, OrderedReceive
  <2> QED
    BY <2>1, <2>2, <2>4 DEF OrderInv
<1>11. ASSUME EndReplay(x) \/ Disconnect(x) \/ Unsubscribe(x)
       PROVE  OrderInv(x)'
  <2>1. /\ UNCHANGED <<run, snapshot, queue, last, published>>
        /\ pc[x] # "idle"
        /\ pc'[x] = "live" => snapshot[x] = <<>>
    BY <1>1, <1>11 DEF EndReplay, Disconnect, Unsubscribe, TypeOK, busVars, Active
  <2> QED
    BY <1>1, <2>1 DEF OrderInv
<1>12. CASE Tick \/ UNCHANGED vars
  BY <1>3, <1>12 DEF Tick, vars, busVars, streamVars, SameStream
<1> QED
  BY <1>4, <1>5, <1>6, <1>7, <1>8, <1>9, <1>10, <1>11, <1>12 DEF Next, StreamStep

-----------------------------------------------------------------------------
(* A stream that hit no bound goes on holding all it was not given.        *)
LEMMA CompleteInvNext ==
    ASSUME IInv, [Next]_vars, NEW x \in Subscribers
    PROVE  CompleteInv(x)'
<1>1. /\ TypeOK
      /\ \A r \in Runs : RunInv(r)
      /\ PlaceInv(x) /\ OrderInv(x) /\ CompleteInv(x)
  BY DEF IInv
<1>2. /\ last[x].n \in Nat
      /\ snapshot[x] \in Seq(Event) /\ queue[x] \in Seq(Event)
      /\ Len(snapshot[x]) \in Nat /\ Len(queue[x]) \in Nat
      /\ pc[x] # "idle" => run[x] \in Runs
      /\ \A r \in Runs : published[r] \in Nat
  <2>1. /\ last[x].n \in Nat
        /\ snapshot[x] \in Seq(Event) /\ queue[x] \in Seq(Event)
        /\ pc[x] # "idle" => run[x] \in Runs
        /\ \A r \in Runs : published[r] \in Nat
    BY <1>1 DEF TypeOK, Event
  <2> QED
    BY <2>1, NumberType
<1>3. ASSUME SameStream(x), published' = published
      PROVE  CompleteInv(x)'
  BY <1>1, <1>3 DEF CompleteInv, SameStream
<1>4. ASSUME NEW r \in Runs, Register(r)
      PROVE  CompleteInv(x)'
  BY <1>3, <1>4 DEF Register, SameStream, streamVars
<1>5. ASSUME NEW r \in Runs, NEW kinds \in Bursts, Publish(r, kinds)
      PROVE  CompleteInv(x)'
  <2> DEFINE evs == BurstEvents(r, kinds)
  <2>1. /\ pc' = pc /\ run' = run /\ snapshot' = snapshot /\ last' = last
        /\ x \notin subscribers[r] => queue'[x] = queue[x] /\ dropped'[x] = dropped[x]
        /\ x \in subscribers[r] =>
              /\ queue'[x] = KeepFirst(queue[x] \o evs, QueueLimit)
              /\ dropped'[x] = (dropped[x] \/ Len(queue[x]) + Len(kinds) > QueueLimit)
    BY <1>1, <1>5, PublishStream
  <2>2. /\ published'[r] = published[r] + Len(kinds)
        /\ \A y \in Runs \ {r} : published'[y] = published[y]
        /\ ~done[r]
    BY <1>1, <1>5, PublishMaps
  <2>3. /\ evs \in Seq(Event)
        /\ Len(evs) = Len(kinds)
        /\ Len(kinds) \in Nat
        /\ Numbered(evs, published[r])
    BY <1>2, BurstFacts DEF Numbered
  <2> HIDE DEF evs
  <2>4. SUFFICES ASSUME pc[x] \in Active, ~dropped'[x]
                 PROVE  /\ Numbered(snapshot[x], last[x].n)
                        /\ Numbered(queue'[x], last[x].n + Len(snapshot[x]))
                        /\ published'[run[x]]
                              = last[x].n + Len(snapshot[x]) + Len(queue'[x])
    BY <2>1 DEF CompleteInv
  <2>5. run[x] \in Runs
    BY <1>2, <2>4 DEF Active
  <2>6. CASE x \in subscribers[r]
    <3>1. run[x] = r
      BY <1>1, <2>6 DEF PlaceInv
    <3>9. ~dropped[x] /\ ~(Len(queue[x]) + Len(kinds) > QueueLimit)
      BY <2>1, <2>4, <2>6, Zenon
    <3>2. ~dropped[x] /\ Len(queue[x]) + Len(kinds) <= QueueLimit
      BY <1>2, <2>3, <3>9, BusAssumption
    <3>3. /\ Numbered(snapshot[x], last[x].n)
          /\ Numbered(queue[x], last[x].n + Len(snapshot[x]))
          /\ published[r] = last[x].n + Len(snapshot[x]) + Len(queue[x])
      BY <1>1, <2>4, <3>1, <3>2 DEF CompleteInv
    <3>4. PICK c \in Int : c = last[x].n + Len(snapshot[x])
      BY <1>2
    <3>5. Numbered(queue[x], c) /\ published[r] = c + Len(queue[x])
      BY <3>3, <3>4
    <3>6. /\ queue[x] \o evs \in Seq(Event)
          /\ Len(queue[x] \o evs) = Len(queue[x]) + Len(evs)
          /\ Numbered(queue[x] \o evs, c)
      BY <1>2, <2>3, <3>5, ConcatNumbers
    <3>7. queue'[x] = queue[x] \o evs
      BY <2>1, <2>3, <2>6, <3>2, <3>6 DEF KeepFirst
    <3>8. published'[r] = c + Len(queue'[x])
      <4>1. Len(queue'[x]) = Len(queue[x]) + Len(kinds)
        BY <2>3, <3>6, <3>7
      <4>3. published[r] = c + Len(queue[x])
        BY <3>5
      <4>4. Len(queue[x]) \in Int /\ Len(kinds) \in Int
        BY <1>2, <2>3
      <4>2. published[r] + Len(kinds) = c + (Len(queue[x]) + Len(kinds))
        BY <4>3, <4>4
      <4> QED
        BY <2>2, <4>1, <4>2, Zenon
    <3> QED
      BY <3>1, <3>3, <3>4, <3>6, <3>7, <3>8
  <2>7. CASE x \notin subscribers[r]
    <3>1. run[x] # r
      BY <1>1, <2>2, <2>4, <2>7 DEF PlaceInv
    <3>2. ~dropped[x] /\ queue'[x] = queue[x] /\ published'[run[x]] = published[run[x]]
      BY <2>1, <2>2, <2>4, <2>5, <2>7, <3>1
    <3> QED
      BY <1>1, <2>4, <3>2 DEF CompleteInv
  <2> QED
    BY <2>6, <2>7
<1>6. ASSUME NEW s \in Subscribers, StreamStep(s), x # s
      PROVE  CompleteInv(x)'
  BY <1>1, <1>3, <1>6, OtherStreams
<1>7. ASSUME NEW r \in Runs, OpenStream(x, r)
      PROVE  CompleteInv(x)'
  BY <1>1, <1>7 DEF OpenStream, CompleteInv, TypeOK, Active
<1>8. ASSUME Subscribe(x)
      PROVE  CompleteInv(x)'
  <2>1. run[x] \in Runs
    BY <1>2, <1>8 DEF Subscribe
  <2>2. /\ snapshot'[x] = history[run[x]] /\ queue'[x] = <<>> /\ last'[x].n = 0
        /\ run'[x] = run[x] /\ published' = published
        /\ dropped'[x] = (Len(history[run[x]]) < published[run[x]])
    BY <1>1, <1>8 DEF Subscribe, PlaceInv, TypeOK
  <2>3. /\ Len(history[run[x]]) \in Nat
        /\ Len(history[run[x]]) <= published[run[x]]
        /\ Numbered(history[run[x]], published[run[x]] - Len(history[run[x]]))
    BY <1>1, <2>1 DEF RunInv, TypeOK
  <2>4. ASSUME ~dropped'[x]
        PROVE  /\ Len(history[run[x]]) = published[run[x]]
               /\ Numbered(history[run[x]], 0)
    <3>3. ~(Len(history[run[x]]) < published[run[x]])
      BY <2>2, <2>4, Zenon
    <3>1. Len(history[run[x]]) = published[run[x]]
      BY <1>2, <2>1, <2>3, <3>3
    <3>2. published[run[x]] - Len(history[run[x]]) = 0
      BY <2>3, <3>1
    <3> QED
      BY <2>3, <3>1, <3>2
  <2>5. Numbered(<<>>, Len(history[run[x]]))
    BY DEF Numbered
  <2> QED
    BY <1>2, <2>1, <2>2, <2>3, <2>4, <2>5 DEF CompleteInv
<1>9. ASSUME Replay(x)
      PROVE  CompleteInv(x)'
  <2>1. /\ snapshot'[x] = Tail(snapshot[x]) /\ last'[x] = Head(snapshot[x])
        /\ UNCHANGED <<pc, run, queue, published, dropped>>
        /\ pc[x] = "replay" /\ snapshot[x] # <<>>
    BY <1>1, <1>9 DEF Replay, TypeOK, busVars
  <2>2. SUFFICES ASSUME ~dropped[x]
                 PROVE  CompleteInv(x)'
    BY <2>1 DEF CompleteInv
  <2>3. /\ Numbered(snapshot[x], last[x].n)
        /\ Numbered(queue[x], last[x].n + Len(snapshot[x]))
        /\ published[run[x]] = last[x].n + Len(snapshot[x]) + Len(queue[x])
    BY <1>1, <2>1, <2>2 DEF CompleteInv, Active
  <2>4. /\ Head(snapshot[x]).n = last[x].n + 1
        /\ Len(Tail(snapshot[x])) = Len(snapshot[x]) - 1
        /\ Numbered(Tail(snapshot[x]), last[x].n + 1)
    BY <1>2, <2>1, <2>3, TailNumbers
  <2>5. last[x].n + Len(snapshot[x])
           = Head(snapshot[x]).n + Len(Tail(snapshot[x]))
    <3>1. last[x].n + Len(snapshot[x]) = (last[x].n + 1) + (Len(snapshot[x]) - 1)
      <4>1. last[x].n \in Int /\ Len(snapshot[x]) \in Int
        BY <1>2
      <4> QED
        BY <4>1
    <3> QED
      BY <2>4, <3>1
  <2> QED
    BY <2>1, <2>3, <2>4, <2>5 DEF CompleteInv
<1>10. ASSUME Receive(x)
       PROVE  CompleteInv(x)'
  <2>1. /\ queue'[x] = Tail(queue[x]) /\ last'[x] = Head(queue[x])
        /\ UNCHANGED <<run, snapshot, published, dropped>>
        /\ pc[x] = "live" /\ queue[x] # <<>>
    BY <1>1, <1>10 DEF Receive, TypeOK
  <2>2. SUFFICES ASSUME ~dropped[x]
                 PROVE  CompleteInv(x)'
    BY <2>1 DEF CompleteInv
  <2>3. snapshot[x] = <<>> /\ Len(snapshot[x]) = 0
    BY <1>1, <2>1 DEF OrderInv
  <2>4. /\ Numbered(queue[x], last[x].n)
        /\ published[run[x]] = last[x].n + Len(queue[x])
    BY <1>1, <1>2, <2>1, <2>2, <2>3 DEF CompleteInv, Active
  <2>5. /\ Head(queue[x]).n = last[x].n + 1
        /\ Len(Tail(queue[x])) = Len(queue[x]) - 1
        /\ Numbered(Tail(queue[x]), last[x].n + 1)
    BY <1>2, <2>1, <2>4, TailNumbers
  <2>6. /\ Numbered(Tail(queue[x]), Head(queue[x]).n)
        /\ Numbered(<<>>, Head(queue[x]).n)
    BY <2>5 DEF Numbered
  <2>7. published[run[x]] = Head(queue[x]).n + Len(Tail(queue[x]))
    <3>1. last[x].n + Len(queue[x]) = (last[x].n + 1) + (Len(queue[x]) - 1)
      <4>1. last[x].n \in Int /\ Len(queue[x]) \in Int
        BY <1>2
      <4> QED
        BY <4>1
    <3> QED
      BY <2>4, <2>5, <3>1, Zenon
  <2>8. Head(queue[x]).n \in Int /\ Len(Tail(queue[x])) \in Int
    BY <1>2, <2>5
  <2>9. Head(queue[x]).n + Len(snapshot[x]) = Head(queue[x]).n
    BY <2>3, <2>8
  <2> QED
    BY <2>1, <2>3, <2>6, <2>7, <2>9 DEF CompleteInv
<1>11. ASSUME EndReplay(x) \/ Disconnect(x) \/ Unsubscribe(x)
       PROVE  CompleteInv(x)'
  <2>1. /\ UNCHANGED <<run, snapshot, queue, last, published, dropped>>
        /\ pc'[x] \in Active => pc[x] \in Active
    BY <1>1, <1>11 DEF EndReplay, Disconnect, Unsubscribe, TypeOK, busVars, Active
  <2> QED
    BY <1>1, <2>1 DEF CompleteInv
<1>12. CASE Tick \/ UNCHANGED vars
  BY <1>3, <1>12 DEF Tick, vars, busVars, streamVars, SameStream
<1> QED
  BY <1>4, <1>5, <1>6, <1>7, <1>8, <1>9, <1>10, <1>11, <1>12 DEF Next, StreamStep

-----------------------------------------------------------------------------
(* The theorems.                                                           *)

LEMMA InvInit == Init => IInv
<1> SUFFICES ASSUME Init
             PROVE  IInv
  OBVIOUS
<1>1. TypeOK
  BY TypeInit
<1>2. ASSUME NEW r \in Runs
      PROVE  RunInv(r)
  BY <1>2 DEF Init, RunInv, Numbered, NotFinished
<1>3. ASSUME NEW s \in Subscribers
      PROVE  PlaceInv(s) /\ OrderInv(s) /\ CompleteInv(s)
  BY <1>3 DEF Init, PlaceInv, OrderInv, CompleteInv, Active, NoEvent
<1> QED
  BY <1>1, <1>2, <1>3 DEF IInv

LEMMA InvNext == IInv /\ [Next]_vars => IInv'
<1> SUFFICES ASSUME IInv, [Next]_vars
             PROVE  IInv'
  OBVIOUS
<1>1. /\ TypeOK
      /\ \A r \in Runs : RunInv(r)
      /\ \A s \in Subscribers : PlaceInv(s)
  BY DEF IInv
<1>2. TypeOK'
  BY <1>1, TypeNext
<1>3. ASSUME NEW r \in Runs
      PROVE  RunInv(r)'
  BY <1>1, RunInvNext
<1>4. ASSUME NEW s \in Subscribers
      PROVE  PlaceInv(s)' /\ OrderInv(s)' /\ CompleteInv(s)'
  BY <1>1, PlaceInvNext, OrderInvNext, CompleteInvNext
<1> QED
  BY <1>2, <1>3, <1>4 DEF IInv

(* The inductive invariant holds in every reachable state.                 *)
THEOREM Invariance == Spec => []IInv
  BY InvInit, InvNext, PTL DEF Spec

(* Types, and the two bounds of events.py: no history outgrows             *)
(* _history_limit and no queue its maxsize.                                *)
THEOREM TypeCorrect == Spec => []TypeOK
<1>1. IInv => TypeOK
  BY DEF IInv
<1> QED
  BY <1>1, Invariance, PTL

(* The elements of a concatenation, from the left and from the right.      *)
LEMMA ConcatElements ==
    ASSUME NEW S, NEW a \in Seq(S), NEW b \in Seq(S)
    PROVE  /\ a \o b \in Seq(S)
           /\ Len(a \o b) = Len(a) + Len(b)
           /\ \A k \in 1..Len(a) : (a \o b)[k] = a[k]
           /\ \A k \in (Len(a) + 1)..(Len(a) + Len(b)) : (a \o b)[k] = b[k - Len(a)]
  BY ConcatProperties

(* Streams are given events in the order published, none of them twice:    *)
(* the hand-over from history to queue in subscribe neither repeats nor    *)
(* reorders.                                                               *)
THEOREM DeliveryInOrder == Spec => []OrderedDelivery
<1>1. ASSUME IInv, NEW s \in Subscribers, NEW i \in 1..(Len(Numbers(s)) - 1)
      PROVE  Numbers(s)[i].n < Numbers(s)[i + 1].n
  <2> DEFINE sn == snapshot[s]
             q == queue[s]
             one == <<last[s]>>
  <2>1. /\ sn \in Seq(Event) /\ q \in Seq(Event) /\ one \in Seq(Event)
        /\ Len(one) = 1 /\ one[1] = last[s]
        /\ Len(sn) \in Nat /\ Len(q) \in Nat
    BY <1>1 DEF IInv, TypeOK
  <2>2. pc[s] = "idle" => sn = <<>> /\ q = <<>>
    BY <1>1 DEF IInv, PlaceInv
  <2>3. pc[s] # "idle" => /\ Between(last[s].n, sn, published[run[s]])
                          /\ Between(last[s].n, q, published[run[s]])
                          /\ Rising(sn) /\ Rising(q) /\ Before(sn, q)
    BY <1>1 DEF IInv, OrderInv, Ordered
  <2>4. /\ \A k \in 1..Len(sn) : last[s].n < sn[k].n
        /\ \A k \in 1..Len(q) : last[s].n < q[k].n
        /\ Rising(sn) /\ Rising(q) /\ Before(sn, q)
    <3>1. CASE pc[s] = "idle"
      BY <2>2, <3>1 DEF Rising, Before
    <3>2. CASE pc[s] # "idle"
      BY <2>3, <3>2 DEF Between
    <3> QED
      BY <3>1, <3>2
  <2> HIDE DEF sn, q, one
  <2>5. /\ one \o sn \in Seq(Event) /\ Len(one \o sn) = 1 + Len(sn)
        /\ (one \o sn)[1] = last[s]
        /\ \A k \in 2..(1 + Len(sn)) : (one \o sn)[k] = sn[k - 1]
    <3>1. /\ one \o sn \in Seq(Event) /\ Len(one \o sn) = Len(one) + Len(sn)
          /\ \A k \in 1..Len(one) : (one \o sn)[k] = one[k]
          /\ \A k \in (Len(one) + 1)..(Len(one) + Len(sn)) :
                (one \o sn)[k] = sn[k - Len(one)]
      BY <2>1, ConcatElements
    <3> QED
      BY <2>1, <3>1
  <2>6. /\ Len(Numbers(s)) = 1 + Len(sn) + Len(q)
        /\ \A k \in 1..(1 + Len(sn)) : Numbers(s)[k] = (one \o sn)[k]
        /\ \A k \in (2 + Len(sn))..(1 + Len(sn) + Len(q)) :
              Numbers(s)[k] = q[k - 1 - Len(sn)]
    <3> DEFINE m == one \o sn
    <3>1. Numbers(s) = m \o q
      BY DEF Numbers, one, sn, q
    <3>8. m \in Seq(Event)
      BY <2>5
    <3> HIDE DEF m
    <3>2. /\ Len(m \o q) = Len(m) + Len(q)
          /\ \A k \in 1..Len(m) : (m \o q)[k] = m[k]
          /\ \A k \in (Len(m) + 1)..(Len(m) + Len(q)) :
                (m \o q)[k] = q[k - Len(m)]
      BY <2>1, <3>8, ConcatElements
    <3>3. \A k \in (2 + Len(sn))..(1 + Len(sn) + Len(q)) :
              /\ k \in (1 + Len(sn) + 1)..(1 + Len(sn) + Len(q))
              /\ k - (1 + Len(sn)) = k - 1 - Len(sn)
      BY <2>1
    <3>4. Len(m) = 1 + Len(sn)
      BY <2>5 DEF m
    <3>5. Len(Numbers(s)) = 1 + Len(sn) + Len(q)
      BY <3>1, <3>2, <3>4, Zenon
    <3>6. \A k \in 1..(1 + Len(sn)) : Numbers(s)[k] = m[k]
      BY <3>1, <3>2, <3>4
    <3>7. ASSUME NEW k \in (2 + Len(sn))..(1 + Len(sn) + Len(q))
          PROVE  Numbers(s)[k] = q[k - 1 - Len(sn)]
      <4>1. /\ k \in (Len(m) + 1)..(Len(m) + Len(q))
            /\ k - Len(m) = k - 1 - Len(sn)
        BY <3>3, <3>4
      <4>2. (m \o q)[k] = q[k - Len(m)]
        BY <3>2, <4>1
      <4> QED
        BY <3>1, <4>1, <4>2, Zenon
    <3> QED
      BY <3>5, <3>6, <3>7 DEF m
  <2>7. Numbers(s)[1] = last[s]
    <3>1. 1 \in 1..(1 + Len(sn))
      BY <2>1
    <3> QED
      BY <2>5, <2>6, <3>1, Zenon
  <2>8. \A k \in 2..(1 + Len(sn)) : Numbers(s)[k] = sn[k - 1]
    <3>1. \A k \in 2..(1 + Len(sn)) : k \in 1..(1 + Len(sn))
      BY <2>1
    <3> QED
      BY <2>5, <2>6, <3>1, Zenon
  <2>9. i \in 1..(Len(sn) + Len(q))
    BY <2>1, <2>6
  <2>10. CASE i = 1 /\ Len(sn) > 0
    BY <2>1, <2>4, <2>7, <2>8, <2>10
  <2>11. CASE i = 1 /\ Len(sn) = 0
    BY <2>1, <2>4, <2>6, <2>7, <2>9, <2>11
  <2>12. CASE i > 1 /\ i < 1 + Len(sn)
    <3>1. i - 1 \in 1..Len(sn) /\ i \in 1..Len(sn) /\ i - 1 < i /\ (i + 1) - 1 = i
      BY <2>1, <2>9, <2>12
    <3>2. Numbers(s)[i] = sn[i - 1] /\ Numbers(s)[i + 1] = sn[(i + 1) - 1]
      BY <2>1, <2>8, <2>9, <2>12
    <3> QED
      BY <2>4, <3>1, <3>2 DEF Rising
  <2>13. CASE i > 1 /\ i = 1 + Len(sn)
    <3>1. i - 1 \in 1..Len(sn) /\ 1 \in 1..Len(q) /\ (i + 1) - 1 - Len(sn) = 1
      BY <2>1, <2>9, <2>13
    <3>2. Numbers(s)[i] = sn[i - 1] /\ Numbers(s)[i + 1] = q[(i + 1) - 1 - Len(sn)]
      BY <2>1, <2>6, <2>8, <2>9, <2>13
    <3> QED
      BY <2>4, <3>1, <3>2 DEF Before
  <2>14. CASE i > 1 + Len(sn)
    <3>1. /\ i - 1 - Len(sn) \in 1..Len(q) /\ i - Len(sn) \in 1..Len(q)
          /\ i - 1 - Len(sn) < i - Len(sn) /\ (i + 1) - 1 - Len(sn) = i - Len(sn)
          /\ i \in (2 + Len(sn))..(1 + Len(sn) + Len(q))
          /\ i + 1 \in (2 + Len(sn))..(1 + Len(sn) + Len(q))
      BY <2>1, <2>9, <2>14
    <3>2. Numbers(s)[i] = q[i - 1 - Len(sn)]
          /\ Numbers(s)[i + 1] = q[(i + 1) - 1 - Len(sn)]
      BY <2>6, <3>1
    <3> QED
      BY <2>4, <3>1, <3>2 DEF Rising
  <2> QED
    BY <2>1, <2>9, <2>10, <2>11, <2>12, <2>13, <2>14
<1>2. IInv => OrderedDelivery
  BY <1>1 DEF OrderedDelivery
<1> QED
  BY <1>2, Invariance, PTL

(* A stream that subscribed to a registered run and hit no bound has every *)
(* event it was not yet given, so none is lost in the hand-over.           *)
THEOREM NothingLost == Spec => []NoEventLost
<1>1. ASSUME IInv, NEW s \in Subscribers, pc[s] \in Active, ~dropped[s]
      PROVE  Len(snapshot[s]) + Len(queue[s]) = published[run[s]] - last[s].n
  <2>1. last[s].n \in Nat /\ Len(snapshot[s]) \in Nat /\ Len(queue[s]) \in Nat
    BY <1>1 DEF IInv, TypeOK, Event
  <2>2. published[run[s]] = last[s].n + Len(snapshot[s]) + Len(queue[s])
    BY <1>1 DEF IInv, CompleteInv
  <2>3. /\ last[s].n \in Int /\ Len(snapshot[s]) \in Int /\ Len(queue[s]) \in Int
        /\ published[run[s]] \in Int
    <3>1. run[s] \in Runs
      BY <1>1 DEF IInv, TypeOK, Active
    <3> QED
      BY <1>1, <2>1, <3>1 DEF IInv, TypeOK
  <2>4. PICK a \in Int, b \in Int, c \in Int, p \in Int :
            /\ a = last[s].n /\ b = Len(snapshot[s]) /\ c = Len(queue[s])
            /\ p = published[run[s]]
    BY <2>3
  <2>5. p = a + b + c
    BY <2>2, <2>4
  <2>6. b + c = p - a
    BY <2>5
  <2> QED
    BY <2>4, <2>6, Zenon
<1>2. IInv => NoEventLost
  BY <1>1 DEF NoEventLost
<1> QED
  BY <1>2, Invariance, PTL

(* _subscribers holds the queues of open streams of its run, and those of  *)
(* all open streams of a run that is going.                                *)
THEOREM QueuesMatchStreams == Spec => []SubscribersMatchStreams
<1>1. IInv => SubscribersMatchStreams
  <2> SUFFICES ASSUME IInv
               PROVE  SubscribersMatchStreams
    OBVIOUS
  <2>1. \A r \in Runs : subscribers[r] \in SUBSET Subscribers
    BY DEF IInv, TypeOK
  <2> QED
    BY <2>1 DEF IInv, PlaceInv, SubscribersMatchStreams
<1> QED
  BY <1>1, Invariance, PTL

(* No step takes a run away before its retention is over, and every step   *)
(* leaves the newest event in the history.                                 *)
THEOREM KeptUntilRetentionEnds == Spec => KeptForRetention
<1>1. ASSUME IInv, IInv', [Next]_vars, NEW r \in owners,
             ~done[r] \/ now - finishedAt[r] < Retention
      PROVE  /\ r \in owners'
             /\ published'[r] > 0 =>
                   /\ history'[r] # <<>>
                   /\ history'[r][Len(history'[r])].n = published'[r]
  <2>1. r \in Runs /\ TypeOK /\ (\A y \in Runs : RunInv(y)) /\ RunInv(r)
    BY <1>1 DEF IInv, TypeOK
  <2>2. r \notin Expired
    <3>1. done[r] => finishedAt[r] \in Nat
      BY <1>1, <2>1 DEF RunInv, TypeOK, NotFinished
    <3>2. finishedAt[r] # NotFinished => done[r]
      BY <2>1 DEF RunInv
    <3>3. now \in Nat /\ Retention \in Nat
      BY <2>1, BusAssumption DEF TypeOK
    <3> QED
      BY <1>1, <3>1, <3>2, <3>3 DEF Expired
  <2>3. r \in owners'
    <3>1. ASSUME NEW x \in Runs, NEW kinds \in Bursts, Publish(x, kinds)
          PROVE  r \in owners'
      BY <2>2, <3>1 DEF Publish
    <3>2. CASE \E x \in Runs : Register(x)
      BY <3>2 DEF Register
    <3>3. CASE \E s \in Subscribers : StreamStep(s)
      BY <3>3 DEF StreamStep, OpenStream, Subscribe, Replay, EndReplay, Receive,
                  Disconnect, Unsubscribe, busVars
    <3>4. CASE Tick \/ UNCHANGED vars
      BY <3>4 DEF Tick, vars, busVars
    <3> QED
      BY <1>1, <3>1, <3>2, <3>3, <3>4 DEF Next, StreamStep
  <2>4. ASSUME published'[r] > 0
        PROVE  /\ history'[r] # <<>>
               /\ history'[r][Len(history'[r])].n = published'[r]
    <3>1. /\ history'[r] \in Seq(Event) /\ published'[r] \in Nat
          /\ RunInv(r)'
      BY <1>1, <2>1 DEF IInv, TypeOK
    <3>2. history'[r] # <<>> /\ Numbered(history'[r], published'[r] - Len(history'[r]))
      BY <2>3, <2>4, <3>1 DEF RunInv, Numbered
    <3>3. Len(history'[r]) \in 1..Len(history'[r])
      BY <3>1, <3>2, EmptySeq
    <3>4. history'[r][Len(history'[r])].n
             = published'[r] - Len(history'[r]) + Len(history'[r])
      BY <3>2, <3>3 DEF Numbered
    <3> QED
      BY <3>1, <3>2, <3>3, <3>4
  <2> QED
    BY <2>3, <2>4
<1>2. IInv /\ IInv' /\ [Next]_vars => [KeptStep]_vars
  BY <1>1 DEF KeptStep
<1> QED
  BY <1>2, Invariance, PTL DEF Spec, KeptForRetention

-----------------------------------------------------------------------------
(* The safety half of StreamEnds: no stream waits for an event of a run    *)
(* that has ended without having the end in its queue.                     *)
EndsIn(q) == q # <<>> /\ q[Len(q)].kind \in Terminal

NoStreamHangs ==
    \A s \in Subscribers :
        pc[s] = "live" /\ hasDone[s] /\ done[run[s]] /\ ~dropped[s] => EndsIn(queue[s])

(* What a burst appends ends in the kind that the burst ends in.           *)
LEMMA BurstEnd ==
    ASSUME NEW r \in Runs, NEW kinds \in Bursts, published[r] \in Nat, Ends(kinds),
           NEW q \in Seq(Event)
    PROVE  EndsIn(q \o BurstEvents(r, kinds))
<1> DEFINE evs == BurstEvents(r, kinds)
<1>1. evs \in Seq(Event) /\ Len(evs) = Len(kinds) /\ Len(kinds) \in Nat \ {0}
  BY BurstFacts
<1>2. evs[Len(evs)].kind \in Terminal
  BY <1>1 DEF BurstEvents, Ends
<1> HIDE DEF evs
<1>3. /\ Len(q \o evs) = Len(q) + Len(evs)
      /\ q \o evs \in Seq(Event)
      /\ (q \o evs)[Len(q) + Len(evs)] = evs[Len(evs)]
  <2>1. /\ q \o evs \in Seq(Event)
        /\ Len(q \o evs) = Len(q) + Len(evs)
        /\ \A k \in (Len(q) + 1)..(Len(q) + Len(evs)) : (q \o evs)[k] = evs[k - Len(q)]
    BY <1>1, ConcatElements
  <2>2. PICK m \in Nat, n \in Nat \ {0} : m = Len(q) /\ n = Len(evs)
    BY <1>1
  <2>3. m + n \in (m + 1)..(m + n) /\ m + n - m = n
    BY <2>2
  <2> QED
    BY <2>1, <2>2, <2>3
<1>4. q \o evs # <<>>
  BY <1>1, <1>3
<1> QED
  BY <1>2, <1>3, <1>4 DEF EndsIn, evs

(* Taking the first of several events leaves the last one where it was.    *)
LEMMA EndStays ==
    ASSUME NEW q \in Seq(Event), Len(q) > 1, EndsIn(q)
    PROVE  EndsIn(Tail(q))
<1>1. /\ Tail(q) \in Seq(Event)
      /\ Len(Tail(q)) = Len(q) - 1
      /\ \A i \in 1..(Len(q) - 1) : Tail(q)[i] = q[i + 1]
  OBVIOUS
<1>2. PICK n \in Nat \ {0} : Len(q) = n + 1
  OBVIOUS
<1>3. Tail(q)[Len(Tail(q))] = q[Len(q)] /\ Tail(q) # <<>>
  <2>1. n + 1 - 1 = n /\ n \in 1..n
    BY <1>2
  <2>2. Len(Tail(q)) = n /\ Tail(q)[n] = q[n + 1]
    BY <1>1, <1>2, <2>1
  <2>3. Tail(q) # <<>>
    BY <2>2
  <2> QED
    BY <1>2, <2>2, <2>3
<1> QED
  BY <1>3 DEF EndsIn

LEMMA HangNext == IInv /\ NoStreamHangs /\ [Next]_vars => NoStreamHangs'
<1> SUFFICES ASSUME IInv, NoStreamHangs, [Next]_vars, NEW s \in Subscribers,
                    pc'[s] = "live", hasDone'[s], done'[run'[s]], ~dropped'[s]
             PROVE  EndsIn(queue'[s])
  BY DEF NoStreamHangs
<1>1. TypeOK /\ PlaceInv(s)
  BY DEF IInv
<1>2. ASSUME NEW r \in Runs, NEW kinds \in Bursts, Publish(r, kinds)
      PROVE  EndsIn(queue'[s])
  <2>1. /\ pc[s] = "live" /\ hasDone[s] /\ run'[s] = run[s] /\ run[s] \in Runs
        /\ ~done[r] /\ done' = [done EXCEPT ![r] = Ends(kinds)]
        /\ dropped'[s] = (dropped[s] \/ (s \in subscribers[r]
                /\ Len(queue[s]) + Len(BurstEvents(r, kinds)) > QueueLimit))
        /\ queue'[s] = IF s \in subscribers[r]
                          THEN KeepFirst(queue[s] \o BurstEvents(r, kinds), QueueLimit)
                          ELSE queue[s]
    BY <1>1, <1>2 DEF Publish, TypeOK
  <2>2. CASE run[s] = r
    <3>1. s \in subscribers[r] /\ Ends(kinds)
      BY <1>1, <2>1, <2>2 DEF PlaceInv, Active, TypeOK
    <3>2. /\ queue[s] \in Seq(Event) /\ published[r] \in Nat
          /\ BurstEvents(r, kinds) \in Seq(Event)
      BY <1>1, BurstFacts DEF TypeOK
    <3>3. Len(queue[s] \o BurstEvents(r, kinds)) <= QueueLimit
      <4>1. Len(queue[s] \o BurstEvents(r, kinds))
               = Len(queue[s]) + Len(BurstEvents(r, kinds))
        BY <3>2, ConcatElements
      <4>2. ~(Len(queue[s]) + Len(BurstEvents(r, kinds)) > QueueLimit)
        BY <2>1, <3>1
      <4>3. /\ Len(queue[s]) + Len(BurstEvents(r, kinds)) \in Nat
            /\ QueueLimit \in Nat
        BY <3>2, BusAssumption
      <4> QED
        BY <4>1, <4>2, <4>3
    <3>4. queue'[s] = queue[s] \o BurstEvents(r, kinds)
      BY <2>1, <3>1, <3>3 DEF KeepFirst
    <3> QED
      BY <3>1, <3>2, <3>4, BurstEnd
  <2>3. CASE run[s] # r
    <3>1. s \notin subscribers[r]
      BY <1>1, <2>3 DEF PlaceInv
    <3>2. done[run[s]] /\ ~dropped[s] /\ queue'[s] = queue[s]
      BY <1>1, <2>1, <2>3, <3>1 DEF TypeOK
    <3> QED
      BY <2>1, <3>2 DEF NoStreamHangs
  <2> QED
    BY <2>2, <2>3
<1>3. ASSUME NEW x \in Subscribers, EndReplay(x)
      PROVE  EndsIn(queue'[s])
  <2>1. CASE x = s
    BY <1>1, <1>3, <2>1 DEF EndReplay, TypeOK
  <2>2. CASE x # s
    BY <1>1, <1>3, <2>2 DEF EndReplay, TypeOK, NoStreamHangs
  <2> QED
    BY <2>1, <2>2
<1>4. ASSUME NEW x \in Subscribers, Receive(x)
      PROVE  EndsIn(queue'[s])
  <2>1. EndsIn(queue[s]) /\ queue[s] \in Seq(Event)
    <3>1. pc[s] = "live" /\ hasDone[s] /\ done[run[s]] /\ ~dropped[s]
      BY <1>1, <1>4 DEF Receive, TypeOK
    <3> QED
      BY <1>1, <3>1 DEF NoStreamHangs, TypeOK
  <2>2. CASE x = s
    <3>1. Head(queue[s]).kind \notin Terminal /\ queue'[s] = Tail(queue[s])
      BY <1>1, <1>4, <2>2 DEF Receive, TypeOK
    <3>2. Len(queue[s]) > 1
      BY <2>1, <3>1 DEF EndsIn
    <3> QED
      BY <2>1, <3>1, <3>2, EndStays
  <2>3. CASE x # s
    BY <1>1, <1>4, <2>1, <2>3 DEF Receive, TypeOK
  <2> QED
    BY <2>2, <2>3
<1>5. CASE \E x \in Subscribers :
              Subscribe(x) \/ Replay(x) \/ Disconnect(x) \/ Unsubscribe(x)
  <2>1. /\ pc[s] = "live" /\ hasDone[s] /\ done[run[s]] /\ ~dropped[s]
        /\ queue'[s] = queue[s]
    BY <1>1, <1>5 DEF Subscribe, Replay, Disconnect, Unsubscribe, busVars, TypeOK, Active
  <2> QED
    BY <2>1 DEF NoStreamHangs
<1>6. CASE \/ \E x \in Subscribers, r \in Runs : OpenStream(x, r)
           \/ \E r \in Runs : Register(r)
           \/ Tick \/ UNCHANGED vars
  <2>1. /\ pc[s] = "live" /\ hasDone[s] /\ done[run[s]] /\ ~dropped[s]
        /\ queue'[s] = queue[s]
    BY <1>1, <1>6 DEF OpenStream, Register, Tick, vars, busVars, streamVars, TypeOK
  <2> QED
    BY <2>1 DEF NoStreamHangs
<1> QED
  BY <1>2, <1>3, <1>4, <1>5, <1>6 DEF Next

(* A stream that has replayed the history and waits for more of a run that *)
(* has ended holds the end of it: the flag is read after the snapshot, and *)
(* an event that is published in between is in the queue by then.          *)
THEOREM StreamsDoNotHang == Spec => []NoStreamHangs
<1>1. Init => NoStreamHangs
  BY DEF Init, NoStreamHangs
<1> QED
  BY <1>1, HangNext, Invariance, PTL DEF Spec

-----------------------------------------------------------------------------
(* The bus implements the feed.                                            *)

(* The reader of the feed that stands for stream s.                        *)
Reading == [s \in Subscribers |->
               IF pc[s] \in {"idle", "authorized"} THEN NoRun ELSE run[s]]
Cursor == [s \in Subscribers |-> last[s].n]

LEMMA FeedStutter ==
    ASSUME UNCHANGED <<published, last, dropped>>, Reading' = Reading
    PROVE  UNCHANGED Feed!vars
<1>1. Cursor' = Cursor
  BY DEF Cursor
<1> QED
  BY <1>1 DEF Feed!vars, Reading, Cursor

(* Yielding an event is a delivery.                                        *)
LEMMA FeedDeliver ==
    ASSUME IInv, NEW s \in Subscribers, Replay(s) \/ Receive(s)
    PROVE  Feed!Deliver(s)
<1>1. /\ TypeOK /\ OrderInv(s) /\ CompleteInv(s)
      /\ pc[s] \in Active /\ pc[s] # "idle"
      /\ run[s] \in Runs
  BY DEF IInv, TypeOK, Replay, Receive, Active
<1>2. /\ last[s].n \in Nat /\ published[run[s]] \in Nat
      /\ snapshot[s] \in Seq(Event) /\ queue[s] \in Seq(Event)
  BY <1>1 DEF TypeOK, Event
<1>3. Ordered(last[s].n, snapshot[s], queue[s], published[run[s]])
  BY <1>1 DEF OrderInv
<1>4. /\ last[s].n < last'[s].n
      /\ last'[s].n <= published[run[s]]
      /\ ~dropped[s] => last'[s].n = last[s].n + 1
  <2>1. CASE Replay(s)
    <3>1. last'[s] = Head(snapshot[s]) /\ snapshot[s] # <<>>
      BY <1>1, <2>1 DEF Replay, TypeOK
    <3>2. last[s].n < Head(snapshot[s]).n /\ Head(snapshot[s]).n <= published[run[s]]
      BY <1>2, <1>3, <3>1, OrderedReplay
    <3>3. ASSUME ~dropped[s]
          PROVE  Head(snapshot[s]).n = last[s].n + 1
      <4>1. Numbered(snapshot[s], last[s].n)
        BY <1>1, <3>3 DEF CompleteInv
      <4> QED
        BY <1>2, <3>1, <4>1, TailNumbers
    <3> QED
      BY <3>1, <3>2, <3>3
  <2>2. CASE Receive(s)
    <3>1. last'[s] = Head(queue[s]) /\ queue[s] # <<>> /\ pc[s] = "live"
      BY <1>1, <2>2 DEF Receive, TypeOK
    <3>2. snapshot[s] = <<>> /\ Len(snapshot[s]) = 0
      BY <1>1, <3>1 DEF OrderInv
    <3>3. last[s].n < Head(queue[s]).n /\ Head(queue[s]).n <= published[run[s]]
      BY <1>2, <1>3, <3>1, <3>2, OrderedReceive
    <3>4. ASSUME ~dropped[s]
          PROVE  Head(queue[s]).n = last[s].n + 1
      <4>1. Numbered(queue[s], last[s].n + Len(snapshot[s]))
        BY <1>1, <3>4 DEF CompleteInv
      <4>2. last[s].n + Len(snapshot[s]) = last[s].n
        BY <1>2, <3>2
      <4>3. Numbered(queue[s], last[s].n)
        BY <4>1, <4>2
      <4> QED
        BY <1>2, <3>1, <4>3, TailNumbers
    <3> QED
      BY <3>1, <3>3, <3>4
  <2> QED
    BY <2>1, <2>2
<1>5. /\ UNCHANGED <<published, run, dropped>>
      /\ last' = [last EXCEPT ![s] = last'[s]]
      /\ pc' = [pc EXCEPT ![s] = pc'[s]]
      /\ pc'[s] \notin {"idle", "authorized"} /\ pc[s] \notin {"idle", "authorized"}
  BY <1>1 DEF Replay, Receive, TypeOK, busVars
<1>6. Reading' = Reading /\ Reading[s] = run[s]
  BY <1>1, <1>5 DEF Reading, TypeOK
<1>7. Cursor' = [Cursor EXCEPT ![s] = Cursor'[s]]
      /\ Cursor[s] = last[s].n /\ Cursor'[s] = last'[s].n
  BY <1>1, <1>5 DEF Cursor, TypeOK
<1>8. Reading[s] # NoRun
  BY <1>1, <1>6, BusAssumption
<1> QED
  BY <1>4, <1>5, <1>6, <1>7, <1>8 DEF Feed!Deliver, Reading, Cursor

(* Publishing is emitting.                                                 *)
LEMMA FeedEmit ==
    ASSUME IInv, NEW r \in Runs, NEW kinds \in Bursts, Publish(r, kinds)
    PROVE  Feed!Emit(r)
<1>1. /\ TypeOK /\ (\A y \in Runs : RunInv(y))
      /\ \A s \in Subscribers : PlaceInv(s)
      /\ published \in [Runs -> Nat]
  BY DEF IInv, TypeOK
<1>2. published' = [published EXCEPT ![r] = published[r] + Len(kinds)]
      /\ pc' = pc /\ run' = run /\ last' = last
  BY DEF Publish
<1>3. Len(kinds) \in Nat \ {0}
  BY <1>1, BurstFacts
<1>4. published'[r] > published[r]
      /\ published' = [published EXCEPT ![r] = published'[r]]
  BY <1>1, <1>2, <1>3
<1>5. ASSUME NEW s \in Subscribers
      PROVE  /\ dropped[s] => dropped'[s]
             /\ dropped'[s] # dropped[s] => Reading[s] = r
  <2>1. dropped[s] => dropped'[s]
    BY DEF Publish
  <2>2. s \notin subscribers[r] => dropped'[s] = dropped[s]
    BY <1>1, PublishStream
  <2>3. s \in subscribers[r] => Reading[s] = r
    BY <1>1 DEF PlaceInv, Reading, Active
  <2> QED
    BY <2>1, <2>2, <2>3
<1>6. Reading' = Reading /\ Cursor' = Cursor
  BY <1>2 DEF Reading, Cursor
<1> QED
  BY <1>4, <1>5, <1>6 DEF Feed!Emit, Reading, Cursor

(* Subscribing is opening.                                                 *)
LEMMA FeedOpen ==
    ASSUME IInv, NEW s \in Subscribers, Subscribe(s)
    PROVE  Feed!Open(s)
<1>1. /\ TypeOK /\ run[s] \in Runs /\ pc[s] = "authorized"
  BY DEF IInv, TypeOK, Subscribe
<1>2. /\ UNCHANGED <<published, run, last>>
      /\ pc' = [pc EXCEPT ![s] = "replay"]
      /\ dropped' = [dropped EXCEPT ![s] = dropped'[s]]
  BY <1>1 DEF Subscribe, TypeOK
<1>3. Reading[s] = NoRun /\ Reading' = [Reading EXCEPT ![s] = run[s]]
  BY <1>1, <1>2 DEF Reading, TypeOK
<1>4. Cursor' = Cursor
  BY <1>2 DEF Cursor
<1> QED
  BY <1>1, <1>2, <1>3, <1>4 DEF Feed!Open, Reading, Cursor

LEMMA FeedStep ==
    ASSUME IInv, [Next]_vars
    PROVE  [Feed!Next]_(Feed!vars)
<1>1. TypeOK
  BY DEF IInv
<1>2. ASSUME NEW r \in Runs, NEW kinds \in Bursts, Publish(r, kinds)
      PROVE  Feed!Next
  BY <1>2, FeedEmit DEF Feed!Next
<1>3. ASSUME NEW s \in Subscribers, Subscribe(s)
      PROVE  Feed!Next
  BY <1>3, FeedOpen DEF Feed!Next
<1>4. ASSUME NEW s \in Subscribers, Replay(s) \/ Receive(s)
      PROVE  Feed!Next
  BY <1>4, FeedDeliver DEF Feed!Next
<1>5. ASSUME NEW r \in Runs, Register(r)
      PROVE  UNCHANGED Feed!vars
  <2>1. UNCHANGED <<published, last, dropped, pc, run>>
    BY <1>5 DEF Register, streamVars
  <2>2. Reading' = Reading
    BY <2>1 DEF Reading
  <2> QED
    BY <2>1, <2>2, FeedStutter
<1>6. ASSUME NEW s \in Subscribers, NEW r \in Runs, OpenStream(s, r)
      PROVE  UNCHANGED Feed!vars
  <2>1. /\ UNCHANGED <<published, last, dropped>>
        /\ pc' = [pc EXCEPT ![s] = "authorized"] /\ pc[s] = "idle"
        /\ run' = [run EXCEPT ![s] = r]
    BY <1>6 DEF OpenStream, busVars
  <2>2. Reading' = Reading
    BY <1>1, <2>1 DEF Reading, TypeOK
  <2> QED
    BY <2>1, <2>2, FeedStutter
<1>7. ASSUME NEW s \in Subscribers, EndReplay(s) \/ Disconnect(s) \/ Unsubscribe(s)
      PROVE  UNCHANGED Feed!vars
  <2>1. /\ UNCHANGED <<published, last, dropped, run>>
        /\ pc' = [pc EXCEPT ![s] = pc'[s]]
        /\ pc[s] \notin {"idle", "authorized"} /\ pc'[s] \notin {"idle", "authorized"}
    BY <1>1, <1>7 DEF EndReplay, Disconnect, Unsubscribe, busVars, TypeOK, Active
  <2>2. Reading' = Reading
    BY <1>1, <2>1 DEF Reading, TypeOK
  <2> QED
    BY <2>1, <2>2, FeedStutter
<1>8. CASE Tick \/ UNCHANGED vars
  <2>1. UNCHANGED <<published, last, dropped, pc, run>>
    BY <1>8 DEF Tick, vars, busVars, streamVars
  <2>2. Reading' = Reading
    BY <2>1 DEF Reading
  <2> QED
    BY <2>1, <2>2, FeedStutter
<1> QED
  BY <1>2, <1>3, <1>4, <1>5, <1>6, <1>7, <1>8 DEF Next

(* The bus refines the abstract feed: readers move forward through the     *)
(* published events, one at a time unless a bound was hit.                 *)
THEOREM BusImplementsFeed == Spec => ImplementsFeed
<1>1. Init => Feed!Init
  BY DEF Init, Feed!Init, NoEvent
<1>2. IInv /\ [Next]_vars => [Feed!Next]_(Feed!vars)
  BY FeedStep
<1> QED
  BY <1>1, <1>2, Invariance, PTL DEF Spec, ImplementsFeed, Feed!Spec
=============================================================================
