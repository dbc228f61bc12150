---------------------------- MODULE PresenceProofs ----------------------------
(***************************************************************************)
(* Proofs about Presence for every value of its constants: its types, that *)
(* pages converge to the locks there are and forget the sessions that are  *)
(* gone, and that a lock stays with its holder.                            *)
(***************************************************************************)
EXTENDS Presence, FiniteSetTheorems, SequenceTheorems, TLAPS

-----------------------------------------------------------------------------
(* What a page that is still to be sent the locks would show, if they were *)
(* sent now: they replace what it shows.                                   *)
View(p) == IF conn[p] = "greeted" THEN Locked ELSE shown[p]

(* The queue of an open stream tells a page all that changed.              *)
PageInv(p) ==
    /\ conn[p] \in Connected =>
          /\ Locked \subseteq Final(queue[p], View(p))
          /\ (conn[p] = "greeted" \/ ~reconnected[p]) => Final(queue[p], View(p)) = Locked
    /\ conn[p] = "greeted" /\ ~reconnected[p] => shown[p] = {}

IInv == TypeOK /\ \A p \in Pages : PageInv(p)

-----------------------------------------------------------------------------
(* Final, message by message.                                              *)

(* The elements of a concatenation, from the left and from the right.      *)
LEMMA ConcatElements ==
    ASSUME NEW S, NEW a \in Seq(S), NEW b \in Seq(S)
    PROVE  /\ a \o b \in Seq(S)
           /\ Len(a \o b) = Len(a) + Len(b)
           /\ \A i \in 1..Len(a) : (a \o b)[i] = a[i]
           /\ \A i \in 1..Len(b) : (a \o b)[Len(a) + i] = b[i]
<1>1. /\ a \o b \in Seq(S)
      /\ Len(a \o b) = Len(a) + Len(b)
      /\ \A k \in 1..(Len(a) + Len(b)) :
            (a \o b)[k] = IF k <= Len(a) THEN a[k] ELSE b[k - Len(a)]
  BY ConcatProperties
<1>2. Len(a) \in Nat /\ Len(b) \in Nat
  OBVIOUS
<1>3. \A i \in 1..Len(a) : (a \o b)[i] = a[i]
  BY <1>1, <1>2
<1>4. ASSUME NEW i \in 1..Len(b)
      PROVE  (a \o b)[Len(a) + i] = b[i]
  <2>1. Len(a) + i \in 1..(Len(a) + Len(b)) /\ ~(Len(a) + i <= Len(a))
    BY <1>2
  <2>2. Len(a) + i - Len(a) = i
    BY <1>2
  <2> QED
    BY <1>1, <2>1, <2>2
<1> QED
  BY <1>1, <1>3, <1>4

(* What a page shows depends row by row on what it showed before, and not  *)
(* at all for a row that some message is about.                            *)
LEMMA FinalRow ==
    ASSUME NEW q, NEW A, NEW B, NEW h \in Hyps,
           About(q, h) # {} \/ (h \in A <=> h \in B)
    PROVE  h \in Final(q, A) <=> h \in Final(q, B)
  BY DEF Final

(* To read a queue is to read its first part and then the rest.            *)
LEMMA FinalConcat ==
    ASSUME NEW S, NEW a \in Seq(S), NEW b \in Seq(S), NEW A \in SUBSET Hyps
    PROVE  Final(a \o b, A) = Final(b, Final(a, A))
<1> DEFINE c == a \o b
<1>1. /\ Len(c) = Len(a) + Len(b)
      /\ \A i \in 1..Len(a) : c[i] = a[i]
      /\ \A i \in 1..Len(b) : c[Len(a) + i] = b[i]
      /\ Len(a) \in Nat
      /\ Len(b) \in Nat
  BY ConcatElements
<1> SUFFICES ASSUME NEW h \in Hyps
             PROVE  h \in Final(c, A) <=> h \in Final(b, Final(a, A))
  BY DEF Final
<1>2. \A i \in 1..Len(a) : i \in About(c, h) <=> i \in About(a, h)
  BY <1>1 DEF About
<1>3. \A i \in 1..Len(b) : Len(a) + i \in About(c, h) <=> i \in About(b, h)
  BY <1>1 DEF About
<1>4. /\ About(a, h) \subseteq 1..Len(a)
      /\ About(b, h) \subseteq 1..Len(b)
      /\ About(c, h) \subseteq 1..Len(c)
  BY DEF About
<1>5. ASSUME NEW i \in About(c, h)
      PROVE  \/ i \in About(a, h)
             \/ \E k \in About(b, h) : i = Len(a) + k
  <2>1. CASE i <= Len(a)
    BY <2>1, <1>1, <1>2, <1>4
  <2>2. CASE i > Len(a)
    <3>1. i - Len(a) \in 1..Len(b) /\ i = Len(a) + (i - Len(a))
      BY <2>2, <1>1, <1>4
    <3> QED
      BY <3>1, <1>3
  <2> QED
    BY <2>1, <2>2, <1>1, <1>4
<1>6. CASE About(b, h) = {}
  <2>1. About(c, h) = About(a, h)
    BY <1>6, <1>5, <1>2, <1>4
  <2>2. \A i \in About(a, h) : c[i] = a[i]
    BY <1>1, <1>4
  <2>3. h \in Final(c, A) <=> h \in Final(a, A)
    BY <2>1, <2>2 DEF Final
  <2> QED
    BY <2>3, <1>6 DEF Final
<1>7. CASE About(b, h) # {}
  <2>1. PICK k \in About(b, h) : TRUE
    BY <1>7
  <2>2. Len(a) + k \in About(c, h)
    BY <1>3, <1>4
  <2>3. ASSUME NEW i \in About(c, h), c[i].type = "lock", \A j \in About(c, h) : j <= i
        PROVE  \E n \in About(b, h) : b[n].type = "lock" /\ \A j \in About(b, h) : j <= n
    <3>1. i \notin About(a, h)
      BY <2>2, <2>3, <1>1, <1>4
    <3>2. PICK n \in About(b, h) : i = Len(a) + n
      BY <3>1, <1>5
    <3>3. b[n].type = "lock"
      BY <3>2, <2>3, <1>1, <1>4
    <3>4. ASSUME NEW j \in About(b, h)
          PROVE  j <= n
      <4>1. Len(a) + j \in About(c, h)
        BY <1>3, <1>4
      <4>2. Len(a) + j <= Len(a) + n
        BY <4>1, <2>3, <3>2
      <4> QED
        BY <4>2, <1>1, <1>4
    <3> QED
      BY <3>3, <3>4
  <2>4. ASSUME NEW n \in About(b, h), b[n].type = "lock", \A j \in About(b, h) : j <= n
        PROVE  \E i \in About(c, h) : c[i].type = "lock" /\ \A j \in About(c, h) : j <= i
    <3>1. Len(a) + n \in About(c, h) /\ c[Len(a) + n].type = "lock"
      BY <2>4, <1>1, <1>3, <1>4
    <3>2. ASSUME NEW j \in About(c, h)
          PROVE  j <= Len(a) + n
      BY <2>4, <1>1, <1>4, <1>5
    <3> QED
      BY <3>1, <3>2
  <2>5. h \in Final(c, A) <=>
            \E i \in About(c, h) : c[i].type = "lock" /\ \A j \in About(c, h) : j <= i
    BY <2>2 DEF Final
  <2>6. h \in Final(b, Final(a, A)) <=>
            \E n \in About(b, h) : b[n].type = "lock" /\ \A j \in About(b, h) : j <= n
    BY <1>7 DEF Final
  <2> QED
    BY <2>3, <2>4, <2>5, <2>6
<1> QED
  BY <1>6, <1>7

(* An empty queue leaves the page as it is.                                *)
LEMMA FinalEmpty ==
    ASSUME NEW A \in SUBSET Hyps
    PROVE  Final(<<>>, A) = A
  BY DEF Final, About

(* One message.                                                            *)
LEMMA FinalOne ==
    ASSUME NEW m, NEW A \in SUBSET Hyps
    PROVE  Final(<<m>>, A) =
               {h \in Hyps : IF m.type \in {"lock", "unlock"} /\ m.hyp = h
                             THEN m.type = "lock" ELSE h \in A}
<1> SUFFICES ASSUME NEW h \in Hyps
             PROVE  h \in Final(<<m>>, A) <=>
                        IF m.type \in {"lock", "unlock"} /\ m.hyp = h
                        THEN m.type = "lock" ELSE h \in A
  BY DEF Final
<1>1. Len(<<m>>) = 1 /\ <<m>>[1] = m /\ 1..1 = {1}
  OBVIOUS
<1>2. About(<<m>>, h) = IF m.type \in {"lock", "unlock"} /\ m.hyp = h THEN {1} ELSE {}
  BY <1>1 DEF About
<1> QED
  BY <1>1, <1>2 DEF Final

(* A message of the tracker does to the rows what the page does with it.   *)
LEMMA FinalMarked ==
    ASSUME NEW m \in Messages, NEW A \in SUBSET Hyps
    PROVE  Final(<<m>>, A) = Marked(A, m)
<1>1. m.type \in {"lock", "unlock"} => m.hyp \in Hyps
  BY DEF Messages
<1>2. ASSUME NEW h \in Hyps
      PROVE  h \in Marked(A, m) <=>
                 IF m.type \in {"lock", "unlock"} /\ m.hyp = h
                 THEN m.type = "lock" ELSE h \in A
  BY DEF Marked
<1>3. Marked(A, m) \subseteq Hyps
  BY <1>1 DEF Marked
<1> QED
  BY <1>2, <1>3, FinalOne

LEMMA FinalPresence ==
    ASSUME NEW s, PresenceMsg(s) \in Messages, NEW A \in SUBSET Hyps
    PROVE  Final(<<PresenceMsg(s)>>, A) = A
<1>1. PresenceMsg(s).type = "presence"
  BY DEF PresenceMsg
<1>2. Marked(A, PresenceMsg(s)) = A
  BY <1>1 DEF Marked
<1> QED
  BY <1>2, FinalMarked

(* The first message and then the others.                                  *)
LEMMA FinalHead ==
    ASSUME NEW q \in Seq(Messages), q # <<>>, NEW A \in SUBSET Hyps
    PROVE  Final(q, A) = Final(Tail(q), Marked(A, Head(q)))
<1>1. Head(q) \in Messages /\ Tail(q) \in Seq(Messages) /\ <<Head(q)>> \in Seq(Messages)
  OBVIOUS
<1>2. q = <<Head(q)>> \o Tail(q)
  OBVIOUS
<1>3. Final(<<Head(q)>> \o Tail(q), A) = Final(Tail(q), Final(<<Head(q)>>, A))
  BY <1>1, FinalConcat
<1>4. Final(<<Head(q)>>, A) = Marked(A, Head(q))
  BY <1>1, FinalMarked
<1> QED
  BY <1>2, <1>3, <1>4

(* Messages that unlock the rows of S, each of them at least once.         *)
LEMMA FinalUnlocks ==
    ASSUME NEW S \in SUBSET Hyps, NEW q \in Seq(S), NEW A \in SUBSET Hyps,
           \A h \in S : \E i \in DOMAIN q : q[i] = h
    PROVE  Final([i \in 1..Len(q) |-> UnlockMsg(q[i])], A) = A \ S
<1> DEFINE u == [i \in 1..Len(q) |-> UnlockMsg(q[i])]
<1>1. Len(q) \in Nat /\ DOMAIN q = 1..Len(q)
  OBVIOUS
<1>2. Len(u) = Len(q)
  BY <1>1
<1>3. \A i \in 1..Len(q) : u[i].type = "unlock" /\ u[i].hyp = q[i]
  BY DEF UnlockMsg
<1> HIDE DEF u
<1>4. ASSUME NEW h \in Hyps
      PROVE  About(u, h) = {i \in 1..Len(q) : q[i] = h}
  BY <1>2, <1>3 DEF About
<1>5. ASSUME NEW h \in S
      PROVE  h \notin Final(u, A)
  <2>1. About(u, h) # {}
    BY <1>4, <1>1
  <2>2. \A i \in About(u, h) : u[i].type # "lock"
    BY <1>3, <1>4
  <2> QED
    BY <2>1, <2>2 DEF Final
<1>6. ASSUME NEW h \in Hyps \ S
      PROVE  h \in Final(u, A) <=> h \in A
  <2>1. About(u, h) = {}
    BY <1>4, <1>1
  <2> QED
    BY <2>1 DEF Final
<1>7. Final(u, A) = A \ S
  BY <1>5, <1>6 DEF Final
<1> QED
  BY <1>7 DEF u

(* A stream that knows the locks L once it read its queue a knows them     *)
(* again when the messages m, which tell of all that changes, are in.      *)
LEMMA TellAll ==
    ASSUME NEW S, NEW a \in Seq(S), NEW m \in Seq(S), NEW L \in SUBSET Hyps,
           Final(a, L) = L
    PROVE  Final(a \o m, Final(m, L)) = Final(m, L)
<1> DEFINE N == Final(m, L)
<1>1. N \in SUBSET Hyps /\ Final(a, N) \in SUBSET Hyps
  BY DEF Final
<1>2. Final(a \o m, N) = Final(m, Final(a, N))
  BY <1>1, FinalConcat
<1>3. ASSUME NEW h \in Hyps
      PROVE  h \in Final(m, Final(a, N)) <=> h \in N
  <2>1. CASE About(m, h) # {}
    BY <2>1, FinalRow
  <2>2. CASE About(m, h) = {}
    <3>1. h \in N <=> h \in L
      BY <2>2 DEF Final
    <3>2. h \in Final(a, N) <=> h \in Final(a, L)
      BY <3>1, FinalRow
    <3> QED
      BY <3>1, <3>2, FinalRow
  <2> QED
    BY <2>1, <2>2
<1> QED
  BY <1>1, <1>2, <1>3 DEF Final

-----------------------------------------------------------------------------
(* Types.                                                                  *)

LEMMA MessageTypes ==
    /\ \A h \in Hyps : LockMsg(h) \in Messages /\ UnlockMsg(h) \in Messages
    /\ \A k, i : k \in SUBSET Sessions => PresenceMsg(Online(k, i)) \in Messages
  BY DEF Messages, LockMsg, UnlockMsg, PresenceMsg, Online

LEMMA StaleFacts ==
    ASSUME NEW order \in Orders(StaleLocks)
    PROVE  /\ order \in Seq(StaleLocks)
           /\ \A h \in StaleLocks : \E i \in DOMAIN order : order[i] = h
<1>1. IsFiniteSet(StaleLocks)
  BY PresenceAssumption, FS_Subset DEF StaleLocks, Locked
<1>2. Cardinality(StaleLocks) \in Nat
  BY <1>1, FS_CardinalityType
<1> QED
  BY <1>2 DEF Orders

(* What a sweep announces.                                                 *)
Unlocks(order) == [i \in 1..Len(order) |-> UnlockMsg(order[i])]

LEMMA UnlocksType ==
    ASSUME NEW order \in Seq(StaleLocks)
    PROVE  Unlocks(order) \in Seq(Messages)
<1>1. StaleLocks \subseteq Hyps /\ Len(order) \in Nat
  BY DEF StaleLocks, Locked
<1>2. \A i \in 1..Len(order) : UnlockMsg(order[i]) \in Messages
  BY <1>1, MessageTypes
<1> QED
  BY <1>1, <1>2 DEF Unlocks

(* The queues keep their type when messages are broadcast.                 *)
LEMMA BroadcastType ==
    ASSUME TypeOK, NEW msgs \in Seq(Messages), Broadcast(msgs)
    PROVE  queue' \in [Pages -> Seq(Messages)]
<1>1. \A p \in Pages : queue[p] \in Seq(Messages) /\ queue[p] \o msgs \in Seq(Messages)
  BY DEF TypeOK
<1> QED
  BY <1>1 DEF Broadcast

LEMMA TypeInit == Init => TypeOK
<1> SUFFICES ASSUME Init PROVE TypeOK
  OBVIOUS
<1>1. subscribers = {p \in Pages : conn[p] \in Connected}
  BY DEF Init, Connected
<1>2. /\ lockAge \in [Hyps -> 0..(LockTTL + 1)]
      /\ idle \in [Sessions -> 0..(SessionTTL + 1)]
      /\ sinceSweep \in 0..CleanupInterval
  BY PresenceAssumption DEF Init
<1>3. queue \in [Pages -> Seq(Messages)]
  BY DEF Init
<1> QED
  BY <1>1, <1>2, <1>3 DEF Init, TypeOK

(* The part of the types that is about ages.                               *)
Ages ==
    /\ lockAge \in [Hyps -> 0..(LockTTL + 1)]
    /\ \A h \in Hyps \ Locked : lockAge[h] = 0
    /\ idle \in [Sessions -> 0..(SessionTTL + 1)]
    /\ \A s \in Sessions \ known : idle[s] = 0
    /\ sinceSweep \in 0..CleanupInterval

LEMMA TypeNext == TypeOK /\ [Next]_vars => TypeOK'
<1> SUFFICES ASSUME TypeOK, [Next]_vars PROVE TypeOK'
  OBVIOUS
<1> USE PresenceAssumption
<1>1. ASSUME NEW s \in Sessions, NEW h \in Hyps \cup {None}, Heartbeat(s, h)
      PROVE  TypeOK'
  <2>1. known' \in SUBSET Sessions /\ <<PresenceMsg(Online(known', idle'))>> \in Seq(Messages)
    BY <1>1, MessageTypes DEF Heartbeat, TypeOK
  <2>2. queue' \in [Pages -> Seq(Messages)] /\ subscribers' = subscribers
    BY <1>1, <2>1, BroadcastType DEF Heartbeat, Broadcast
  <2>3. Ages'
    BY <1>1 DEF Heartbeat, TypeOK, Ages, Locked, sweepVars
  <2> QED
    BY <1>1, <2>1, <2>2, <2>3 DEF Heartbeat, TypeOK, Ages, sweepVars, pageVars
<1>2. ASSUME NEW s \in Sessions, NEW h \in Hyps, Lock(h, s)
      PROVE  TypeOK'
  <2>1. known' \in SUBSET Sessions /\ <<LockMsg(h)>> \in Seq(Messages)
    BY <1>2, MessageTypes DEF Lock, TypeOK
  <2>2. queue' \in [Pages -> Seq(Messages)] /\ subscribers' = subscribers
    BY <1>2, <2>1, BroadcastType DEF Lock, Broadcast
  <2>3. Ages'
    BY <1>2 DEF Lock, TypeOK, Ages, Locked, sweepVars
  <2> QED
    BY <1>2, <2>1, <2>2, <2>3 DEF Lock, TypeOK, Ages, sweepVars, pageVars
<1>3. ASSUME NEW s \in Sessions, NEW h \in Hyps, Unlock(h, s)
      PROVE  TypeOK'
  <2>1. <<UnlockMsg(h)>> \in Seq(Messages)
    BY <1>3, MessageTypes
  <2>2. queue' \in [Pages -> Seq(Messages)] /\ subscribers' = subscribers
    BY <1>3, <2>1, BroadcastType DEF Unlock, Broadcast
  <2>3. Ages'
    BY <1>3 DEF Unlock, TypeOK, Ages, Locked, sessionVars, sweepVars
  <2> QED
    BY <1>3, <2>1, <2>2, <2>3 DEF Unlock, TypeOK, Ages, sessionVars, sweepVars, pageVars
<1>4. CASE Sweep
  <2>1. known' \in SUBSET Sessions
    BY <1>4 DEF Sweep, TypeOK
  <2>2. queue' \in [Pages -> Seq(Messages)] /\ subscribers' = subscribers
    <3>1. CASE StaleSessions \cup StaleLocks = {}
      BY <3>1, <1>4 DEF Sweep, streamVars, TypeOK
    <3>2. CASE StaleSessions \cup StaleLocks # {}
      <4>1. PICK order \in Orders(StaleLocks) : Announce(order)
        BY <3>2, <1>4 DEF Sweep
      <4>2. <<PresenceMsg(Online(known', idle))>> \in Seq(Messages)
        BY <2>1, MessageTypes
      <4>3. Unlocks(order) \in Seq(Messages)
        BY StaleFacts, UnlocksType
      <4>4. <<PresenceMsg(Online(known', idle))>> \o Unlocks(order) \in Seq(Messages)
        BY <4>2, <4>3
      <4> QED
        BY <4>1, <4>4, BroadcastType DEF Announce, Unlocks, Broadcast
    <3> QED
      BY <3>1, <3>2
  <2>3. Ages'
    BY <1>4 DEF Sweep, TypeOK, Ages, Locked
  <2> QED
    BY <1>4, <2>1, <2>2, <2>3 DEF Sweep, TypeOK, Ages, pageVars
<1>5. CASE Tick
  <2>1. Ages'
    BY <1>5 DEF Tick, TypeOK, Ages, Locked, Older
  <2> QED
    BY <1>5, <2>1 DEF Tick, TypeOK, Ages, pageVars, streamVars
<1>6. ASSUME NEW p \in Pages, Load(p) \/ Reconnect(p)
      PROVE  TypeOK'
  <2>1. Subscribe(p)
    BY <1>6 DEF Load, Reconnect
  <2>2. /\ shown' \in [Pages -> SUBSET Hyps]
        /\ reconnected' \in [Pages -> BOOLEAN]
    BY <1>6 DEF Load, Reconnect, TypeOK
  <2>3. /\ conn' \in [Pages -> Connected \cup {"unloaded", "closed"}]
        /\ subscribers' = {x \in Pages : conn'[x] \in Connected}
    BY <2>1 DEF Subscribe, TypeOK, Connected
  <2>4. queue' \in [Pages -> Seq(Messages)]
    BY <2>1 DEF Subscribe, TypeOK
  <2>5. online' \in [Pages -> SUBSET Sessions]
    BY <2>1 DEF Subscribe, TypeOK, Online
  <2>6. Ages'
    BY <2>1 DEF Subscribe, TypeOK, Ages, Locked, lockVars, sessionVars
  <2> QED
    BY <2>1, <2>2, <2>3, <2>4, <2>5, <2>6 DEF Subscribe, TypeOK, Ages, lockVars, sessionVars
<1>7. ASSUME NEW p \in Pages, ListLocks(p)
      PROVE  TypeOK'
  <2>1. Ages'
    BY <1>7 DEF ListLocks, TypeOK, Ages, Locked, lockVars, sessionVars, sweepVars
  <2> QED
    BY <1>7, <2>1 DEF ListLocks, TypeOK, Ages, Locked, Connected,
                      lockVars, sessionVars, sweepVars, streamVars
<1>8. ASSUME NEW p \in Pages, Receive(p)
      PROVE  TypeOK'
  <2>1. Head(queue[p]) \in Messages /\ Tail(queue[p]) \in Seq(Messages)
    BY <1>8 DEF Receive, TypeOK
  <2>2. shown' \in [Pages -> SUBSET Hyps]
    BY <1>8, <2>1 DEF Receive, TypeOK, Messages, Marked
  <2>3. online' \in [Pages -> SUBSET Sessions]
    BY <1>8, <2>1 DEF Receive, TypeOK, Messages
  <2>4. queue' \in [Pages -> Seq(Messages)]
    BY <1>8, <2>1 DEF Receive, TypeOK
  <2>5. Ages'
    BY <1>8 DEF Receive, TypeOK, Ages, Locked, lockVars, sessionVars, sweepVars
  <2> QED
    BY <1>8, <2>2, <2>3, <2>4, <2>5 DEF Receive, TypeOK, Ages, lockVars, sessionVars, sweepVars
<1>9. ASSUME NEW p \in Pages, Disconnect(p)
      PROVE  TypeOK'
  <2>1. /\ conn' \in [Pages -> Connected \cup {"unloaded", "closed"}]
        /\ subscribers' = {x \in Pages : conn'[x] \in Connected}
    BY <1>9 DEF Disconnect, TypeOK, Connected
  <2>2. queue' \in [Pages -> Seq(Messages)]
    BY <1>9 DEF Disconnect, TypeOK
  <2>3. Ages'
    BY <1>9 DEF Disconnect, TypeOK, Ages, Locked, lockVars, sessionVars, sweepVars
  <2> QED
    BY <1>9, <2>1, <2>2, <2>3 DEF Disconnect, TypeOK, Ages, lockVars, sessionVars, sweepVars
<1>10. CASE UNCHANGED vars
  BY <1>10 DEF vars, lockVars, sessionVars, sweepVars, pageVars, streamVars, TypeOK, Locked
<1> QED
  BY <1>1, <1>2, <1>3, <1>4, <1>5, <1>6, <1>7, <1>8, <1>9, <1>10 DEF Next

-----------------------------------------------------------------------------
(* The pages.                                                              *)

(* Messages that tell of every change of the locks keep the promise.       *)
LEMMA Told ==
    ASSUME TypeOK, NEW p \in Pages, PageInv(p), NEW msgs \in Seq(Messages),
           Broadcast(msgs), UNCHANGED pageVars, Locked' = Final(msgs, Locked)
    PROVE  PageInv(p)'
<1>1. conn' = conn /\ shown' = shown /\ reconnected' = reconnected
  BY DEF pageVars
<1>2. /\ queue[p] \in Seq(Messages)
      /\ Locked \in SUBSET Hyps
      /\ shown[p] \in SUBSET Hyps
  BY DEF TypeOK, Locked
<1>3. CASE conn[p] \notin Connected
  BY <1>1, <1>3 DEF PageInv, Connected
<1>4. CASE conn[p] \in Connected
  <2>1. queue'[p] = queue[p] \o msgs
    BY <1>4 DEF Broadcast, TypeOK
  <2>2. CASE conn[p] = "greeted"
    <3>1. Final(queue[p], Locked) = Locked
      BY <2>2, <1>4 DEF PageInv, View
    <3>2. Final(queue'[p], Locked') = Locked'
      BY <3>1, <2>1, <1>2, TellAll
    <3>3. View(p)' = Locked'
      BY <2>2, <1>1 DEF View
    <3>4. (Final(queue[p], View(p)) = Locked)'
      BY <3>2, <3>3
    <3> QED
      BY <3>4, <1>1, <2>2 DEF PageInv
  <2>3. CASE conn[p] # "greeted"
    <3>1. View(p) = shown[p] /\ View(p)' = shown[p]
      BY <2>3, <1>1 DEF View
    <3> DEFINE F == Final(queue[p], shown[p])
    <3>2. F \in SUBSET Hyps
      BY DEF Final
    <3>3. Final(queue'[p], shown[p]) = Final(msgs, F)
      BY <2>1, <1>2, FinalConcat
    <3>4. Locked \subseteq F
      BY <3>1, <1>4 DEF PageInv
    <3>5. Final(msgs, Locked) \subseteq Final(msgs, F)
      BY <3>4 DEF Final
    <3>6. ~reconnected[p] => Locked' = Final(msgs, F)
      BY <3>1, <1>4 DEF PageInv
    <3>7. (Final(queue[p], View(p)))' = Final(msgs, F)
      BY <3>1, <3>3
    <3> QED
      BY <3>5, <3>6, <3>7, <1>1, <2>3 DEF PageInv
  <2> QED
    BY <2>2, <2>3
<1> QED
  BY <1>3, <1>4

(* A step that leaves the locks and the stream of p alone.                 *)
LEMMA PageSame ==
    ASSUME NEW p \in Pages, PageInv(p), Locked' = Locked,
           conn'[p] = conn[p], queue'[p] = queue[p], shown'[p] = shown[p],
           reconnected'[p] = reconnected[p]
    PROVE  PageInv(p)'
<1>1. View(p)' = View(p)
  BY DEF View
<1>2. Final(queue[p], View(p))' = Final(queue[p], View(p))
  BY <1>1 DEF Final, About
<1> QED
  BY <1>2 DEF PageInv

LEMMA PageNext == IInv /\ [Next]_vars => \A p \in Pages : PageInv(p)'
<1> SUFFICES ASSUME IInv, [Next]_vars, NEW p \in Pages
             PROVE  PageInv(p)'
  OBVIOUS
<1>0. TypeOK /\ PageInv(p) /\ Locked \in SUBSET Hyps
  BY DEF IInv, Locked
<1>1. ASSUME NEW s \in Sessions, NEW h \in Hyps \cup {None}, Heartbeat(s, h)
      PROVE  PageInv(p)'
  <2> DEFINE m == PresenceMsg(Online(known', idle'))
  <2>1. m \in Messages /\ <<m>> \in Seq(Messages)
    BY <1>0, <1>1, MessageTypes DEF Heartbeat, TypeOK
  <2>2. Final(<<m>>, Locked) = Locked
    BY <1>0, <2>1, FinalPresence
  <2>3. Locked' = Locked
    BY <1>1 DEF Heartbeat, Locked
  <2> QED
    BY <1>0, <1>1, <2>1, <2>2, <2>3, Told DEF Heartbeat
<1>2. ASSUME NEW s \in Sessions, NEW h \in Hyps, Lock(h, s)
      PROVE  PageInv(p)'
  <2>1. <<LockMsg(h)>> \in Seq(Messages)
    BY MessageTypes
  <2>2. Final(<<LockMsg(h)>>, Locked) = Locked \cup {h}
    BY <1>0, FinalOne DEF LockMsg
  <2>3. Locked' = Locked \cup {h}
    BY <1>0, <1>2, PresenceAssumption DEF Lock, Locked, TypeOK
  <2> QED
    BY <1>0, <1>2, <2>1, <2>2, <2>3, Told DEF Lock
<1>3. ASSUME NEW s \in Sessions, NEW h \in Hyps, Unlock(h, s)
      PROVE  PageInv(p)'
  <2>1. <<UnlockMsg(h)>> \in Seq(Messages)
    BY MessageTypes
  <2>2. Final(<<UnlockMsg(h)>>, Locked) = Locked \ {h}
    BY <1>0, FinalOne DEF UnlockMsg
  <2>3. Locked' = Locked \ {h}
    BY <1>0, <1>3 DEF Unlock, Locked, TypeOK
  <2> QED
    BY <1>0, <1>3, <2>1, <2>2, <2>3, Told DEF Unlock
<1>4. CASE Sweep
  <2>1. Locked' = Locked \ StaleLocks
    BY <1>0, <1>4 DEF Sweep, Locked, StaleLocks, TypeOK
  <2>2. CASE StaleSessions \cup StaleLocks = {}
    <3>1. Locked' = Locked /\ UNCHANGED <<pageVars, queue>>
      BY <1>4, <2>1, <2>2 DEF Sweep, streamVars
    <3> QED
      BY <3>1, <1>0, PageSame DEF pageVars
  <2>3. CASE StaleSessions \cup StaleLocks # {}
    <3>1. PICK order \in Orders(StaleLocks) : Announce(order)
      BY <2>3, <1>4 DEF Sweep
    <3> DEFINE m == PresenceMsg(Online(known', idle))
    <3>2. m \in Messages /\ <<m>> \in Seq(Messages)
      BY <1>0, <1>4, MessageTypes DEF Sweep, TypeOK
    <3>3. Unlocks(order) \in Seq(Messages)
      BY StaleFacts, UnlocksType
    <3>4. Final(<<m>>, Locked) = Locked
      BY <1>0, <3>2, FinalPresence
    <3>5. StaleLocks \in SUBSET Hyps
      BY DEF StaleLocks, Locked
    <3>6. Final(Unlocks(order), Locked) = Locked \ StaleLocks
      <4>1. /\ order \in Seq(StaleLocks)
            /\ \A h \in StaleLocks : \E i \in DOMAIN order : order[i] = h
        BY StaleFacts
      <4> DEFINE u == [i \in 1..Len(order) |-> UnlockMsg(order[i])]
      <4>2. Final(u, Locked) = Locked \ StaleLocks
        BY ONLY <1>0, <3>5, <4>1, FinalUnlocks
      <4> QED
        BY <4>2 DEF Unlocks
    <3> HIDE DEF m
    <3>7. Final(<<m>> \o Unlocks(order), Locked) = Final(Unlocks(order), Final(<<m>>, Locked))
      BY <1>0, <3>2, <3>3, FinalConcat
    <3>8. <<m>> \o Unlocks(order) \in Seq(Messages)
      BY <3>2, <3>3
    <3>9. Broadcast(<<m>> \o Unlocks(order))
      BY <3>1 DEF Announce, Unlocks, m
    <3>10. UNCHANGED pageVars
      BY <1>4 DEF Sweep
    <3> QED
      BY <1>0, <2>1, <3>4, <3>6, <3>7, <3>8, <3>9, <3>10, Told
  <2> QED
    BY <2>2, <2>3
<1>5. CASE Tick
  BY <1>0, <1>5, PageSame DEF Tick, pageVars, streamVars, Locked
<1>6. ASSUME NEW x \in Pages, Load(x) \/ Reconnect(x)
      PROVE  PageInv(p)'
  <2>1. Subscribe(x)
    BY <1>6 DEF Load, Reconnect
  <2>2. Locked' = Locked
    BY <2>1 DEF Subscribe, lockVars, Locked
  <2>3. CASE x # p
    <3>1. /\ conn'[p] = conn[p] /\ queue'[p] = queue[p]
          /\ shown'[p] = shown[p] /\ reconnected'[p] = reconnected[p]
      BY <1>0, <1>6, <2>1, <2>3 DEF Load, Reconnect, Subscribe, TypeOK
    <3> QED
      BY <3>1, <2>2, <1>0, PageSame
  <2>4. CASE x = p
    <3>1. conn'[p] = "greeted" /\ queue'[p] = <<>>
      BY <1>0, <2>1, <2>4 DEF Subscribe, TypeOK
    <3>2. ~reconnected'[p] => shown'[p] = {}
      BY <1>0, <1>6, <2>4 DEF Load, Reconnect, TypeOK
    <3>3. Final(<<>>, Locked') = Locked'
      BY <1>0, <2>2, FinalEmpty
    <3>4. View(p)' = Locked'
      BY <3>1 DEF View
    <3>5. Final(queue[p], View(p))' = Locked'
      BY <3>1, <3>3, <3>4
    <3> QED
      BY <3>2, <3>5 DEF PageInv
  <2> QED
    BY <2>3, <2>4
<1>7. ASSUME NEW x \in Pages, ListLocks(x)
      PROVE  PageInv(p)'
  <2>1. Locked' = Locked /\ queue' = queue /\ reconnected' = reconnected
    BY <1>7 DEF ListLocks, lockVars, streamVars, Locked
  <2>2. CASE x # p
    <3>1. conn'[p] = conn[p] /\ shown'[p] = shown[p]
      BY <1>0, <1>7, <2>2 DEF ListLocks, TypeOK
    <3> QED
      BY <3>1, <2>1, <1>0, PageSame
  <2>3. CASE x = p
    <3>1. /\ conn[p] = "greeted"
          /\ conn'[p] = "live"
          /\ shown'[p] = IF Locked # {} THEN Locked ELSE shown[p]
      BY <1>0, <1>7, <2>3 DEF ListLocks, TypeOK
    <3>2. Final(queue[p], Locked) = Locked
      BY <1>0, <3>1 DEF PageInv, View, Connected
    <3>3. View(p)' = shown'[p]
      BY <3>1 DEF View
    <3>4. Locked # {} \/ ~reconnected[p] => shown'[p] = Locked
      BY <1>0, <3>1 DEF PageInv
    <3>5. Final(queue[p], View(p))' = Final(queue[p], shown'[p])
      BY <2>1, <3>3 DEF Final, About
    <3>6. Locked # {} \/ ~reconnected[p] => Final(queue[p], View(p))' = Locked
      BY <3>2, <3>4, <3>5
    <3> QED
      BY <2>1, <3>1, <3>6 DEF PageInv
  <2> QED
    BY <2>2, <2>3
<1>8. ASSUME NEW x \in Pages, Receive(x)
      PROVE  PageInv(p)'
  <2>1. Locked' = Locked /\ conn' = conn /\ reconnected' = reconnected
    BY <1>8 DEF Receive, lockVars, Locked
  <2>2. CASE x # p
    <3>1. queue'[p] = queue[p] /\ shown'[p] = shown[p]
      BY <1>0, <1>8, <2>2 DEF Receive, TypeOK
    <3> QED
      BY <3>1, <2>1, <1>0, PageSame
  <2>3. CASE x = p
    <3>1. /\ conn[p] = "live"
          /\ queue[p] \in Seq(Messages)
          /\ queue[p] # <<>>
          /\ shown[p] \in SUBSET Hyps
          /\ queue'[p] = Tail(queue[p])
          /\ shown'[p] = Marked(shown[p], Head(queue[p]))
      BY <1>0, <1>8, <2>3 DEF Receive, TypeOK
    <3>4. Final(queue[p], shown[p]) = Final(Tail(queue[p]), Marked(shown[p], Head(queue[p])))
      BY <3>1, FinalHead
    <3>5. Final(queue[p], View(p))' = Final(queue[p], View(p))
      BY <3>1, <3>4, <2>1 DEF View
    <3> QED
      BY <1>0, <2>1, <3>1, <3>5 DEF PageInv
  <2> QED
    BY <2>2, <2>3
<1>9. ASSUME NEW x \in Pages, Disconnect(x)
      PROVE  PageInv(p)'
  <2>1. Locked' = Locked /\ shown' = shown /\ reconnected' = reconnected
    BY <1>9 DEF Disconnect, lockVars, Locked
  <2>2. CASE x # p
    <3>1. queue'[p] = queue[p] /\ conn'[p] = conn[p]
      BY <1>0, <1>9, <2>2 DEF Disconnect, TypeOK
    <3> QED
      BY <3>1, <2>1, <1>0, PageSame
  <2>3. CASE x = p
    <3>1. conn'[p] = "closed"
      BY <1>0, <1>9, <2>3 DEF Disconnect, TypeOK
    <3> QED
      BY <3>1 DEF PageInv, Connected
  <2> QED
    BY <2>2, <2>3
<1>10. CASE UNCHANGED vars
  BY <1>0, <1>10, PageSame DEF vars, lockVars, pageVars, streamVars, Locked
<1> QED
  BY <1>1, <1>2, <1>3, <1>4, <1>5, <1>6, <1>7, <1>8, <1>9, <1>10 DEF Next

-----------------------------------------------------------------------------
LEMMA InitIInv == Init => IInv
<1> SUFFICES ASSUME Init, NEW p \in Pages PROVE PageInv(p)
  BY TypeInit DEF IInv
<1> QED
  BY DEF Init, PageInv, Connected

(* The inductive invariant.                                                *)
THEOREM Invariance == Spec => []IInv
<1>1. IInv /\ [Next]_vars => IInv'
  BY TypeNext, PageNext DEF IInv
<1> QED
  BY InitIInv, <1>1, PTL DEF Spec

(* Type correctness, and _subscribers holds the queues of the open streams *)
(* of GET /api/explore/events and no other.                                *)
THEOREM TypeCorrect == Spec => []TypeOK
<1>1. IInv => TypeOK
  BY DEF IInv
<1> QED
  BY <1>1, Invariance, PTL

(* Whatever happens while a stream opens, a page that read all its stream  *)
(* holds for it shows every lock, and exactly the locks there are unless   *)
(* its EventSource had to reconnect.                                       *)
THEOREM PagesShowTheLocks == Spec => []PagesConverge
<1>1. IInv => PagesConverge
  BY DEF IInv, PageInv, View, Connected, PagesConverge
<1> QED
  BY <1>1, Invariance, PTL

(* A lock is taken from its holder only when it has expired.               *)
THEOREM LocksStay == Spec => HolderKeepsLock
<1> DEFINE Step == \A h \in Locked : holder'[h] # holder[h] =>
          /\ holder'[h] = None
          /\ lockAge[h] > LockTTL \/ Unlock(h, holder[h])
<1>1. IInv /\ [Next]_vars => Step
  <2> SUFFICES ASSUME IInv, [Next]_vars, NEW h \in Locked, holder'[h] # holder[h]
               PROVE  /\ holder'[h] = None
                      /\ lockAge[h] > LockTTL \/ Unlock(h, holder[h])
    OBVIOUS
  <2>0. h \in Hyps /\ holder \in [Hyps -> Sessions \cup {None}] /\ holder[h] # None
    BY DEF IInv, TypeOK, Locked
  <2>1. ASSUME NEW s \in Sessions, NEW x \in Hyps, Lock(x, s)
        PROVE  FALSE
    BY <2>0, <2>1 DEF Lock
  <2>2. ASSUME NEW s \in Sessions, NEW x \in Hyps, Unlock(x, s)
        PROVE  holder'[h] = None /\ Unlock(h, holder[h])
    <3>1. x = h /\ s = holder[h]
      BY <2>0, <2>2 DEF Unlock
    <3> QED
      BY <2>0, <2>2, <3>1 DEF Unlock
  <2>3. CASE Sweep
    BY <2>0, <2>3 DEF Sweep, StaleLocks
  <2>4. CASE holder' = holder
    BY <2>4
  <2> QED
    BY <2>1, <2>2, <2>3, <2>4 DEF Next, Heartbeat, Tick, Load, Reconnect, Subscribe,
       ListLocks, Receive, Disconnect, lockVars, vars
<1> QED
  BY <1>1, Invariance, PTL DEF Spec, HolderKeepsLock

-----------------------------------------------------------------------------
(* Who a page that read its queue shows as online.                         *)
Said(q) == {i \in 1..Len(q) : q[i].type = "presence"}
LastSeen(q, rows) ==
    {s \in Sessions : IF Said(q) = {} THEN s \in rows
                      ELSE \E i \in Said(q) : /\ s \in q[i].online
                                              /\ \A j \in Said(q) : j <= i}

(* The safety half of the second part of StaleGoes: as long as a page is   *)
(* connected the sweep runs, and the last the page is told of a session is *)
(* that it is online only while the tracker still knows the session, so    *)
(* that the sweep which forgets it has yet to tell the page.               *)
NobodyLingers ==
    \A p \in Pages : conn[p] \in Connected =>
        sweeping /\ LastSeen(queue[p], online[p]) \subseteq known

(* Messages about locks change nothing about who is online.                *)
LEMMA SeenBefore ==
    ASSUME NEW S, NEW a \in Seq(S), NEW m \in Seq(S), NEW rows,
           \A i \in 1..Len(m) : m[i].type # "presence"
    PROVE  LastSeen(a \o m, rows) = LastSeen(a, rows)
<1>1. /\ Len(a \o m) = Len(a) + Len(m)
      /\ \A i \in 1..Len(a) : (a \o m)[i] = a[i]
      /\ \A i \in 1..Len(m) : (a \o m)[Len(a) + i] = m[i]
  BY ConcatElements
<1>2. ASSUME NEW k \in 1..(Len(a) + Len(m)), ~(k <= Len(a))
      PROVE  (a \o m)[k].type # "presence"
  <2>1. k - Len(a) \in 1..Len(m) /\ Len(a) + (k - Len(a)) = k
    BY <1>2
  <2> QED
    BY <1>1, <2>1
<1>3. Said(a \o m) = Said(a)
  <2>1. Said(a \o m) \subseteq Said(a)
    BY <1>1, <1>2 DEF Said
  <2>2. Said(a) \subseteq Said(a \o m)
    BY <1>1 DEF Said
  <2> QED
    BY <2>1, <2>2
<1>4. \A i \in Said(a) : (a \o m)[i] = a[i]
  BY <1>1 DEF Said
<1> QED
  BY <1>3, <1>4 DEF LastSeen

(* The last snapshot of who is online decides.                             *)
LEMMA SeenLast ==
    ASSUME NEW S, NEW a \in Seq(S), NEW m \in Seq(S), NEW rows, m # <<>>,
           m[1].type = "presence",
           \A i \in 1..Len(m) : i # 1 => m[i].type # "presence"
    PROVE  LastSeen(a \o m, rows) \subseteq m[1].online
<1>1. /\ Len(a \o m) = Len(a) + Len(m)
      /\ \A i \in 1..Len(a) : (a \o m)[i] = a[i]
      /\ \A i \in 1..Len(m) : (a \o m)[Len(a) + i] = m[i]
  BY ConcatElements
<1>2. Len(a) + 1 \in Said(a \o m) /\ (a \o m)[Len(a) + 1] = m[1]
  <2>1. 1 \in 1..Len(m) /\ Len(a) + 1 \in 1..(Len(a) + Len(m))
    OBVIOUS
  <2> QED
    BY <1>1, <2>1 DEF Said
<1>3. ASSUME NEW i \in Said(a \o m), Len(a) + 1 <= i
      PROVE  i = Len(a) + 1
  <2>1. i \in 1..(Len(a) + Len(m)) /\ (a \o m)[i].type = "presence"
    BY <1>1 DEF Said
  <2>2. i - Len(a) \in 1..Len(m) /\ Len(a) + (i - Len(a)) = i
    BY <1>3, <2>1
  <2>3. i - Len(a) = 1
    BY <1>1, <2>1, <2>2
  <2> QED
    BY <2>2, <2>3
<1>4. ASSUME NEW s \in LastSeen(a \o m, rows)
      PROVE  s \in m[1].online
  <2>1. PICK i \in Said(a \o m) : /\ s \in (a \o m)[i].online
                                  /\ \A j \in Said(a \o m) : j <= i
    BY <1>2 DEF LastSeen
  <2>2. i = Len(a) + 1
    BY <1>2, <1>3, <2>1
  <2> QED
    BY <1>2, <2>1, <2>2
<1> QED
  BY <1>4

(* To read a message is to take what it says for what is shown.            *)
LEMMA SeenRead ==
    ASSUME NEW S, NEW q \in Seq(S), q # <<>>, NEW rows
    PROVE  LastSeen(Tail(q), IF Head(q).type = "presence" THEN Head(q).online ELSE rows)
              = LastSeen(q, rows)
<1>1. /\ Len(q) \in Nat \ {0} /\ Len(Tail(q)) = Len(q) - 1
      /\ Head(q) = q[1]
      /\ \A i \in 1..Len(Tail(q)) : Tail(q)[i] = q[i + 1]
  OBVIOUS
<1> DEFINE told == IF Head(q).type = "presence" THEN Head(q).online ELSE rows
<1>2. \A i \in Said(Tail(q)) : i + 1 \in Said(q) /\ Tail(q)[i] = q[i + 1] /\ i \in Nat
  BY <1>1 DEF Said
<1>3. \A k \in Said(q) : k \in Nat /\ k >= 1 /\ (k # 1 => k - 1 \in Said(Tail(q)))
  <2> SUFFICES ASSUME NEW k \in 1..Len(q), q[k].type = "presence", k # 1
               PROVE  k - 1 \in Said(Tail(q))
    BY <1>1 DEF Said
  <2>1. k - 1 \in 1..Len(Tail(q)) /\ k - 1 + 1 = k
    BY <1>1
  <2> QED
    BY <1>1, <2>1 DEF Said
<1>4. 1 \in Said(q) <=> q[1].type = "presence"
  BY <1>1 DEF Said
<1>5. ASSUME NEW s \in Sessions
      PROVE  s \in LastSeen(Tail(q), told) <=> s \in LastSeen(q, rows)
  <2>1. CASE Said(Tail(q)) = {}
    <3>1. Said(q) \subseteq {1}
      BY <1>3, <2>1
    <3>2. s \in LastSeen(Tail(q), told) <=> s \in told
      BY <2>1 DEF LastSeen
    <3>3. CASE q[1].type = "presence"
      <4>1. Said(q) = {1} /\ told = q[1].online
        BY <1>1, <1>4, <3>1, <3>3
      <4> HIDE DEF told
      <4>2. s \in LastSeen(q, rows) <=> s \in q[1].online
        BY <4>1 DEF LastSeen
      <4> QED
        BY <3>2, <4>1, <4>2
    <3>4. CASE q[1].type # "presence"
      <4>1. Said(q) = {} /\ told = rows
        BY <1>1, <1>4, <3>1, <3>4
      <4> HIDE DEF told
      <4> QED
        BY <3>2, <4>1 DEF LastSeen
    <3> QED
      BY <3>3, <3>4
  <2>2. CASE Said(Tail(q)) # {}
    <3> HIDE DEF told
    <3>1. Said(q) # {}
      BY <1>2, <2>2
    <3>2. ASSUME s \in LastSeen(Tail(q), told)
          PROVE  s \in LastSeen(q, rows)
      <4>1. PICK i \in Said(Tail(q)) : /\ s \in Tail(q)[i].online
                                       /\ \A j \in Said(Tail(q)) : j <= i
        BY <2>2, <3>2 DEF LastSeen
      <4>2. i + 1 \in Said(q) /\ s \in q[i + 1].online
        BY <1>2, <4>1
      <4>3. ASSUME NEW k \in Said(q)
            PROVE  k <= i + 1
        <5>1. CASE k = 1
          BY <1>2, <5>1
        <5>2. CASE k # 1
          BY <1>2, <1>3, <4>1, <5>2
        <5> QED
          BY <5>1, <5>2
      <4>4. \E k \in Said(q) : s \in q[k].online /\ \A j \in Said(q) : j <= k
        BY <4>2, <4>3
      <4> QED
        BY <3>1, <4>4 DEF LastSeen
    <3>3. ASSUME s \in LastSeen(q, rows)
          PROVE  s \in LastSeen(Tail(q), told)
      <4>1. PICK k \in Said(q) : s \in q[k].online /\ \A j \in Said(q) : j <= k
        BY <3>1, <3>3 DEF LastSeen
      <4>2. k # 1
        <5>1. PICK i \in Said(Tail(q)) : TRUE
          BY <2>2
        <5>2. i + 1 <= k /\ i \in Nat /\ i # 0
          BY <1>2, <4>1, <5>1 DEF Said
        <5> QED
          BY <5>2
      <4>3. k - 1 \in Said(Tail(q)) /\ k - 1 + 1 = k
        BY <1>3, <4>2
      <4>4. s \in Tail(q)[k - 1].online
        BY <1>2, <4>1, <4>3
      <4>5. \A j \in Said(Tail(q)) : j <= k - 1
        BY <1>2, <1>3, <4>1
      <4> QED
        BY <2>2, <4>3, <4>4, <4>5 DEF LastSeen
    <3> QED
      BY <3>2, <3>3
  <2> QED
    BY <2>1, <2>2
<1> QED
  BY <1>5 DEF LastSeen

(* A broadcast that begins with a snapshot of known sessions, or after     *)
(* which no session is less known, keeps the promise.                      *)
LEMMA SeenTold ==
    ASSUME TypeOK, NEW p \in Pages, conn[p] \in Connected,
           LastSeen(queue[p], online[p]) \subseteq known,
           NEW m \in Seq(Messages), Broadcast(m), UNCHANGED pageVars,
           \A i \in 1..Len(m) : i # 1 => m[i].type # "presence",
           \/ m # <<>> /\ m[1].type = "presence" /\ m[1].online \subseteq known'
           \/ m # <<>> /\ m[1].type # "presence" /\ known \subseteq known'
    PROVE  LastSeen(queue'[p], online'[p]) \subseteq known'
<1>1. queue'[p] = queue[p] \o m /\ online'[p] = online[p] /\ queue[p] \in Seq(Messages)
  BY DEF Broadcast, TypeOK, pageVars
<1>2. CASE m # <<>> /\ m[1].type = "presence" /\ m[1].online \subseteq known'
  <2>1. LastSeen(queue[p] \o m, online[p]) \subseteq m[1].online
    BY <1>1, <1>2, SeenLast
  <2> QED
    BY <1>1, <1>2, <2>1
<1>3. CASE m[1].type # "presence" /\ known \subseteq known'
  <2>1. \A i \in 1..Len(m) : m[i].type # "presence"
    BY <1>3
  <2>2. LastSeen(queue[p] \o m, online[p]) = LastSeen(queue[p], online[p])
    BY <1>1, <2>1, SeenBefore
  <2> QED
    BY <1>1, <1>3, <2>2
<1> QED
  BY <1>2, <1>3

LEMMA LingerNext == IInv /\ NobodyLingers /\ [Next]_vars => NobodyLingers'
<1> SUFFICES ASSUME IInv, NobodyLingers, [Next]_vars, NEW p \in Pages,
                    conn'[p] \in Connected
             PROVE  sweeping' /\ LastSeen(queue'[p], online'[p]) \subseteq known'
  BY DEF NobodyLingers, LastSeen, Said
<1>0. TypeOK
  BY DEF IInv
<1>1. conn[p] \in Connected => sweeping /\ LastSeen(queue[p], online[p]) \subseteq known
  BY DEF NobodyLingers
<1>2. ASSUME NEW m \in Seq(Messages), Broadcast(m), UNCHANGED <<pageVars, sweeping>>,
             \A i \in 1..Len(m) : i # 1 => m[i].type # "presence",
             \/ m # <<>> /\ m[1].type = "presence" /\ m[1].online \subseteq known'
             \/ m # <<>> /\ m[1].type # "presence" /\ known \subseteq known'
      PROVE  sweeping' /\ LastSeen(queue'[p], online'[p]) \subseteq known'
  <2>1. conn[p] \in Connected /\ sweeping' = sweeping
    BY <1>2 DEF pageVars
  <2> QED
    BY <1>0, <1>1, <1>2, <2>1, SeenTold
<1>3. ASSUME NEW s \in Sessions, NEW h \in Hyps \cup {None}, Heartbeat(s, h)
      PROVE  sweeping' /\ LastSeen(queue'[p], online'[p]) \subseteq known'
  <2> DEFINE m == PresenceMsg(Online(known', idle'))
  <2>1. m \in Messages
    BY <1>0, <1>3, MessageTypes DEF Heartbeat, TypeOK
  <2>2. m.type = "presence" /\ m.online \subseteq known'
    BY DEF PresenceMsg, Online
  <2>3. Broadcast(<<m>>) /\ UNCHANGED <<pageVars, sweeping>>
    BY <1>3 DEF Heartbeat, sweepVars
  <2> HIDE DEF m
  <2>4. <<m>> \in Seq(Messages) /\ Len(<<m>>) = 1 /\ <<m>>[1] = m /\ <<m>> # <<>>
    BY <2>1
  <2>5. \A i \in 1..Len(<<m>>) : i = 1
    BY <2>4
  <2> QED
    BY <1>2, <2>2, <2>3, <2>4, <2>5
<1>4. ASSUME NEW s \in Sessions, NEW h \in Hyps, Lock(h, s) \/ Unlock(h, s)
      PROVE  sweeping' /\ LastSeen(queue'[p], online'[p]) \subseteq known'
  <2>1. PICK m \in Messages : m.type # "presence" /\ Broadcast(<<m>>)
    BY <1>4, MessageTypes DEF Lock, Unlock, LockMsg, UnlockMsg
  <2>2. known \subseteq known' /\ UNCHANGED <<pageVars, sweeping>>
    BY <1>4 DEF Lock, Unlock, sessionVars, sweepVars
  <2>3. <<m>> \in Seq(Messages) /\ Len(<<m>>) = 1 /\ <<m>>[1] = m /\ <<m>> # <<>>
    BY <2>1
  <2>4. \A i \in 1..Len(<<m>>) : i = 1
    BY <2>3
  <2> QED
    BY <1>2, <2>1, <2>2, <2>3, <2>4
<1>5. CASE Sweep
  <2>1. /\ UNCHANGED <<pageVars, sweeping>>
        /\ known' = known \ StaleSessions
    BY <1>5 DEF Sweep
  <2>2. CASE StaleSessions \cup StaleLocks = {}
    <3>1. UNCHANGED <<known, queue, conn, online>>
      BY <1>5, <2>1, <2>2 DEF Sweep, streamVars, pageVars
    <3> QED
      BY <1>1, <2>1, <3>1
  <2>3. CASE StaleSessions \cup StaleLocks # {}
    <3>1. PICK order \in Orders(StaleLocks) : Announce(order)
      BY <2>3, <1>5 DEF Sweep
    <3> DEFINE m == PresenceMsg(Online(known', idle))
               u == Unlocks(order)
    <3>2. m \in Messages /\ m.type = "presence" /\ m.online \subseteq known'
      BY <1>0, <2>1, MessageTypes DEF TypeOK, PresenceMsg, Online
    <3>3. u \in Seq(Messages) /\ \A i \in 1..Len(u) : u[i].type # "presence"
      <4>1. order \in Seq(StaleLocks)
        BY StaleFacts
      <4> QED
        BY <4>1, UnlocksType DEF Unlocks, UnlockMsg
    <3>4. Broadcast(<<m>> \o u)
      BY <3>1 DEF Announce, Unlocks
    <3> HIDE DEF m, u
    <3>5. /\ <<m>> \in Seq(Messages) /\ <<m>> \o u \in Seq(Messages)
          /\ Len(<<m>>) = 1 /\ Len(<<m>> \o u) = 1 + Len(u)
          /\ (<<m>> \o u)[1] = m
          /\ \A i \in 1..Len(u) : (<<m>> \o u)[1 + i] = u[i]
      BY <3>2, <3>3, ConcatElements
    <3>6. ASSUME NEW i \in 1..Len(<<m>> \o u), i # 1
          PROVE  (<<m>> \o u)[i].type # "presence"
      <4>1. i - 1 \in 1..Len(u) /\ 1 + (i - 1) = i
        BY <3>3, <3>5, <3>6
      <4> QED
        BY <3>3, <3>5, <4>1
    <3>7. <<m>> \o u # <<>>
      BY <3>3, <3>5
    <3> QED
      BY <1>2, <2>1, <3>2, <3>4, <3>5, <3>6, <3>7
  <2> QED
    BY <2>2, <2>3
<1>6. ASSUME NEW x \in Pages, Load(x) \/ Reconnect(x)
      PROVE  sweeping' /\ LastSeen(queue'[p], online'[p]) \subseteq known'
  <2>1. Subscribe(x)
    BY <1>6 DEF Load, Reconnect
  <2>2. sweeping' /\ known' = known
    BY <2>1 DEF Subscribe, sessionVars
  <2>3. CASE x = p
    <3>1. queue'[p] = <<>> /\ online'[p] = Online(known, idle)
      BY <1>0, <2>1, <2>3 DEF Subscribe, TypeOK
    <3>2. Said(<<>>) = {}
      BY DEF Said
    <3> QED
      BY <2>2, <3>1, <3>2 DEF LastSeen, Online
  <2>4. CASE x # p
    <3>1. conn'[p] = conn[p] /\ queue'[p] = queue[p] /\ online'[p] = online[p]
      BY <1>0, <2>1, <2>4 DEF Subscribe, TypeOK
    <3> QED
      BY <1>1, <2>2, <3>1
  <2> QED
    BY <2>3, <2>4
<1>7. ASSUME NEW x \in Pages, Receive(x)
      PROVE  sweeping' /\ LastSeen(queue'[p], online'[p]) \subseteq known'
  <2>1. UNCHANGED <<sweeping, known, conn>>
    BY <1>7 DEF Receive, sessionVars, sweepVars
  <2>2. CASE x = p
    <3>1. /\ queue[p] \in Seq(Messages) /\ queue[p] # <<>>
          /\ queue'[p] = Tail(queue[p])
          /\ online'[p] = IF Head(queue[p]).type = "presence"
                             THEN Head(queue[p]).online ELSE online[p]
      BY <1>0, <1>7, <2>2 DEF Receive, TypeOK
    <3>2. LastSeen(queue'[p], online'[p]) = LastSeen(queue[p], online[p])
      BY <3>1, SeenRead
    <3> QED
      BY <1>1, <2>1, <3>2
  <2>3. CASE x # p
    <3>1. queue'[p] = queue[p] /\ online'[p] = online[p]
      BY <1>0, <1>7, <2>3 DEF Receive, TypeOK
    <3> QED
      BY <1>1, <2>1, <3>1
  <2> QED
    BY <2>2, <2>3
<1>8. ASSUME NEW x \in Pages, ListLocks(x)
      PROVE  sweeping' /\ LastSeen(queue'[p], online'[p]) \subseteq known'
  <2>1. UNCHANGED <<sweeping, known, queue, online>> /\ conn[p] \in Connected
    BY <1>0, <1>8 DEF ListLocks, sessionVars, sweepVars, streamVars, TypeOK, Connected
  <2> QED
    BY <1>1, <2>1
<1>9. ASSUME NEW x \in Pages, Disconnect(x)
      PROVE  sweeping' /\ LastSeen(queue'[p], online'[p]) \subseteq known'
  <2>1. /\ UNCHANGED <<sweeping, known, online>>
        /\ conn[p] \in Connected /\ queue'[p] = queue[p]
    BY <1>0, <1>9 DEF Disconnect, sessionVars, sweepVars, TypeOK, Connected
  <2> QED
    BY <1>1, <2>1
<1>10. CASE Tick \/ UNCHANGED vars
  <2>1. UNCHANGED <<sweeping, known, conn, queue, online>>
    BY <1>10 DEF Tick, vars, sessionVars, sweepVars, pageVars, streamVars
  <2> QED
    BY <1>1, <2>1
<1> QED
  BY <1>3, <1>4, <1>5, <1>6, <1>7, <1>8, <1>9, <1>10 DEF Next

(* A page is never left with a session that nobody will take off its list: *)
(* a session that the tracker forgot was announced as gone behind whatever *)
(* the page was told of it before, also while its stream was opening.      *)
THEOREM PagesForgetTheGone == Spec => []NobodyLingers
<1>1. Init => NobodyLingers
  BY DEF Init, NobodyLingers, Connected
<1> QED
  BY <1>1, LingerNext, Invariance, PTL DEF Spec
=============================================================================
