----------------------------- MODULE LlmEnvProofs -----------------------------
(***************************************************************************)
(* Proofs about LlmEnv for any callers, any sessions among them and any    *)
(* environment: its safety properties, and that its lock is never lost.    *)
(***************************************************************************)
EXTENDS LlmEnv, SequenceTheorems, TLAPS

-----------------------------------------------------------------------------
(* The inductive invariant.                                                *)

(* The queue holds those who wait, and nobody else.                        *)
QueueInv ==
    /\ \A i \in 1..Len(waiters) : pc[waiters[i]] = "waiting"
    /\ \A c \in Callers :
          pc[c] = "waiting" => \E i \in 1..Len(waiters) : waiters[i] = c

(* The lock is taken exactly while one caller calls.                       *)
LockInv ==
    /\ \A c \in Callers : pc[c] = "calling" => locked
    /\ locked => \E c \in Callers : pc[c] = "calling"
    /\ \A c, d \in Callers : pc[c] = "calling" /\ pc[d] = "calling" => c = d

(* What the holder saved is what the process was started with, and what it *)
(* sees is its own key.                                                    *)
EnvInv ==
    /\ ~locked => env = ambient
    /\ \A c \in Callers :
          pc[c] = "calling" => saved[c] = ambient /\ env = Overridden(creds[c])

CredsInv ==
    \A c \in Callers :
        /\ pc[c] # "idle" => /\ creds[c].var \in EnvVars
                             /\ c \in Sessions => creds[c].key = c
        /\ used[c] # Unset => pc[c] = "calling" /\ used[c] = creds[c].key

IInv == TypeOK /\ QueueInv /\ LockInv /\ EnvInv /\ CredsInv

-----------------------------------------------------------------------------
(* The queue.                                                              *)

(* Somebody who is not in the queue yet is added at its end.               *)
LEMMA Appended ==
    ASSUME NEW S, NEW q \in Seq(S), NEW c \in S, Distinct(q),
           \A i \in 1..Len(q) : q[i] # c
    PROVE  /\ Append(q, c) \in Seq(S)
           /\ Distinct(Append(q, c))
           /\ Len(Append(q, c)) = Len(q) + 1
           /\ \A i \in 1..Len(q) : Append(q, c)[i] = q[i]
           /\ Append(q, c)[Len(q) + 1] = c
  BY DEF Distinct

(* The first one leaves it.                                                *)
LEMMA Advanced ==
    ASSUME NEW S, NEW q \in Seq(S), q # <<>>, Distinct(q)
    PROVE  /\ Tail(q) \in Seq(S)
           /\ Distinct(Tail(q))
           /\ Len(Tail(q)) = Len(q) - 1
           /\ Head(q) = q[1]
           /\ \A i \in 1..Len(Tail(q)) : Tail(q)[i] = q[i + 1]
  BY DEF Distinct

(* Anybody leaves it.                                                      *)
LEMMA Removed ==
    ASSUME NEW S, NEW q \in Seq(S), NEW k \in 1..Len(q), Distinct(q)
    PROVE  /\ Without(q, k) \in Seq(S)
           /\ Len(Without(q, k)) = Len(q) - 1
           /\ \A i \in 1..Len(Without(q, k)) :
                 Without(q, k)[i] = IF i < k THEN q[i] ELSE q[i + 1]
           /\ Distinct(Without(q, k))
<1> DEFINE before == SubSeq(q, 1, k - 1)
           after == SubSeq(q, k + 1, Len(q))
<1>1. /\ before \in Seq(S)
      /\ Len(before) = k - 1
      /\ \A i \in 1..(k - 1) : before[i] = q[i]
  OBVIOUS
<1>2. /\ after \in Seq(S)
      /\ Len(after) = Len(q) - k
      /\ \A i \in 1..(Len(q) - k) : after[i] = q[k + i]
  OBVIOUS
<1>3. Without(q, k) = before \o after
  BY DEF Without
<1> HIDE DEF before, after
<1>4. /\ before \o after \in Seq(S)
      /\ Len(before \o after) = Len(before) + Len(after)
      /\ \A i \in 1..(Len(before) + Len(after)) : (before \o after)[i] =
            IF i <= Len(before) THEN before[i] ELSE after[i - Len(before)]
  BY <1>1, <1>2, ConcatProperties
<1>5. Len(before) + Len(after) = Len(q) - 1
  BY <1>1, <1>2
<1>6. ASSUME NEW i \in 1..(Len(q) - 1)
      PROVE  (before \o after)[i] = IF i < k THEN q[i] ELSE q[i + 1]
  <2>1. CASE i < k
    BY <1>1, <1>4, <1>5, <2>1
  <2>2. CASE ~(i < k)
    <3>1. PICK j \in 1..(Len(q) - k) : j = i - (k - 1)
      BY <2>2
    <3>2. ~(i <= Len(before)) /\ i - Len(before) = j
      BY <1>1, <2>2, <3>1
    <3>3. (before \o after)[i] = after[j]
      BY <1>4, <1>5, <3>2
    <3>4. k + j = i + 1
      BY <3>1
    <3> QED
      BY <1>2, <2>2, <3>3, <3>4
  <2> QED
    BY <2>1, <2>2
<1>7. Distinct(before \o after)
  <2> SUFFICES ASSUME NEW i \in 1..(Len(q) - 1), NEW j \in 1..(Len(q) - 1), i # j
               PROVE  (before \o after)[i] # (before \o after)[j]
    BY <1>4, <1>5 DEF Distinct
  <2> DEFINE shift(m) == IF m < k THEN m ELSE m + 1
  <2>1. shift(i) \in 1..Len(q) /\ shift(j) \in 1..Len(q) /\ shift(i) # shift(j)
    OBVIOUS
  <2>2. (before \o after)[i] = q[shift(i)] /\ (before \o after)[j] = q[shift(j)]
    BY <1>6
  <2> HIDE DEF shift
  <2> QED
    BY <2>1, <2>2 DEF Distinct
<1> QED
  BY <1>3, <1>4, <1>5, <1>6, <1>7

-----------------------------------------------------------------------------
LEMMA InitIInv == Init => IInv
<1> SUFFICES ASSUME Init PROVE IInv
  OBVIOUS
<1>1. /\ Unset \in Values
      /\ Nothing \in [EnvVars -> Values]
      /\ NoCredentials \in Credentials
  BY DEF Values, Nothing, NoCredentials, Credentials
<1>2. ambient \in [EnvVars -> Values] /\ model \in EnvVars \cup {Unset}
  BY EnvAssumption DEF Init
<1>3. waiters \in Seq(Callers) /\ Distinct(waiters)
  BY DEF Init, Distinct
<1>4. TypeOK
  BY <1>1, <1>2, <1>3 DEF Init, TypeOK
<1>5. QueueInv /\ LockInv /\ EnvInv /\ CredsInv
  BY DEF Init, QueueInv, LockInv, EnvInv, CredsInv
<1> QED
  BY <1>4, <1>5 DEF IInv

(* What a call resolves has the right type and, in a session, its key.     *)
LEMMA ResolvedFacts ==
    ASSUME TypeOK, NEW c \in Callers, NEW cr \in Resolved(c)
    PROVE  /\ cr \in Credentials
           /\ cr.var \in EnvVars
           /\ c \in Sessions => cr.key = c
<1>1. ModelVars \subseteq EnvVars /\ c \in Values
  BY EnvAssumption DEF Values, Keys
<1>2. CASE c \in Sessions
  BY <1>1, <1>2 DEF Resolved, Credentials
<1>3. CASE c \notin Sessions
  <2>1. /\ cr \in [var : {model}, key : FirstKey(env)]
        /\ model \in EnvVars
    BY <1>1, <1>3 DEF Resolved, TypeOK
  <2>2. FirstKey(env) \subseteq Values
    <3>1. \A i \in 1..Len(FallbackOrder) : FallbackOrder[i] \in EnvVars
      BY DEF FallbackOrder, EnvVars
    <3> QED
      BY <3>1 DEF FirstKey, TypeOK
  <2> QED
    BY <1>3, <2>1, <2>2 DEF Credentials
<1> QED
  BY <1>2, <1>3

(* A caller that gets the lock, from the queue or at once.                 *)
LEMMA EnterKeeps ==
    ASSUME IInv, ~locked, NEW c \in Callers, NEW cr \in Credentials,
           cr.var \in EnvVars, c \in Sessions => cr.key = c,
           pc[c] # "calling", creds' = [creds EXCEPT ![c] = cr],
           Enter(c, cr), UNCHANGED <<processVars, used>>
    PROVE  LockInv' /\ EnvInv' /\ CredsInv'
<1>1. \A d \in Callers : pc[d] # "calling"
  BY DEF IInv, LockInv
<1>2. \A d \in Callers : pc'[d] = IF d = c THEN "calling" ELSE pc[d]
  BY DEF Enter, IInv, TypeOK
<1>3. \A d \in Callers : creds'[d] = IF d = c THEN cr ELSE creds[d]
  BY DEF IInv, TypeOK
<1>4. saved'[c] = ambient /\ env' = Overridden(cr) /\ locked'
  BY DEF Enter, IInv, TypeOK, EnvInv
<1>5. LockInv'
  BY <1>1, <1>2, <1>4 DEF LockInv
<1>6. EnvInv'
  BY <1>1, <1>2, <1>3, <1>4, Zenon DEF EnvInv, processVars
<1>7. CredsInv'
  BY <1>1, <1>2, <1>3 DEF IInv, CredsInv
<1> QED
  BY <1>5, <1>6, <1>7

LEMMA TypeNext ==
    ASSUME IInv, [Next]_vars
    PROVE  TypeOK'
<1> USE DEF IInv, TypeOK
<1>1. \A cr \in Credentials : cr.key \in Values
  BY DEF Credentials
<1>2. \A cr \in Credentials : Overridden(cr) \in [EnvVars -> Values]
  BY <1>1 DEF Overridden, Values
<1>3. NoCredentials \in Credentials /\ Nothing \in [EnvVars -> Values] /\ Unset \in Values
  BY DEF NoCredentials, Nothing, Credentials, Values
<1>4. ASSUME NEW c \in Callers, Call(c)
      PROVE  TypeOK'
  <2>1. PICK cr \in Resolved(c) :
          /\ creds' = [creds EXCEPT ![c] = cr]
          /\ IF ~locked /\ waiters = <<>>
                THEN Enter(c, cr) /\ UNCHANGED waiters
                ELSE /\ waiters' = Append(waiters, c)
                     /\ pc' = [pc EXCEPT ![c] = "waiting"]
                     /\ UNCHANGED <<locked, saved, env>>
    BY <1>4 DEF Call
  <2>2. cr \in Credentials
    BY <2>1, ResolvedFacts
  <2>3. UNCHANGED <<processVars, used>>
    BY <1>4 DEF Call
  <2>4. CASE ~locked /\ waiters = <<>>
    BY <1>2, <2>1, <2>2, <2>3, <2>4 DEF Enter, processVars
  <2>5. CASE ~(~locked /\ waiters = <<>>)
    <3>1. \A i \in 1..Len(waiters) : waiters[i] # c
      BY <1>4 DEF Call, QueueInv
    <3>2. /\ Append(waiters, c) \in Seq(Callers)
          /\ Distinct(Append(waiters, c))
      <4>1. waiters \in Seq(Callers) /\ Distinct(waiters)
        OBVIOUS
      <4> QED
        BY <3>1, <4>1, Appended
    <3>3. waiters' \in Seq(Callers) /\ Distinct(waiters')
      BY <2>1, <2>5, <3>2
    <3> QED
      BY <2>1, <2>2, <2>3, <2>5, <3>3 DEF processVars
  <2> QED
    BY <2>4, <2>5
<1>5. ASSUME NEW c \in Callers, Granted(c)
      PROVE  TypeOK'
  <2>1. waiters # <<>>
    BY <1>5 DEF Granted, QueueInv
  <2>2. waiters' \in Seq(Callers) /\ Distinct(waiters')
    BY <1>5, <2>1, Advanced DEF Granted
  <2>3. creds[c] \in Credentials
    OBVIOUS
  <2> QED
    BY <1>2, <1>5, <2>2, <2>3 DEF Granted, Enter, processVars
<1>6. ASSUME NEW c \in Callers, Send(c)
      PROVE  TypeOK'
  <2>1. creds[c].var \in EnvVars
    BY <1>6 DEF Send, CredsInv
  <2> QED
    BY <1>6, <2>1 DEF Send, processVars
<1>7. ASSUME NEW c \in Callers, Leave(c)
      PROVE  TypeOK'
  BY <1>3, <1>7 DEF Leave, Forget, Restored, processVars
<1>8. ASSUME NEW c \in Callers, CancelWaiting(c)
      PROVE  TypeOK'
  <2>1. waiters' \in Seq(Callers) /\ Distinct(waiters')
    BY <1>8, Removed DEF CancelWaiting
  <2> QED
    BY <1>3, <1>8, <2>1 DEF CancelWaiting, Forget, processVars
<1>9. CASE UNCHANGED vars
  BY <1>9 DEF vars, processVars
<1> QED
  BY <1>4, <1>5, <1>6, <1>7, <1>8, <1>9 DEF Next

LEMMA QueueNext ==
    ASSUME IInv, [Next]_vars
    PROVE  QueueInv'
<1> USE DEF IInv, TypeOK
<1>1. ASSUME NEW c \in Callers, Call(c)
      PROVE  QueueInv'
  <2>1. pc[c] = "idle" /\ \A i \in 1..Len(waiters) : waiters[i] # c
    BY <1>1 DEF Call, QueueInv
  <2>2. CASE waiters' = waiters /\ pc' = [pc EXCEPT ![c] = "calling"]
    BY <2>1, <2>2 DEF QueueInv
  <2>3. CASE waiters' = Append(waiters, c) /\ pc' = [pc EXCEPT ![c] = "waiting"]
    <3>1. /\ Len(waiters') = Len(waiters) + 1
          /\ \A i \in 1..Len(waiters) : waiters'[i] = waiters[i]
          /\ waiters'[Len(waiters) + 1] = c
      BY <2>1, <2>3, Appended
    <3>2. \A d \in Callers : pc'[d] = IF d = c THEN "waiting" ELSE pc[d]
      BY <2>3
    <3>3. PICK n \in Nat : n = Len(waiters)
      OBVIOUS
    <3>4. \A i \in 1..(n + 1) : pc'[waiters'[i]] = "waiting"
      <4> SUFFICES ASSUME NEW i \in 1..(n + 1) PROVE pc'[waiters'[i]] = "waiting"
        OBVIOUS
      <4>1. CASE i = n + 1
        BY <3>1, <3>2, <3>3, <4>1
      <4>2. CASE i # n + 1
        BY <3>1, <3>2, <3>3, <4>2 DEF QueueInv
      <4> QED
        BY <4>1, <4>2
    <3>5. \A d \in Callers : pc'[d] = "waiting" => \E i \in 1..(n + 1) : waiters'[i] = d
      <4> SUFFICES ASSUME NEW d \in Callers, pc'[d] = "waiting"
                   PROVE  \E i \in 1..(n + 1) : waiters'[i] = d
        OBVIOUS
      <4>1. CASE d = c
        BY <3>1, <3>3, <4>1
      <4>2. CASE d # c
        <5>1. PICK i \in 1..Len(waiters) : waiters[i] = d
          BY <3>2, <4>2 DEF QueueInv
        <5> QED
          BY <3>1, <3>3, <5>1
      <4> QED
        BY <4>1, <4>2
    <3> QED
      BY <3>1, <3>3, <3>4, <3>5 DEF QueueInv
  <2> QED
    BY <1>1, <2>2, <2>3 DEF Call, Enter
<1>2. ASSUME NEW c \in Callers, Granted(c)
      PROVE  QueueInv'
  <2>1. waiters # <<>>
    BY <1>2 DEF Granted, QueueInv
  <2>2. /\ waiters' = Tail(waiters)
        /\ Len(waiters') = Len(waiters) - 1
        /\ c = waiters[1]
        /\ \A i \in 1..Len(waiters') : waiters'[i] = waiters[i + 1]
    BY <1>2, <2>1, Advanced DEF Granted
  <2>3. \A d \in Callers : pc'[d] = IF d = c THEN "calling" ELSE pc[d]
    BY <1>2 DEF Granted, Enter
  <2>4. ASSUME NEW i \in 1..Len(waiters')
        PROVE  pc'[waiters'[i]] = "waiting"
    <3>1. i + 1 \in 1..Len(waiters) /\ i + 1 # 1 /\ 1 \in 1..Len(waiters)
      BY <2>2
    <3>2. waiters[i + 1] # c /\ pc[waiters[i + 1]] = "waiting" /\ waiters[i + 1] \in Callers
      BY <2>2, <3>1 DEF QueueInv, Distinct
    <3> QED
      BY <2>2, <2>3, <3>2
  <2>5. ASSUME NEW d \in Callers, pc'[d] = "waiting"
        PROVE  \E i \in 1..Len(waiters') : waiters'[i] = d
    <3>1. PICK i \in 1..Len(waiters) : waiters[i] = d /\ i # 1
      BY <2>2, <2>3, <2>5 DEF QueueInv
    <3>2. i - 1 \in 1..Len(waiters') /\ (i - 1) + 1 = i
      BY <2>2, <3>1
    <3> QED
      BY <2>2, <3>1, <3>2
  <2> QED
    BY <2>4, <2>5 DEF QueueInv
<1>3. ASSUME NEW c \in Callers, Send(c)
      PROVE  QueueInv'
  BY <1>3 DEF Send, QueueInv
<1>4. ASSUME NEW c \in Callers, Leave(c)
      PROVE  QueueInv'
  <2>1. waiters' = waiters /\ pc[c] = "calling" /\ pc' = [pc EXCEPT ![c] = "idle"]
    BY <1>4 DEF Leave, Forget
  <2> QED
    BY <2>1 DEF QueueInv
<1>5. ASSUME NEW c \in Callers, CancelWaiting(c)
      PROVE  QueueInv'
  <2>1. PICK k \in 1..Len(waiters) : waiters[k] = c /\ waiters' = Without(waiters, k)
    BY <1>5 DEF CancelWaiting
  <2>2. /\ Len(waiters') = Len(waiters) - 1
        /\ \A i \in 1..Len(waiters') :
              waiters'[i] = IF i < k THEN waiters[i] ELSE waiters[i + 1]
    BY <2>1, Removed
  <2>3. \A d \in Callers : pc'[d] = IF d = c THEN "idle" ELSE pc[d]
    BY <1>5 DEF CancelWaiting, Forget
  <2>4. ASSUME NEW i \in 1..Len(waiters')
        PROVE  pc'[waiters'[i]] = "waiting"
    <3>1. PICK j \in 1..Len(waiters) : j # k /\ waiters'[i] = waiters[j]
      <4>1. CASE i < k
        BY <2>2, <4>1
      <4>2. CASE ~(i < k)
        BY <2>2, <4>2
      <4> QED
        BY <4>1, <4>2
    <3>2. waiters[j] # c /\ pc[waiters[j]] = "waiting" /\ waiters[j] \in Callers
      BY <2>1, <3>1 DEF QueueInv, Distinct
    <3> QED
      BY <2>3, <3>1, <3>2
  <2>5. ASSUME NEW d \in Callers, pc'[d] = "waiting"
        PROVE  \E i \in 1..Len(waiters') : waiters'[i] = d
    <3>1. PICK j \in 1..Len(waiters) : waiters[j] = d /\ j # k
      BY <2>1, <2>3, <2>5 DEF QueueInv
    <3>2. CASE j < k
      <4>1. j \in 1..Len(waiters')
        BY <2>2, <3>2
      <4> QED
        BY <2>2, <3>1, <3>2, <4>1
    <3>3. CASE ~(j < k)
      <4>1. j - 1 \in 1..Len(waiters') /\ ~(j - 1 < k) /\ (j - 1) + 1 = j
        BY <2>2, <3>1, <3>3
      <4> QED
        BY <2>2, <3>1, <4>1
    <3> QED
      BY <3>2, <3>3
  <2> QED
    BY <2>4, <2>5 DEF QueueInv
<1>6. CASE UNCHANGED vars
  BY <1>6 DEF vars, QueueInv
<1> QED
  BY <1>1, <1>2, <1>3, <1>4, <1>5, <1>6 DEF Next

LEMMA LockNext ==
    ASSUME IInv, [Next]_vars
    PROVE  LockInv' /\ EnvInv' /\ CredsInv'
<1>1. ASSUME NEW c \in Callers, Call(c)
      PROVE  LockInv' /\ EnvInv' /\ CredsInv'
  <2>1. PICK cr \in Resolved(c) :
          /\ creds' = [creds EXCEPT ![c] = cr]
          /\ IF ~locked /\ waiters = <<>>
                THEN Enter(c, cr) /\ UNCHANGED waiters
                ELSE /\ waiters' = Append(waiters, c)
                     /\ pc' = [pc EXCEPT ![c] = "waiting"]
                     /\ UNCHANGED <<locked, saved, env>>
    BY <1>1 DEF Call
  <2>2. cr \in Credentials /\ cr.var \in EnvVars /\ (c \in Sessions => cr.key = c)
    BY <2>1, ResolvedFacts DEF IInv
  <2>3. pc[c] = "idle" /\ UNCHANGED <<processVars, used>>
    BY <1>1 DEF Call
  <2>4. CASE ~locked /\ waiters = <<>>
    BY <2>1, <2>2, <2>3, <2>4, EnterKeeps
  <2>5. CASE ~(~locked /\ waiters = <<>>)
    <3>1. /\ \A d \in Callers : pc'[d] = IF d = c THEN "waiting" ELSE pc[d]
          /\ \A d \in Callers : creds'[d] = IF d = c THEN cr ELSE creds[d]
          /\ UNCHANGED <<locked, saved, env, ambient, used>>
      BY <2>1, <2>3, <2>5 DEF IInv, TypeOK, processVars
    <3>2. LockInv'
      BY <2>3, <3>1 DEF IInv, LockInv
    <3>3. EnvInv'
      BY <2>3, <3>1 DEF IInv, EnvInv, Overridden
    <3>4. CredsInv'
      BY <2>2, <2>3, <3>1 DEF IInv, CredsInv
    <3> QED
      BY <3>2, <3>3, <3>4
  <2> QED
    BY <2>4, <2>5
<1>2. ASSUME NEW c \in Callers, Granted(c)
      PROVE  LockInv' /\ EnvInv' /\ CredsInv'
  <2>1. /\ creds[c] \in Credentials
        /\ creds[c].var \in EnvVars
        /\ c \in Sessions => creds[c].key = c
    BY <1>2 DEF Granted, IInv, TypeOK, CredsInv
  <2>2. creds' = [creds EXCEPT ![c] = creds[c]]
    BY <1>2 DEF Granted, IInv, TypeOK
  <2> QED
    BY <1>2, <2>1, <2>2, EnterKeeps DEF Granted
<1>3. ASSUME NEW c \in Callers, Send(c)
      PROVE  LockInv' /\ EnvInv' /\ CredsInv'
  <2>1. UNCHANGED <<ambient, env, locked, pc, creds, saved>>
    BY <1>3 DEF Send, processVars
  <2>2. env[creds[c].var] = creds[c].key
    BY <1>3 DEF Send, IInv, EnvInv, CredsInv, Overridden
  <2>3. \A d \in Callers : used'[d] = IF d = c THEN creds[c].key ELSE used[d]
    BY <1>3, <2>2 DEF Send, IInv, TypeOK
  <2>4. CredsInv'
    BY <1>3, <2>1, <2>3 DEF Send, IInv, CredsInv
  <2> QED
    BY <2>1, <2>4 DEF IInv, LockInv, EnvInv, Overridden
<1>4. ASSUME NEW c \in Callers, Leave(c)
      PROVE  LockInv' /\ EnvInv' /\ CredsInv'
  <2>1. /\ \A d \in Callers : pc'[d] # "calling"
        /\ \A d \in Callers : pc'[d] = IF d = c THEN "idle" ELSE pc[d]
        /\ \A d \in Callers : used'[d] = IF d = c THEN Unset ELSE used[d]
        /\ \A d \in Callers : creds'[d] = IF d = c THEN NoCredentials ELSE creds[d]
    BY <1>4 DEF Leave, Forget, IInv, TypeOK, LockInv
  <2>2. env' = ambient' /\ ~locked'
    BY <1>4 DEF Leave, Restored, processVars, IInv, EnvInv
  <2>3. CredsInv'
    <3>1. \A d \in Callers : d # c => pc[d] # "calling"
      BY <1>4 DEF Leave, IInv, LockInv
    <3> QED
      BY <2>1, <3>1 DEF IInv, CredsInv
  <2> QED
    BY <2>1, <2>2, <2>3 DEF LockInv, EnvInv
<1>5. ASSUME NEW c \in Callers, CancelWaiting(c)
      PROVE  LockInv' /\ EnvInv' /\ CredsInv'
  <2>1. /\ pc[c] = "waiting"
        /\ \A d \in Callers : pc'[d] = IF d = c THEN "idle" ELSE pc[d]
        /\ \A d \in Callers : used'[d] = IF d = c THEN Unset ELSE used[d]
        /\ \A d \in Callers : creds'[d] = IF d = c THEN NoCredentials ELSE creds[d]
        /\ \A d \in Callers : saved'[d] = IF d = c THEN Nothing ELSE saved[d]
        /\ UNCHANGED <<ambient, env, locked>>
    BY <1>5 DEF CancelWaiting, Forget, IInv, TypeOK, processVars
  <2>2. LockInv'
    BY <2>1 DEF IInv, LockInv
  <2>3. EnvInv'
    BY <2>1 DEF IInv, EnvInv, Overridden
  <2>4. CredsInv'
    BY <2>1 DEF IInv, CredsInv
  <2> QED
    BY <2>2, <2>3, <2>4
<1>6. CASE UNCHANGED vars
  BY <1>6 DEF vars, processVars, IInv, LockInv, EnvInv, CredsInv, Overridden
<1> QED
  BY <1>1, <1>2, <1>3, <1>4, <1>5, <1>6 DEF Next

-----------------------------------------------------------------------------
(* The invariant holds in every reachable state, however many callers      *)
(* queue for the lock and whichever of them are cancelled.                 *)
THEOREM Invariance == Spec => []IInv
<1>1. IInv /\ [Next]_vars => IInv'
  BY TypeNext, QueueNext, LockNext DEF IInv
<1> QED
  BY InitIInv, <1>1, PTL DEF Spec

(* Type correctness, and nobody waits for _llm_env_lock twice.             *)
THEOREM TypeCorrect == Spec => []TypeOK
<1>1. IInv => TypeOK
  BY DEF IInv
<1> QED
  BY <1>1, Invariance, PTL

(* llm_env_override leaves no trace: whenever _llm_env_lock is free the    *)
(* key variables are those the process was started with.                   *)
THEOREM EnvironmentIsRestored == Spec => []FreeMeansAmbient
<1>1. IInv => FreeMeansAmbient
  BY DEF IInv, EnvInv, FreeMeansAmbient
<1> QED
  BY <1>1, Invariance, PTL

(* LLM calls are serialized and each sees its own key and no other.        *)
THEOREM CallsAreExclusive == Spec => []HolderOwnsEnvironment
<1>1. IInv => HolderOwnsEnvironment
  BY DEF IInv, LockInv, EnvInv, Overridden, HolderOwnsEnvironment
<1> QED
  BY <1>1, Invariance, PTL

(* Every call is sent with the key it resolved, a session's call with the  *)
(* key of that session.                                                    *)
THEOREM SessionsUseTheirKeys == Spec => []KeysStayApart
<1>1. IInv => KeysStayApart
  BY DEF IInv, CredsInv, KeysStayApart
<1> QED
  BY <1>1, Invariance, PTL

(* The lock is handed over in the order in which the calls arrived.        *)
THEOREM LockIsFair == Spec => FirstComeFirstServed
<1> DEFINE Step == \A c \in Callers :
        pc[c] # "calling" /\ pc'[c] = "calling" => waiters = <<>> \/ c = Head(waiters)
<1>1. IInv /\ [Next]_vars => Step
  <2> SUFFICES ASSUME IInv, [Next]_vars, NEW c \in Callers,
                      pc[c] # "calling", pc'[c] = "calling"
               PROVE  waiters = <<>> \/ c = Head(waiters)
    OBVIOUS
  <2>1. ASSUME NEW d \in Callers, Call(d)
        PROVE  waiters = <<>> \/ c = Head(waiters)
    <3>1. CASE pc' = [pc EXCEPT ![d] = "waiting"]
      BY <3>1 DEF IInv, TypeOK
    <3>2. CASE waiters = <<>>
      BY <3>2
    <3> QED
      BY <2>1, <3>1, <3>2 DEF Call
  <2>2. ASSUME NEW d \in Callers, Granted(d)
        PROVE  waiters = <<>> \/ c = Head(waiters)
    BY <2>2 DEF Granted, Enter, IInv, TypeOK
  <2>3. ASSUME NEW d \in Callers, Send(d) \/ Leave(d) \/ CancelWaiting(d)
        PROVE  FALSE
    <3>1. pc' = pc \/ pc' = [pc EXCEPT ![d] = "idle"]
      BY <2>3 DEF Send, Leave, CancelWaiting, Forget
    <3> QED
      BY <3>1 DEF IInv, TypeOK
  <2>4. CASE UNCHANGED vars
    BY <2>4 DEF vars
  <2> QED
    BY <2>1, <2>2, <2>3, <2>4 DEF Next
<1> QED
  BY <1>1, Invariance, PTL DEF Spec, FirstComeFirstServed

(* The safety half of CallsAreServed: the lock is never left taken by a    *)
(* call that is over, whoever is cancelled while waiting, and when it is   *)
(* free the first of those who wait may take it.                           *)
NobodyWaitsInVain ==
    \A c \in Callers : pc[c] = "waiting" =>
        \/ \E d \in Callers : pc[d] = "calling"
        \/ ~locked /\ waiters # <<>> /\ pc[Head(waiters)] = "waiting"

THEOREM LockIsNotLost == Spec => []NobodyWaitsInVain
<1>1. ASSUME IInv, NEW c \in Callers, pc[c] = "waiting", \A d \in Callers : pc[d] # "calling"
      PROVE  ~locked /\ waiters # <<>> /\ pc[Head(waiters)] = "waiting"
  <2>1. ~locked
    BY <1>1 DEF IInv, LockInv
  <2>2. waiters \in Seq(Callers) /\ \E i \in 1..Len(waiters) : waiters[i] = c
    BY <1>1 DEF IInv, TypeOK, QueueInv
  <2>3. waiters # <<>> /\ Head(waiters) = waiters[1] /\ 1 \in 1..Len(waiters)
    BY <2>2
  <2> QED
    BY <1>1, <2>1, <2>3 DEF IInv, QueueInv
<1>2. IInv => NobodyWaitsInVain
  BY <1>1 DEF NobodyWaitsInVain
<1> QED
  BY <1>2, Invariance, PTL

(* And those before a call only become fewer: as long as it waits, no step *)
(* puts it further back in the queue, by a new call, a grant or another    *)
(* call's cancellation.                                                    *)
NotPutBack ==
    \A i \in 1..Len(waiters) :
        pc'[waiters[i]] = "waiting" => \E k \in 1..i : waiters'[k] = waiters[i]

THEOREM QueueMovesUp == Spec => [][NotPutBack]_vars
<1>1. ASSUME IInv, [Next]_vars, NEW i \in 1..Len(waiters), pc'[waiters[i]] = "waiting"
      PROVE  \E k \in 1..i : waiters'[k] = waiters[i]
  <2>1. /\ waiters \in Seq(Callers) /\ Distinct(waiters) /\ waiters # <<>>
        /\ waiters[i] \in Callers /\ pc \in [Callers -> {"idle", "waiting", "calling"}]
        /\ i \in 1..i
    BY <1>1 DEF IInv, TypeOK
  <2>2. CASE waiters' = waiters
    BY <2>1, <2>2
  <2>3. ASSUME NEW c \in Callers, Call(c)
        PROVE  \E k \in 1..i : waiters'[k] = waiters[i]
    <3>1. CASE waiters' = Append(waiters, c)
      BY <2>1, <3>1
    <3> QED
      BY <2>2, <2>3, <3>1 DEF Call
  <2>4. ASSUME NEW c \in Callers, Granted(c)
        PROVE  \E k \in 1..i : waiters'[k] = waiters[i]
    <3>1. /\ waiters' = Tail(waiters)
          /\ c = waiters[1]
          /\ \A k \in 1..(Len(waiters) - 1) : Tail(waiters)[k] = waiters[k + 1]
      BY <2>1, <2>4, Advanced DEF Granted
    <3>2. waiters[i] # c
      BY <1>1, <2>1, <2>4 DEF Granted, Enter
    <3>3. i - 1 \in 1..(Len(waiters) - 1) /\ i - 1 \in 1..i /\ i - 1 + 1 = i
      BY <3>1, <3>2
    <3> QED
      BY <3>1, <3>3
  <2>5. ASSUME NEW c \in Callers, CancelWaiting(c)
        PROVE  \E k \in 1..i : waiters'[k] = waiters[i]
    <3>1. PICK m \in 1..Len(waiters) : waiters[m] = c /\ waiters' = Without(waiters, m)
      BY <2>5 DEF CancelWaiting
    <3>2. i # m
      BY <1>1, <2>1, <2>5, <3>1 DEF CancelWaiting, Forget
    <3>3. /\ Len(waiters') = Len(waiters) - 1
          /\ \A k \in 1..Len(waiters') :
                waiters'[k] = IF k < m THEN waiters[k] ELSE waiters[k + 1]
      BY <2>1, <3>1, Removed
    <3>4. CASE i < m
      <4>1. i \in 1..(Len(waiters) - 1)
        BY <3>4
      <4> QED
        BY <2>1, <3>3, <3>4, <4>1
    <3>5. CASE ~(i < m)
      <4>1. /\ i - 1 \in 1..(Len(waiters) - 1) /\ i - 1 \in 1..i
            /\ i - 1 + 1 = i /\ ~(i - 1 < m)
        BY <3>2, <3>5
      <4> QED
        BY <3>3, <4>1
    <3> QED
      BY <3>4, <3>5
  <2>6. CASE (\E c \in Callers : Send(c) \/ Leave(c)) \/ UNCHANGED vars
    BY <2>2, <2>6 DEF Send, Leave, vars
  <2> QED
    BY <1>1, <2>3, <2>4, <2>5, <2>6 DEF Next
<1>2. IInv /\ [Next]_vars => NotPutBack
  BY <1>1 DEF NotPutBack
<1> QED
  BY <1>2, Invariance, PTL DEF Spec
=============================================================================
