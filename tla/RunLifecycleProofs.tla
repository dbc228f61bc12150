-------------------------- MODULE RunLifecycleProofs --------------------------
(***************************************************************************)
(* Proofs about RunLifecycle for any runs, any size of the pool and of the *)
(* top, any number of hypotheses and of restarts: its safety invariants,   *)
(* that no run is left without somebody to end it, and that the runs table *)
(* implements RunRecord.                                                   *)
(***************************************************************************)
EXTENDS RunLifecycle, FiniteSetTheorems, TLAPS

-----------------------------------------------------------------------------
(* The inductive invariant.                                                *)

(* How far a run is, by the state of its request ...                       *)
RequestInv(r) ==
    /\ task[r] # "none" <=> request[r] = "answered"
    /\ request[r] # "answered" =>
          outcome[r] = "none" /\ hypotheses[r] = 0 /\ batch[r] = 0
    /\ request[r] \in {"none", "planning", "creating"} => db[r] = "none"
    /\ request[r] = "refusing" => db[r] = "running"
    /\ request[r] = "refused" => db[r] = "error"
    /\ request[r] = "failed" => db[r] # "done"

(* ... and, once it was answered, by the state of its task.                *)
TaskInv(r) ==
    /\ task[r] \in Executing =>
          outcome[r] = "none" /\ db[r] = "running" /\ hypotheses[r] = 0 /\ batch[r] = 0
    /\ task[r] \in Persisting =>
          outcome[r] # "none" /\ db[r] = "running" /\ hypotheses[r] = 0
    /\ task[r] = "embedding" => outcome[r] = "done"
    /\ task[r] \in Over => /\ db[r] \in {"running", outcome[r]}
                           /\ hypotheses[r] > 0 => db[r] = "done"
    /\ task[r] \in Over /\ db[r] # "running" => outcome[r] # "none"
    /\ task[r] = "ended" => db[r] = outcome[r] /\ outcome[r] # "none"
    /\ outcome[r] = "error" => batch[r] = 0 /\ hypotheses[r] = 0
    /\ batch[r] <= tested[r] /\ hypotheses[r] <= tested[r]

FeedInv(r) ==
    feed[r] = "open" /\ mode # "down" =>
        \/ request[r] \in {"creating", "refusing", "refused", "failed"}
        \/ task[r] \in Executing

(* A process that is down has no coroutine left.                           *)
ProcessInv(r) ==
    /\ mode # "up" => request[r] \notin InFlight
    /\ mode = "down" => task[r] \notin Live
    /\ task[r] \in Live => r \in pool

PoolInv == IsFiniteSet(pool) /\ Cardinality(pool) <= MaxTasks

RunInv(r) == RequestInv(r) /\ TaskInv(r) /\ FeedInv(r) /\ ProcessInv(r)

IInv == Typed /\ PoolInv /\ \A r \in Runs : RunInv(r)

-----------------------------------------------------------------------------
(* The steps of one run, and the pool they leave behind.                   *)
RunStep(r) == Ask(r) \/ Handler(r) \/ Task(r) \/ Discard(r)

LEMMA Sorts ==
    /\ \A x \in Executing \cup Persisting : x \in Live /\ x \notin Over /\ x # "none"
    /\ \A x \in Over : x \notin Live /\ x # "none"
    /\ Executing \cap Persisting = {}
    /\ Live = Executing \cup Persisting
  BY DEF Live, Executing, Persisting, Over

LEMMA LesserFacts ==
    ASSUME NEW m \in Nat, NEW n \in Nat
    PROVE  Lesser(m, n) \in Nat /\ Lesser(m, n) <= m /\ Lesser(m, n) <= n
  BY DEF Lesser

LEMMA TypeInit == Init => Typed
  BY LifecycleAssumption DEF Init, Typed

LEMMA TypeNext == Typed /\ [Next]_vars => Typed'
<1> SUFFICES ASSUME Typed, [Next]_vars
             PROVE  Typed'
  OBVIOUS
<1> USE DEF Typed, requestVars, workVars, recordVars
<1>1. ASSUME NEW r \in Runs, Ask(r) \/ Handler(r)
      PROVE  Typed'
  <2>1. CASE Ask(r)
    BY <2>1 DEF Ask, InFlight
  <2>2. CASE Planned(r) \/ PlanFails(r)
    BY <2>2 DEF Planned, PlanFails, InFlight
  <2>3. CASE Created(r)
    BY <2>3 DEF Created, InFlight, Live, Executing
  <2>4. CASE CreateFails(r) \/ Refused(r) \/ RefusalFails(r)
    BY <2>4 DEF CreateFails, Refused, RefusalFails
  <2> QED
    BY <1>1, <2>1, <2>2, <2>3, <2>4 DEF Handler
<1>2. ASSUME NEW r \in Runs, Task(r) \/ Discard(r)
      PROVE  Typed'
  <2>1. CASE Begin(r) \/ Reviewed(r)
    BY <2>1 DEF Begin, Reviewed, Live, Executing
  <2>2. CASE Loaded(r)
    BY <2>2, LifecycleAssumption DEF Loaded, Live, Executing
  <2>3. CASE Backtested(r)
    <3>1. PICK n \in 0..(left[r] - 1) : left' = [left EXCEPT ![r] = n]
      BY <2>3 DEF Backtested
    <3>2. left' \in [Runs -> Nat] /\ tested' \in [Runs -> Nat]
      BY <2>3, <3>1 DEF Backtested
    <3> QED
      BY <2>3, <3>2 DEF Backtested
  <2>4. CASE Ranked(r)
    BY <2>4 DEF Ranked, Live, Executing
  <2>5. CASE Narrated(r) \/ Fails(r)
    BY <2>5 DEF Narrated, Fails, Finish, Live, Persisting
  <2>6. CASE StatusFlushed(r)
    BY <2>6 DEF StatusFlushed, Live, Persisting
  <2>7. CASE Embedded(r)
    <3>1. PICK n \in 0..Lesser(TopSize, tested[r]) : batch' = [batch EXCEPT ![r] = n]
      BY <2>7 DEF Embedded
    <3>2. n \in 0..TopSize
      <4>1. TopSize \in Nat /\ tested[r] \in Nat
        BY LifecycleAssumption
      <4>2. Lesser(TopSize, tested[r]) \in Nat /\ Lesser(TopSize, tested[r]) <= TopSize
        BY <4>1, LesserFacts
      <4>3. PICK m \in Nat : m = Lesser(TopSize, tested[r]) /\ m <= TopSize
        BY <4>2
      <4>4. n \in 0..m
        BY <4>3
      <4> QED
        BY <4>1, <4>3, <4>4
    <3>3. batch' \in [Runs -> 0..TopSize]
      BY <3>1, <3>2
    <3> QED
      BY <2>7, <3>3 DEF Embedded, Live, Persisting
  <2>8. CASE Committed(r)
    BY <2>8 DEF Committed, Write, Over
  <2>9. CASE SaveFails(r)
    BY <2>9 DEF SaveFails, Write, Over
  <2>10. CASE Discard(r)
    BY <2>10 DEF Discard
  <2> QED
    BY <1>2, <2>1, <2>2, <2>3, <2>4, <2>5, <2>6, <2>7, <2>8, <2>9, <2>10 DEF Task
<1>3. CASE Shutdown \/ Drained
  BY <1>3 DEF Shutdown, Drained
<1>4. CASE DrainTimeout
  BY <1>4 DEF DrainTimeout, Over
<1>5. CASE Crash
  BY <1>5 DEF Crash, Over
<1>6. CASE Restart
  BY <1>6 DEF Restart
<1>7. CASE UNCHANGED vars
  BY <1>7 DEF vars
<1> QED
  BY <1>1, <1>2, <1>3, <1>4, <1>5, <1>6, <1>7 DEF Next

(* The pool grows only when it is below its limit.                         *)
LEMMA PoolInvNext ==
    ASSUME Typed, PoolInv, [Next]_vars
    PROVE  PoolInv'
<1>1. ASSUME NEW r \in Runs, Created(r)
      PROVE  PoolInv'
  <2>1. CASE Cardinality(pool) < MaxTasks
    <3>1. pool' = pool \cup {r}
      BY <1>1, <2>1 DEF Created
    <3>2. IsFiniteSet(pool') /\ Cardinality(pool') <= Cardinality(pool) + 1
      <4>1. /\ IsFiniteSet(pool \cup {r})
            /\ Cardinality(pool \cup {r})
                   = IF r \in pool THEN Cardinality(pool) ELSE Cardinality(pool) + 1
        BY FS_AddElement, Zenon DEF PoolInv
      <4>2. PICK m \in Nat : m = Cardinality(pool)
        BY FS_CardinalityType DEF PoolInv
      <4>3. Cardinality(pool \cup {r}) \in {m, m + 1}
        BY <4>1, <4>2
      <4>4. Cardinality(pool \cup {r}) <= m + 1
        BY <4>2, <4>3
      <4> QED
        BY <3>1, <4>1, <4>2, <4>4, Zenon
    <3>3. Cardinality(pool) \in Nat /\ Cardinality(pool') \in Nat
      BY <3>2, FS_CardinalityType DEF PoolInv
    <3> QED
      BY <2>1, <3>2, <3>3, LifecycleAssumption DEF PoolInv
  <2>2. CASE ~(Cardinality(pool) < MaxTasks)
    BY <1>1, <2>2 DEF Created, PoolInv
  <2> QED
    BY <2>1, <2>2
<1>2. ASSUME NEW r \in Runs, Discard(r)
      PROVE  PoolInv'
  <2>1. pool' \in SUBSET pool
    BY <1>2 DEF Discard
  <2>2. IsFiniteSet(pool') /\ Cardinality(pool') <= Cardinality(pool)
    BY <2>1, FS_Subset DEF PoolInv
  <2>3. Cardinality(pool) \in Nat /\ Cardinality(pool') \in Nat
    BY <2>2, FS_CardinalityType DEF PoolInv
  <2> QED
    BY <2>2, <2>3, LifecycleAssumption DEF PoolInv
<1>3. ASSUME pool' = pool
      PROVE  PoolInv'
  BY <1>3 DEF PoolInv
<1>4. CASE Restart
  <2>1. pool' = {}
    BY <1>4 DEF Restart
  <2> QED
    BY <2>1, FS_EmptySet, LifecycleAssumption DEF PoolInv
<1>5. ASSUME NEW r \in Runs, Ask(r) \/ Handler(r) \/ Task(r), ~Created(r)
      PROVE  pool' = pool
  BY <1>5 DEF Ask, Handler, Planned, PlanFails, CreateFails, Refused, RefusalFails,
              Task, Begin, Loaded, Backtested, Ranked, Reviewed, Narrated, Fails,
              Finish, StatusFlushed, Embedded, Committed, SaveFails
<1>6. CASE Shutdown \/ Drained \/ DrainTimeout \/ Crash \/ UNCHANGED vars
  BY <1>3, <1>6 DEF Shutdown, Drained, DrainTimeout, Crash, vars
<1> QED
  BY <1>1, <1>2, <1>3, <1>4, <1>5, <1>6 DEF Next

(* A step of run r leaves every other run as it is.                        *)
SameRun(x) ==
    /\ request'[x] = request[x] /\ task'[x] = task[x]
    /\ tested'[x] = tested[x] /\ batch'[x] = batch[x]
    /\ feed'[x] = feed[x] /\ outcome'[x] = outcome[x]
    /\ db'[x] = db[x] /\ hypotheses'[x] = hypotheses[x]
    /\ x \in pool' <=> x \in pool

LEMMA OtherRuns ==
    ASSUME Typed, NEW r \in Runs, RunStep(r), NEW x \in Runs, x # r
    PROVE  SameRun(x) /\ mode' = mode
<1> USE DEF SameRun, Typed, requestVars, workVars, recordVars
<1>1. CASE Ask(r) \/ Handler(r)
  BY <1>1 DEF Ask, Handler, Planned, PlanFails, Created, CreateFails, Refused, RefusalFails
<1>2. CASE Begin(r) \/ Loaded(r) \/ Backtested(r) \/ Ranked(r) \/ Reviewed(r)
  BY <1>2 DEF Begin, Loaded, Backtested, Ranked, Reviewed
<1>3. CASE Narrated(r) \/ Fails(r) \/ StatusFlushed(r) \/ Embedded(r) \/ Discard(r)
  BY <1>3 DEF Narrated, Fails, Finish, StatusFlushed, Embedded, Discard
<1>4. CASE Committed(r) \/ SaveFails(r)
  BY <1>4 DEF Committed, SaveFails, Write
<1> QED
  BY <1>1, <1>2, <1>3, <1>4 DEF RunStep, Task

LEMMA RunInvSame ==
    ASSUME NEW x, RunInv(x), SameRun(x), mode' = mode
    PROVE  RunInv(x)'
  BY DEF RunInv, RequestInv, TaskInv, FeedInv, ProcessInv, SameRun

(* The steps of the request keep the invariant of its run.                 *)
LEMMA RequestKeeps ==
    ASSUME Typed, NEW r \in Runs, RunInv(r), mode = "up", Ask(r) \/ Handler(r)
    PROVE  RunInv(r)'
<1> USE DEF Typed, requestVars, workVars, recordVars,
            RunInv, RequestInv, TaskInv, FeedInv, ProcessInv, InFlight
<1>1. CASE Ask(r) \/ Planned(r) \/ PlanFails(r)
  BY <1>1 DEF Ask, Planned, PlanFails, Executing
<1>2. CASE Created(r)
  BY <1>2 DEF Created, Executing, Persisting, Over, Live
<1>3. CASE CreateFails(r)
  BY <1>3 DEF CreateFails, Executing, Persisting, Over, Live
<1>4. CASE Refused(r) \/ RefusalFails(r)
  BY <1>4 DEF Refused, RefusalFails, Executing, Persisting, Over, Live
<1> QED
  BY <1>1, <1>2, <1>3, <1>4 DEF Handler

(* So do the steps of its task.                                            *)
LEMMA TaskKeeps ==
    ASSUME Typed, NEW r \in Runs, RunInv(r), mode # "down", Task(r) \/ Discard(r)
    PROVE  RunInv(r)'
<1> USE DEF Typed, requestVars, workVars, recordVars,
            RunInv, RequestInv, TaskInv, FeedInv, ProcessInv
<1>1. CASE Begin(r) \/ Reviewed(r)
  BY <1>1 DEF Begin, Reviewed, Executing, Persisting, Over, Live
<1>2. CASE Loaded(r)
  BY <1>2 DEF Loaded, Executing, Persisting, Over, Live
<1>3. CASE Backtested(r) \/ Ranked(r)
  BY <1>3 DEF Backtested, Ranked, Executing, Persisting, Over, Live
<1>4. CASE Narrated(r) \/ Fails(r)
  BY <1>4 DEF Narrated, Fails, Finish, Executing, Persisting, Over, Live
<1>5. CASE StatusFlushed(r)
  BY <1>5 DEF StatusFlushed, Executing, Persisting, Over, Live
<1>6. CASE Embedded(r)
  <2>1. PICK n \in 0..Lesser(TopSize, tested[r]) : batch' = [batch EXCEPT ![r] = n]
    BY <1>6 DEF Embedded
  <2>2. batch'[r] <= tested[r]
    BY <2>1, LesserFacts, LifecycleAssumption
  <2> QED
    BY <1>6, <2>2 DEF Embedded, Executing, Persisting, Over, Live
<1>7. CASE Committed(r)
  BY <1>7 DEF Committed, Write, Executing, Persisting, Over, Live
<1>8. CASE SaveFails(r)
  BY <1>8 DEF SaveFails, Write, Executing, Persisting, Over, Live
<1>9. CASE Discard(r)
  BY <1>9 DEF Discard, Executing, Persisting, Over, Live
<1> QED
  BY <1>1, <1>2, <1>3, <1>4, <1>5, <1>6, <1>7, <1>8, <1>9 DEF Task

(* And whatever happens to the process.                                    *)
LEMMA ProcessKeeps ==
    ASSUME Typed, NEW x \in Runs, RunInv(x),
           Shutdown \/ Drained \/ DrainTimeout \/ Crash \/ Restart \/ UNCHANGED vars
    PROVE  RunInv(x)'
<1> USE DEF Typed, requestVars, workVars, recordVars,
            RunInv, RequestInv, TaskInv, FeedInv, ProcessInv
<1>1. CASE Shutdown
  BY <1>1 DEF Shutdown
<1>2. CASE Drained
  BY <1>2, Sorts DEF Drained
<1>3. CASE DrainTimeout
  BY <1>3, Sorts DEF DrainTimeout, Over
<1>4. CASE Crash
  BY <1>4, Sorts DEF Crash, Over, InFlight
<1>5. CASE Restart
  BY <1>5 DEF Restart
<1>6. CASE UNCHANGED vars
  BY <1>6 DEF vars
<1> QED
  BY <1>1, <1>2, <1>3, <1>4, <1>5, <1>6

LEMMA InvInit == Init => IInv
<1> SUFFICES ASSUME Init
             PROVE  IInv
  OBVIOUS
<1>1. PoolInv
  BY FS_EmptySet, LifecycleAssumption DEF Init, PoolInv
<1>2. ASSUME NEW r \in Runs
      PROVE  RunInv(r)
  BY <1>2 DEF Init, RunInv, RequestInv, TaskInv, FeedInv, ProcessInv,
              InFlight, Live, Executing, Persisting, Over
<1> QED
  BY <1>1, <1>2, TypeInit DEF IInv

LEMMA InvNext == IInv /\ [Next]_vars => IInv'
<1> SUFFICES ASSUME IInv, [Next]_vars
             PROVE  IInv'
  OBVIOUS
<1>1. Typed /\ PoolInv /\ \A r \in Runs : RunInv(r)
  BY DEF IInv
<1>2. Typed' /\ PoolInv'
  BY <1>1, TypeNext, PoolInvNext
<1>3. ASSUME NEW x \in Runs
      PROVE  RunInv(x)'
  <2>1. ASSUME NEW r \in Runs, RunStep(r), x # r
        PROVE  RunInv(x)'
    BY <1>1, <2>1, OtherRuns, RunInvSame
  <2>2. ASSUME NEW r \in Runs, mode = "up", Ask(r) \/ Handler(r), x = r
        PROVE  RunInv(x)'
    BY <1>1, <2>2, RequestKeeps
  <2>3. ASSUME NEW r \in Runs, mode # "down", Task(r) \/ Discard(r), x = r
        PROVE  RunInv(x)'
    BY <1>1, <2>3, TaskKeeps
  <2>4. CASE Shutdown \/ Drained \/ DrainTimeout \/ Crash \/ Restart \/ UNCHANGED vars
    BY <1>1, <2>4, ProcessKeeps
  <2> QED
    BY <2>1, <2>2, <2>3, <2>4 DEF Next, RunStep
<1> QED
  BY <1>2, <1>3 DEF IInv

-----------------------------------------------------------------------------
(* The theorems.                                                           *)

THEOREM Invariance == Spec => []IInv
  BY InvInit, InvNext, PTL DEF Spec

(* Types, the size of the top and the limit of the pool.                   *)
THEOREM TypeCorrect == Spec => []TypeOK
<1>1. IInv => TypeOK
  BY DEF IInv, PoolInv, TypeOK
<1> QED
  BY <1>1, Invariance, PTL

(* The pool respects its limit and holds every task that runs.             *)
THEOREM PoolIsBounded == Spec => []PoolHoldsLiveTasks
<1>1. IInv => PoolHoldsLiveTasks
  BY DEF IInv, PoolInv, RunInv, ProcessInv, PoolHoldsLiveTasks
<1> QED
  BY <1>1, Invariance, PTL

(* A task finds its committed row, still running, as long as it runs.      *)
THEOREM TaskFindsItsRow == Spec => []TaskOwnsItsRow
<1>1. IInv => TaskOwnsItsRow
  BY DEF IInv, RunInv, TaskInv, TaskOwnsItsRow, Live
<1> QED
  BY <1>1, Invariance, PTL

(* The table never contradicts the stream, and hypotheses are written with *)
(* the status done or not at all.                                          *)
THEOREM RecordIsFaithful == Spec => []RecordMatchesStream
<1>1. ASSUME IInv, NEW r \in Runs
      PROVE  /\ db[r] = "done" => outcome[r] = "done"
             /\ db[r] = "error" => \/ outcome[r] = "error"
                                   \/ request[r] \in {"refused", "failed"} /\ outcome[r] = "none"
             /\ hypotheses[r] > 0 => db[r] = "done" /\ hypotheses[r] <= tested[r]
  <2>1. Typed /\ RequestInv(r) /\ TaskInv(r)
    BY <1>1 DEF IInv, RunInv
  <2>2. CASE request[r] = "answered"
    <3>1. task[r] \in Executing \cup Persisting \cup Over
      BY <2>1, <2>2 DEF RequestInv, Typed, Live
    <3> QED
      BY <2>1, <3>1 DEF TaskInv, Typed
  <2>3. CASE request[r] # "answered"
    BY <2>1, <2>3 DEF RequestInv, Typed, InFlight
  <2> QED
    BY <2>2, <2>3
<1>2. IInv => RecordMatchesStream
  BY <1>1 DEF RecordMatchesStream
<1> QED
  BY <1>2, Invariance, PTL

(* Only requests that were not answered leave a feed open behind them.     *)
THEOREM FeedsAreClosed == Spec => []FeedsClose
<1>1. IInv => FeedsClose
  BY DEF IInv, RunInv, FeedInv, FeedsClose
<1> QED
  BY <1>1, Invariance, PTL

(* The safety half of RunSettles: an answered run has a task that runs in  *)
(* a living process and that drain knows of, or it is recorded with the    *)
(* end it reported, or its task was broken off.  None of them stays        *)
(* "running" in the table with nobody left to write the end of it.         *)
NoRunIsStranded ==
    \A r \in Runs : request[r] = "answered" =>
        \/ task[r] \in Live /\ r \in pool /\ mode # "down"
        \/ task[r] = "ended" /\ db[r] \in {"done", "error"} /\ db[r] = outcome[r]
        \/ task[r] \in {"unsaved", "cancelled", "lost"}

THEOREM RunsAreNotStranded == Spec => []NoRunIsStranded
<1>1. ASSUME IInv, NEW r \in Runs, request[r] = "answered"
      PROVE  \/ task[r] \in Live /\ r \in pool /\ mode # "down"
             \/ task[r] = "ended" /\ db[r] \in {"done", "error"} /\ db[r] = outcome[r]
             \/ task[r] \in {"unsaved", "cancelled", "lost"}
  <2>1. Typed /\ RequestInv(r) /\ TaskInv(r) /\ ProcessInv(r)
    BY <1>1 DEF IInv, RunInv
  <2>2. task[r] \in Live \cup Over
    BY <1>1, <2>1 DEF RequestInv, Typed
  <2>3. CASE task[r] \in Live
    BY <2>1, <2>3 DEF ProcessInv
  <2>4. CASE task[r] \in Over
    BY <2>1, <2>4 DEF TaskInv, Typed, Over
  <2> QED
    BY <2>2, <2>3, <2>4
<1>2. IInv => NoRunIsStranded
  BY <1>1 DEF NoRunIsStranded
<1> QED
  BY <1>2, Invariance, PTL

-----------------------------------------------------------------------------
(* The runs table implements RunRecord.                                    *)

LEMMA RecordStutter ==
    ASSUME UNCHANGED <<db, outcome, hypotheses>>
    PROVE  UNCHANGED Record!vars
  BY DEF Record!vars

LEMMA RecordStep ==
    ASSUME IInv, [Next]_vars
    PROVE  [Record!Next]_(Record!vars)
<1>1. Typed /\ \A r \in Runs : RequestInv(r) /\ TaskInv(r)
  BY DEF IInv, RunInv
<1>2. ASSUME NEW r \in Runs, Created(r)
      PROVE  Record!Accept(r)
  BY <1>1, <1>2 DEF Created, Record!Accept, RequestInv
<1>3. ASSUME NEW r \in Runs, CreateFails(r)
      PROVE  Record!Accept(r) \/ UNCHANGED Record!vars
  <2>1. db[r] = "none" /\ UNCHANGED <<outcome, hypotheses>>
    BY <1>1, <1>3 DEF CreateFails, RequestInv
  <2>2. PICK status \in {"none", "running"} : db' = [db EXCEPT ![r] = status]
    BY <1>3 DEF CreateFails
  <2>3. CASE status = "none"
    BY <1>1, <2>1, <2>2, <2>3 DEF Typed, Record!vars
  <2>4. CASE status = "running"
    BY <2>1, <2>2, <2>4 DEF Record!Accept
  <2> QED
    BY <2>2, <2>3, <2>4
<1>4. ASSUME NEW r \in Runs, Refused(r)
      PROVE  Record!Refuse(r)
  BY <1>1, <1>4 DEF Refused, Record!Refuse, RequestInv
<1>5. ASSUME NEW r \in Runs, RefusalFails(r)
      PROVE  Record!Refuse(r) \/ UNCHANGED Record!vars
  <2>1. db[r] = "running" /\ outcome[r] = "none" /\ UNCHANGED <<outcome, hypotheses>>
    BY <1>1, <1>5 DEF RefusalFails, RequestInv
  <2>2. PICK status \in {"running", "error"} : db' = [db EXCEPT ![r] = status]
    BY <1>5 DEF RefusalFails
  <2>3. CASE status = "running"
    BY <1>1, <2>1, <2>2, <2>3 DEF Typed, Record!vars
  <2>4. CASE status = "error"
    BY <2>1, <2>2, <2>4 DEF Record!Refuse
  <2> QED
    BY <2>2, <2>3, <2>4
<1>6. ASSUME NEW r \in Runs, Narrated(r) \/ Fails(r)
      PROVE  Record!Settle(r)
  <2>1. task[r] \in Executing
    BY <1>6 DEF Narrated, Fails, Executing
  <2>2. outcome[r] = "none" /\ db[r] = "running"
    BY <1>1, <2>1 DEF TaskInv
  <2> QED
    BY <1>6, <2>2 DEF Narrated, Fails, Finish, recordVars, Record!Settle
<1>7. ASSUME NEW r \in Runs, task[r] = "committing", Write(r), outcome' = outcome
      PROVE  Record!Record(r)
  <2>1. outcome[r] # "none" /\ db[r] = "running"
    BY <1>1, <1>7 DEF TaskInv, Persisting
  <2>2. /\ hypotheses' = [hypotheses EXCEPT ![r] = hypotheses'[r]]
        /\ hypotheses'[r] = batch[r] /\ batch[r] \in Nat
        /\ outcome[r] = "error" => batch[r] = 0
    BY <1>1, <1>7, LifecycleAssumption DEF Typed, Write, TaskInv
  <2> QED
    BY <1>7, <2>1, <2>2 DEF Write, Record!Record
<1>8. ASSUME NEW r \in Runs, Committed(r) \/ SaveFails(r)
      PROVE  Record!Record(r) \/ UNCHANGED Record!vars
  BY <1>7, <1>8, RecordStutter DEF Committed, SaveFails, recordVars
<1>9. ASSUME NEW r \in Runs,
             \/ Ask(r) \/ Planned(r) \/ PlanFails(r) \/ Begin(r) \/ Loaded(r)
             \/ Backtested(r) \/ Ranked(r) \/ Reviewed(r) \/ StatusFlushed(r)
             \/ Embedded(r) \/ Discard(r)
      PROVE  UNCHANGED Record!vars
  BY <1>9, RecordStutter DEF Ask, Planned, PlanFails, Begin, Loaded, Backtested,
     Ranked, Reviewed, StatusFlushed, Embedded, Discard, recordVars
<1>10. CASE Shutdown \/ Drained \/ DrainTimeout \/ Crash \/ Restart \/ UNCHANGED vars
  BY <1>10, RecordStutter DEF Shutdown, Drained, DrainTimeout, Crash, Restart,
     vars, recordVars
<1> QED
  BY <1>2, <1>3, <1>4, <1>5, <1>6, <1>8, <1>9, <1>10
     DEF Next, Handler, Task, Record!Next

(* The status of a run never reverts, is final once it is done or error,   *)
(* and agrees with its stream, whatever fails or crashes in between.       *)
THEOREM TableImplementsRecord == Spec => ImplementsRecord
<1>1. Init => Record!Init
  BY DEF Init, Record!Init
<1>2. IInv /\ [Next]_vars => [Record!Next]_(Record!vars)
  BY RecordStep
<1> QED
  BY <1>1, <1>2, Invariance, PTL DEF Spec, ImplementsRecord, Record!Spec
=============================================================================
