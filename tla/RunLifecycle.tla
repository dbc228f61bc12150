----------------------------- MODULE RunLifecycle -----------------------------
(***************************************************************************)
(* The life of a pipeline run: the request that accepts it                 *)
(* (pipeline/api.py start_run), the background task that executes it and   *)
(* writes the result (pipeline/executor.py run, api.py _run_and_persist),  *)
(* the pool of background tasks (background.py), the runs table, and what  *)
(* happens to all of them when the process stops.                          *)
(*                                                                         *)
(* An action is the code between two suspension points of one coroutine.   *)
(* generate_hypotheses, validate_portfolio and extract_insights contain no *)
(* await, so the code around them is part of the neighbouring actions.     *)
(* Progress events are left out: EventBus models the bus.                  *)
(***************************************************************************)
EXTENDS Integers, FiniteSets

CONSTANTS Runs,          (* the runs that are ever requested                *)
          MaxTasks,      (* AQR_MAX_BACKGROUND_TASKS                        *)
          TopSize,       (* how many results are kept: [:5]                 *)
          MaxHypotheses, (* bound: n_hypotheses of a plan                   *)
          MaxRestarts    (* bound: restarts of the process                  *)

ASSUME LifecycleAssumption ==
    /\ MaxTasks \in Nat \ {0}
    /\ TopSize \in Nat \ {0}
    /\ MaxHypotheses \in Nat
    /\ MaxRestarts \in Nat

VARIABLES mode,        (* the process: "up", "draining" or "down"           *)
          restarts,    (* how often it was started again                    *)
          request,     (* where the POST /pipeline/runs handler of r stands *)
          task,        (* where the background task of r stands             *)
          left,        (* hypotheses the loop has not reached yet           *)
          tested,      (* Len(results)                                      *)
          pool,        (* _background_tasks                                 *)
          feed,        (* the entry of r in the event bus                   *)
          outcome,     (* the terminal event r published                    *)
          db,          (* committed Run.status                              *)
          batch,       (* hypotheses flushed in the open transaction        *)
          hypotheses   (* committed hypotheses of r                         *)

requestVars == <<mode, restarts, request>>
workVars == <<left, tested, batch>>
recordVars == <<db, hypotheses>>
vars == <<requestVars, workVars, recordVars, task, pool, feed, outcome>>

-----------------------------------------------------------------------------
Executing == {"created", "loading", "backtesting", "reviewing", "narrating"}
Persisting == {"saving", "embedding", "committing"}
Live == Executing \cup Persisting
Over == {"ended", "unsaved", "cancelled", "lost"}
InFlight == {"planning", "creating", "refusing"}

Lesser(m, n) == IF m <= n THEN m ELSE n

Init ==
    /\ mode = "up"
    /\ restarts = 0
    /\ request = [r \in Runs |-> "none"]
    /\ task = [r \in Runs |-> "none"]
    /\ left = [r \in Runs |-> 0]
    /\ tested = [r \in Runs |-> 0]
    /\ pool = {}
    /\ feed = [r \in Runs |-> "absent"]
    /\ outcome = [r \in Runs |-> "none"]
    /\ db = [r \in Runs |-> "none"]
    /\ batch = [r \in Runs |-> 0]
    /\ hypotheses = [r \in Runs |-> 0]

-----------------------------------------------------------------------------
(* The request.                                                            *)

(* start_run up to the LLM call of the planner.                            *)
Ask(r) ==
    /\ mode = "up"
    /\ request[r] = "none"
    /\ request' = [request EXCEPT ![r] = "planning"]
    /\ UNCHANGED <<mode, restarts, workVars, recordVars, task, pool, feed, outcome>>

(* The plan arrived: BUS.register_run, then the database work begins.      *)
Planned(r) ==
    /\ request[r] = "planning"
    /\ request' = [request EXCEPT ![r] = "creating"]
    /\ feed' = [feed EXCEPT ![r] = "open"]
    /\ UNCHANGED <<mode, restarts, workVars, recordVars, task, pool, outcome>>

(* The planner raised.                                                     *)
PlanFails(r) ==
    /\ request[r] = "planning"
    /\ request' = [request EXCEPT ![r] = "failed"]
    /\ UNCHANGED <<mode, restarts, workVars, recordVars, task, pool, feed, outcome>>

(* The session, the run or the commit failed, the commit possibly after it *)
(* took effect.  Nothing takes the entry out of the bus again.             *)
CreateFails(r) ==
    /\ request[r] = "creating"
    /\ request' = [request EXCEPT ![r] = "failed"]
    /\ \E status \in {"none", "running"} : db' = [db EXCEPT ![r] = status]
    /\ UNCHANGED <<mode, restarts, workVars, hypotheses, task, pool, feed, outcome>>

(* Mutant: the coroutine is made but never becomes a task. *)
CreatedUnscheduled(r) ==
    /\ request[r] = "creating"
    /\ db' = [db EXCEPT ![r] = "running"]
    /\ request' = [request EXCEPT ![r] = "answered"]
    /\ UNCHANGED <<mode, restarts, workVars, hypotheses, task, pool, feed, outcome>>

(* Mutant: the limit is passed by one. *)
CreatedOneMore(r) ==
    /\ request[r] = "creating"
    /\ db' = [db EXCEPT ![r] = "running"]
    /\ IF Cardinality(pool) <= MaxTasks
          THEN /\ task' = [task EXCEPT ![r] = "created"]
               /\ pool' = pool \cup {r}
               /\ request' = [request EXCEPT ![r] = "answered"]
          ELSE /\ request' = [request EXCEPT ![r] = "refusing"]
               /\ UNCHANGED <<task, pool>>
    /\ UNCHANGED <<mode, restarts, workVars, hypotheses, feed, outcome>>

(* db.commit() returned and schedule() runs before anything else does.  At *)
(* the limit it raises and the coroutine it was given never starts.        *)
Created(r) ==
    /\ request[r] = "creating"
    /\ db' = [db EXCEPT ![r] = "running"]
    /\ IF Cardinality(pool) < MaxTasks
          THEN /\ task' = [task EXCEPT ![r] = "created"]
               /\ pool' = pool \cup {r}
               /\ request' = [request EXCEPT ![r] = "answered"]
          ELSE /\ request' = [request EXCEPT ![r] = "refusing"]
               /\ UNCHANGED <<task, pool>>
    /\ UNCHANGED <<mode, restarts, workVars, hypotheses, feed, outcome>>

(* The answer is 503 after the status was written, 500 if that failed.     *)
Refused(r) ==
    /\ request[r] = "refusing"
    /\ db' = [db EXCEPT ![r] = "error"]
    /\ request' = [request EXCEPT ![r] = "refused"]
    /\ UNCHANGED <<mode, restarts, workVars, hypotheses, task, pool, feed, outcome>>

RefusalFails(r) ==
    /\ request[r] = "refusing"
    /\ request' = [request EXCEPT ![r] = "failed"]
    /\ \E status \in {"running", "error"} : db' = [db EXCEPT ![r] = status]
    /\ UNCHANGED <<mode, restarts, workVars, hypotheses, task, pool, feed, outcome>>

-----------------------------------------------------------------------------
(* The background task: PipelineExecutor.run.                              *)

(* register_all, the planning event and the data events.                   *)
Begin(r) ==
    /\ task[r] = "created"
    /\ task' = [task EXCEPT ![r] = "loading"]
    /\ UNCHANGED <<requestVars, workVars, recordVars, pool, feed, outcome>>

(* load_prices returned and the hypotheses were generated.                 *)
Loaded(r) ==
    /\ task[r] = "loading"
    /\ task' = [task EXCEPT ![r] = "backtesting"]
    /\ \E n \in 0..MaxHypotheses : left' = [left EXCEPT ![r] = n]
    /\ tested' = [tested EXCEPT ![r] = 0]
    /\ UNCHANGED <<requestVars, batch, recordVars, pool, feed, outcome>>

(* The loop up to its next sleep(0): hypotheses without prices and those   *)
(* whose backtest reports an error are skipped without one.                *)
Backtested(r) ==
    /\ task[r] = "backtesting"
    /\ \E n \in 0..(left[r] - 1) : left' = [left EXCEPT ![r] = n]
    /\ tested' = [tested EXCEPT ![r] = @ + 1]
    /\ UNCHANGED <<requestVars, batch, recordVars, task, pool, feed, outcome>>

(* The rest was skipped; PBO, ranking and insights follow at once.  The    *)
(* reviewer refuses an empty top before it calls the LLM, and any failure  *)
(* of it is only a warning.                                                *)
Ranked(r) ==
    /\ task[r] = "backtesting"
    /\ left' = [left EXCEPT ![r] = 0]
    /\ task' = [task EXCEPT ![r] = IF tested[r] = 0 THEN "narrating" ELSE "reviewing"]
    /\ UNCHANGED <<requestVars, tested, batch, recordVars, pool, feed, outcome>>

Reviewed(r) ==
    /\ task[r] = "reviewing"
    /\ task' = [task EXCEPT ![r] = "narrating"]
    /\ UNCHANGED <<requestVars, workVars, recordVars, pool, feed, outcome>>

(* Mutant: the failure is logged and not published. *)
FinishSilently(r, end) ==
    /\ outcome' = [outcome EXCEPT ![r] = end]
    /\ feed' = [feed EXCEPT ![r] = IF end = "done" THEN end ELSE @]
    /\ task' = [task EXCEPT ![r] = "saving"]
    /\ UNCHANGED <<requestVars, workVars, recordVars, pool>>

(* The last event of the run is published and the saving begins.           *)
Finish(r, end) ==
    /\ outcome' = [outcome EXCEPT ![r] = end]
    /\ feed' = [feed EXCEPT ![r] = end]
    /\ task' = [task EXCEPT ![r] = "saving"]
    /\ UNCHANGED <<requestVars, workVars, recordVars, pool>>

Narrated(r) == task[r] = "narrating" /\ Finish(r, "done")

(* An exception anywhere but in the review: the executor reports it and    *)
(* _run_and_persist reports it again, which the bus takes as one end.      *)
Fails(r) == task[r] \in Executing /\ Finish(r, "error")

-----------------------------------------------------------------------------
(* The background task: the rest of _run_and_persist, one transaction.     *)

(* update_run_status was flushed.                                          *)
StatusFlushed(r) ==
    /\ task[r] = "saving"
    /\ task' = [task EXCEPT ![r] =
                   IF outcome[r] = "done" THEN "embedding" ELSE "committing"]
    /\ UNCHANGED <<requestVars, workVars, recordVars, pool, feed, outcome>>

(* The embeddings were gathered; a hypothesis whose embedding failed is    *)
(* skipped, the others are flushed.                                        *)
Embedded(r) ==
    /\ task[r] = "embedding"
    /\ task' = [task EXCEPT ![r] = "committing"]
    /\ \E n \in 0..Lesser(TopSize, tested[r]) : batch' = [batch EXCEPT ![r] = n]
    /\ UNCHANGED <<requestVars, left, tested, recordVars, pool, feed, outcome>>

(* Mutant: the status is done whatever the executor returned. *)
WriteDone(r) ==
    /\ db' = [db EXCEPT ![r] = "done"]
    /\ hypotheses' = [hypotheses EXCEPT ![r] = batch[r]]

(* The transaction takes effect as a whole.                                *)
Write(r) ==
    /\ db' = [db EXCEPT ![r] = outcome[r]]
    /\ hypotheses' = [hypotheses EXCEPT ![r] = batch[r]]

Committed(r) ==
    /\ task[r] = "committing"
    /\ task' = [task EXCEPT ![r] = "ended"]
    /\ Write(r)
    /\ UNCHANGED <<requestVars, workVars, pool, feed, outcome>>

(* Mutant: what was flushed stays although the commit failed. *)
SaveFailsHalfway(r) ==
    /\ task[r] \in Persisting
    /\ task' = [task EXCEPT ![r] = "unsaved"]
    /\ hypotheses' = [hypotheses EXCEPT ![r] = batch[r]]
    /\ UNCHANGED <<requestVars, workVars, db, pool, feed, outcome>>

(* The database raised: the session rolls back, the exception ends the task*)
(* and nobody asks for it.  A commit may have taken effect nevertheless.   *)
SaveFails(r) ==
    /\ task[r] \in Persisting
    /\ task' = [task EXCEPT ![r] = "unsaved"]
    /\ \/ UNCHANGED recordVars
       \/ task[r] = "committing" /\ Write(r)
    /\ UNCHANGED <<requestVars, workVars, pool, feed, outcome>>

(* The done callback runs in a later iteration of the event loop.          *)
Discard(r) ==
    /\ r \in pool
    /\ task[r] \in Over
    /\ pool' = pool \ {r}
    /\ UNCHANGED <<requestVars, workVars, recordVars, task, feed, outcome>>

-----------------------------------------------------------------------------
(* The process.                                                            *)

(* uvicorn has answered its requests; lifespan calls drain(30).            *)
Shutdown ==
    /\ mode = "up"
    /\ \A r \in Runs : request[r] \notin InFlight
    /\ mode' = "draining"
    /\ UNCHANGED <<restarts, request, workVars, recordVars, task, pool, feed, outcome>>

(* drain returns: every task it gathered is over.                          *)
Drained ==
    /\ mode = "draining"
    /\ \A r \in pool : task[r] \in Over
    /\ mode' = "down"
    /\ UNCHANGED <<restarts, request, workVars, recordVars, task, pool, feed, outcome>>

(* wait_for gives up, which cancels the gather and with it every task in   *)
(* it: CancelledError is no Exception, so the task ends where it stands.   *)
DrainTimeout ==
    /\ mode = "draining"
    /\ \E r \in pool : task[r] \in Live
    /\ task' = [r \in Runs |->
                   IF r \in pool /\ task[r] \in Live THEN "cancelled" ELSE task[r]]
    /\ mode' = "down"
    /\ UNCHANGED <<restarts, request, workVars, recordVars, pool, feed, outcome>>

(* The process is killed.                                                  *)
Crash ==
    /\ mode \in {"up", "draining"}
    /\ mode' = "down"
    /\ task' = [r \in Runs |-> IF task[r] \in Live THEN "lost" ELSE task[r]]
    /\ request' = [r \in Runs |->
                      IF request[r] \in InFlight THEN "failed" ELSE request[r]]
    /\ UNCHANGED <<restarts, workVars, recordVars, pool, feed, outcome>>

(* The tables are all that is left, and nothing looks for running rows.    *)
Restart ==
    /\ mode = "down"
    /\ restarts < MaxRestarts
    /\ mode' = "up"
    /\ restarts' = restarts + 1
    /\ pool' = {}
    /\ feed' = [r \in Runs |-> "absent"]
    /\ UNCHANGED <<request, workVars, recordVars, task, outcome>>

-----------------------------------------------------------------------------
Handler(r) ==
    \/ Planned(r) \/ PlanFails(r)
    \/ Created(r) \/ CreateFails(r) \/ Refused(r) \/ RefusalFails(r)

Task(r) ==
    \/ Begin(r) \/ Loaded(r) \/ Backtested(r) \/ Ranked(r)
    \/ Reviewed(r) \/ Narrated(r) \/ Fails(r)
    \/ StatusFlushed(r) \/ Embedded(r) \/ Committed(r) \/ SaveFails(r)

Next ==
    \/ \E r \in Runs : mode = "up" /\ (Ask(r) \/ Handler(r))
    \/ \E r \in Runs : mode # "down" /\ (Task(r) \/ Discard(r))
    \/ Shutdown \/ Drained \/ DrainTimeout \/ Crash \/ Restart

Spec == Init /\ [][Next]_vars

(* The event loop resumes a coroutine whose call returned, and every call  *)
(* a handler or a task awaits (LLM, T-Invest, database) returns or raises. *)
(* Nobody promises a shutdown, a crash, a restart or another request.      *)
Fairness == \A r \in Runs : /\ WF_vars(mode = "up" /\ Handler(r))
                            /\ WF_vars(mode # "down" /\ Task(r))
                            /\ WF_vars(mode # "down" /\ Discard(r))

FairSpec == Spec /\ Fairness

-----------------------------------------------------------------------------
Typed ==
    /\ mode \in {"up", "draining", "down"}
    /\ restarts \in Nat
    /\ request \in [Runs -> InFlight \cup {"none", "answered", "refused", "failed"}]
    /\ task \in [Runs -> Live \cup Over \cup {"none"}]
    /\ left \in [Runs -> Nat]
    /\ tested \in [Runs -> Nat]
    /\ pool \in SUBSET Runs
    /\ feed \in [Runs -> {"absent", "open", "done", "error"}]
    /\ outcome \in [Runs -> {"none", "done", "error"}]
    /\ db \in [Runs -> {"none", "running", "done", "error"}]
    /\ batch \in [Runs -> 0..TopSize]
    /\ hypotheses \in [Runs -> 0..TopSize]

(* Types, with the bounds the code keeps: no run keeps more than the top,  *)
(* and the pool never outgrows AQR_MAX_BACKGROUND_TASKS, although requests *)
(* find it full at any moment and a task that is over stays in it until    *)
(* its done callback.                                                      *)
TypeOK == Typed /\ Cardinality(pool) <= MaxTasks

(* The pool respects AQR_MAX_BACKGROUND_TASKS although a finished task     *)
(* stays in it for a while, and every task that runs is in it, so that     *)
(* drain waits for all of them and the collector takes none of them.       *)
PoolHoldsLiveTasks ==
    /\ Cardinality(pool) <= MaxTasks
    /\ \A r \in Runs : task[r] \in Live => r \in pool

(* The commit that precedes schedule() makes the row visible to the        *)
(* session the task opens, and nobody else writes the row: as long as the  *)
(* task runs, the run is recorded as running and has no hypothesis.        *)
TaskOwnsItsRow ==
    \A r \in Runs :
        task[r] \in Live => db[r] = "running" /\ hypotheses[r] = 0

(* What the table says in the end is what the stream said: done only after *)
(* the done event, error only after an error event or a refusal.  No run   *)
(* keeps hypotheses that were not committed with the status done, nor more *)
(* than it tested.                                                         *)
RecordMatchesStream ==
    \A r \in Runs :
        /\ db[r] = "done" => outcome[r] = "done"
        /\ db[r] = "error" => \/ outcome[r] = "error"
                              \/ request[r] \in {"refused", "failed"} /\ outcome[r] = "none"
        /\ hypotheses[r] > 0 => db[r] = "done" /\ hypotheses[r] <= tested[r]

(* A feed is left open for good, so that its readers wait and it is never  *)
(* pruned, only for a request that was not answered.                       *)
FeedsClose ==
    \A r \in Runs :
        mode # "down" /\ feed[r] = "open" =>
            \/ request[r] \in {"creating", "refusing", "refused", "failed"}
            \/ task[r] \in Executing

(* The table is an implementation of RunRecord.                            *)
Record == INSTANCE RunRecord WITH status <- db
ImplementsRecord == Record!Spec

(* A run that was answered does not stay "running" unless the process      *)
(* stopped or the database failed: the chain of awaits always ends.        *)
RunSettles ==
    \A r \in Runs :
        request[r] = "answered"
            ~> (db[r] \in {"done", "error"} \/ task[r] \in {"unsaved", "cancelled", "lost"})
=============================================================================
