------------------------------- MODULE AgentTeam -------------------------------
(***************************************************************************)
(* aqr/agents: POST /team/run.  An editor plans; a browser looks for       *)
(* context, as a task in the pool of background tasks if there is room,    *)
(* while one analyst per ticker backtests family after family; then a      *)
(* reviewer and a writer work on the results of all of them.  One failed   *)
(* analyst fails the team.                                                 *)
(*                                                                         *)
(* One run of the team; other runs and the pipeline are seen in the number *)
(* of their tasks in the pool.  An action is what happens up to the next   *)
(* call of a tool, thread or database.  A result is known by its family;   *)
(* plans, texts and statistics are left out.                               *)
(***************************************************************************)
EXTENDS Integers, FiniteSets

CONSTANTS Universe,  (* the tickers there are                             *)
          Families,
          Screened,  (* families with a screener: momentum                 *)
          NoFamily,  (* before the first                                   *)
          MaxSpecs,  (* top_n of analyze                                   *)
          MaxTasks   (* _MAX_BACKGROUND_TASKS                              *)

ASSUME TeamAssumption ==
    /\ Screened \subseteq Families
    /\ NoFamily \notin Families
    /\ MaxSpecs \in Nat \ {0}
    /\ MaxTasks \in Nat \ {0}

VARIABLES phase,    (* the step of run_team                                *)
          plan,     (* its tickers and families                            *)
          browser,  (* "none", "pooled", "unstarted", "running" or "done"  *)
          asking,   (* the call of research that is awaited                *)
          dropped,  (* a coroutine of research was made, never awaited     *)
          slot,     (* the browser's task is in _background_tasks          *)
          others,   (* how many other tasks are                            *)
          stage,    (* per ticker: the step of its analyst                 *)
          rest,     (* per ticker: families still to be analysed           *)
          family,   (* per ticker: the family being analysed               *)
          specs,    (* per ticker: specs of it still to be backtested      *)
          results   (* per ticker: families with a result                  *)

analystVars == <<stage, rest, family, specs, results>>
poolVars == <<slot, others>>
browserVars == <<browser, asking, dropped>>
teamVars == <<phase, plan, browserVars, poolVars, analystVars>>

-----------------------------------------------------------------------------
Ends == {"ok", "failed", "raised"}
Tasks == others + (IF slot THEN 1 ELSE 0)

TeamInit ==
    /\ phase = "planning"
    /\ plan = [tickers |-> {}, families |-> {}]
    /\ browser = "none"
    /\ asking = "similar"
    /\ dropped = FALSE
    /\ slot = FALSE
    /\ others \in 0..MaxTasks
    /\ stage = [t \in Universe |-> "idle"]
    /\ rest = [t \in Universe |-> {}]
    /\ family = [t \in Universe |-> NoFamily]
    /\ specs = [t \in Universe |-> 0]
    /\ results = [t \in Universe |-> {}]

(* Other tasks come and go.                                                *)
OtherStarts ==
    /\ Tasks < MaxTasks
    /\ others' = others + 1
    /\ UNCHANGED <<phase, plan, browserVars, slot, analystVars>>

OtherEnds ==
    /\ others > 0
    /\ others' = others - 1
    /\ UNCHANGED <<phase, plan, browserVars, slot, analystVars>>

(* EditorAgent.plan: no tool, an exception of it or no ticker.             *)
PlanFails ==
    /\ phase = "planning"
    /\ phase' = "failed"
    /\ UNCHANGED <<plan, browserVars, poolVars, analystVars>>

(* Mutant: the limit is passed by one. *)
ScheduleBrowserAnyway ==
    /\ phase' = "analysing"
    /\ IF Tasks <= MaxTasks
          THEN browser' = "pooled" /\ slot' = TRUE /\ UNCHANGED dropped
          ELSE browser' = "unstarted" /\ dropped' = TRUE /\ UNCHANGED slot

(* schedule(browser.research(...)).  At the limit schedule raises before   *)
(* it makes a task of the coroutine, which is dropped: it never starts and *)
(* nobody awaits it.  The handler makes a second one and awaits it later.  *)
ScheduleBrowser ==
    /\ phase' = "analysing"
    /\ IF Tasks < MaxTasks
          THEN browser' = "pooled" /\ slot' = TRUE /\ UNCHANGED dropped
          ELSE browser' = "unstarted" /\ dropped' = TRUE /\ UNCHANGED slot

(* The plan, with the overrides of the request, which may be empty lists;  *)
(* the analysts start.                                                     *)
Plan ==
    /\ phase = "planning"
    /\ \E ts \in SUBSET Universe, fs \in SUBSET Families :
          /\ plan' = [tickers |-> ts, families |-> fs]
          /\ stage' = [t \in Universe |-> IF t \in ts THEN "loading" ELSE "idle"]
          /\ rest' = [t \in Universe |-> IF t \in ts THEN fs ELSE {}]
    /\ ScheduleBrowser
    /\ UNCHANGED <<asking, others, family, specs, results>>

-----------------------------------------------------------------------------
(* The analyst of a ticker.                                                *)
Becomes(t, s) == stage' = [stage EXCEPT ![t] = s]

(* load_prices: too few prices are a failure.                              *)
LoadPrices(t) ==
    /\ stage[t] = "loading"
    /\ Becomes(t, "loaded")
    /\ UNCHANGED <<phase, plan, browserVars, poolVars, rest, family, specs, results>>

(* The next family; its specs come from the screener, in a thread, or from *)
(* the tool generate_hypotheses.                                           *)
NextFamily(t) ==
    /\ stage[t] = "loaded"
    /\ \E f \in rest[t] :
          /\ rest' = [rest EXCEPT ![t] = @ \ {f}]
          /\ family' = [family EXCEPT ![t] = f]
          /\ Becomes(t, IF f \in Screened THEN "screening" ELSE "generating")
    /\ UNCHANGED <<phase, plan, browserVars, poolVars, specs, results>>

Specify(t, n) ==
    /\ specs' = [specs EXCEPT ![t] = n]
    /\ Becomes(t, "testing")
    /\ UNCHANGED <<phase, plan, browserVars, poolVars, rest, family, results>>

(* screen_momentum returns its best parameters.                            *)
Screen(t) ==
    /\ stage[t] = "screening"
    /\ \E n \in 1..MaxSpecs : Specify(t, n)

(* It finds none: the hypotheses are generated.                            *)
ScreenEmpty(t) ==
    /\ stage[t] = "screening"
    /\ Becomes(t, "generating")
    /\ UNCHANGED <<phase, plan, browserVars, poolVars, rest, family, specs, results>>

(* generate_hypotheses; without any, one default spec is left.             *)
Generate(t) ==
    /\ stage[t] = "generating"
    /\ \E n \in 1..MaxSpecs : Specify(t, n)

(* backtest_one; an error it reports drops this spec only.                 *)
Backtest(t) ==
    /\ stage[t] = "testing"
    /\ specs' = [specs EXCEPT ![t] = @ - 1]
    /\ \/ results' = [results EXCEPT ![t] = @ \cup {family[t]}]
       \/ UNCHANGED results
    /\ Becomes(t, IF specs[t] = 1 THEN "loaded" ELSE "testing")
    /\ UNCHANGED <<phase, plan, browserVars, poolVars, rest, family>>

Analysed(t) ==
    /\ stage[t] = "loaded"
    /\ rest[t] = {}
    /\ Becomes(t, "ok")
    /\ UNCHANGED <<phase, plan, browserVars, poolVars, rest, family, specs, results>>

(* A tool or the screener raises, or prices are missing.                   *)
AnalystFails(t) ==
    /\ stage[t] \in {"loading", "screening", "generating", "testing"}
    /\ Becomes(t, "failed")
    /\ UNCHANGED <<phase, plan, browserVars, poolVars, rest, family, specs, results>>

-----------------------------------------------------------------------------
(* BrowserAgent.research: three calls, the errors of which it swallows.    *)
Researching == browser \in {"pooled", "running"}

Similar ==
    /\ Researching /\ asking = "similar"
    /\ asking' = "info"
    /\ UNCHANGED <<phase, plan, browser, dropped, poolVars, analystVars>>

TickerInfo ==
    /\ Researching /\ asking = "info"
    /\ asking' = "tested"
    /\ UNCHANGED <<phase, plan, browser, dropped, poolVars, analystVars>>

CountTested ==
    /\ Researching /\ asking = "tested"
    /\ browser' = "done"
    /\ UNCHANGED <<phase, plan, asking, dropped, poolVars, analystVars>>

(* The done callback of the task.                                          *)
Discard ==
    /\ slot /\ browser = "done"
    /\ slot' = FALSE
    /\ UNCHANGED <<phase, plan, browserVars, others, analystVars>>

-----------------------------------------------------------------------------
(* gather(..., return_exceptions=True), then the browser is awaited: the   *)
(* second coroutine, made because the first found no room, starts now.     *)
GatherAnalysts ==
    /\ phase = "analysing"
    /\ \A t \in plan.tickers : stage[t] \in {"ok", "failed"}
    /\ phase' = "browsing"
    /\ browser' = IF browser = "unstarted" THEN "running" ELSE browser
    /\ UNCHANGED <<plan, asking, dropped, poolVars, analystVars>>

(* Mutant: the context is collected only from a task. *)
CollectPooled ==
    /\ phase = "browsing"
    /\ browser = "done" /\ slot
    /\ phase' = IF \E t \in plan.tickers : stage[t] = "failed" THEN "failed" ELSE "reviewing"
    /\ UNCHANGED <<plan, browserVars, poolVars, analystVars>>

(* Mutant: the results of the analysts that succeeded are enough. *)
CollectSome ==
    /\ phase = "browsing"
    /\ browser = "done"
    /\ phase' = IF \A t \in plan.tickers : stage[t] = "failed" THEN "failed" ELSE "reviewing"
    /\ UNCHANGED <<plan, browserVars, poolVars, analystVars>>

(* The context is there; any error of an analyst fails the team.           *)
Collect ==
    /\ phase = "browsing"
    /\ browser = "done"
    /\ phase' = IF \E t \in plan.tickers : stage[t] = "failed" THEN "failed" ELSE "reviewing"
    /\ UNCHANGED <<plan, browserVars, poolVars, analystVars>>

NoResults == \A t \in plan.tickers : results[t] = {}

(* ReviewerAgent.validate calls validate_portfolio, whose errors it        *)
(* swallows; then the writer fails if there are no results.                *)
Review ==
    /\ phase = "reviewing"
    /\ phase' = IF NoResults THEN "failed" ELSE "insights"
    /\ UNCHANGED <<plan, browserVars, poolVars, analystVars>>

(* WriterAgent.write: two tools, the errors of which go to the caller.     *)
Insights ==
    /\ phase = "insights"
    /\ phase' \in {"narrating", "raised"}
    /\ UNCHANGED <<plan, browserVars, poolVars, analystVars>>

Narrate ==
    /\ phase = "narrating"
    /\ phase' \in {"ok", "raised"}
    /\ UNCHANGED <<plan, browserVars, poolVars, analystVars>>

-----------------------------------------------------------------------------
Team == Plan \/ PlanFails \/ GatherAnalysts \/ Collect \/ Review \/ Insights \/ Narrate

Browse == Similar \/ TickerInfo \/ CountTested

Analyse(t) ==
    \/ LoadPrices(t) \/ NextFamily(t) \/ Screen(t) \/ ScreenEmpty(t) \/ Generate(t)
    \/ Backtest(t) \/ Analysed(t) \/ AnalystFails(t)

TeamNext ==
    \/ Team \/ Browse \/ Discard \/ OtherStarts \/ OtherEnds
    \/ \E t \in Universe : Analyse(t)

TeamSpec == TeamInit /\ [][TeamNext]_teamVars

(* Tools, threads and database calls return or raise.  Nothing is assumed  *)
(* of the other tasks.                                                     *)
Fairness ==
    /\ WF_teamVars(Team) /\ WF_teamVars(Browse) /\ WF_teamVars(Discard)
    /\ \A t \in Universe : WF_teamVars(Analyse(t))

TeamFairSpec == TeamSpec /\ Fairness

-----------------------------------------------------------------------------
TeamTypeOK ==
    /\ phase \in {"planning", "analysing", "browsing", "reviewing", "insights", "narrating"}
                   \cup Ends
    /\ plan \in [tickers : SUBSET Universe, families : SUBSET Families]
    /\ browser \in {"none", "pooled", "unstarted", "running", "done"}
    /\ asking \in {"similar", "info", "tested"}
    /\ dropped \in BOOLEAN
    /\ slot \in BOOLEAN
    /\ others \in 0..MaxTasks
    /\ Tasks <= MaxTasks
    /\ stage \in [Universe -> {"idle", "loading", "loaded", "screening", "generating",
                              "testing", "ok", "failed"}]
    /\ rest \in [Universe -> SUBSET Families]
    /\ family \in [Universe -> Families \cup {NoFamily}]
    /\ specs \in [Universe -> 0..MaxSpecs]
    /\ results \in [Universe -> SUBSET plan.families]

(* What the team says is just: a report rests on a complete analysis of    *)
(* every ticker and on at least one result, and a team fails for a reason  *)
(* of its own - no plan, an analyst, no result -, never because the pool   *)
(* was full or its browser found nothing.  Whatever failed, no analyst and *)
(* no browser that started is left running.  What may be left is the       *)
(* coroutine that a full pool refused: nobody awaits it, but then it never *)
(* ran either, and its successor runs in the team itself, so that there    *)
(* are never two searches, nor a slot that is held for the dropped one.    *)
OutcomeIsJust ==
    /\ phase \in {"insights", "narrating", "ok"} =>
          /\ \A t \in plan.tickers : stage[t] = "ok" /\ rest[t] = {}
          /\ ~NoResults
    /\ phase = "failed" =>
          \/ browser = "none" /\ \A t \in Universe : stage[t] = "idle"
          \/ \E t \in plan.tickers : stage[t] = "failed"
          \/ NoResults
    /\ phase \in Ends => /\ browser \in {"none", "done"}
                         /\ \A t \in Universe : stage[t] \in {"idle", "ok", "failed"}
    /\ dropped => ~slot /\ browser \in {"unstarted", "running", "done"}

(* A run ends, however full the pool stays, and gives its slot back.       *)
TeamEnds == <>[](phase \in Ends /\ ~slot)
=============================================================================
