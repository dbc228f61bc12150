# pigeon-trade: models and proofs

pigeon-trade is an LLM-driven research service. A user asks for a study of a ticker in a chat or
over REST; a pipeline plans it, loads prices, generates and backtests hypotheses, lets a reviewer and
a narrator (LLM calls) comment on the result, and stores run and hypotheses in Postgres. Other pages
follow a run over an event stream, and share an explore view with a pessimistic lock.

Everything runs in one Python process on one asyncio event loop. Two coroutines interleave only where
one of them really suspends. The models use this: an action is the code between two suspension points,
and the comment at the head of each module says where these are.

## The system

| Component | State | Operations | Talks to |
| --- | --- | --- | --- |
| Event bus (`aqr/pipeline/events.py`) | history, subscriber queues, owner, done flag and end time of every run | `register_run`, `publish` (prunes, trims, fans out), `subscribe` (a generator), `owns` | executor publishes; `stream_run` subscribes |
| Run lifecycle (`pipeline/api.py`, `pipeline/executor.py`, `background.py`, `session.py`, `main.py`) | row and hypotheses of a run, pool of background tasks, place of request and task | `start_run`, `PipelineExecutor.run`, `_run_and_persist`, `schedule`, `drain` | bus, database, LLM calls, T-Invest |
| LLM credentials (`llm_env.py`, `pipeline/planner.py`, `narrator.py`, `reviewer.py`) | five variables of `os.environ`, one `asyncio.Lock`, credentials of a session in a ContextVar | `resolve_llm_credentials`, `acquire_llm_env_lock`, `llm_env_override` | litellm reads `os.environ` |
| Explore presence (`explore/presence.py`, `explore/api.py`, `explore/templates/explore.html`) | locks, sessions, stream queues, cleanup task; marks of the pages | `heartbeat`, `lock`, `unlock`, `subscribe`, `_cleanup_loop` | pages over SSE and REST |
| Chat session (`chat/ws.py`, `graph/graph.py`, `graph/context.py`, `chat/templates/chat.html`) | socket, credentials of the handshake, message history, graph state, what the page shows | receive loop, graph run and its repetition, save and load of messages | settings, registry, tools, pages over a WebSocket |
| Settings and rate limit (`chat/web.py`, `crypto.py`, `auth.py`) | token of a session, its rows in `sessions` and `session_settings`, token buckets | `chat_new`, `settings_page`, `settings_save`, `_rate_limit_consume` | registry |
| Registry (`registry/store.py`, `models.py`, `embeddings.py`) | Postgres tables | get-or-create session, create and update run, add hypotheses, messages, settings | all of the above |
| Market data (`data/tinvest.py`, `data/ohlcv_cache.py`, `tools/core.py`) | candles on disk, map of FIGIs | `load_prices`: ask the cache per ticker, download the misses, store | executor, agent team, graph |
| Hypotheses and validation (`pipeline/hypotheses.py`, `tools/core.py`, `executor/nautilus.py`, `validation/`) | none | signals, backtests, paths of CPCV, DSR, PBO, reality check | executor, agent team |
| Agent team (`agents/`) | five steps, one analyst per ticker, a browser task | plan, browse, analyse, review, write | pool, tools |
| Tool registry and MCP, startup, screener, migrations and pages | dictionaries filled once, or none | lookups, checks | |

### What is hard

- A stream joins a run that goes on publishing: history and live events must fit together, limits drop
  events on both sides, and any other run's `publish` prunes a finished run under its readers.
- A run is accepted in one transaction, executed by a task and saved in another. The stream says `done`
  before the second one commits; the database, the pool, the shutdown and the process can each fail in
  between.
- Credentials travel through process-wide variables that several sessions need at the same time.
- Locks expire, are renewed and are given back while streams open, break and reconnect.
- A chat message is stored, run, perhaps run again, answered and stored, while its client may leave at any
  point and other sockets write to the same history and run with other credentials.
- Downloads of one load run at once, fail one by one, and store what they got under other loads.
- Requests of one session check and insert, read and update rows at the same time.
- The agent team shares the pool with everything else, and its browser runs as a task or, when the pool
  refused it, in place.
- A backtest must not see the future, in four families of signals and at every border of a fold.

`PROJECT.json` lists every hazard at its line together with the properties that watch it.

### What makes each component correct

- Bus: a stream is given every event once and in order unless a limit took it away; a run is kept
  while it goes on and for its retention period; a stream whose client stays ends.
- Lifecycle: the table never contradicts the stream; the pool is bounded and holds every task that
  runs; an accepted run settles unless the process stops or the database fails.
- Credentials: calls do not overlap, each sees its own key only, the environment is restored however a
  call ends, and the lock is fair.
- Presence: pages converge to the locks there are; a holder keeps its lock until it gives it back or
  lets it expire; abandoned locks and sessions disappear.
- Chat: a question is recorded at most once and its answer at most once and after it; pages show what is
  stored, in its order; a run uses the credentials of its session; who stays is answered.
- Cache: a load answers every ticker with enough candles of its window, or fails; what it downloaded is not
  older than itself; what was stored is found again.
- Rate limit: in any stretch of time an address gets at most a full bucket and its refill.
- Settings: the keys of a session are those of one save; a token belongs to a committed session.
- Team: its outcome has its reason, nothing is left running, and it ends.
- Validation: a backtest is what a trader who does not know the future would have earned; a path learns
  nothing from what it tests, and uses all else.

## Modules

| Module | Models | State and actions in the code |
| --- | --- | --- |
| `EventFeed` | what a reader of a run may rely on | abstract: `published`, `cursor`, `lossy` |
| `EventBus` | `EventBus` of `events.py` | maps as functions on runs; `Publish` is one burst of `publish` calls without a suspension in between; a stream is the generator with its place (`pc`), the rest of its snapshot and its queue |
| `RunRecord` | what the runs table may do to a run | abstract: `status` and `hypotheses` |
| `RunLifecycle` | request, task, pool, table, process | `request` and `task` are places between awaits; `db` and `hypotheses` are committed, `batch` is flushed only; `Crash`, `Shutdown`, `DrainTimeout`, `Restart` are the process |
| `LlmEnv` | the shared environment and its lock | `env` is `os.environ` on five variables; `Call`, `Granted`, `Send`, `Leave`, `CancelWaiting` are the suspensions of a call |
| `Presence` | `PresenceTracker` and the marks of the explore page | ages instead of timestamps; `Load`/`Reconnect`, `ListLocks`, `Receive`, `Disconnect` are the generator between its yields; `Marked` is `handleSSEMessage` |
| `Dialogue` | what the stored history of a chat promises | abstract: `log` and `lost` |
| `ChatSession` | `chat_ws`, the graph it streams, `chat_messages`, settings and the page | `pc` is the handler between awaits; `active` is the ContextVar in its task; `last` is the step in `last_state`; `SaveQuestion`, `Node*`, `Rerun*`, `StoreAnswer` are `_run_agent_for_session` and `_run_agent_inner`; `Shown` is `handleServerMessage` |
| `OhlcvCache` | `load_prices`, `OhlcvCache`, `TInvestAdapter` | `pc` is a load between awaits, `fetch` each of its downloads; a read or write of DuckDB is one step, since a process lock serializes them; `cache` survives `Restart`, `figis` does not |
| `TokenBucket` | what a rate limit promises | abstract: `level` |
| `RateLimit` | `_rate_buckets` of `web.py` | `tokens` and `age` are the pair stored per address; `Accept`, `Refuse` are the two ends of `_rate_limit_consume`, with `_prune_rate_buckets` |
| `SessionSettings` | `/chat/new` and `/chat/{token}/settings` on Postgres | `pc` is a request between database calls; `sessions`, `settings` are committed, `loaded` is what a transaction read, `pending` what it flushed; an UPDATE writes the attributes that changed |
| `AgentTeam` | `run_team` and its agents | `phase` is `run_team` between awaits, `stage` the analyst of a ticker, `browser`, `asking`, `slot` the browser and its place in the pool, `dropped` a coroutine of it that the pool refused; `others` are all other tasks |
| `PurgedFolds` | `CombinatorialPurgedCV.split` | the generator, with `train` as `train_mask`; `Purge` and `Embargo` go around the tested blocks one by one |
| `Hypotheses` | the four families of signals | operators on a series of integer prices, exact |
| `Trader` | what a backtest promises | abstract: the account of a trader who decides before each bar |
| `Backtest` | `backtest_one`, `_cpcv_sharpe`, `execute_with_slippage` | `prices` grows bar by bar so that a series can be compared with its beginnings; then a verdict, and for `backtest_one` the paths of `PurgedFolds` |
| `*Proofs` | theorems about the module of that name; `BacktestProofs` also about `PurgedFolds` and `Hypotheses`, `AgentTeamProofs` also about `OhlcvCache`, `SettingsProofs` about `SessionSettings` and `RateLimit` | |
| `MC*` | instances for TLC | |

`EventBus` implements `EventFeed`, `RunLifecycle` implements `RunRecord`, `ChatSession` implements
`Dialogue`, `RateLimit` implements `TokenBucket` and `Backtest` implements `Trader`; the refinements are
checked by TLC and proved. `Backtest` is composed of `Hypotheses` and `PurgedFolds`. Operators marked "Mutant"
are variants of the definition that follows them; no specification uses them.

Abstractions. An event is a kind and a number, a key is named by its owner, a hypothesis is only counted.
`RunLifecycle` keeps of the bus only whether a run's entry is open and how it ended; progress events and
pruning are in `EventBus`. JSON, prompts, logging and the numbers a backtest yields are left out. A row
written by one `UPDATE` in a transaction becomes visible with its commit; a commit may fail after it took
effect. In `Presence` what a stream yields reaches its page at once, because a page does nothing but apply
messages in order, and the names that heartbeats carry are left out.

In `ChatSession` a saved entry takes its place in the history in one step, although its `created_at` is set
at the flush just before the commit; settings are numbered, not spelled; texts are distinct, so that an entry
can be recognised. A message is chosen when the handler takes it, because what a client sends to a busy socket
waits in the socket. Pings, malformed and oversized messages are answered without a change of state and left
out, as are the data that nodes compute and the difference between the text that is stored (narrative and
insights) and the one that the page is sent with `done` (narrative). A page belongs to one socket: a browser
that reconnects is a new one. The router behind `respond` (`_llm_route`) is modelled with all it may answer;
it ends the run at once because `respond` always leaves the step `done`, so its LLM call is never made.

In `OhlcvCache` a candle is its place in time and whether it was final when it was given; the exchange is a
clock. The window of a load is a set of bars; rows of other timeframes are other tickers. `put_cache` runs on the event loop, so that no
other coroutine sees half of it; what a write that fails leaves is some first part of its rows, because
DuckDB executes the list row by row. A cancelled load is not modelled.

`RateLimit` counts time in the unit in which one unit flows into a bucket, so that a refill is exact; the code
computes with floating-point seconds. `Watch` starts the count of requests anew at any time, which makes
`RateBound` a statement about every stretch of time. How an address is found in the headers is left out.

`SessionSettings` takes Postgres at READ COMMITTED: the second transaction that inserts a key or updates a row
waits for the first, which is the guard of `InsertSession` and `Write`. Signature and encryption are library
calls; a Fernet token is a value together with the request that made it, because each one is different.
Tokens expire, and requests that already passed the check go on.

`AgentTeam` names a result by its family. The pool is seen as a number. The browser swallows its exceptions,
so each of its calls has one outcome; so does the reviewer. An exception of the writer reaches the caller
(`raised`, an HTTP 500), that of any other agent becomes an error of the team (`failed`).

In `Hypotheses` prices are integers that divide `Scale`, so that returns are integers; comparisons with means and
deviations are multiplied out, and the square root of the z-score by comparing squares. In `PurgedFolds` an
observation is its position. The statistics (Sharpe ratio, DSR, drawdown) are left out of `Backtest`: its
verdict says only whether there is a score. The loop of `_breakout`, which carries a position on, is written as
the last break there was.

## Runs

| Run | Shows | Bounds |
| --- | --- | --- |
| `event_bus` | order, completeness, retention, refinement and termination of streams | two runs, one of them prunes the other; one stream; two progress events against a history of 3 and a queue of 2, so that both overflow; two ticks against a retention of one |
| `run_lifecycle` | the limit of the pool (`TypeOK`), table against stream, feeds, refinement, settling | two runs compete for one slot; a plan of two hypotheses against a top of one; one restart |
| `llm_env` | exclusion, restoration, keys, service | two sessions and one call without a session; every subset of the five keys in the process; one model with a key that the fallback finds and one (Gemini) that it does not |
| `llm_env_borrowed` | violated: "без гонки между сессиями" | one session, one call without |
| `presence` | convergence of pages, locks stay with their holder | two sessions, two hypotheses, one page; calls stop while the page has two unread messages, a sweep may add three |
| `presence_fair` | expiry of locks and disappearance of sessions (`StaleGoes`) | the same with one hypothesis, a lock that outlives a session |
| `chat` | one record per question and answer, order of pages, credentials | two sockets, of one session or two; two messages, so four entries against a history of three; settings saved once per session |
| `cache` | complete and fresh answers, what was stored is found | two loads that overlap, of two tickers and of one, with windows of three and of two out of three candles of which two are enough; the market starts with one final and one forming candle |
| `rate_limit` | bound in every stretch of time, forgetting is unnoticed | two addresses; buckets of two requests, forgotten as early as the assumption allows; stretches of up to six units |
| `settings` | keys of one save, tokens of committed sessions, uniqueness | three requests, one session of the app and one with a foreign token; forms that differ in the model, in a key, or not |
| `team` | outcome, nothing left over, termination | two tickers, one screened and one other family, two specs each; a pool of one slot, which others may hold for ever |
| `backtest` | no look-ahead in signals and folds, no waste | all series of up to six bars of two prices, windows of one and three, with and without costs; all labels of up to six observations that reach up to two further, four blocks of which two are tested |

Why these bounds are enough. Streams share only the subscriber sets, which the proofs cover for any number,
so one stream shows what a stream can meet; likewise one page, and one hypothesis for the liveness run,
since rows do not influence each other except through the sweep and the list of locks, which the run with
two has. Two sockets show what one session's sockets and two sessions' sockets do to each other. Two loads and
three requests are enough for every pair to race while a third comes late; analysts share nothing, so two show
that one fails while another goes on. Six observations in four blocks leave a remainder for the last block, and fewer than
four leave blocks empty; six bars hold two windows of three, so that positions are carried and turned. Limits
are small enough that every queue, history, pool and age reaches them. Clocks are bounded in `EventBus` (two
retention periods), `OhlcvCache` (the last candle) and `RateLimit` (the stretch that is watched), and unbounded
in `Presence`. The safety properties hold beyond these instances by the proofs below; only the liveness properties
rest on these bounds.

Deadlock is checked in `LlmEnv`, `Presence`, `OhlcvCache` and `RateLimit`, which never stop. It is not in the
other runs: streams end, requests are answered, sockets are closed, teams and backtests finish, and a process
may stay down.

### Findings

`llm_env_borrowed`: credentials are resolved before the lock is taken. A run started over REST while a chat
session's call holds the override picks up that session's key.

Other places where code and text differ, read while modelling and kept in the models as the code has them:

- `pipeline/events.py:144`: `subscribe` reads the done flag after it yielded a snapshot that is older than the
  flag; a stream opened shortly before the end of a run closes without the terminal event the docstring names.
- `background.py:51`: when the drain times out, `wait_for` cancels the gather and so every task in it, although
  the comment says the tasks go on. The rows stay `running`, and nothing looks for them at startup.
- `agents/orchestrator.py:96` and `pipeline/api.py:106`: at the limit of the pool `schedule` raises before it makes a
  task, and the coroutine it was given is dropped, never awaited (Python warns of it). It has not started, so nothing
  of it runs; the team makes a second one (`dropped` in `AgentTeam`), the request answers 503.
- `pipeline/api.py:220`: a hypothesis whose embedding failed is skipped silently; the comment relies on a fallback
  that the embedder no longer has.
- `explore/presence.py:101`: an empty list of locks is not sent, so that a page that reconnects after the last
  unlock keeps its rows marked.
- `chat/ws.py:199`: an open socket keeps the credentials of its handshake, although the documentation of
  `SessionSettings` says they are read for every message.
- `tools/core.py:25`: the comment takes a hundred cached candles for a complete series; a window of a year of
  which half is cached is answered with that half.
- `README.md:135` speaks of retries and a circuit breaker for T-Invest; `tools/core.py:139` has one attempt.
- `registry/store.py:268`: two saves of one session at once may leave the model of one with the keys of the other.
- `validation/cpcv.py:36` refuses more blocks than observations in `_get_test_ranges`, which only tests call; `split`
  does not, and then purges everything.
- `agents/reviewer.py:86` reads `pbo_verdict` from a tool that answers `verdict`; `agents/analyst.py:172` has default
  parameters with names that `make_one_with_params` does not know, so that such a spec fails the team.

## Fairness

- `EventBus`: a registered run publishes its end (every exception of the pipeline is caught and reported), and
  the event loop resumes a generator whose client reads. `Disconnect` and time are not fair.
- `RunLifecycle`: calls that a handler or task awaits return or raise - an assumption about LLM, T-Invest and the
  database, because the clients set no timeouts of their own -, the event loop resumes the coroutine and runs done callbacks. No fairness for requests,
  shutdown, crash or restart. Which branch is taken is left open, so a run may fail at every step.
- `LlmEnv`: the waiter that `release` woke is resumed; a call is answered or times out. Nobody has to call.
- `Presence`: time passes, the cleanup task wakes up, a stream with a reader goes on. Nobody has to send
  heartbeats, connect or stay.

- `AgentTeam`: tools, threads and database calls return or raise, done callbacks run. Nothing is assumed of the
  other tasks, which may fill the pool for ever, nor of the outcome of a call.
- `ChatSession`, `OhlcvCache`, `RateLimit`, `SessionSettings` and `Backtest` state no fairness: their properties are
  safety.

All of it is weak fairness on actions of one coroutine or task.

## Proofs

TLAPS proves these for every value of the constants, from the assumptions named in the modules
(`BusAssumption`, `LifecycleAssumption`, `EnvAssumption`, `PresenceAssumption`, `ChatAssumption`, `RateAssumption`,
`SettingsAssumption`, `CacheAssumption`, `TeamAssumption`, `FoldsAssumption`, `HypothesesAssumption`,
`BacktestAssumption`). Together they cover every invariant, every action property and every refinement that a passing
run checks. Each module of proofs has its inductive invariant in a theorem of its own (`Invariance`,
`CacheInvariance`, ...), from which the others are drawn.

- `EventBusProofs`: `OrderedDelivery` and `NoEventLost` are not inductive, because they do not say what a
  history holds. `IInv` adds that a history is the newest, consecutively numbered part of what its run
  published (`RunInv`), that the place of a stream fixes its membership (`PlaceInv`), that what a stream holds
  rises and stays below what was published (`OrderInv`), and that a stream that hit no bound holds the very
  next events (`CompleteInv`). From it follow the types and bounds, order, completeness, subscribers,
  retention, and that every step is one of `EventFeed`.
- `RunLifecycleProofs`: `IInv` ties each place of the request and the task to the row, the feed and the pool.
  From it follow the bound and completeness of the pool, that a task finds its row, that the table agrees
  with the stream, that feeds close, and that the table implements `RunRecord`.
- `LlmEnvProofs`: the queue holds exactly the waiting callers, once each (`QueueInv`); the lock is taken
  exactly while one caller is inside (`LockInv`); the environment is then that caller's override and what it
  saved is the ambient one (`EnvInv`); credentials of a session are its own (`CredsInv`). From it follow
  exclusion, restoration, separation of keys and first-come-first-served.
- `PresenceProofs`: a page is described by what it will show after reading its queue (`Final`). `FinalConcat`
  splits a queue, `Told` shows that a broadcast that reports every change keeps the promise; a page that was
  greeted but not yet sent the list is measured against the list it would be sent now (`PageInv`). From it
  follow convergence, the types and that a lock stays with its holder.
- `ChatSessionProofs`: a message that is worked on belongs to one socket, its answer is new and its question
  recorded (`LogInv`); the place of a handler fixes its credentials and, before it stores, that its run ended
  with an answer or a failed send (`PlaceInv`); a page is backed by the history and agrees with its order
  (`PageInv`, kept by three lemmas on how log and page grow). From it follow all safety properties of the run,
  and that every save is a record of `Dialogue`.
- `SettingsProofs`, settings: a row that was flushed holds every key as its own request entered it, whatever its
  transaction had read; only one flushed row of a session exists at a time; a request that got past the
  session's transaction has a committed session.
- `SettingsProofs`, rate limit: `RateBound` becomes inductive as a conservation law: what was paid for and what is
  left in the bucket are together at most the capacity and the time that passed. Forgetting keeps it because a
  bucket that is older than `MaxAge` is full, which is what `MaxAge >= Capacity` in `RateAssumption` is for (300
  against 150 seconds in the code); the same fact maps every prune to a stutter of `TokenBucket`.
- `AgentTeamProofs`, cache: the place of a load fixes how far each of its downloads may be (`PlaceFetch`), and what
  it holds of a ticker lies in its window, was given by the exchange and, if it was downloaded, is not older than the
  load (`FetchInv`). A load decides by counting rows and reads them later; that this is safe rests on `StoreKeeps`: no
  write takes a candle away, of whatever ticker, so that a count only grows (`CandlesStay` says it of every step). From
  it follow the types, complete answers, freshness, and that what was stored is found.
- `AgentTeamProofs`, team: analysts work for tickers of the plan, all of them once the plan is made, and none is busy
  once the team has gone on, so that what it reported cannot change under the later steps (`AnalystInv`); the step of
  the team fixes where the browser may be and who may hold its slot, never for a coroutine that was dropped (`PhaseBrowser`, `BrowserInv`). From it follow
  the types with the bound of the pool, that the outcome has its reason, and that nothing changes after it.
- `BacktestProofs`: what was purged around a block stays out of `train` until the path is given out, so that the
  invariant says of each block that is no longer in `rest` what `NothingLeaks` says of all. `SignalsAreCausal`
  shows for each family that a signal reads only prices up to its bar; from it follow that appending a price
  leaves all earlier positions and returns as they were, and the refinement of `Trader`.
- `BacktestProofs`, `HistoryUsed`: with at least as many observations as blocks no block is empty (`BlockHasEnds`), so
  that what a block purges or embargoes overlaps its nearest observation or follows it too soon (`Explained`; the
  nearest one is the least of a finite set, `SmallestIs`). An observation was tested once for every combination with
  its block that was given out (`Counted`), and it has exactly one block (`OneBlock`, `SomeBlock`). Exchanging two
  blocks maps the combinations with the one to those with the other (`BlocksAreAlike`), so that all counts are equal.
  The same invariant bounds the number of paths a backtest has used, which is what `TypeOK` of `Backtest` needs.

The liveness properties are out of the prover's reach, but their safety halves are not: that nobody ever waits for
something that nobody is left to bring about. What TLC adds is that those who are left do move.

| Checked by TLC | Proved for every instance |
| --- | --- |
| `StreamEnds` | `StreamsDoNotHang`: a stream that waits for more of a run that has ended holds the end in its queue, unless its queue overflowed. The flag is read after the snapshot, and events published in between are in the queue. |
| `RunSettles` | `RunsAreNotStranded`: an answered run has a live task in the pool, or the end it reported is recorded, or its task was broken off. |
| `CallsAreServed` | `LockIsNotLost`: somebody is inside, or the lock is free and the first waiter may take it, whoever was cancelled. `QueueMovesUp`: no step puts a waiter further back. |
| `StaleGoes` | `PagesForgetTheGone`: the last a page was told of a session is that it is online only while the tracker knows the session and sweeps, so that the announcement of its end is still to come. |
| `TeamEnds` | `NobodyIsWaitedForInVain`: a team waits only for analysts that work or have ended and for a browser that runs or is done, also if the pool had no room for it. `NothingAfterTheEnd`. |

Some statements are proved and not checked by a run, because the runs are few: those of this table,
`SubscribersMatchStreams`, `PoolHoldsLiveTasks`, `TaskOwnsItsRow`, `FirstComeFirstServed`, `RunsGoForward`,
`StayedMeansAnswered`, `CandlesStay`.

Model-checked only:

- the liveness properties `StreamEnds`, `RunSettles`, `CallsAreServed`, `StaleGoes`, `TeamEnds` (the prover does not
  do liveness under fairness or `ENABLED`);
- the violated statement.

## Plan

Done: the modules above and the proofs of all their safety properties. What is left, in order of use:

1. Compositions: the embedder of a finishing run, which reads `OPENAI_API_KEY` outside the lock, and the runs of a
   chat session, each with `LlmEnv`; the agent team on `OhlcvCache`. Their proofs can start from the invariants of
   the parts.
2. The other half of the liveness arguments that is a safety property: a measure that every step of a coroutine
   lowers (`left`, the length of a queue, the families an analyst has to go), as an action property.
3. PBO on ranks instead of Sharpe ratios, which needs no floating point.

## Not modelled

- DSR, PBO and the reality check, the numbers of a backtest and the screener: floating-point statistics over
  third-party libraries, no control worth checking.
- gRPC client, MCP transport, tool registry: pure I/O or a dictionary filled once.
- Signature and encryption, and `require_session_id`, which keeps no state. Startup: sequential checks before the
  first request.
- `OhlcvCache.invalidate` and `stats`, `clear_figi_cache`, `delete_session_settings`, `purged_kfold_indices`: only
  tests or nothing call them.
- `PresenceTracker.remove` and `_get_locked_hyp_ids`: nothing calls them. (`remove` would wait for ever for the
  lock it holds.)
- The `myLock` flag of the notebook page, which is set without waiting for the answer.
- Migrations, templates other than the marks of the explore page, and thin read-only routes.
