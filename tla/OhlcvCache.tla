------------------------------ MODULE OhlcvCache ------------------------------
(***************************************************************************)
(* aqr/tools/core.py load_prices with aqr/data/ohlcv_cache.py and          *)
(* aqr/data/tinvest.py: prices are read through a cache on disk.  A load   *)
(* asks the cache for one ticker after the other, each time in a thread,   *)
(* then downloads what it missed, all tickers at once, and stores each     *)
(* answer as it comes.  One failure fails the load; what other tickers of  *)
(* it stored stays.                                                        *)
(*                                                                         *)
(* A candle is known by its place in time and by its state: the exchange   *)
(* gives it while it is Forming and again, with another close, when it is  *)
(* Final.  Reads and writes of the cache exclude each other by a lock of   *)
(* the process, so each is one step.                                       *)
(***************************************************************************)
EXTENDS Integers, FiniteSets

CONSTANTS Loads,     (* coroutines that run load_prices                    *)
          Tickers,
          LastBar,   (* bound: candles per ticker                          *)
          Opening,   (* the clock of the exchange at the start             *)
          MinRows,   (* MIN_CACHED_ROWS                                    *)
          Requests   (* bound: the windows and tickers a load may ask for  *)

ASSUME CacheAssumption ==
    /\ LastBar \in Nat
    /\ Opening \in 0..(2 * LastBar)
    /\ MinRows \in Nat \ {0}
    /\ Requests \in [Loads -> SUBSET [window : SUBSET (1..LastBar), tickers : SUBSET Tickers]]

VARIABLES now,      (* the clock of the exchange                           *)
          cache,    (* table ohlcv: per ticker and bar, its state or None  *)
          figis,    (* the tickers in TInvestAdapter._figi_cache           *)
          pc,       (* where a load is                                     *)
          window,   (* the bars from start_date to end_date                *)
          since,    (* when the load that is under way began               *)
          unchecked,(* tickers for which the cache is still to be asked    *)
          fetch,    (* per ticker: how far its download is                 *)
          series    (* cached_series and remote_series                     *)

vars == <<now, cache, figis, pc, window, since, unchecked, fetch, series>>

-----------------------------------------------------------------------------
None == 0
Forming == 1
Final == 2
States == {None, Forming, Final}

Bars == 1..LastBar
Rows == [Bars -> States]
NoRows == [b \in Bars |-> None]
Nothing == [t \in Tickers |-> NoRows]
Settled == {"none", "hit", "stored", "kept", "failed"}

(* What the exchange has at time c: bar b forms at 2b - 1 and is final     *)
(* from 2b on.                                                             *)
Traded(c, b) == IF c < 2 * b - 1 THEN None ELSE IF c = 2 * b - 1 THEN Forming ELSE Final

Within(rows, w) == [b \in Bars |-> IF b \in w THEN rows[b] ELSE None]

Count(rows) == Cardinality({b \in Bars : rows[b] # None})

Enough(rows) == Count(rows) >= MinRows

(* Mutant: a candle that still forms is taken for final. *)
CandlesRounded(w) == [b \in Bars |-> IF b \in w /\ Traded(now, b) # None THEN Final ELSE None]

(* The download: all candles in the window, the forming one included.      *)
Candles(w) == [b \in Bars |-> IF b \in w THEN Traded(now, b) ELSE None]

(* Mutant: rows of the ticker are replaced, not merged. *)
UpsertReplacing(old, new) == new

(* put_cache: INSERT ... ON CONFLICT DO UPDATE, whatever was there.        *)
Upsert(old, new) == [b \in Bars |-> IF new[b] # None THEN new[b] ELSE old[b]]

Init ==
    /\ now = Opening
    /\ cache = Nothing
    /\ figis = {}
    /\ pc = [l \in Loads |-> "idle"]
    /\ window = [l \in Loads |-> {}]
    /\ since = [l \in Loads |-> 0]
    /\ unchecked = [l \in Loads |-> {}]
    /\ fetch = [l \in Loads |-> [t \in Tickers |-> "none"]]
    /\ series = [l \in Loads |-> Nothing]

-----------------------------------------------------------------------------
(* Time passes at the exchange.                                            *)
Trade ==
    /\ now < 2 * LastBar
    /\ now' = now + 1
    /\ UNCHANGED <<cache, figis, pc, window, since, unchecked, fetch, series>>

(* load_prices is called; a load that ended may be tried again.            *)
Load(l) ==
    /\ pc[l] \in {"idle", "answered", "failed"}
    /\ \E r \in Requests[l] :
          /\ window' = [window EXCEPT ![l] = r.window]
          /\ unchecked' = [unchecked EXCEPT ![l] = r.tickers]
    /\ pc' = [pc EXCEPT ![l] = "checking"]
    /\ since' = [since EXCEPT ![l] = now]
    /\ fetch' = [fetch EXCEPT ![l] = [t \in Tickers |-> "none"]]
    /\ series' = [series EXCEPT ![l] = Nothing]
    /\ UNCHANGED <<now, cache, figis>>

(* get_cached: the rows inside the window, if there are enough of them.    *)
Checked(l, t) ==
    LET rows == Within(cache[t], window[l]) IN
    IF Enough(rows)
       THEN /\ series' = [series EXCEPT ![l][t] = rows]
            /\ fetch' = [fetch EXCEPT ![l][t] = "hit"]
       ELSE /\ fetch' = [fetch EXCEPT ![l][t] = "missed"]
            /\ UNCHANGED series

(* The thread of one ticker.                                               *)
Check(l) ==
    /\ pc[l] = "checking"
    /\ \E t \in unchecked[l] :
          /\ unchecked' = [unchecked EXCEPT ![l] = @ \ {t}]
          /\ Checked(l, t)
    /\ UNCHANGED <<now, cache, figis, pc, window, since>>

Missed(l) == {t \in Tickers : fetch[l][t] = "missed"}

(* All tickers are in the cache, or the downloads of the others start.     *)
(* Each looks into the map of FIGIs before it suspends.                    *)
Download(l) ==
    /\ pc[l] = "checking"
    /\ unchecked[l] = {}
    /\ pc' = [pc EXCEPT ![l] = IF Missed(l) = {} THEN "answered" ELSE "fetching"]
    /\ fetch' = [fetch EXCEPT ![l] = [t \in Tickers |->
          IF t \notin Missed(l) THEN @[t] ELSE IF t \in figis THEN "asking" ELSE "resolving"]]
    /\ since' = [since EXCEPT ![l] = IF Missed(l) = {} THEN 0 ELSE @]
    /\ UNCHANGED <<now, cache, figis, window, unchecked, series>>

(* The cache cannot be read, or there is no token for T-Invest.            *)
LoadFails(l) ==
    /\ pc[l] = "checking"
    /\ \/ unchecked[l] # {}
       \/ Missed(l) # {}
    /\ pc' = [pc EXCEPT ![l] = "failed"]
    /\ since' = [since EXCEPT ![l] = 0]
    /\ unchecked' = [unchecked EXCEPT ![l] = {}]
    /\ series' = [series EXCEPT ![l] = Nothing]
    /\ UNCHANGED <<now, cache, figis, window, fetch>>

(* _resolve_figi after find_instrument, of a ticker that is known there.   *)
Resolve(l, t) ==
    /\ fetch[l][t] = "resolving"
    /\ fetch' = [fetch EXCEPT ![l][t] = "asking"]
    /\ figis' = figis \cup {t}
    /\ UNCHANGED <<now, cache, pc, window, since, unchecked, series>>

(* T-Invest answers get_candles: the answer is on its way.                 *)
Serve(l, t) ==
    /\ fetch[l][t] = "asking"
    /\ series' = [series EXCEPT ![l][t] = Candles(window[l])]
    /\ fetch' = [fetch EXCEPT ![l][t] = "arrived"]
    /\ UNCHANGED <<now, cache, figis, pc, window, since, unchecked>>

(* The ticker is unknown, or a call of T-Invest raises: there is no second *)
(* attempt.                                                                *)
CallFails(l, t) ==
    /\ fetch[l][t] \in {"resolving", "asking"}
    /\ fetch' = [fetch EXCEPT ![l][t] = "failed"]
    /\ UNCHANGED <<now, cache, figis, pc, window, since, unchecked, series>>

(* Mutant: the answer is what the cache holds after the write. *)
StoreReread(l, t) ==
    /\ fetch[l][t] = "arrived"
    /\ Enough(series[l][t])
    /\ \E k \in 0..LastBar :
          /\ cache' = [cache EXCEPT ![t] = Upsert(@, Within(series[l][t], 1..k))]
          /\ fetch' = [fetch EXCEPT ![l][t] = IF k = LastBar THEN "stored" ELSE "kept"]
    /\ series' = [series EXCEPT ![l][t] = Within(cache'[t], window[l])]
    /\ UNCHANGED <<now, figis, pc, window, since, unchecked>>

(* The answer is stored.  A write that fails is only logged and may leave  *)
(* the rows it had written.                                                *)
Store(l, t) ==
    /\ fetch[l][t] = "arrived"
    /\ Enough(series[l][t])
    /\ \E k \in 0..LastBar :
          /\ cache' = [cache EXCEPT ![t] = Upsert(@, Within(series[l][t], 1..k))]
          /\ fetch' = [fetch EXCEPT ![l][t] = IF k = LastBar THEN "stored" ELSE "kept"]
    /\ UNCHANGED <<now, figis, pc, window, since, unchecked, series>>

(* An answer that is too short is an error.                                *)
TooShort(l, t) ==
    /\ fetch[l][t] = "arrived"
    /\ ~Enough(series[l][t])
    /\ fetch' = [fetch EXCEPT ![l][t] = "failed"]
    /\ UNCHANGED <<now, cache, figis, pc, window, since, unchecked, series>>

(* The downloads of a load are over: it answers, or raises.                *)
Ended(l, failed) ==
    /\ pc[l] = "fetching"
    /\ \A t \in Tickers : fetch[l][t] \in Settled
    /\ pc' = [pc EXCEPT ![l] = IF failed THEN "failed" ELSE "answered"]
    /\ since' = [since EXCEPT ![l] = 0]
    /\ series' = [series EXCEPT ![l] = IF failed THEN Nothing ELSE @]
    /\ UNCHANGED <<now, cache, figis, window, unchecked, fetch>>

(* Mutant: the tickers that succeeded are answered without the others. *)
GatherAny(l) == Ended(l, \A t \in Tickers : fetch[l][t] \in {"none", "failed"})

(* gather is done when every download is; one failure fails the load.      *)
Gather(l) == Ended(l, \E t \in Tickers : fetch[l][t] = "failed")

(* The process starts anew: the cache is on disk, the FIGIs were not.      *)
Restart ==
    /\ figis' = {}
    /\ pc' = [l \in Loads |-> "idle"]
    /\ window' = [l \in Loads |-> {}]
    /\ since' = [l \in Loads |-> 0]
    /\ unchecked' = [l \in Loads |-> {}]
    /\ fetch' = [l \in Loads |-> [t \in Tickers |-> "none"]]
    /\ series' = [l \in Loads |-> Nothing]
    /\ UNCHANGED <<now, cache>>

-----------------------------------------------------------------------------
Fetch(l, t) == \/ Resolve(l, t) \/ Serve(l, t) \/ Store(l, t) \/ TooShort(l, t)

Next ==
    \/ Trade
    \/ Restart
    \/ \E l \in Loads :
          \/ Load(l) \/ Check(l) \/ Download(l) \/ LoadFails(l) \/ Gather(l)
          \/ \E t \in Tickers : Fetch(l, t) \/ CallFails(l, t)

Spec == Init /\ [][Next]_vars

-----------------------------------------------------------------------------
(* Types; neither the cache nor a load knows a candle, or a state of one,  *)
(* that the exchange has not given yet.                                    *)
TypeOK ==
    /\ now \in Opening..(2 * LastBar)
    /\ cache \in [Tickers -> Rows]
    /\ figis \subseteq Tickers
    /\ pc \in [Loads -> {"idle", "checking", "fetching", "answered", "failed"}]
    /\ window \in [Loads -> SUBSET Bars]
    /\ since \in [Loads -> 0..now]
    /\ unchecked \in [Loads -> SUBSET Tickers]
    /\ fetch \in [Loads -> [Tickers ->
                    Settled \cup {"missed", "resolving", "asking", "arrived"}]]
    /\ series \in [Loads -> [Tickers -> Rows]]
    /\ \A t \in Tickers, b \in Bars : cache[t][b] <= Traded(now, b)

(* All or nothing: whatever fails for whichever ticker, a load that        *)
(* answers gives every ticker it was asked for, with enough candles, all   *)
(* of them inside its window.                                              *)
AnswersComplete ==
    \A l \in Loads :
        pc[l] = "answered" =>
            /\ unchecked[l] = {}
            /\ \A t \in Tickers : fetch[l][t] # "none" => Enough(series[l][t])
            /\ \A t \in Tickers, b \in Bars : series[l][t][b] # None => b \in window[l]

(* What was downloaded is at least as new as the load: whatever slower     *)
(* loads write to the cache meanwhile, no candle that the exchange had     *)
(* when the load began is missing from the answer or older in it.          *)
FreshWhenDownloaded ==
    \A l \in Loads, t \in Tickers :
        pc[l] = "fetching" /\ fetch[l][t] \in {"stored", "kept"} =>
            \A b \in window[l] : series[l][t][b] >= Traded(since[l], b)

(* What one ticker stored survives the failure of the others and every     *)
(* other load: a retry of the load finds it in the cache.                  *)
StoredMeansHit ==
    \A l \in Loads, t \in Tickers :
        fetch[l][t] = "stored" => Enough(Within(cache[t], window[l]))
=============================================================================
