--------------------------- MODULE AgentTeamProofs ----------------------------
(***************************************************************************)
(* The team of agents of aqr/agents, and the prices it loads through the   *)
(* cache of aqr/data/ohlcv_cache.py (load_prices of aqr/tools/core.py).    *)
(*                                                                         *)
(* That loads which overlap in any way answer completely, that what one    *)
(* downloads is not older than itself, and that what was stored is found   *)
(* again, for any tickers, windows and numbers of loads.  The argument: a  *)
(* write never takes a candle away, so what a load counted when it looked  *)
(* is still there when it reads; and a load never holds anything from      *)
(* outside its window.                                                     *)
(*                                                                         *)
(* And that a team ends with an outcome its agents justify, with nothing   *)
(* of it left running, for any universe, families and pool: no analyst is  *)
(* busy once the team has gone on, so what it reported can no longer       *)
(* change.                                                                 *)
(***************************************************************************)
EXTENDS AgentTeam, OhlcvCache, FiniteSetTheorems, TLAPS

(* How far the downloads of a load may be, by the place of the load.       *)
PlaceFetch(place) ==
    CASE place = "idle" -> {"none"}
      [] place = "checking" -> {"none", "hit", "missed"}
      [] place = "fetching" -> Settled \cup {"resolving", "asking", "arrived"}
      [] place = "answered" -> Settled \ {"failed"}
      [] place = "failed" -> Settled \cup {"missed"}

(* What a load holds of a ticker lies in its window, was given by the      *)
(* exchange and, if it was downloaded, after the load began.               *)
FetchInv(l, t) ==
    /\ fetch[l][t] \in PlaceFetch(pc[l])
    /\ \A b \in Bars :
          /\ series[l][t][b] # None => b \in window[l]
          /\ series[l][t][b] <= Traded(now, b)
    /\ fetch[l][t] \in {"hit", "stored", "kept"} /\ pc[l] # "failed" => Enough(series[l][t])
    /\ fetch[l][t] \in {"arrived", "stored", "kept"} =>
          \A b \in window[l] : series[l][t][b] >= Traded(since[l], b)
    /\ fetch[l][t] = "stored" => Enough(Within(cache[t], window[l]))

LoadInv(l) ==
    /\ unchecked[l] # {} => pc[l] = "checking"
    /\ \A t \in Tickers : FetchInv(l, t)

CacheIInv == TypeOK /\ \A l \in Loads : LoadInv(l)

-----------------------------------------------------------------------------
(* Operators on rows.                                                      *)
LEMMA TradedGrows ==
    ASSUME NEW b \in Bars, NEW c \in Nat, NEW d \in Nat, c <= d
    PROVE  /\ Traded(c, b) \in States
           /\ Traded(c, b) <= Traded(d, b)
           /\ Traded(0, b) = None
  BY CacheAssumption DEF Traded, None, Forming, Final, States, Bars

LEMMA RowType ==
    ASSUME NEW rows \in Rows, NEW b \in Bars
    PROVE  rows[b] \in States /\ rows[b] \in Nat /\ rows[b] >= None
  BY DEF Rows, States, None, Forming, Final

LEMMA CountMonotone ==
    ASSUME NEW few \in Rows, NEW more \in Rows,
           \A b \in Bars : few[b] # None => more[b] # None
    PROVE  /\ Count(few) \in Nat /\ Count(few) <= Count(more)
           /\ Enough(few) => Enough(more)
  <1> DEFINE F == {b \in Bars : few[b] # None}
             M == {b \in Bars : more[b] # None}
  <1>1. IsFiniteSet(Bars) BY CacheAssumption, FS_Interval DEF Bars
  <1>2. IsFiniteSet(M) BY <1>1, FS_Subset
  <1>3. F \in SUBSET M OBVIOUS
  <1>4. IsFiniteSet(F) /\ Cardinality(F) <= Cardinality(M) BY <1>2, <1>3, FS_Subset
  <1>5. Cardinality(F) \in Nat /\ Cardinality(M) \in Nat
    BY <1>2, <1>4, FS_CardinalityType
  <1>6. Count(few) = Cardinality(F) /\ Count(more) = Cardinality(M) BY DEF Count
  <1> HIDE DEF F, M
  <1> QED BY <1>4, <1>5, <1>6, CacheAssumption DEF Enough

LEMMA RowsType ==
    ASSUME NEW rows \in Rows, NEW new \in Rows, NEW w
    PROVE  /\ NoRows \in Rows
           /\ Within(rows, w) \in Rows
           /\ Upsert(rows, new) \in Rows
  BY DEF NoRows, Rows, Within, Upsert, States, None

(* A write never takes a candle away.                                      *)
Kept(old, new) == \A t \in Tickers, b \in Bars : old[t][b] # None => new[t][b] # None

LEMMA KeptEnough ==
    ASSUME NEW old \in [Tickers -> Rows], NEW new \in [Tickers -> Rows], Kept(old, new),
           NEW t \in Tickers, NEW w, Enough(Within(old[t], w))
    PROVE  Enough(Within(new[t], w))
  <1>1. old[t] \in Rows /\ new[t] \in Rows OBVIOUS
  <1>2. Within(old[t], w) \in Rows /\ Within(new[t], w) \in Rows
    BY <1>1, RowsType
  <1>3. \A b \in Bars : Within(old[t], w)[b] # None => Within(new[t], w)[b] # None
    BY DEF Kept, Within
  <1> QED BY <1>2, <1>3, CountMonotone

-----------------------------------------------------------------------------
(* What is not touched by a step stays good while time passes and the      *)
(* cache grows.                                                            *)
LEMMA FrameFetch ==
    ASSUME CacheIInv, NEW l \in Loads, NEW t \in Tickers,
           now' \in Nat, now <= now',
           cache' \in [Tickers -> Rows], Kept(cache, cache'),
           fetch'[l][t] = fetch[l][t], series'[l][t] = series[l][t],
           pc'[l] = pc[l], window'[l] = window[l], since'[l] = since[l]
    PROVE  FetchInv(l, t)'
  <1>1. FetchInv(l, t) BY DEF CacheIInv, LoadInv
  <1>2. /\ now \in Nat
        /\ cache \in [Tickers -> Rows]
        /\ series[l][t] \in Rows
    BY CacheAssumption DEF CacheIInv, TypeOK
  <1>3. ASSUME NEW b \in Bars PROVE series'[l][t][b] <= Traded(now', b)
    <2>1. series[l][t][b] \in Nat BY <1>2, RowType
    <2>2. Traded(now, b) \in Nat /\ Traded(now', b) \in Nat
          /\ Traded(now, b) <= Traded(now', b)
      BY <1>2, TradedGrows DEF States, None, Forming, Final
    <2>3. series[l][t][b] <= Traded(now, b) BY <1>1 DEF FetchInv
    <2> QED BY <2>1, <2>2, <2>3
  <1>4. fetch'[l][t] = "stored" => Enough(Within(cache'[t], window'[l]))
    BY <1>1, <1>2, KeptEnough DEF FetchInv
  <1>5. Enough(series[l][t])' <=> Enough(series[l][t])
    BY DEF Enough, Count
  <1> QED BY <1>1, <1>3, <1>4, <1>5 DEF FetchInv

LEMMA FrameLoad ==
    ASSUME CacheIInv, NEW l \in Loads,
           now' \in Nat, now <= now',
           cache' \in [Tickers -> Rows], Kept(cache, cache'),
           fetch'[l] = fetch[l], series'[l] = series[l], unchecked'[l] = unchecked[l],
           pc'[l] = pc[l], window'[l] = window[l], since'[l] = since[l]
    PROVE  LoadInv(l)'
  <1>1. \A t \in Tickers : FetchInv(l, t)' BY FrameFetch
  <1> QED BY <1>1 DEF CacheIInv, LoadInv

(* A step of load l that does not write to the cache.                      *)
LEMMA StepOfLoad ==
    ASSUME CacheIInv, TypeOK', NEW l \in Loads, UNCHANGED <<now, cache>>,
           \A m \in Loads \ {l} :
              /\ fetch'[m] = fetch[m] /\ series'[m] = series[m]
              /\ unchecked'[m] = unchecked[m] /\ pc'[m] = pc[m]
              /\ window'[m] = window[m] /\ since'[m] = since[m],
           LoadInv(l)'
    PROVE  CacheIInv'
  <1>1. /\ now' \in Nat /\ now <= now'
        /\ cache' \in [Tickers -> Rows] /\ Kept(cache, cache')
    BY CacheAssumption DEF CacheIInv, TypeOK, Kept
  <1>2. \A m \in Loads \ {l} : LoadInv(m)' BY <1>1, FrameLoad
  <1> QED BY <1>2 DEF CacheIInv

-----------------------------------------------------------------------------
LEMMA EmptyLoad ==
    ASSUME NEW l \in Loads, now \in Nat,
           pc[l] \in {"idle", "checking"},
           unchecked[l] # {} => pc[l] = "checking",
           fetch[l] = [t \in Tickers |-> "none"], series[l] = Nothing
    PROVE  LoadInv(l)
  <1>1. \A b \in Bars : Traded(now, b) \in {0, 1, 2}
    BY TradedGrows DEF States, None, Forming, Final
  <1> QED BY <1>1 DEF LoadInv, FetchInv, PlaceFetch, Nothing, NoRows, None

LEMMA CacheInit == Init => CacheIInv
  <1> SUFFICES ASSUME Init PROVE CacheIInv OBVIOUS
  <1>1. now \in Nat /\ now \in Opening..(2 * LastBar) BY CacheAssumption DEF Init
  <1>2. NoRows \in Rows BY DEF NoRows, Rows, States, None
  <1>3. \A t \in Tickers, b \in Bars : cache[t][b] <= Traded(now, b)
    <2>1. \A b \in Bars : Traded(now, b) \in {0, 1, 2}
      BY <1>1, TradedGrows DEF States, None, Forming, Final
    <2>2. \A t \in Tickers, b \in Bars : cache[t][b] = 0
      BY DEF Init, Nothing, NoRows, None
    <2> QED BY <2>1, <2>2
  <1>4. TypeOK BY <1>1, <1>2, <1>3 DEF Init, TypeOK, Nothing, Settled
  <1>5. \A l \in Loads : LoadInv(l)
    <2> SUFFICES ASSUME NEW l \in Loads PROVE LoadInv(l) OBVIOUS
    <2>1. /\ pc[l] = "idle" /\ unchecked[l] = {}
          /\ fetch[l] = [t \in Tickers |-> "none"] /\ series[l] = Nothing
      BY DEF Init
    <2> QED BY <1>1, <2>1, EmptyLoad
  <1> QED BY <1>4, <1>5 DEF CacheIInv

(* Time passes: the exchange knows more, and nothing else happens.         *)
LEMMA TradeInv == ASSUME CacheIInv, Trade PROVE CacheIInv'
  <1>1. /\ now < 2 * LastBar /\ now' = now + 1
        /\ UNCHANGED <<cache, figis, pc, window, since, unchecked, fetch, series>>
    BY DEF Trade
  <1>2. /\ now \in Nat /\ now' \in Nat /\ now <= now'
        /\ now' \in Opening..(2 * LastBar)
        /\ \A l \in Loads : since'[l] \in 0..now'
    BY <1>1, CacheAssumption DEF CacheIInv, TypeOK
  <1>3. \A t \in Tickers, b \in Bars : cache'[t][b] <= Traded(now', b)
    <2> SUFFICES ASSUME NEW t \in Tickers, NEW b \in Bars
                 PROVE  cache[t][b] <= Traded(now', b)
      BY <1>1
    <2>1. cache[t] \in Rows /\ cache[t][b] <= Traded(now, b) BY DEF CacheIInv, TypeOK
    <2>2. cache[t][b] \in Nat BY <2>1, RowType
    <2>3. Traded(now, b) <= Traded(now', b) /\ Traded(now, b) \in Nat
          /\ Traded(now', b) \in Nat
      BY <1>2, TradedGrows DEF States, None, Forming, Final
    <2> QED BY <2>1, <2>2, <2>3
  <1>4. since' \in [Loads -> 0..now']
    BY <1>1, <1>2 DEF CacheIInv, TypeOK
  <1>5. TypeOK' BY <1>1, <1>2, <1>3, <1>4 DEF CacheIInv, TypeOK
  <1>6. cache' \in [Tickers -> Rows] /\ Kept(cache, cache')
    BY <1>1 DEF CacheIInv, TypeOK, Kept
  <1>7. \A l \in Loads : LoadInv(l)' BY <1>1, <1>2, <1>6, FrameLoad
  <1> QED BY <1>5, <1>7 DEF CacheIInv

(* A load that begins, or is forgotten by a restart, holds nothing.        *)
LEMMA EmptyLoadNext ==
    ASSUME NEW l \in Loads, now' \in Nat,
           pc'[l] \in {"idle", "checking"},
           unchecked'[l] # {} => pc'[l] = "checking",
           fetch'[l] = [t \in Tickers |-> "none"], series'[l] = Nothing
    PROVE  LoadInv(l)'
  <1>1. \A b \in Bars : Traded(now', b) \in {0, 1, 2}
    BY TradedGrows DEF States, None, Forming, Final
  <1> QED BY <1>1 DEF LoadInv, FetchInv, PlaceFetch, Nothing, NoRows, None

LEMMA LoadStep == ASSUME CacheIInv, NEW l \in Loads, Load(l) PROVE CacheIInv'
  <1>1. PICK r \in Requests[l] :
            /\ window' = [window EXCEPT ![l] = r.window]
            /\ unchecked' = [unchecked EXCEPT ![l] = r.tickers]
    BY DEF Load
  <1>2. r.window \in SUBSET Bars /\ r.tickers \in SUBSET Tickers
    BY CacheAssumption DEF Bars
  <1>3. /\ pc' = [pc EXCEPT ![l] = "checking"]
        /\ since' = [since EXCEPT ![l] = now]
        /\ fetch' = [fetch EXCEPT ![l] = [t \in Tickers |-> "none"]]
        /\ series' = [series EXCEPT ![l] = Nothing]
        /\ UNCHANGED <<now, cache, figis>>
    BY DEF Load
  <1>4. now \in Nat /\ now \in 0..now BY CacheAssumption DEF CacheIInv, TypeOK
  <1>5. Nothing \in [Tickers -> Rows]
    BY DEF Nothing, NoRows, Rows, States, None
  <1>6. /\ pc' \in [Loads -> {"idle", "checking", "fetching", "answered", "failed"}]
        /\ window' \in [Loads -> SUBSET Bars]
        /\ since' \in [Loads -> 0..now]
        /\ unchecked' \in [Loads -> SUBSET Tickers]
        /\ fetch' \in [Loads -> [Tickers ->
                          Settled \cup {"missed", "resolving", "asking", "arrived"}]]
        /\ series' \in [Loads -> [Tickers -> Rows]]
    BY <1>1, <1>2, <1>3, <1>4, <1>5 DEF CacheIInv, TypeOK, Settled
  <1>7. TypeOK' BY <1>3, <1>6 DEF CacheIInv, TypeOK
  <1>8. /\ pc'[l] = "checking"
        /\ fetch'[l] = [t \in Tickers |-> "none"] /\ series'[l] = Nothing
    BY <1>3 DEF CacheIInv, TypeOK
  <1>9. LoadInv(l)' BY <1>3, <1>4, <1>8, EmptyLoadNext
  <1> QED BY <1>1, <1>3, <1>7, <1>9, StepOfLoad DEF CacheIInv, TypeOK

LEMMA RestartInv == ASSUME CacheIInv, Restart PROVE CacheIInv'
  <1>1. /\ figis' = {}
        /\ pc' = [l \in Loads |-> "idle"]
        /\ window' = [l \in Loads |-> {}]
        /\ since' = [l \in Loads |-> 0]
        /\ unchecked' = [l \in Loads |-> {}]
        /\ fetch' = [l \in Loads |-> [t \in Tickers |-> "none"]]
        /\ series' = [l \in Loads |-> Nothing]
        /\ UNCHANGED <<now, cache>>
    BY DEF Restart
  <1>2. now \in Nat /\ 0 \in 0..now BY CacheAssumption DEF CacheIInv, TypeOK
  <1>3. Nothing \in [Tickers -> Rows]
    BY DEF Nothing, NoRows, Rows, States, None
  <1>4. TypeOK' BY <1>1, <1>2, <1>3 DEF CacheIInv, TypeOK, Settled
  <1>5. \A l \in Loads : LoadInv(l)'
    <2> SUFFICES ASSUME NEW l \in Loads PROVE LoadInv(l)' OBVIOUS
    <2>1. /\ pc'[l] = "idle" /\ unchecked'[l] = {}
          /\ fetch'[l] = [t \in Tickers |-> "none"] /\ series'[l] = Nothing
      BY <1>1
    <2> QED BY <1>1, <1>2, <2>1, EmptyLoadNext
  <1> QED BY <1>4, <1>5 DEF CacheIInv

-----------------------------------------------------------------------------
(* One ticker of a load moves on; the cache may grow with it.              *)
LEMMA OneFetch ==
    ASSUME CacheIInv, NEW l \in Loads, NEW t \in Tickers, NEW place, NEW rows \in Rows,
           place \in Settled \cup {"missed", "resolving", "asking", "arrived"},
           fetch' = [fetch EXCEPT ![l][t] = place],
           series' = [series EXCEPT ![l][t] = rows],
           UNCHANGED <<now, pc, window, since>>,
           unchecked' \in [Loads -> SUBSET Tickers],
           unchecked'[l] \subseteq unchecked[l],
           \A m \in Loads \ {l} : unchecked'[m] = unchecked[m],
           figis' \in SUBSET Tickers,
           cache' \in [Tickers -> Rows], Kept(cache, cache'),
           \A u \in Tickers, b \in Bars : cache'[u][b] <= Traded(now, b),
           FetchInv(l, t)'
    PROVE  CacheIInv'
  <1>1. /\ fetch \in [Loads -> [Tickers ->
                       Settled \cup {"missed", "resolving", "asking", "arrived"}]]
        /\ series \in [Loads -> [Tickers -> Rows]]
        /\ now \in Nat
    BY CacheAssumption DEF CacheIInv, TypeOK
  <1>2. /\ fetch' \in [Loads -> [Tickers ->
                       Settled \cup {"missed", "resolving", "asking", "arrived"}]]
        /\ series' \in [Loads -> [Tickers -> Rows]]
        /\ \A m \in Loads \ {l} : fetch'[m] = fetch[m] /\ series'[m] = series[m]
        /\ \A u \in Tickers \ {t} : fetch'[l][u] = fetch[l][u] /\ series'[l][u] = series[l][u]
    BY <1>1
  <1>3. TypeOK' BY <1>2 DEF CacheIInv, TypeOK
  <1>4. now' \in Nat /\ now <= now' BY <1>1
  <1>5. \A m \in Loads \ {l} : LoadInv(m)' BY <1>2, <1>4, FrameLoad
  <1>6. \A u \in Tickers \ {t} : FetchInv(l, u)' BY <1>2, <1>4, FrameFetch
  <1>7. LoadInv(l)' BY <1>6 DEF CacheIInv, LoadInv
  <1> QED BY <1>3, <1>5, <1>7 DEF CacheIInv

(* What OneFetch asks of a cache that is not written to.                   *)
LEMMA SameCache ==
    ASSUME CacheIInv, UNCHANGED <<now, cache>>
    PROVE  /\ cache' \in [Tickers -> Rows] /\ Kept(cache, cache')
           /\ \A u \in Tickers, b \in Bars : cache'[u][b] <= Traded(now, b)
  BY DEF CacheIInv, TypeOK, Kept

LEMMA CheckInv == ASSUME CacheIInv, NEW l \in Loads, Check(l) PROVE CacheIInv'
  <1>1. PICK t \in unchecked[l] :
            /\ unchecked' = [unchecked EXCEPT ![l] = @ \ {t}]
            /\ Checked(l, t)
    BY DEF Check
  <1>2. pc[l] = "checking" /\ UNCHANGED <<now, cache, figis, pc, window, since>>
    BY DEF Check
  <1>3. /\ t \in Tickers /\ cache[t] \in Rows /\ series[l][t] \in Rows
        /\ unchecked' \in [Loads -> SUBSET Tickers]
        /\ unchecked'[l] \subseteq unchecked[l]
        /\ \A m \in Loads \ {l} : unchecked'[m] = unchecked[m]
        /\ figis' \in SUBSET Tickers
    BY <1>1, <1>2 DEF CacheIInv, TypeOK
  <1> DEFINE rows == Within(cache[t], window[l])
  <1>4. rows \in Rows BY <1>3, RowsType
  <1>5. \A b \in Bars : /\ rows[b] # None => b \in window[l]
                        /\ rows[b] <= Traded(now, b)
    <2> SUFFICES ASSUME NEW b \in Bars
                 PROVE  (rows[b] # None => b \in window[l]) /\ rows[b] <= Traded(now, b)
      OBVIOUS
    <2>1. cache[t][b] <= Traded(now, b) BY <1>3 DEF CacheIInv, TypeOK
    <2>2. Traded(now, b) \in {0, 1, 2}
      BY TradedGrows, CacheAssumption DEF CacheIInv, TypeOK, States, None, Forming, Final
    <2> QED BY <2>1, <2>2 DEF Within, None
  <1> HIDE DEF rows
  <1>6. CASE Enough(rows)
    <2>1. /\ series' = [series EXCEPT ![l][t] = rows]
          /\ fetch' = [fetch EXCEPT ![l][t] = "hit"]
      BY <1>1, <1>6 DEF Checked, rows
    <2>2. series'[l][t] = rows /\ fetch'[l][t] = "hit"
      BY <1>3, <2>1 DEF CacheIInv, TypeOK
    <2>3. FetchInv(l, t)'
      BY <1>2, <1>5, <1>6, <2>2 DEF FetchInv, PlaceFetch, Enough, Count
    <2> QED BY <1>2, <1>3, <1>4, <2>1, <2>3, SameCache, OneFetch DEF Settled
  <1>7. CASE ~Enough(rows)
    <2>1. series' = series /\ fetch' = [fetch EXCEPT ![l][t] = "missed"]
      BY <1>1, <1>7 DEF Checked, rows
    <2>2. fetch'[l][t] = "missed" /\ series' = [series EXCEPT ![l][t] = series[l][t]]
      BY <1>3, <2>1 DEF CacheIInv, TypeOK
    <2>3. FetchInv(l, t)'
      BY <1>2, <1>3, <2>1, <2>2 DEF CacheIInv, LoadInv, FetchInv, PlaceFetch
    <2> QED BY <1>2, <1>3, <2>1, <2>2, <2>3, SameCache, OneFetch DEF Settled
  <1> QED BY <1>6, <1>7

(* A download moves on, or fails, and leaves what the load holds.          *)
LEMMA FetchMoves ==
    ASSUME CacheIInv, NEW l \in Loads, NEW t \in Tickers, NEW place,
           fetch[l][t] \in {"resolving", "asking", "arrived"},
           place \in {"asking", "failed"},
           fetch' = [fetch EXCEPT ![l][t] = place],
           figis' \in SUBSET Tickers,
           UNCHANGED <<now, cache, pc, window, since, unchecked, series>>
    PROVE  CacheIInv'
  <1>1. FetchInv(l, t) /\ pc[l] = "fetching"
    BY DEF CacheIInv, LoadInv, FetchInv, PlaceFetch, TypeOK, Settled
  <1>2. /\ series[l][t] \in Rows
        /\ series' = [series EXCEPT ![l][t] = series[l][t]]
        /\ fetch'[l][t] = place
        /\ unchecked' \in [Loads -> SUBSET Tickers]
        /\ unchecked'[l] \subseteq unchecked[l]
        /\ \A m \in Loads \ {l} : unchecked'[m] = unchecked[m]
    BY DEF CacheIInv, TypeOK
  <1>3. FetchInv(l, t)'
    BY <1>1, <1>2 DEF FetchInv, PlaceFetch, Settled
  <1>4. place \in Settled \cup {"missed", "resolving", "asking", "arrived"}
    BY DEF Settled
  <1> QED BY <1>2, <1>3, <1>4, SameCache, OneFetch

(* The answer holds what the exchange has, which is no less than it had    *)
(* when the load began.                                                    *)
LEMMA ServeInv ==
    ASSUME CacheIInv, NEW l \in Loads, NEW t \in Tickers, Serve(l, t)
    PROVE  CacheIInv'
  <1> DEFINE rows == Candles(window[l])
  <1>1. /\ fetch[l][t] = "asking"
        /\ series' = [series EXCEPT ![l][t] = rows]
        /\ fetch' = [fetch EXCEPT ![l][t] = "arrived"]
        /\ UNCHANGED <<now, cache, figis, pc, window, since, unchecked>>
    BY DEF Serve
  <1>2. pc[l] = "fetching"
    BY <1>1 DEF CacheIInv, LoadInv, FetchInv, PlaceFetch, TypeOK, Settled
  <1>3. now \in Nat /\ since[l] \in Nat /\ since[l] <= now
    BY CacheAssumption DEF CacheIInv, TypeOK
  <1>4. rows \in Rows BY <1>3, TradedGrows DEF Candles, Rows, States, None
  <1>5. \A b \in Bars : /\ rows[b] # None => b \in window[l]
                        /\ rows[b] <= Traded(now, b)
                        /\ b \in window[l] => rows[b] >= Traded(since[l], b)
    <2> SUFFICES ASSUME NEW b \in Bars
                 PROVE  /\ rows[b] # None => b \in window[l]
                        /\ rows[b] <= Traded(now, b)
                        /\ b \in window[l] => rows[b] >= Traded(since[l], b)
      OBVIOUS
    <2>1. Traded(now, b) \in {0, 1, 2} /\ Traded(since[l], b) \in {0, 1, 2}
      BY <1>3, TradedGrows DEF States, None, Forming, Final
    <2>2. Traded(since[l], b) <= Traded(now, b) BY <1>3, TradedGrows
    <2>3. rows[b] = IF b \in window[l] THEN Traded(now, b) ELSE None BY DEF Candles
    <2> QED BY <2>1, <2>2, <2>3 DEF None
  <1> HIDE DEF rows
  <1>6. /\ series'[l][t] = rows /\ fetch'[l][t] = "arrived"
        /\ unchecked' \in [Loads -> SUBSET Tickers]
        /\ unchecked'[l] \subseteq unchecked[l]
        /\ \A m \in Loads \ {l} : unchecked'[m] = unchecked[m]
        /\ figis' \in SUBSET Tickers
        /\ window[l] \in SUBSET Bars
    BY <1>1 DEF CacheIInv, TypeOK
  <1>7. FetchInv(l, t)'
    <2>1. "arrived" \in PlaceFetch("fetching") BY DEF PlaceFetch
    <2>2. \A b \in window[l] : rows[b] >= Traded(since[l], b) BY <1>5, <1>6
    <2> QED BY <1>1, <1>2, <1>5, <1>6, <2>1, <2>2 DEF FetchInv
  <1> QED BY <1>1, <1>4, <1>6, <1>7, SameCache, OneFetch

(* A write keeps every candle that is there, of whatever ticker.           *)
LEMMA StoreKeeps ==
    ASSUME CacheIInv, NEW l \in Loads, NEW t \in Tickers, Store(l, t)
    PROVE  Kept(cache, cache')
  <1>1. PICK k \in 0..LastBar :
            cache' = [cache EXCEPT ![t] = Upsert(@, Within(series[l][t], 1..k))]
    BY DEF Store
  <1>2. \A b \in Bars : cache[t][b] # None => cache'[t][b] # None
    BY <1>1 DEF CacheIInv, TypeOK, Upsert
  <1>3. \A u \in Tickers \ {t} : cache'[u] = cache[u]
    BY <1>1 DEF CacheIInv, TypeOK
  <1> QED BY <1>2, <1>3 DEF Kept

(* A write adds rows that the exchange gave for this ticker.               *)
LEMMA StoreInv ==
    ASSUME CacheIInv, NEW l \in Loads, NEW t \in Tickers, Store(l, t)
    PROVE  CacheIInv'
  <1>1. /\ fetch[l][t] = "arrived"
        /\ Enough(series[l][t])
        /\ UNCHANGED <<now, figis, pc, window, since, unchecked, series>>
    BY DEF Store
  <1>2. PICK k \in 0..LastBar :
            /\ cache' = [cache EXCEPT ![t] = Upsert(@, Within(series[l][t], 1..k))]
            /\ fetch' = [fetch EXCEPT ![l][t] = IF k = LastBar THEN "stored" ELSE "kept"]
    BY DEF Store
  <1> DEFINE rows == series[l][t]
             part == Within(rows, 1..k)
             place == IF k = LastBar THEN "stored" ELSE "kept"
  <1>3. FetchInv(l, t) /\ pc[l] = "fetching"
    BY <1>1 DEF CacheIInv, LoadInv, FetchInv, PlaceFetch, TypeOK, Settled
  <1>4. rows \in Rows /\ cache[t] \in Rows /\ cache \in [Tickers -> Rows]
    BY DEF CacheIInv, TypeOK
  <1>5. part \in Rows /\ Upsert(cache[t], part) \in Rows BY <1>4, RowsType
  <1>6. cache' \in [Tickers -> Rows] /\ cache'[t] = Upsert(cache[t], part)
        /\ \A u \in Tickers \ {t} : cache'[u] = cache[u]
    BY <1>2, <1>4, <1>5
  <1>7. \A b \in Bars : /\ cache'[t][b] = IF part[b] # None THEN part[b] ELSE cache[t][b]
                        /\ part[b] = IF b \in 1..k THEN rows[b] ELSE None
    BY <1>6 DEF Upsert, Within
  <1>8. Kept(cache, cache') BY StoreKeeps
  <1>9. \A u \in Tickers, b \in Bars : cache'[u][b] <= Traded(now, b)
    <2> SUFFICES ASSUME NEW u \in Tickers, NEW b \in Bars
                 PROVE  cache'[u][b] <= Traded(now, b)
      OBVIOUS
    <2>1. cache[u][b] <= Traded(now, b) BY DEF CacheIInv, TypeOK
    <2>2. rows[b] <= Traded(now, b) BY <1>3 DEF FetchInv
    <2>3. u = t => cache'[u][b] = rows[b] \/ cache'[u][b] = cache[u][b] BY <1>7
    <2>4. u # t => cache'[u][b] = cache[u][b] BY <1>6
    <2> QED BY <2>1, <2>2, <2>3, <2>4
  <1>10. /\ fetch'[l][t] = place /\ place \in {"stored", "kept"}
         /\ series' = [series EXCEPT ![l][t] = rows]
         /\ unchecked' \in [Loads -> SUBSET Tickers]
         /\ unchecked'[l] \subseteq unchecked[l]
         /\ \A m \in Loads \ {l} : unchecked'[m] = unchecked[m]
         /\ figis' \in SUBSET Tickers
    BY <1>1, <1>2 DEF CacheIInv, TypeOK
  <1>11. place = "stored" => Enough(Within(cache'[t], window[l]))
    <2> SUFFICES ASSUME k = LastBar PROVE Enough(Within(cache'[t], window[l]))
      BY CacheAssumption
    <2>1. \A b \in Bars : rows[b] # None => cache'[t][b] # None /\ b \in window[l]
      BY <1>3, <1>7 DEF Bars, FetchInv
    <2>2. \A b \in Bars : rows[b] # None => Within(cache'[t], window[l])[b] # None
      BY <2>1 DEF Within
    <2>3. cache'[t] \in Rows BY <1>6
    <2>4. Within(cache'[t], window[l]) \in Rows BY <2>3, RowsType
    <2> QED BY <1>1, <1>4, <2>2, <2>4, CountMonotone
  <1> HIDE DEF place
  <1>12. FetchInv(l, t)'
    BY <1>1, <1>3, <1>10, <1>11 DEF FetchInv, PlaceFetch, Settled, Enough, Count
  <1>13. place \in Settled \cup {"missed", "resolving", "asking", "arrived"}
    BY <1>10 DEF Settled
  <1>14. fetch' = [fetch EXCEPT ![l][t] = place] BY <1>2 DEF place
  <1> QED BY <1>1, <1>4, <1>6, <1>8, <1>9, <1>10, <1>12, <1>13, <1>14, OneFetch

-----------------------------------------------------------------------------
(* Steps of a load as a whole.                                             *)
LEMMA DownloadInv == ASSUME CacheIInv, NEW l \in Loads, Download(l) PROVE CacheIInv'
  <1> DEFINE goes == [t \in Tickers |->
          IF t \notin Missed(l) THEN fetch[l][t]
          ELSE IF t \in figis THEN "asking" ELSE "resolving"]
             place == IF Missed(l) = {} THEN "answered" ELSE "fetching"
             start == IF Missed(l) = {} THEN 0 ELSE since[l]
  <1>1. /\ pc[l] = "checking" /\ unchecked[l] = {}
        /\ pc' = [pc EXCEPT ![l] = place]
        /\ UNCHANGED <<now, cache, figis, window, unchecked, series>>
    BY DEF Download
  <1>2. fetch' = [fetch EXCEPT ![l] = goes] /\ since' = [since EXCEPT ![l] = start]
    BY DEF Download
  <1>3. now \in Nat /\ since[l] \in 0..now /\ start \in 0..now
    BY CacheAssumption DEF CacheIInv, TypeOK
  <1>4. \A t \in Tickers : /\ fetch[l][t] \in {"none", "hit", "missed"}
                           /\ FetchInv(l, t)
    BY <1>1 DEF CacheIInv, LoadInv, FetchInv, PlaceFetch
  <1>5. goes \in [Tickers -> {"none", "hit", "asking", "resolving"}]
    BY <1>4 DEF Missed
  <1>6. place = "answered" => \A t \in Tickers : goes[t] \in {"none", "hit"}
    BY <1>4 DEF Missed
  <1>7. place \in {"answered", "fetching"} OBVIOUS
  <1>8. \A t \in Tickers : goes[t] = "hit" => fetch[l][t] = "hit"
    OBVIOUS
  <1> HIDE DEF goes, place, start
  <1>9. /\ fetch'[l] = goes /\ pc'[l] = place
        /\ fetch' \in [Loads -> [Tickers ->
                         Settled \cup {"missed", "resolving", "asking", "arrived"}]]
        /\ pc' \in [Loads -> {"idle", "checking", "fetching", "answered", "failed"}]
        /\ since' \in [Loads -> 0..now]
    BY <1>1, <1>2, <1>3, <1>5, <1>7 DEF CacheIInv, TypeOK, Settled
  <1>10. TypeOK' BY <1>1, <1>9 DEF CacheIInv, TypeOK
  <1>11. ASSUME NEW t \in Tickers PROVE FetchInv(l, t)'
    <2>1. fetch'[l][t] = goes[t] /\ goes[t] \in {"none", "hit", "asking", "resolving"}
      BY <1>5, <1>9
    <2>2. fetch'[l][t] \in PlaceFetch(pc'[l])
      BY <1>6, <1>7, <1>9, <2>1 DEF PlaceFetch, Settled
    <2>3. fetch'[l][t] = "hit" => Enough(series[l][t])'
      BY <1>1, <1>4, <1>8, <2>1 DEF FetchInv, Enough, Count
    <2> QED BY <1>1, <1>4, <2>1, <2>2, <2>3 DEF FetchInv
  <1>12. LoadInv(l)' BY <1>1, <1>11 DEF LoadInv
  <1>13. \A m \in Loads \ {l} :
            /\ fetch'[m] = fetch[m] /\ pc'[m] = pc[m] /\ since'[m] = since[m]
    BY <1>1, <1>2 DEF CacheIInv, TypeOK
  <1> QED BY <1>1, <1>10, <1>12, <1>13, StepOfLoad

(* A load that ended, with what it holds or with nothing.                  *)
LEMMA LoadEnds ==
    ASSUME CacheIInv, NEW l \in Loads, NEW failed \in BOOLEAN,
           pc' = [pc EXCEPT ![l] = IF failed THEN "failed" ELSE "answered"],
           since' = [since EXCEPT ![l] = 0],
           series' = [series EXCEPT ![l] = IF failed THEN Nothing ELSE @],
           unchecked' = [unchecked EXCEPT ![l] = {}],
           UNCHANGED <<now, cache, figis, window, fetch>>,
           \A t \in Tickers : fetch[l][t] \in Settled \cup {"missed"},
           pc[l] # "failed",
           ~failed => \A t \in Tickers : fetch[l][t] \in Settled \ {"failed"}
    PROVE  CacheIInv'
  <1>1. now \in Nat /\ 0 \in 0..now BY CacheAssumption DEF CacheIInv, TypeOK
  <1>2. Nothing \in [Tickers -> Rows] BY DEF Nothing, NoRows, Rows, States, None
  <1>3. /\ pc' \in [Loads -> {"idle", "checking", "fetching", "answered", "failed"}]
        /\ since' \in [Loads -> 0..now]
        /\ series' \in [Loads -> [Tickers -> Rows]]
        /\ unchecked' \in [Loads -> SUBSET Tickers]
    BY <1>1, <1>2 DEF CacheIInv, TypeOK
  <1>4. TypeOK' BY <1>3 DEF CacheIInv, TypeOK
  <1>5. /\ pc'[l] = IF failed THEN "failed" ELSE "answered"
        /\ since'[l] = 0 /\ unchecked'[l] = {}
        /\ series'[l] = IF failed THEN Nothing ELSE series[l]
    BY DEF CacheIInv, TypeOK
  <1>6. ASSUME NEW t \in Tickers PROVE FetchInv(l, t)'
    <2>1. FetchInv(l, t) /\ series[l][t] \in Rows /\ window[l] \in SUBSET Bars
      BY DEF CacheIInv, LoadInv, TypeOK
    <2>2. fetch'[l][t] \in PlaceFetch(pc'[l])
      BY <1>5 DEF PlaceFetch
    <2>3. \A b \in Bars : Traded(now, b) \in {0, 1, 2} /\ Traded(0, b) = 0
      BY <1>1, TradedGrows DEF States, None, Forming, Final
    <2>4. \A b \in window[l] : Traded(since'[l], b) = 0 BY <1>5, <2>1, <2>3
    <2>5. CASE failed
      <3>1. \A b \in Bars : series'[l][t][b] = 0
        BY <1>5, <2>5 DEF Nothing, NoRows, None
      <3>2. \A b \in window[l] : series'[l][t][b] = 0 BY <2>1, <3>1
      <3>3. pc'[l] = "failed" BY <1>5, <2>5
      <3>4. fetch'[l][t] = "stored" => Enough(Within(cache'[t], window'[l]))
        BY <2>1 DEF FetchInv
      <3> HIDE DEF TypeOK
      <3> QED BY <2>2, <2>3, <2>4, <3>1, <3>2, <3>3, <3>4 DEF FetchInv, None
    <2>6. CASE ~failed
      <3>1. series'[l][t] = series[l][t] BY <1>5, <2>6
      <3>2. \A b \in Bars : series[l][t][b] >= 0 BY <2>1, RowType DEF None
      <3>3. \A b \in window[l] : series'[l][t][b] >= Traded(since'[l], b)
        BY <2>1, <2>4, <3>1, <3>2
      <3>4. Enough(series[l][t])' <=> Enough(series[l][t]) BY <3>1 DEF Enough, Count
      <3> QED BY <2>1, <2>2, <3>1, <3>3, <3>4 DEF FetchInv
    <2> QED BY <2>5, <2>6
  <1>7. LoadInv(l)' BY <1>5, <1>6 DEF LoadInv
  <1>8. \A m \in Loads \ {l} :
            /\ series'[m] = series[m] /\ pc'[m] = pc[m] /\ since'[m] = since[m]
            /\ unchecked'[m] = unchecked[m]
    BY DEF CacheIInv, TypeOK
  <1> QED BY <1>4, <1>7, <1>8, StepOfLoad

LEMMA CacheStep == CacheIInv /\ [Next]_vars => CacheIInv'
  <1> SUFFICES ASSUME CacheIInv, [Next]_vars PROVE CacheIInv' OBVIOUS
  <1>1. CASE Trade BY <1>1, TradeInv
  <1>2. CASE Restart BY <1>2, RestartInv
  <1>3. ASSUME NEW l \in Loads, Load(l) PROVE CacheIInv' BY <1>3, LoadStep
  <1>4. ASSUME NEW l \in Loads, Check(l) PROVE CacheIInv' BY <1>4, CheckInv
  <1>5. ASSUME NEW l \in Loads, Download(l) PROVE CacheIInv' BY <1>5, DownloadInv
  <1>6. ASSUME NEW l \in Loads, LoadFails(l) PROVE CacheIInv'
    <2>1. \A t \in Tickers : fetch[l][t] \in Settled \cup {"missed"}
      BY <1>6 DEF LoadFails, CacheIInv, LoadInv, FetchInv, PlaceFetch, Settled
    <2> QED BY <1>6, <2>1, LoadEnds DEF LoadFails
  <1>7. ASSUME NEW l \in Loads, Gather(l) PROVE CacheIInv'
    <2> DEFINE failed == \E t \in Tickers : fetch[l][t] = "failed"
    <2>1. /\ pc[l] = "fetching"
          /\ \A t \in Tickers : fetch[l][t] \in Settled
          /\ pc' = [pc EXCEPT ![l] = IF failed THEN "failed" ELSE "answered"]
          /\ since' = [since EXCEPT ![l] = 0]
          /\ series' = [series EXCEPT ![l] = IF failed THEN Nothing ELSE @]
          /\ UNCHANGED <<now, cache, figis, window, unchecked, fetch>>
      BY <1>7 DEF Gather, Ended
    <2>2. failed \in BOOLEAN OBVIOUS
    <2>3. ~failed => \A t \in Tickers : fetch[l][t] \in Settled \ {"failed"}
      BY <2>1
    <2> HIDE DEF failed
    <2>4. unchecked' = [unchecked EXCEPT ![l] = {}]
      BY <2>1 DEF CacheIInv, LoadInv, TypeOK
    <2> QED BY <2>1, <2>2, <2>3, <2>4, LoadEnds
  <1>8. ASSUME NEW l \in Loads, NEW t \in Tickers, Resolve(l, t) PROVE CacheIInv'
    <2>1. figis' \in SUBSET Tickers BY <1>8 DEF Resolve, CacheIInv, TypeOK
    <2> QED BY <1>8, <2>1, FetchMoves DEF Resolve
  <1>9. ASSUME NEW l \in Loads, NEW t \in Tickers, CallFails(l, t) \/ TooShort(l, t)
        PROVE  CacheIInv'
    <2>1. figis' \in SUBSET Tickers
      BY <1>9 DEF CallFails, TooShort, CacheIInv, TypeOK
    <2> QED BY <1>9, <2>1, FetchMoves DEF CallFails, TooShort
  <1>10. ASSUME NEW l \in Loads, NEW t \in Tickers, Serve(l, t) PROVE CacheIInv'
    BY <1>10, ServeInv
  <1>11. ASSUME NEW l \in Loads, NEW t \in Tickers, Store(l, t) PROVE CacheIInv'
    BY <1>11, StoreInv
  <1>12. CASE UNCHANGED vars
    <2>1. UNCHANGED <<now, cache, figis, pc, window, since, unchecked, fetch, series>>
      BY <1>12 DEF vars
    <2>2. TypeOK' BY <2>1 DEF CacheIInv, TypeOK
    <2>3. now' \in Nat /\ now <= now' BY <2>1, CacheAssumption DEF CacheIInv, TypeOK
    <2>4. \A l \in Loads : LoadInv(l)' BY <2>1, <2>3, SameCache, FrameLoad
    <2> QED BY <2>2, <2>4 DEF CacheIInv
  <1> QED BY <1>1, <1>2, <1>3, <1>4, <1>5, <1>6, <1>7, <1>8, <1>9, <1>10, <1>11, <1>12
          DEF Next, Fetch

(* The inductive invariant of the loads holds in every reachable state.    *)
THEOREM CacheInvariance == Spec => []CacheIInv
  BY CacheInit, CacheStep, PTL DEF Spec

(* Types: neither the cache nor a load knows a candle that the exchange    *)
(* has not given yet.                                                      *)
THEOREM CacheTypes == Spec => []TypeOK
  BY CacheInvariance, PTL DEF CacheIInv

(* A load answers every ticker it was asked for with enough candles of its *)
(* window, or it raises, however its downloads fail.                       *)
THEOREM AnswersAreComplete == Spec => []AnswersComplete
  <1>1. CacheIInv => AnswersComplete
    <2> SUFFICES ASSUME CacheIInv, NEW l \in Loads, pc[l] = "answered"
                 PROVE  /\ unchecked[l] = {}
                        /\ \A t \in Tickers : fetch[l][t] # "none" => Enough(series[l][t])
                        /\ \A t \in Tickers, b \in Bars :
                              series[l][t][b] # None => b \in window[l]
      BY DEF AnswersComplete
    <2>1. unchecked[l] = {} /\ \A t \in Tickers : FetchInv(l, t)
      BY DEF CacheIInv, LoadInv
    <2>2. \A t \in Tickers : fetch[l][t] \in {"none", "hit", "stored", "kept"}
      BY <2>1 DEF FetchInv, PlaceFetch, Settled
    <2> QED BY <2>1, <2>2 DEF FetchInv
  <1> QED BY CacheInvariance, <1>1, PTL

(* What a load downloaded is at least as new as the load, whatever other   *)
(* loads write to the cache meanwhile.                                     *)
THEOREM DownloadsAreFresh == Spec => []FreshWhenDownloaded
  <1>1. CacheIInv => FreshWhenDownloaded
    BY DEF CacheIInv, LoadInv, FetchInv, FreshWhenDownloaded
  <1> QED BY CacheInvariance, <1>1, PTL

(* What one ticker stored is found again, whatever became of the load.     *)
THEOREM StoredIsFound == Spec => []StoredMeansHit
  <1>1. CacheIInv => StoredMeansHit
    BY DEF CacheIInv, LoadInv, FetchInv, StoredMeansHit
  <1> QED BY CacheInvariance, <1>1, PTL

(* A candle that was stored stays: no download, failure, partial write or  *)
(* restart takes one away, of whatever ticker.                             *)
THEOREM CandlesStay == Spec => [][Kept(cache, cache')]_vars
  <1>1. ASSUME CacheIInv, [Next]_vars PROVE Kept(cache, cache')
    <2>1. cache' = cache => Kept(cache, cache') BY DEF Kept
    <2>2. ASSUME NEW l \in Loads, NEW t \in Tickers, Store(l, t)
          PROVE  Kept(cache, cache')
      BY <1>1, <2>2, StoreKeeps
    <2>3. CASE \E l \in Loads, t \in Tickers : Store(l, t) BY <2>2, <2>3
    <2>4. CASE ~ \E l \in Loads, t \in Tickers : Store(l, t)
      <3>1. cache' = cache
        BY <1>1, <2>4 DEF Next, Trade, Restart, Load, Check, Download, LoadFails, Gather,
               Ended, Fetch, Resolve, Serve, TooShort, CallFails, vars
      <3> QED BY <2>1, <3>1
    <2> QED BY <2>3, <2>4
  <1> QED BY <1>1, CacheInvariance, PTL DEF Spec

-----------------------------------------------------------------------------
(* Where the browser may be, by the step of the team.                      *)
PhaseBrowser(p) ==
    CASE p = "planning" -> {"none"}
      [] p = "analysing" -> {"pooled", "unstarted", "done"}
      [] p = "browsing" -> {"pooled", "running", "done"}
      [] p = "failed" -> {"none", "done"}
      [] OTHER -> {"done"}

(* A slot is held by a task that runs or is about to give it back, and     *)
(* never by a team whose first coroutine was refused.                      *)
BrowserInv ==
    /\ browser \in PhaseBrowser(phase)
    /\ slot => browser \in {"pooled", "done"}
    /\ dropped => ~slot /\ browser \in {"unstarted", "running", "done"}

Complete == {"reviewing", "insights", "narrating", "ok", "raised"}

(* Analysts work for tickers of the plan, and only while the team waits    *)
(* for them.                                                               *)
AnalystInv(t) ==
    /\ phase = "planning" => t \notin plan.tickers /\ results[t] = {}
    /\ t \notin plan.tickers <=> stage[t] = "idle"
    /\ t \in plan.tickers /\ phase # "analysing" => stage[t] \in {"ok", "failed"}
    /\ t \in plan.tickers /\ phase \in Complete => stage[t] = "ok"
    /\ rest[t] \subseteq plan.families
    /\ stage[t] \in {"screening", "generating", "testing"} => family[t] \in plan.families
    /\ stage[t] = "testing" => specs[t] >= 1
    /\ stage[t] = "ok" => rest[t] = {}

TeamIInv ==
    /\ TeamTypeOK
    /\ BrowserInv
    /\ \A t \in Universe : AnalystInv(t)
    /\ OutcomeIsJust

-----------------------------------------------------------------------------
LEMMA TeamStart == TeamInit => TeamIInv
  <1> SUFFICES ASSUME TeamInit PROVE TeamIInv OBVIOUS
  <1>1. TeamTypeOK
    <2>1. others \in 0..MaxTasks /\ Tasks <= MaxTasks /\ 0 \in 0..MaxSpecs
      BY TeamAssumption DEF TeamInit, Tasks
    <2>2. /\ stage \in [Universe -> {"idle", "loading", "loaded", "screening", "generating",
                                     "testing", "ok", "failed"}]
          /\ rest \in [Universe -> SUBSET Families]
          /\ family \in [Universe -> Families \cup {NoFamily}]
          /\ specs \in [Universe -> 0..MaxSpecs]
          /\ results \in [Universe -> SUBSET plan.families]
      BY <2>1 DEF TeamInit
    <2>3. plan \in [tickers : SUBSET Universe, families : SUBSET Families]
      BY DEF TeamInit
    <2> QED BY <2>1, <2>2, <2>3 DEF TeamInit, TeamTypeOK
  <1>2. BrowserInv BY DEF TeamInit, BrowserInv, PhaseBrowser
  <1>3. \A t \in Universe : AnalystInv(t) BY DEF TeamInit, AnalystInv, Complete
  <1>4. OutcomeIsJust BY DEF TeamInit, OutcomeIsJust, Ends
  <1> QED BY <1>1, <1>2, <1>3, <1>4 DEF TeamIInv

(* The pool and the browser move; analysts and the team do not.            *)
LEMMA AroundTheTeam ==
    ASSUME TeamIInv, UNCHANGED <<phase, plan, dropped, analystVars>>,
           browser' \in {"none", "pooled", "unstarted", "running", "done"},
           asking' \in {"similar", "info", "tested"},
           slot' \in BOOLEAN, others' \in 0..MaxTasks, Tasks' <= MaxTasks,
           BrowserInv',
           browser = "none" => browser' = "none"
    PROVE  TeamIInv'
  <1>1. UNCHANGED <<phase, plan, dropped, stage, rest, family, specs, results>>
    BY DEF analystVars
  <1>2. TeamTypeOK' BY <1>1 DEF TeamIInv, TeamTypeOK
  <1>3. \A t \in Universe : AnalystInv(t)' BY <1>1 DEF TeamIInv, AnalystInv
  <1>4. phase \in Ends => browser' \in {"none", "done"}
    BY <1>1 DEF BrowserInv, PhaseBrowser, Ends
  <1>5. OutcomeIsJust'
    BY <1>1, <1>4 DEF TeamIInv, BrowserInv, OutcomeIsJust, NoResults, Ends
  <1> QED BY <1>2, <1>3, <1>5 DEF TeamIInv

LEMMA PoolStep ==
    ASSUME TeamIInv, OtherStarts \/ OtherEnds \/ Browse \/ Discard PROVE TeamIInv'
  <1>1. /\ TeamTypeOK /\ BrowserInv /\ MaxTasks \in Nat
        /\ others \in 0..MaxTasks /\ Tasks <= MaxTasks /\ slot \in BOOLEAN
    BY TeamAssumption DEF TeamIInv, TeamTypeOK
  <1>2. CASE OtherStarts
    <2>1. /\ Tasks < MaxTasks /\ others' = others + 1
          /\ UNCHANGED <<phase, plan, browser, asking, dropped, slot, analystVars>>
      BY <1>2 DEF OtherStarts, browserVars
    <2>2. others' \in 0..MaxTasks /\ Tasks' <= MaxTasks
      BY <1>1, <2>1 DEF Tasks
    <2>3. BrowserInv' BY <1>1, <2>1 DEF BrowserInv
    <2> QED BY <1>1, <2>1, <2>2, <2>3, AroundTheTeam DEF TeamTypeOK
  <1>3. CASE OtherEnds
    <2>1. /\ others > 0 /\ others' = others - 1
          /\ UNCHANGED <<phase, plan, browser, asking, dropped, slot, analystVars>>
      BY <1>3 DEF OtherEnds, browserVars
    <2>2. others' \in 0..MaxTasks /\ Tasks' <= MaxTasks
      BY <1>1, <2>1 DEF Tasks
    <2>3. BrowserInv' BY <1>1, <2>1 DEF BrowserInv
    <2> QED BY <1>1, <2>1, <2>2, <2>3, AroundTheTeam DEF TeamTypeOK
  <1>4. CASE Browse
    <2>1. /\ UNCHANGED <<phase, plan, dropped, slot, others, analystVars>>
          /\ browser \in {"pooled", "running"}
          /\ browser' = browser \/ browser' = "done"
          /\ asking' \in {"similar", "info", "tested"}
      BY <1>1, <1>4
         DEF Browse, Similar, TickerInfo, CountTested, Researching, poolVars, TeamTypeOK
    <2>2. Tasks' <= MaxTasks BY <1>1, <2>1 DEF Tasks
    <2>3. BrowserInv'
      BY <1>1, <2>1 DEF BrowserInv, PhaseBrowser, TeamTypeOK, Ends
    <2> QED BY <1>1, <2>1, <2>2, <2>3, AroundTheTeam
  <1>5. CASE Discard
    <2>1. /\ slot' = FALSE
          /\ UNCHANGED <<phase, plan, browser, asking, dropped, others, analystVars>>
      BY <1>5 DEF Discard, browserVars
    <2>2. Tasks' <= MaxTasks BY <1>1, <2>1 DEF Tasks
    <2>3. BrowserInv' BY <1>1, <2>1 DEF BrowserInv
    <2> QED BY <1>1, <2>1, <2>2, <2>3, AroundTheTeam DEF TeamTypeOK
  <1> QED BY <1>2, <1>3, <1>4, <1>5

-----------------------------------------------------------------------------
(* An analyst who is busy works for a team that waits for him.             *)
Busy == {"loading", "loaded", "screening", "generating", "testing"}

LEMMA BusyInTime ==
    ASSUME TeamIInv, NEW t \in Universe, stage[t] \in Busy
    PROVE  phase = "analysing" /\ t \in plan.tickers
  BY DEF TeamIInv, AnalystInv, Busy

(* One analyst moves on.                                                   *)
Alone(t) ==
    /\ UNCHANGED <<phase, plan, browserVars, poolVars>>
    /\ stage' = [stage EXCEPT ![t] = stage'[t]]
    /\ rest' = [rest EXCEPT ![t] = rest'[t]]
    /\ family' = [family EXCEPT ![t] = family'[t]]
    /\ specs' = [specs EXCEPT ![t] = specs'[t]]
    /\ results' = [results EXCEPT ![t] = results'[t]]

LEMMA OneAnalyst ==
    ASSUME TeamIInv, NEW t \in Universe, stage[t] \in Busy, Alone(t),
           stage'[t] \in Busy \cup {"ok", "failed"},
           rest'[t] \subseteq rest[t],
           family'[t] \in Families \cup {NoFamily},
           specs'[t] \in 0..MaxSpecs,
           results'[t] \subseteq plan.families,
           stage'[t] \in {"screening", "generating", "testing"} => family'[t] \in plan.families,
           stage'[t] = "testing" => specs'[t] >= 1,
           stage'[t] = "ok" => rest'[t] = {}
    PROVE  TeamIInv'
  <1>1. /\ phase = "analysing" /\ t \in plan.tickers BY BusyInTime
  <1>2. UNCHANGED <<phase, plan, browser, asking, dropped, slot, others>>
    BY DEF Alone, browserVars, poolVars
  <1>3. TeamTypeOK /\ AnalystInv(t) BY DEF TeamIInv
  <1>4. /\ stage' \in [Universe -> {"idle", "loading", "loaded", "screening", "generating",
                                    "testing", "ok", "failed"}]
        /\ rest' \in [Universe -> SUBSET Families]
        /\ family' \in [Universe -> Families \cup {NoFamily}]
        /\ specs' \in [Universe -> 0..MaxSpecs]
        /\ results' \in [Universe -> SUBSET plan.families]
    BY <1>3 DEF TeamTypeOK, Busy, Alone
  <1>5. TeamTypeOK' BY <1>2, <1>3, <1>4 DEF TeamTypeOK, Tasks
  <1>6. BrowserInv' BY <1>2 DEF TeamIInv, BrowserInv
  <1>7. AnalystInv(t)'
    BY <1>1, <1>2, <1>3 DEF AnalystInv, Busy, Complete
  <1>8. ASSUME NEW u \in Universe \ {t} PROVE AnalystInv(u)'
    <2>1. /\ stage'[u] = stage[u] /\ rest'[u] = rest[u] /\ specs'[u] = specs[u]
          /\ family'[u] = family[u] /\ results'[u] = results[u]
      BY <1>3 DEF TeamTypeOK, Alone
    <2>2. AnalystInv(u) BY DEF TeamIInv
    <2> QED BY <1>2, <2>1, <2>2 DEF AnalystInv
  <1>9. OutcomeIsJust' BY <1>1, <1>2 DEF TeamIInv, OutcomeIsJust, Ends
  <1> QED BY <1>5, <1>6, <1>7, <1>8, <1>9 DEF TeamIInv

LEMMA AnalystStep == ASSUME TeamIInv, NEW t \in Universe, Analyse(t) PROVE TeamIInv'
  <1>1. TeamTypeOK /\ AnalystInv(t) BY DEF TeamIInv
  <1>2. /\ stage[t] \in Busy
        /\ UNCHANGED <<phase, plan, browserVars, poolVars>>
    BY DEF Analyse, LoadPrices, NextFamily, Screen, ScreenEmpty, Generate, Specify, Backtest,
           Analysed, AnalystFails, Busy
  <1>3. /\ rest[t] \subseteq plan.families /\ results[t] \subseteq plan.families
        /\ specs[t] \in 0..MaxSpecs /\ plan.families \subseteq Families
        /\ family[t] \in Families \cup {NoFamily}
        /\ stage \in [Universe -> {"idle", "loading", "loaded", "screening", "generating",
                                   "testing", "ok", "failed"}]
        /\ rest \in [Universe -> SUBSET Families]
        /\ family \in [Universe -> Families \cup {NoFamily}]
        /\ specs \in [Universe -> 0..MaxSpecs]
        /\ results \in [Universe -> SUBSET plan.families]
    BY <1>1 DEF TeamTypeOK, AnalystInv
  <1>4. CASE LoadPrices(t) \/ AnalystFails(t)
    <2>1. /\ stage' = [stage EXCEPT ![t] = "loaded"] \/ stage' = [stage EXCEPT ![t] = "failed"]
          /\ UNCHANGED <<rest, family, specs, results>>
      BY <1>4 DEF LoadPrices, AnalystFails, Becomes
    <2>2. Alone(t) /\ stage'[t] \in {"loaded", "failed"} BY <1>2, <1>3, <2>1 DEF Alone
    <2> QED BY <1>2, <1>3, <2>1, <2>2, OneAnalyst DEF Busy
  <1>5. CASE NextFamily(t)
    <2>1. PICK f \in rest[t] :
              /\ rest' = [rest EXCEPT ![t] = @ \ {f}]
              /\ family' = [family EXCEPT ![t] = f]
              /\ stage' = [stage EXCEPT ![t] =
                             IF f \in Screened THEN "screening" ELSE "generating"]
      BY <1>5 DEF NextFamily, Becomes
    <2>2. specs' = specs /\ results' = results BY <1>5 DEF NextFamily
    <2>3. f \in plan.families /\ f \in Families BY <1>3
    <2>4. /\ Alone(t) /\ stage'[t] \in {"screening", "generating"}
          /\ rest'[t] \subseteq rest[t] /\ family'[t] = f
      BY <1>2, <1>3, <2>1, <2>2 DEF Alone
    <2> QED BY <1>2, <1>3, <2>2, <2>3, <2>4, OneAnalyst DEF Busy
  <1>6. CASE Screen(t) \/ Generate(t)
    <2>1. PICK n \in 1..MaxSpecs : Specify(t, n) BY <1>6 DEF Screen, Generate
    <2>2. /\ specs' = [specs EXCEPT ![t] = n] /\ stage' = [stage EXCEPT ![t] = "testing"]
          /\ UNCHANGED <<rest, family, results>>
      BY <2>1 DEF Specify, Becomes
    <2>3. family[t] \in plan.families
      BY <1>1, <1>6 DEF Screen, Generate, AnalystInv
    <2>4. /\ Alone(t) /\ stage'[t] = "testing"
          /\ specs'[t] \in 0..MaxSpecs /\ specs'[t] >= 1
      BY <1>2, <1>3, <2>2, TeamAssumption DEF Alone
    <2> QED BY <1>2, <1>3, <2>2, <2>3, <2>4, OneAnalyst DEF Busy
  <1>7. CASE ScreenEmpty(t)
    <2>1. /\ stage' = [stage EXCEPT ![t] = "generating"]
          /\ UNCHANGED <<rest, family, specs, results>>
      BY <1>7 DEF ScreenEmpty, Becomes
    <2>2. family[t] \in plan.families BY <1>1, <1>7 DEF ScreenEmpty, AnalystInv
    <2>3. Alone(t) /\ stage'[t] = "generating" BY <1>2, <1>3, <2>1 DEF Alone
    <2> QED BY <1>2, <1>3, <2>1, <2>2, <2>3, OneAnalyst DEF Busy
  <1>8. CASE Backtest(t)
    <2>1. /\ stage[t] = "testing" /\ specs' = [specs EXCEPT ![t] = @ - 1]
          /\ stage' = [stage EXCEPT ![t] = IF specs[t] = 1 THEN "loaded" ELSE "testing"]
          /\ UNCHANGED <<rest, family>>
          /\ \/ results' = [results EXCEPT ![t] = @ \cup {family[t]}]
             \/ results' = results
      BY <1>8 DEF Backtest, Becomes
    <2>2. family[t] \in plan.families /\ specs[t] >= 1
      BY <1>1, <2>1 DEF AnalystInv
    <2>3. Alone(t) BY <1>2, <1>3, <2>1 DEF Alone
    <2>4. /\ specs'[t] = specs[t] - 1 /\ specs'[t] \in 0..MaxSpecs
          /\ stage'[t] \in {"loaded", "testing"}
          /\ stage'[t] = "testing" => specs'[t] >= 1
      BY <1>3, <2>1, <2>2, TeamAssumption
    <2>5. results'[t] \subseteq plan.families BY <1>3, <2>1, <2>2
    <2> QED BY <1>2, <1>3, <2>1, <2>2, <2>3, <2>4, <2>5, OneAnalyst DEF Busy
  <1>9. CASE Analysed(t)
    <2>1. /\ rest[t] = {} /\ stage' = [stage EXCEPT ![t] = "ok"]
          /\ UNCHANGED <<rest, family, specs, results>>
      BY <1>9 DEF Analysed, Becomes
    <2>2. Alone(t) /\ stage'[t] = "ok" BY <1>2, <1>3, <2>1 DEF Alone
    <2> QED BY <1>2, <1>3, <2>1, <2>2, OneAnalyst DEF Busy
  <1> QED BY <1>4, <1>5, <1>6, <1>7, <1>8, <1>9 DEF Analyse

-----------------------------------------------------------------------------
LEMMA PlanStep == ASSUME TeamIInv, Plan PROVE TeamIInv'
  <1>1. phase = "planning" /\ phase' = "analysing"
        /\ UNCHANGED <<asking, others, family, specs, results>>
    BY DEF Plan, ScheduleBrowser
  <1>2. PICK ts \in SUBSET Universe, fs \in SUBSET Families :
          /\ plan' = [tickers |-> ts, families |-> fs]
          /\ stage' = [t \in Universe |-> IF t \in ts THEN "loading" ELSE "idle"]
          /\ rest' = [t \in Universe |-> IF t \in ts THEN fs ELSE {}]
    BY DEF Plan
  <1>3. /\ TeamTypeOK /\ others \in 0..MaxTasks /\ MaxTasks \in Nat
        /\ browser = "none" /\ slot = FALSE /\ dropped = FALSE
        /\ \A t \in Universe : results[t] = {}
    BY <1>1, TeamAssumption
       DEF TeamIInv, TeamTypeOK, BrowserInv, PhaseBrowser, AnalystInv
  <1>4. /\ browser' \in {"pooled", "unstarted"}
        /\ slot' \in BOOLEAN /\ (slot' => browser' = "pooled")
        /\ dropped' \in BOOLEAN /\ (dropped' => ~slot' /\ browser' = "unstarted")
        /\ Tasks' <= MaxTasks
    <2>1. Tasks = others BY <1>3 DEF Tasks
    <2>2. CASE Tasks < MaxTasks
      <3>1. browser' = "pooled" /\ slot' = TRUE /\ dropped' = FALSE
        BY <1>3, <2>2 DEF Plan, ScheduleBrowser
      <3>2. Tasks' = others + 1 BY <1>1, <3>1 DEF Tasks
      <3>3. Tasks' <= MaxTasks BY <1>3, <2>1, <2>2, <3>2
      <3> QED BY <3>1, <3>3
    <2>3. CASE ~(Tasks < MaxTasks)
      <3>1. browser' = "unstarted" /\ slot' = FALSE /\ dropped' = TRUE
        BY <1>3, <2>3 DEF Plan, ScheduleBrowser
      <3>2. Tasks' = others + 0 BY <1>1, <3>1 DEF Tasks
      <3>3. Tasks' <= MaxTasks BY <1>3, <3>2
      <3> QED BY <3>1, <3>3
    <2> QED BY <2>2, <2>3
  <1>5. plan'.tickers = ts /\ plan'.families = fs BY <1>2
  <1>6. TeamTypeOK'
    <2>1. plan' \in [tickers : SUBSET Universe, families : SUBSET Families] BY <1>2
    <2>2. /\ stage' \in [Universe -> {"idle", "loading", "loaded", "screening",
                                      "generating", "testing", "ok", "failed"}]
          /\ rest' \in [Universe -> SUBSET Families]
      BY <1>2
    <2>3. results' \in [Universe -> SUBSET plan'.families]
      BY <1>1, <1>3 DEF TeamTypeOK
    <2> QED BY <1>1, <1>3, <1>4, <2>1, <2>2, <2>3 DEF TeamTypeOK
  <1>7. BrowserInv' BY <1>1, <1>4 DEF BrowserInv, PhaseBrowser
  <1>8. \A t \in Universe : AnalystInv(t)'
    BY <1>1, <1>2, <1>5 DEF AnalystInv, Complete
  <1>9. OutcomeIsJust' BY <1>1, <1>4 DEF OutcomeIsJust, Ends
  <1> QED BY <1>6, <1>7, <1>8, <1>9 DEF TeamIInv

(* The steps of the team after the plan: analysts are only looked at.      *)
LEMMA TeamStep ==
    ASSUME TeamIInv, PlanFails \/ GatherAnalysts \/ Collect \/ Review \/ Insights \/ Narrate
    PROVE  TeamIInv'
  <1>1. /\ UNCHANGED <<plan, asking, dropped, slot, others, stage, rest, family, specs, results>>
        /\ browser' = IF browser = "unstarted" THEN "running" ELSE browser
        /\ phase \notin {"ok", "failed", "raised"}
        /\ phase' # "planning" /\ phase' # "analysing"
    BY DEF PlanFails, GatherAnalysts, Collect, Review, Insights, Narrate,
           browserVars, poolVars, analystVars, TeamIInv, BrowserInv, PhaseBrowser
  <1>2. TeamTypeOK /\ BrowserInv /\ \A t \in Universe : AnalystInv(t)
    BY DEF TeamIInv
  <1>3. phase' \in {"browsing", "reviewing", "insights", "narrating", "ok", "failed", "raised"}
    BY DEF PlanFails, GatherAnalysts, Collect, Review, Insights, Narrate
  <1>4. TeamTypeOK' BY <1>1, <1>2, <1>3 DEF TeamTypeOK, Tasks, Ends
  <1>5. BrowserInv'
    BY <1>1, <1>2 DEF PlanFails, GatherAnalysts, Collect, Review, Insights, Narrate,
           BrowserInv, PhaseBrowser
  <1>6. plan.tickers \subseteq Universe BY <1>2 DEF TeamTypeOK
  <1>7. \A t \in plan.tickers : /\ stage[t] \in {"ok", "failed"}
                                /\ phase' \in Complete => stage[t] = "ok"
    BY <1>2, <1>6 DEF PlanFails, GatherAnalysts, Collect, Review, Insights, Narrate,
           AnalystInv, Complete
  <1>8. \A t \in Universe : AnalystInv(t)'
    BY <1>1, <1>2, <1>7 DEF AnalystInv
  <1>9. OutcomeIsJust'
    <2>1. NoResults' = NoResults BY <1>1 DEF NoResults
    <2>2. phase' \in {"insights", "narrating", "ok"} =>
              (\A t \in plan.tickers : stage[t] = "ok" /\ rest[t] = {}) /\ ~NoResults
      <3>1. phase' \in {"insights", "narrating", "ok"} => ~NoResults
        BY DEF PlanFails, GatherAnalysts, Collect, Review, Insights, Narrate, TeamIInv,
               OutcomeIsJust
      <3> QED BY <1>2, <1>6, <1>7, <3>1 DEF AnalystInv, Complete
    <2>3. phase' = "failed" =>
              \/ browser = "none" /\ \A t \in Universe : stage[t] = "idle"
              \/ \E t \in plan.tickers : stage[t] = "failed"
              \/ NoResults
      BY <1>2 DEF PlanFails, GatherAnalysts, Collect, Review, Insights, Narrate, AnalystInv,
               BrowserInv, PhaseBrowser
    <2>4. phase' \in Ends => /\ browser' \in {"none", "done"}
                             /\ \A t \in Universe : stage[t] \in {"idle", "ok", "failed"}
      BY <1>2, <1>5, <1>7 DEF BrowserInv, PhaseBrowser, Ends, AnalystInv
    <2>5. dropped' => ~slot' /\ browser' \in {"unstarted", "running", "done"}
      BY <1>5 DEF BrowserInv
    <2> QED BY <1>1, <2>1, <2>2, <2>3, <2>4, <2>5 DEF OutcomeIsJust
  <1> QED BY <1>4, <1>5, <1>8, <1>9 DEF TeamIInv

LEMMA TeamNextStep == TeamIInv /\ [TeamNext]_teamVars => TeamIInv'
  <1> SUFFICES ASSUME TeamIInv, [TeamNext]_teamVars PROVE TeamIInv' OBVIOUS
  <1>1. CASE Team BY <1>1, PlanStep, TeamStep DEF Team
  <1>2. CASE Browse \/ Discard \/ OtherStarts \/ OtherEnds BY <1>2, PoolStep
  <1>3. CASE \E t \in Universe : Analyse(t) BY <1>3, AnalystStep
  <1>4. CASE UNCHANGED teamVars
    <2>1. UNCHANGED <<phase, plan, browser, asking, dropped, slot, others, analystVars>>
      BY <1>4 DEF teamVars, browserVars, poolVars
    <2>2. Tasks' = Tasks /\ (BrowserInv' <=> BrowserInv)
      BY <2>1 DEF Tasks, BrowserInv
    <2> QED BY <2>1, <2>2, AroundTheTeam DEF TeamIInv, TeamTypeOK
  <1> QED BY <1>1, <1>2, <1>3, <1>4 DEF TeamNext

(* The inductive invariant of the team holds in every reachable state.     *)
THEOREM TeamInvariance == TeamSpec => []TeamIInv
  BY TeamStart, TeamNextStep, PTL DEF TeamSpec

(* Types: the pool is never overfilled, and results belong to the plan.    *)
THEOREM TeamTypes == TeamSpec => []TeamTypeOK
  BY TeamInvariance, PTL DEF TeamIInv

(* A report rests on a complete analysis with a result, a failure has its  *)
(* reason, and nothing is left running.                                    *)
THEOREM OutcomesAreJust == TeamSpec => []OutcomeIsJust
  BY TeamInvariance, PTL DEF TeamIInv

(* What has ended stays as it ended: no analyst and no browser changes     *)
(* anything after the outcome, whatever the other tasks of the pool do.    *)
THEOREM NothingAfterTheEnd ==
    TeamSpec => [][(phase \in Ends =>
                      UNCHANGED <<phase, plan, browserVars, analystVars>>)]_teamVars
  <1>1. ASSUME TeamIInv, [TeamNext]_teamVars, phase \in Ends
        PROVE  UNCHANGED <<phase, plan, browserVars, analystVars>>
    <2>1. /\ browser \in {"none", "done"}
          /\ \A t \in Universe : stage[t] \notin Busy
      BY <1>1 DEF TeamIInv, OutcomeIsJust, Busy
    <2>2. ~Team
      BY <1>1 DEF Team, Plan, PlanFails, GatherAnalysts, Collect, Review, Insights, Narrate, Ends
    <2>3. ~Browse
      BY <2>1 DEF Browse, Similar, TickerInfo, CountTested, Researching
    <2>4. ~ \E t \in Universe : Analyse(t)
      BY <2>1 DEF Analyse, LoadPrices, NextFamily, Screen, ScreenEmpty, Generate, Backtest,
             Analysed, AnalystFails, Busy
    <2>5. CASE Discard \/ OtherStarts \/ OtherEnds
      BY <2>5 DEF Discard, OtherStarts, OtherEnds
    <2>6. CASE UNCHANGED teamVars BY <2>6 DEF teamVars
    <2> QED BY <1>1, <2>2, <2>3, <2>4, <2>5, <2>6 DEF TeamNext
  <1> QED BY <1>1, TeamInvariance, PTL DEF TeamSpec

(* The team never waits for somebody who will not come: while it gathers,  *)
(* every analyst of the plan has ended or works; when it collects, the     *)
(* browser is there or runs, also if the pool had no room for it; and a    *)
(* slot that is still held after the end is held by a task that is over.   *)
NobodyIsMissed ==
    /\ phase = "analysing" => \A t \in plan.tickers : stage[t] \in Busy \cup {"ok", "failed"}
    /\ phase = "browsing" => Researching \/ browser = "done"
    /\ phase \in Ends /\ slot => browser = "done"

THEOREM NobodyIsWaitedForInVain == TeamSpec => []NobodyIsMissed
  <1>1. TeamIInv => NobodyIsMissed
    <2> SUFFICES ASSUME TeamIInv PROVE NobodyIsMissed OBVIOUS
    <2>1. TeamTypeOK /\ BrowserInv /\ \A t \in Universe : AnalystInv(t) BY DEF TeamIInv
    <2>2. phase = "analysing" => \A t \in plan.tickers : stage[t] \in Busy \cup {"ok", "failed"}
      <3>1. plan.tickers \subseteq Universe BY <2>1 DEF TeamTypeOK
      <3> QED BY <2>1, <3>1 DEF TeamTypeOK, AnalystInv, Busy
    <2>3. phase = "browsing" => Researching \/ browser = "done"
      BY <2>1 DEF BrowserInv, PhaseBrowser, Researching
    <2>4. phase \in Ends /\ slot => browser = "done"
      BY <2>1 DEF BrowserInv, PhaseBrowser, Ends, TeamIInv, OutcomeIsJust
    <2> QED BY <2>2, <2>3, <2>4 DEF NobodyIsMissed
  <1> QED BY TeamInvariance, <1>1, PTL
=============================================================================
