------------------------------- MODULE Backtest -------------------------------
(***************************************************************************)
(* aqr/tools/core.py, backtest_one, and aqr/executor/nautilus.py,          *)
(* execute_with_slippage: a hypothesis is tried on a series of prices; the *)
(* signal of a bar is the position of the next, positions give returns,    *)
(* less costs with the executor, and returns are judged as a whole and, by *)
(* backtest_one, on the paths of PurgedFolds with instant labels.          *)
(*                                                                         *)
(* A longer series of prices is loaded bar by bar, so that the backtests   *)
(* of a series and of its beginnings can be compared.  The statistics      *)
(* themselves (Sharpe ratio, DSR, drawdown) are left out: a verdict is     *)
(* "scored" or says why there is none.                                     *)
(***************************************************************************)
EXTENDS Hypotheses, PurgedFolds

CONSTANTS Prices,      (* prices of a bar                                  *)
          Fees,        (* costs of one unit of turnover; 0: backtest_one   *)
          MaxBars,     (* bound: bars                                      *)
          MinReturns,  (* returns that are enough for a score (30)         *)
          MinPrices,   (* MIN_PRICES of the executor (126)                 *)
          MinTest,     (* observations that make a path count (20)         *)
          NoHypothesis (* a caller that wants paths only                   *)

ASSUME BacktestAssumption ==
    /\ Prices \subseteq Nat \ {0}
    /\ \A p \in Prices : Scale % p = 0
    /\ Fees \subseteq Nat /\ 0 \in Fees
    /\ {MaxBars, MinReturns, MinPrices, MinTest} \subseteq Nat
    /\ MaxBars <= MaxObs
    /\ NoHypothesis \notin Hypothesis

VARIABLES prices,   (* what was loaded                                     *)
          asked,    (* the hypothesis                                      *)
          fee,      (* costs of the venue                                  *)
          verdict,  (* "none", "refused", "insufficient" or "scored"       *)
          used      (* paths whose Sharpe ratio counts                     *)

series == <<prices, asked, fee>>
vars == <<series, verdict, used, folds>>

-----------------------------------------------------------------------------
Bars == 1..Len(prices)

(* pos.shift(1).fillna(0): the position during bar i.                      *)
Held(i) == IF i <= 1 THEN 0 ELSE Signal(asked, prices, i - 1)

Turned(i) == IF Held(i) >= Held(i - 1) THEN Held(i) - Held(i - 1) ELSE Held(i - 1) - Held(i)

(* strat_ret *)
Returns == [i \in Bars |-> Held(i) * Change(prices, i) - fee * Turned(i)]

(* A standard deviation of zero.                                           *)
Flat(r, is) == \A i, j \in is : r[i] = r[j]

Insufficient == Len(prices) < MinReturns \/ Flat(Returns, Bars)

Init ==
    /\ Idle
    /\ prices = <<>>
    /\ \/ asked \in Hypothesis /\ fee \in Fees
       \/ asked = NoHypothesis /\ fee = 0
    /\ verdict = "none"
    /\ used = 0

Waiting == asked # NoHypothesis /\ step = "idle" /\ verdict = "none"

Load(p) ==
    /\ Waiting
    /\ Len(prices) < MaxBars
    /\ prices' = Append(prices, p)
    /\ UNCHANGED <<asked, fee, verdict, used, folds>>

(* backtest_one; scores are made path by path (_cpcv_sharpe).              *)
BacktestOne ==
    /\ Waiting /\ fee = 0
    /\ IF Insufficient
          THEN verdict' = "insufficient" /\ UNCHANGED folds
          ELSE UNCHANGED verdict /\ Split(Len(prices), [o \in 0..(Len(prices) - 1) |-> o])
    /\ UNCHANGED <<series, used>>

(* A path with few tested returns, or with equal ones, does not count.     *)
Score ==
    /\ asked # NoHypothesis
    /\ Yield
    /\ used' = IF Cardinality(Test) < MinTest \/ Flat(Returns, {o + 1 : o \in Test})
                  THEN used ELSE used + 1
    /\ UNCHANGED <<series, verdict>>

Scored ==
    /\ asked # NoHypothesis
    /\ Exhausted
    /\ verdict' = "scored"
    /\ UNCHANGED <<series, used>>

Fold ==
    /\ NextPath \/ Purge \/ Embargo
    /\ UNCHANGED <<series, verdict, used>>

(* execute_with_slippage: it raises when prices are few; a flat market is  *)
(* no evidence, whatever the costs.                                        *)
Execute ==
    /\ Waiting /\ fee > 0
    /\ verdict' = IF Len(prices) < MinPrices THEN "refused"
                  ELSE IF Flat(Changes(prices), Bars) \/ Insufficient THEN "insufficient"
                  ELSE "scored"
    /\ UNCHANGED <<series, used, folds>>

(* Another caller of split, with labels of its own.                        *)
Research ==
    /\ asked = NoHypothesis
    /\ Labelled \/ Yield \/ Exhausted
    /\ UNCHANGED <<series, verdict, used>>

Next ==
    \/ \E p \in Prices : Load(p)
    \/ BacktestOne \/ Fold \/ Score \/ Scored \/ Execute \/ Research

Spec == Init /\ [][Next]_vars

-----------------------------------------------------------------------------
TypeOK ==
    /\ FoldsTypeOK
    /\ prices \in Seq(Prices) /\ Len(prices) <= MaxBars
    /\ asked \in Hypothesis \cup {NoHypothesis}
    /\ fee \in Fees
    /\ verdict \in {"none", "refused", "insufficient", "scored"}
    /\ used \in 0..Cardinality(Combos)

(* No look-ahead: whatever the hypothesis, its backtest is the account of  *)
(* a trader who decides on a bar before its price is known; more history   *)
(* never changes what the backtest says of earlier bars.                   *)
Account == INSTANCE Trader WITH
    last <- IF prices = <<>> THEN 0 ELSE prices[Len(prices)],
    held <- Held(Len(prices) + 1),
    before <- Held(Len(prices)),
    account <- Returns

ImplementsTrader == Account!Spec
=============================================================================
