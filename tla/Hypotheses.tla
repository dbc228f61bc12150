------------------------------ MODULE Hypotheses ------------------------------
(***************************************************************************)
(* aqr/pipeline/hypotheses.py: the four families of signals.  A signal     *)
(* turns a series of prices into a position per bar: 1, 0 or -1.           *)
(*                                                                         *)
(* Prices are positive integers and returns are integers too, in units of  *)
(* 1/Scale, where Scale is a multiple of every price, so that nothing is   *)
(* rounded; comparisons with means and standard deviations are written     *)
(* without division.  Bars are numbered from 1.  A NaN, which pandas gives *)
(* for a window that is not full or has no deviation, compares as false.   *)
(***************************************************************************)
EXTENDS Integers, Sequences, FiniteSets, SequencesExt

CONSTANTS Scale,      (* one, in the units of returns                      *)
          Lookbacks,  (* window lengths of the hypotheses                  *)
          Threshold,  (* of the z-score of a price, a pair <<num, den>>    *)
          Calm        (* vol_threshold, in the units of returns            *)

ASSUME HypothesesAssumption ==
    /\ Scale \in Nat \ {0}
    /\ Lookbacks \subseteq Nat \ {0}
    /\ Threshold \in (Nat \ {0}) \X (Nat \ {0})
    /\ Calm \in Nat

-----------------------------------------------------------------------------
Sign(b) == IF b THEN 1 ELSE 0

(* rolling(n): the n values up to bar i.                                   *)
Window(s, i, n) == SubSeq(s, i - n + 1, i)

Total(w) == FoldLeft(+, 0, w)
Squares(w) == FoldLeft(LAMBDA q, x : q + x * x, 0, w)

(* Len^2 - Len times the variance (ddof = 1) of w.                         *)
Spread(w) == Len(w) * Squares(w) - Total(w) * Total(w)

(* pct_change: NaN for the first bar, which no window below reaches.       *)
Change(s, i) == IF i = 1 THEN 0 ELSE (Scale * (s[i] - s[i - 1])) \div s[i - 1]
Changes(s) == [i \in 1..Len(s) |-> Change(s, i)]

(* Whether the last value of w is more than t[1]/t[2] deviations above     *)
(* (side = 1) or below (side = -1) the mean of w.                          *)
Outlier(w, t, side) ==
    LET n == Len(w)
        d == side * (n * w[n] - Total(w))
    IN  /\ n > 1
        /\ d > 0
        /\ d * d * (n - 1) * t[2] * t[2] > t[1] * t[1] * n * Spread(w)

ZScore(w, t) == Sign(Outlier(w, t, 1)) - Sign(Outlier(w, t, -1))

(* _sma_crossover *)
SmaCrossover(s, i, fast, slow) ==
    IF i <= slow THEN 0
    ELSE IF i >= fast /\ Total(Window(s, i, fast)) * slow > Total(Window(s, i, slow)) * fast
         THEN 1 ELSE -1

(* _mean_reversion: against an outlier of the price.                       *)
MeanReversion(s, i, n) == IF i <= n THEN 0 ELSE -ZScore(Window(s, i, n), Threshold)

(* _volatility_filter: _momentum_zscore, with an outlier of the return by  *)
(* one deviation, where returns deviate by more than Calm.                 *)
Volatile(w) == Len(w) > 1 /\ Spread(w) > Calm * Calm * Len(w) * (Len(w) - 1)

VolatilityFilter(s, i, n) ==
    IF i <= n THEN 0
    ELSE LET w == Window(Changes(s), i, n)
         IN  IF Volatile(w) THEN ZScore(w, <<1, 1>>) ELSE 0

(* Mutant: the channel looks one bar ahead. *)
BreaksAhead(s, i, n, side) ==
    LET w == Window(s, i - 1, n)
        p == IF i < Len(s) THEN s[i + 1] ELSE s[i]
    IN  \A j \in 1..n : side * p >= side * w[j]

(* The price reaches the top (side = 1) or the bottom of the last n bars.  *)
Breaks(s, i, n, side) ==
    LET w == Window(s, i - 1, n)
    IN  \A j \in 1..n : side * s[i] >= side * w[j]

(* _breakout: a break of the top, and otherwise one of the bottom, is      *)
(* followed until the next break of the other side.                        *)
Breakout(s, i, n) ==
    LET Up(j) == Breaks(s, j, n, 1)
        Down(j) == Breaks(s, j, n, -1) /\ ~Up(j)
    IN  IF \E j \in (n + 1)..i : Up(j) /\ \A k \in j..i : ~Down(k) THEN 1
        ELSE IF \E j \in (n + 1)..i : Down(j) /\ \A k \in j..i : ~Up(k) THEN -1
        ELSE 0

(* _make_spec: a known family with its parameters; momentum has two.       *)
Hypothesis ==
    [family : {"momentum"}, fast : Lookbacks, slow : Lookbacks]
      \cup [family : {"mean_reversion", "breakout", "volatility"}, lookback : Lookbacks]

(* spec.fn at bar i.                                                       *)
Signal(h, s, i) ==
    CASE h.family = "momentum" -> SmaCrossover(s, i, h.fast, h.slow)
      [] h.family = "mean_reversion" -> MeanReversion(s, i, h.lookback)
      [] h.family = "breakout" -> Breakout(s, i, h.lookback)
      [] h.family = "volatility" -> VolatilityFilter(s, i, h.lookback)
=============================================================================
