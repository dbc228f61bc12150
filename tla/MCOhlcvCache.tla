----------------------------- MODULE MCOhlcvCache -----------------------------
(***************************************************************************)
(* Two loads that may overlap, of one ticker and of two; three candles, of *)
(* which two are enough: windows fall short, overlap, and are filled in    *)
(* part by other windows.                                                  *)
(***************************************************************************)
EXTENDS OhlcvCache, TLC

CONSTANTS sber, gazp, l1, l2

MCRequests ==
    [l \in {l1, l2} |->
        IF l = l1 THEN {[window |-> {1, 2, 3}, tickers |-> {sber, gazp}]}
                  ELSE {[window |-> {b, b + 1}, tickers |-> {sber}] : b \in {1, 2}}]
=============================================================================
