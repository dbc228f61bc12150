------------------------------ MODULE MCBacktest ------------------------------
(* Two prices, so that returns and means differ, and series of two windows;*)
(* four blocks, of which two are tested, with and without a remainder.     *)
EXTENDS Backtest

MCThreshold == <<1, 2>>
=============================================================================
