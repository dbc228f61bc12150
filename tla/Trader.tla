-------------------------------- MODULE Trader --------------------------------
(***************************************************************************)
(* What a backtest promises to be: the account of somebody who is in the   *)
(* market.  The position for the next bar is decided, and paid for, before *)
(* anybody knows the price of that bar, and the past does not change.      *)
(***************************************************************************)
EXTENDS Integers, Sequences

CONSTANTS Prices, Scale

VARIABLES last,    (* the last price                                       *)
          held,    (* the position for the next bar                        *)
          before,  (* the position of the last bar                         *)
          fee,     (* for one unit of turnover                             *)
          account  (* the return of each bar                               *)

Positions == {-1, 0, 1}
Turnover == IF held >= before THEN held - before ELSE before - held
Gain(p) == IF account = <<>> THEN 0 ELSE held * ((Scale * (p - last)) \div last)

Init ==
    /\ last = 0
    /\ held = 0
    /\ before = 0
    /\ fee \in Nat
    /\ account = <<>>

Bar(p) ==
    /\ last' = p
    /\ account' = Append(account, Gain(p) - fee * Turnover)
    /\ before' = held
    /\ held' \in Positions
    /\ UNCHANGED fee

Next == \E p \in Prices : Bar(p)

Spec == Init /\ [][Next]_<<last, held, before, fee, account>>
=============================================================================
