--------------------------- MODULE MCTradingPipeline ---------------------------
(* Instances of TradingPipeline for TLC.                                   *)
EXTENDS TradingPipeline, TLC

CONSTANTS v1, f1, w1, w2, t1, t2, e1

Buy  == [enabled |-> TRUE, buy |-> 1, sell |-> 0, amount |-> 1, feed |-> f1]
Low  == [answer |-> 1, stale |-> FALSE]
High == [answer |-> 2, stale |-> FALSE]

Off  == [Buy EXCEPT !.enabled = FALSE]

BuyOnly == {Buy}
BuyOrOff == {Buy, Off}
LowOnly == {Low}
LowOrHigh == {Low, High}
TaskSymmetry == Permutations({t1, t2})
================================================================================
