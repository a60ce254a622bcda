---------------------------- MODULE MCStrategyTick ----------------------------
(* Instances of StrategyTick for TLC: a rule that buys below a price that  *)
(* Low reaches and a stale round does not, or is switched off.             *)
EXTENDS StrategyTick

CONSTANTS v1, f1, w1, w2

Buy == [enabled |-> TRUE, buy |-> 1, sell |-> None, amount |-> 1, feed |-> f1]
Off == [Buy EXCEPT !.enabled = FALSE]

Low   == [answer |-> 1, stale |-> FALSE]
Stale == [answer |-> 1, stale |-> TRUE]

BuyOrOff == {Buy, Off}
LowOrStale == {Low, Stale}
================================================================================
