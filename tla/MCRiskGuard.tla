------------------------------ MODULE MCRiskGuard ------------------------------
(* Instances of RiskGuard for TLC.  Prices take two values: Low reaches    *)
(* the buy threshold, High the sell threshold.                             *)
EXTENDS RiskGuard

CONSTANTS v1, f1, w1, w2

Both == [enabled |-> TRUE, buy |-> 1, sell |-> 2, amount |-> 1, feed |-> f1]
Off  == [Both EXCEPT !.enabled = FALSE]

Low   == [answer |-> 1, stale |-> FALSE]
High  == [answer |-> 2, stale |-> FALSE]
Stale == [answer |-> 2, stale |-> TRUE]

BothOrOff == {Both, Off}
LowHighOrStale == {Low, High, Stale}
================================================================================
