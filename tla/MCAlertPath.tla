------------------------------ MODULE MCAlertPath ------------------------------
(* Instances of AlertPath for TLC: a rule that buys below a price that Low *)
(* reaches and High does not.                                              *)
EXTENDS AlertPath

CONSTANTS v1, f1, p1, p2, m1, m2, w1, w2, c1, i1

Buy == [enabled |-> TRUE, buy |-> 1, sell |-> 0, amount |-> 1, feed |-> f1]
Low  == [answer |-> 1, stale |-> FALSE]
High == [answer |-> 2, stale |-> FALSE]

BuyOnly == {Buy}
LowOrHigh == {Low, High}
================================================================================
