----------------------------- MODULE StrategyRule -----------------------------
(***************************************************************************)
(* The pure part of a strategy scan: the token rule as vault_reader.py     *)
(* hands it over, the price as price_feed.py and the price cache hand it   *)
(* over, and the decision of evaluate_rule.                                *)
(*                                                                         *)
(* Prices and thresholds are integers in one unit.  None, Python's null,   *)
(* is the number 0: a raw threshold of 0 is read as None, a non-positive   *)
(* answer never becomes a price, so 0 is neither a threshold nor a price   *)
(* once it has been read.                                                  *)
(***************************************************************************)
EXTENDS Integers

None == 0

Actions == {"buy", "sell"}

(* A token rule on chain: thresholds, the amount of a trade and the feed   *)
(* that prices the token (the ETH/USD default when the vault names none).  *)
Rule(Feeds) == [enabled: BOOLEAN, buy: Nat, sell: Nat, amount: Nat, feed: Feeds]

(* The latest round of a feed and whether it is older than stale_seconds.  *)
Round == [answer: Int, stale: BOOLEAN]

(* _iter_active_rules: the rules a scan goes on with.                      *)
IsActive(rule) ==
    /\ rule.enabled
    /\ rule.amount # 0
    /\ rule.buy # None \/ rule.sell # None

(* get_chainlink_price and _build_price_cache: no price for a non-positive *)
(* answer, and none for a stale one.                                       *)
UsablePrice(round) ==
    IF round.answer > 0 /\ ~round.stale THEN round.answer ELSE None

BuyHit(rule, price)  == rule.buy # None /\ price <= rule.buy
SellHit(rule, price) == rule.sell # None /\ price >= rule.sell

(* The threshold the price has reached: buy is looked at first.            *)
Signal(rule, price) ==
    IF BuyHit(rule, price) THEN "buy"
    ELSE IF SellHit(rule, price) THEN "sell" ELSE "none"

EvaluateRuleAnytime(rule, price, elapsed, cooldown) ==
    IF price > 0 THEN Signal(rule, price) ELSE "none"

(* evaluate_rule, called only with a price: elapsed is the time since the  *)
(* rule's last execution, at least cooldown when there was none.           *)
EvaluateRule(rule, price, elapsed, cooldown) ==
    IF price > 0 /\ elapsed >= cooldown THEN Signal(rule, price) ELSE "none"
===============================================================================
