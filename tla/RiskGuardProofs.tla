----------------------------- MODULE RiskGuardProofs -----------------------------
(***************************************************************************)
(* Proofs about RiskGuard for every number of vaults, feeds and workers,   *)
(* every set of rules and rounds and every dedupe period.                  *)
(***************************************************************************)
EXTENDS RiskGuard, TLAPS

(***************************************************************************)
(* Helpers on the maps a tick builds.                                      *)
(***************************************************************************)

(* Put adds one entry and keeps the others in range.                       *)
LEMMA PutType ==
    ASSUME NEW S, NEW T, NEW f, DOMAIN f \subseteq S, f \in [DOMAIN f -> T],
           NEW x \in S, NEW y \in T
    PROVE  /\ DOMAIN Put(f, x, y) \subseteq S
           /\ Put(f, x, y) \in [DOMAIN Put(f, x, y) -> T]
BY DEF Put

(* A vault that is dealt with leaves the active rules.                     *)
LEMMA RestrictType ==
    ASSUME NEW S, NEW T, NEW f, DOMAIN f \subseteq S, f \in [DOMAIN f -> T],
           NEW R \in SUBSET DOMAIN f
    PROVE  /\ DOMAIN Restrict(f, R) \subseteq S
           /\ Restrict(f, R) \in [DOMAIN Restrict(f, R) -> T]
BY DEF Restrict

(* The empty map has any range.                                            *)
LEMMA NothingType ==
    ASSUME NEW S, NEW T
    PROVE  DOMAIN Nothing \subseteq S /\ Nothing \in [DOMAIN Nothing -> T]
BY DEF Nothing

(* A threshold that was reached is one of a side.                          *)
LEMMA SideType ==
    ASSUME NEW rule, NEW pr, Side(rule, pr) # "none"
    PROVE  Side(rule, pr) \in Actions
BY DEF Side, Signal, Actions

(* A usable price is a natural number, None when there is none.            *)
LEMMA UsablePriceType ==
    ASSUME NEW round \in RoundSet
    PROVE  UsablePrice(round) \in Nat
<1>1. round.answer \in Int
  BY RoundAssumption DEF Round
<1> QED
  BY <1>1 DEF UsablePrice, None

(***************************************************************************)
(* Type correctness.                                                       *)
(***************************************************************************)

ActiveOK ==
    /\ DOMAIN active = Workers
    /\ \A p \in Workers : /\ DOMAIN active[p] \subseteq Vaults
                          /\ active[p] \in [DOMAIN active[p] -> RuleSet]

PriceOK ==
    /\ DOMAIN price = Workers
    /\ \A p \in Workers : /\ DOMAIN price[p] \subseteq Feeds
                          /\ price[p] \in [DOMAIN price[p] -> Nat]

PickOK ==
    /\ DOMAIN pick = Workers
    /\ \A p \in Workers : pc[p] = "send" => pick[p] \in Key

LEMMA GuardTypeInit == Init => TypeOK
<1> SUFFICES ASSUME Init PROVE TypeOK
  OBVIOUS
<1>1. ActiveOK
  BY NothingType DEF Init, ActiveOK
<1>2. PriceOK
  BY NothingType DEF Init, PriceOK
<1>3. /\ dedupe \in [Key -> 0..Dedupe]
      /\ alerts \in [Key -> 0..MaxAlerts]
      /\ faults \in 0..MaxFaults
  BY DedupeAssumption, BoundAssumption DEF Init
<1>4. /\ pc \in [Workers -> {"idle", "scan", "send"}]
      /\ unread \in [Workers -> SUBSET Vaults]
      /\ PickOK
  BY DEF Init, PickOK
<1> QED
  BY <1>1, <1>2, <1>3, <1>4 DEF Init, TypeOK, ActiveOK, PriceOK, PickOK

(* Forgetting a tick keeps the types of all it touches.                    *)
LEMMA ForgetType ==
    ASSUME TypeOK, NEW p \in Workers, Forget(p)
    PROVE  /\ pc' \in [Workers -> {"idle", "scan", "send"}]
           /\ unread' \in [Workers -> SUBSET Vaults]
           /\ ActiveOK'
           /\ PriceOK'
           /\ PickOK'
<1>1. ActiveOK' /\ PriceOK'
  BY NothingType DEF TypeOK, Forget, ActiveOK, PriceOK
<1>2. PickOK'
  BY DEF TypeOK, Forget, PickOK
<1> QED
  BY <1>1, <1>2 DEF TypeOK, Forget

(* So does dealing with a vault.                                           *)
LEMMA DealType ==
    ASSUME TypeOK, NEW p \in Workers, NEW v \in Vaults, Deal(p, v)
    PROVE  ActiveOK'
<1> DEFINE R == DOMAIN active[p] \ {v}
<1>1. /\ DOMAIN Restrict(active[p], R) \subseteq Vaults
      /\ Restrict(active[p], R) \in [DOMAIN Restrict(active[p], R) -> RuleSet]
  BY RestrictType DEF TypeOK
<1> QED
  BY <1>1 DEF Deal, TypeOK, ActiveOK

LEMMA GuardTypeNext == TypeOK /\ [Next]_vars => TypeOK'
<1> SUFFICES ASSUME TypeOK, [Next]_vars PROVE TypeOK'
  OBVIOUS
<1> USE DedupeAssumption, BoundAssumption
<1>1. ASSUME NEW p \in Workers, StartTick(p) PROVE TypeOK'
  BY <1>1 DEF StartTick, TypeOK, worldVars
<1>2. ASSUME NEW p \in Workers, NEW v \in Vaults, ReadRule(p, v) PROVE TypeOK'
  <2>1. /\ DOMAIN Put(active[p], v, rules[v]) \subseteq Vaults
        /\ Put(active[p], v, rules[v]) \in [DOMAIN Put(active[p], v, rules[v]) -> RuleSet]
    BY PutType DEF TypeOK
  <2>2. ActiveOK'
    <3>1. CASE IsActive(rules[v])
      BY <1>2, <2>1, <3>1 DEF ReadRule, TypeOK, ActiveOK
    <3>2. CASE ~IsActive(rules[v])
      BY <1>2, <3>2 DEF ReadRule, TypeOK, ActiveOK
    <3> QED
      BY <3>1, <3>2
  <2> QED
    BY <1>2, <2>2 DEF ReadRule, TypeOK, ActiveOK, worldVars
<1>3. ASSUME NEW p \in Workers, NEW v \in Vaults, RuleReadFails(p, v) PROVE TypeOK'
  BY <1>3 DEF RuleReadFails, Fault, TypeOK, worldVars
<1>4. ASSUME NEW p \in Workers, NEW f \in Feeds, ReadPrice(p, f) PROVE TypeOK'
  <2>1. UsablePrice(rounds[f]) \in Nat
    BY UsablePriceType DEF TypeOK
  <2>2. PriceOK'
    BY <1>4, <2>1, PutType DEF ReadPrice, TypeOK, PriceOK
  <2> QED
    BY <1>4, <2>2 DEF ReadPrice, TypeOK, PriceOK, worldVars
<1>5. ASSUME NEW p \in Workers, NEW f \in Feeds, PriceReadFails(p, f) PROVE TypeOK'
  <2>1. None \in Nat
    BY DEF None
  <2>2. /\ DOMAIN Put(price[p], f, None) \subseteq Feeds
        /\ Put(price[p], f, None) \in [DOMAIN Put(price[p], f, None) -> Nat]
    BY <2>1, PutType DEF TypeOK
  <2>3. PriceOK'
    BY <1>5, <2>2 DEF PriceReadFails, TypeOK, PriceOK
  <2> QED
    BY <1>5, <2>3 DEF PriceReadFails, Fault, TypeOK, PriceOK, worldVars
<1>6. ASSUME NEW p \in Workers, NEW v \in Vaults, Skip(p, v) PROVE TypeOK'
  <2>1. ActiveOK'
    BY <1>6, DealType DEF Skip
  <2> QED
    BY <1>6, <2>1 DEF Skip, TypeOK, ActiveOK, worldVars
<1>7. ASSUME NEW p \in Workers, NEW v \in Vaults, Claim(p, v) PROVE TypeOK'
  <2>1. ActiveOK'
    BY <1>7, DealType DEF Claim
  <2>2. <<v, SideOf(p, v)>> \in Key
    BY <1>7, SideType DEF Claim, SideOf, Key
  <2>3. PickOK'
    BY <1>7, <2>2 DEF Claim, TypeOK, PickOK
  <2>4. dedupe' \in [Key -> 0..Dedupe]
    BY <1>7, <2>2 DEF Claim, SetKey, TypeOK
  <2> QED
    BY <1>7, <2>1, <2>3, <2>4 DEF Claim, TypeOK, ActiveOK, PickOK, worldVars
<1>8. ASSUME NEW p \in Workers, Send(p) PROVE TypeOK'
  <2>1. alerts' \in [Key -> 0..MaxAlerts]
    BY <1>8 DEF Send, TypeOK
  <2>2. PickOK'
    BY <1>8 DEF Send, TypeOK, PickOK
  <2> QED
    BY <1>8, <2>1, <2>2 DEF Send, TypeOK, PickOK, worldVars
<1>9. ASSUME NEW p \in Workers, EndTick(p) PROVE TypeOK'
  BY <1>9, ForgetType DEF EndTick, TypeOK, ActiveOK, PriceOK, PickOK, worldVars
<1>10. ASSUME NEW p \in Workers, Abort(p) PROVE TypeOK'
  BY <1>10, ForgetType DEF Abort, Fault, TypeOK, ActiveOK, PriceOK, PickOK, worldVars
<1>11. ASSUME NEW v \in Vaults, NEW r \in RuleSet, SetRule(v, r) PROVE TypeOK'
  BY <1>11 DEF SetRule, TypeOK, tickVars
<1>12. ASSUME NEW f \in Feeds, NEW r \in RoundSet, NewRound(f, r) PROVE TypeOK'
  BY <1>12 DEF NewRound, TypeOK, tickVars
<1>13. ASSUME NEW k \in Key, Taken(k) PROVE TypeOK'
  BY <1>13 DEF Taken, TypeOK, tickVars, worldVars
<1>14. CASE Clock
  BY <1>14 DEF Clock, Expire, TypeOK, tickVars, worldVars
<1>15. CASE UNCHANGED vars
  BY <1>15 DEF vars, tickVars, worldVars, TypeOK
<1> QED
  BY <1>1, <1>2, <1>3, <1>4, <1>5, <1>6, <1>7, <1>8, <1>9, <1>10, <1>11,
     <1>12, <1>13, <1>14, <1>15 DEF Next, TickStep, TickFault

(* Every variable keeps its type in every behaviour of the risk guard.     *)
THEOREM GuardTypeCorrect == Spec => []TypeOK
BY GuardTypeInit, GuardTypeNext, PTL DEF Spec

(***************************************************************************)
(* The ticks implement the gate, though nothing keeps them from            *)
(* overlapping: a key that is set names one claim.                         *)
(***************************************************************************)

AgeOf == [k \in Key |-> Dedupe - dedupe[k]]
ClaimsOf == {<<p, pick[p]>> : p \in {q \in Workers : pc[q] = "send"}}

LEMMA GateInit == Init => Gate!Init
<1> SUFFICES ASSUME Init PROVE Gate!Init
  OBVIOUS
<1>1. AgeOf = [k \in Key |-> Dedupe]
  BY DedupeAssumption DEF Init, AgeOf
<1>2. ClaimsOf = {}
  BY DEF Init, ClaimsOf
<1> QED
  BY <1>1, <1>2 DEF Init, Gate!Init, AgeOf, ClaimsOf

(* A step that touches neither keys, claims nor alerts stutters.           *)
LEMMA GateStutter ==
    ASSUME UNCHANGED <<dedupe, pc, pick, alerts>>
    PROVE  [Gate!Next]_(Gate!gateVars)
<1>1. AgeOf' = AgeOf /\ ClaimsOf' = ClaimsOf /\ alerts' = alerts
  BY DEF AgeOf, ClaimsOf
<1> QED
  BY <1>1 DEF Gate!gateVars, AgeOf, ClaimsOf

(* A tick that ends loses its claim, if it has one.                        *)
LEMMA GateForget ==
    ASSUME TypeOK, NEW p \in Workers, Forget(p), UNCHANGED <<dedupe, alerts>>
    PROVE  [Gate!Next]_(Gate!gateVars)
<1>1. AgeOf' = AgeOf
  BY DEF AgeOf
<1>2. /\ pc'[p] = "idle"
      /\ \A q \in Workers \ {p} : pc'[q] = pc[q] /\ pick'[q] = pick[q]
  BY DEF TypeOK, Forget
<1>3. CASE pc[p] = "send"
  <2>1. PICK k \in Key : k = pick[p]
    BY <1>3 DEF TypeOK
  <2>2. <<p, k>> \in ClaimsOf /\ ClaimsOf' = ClaimsOf \ {<<p, k>>}
    BY <1>2, <1>3, <2>1 DEF ClaimsOf
  <2>3. Gate!Lose(p, k)
    BY <1>1, <2>2 DEF Gate!Lose, AgeOf, ClaimsOf
  <2> QED
    BY <2>3 DEF Gate!Next
<1>4. CASE pc[p] # "send"
  <2>1. ClaimsOf' = ClaimsOf
    BY <1>2, <1>4 DEF ClaimsOf
  <2> QED
    BY <1>1, <2>1 DEF Gate!gateVars, AgeOf, ClaimsOf
<1> QED
  BY <1>3, <1>4

LEMMA GateNext == TypeOK /\ [Next]_vars => [Gate!Next]_(Gate!gateVars)
<1> SUFFICES ASSUME TypeOK, [Next]_vars PROVE [Gate!Next]_(Gate!gateVars)
  OBVIOUS
<1> DEFINE Goal == [Gate!Next]_(Gate!gateVars)
<1>1. ASSUME NEW p \in Workers, StartTick(p) PROVE Goal
  <2>1. ClaimsOf' = ClaimsOf
    BY <1>1 DEF StartTick, TypeOK, ClaimsOf
  <2>2. AgeOf' = AgeOf /\ alerts' = alerts
    BY <1>1 DEF StartTick, AgeOf
  <2> QED
    BY <2>1, <2>2 DEF Gate!gateVars, AgeOf, ClaimsOf
<1>2. ASSUME NEW p \in Workers, NEW v \in Vaults, Claim(p, v) PROVE Goal
  <2>1. PICK k \in Key : k = <<v, SideOf(p, v)>>
    BY <1>2, SideType DEF Claim, SideOf, Key
  <2>2. /\ pc[p] = "scan" /\ pc' = [pc EXCEPT ![p] = "send"]
        /\ pick' = [pick EXCEPT ![p] = k]
        /\ dedupe[k] = 0 /\ dedupe' = [dedupe EXCEPT ![k] = Dedupe]
        /\ alerts' = alerts
    BY <1>2, <2>1 DEF Claim, SetKey, Deal, Priced
  <2>3. AgeOf[k] = Dedupe /\ AgeOf' = [AgeOf EXCEPT ![k] = 0]
    <3>1. dedupe \in [Key -> Int]
      BY DEF TypeOK
    <3>2. Dedupe - 0 = Dedupe /\ Dedupe - Dedupe = 0
      BY DedupeAssumption
    <3>3. \A l \in Key : dedupe'[l] = IF l = k THEN Dedupe ELSE dedupe[l]
      BY <2>2, <3>1
    <3>4. /\ AgeOf[k] = Dedupe
          /\ AgeOf' = [l \in Key |-> IF l = k THEN 0 ELSE AgeOf[l]]
      BY <2>1, <2>2, <3>2, <3>3 DEF AgeOf
    <3> QED
      BY <3>4 DEF AgeOf
  <2>4. \A other \in Key : <<p, other>> \notin ClaimsOf
    BY <2>2 DEF ClaimsOf
  <2>5. ClaimsOf' = ClaimsOf \cup {<<p, k>>}
    BY <2>2 DEF ClaimsOf, TypeOK
  <2>6. Gate!Claim(p, k)
    BY <2>2, <2>3, <2>4, <2>5 DEF Gate!Claim, AgeOf, ClaimsOf
  <2> QED
    BY <2>6 DEF Gate!Next
<1>3. ASSUME NEW p \in Workers, Send(p) PROVE Goal
  <2>1. PICK k \in Key : k = pick[p]
    BY <1>3 DEF Send, TypeOK
  <2>2. /\ pc[p] = "send" /\ pc' = [pc EXCEPT ![p] = "scan"]
        /\ pick' = [pick EXCEPT ![p] = NoPick]
        /\ alerts[k] < MaxAlerts /\ alerts' = [alerts EXCEPT ![k] = @ + 1]
        /\ AgeOf' = AgeOf
    BY <1>3, <2>1 DEF Send, AgeOf
  <2>3. <<p, k>> \in ClaimsOf /\ ClaimsOf' = ClaimsOf \ {<<p, k>>}
    BY <2>1, <2>2 DEF ClaimsOf, TypeOK
  <2>4. Gate!Send(p, k)
    BY <2>2, <2>3 DEF Gate!Send, AgeOf, ClaimsOf
  <2> QED
    BY <2>4 DEF Gate!Next
<1>4. ASSUME NEW p \in Workers, EndTick(p) \/ Abort(p) PROVE Goal
  BY <1>4, GateForget DEF EndTick, Abort
<1>5. ASSUME NEW k \in Key, Taken(k) PROVE Goal
  <2>1. /\ alerts[k] > 0 /\ alerts' = [alerts EXCEPT ![k] = @ - 1]
        /\ AgeOf' = AgeOf /\ ClaimsOf' = ClaimsOf
    BY <1>5 DEF Taken, AgeOf, ClaimsOf, tickVars
  <2>2. Gate!Settle(k)
    BY <2>1 DEF Gate!Settle, AgeOf, ClaimsOf
  <2> QED
    BY <2>2 DEF Gate!Next
<1>6. ASSUME Clock PROVE Goal
  <2>1. ClaimsOf' = ClaimsOf /\ alerts' = alerts
    BY <1>6 DEF Clock, ClaimsOf, tickVars
  <2>2. AgeOf' = [k \in Key |-> IF AgeOf[k] < Dedupe THEN AgeOf[k] + 1 ELSE Dedupe]
    BY <1>6, DedupeAssumption DEF Clock, Expire, AgeOf, TypeOK
  <2>3. Gate!Elapse
    BY <2>1, <2>2 DEF Gate!Elapse, AgeOf, ClaimsOf
  <2> QED
    BY <2>3 DEF Gate!Next
<1>7. ASSUME NEW p \in Workers, NEW v \in Vaults,
             ReadRule(p, v) \/ Skip(p, v) \/ RuleReadFails(p, v)
      PROVE  Goal
  BY <1>7, GateStutter DEF ReadRule, Skip, RuleReadFails
<1>8. ASSUME NEW p \in Workers, NEW f \in Feeds, ReadPrice(p, f) \/ PriceReadFails(p, f)
      PROVE  Goal
  BY <1>8, GateStutter DEF ReadPrice, PriceReadFails
<1>9. ASSUME NEW v, NEW r, SetRule(v, r) PROVE Goal
  BY <1>9, GateStutter DEF SetRule, tickVars
<1>10. ASSUME NEW f, NEW r, NewRound(f, r) PROVE Goal
  BY <1>10, GateStutter DEF NewRound, tickVars
<1>11. ASSUME UNCHANGED vars PROVE Goal
  BY <1>11, GateStutter DEF vars, tickVars
<1> QED
  BY <1>1, <1>2, <1>3, <1>4, <1>5, <1>6, <1>7, <1>8, <1>9, <1>10, <1>11
     DEF Next, TickStep, TickFault

(* Alerts of a vault and side are a dedupe period apart and a key that is  *)
(* set gives one alert at most, for any number of overlapping ticks.       *)
THEOREM GuardImplementsGate == Spec => AlertGate
BY GuardTypeInit, GuardTypeNext, GateInit, GateNext, PTL DEF Spec, Gate!Spec, AlertGate
===============================================================================
