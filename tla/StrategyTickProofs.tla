--------------------------- MODULE StrategyTickProofs ---------------------------
(***************************************************************************)
(* Proofs about StrategyTick for every number of vaults, feeds and         *)
(* workers, every set of rules and rounds and every pair of periods with   *)
(* LockTTL < Cooldown.                                                     *)
(***************************************************************************)
EXTENDS StrategyTick, TLAPS

(***************************************************************************)
(* Helpers on the maps a tick builds.                                      *)
(***************************************************************************)

(* Put adds one entry and keeps the others in range.                       *)
LEMMA PutType ==
    ASSUME NEW S, NEW T, NEW f, DOMAIN f \subseteq S, f \in [DOMAIN f -> T],
           NEW x \in S, NEW y \in T
    PROVE  /\ DOMAIN Put(f, x, y) \subseteq S
           /\ Put(f, x, y) \in [DOMAIN Put(f, x, y) -> T]
BY DEF Put

(* Drop removes one entry and keeps the others in range.                   *)
LEMMA DropType ==
    ASSUME NEW S, NEW T, NEW f, DOMAIN f \subseteq S, f \in [DOMAIN f -> T],
           NEW x
    PROVE  /\ DOMAIN Drop(f, x) \subseteq S
           /\ Drop(f, x) \in [DOMAIN Drop(f, x) -> T]
BY DEF Drop, Restrict

(* The empty map has any range.                                            *)
LEMMA NoEntriesType ==
    ASSUME NEW S, NEW T
    PROVE  DOMAIN NoEntries \subseteq S /\ NoEntries \in [DOMAIN NoEntries -> T]
BY DEF NoEntries

(* evaluate_rule answers with an action or with none.                      *)
LEMMA EvaluateRuleType ==
    ASSUME NEW rule, NEW pr, NEW elapsed, NEW cooldown,
           EvaluateRule(rule, pr, elapsed, cooldown) # "none"
    PROVE  EvaluateRule(rule, pr, elapsed, cooldown) \in Actions
BY DEF EvaluateRule, Signal, Actions

(* A usable price is a natural number, None when there is none.            *)
LEMMA UsablePriceType ==
    ASSUME NEW round \in RoundSet
    PROVE  UsablePrice(round) \in Nat
<1>1. round.answer \in Int
  BY RoundAssumption DEF Round
<1> QED
  BY <1>1 DEF UsablePrice, None

(***************************************************************************)
(* Type correctness.                                                       *)
(***************************************************************************)

ActiveOK ==
    /\ DOMAIN active = Workers
    /\ \A p \in Workers : /\ DOMAIN active[p] \subseteq Vaults
                          /\ active[p] \in [DOMAIN active[p] -> Snapshot]

PriceOK ==
    /\ DOMAIN price = Workers
    /\ \A p \in Workers : /\ DOMAIN price[p] \subseteq Feeds
                          /\ price[p] \in [DOMAIN price[p] -> Nat]

PickOK ==
    /\ DOMAIN pick = Workers
    /\ \A p \in Workers : pc[p] = "send" => pick[p] \in Key

LEMMA TypeInit == Init => TypeOK
<1> SUFFICES ASSUME Init PROVE TypeOK
  OBVIOUS
<1>1. ActiveOK
  BY NoEntriesType DEF Init, ActiveOK
<1>2. PriceOK
  BY NoEntriesType DEF Init, PriceOK
<1>3. /\ tickLock \in 0..LockTTL
      /\ idem \in [Key -> 0..Cooldown]
      /\ sinceExec \in [Vaults -> 0..Cooldown]
      /\ jobs \in [Key -> 0..MaxJobs]
      /\ faults \in 0..MaxFaults
      /\ lease \in [Workers -> 0..LockTTL]
  BY TimeAssumption, BoundAssumption DEF Init
<1>4. /\ pc \in [Workers -> {"idle", "scan", "send"}]
      /\ unread \in [Workers -> SUBSET Vaults]
      /\ PickOK
      /\ overran \in BOOLEAN
  BY DEF Init, PickOK
<1> QED
  BY <1>1, <1>2, <1>3, <1>4 DEF Init, TypeOK, ActiveOK, PriceOK, PickOK

(* Forgetting a tick keeps the types of all it touches.                    *)
LEMMA ForgetType ==
    ASSUME TypeOK, NEW p \in Workers, Forget(p)
    PROVE  /\ pc' \in [Workers -> {"idle", "scan", "send"}]
           /\ unread' \in [Workers -> SUBSET Vaults]
           /\ ActiveOK'
           /\ PriceOK'
           /\ PickOK'
           /\ lease' \in [Workers -> 0..LockTTL]
<1>1. ActiveOK' /\ PriceOK'
  BY NoEntriesType DEF TypeOK, Forget, ActiveOK, PriceOK
<1>2. PickOK'
  BY DEF TypeOK, Forget, PickOK
<1>3. lease' \in [Workers -> 0..LockTTL]
  BY TimeAssumption DEF TypeOK, Forget
<1> QED
  BY <1>1, <1>2, <1>3 DEF TypeOK, Forget

LEMMA TypeNext == TypeOK /\ [Next]_vars => TypeOK'
<1> SUFFICES ASSUME TypeOK, [Next]_vars PROVE TypeOK'
  OBVIOUS
<1> USE TimeAssumption, BoundAssumption
<1>1. ASSUME NEW p \in Workers, StartTick(p) PROVE TypeOK'
  BY <1>1 DEF StartTick, AcquireTick, TypeOK, chainVars
<1>2. ASSUME NEW p \in Workers, NEW v \in Vaults, ReadRule(p, v) PROVE TypeOK'
  <2> DEFINE s == [rule |-> rules[v], age |-> sinceExec[v]]
  <2>1. s \in Snapshot
    BY DEF TypeOK, Snapshot
  <2>3. /\ DOMAIN Put(active[p], v, s) \subseteq Vaults
        /\ Put(active[p], v, s) \in [DOMAIN Put(active[p], v, s) -> Snapshot]
    BY <2>1, PutType DEF TypeOK
  <2>2. ActiveOK'
    <3>1. CASE IsActive(rules[v])
      BY <1>2, <2>3, <3>1 DEF ReadRule, TypeOK, ActiveOK
    <3>2. CASE ~IsActive(rules[v])
      BY <1>2, <3>2 DEF ReadRule, TypeOK, ActiveOK
    <3> QED
      BY <3>1, <3>2
  <2> QED
    BY <1>2, <2>2 DEF ReadRule, TypeOK, ActiveOK, chainVars
<1>3. ASSUME NEW p \in Workers, NEW v \in Vaults, RuleReadFails(p, v) PROVE TypeOK'
  BY <1>3 DEF RuleReadFails, Fault, TypeOK, chainVars
<1>4. ASSUME NEW p \in Workers, NEW f \in Feeds, ReadPrice(p, f) PROVE TypeOK'
  <2>1. UsablePrice(rounds[f]) \in Nat
    BY UsablePriceType DEF TypeOK
  <2>2. PriceOK'
    BY <1>4, <2>1, PutType DEF ReadPrice, TypeOK, PriceOK
  <2> QED
    BY <1>4, <2>2 DEF ReadPrice, TypeOK, PriceOK, chainVars
<1>5. ASSUME NEW p \in Workers, NEW f \in Feeds, PriceReadFails(p, f) PROVE TypeOK'
  <2>2. None \in Nat
    BY DEF None
  <2>3. /\ DOMAIN Put(price[p], f, None) \subseteq Feeds
        /\ Put(price[p], f, None) \in [DOMAIN Put(price[p], f, None) -> Nat]
    BY <2>2, PutType DEF TypeOK
  <2>1. PriceOK'
    BY <1>5, <2>3 DEF PriceReadFails, TypeOK, PriceOK
  <2> QED
    BY <1>5, <2>1 DEF PriceReadFails, Fault, TypeOK, PriceOK, chainVars
<1>6. ASSUME NEW p \in Workers, NEW v \in Vaults, SkipVault(p, v) PROVE TypeOK'
  <2>1. ActiveOK'
    BY <1>6, DropType DEF SkipVault, TypeOK, ActiveOK
  <2> QED
    BY <1>6, <2>1 DEF SkipVault, TypeOK, ActiveOK, chainVars
<1>7. ASSUME NEW p \in Workers, NEW v \in Vaults, Claim(p, v) PROVE TypeOK'
  <2>1. ActiveOK'
    BY <1>7, DropType DEF Claim, TypeOK, ActiveOK
  <2>2. <<v, Decision(p, v)>> \in Key
    BY <1>7, EvaluateRuleType DEF Claim, Decision, Key
  <2>3. PickOK'
    BY <1>7, <2>2 DEF Claim, TypeOK, PickOK
  <2>4. idem' \in [Key -> 0..Cooldown]
    BY <1>7, <2>2 DEF Claim, SetKey, TypeOK
  <2> QED
    BY <1>7, <2>1, <2>3, <2>4 DEF Claim, TypeOK, ActiveOK, PickOK, chainVars
<1>8. ASSUME NEW p \in Workers, Enqueue(p) PROVE TypeOK'
  <2>1. jobs' \in [Key -> 0..MaxJobs]
    BY <1>8 DEF Enqueue, TypeOK
  <2>2. PickOK'
    BY <1>8 DEF Enqueue, TypeOK, PickOK
  <2> QED
    BY <1>8, <2>1, <2>2 DEF Enqueue, TypeOK, PickOK, chainVars
<1>9. ASSUME NEW p \in Workers, EndTick(p) PROVE TypeOK'
  BY <1>9, ForgetType DEF EndTick, ReleaseTick, TypeOK, ActiveOK, PriceOK, PickOK, chainVars
<1>10. ASSUME NEW p \in Workers, AbortTick(p) PROVE TypeOK'
  BY <1>10, ForgetType
     DEF AbortTick, ReleaseTick, Fault, TypeOK, ActiveOK, PriceOK, PickOK, chainVars
<1>11. ASSUME NEW p \in Workers, Crash(p) PROVE TypeOK'
  BY <1>11, ForgetType
     DEF Crash, Fault, TypeOK, ActiveOK, PriceOK, PickOK, chainVars
<1>12. ASSUME NEW v \in Vaults, NEW r \in RuleSet, SetRule(v, r) PROVE TypeOK'
  BY <1>12 DEF SetRule, TypeOK, workerVars
<1>13. ASSUME NEW f \in Feeds, NEW r \in RoundSet, NewRound(f, r) PROVE TypeOK'
  BY <1>13 DEF NewRound, TypeOK, workerVars
<1>14. ASSUME NEW v \in Vaults, Trade(v) PROVE TypeOK'
  BY <1>14 DEF Trade, TypeOK, workerVars
<1>15. ASSUME NEW k \in Key, Settle(k) PROVE TypeOK'
  BY <1>15 DEF Settle, TypeOK, workerVars, chainVars
<1>16. CASE Clock
  <2>1. \A s \in Snapshot : Older(s) \in Snapshot
    BY DEF Older, Snapshot, CountUp
  <2>5. ActiveOK'
    BY <1>16, <2>1 DEF Clock, TypeOK, ActiveOK
  <2>2. /\ tickLock' \in 0..LockTTL
        /\ idem' \in [Key -> 0..Cooldown]
        /\ sinceExec' \in [Vaults -> 0..Cooldown]
        /\ lease' \in [Workers -> 0..LockTTL]
    BY <1>16 DEF Clock, Expire, TypeOK, CountUp, CountDown
  <2>3. overran' \in BOOLEAN
    BY <1>16 DEF Clock, TypeOK
  <2> QED
    BY <1>16, <2>2, <2>3, <2>5 DEF Clock, TypeOK, ActiveOK
<1>17. CASE UNCHANGED vars
  BY <1>17 DEF vars, workerVars, chainVars, TypeOK
<1> QED
  BY <1>1, <1>2, <1>3, <1>4, <1>5, <1>6, <1>7, <1>8, <1>9, <1>10, <1>11,
     <1>12, <1>13, <1>14, <1>15, <1>16, <1>17
     DEF Next, TickStep, TickFault, Environment

(* Every variable keeps its type in every behaviour of the ticks.          *)
THEOREM TypeCorrect == Spec => []TypeOK
BY TypeInit, TypeNext, PTL DEF Spec

(***************************************************************************)
(* The lock excludes and the claimed key is held, until a tick overruns.   *)
(*                                                                         *)
(* OverlapNeedsOverrun alone is not inductive: StartTick looks at the lock *)
(* and not at the other ticks.  LeaseIsLock ties the two: while no tick    *)
(* has overrun, the lock of a running tick is the one it set, and has time *)
(* left, so a free lock means that nobody runs.                            *)
(***************************************************************************)

LeaseIsLock ==
    \A p \in Workers : Running(p) /\ ~overran => lease[p] = tickLock /\ lease[p] > 0

LockInv == TypeOK /\ LeaseIsLock /\ OverlapNeedsOverrun /\ ClaimIsHeld

LEMMA LockInit == Init => LockInv
<1> SUFFICES ASSUME Init PROVE LockInv
  OBVIOUS
<1>1. TypeOK
  BY TypeInit
<1> QED
  BY <1>1 DEF Init, LockInv, LeaseIsLock, OverlapNeedsOverrun, ClaimIsHeld, Running

(* The end of a tick, with the lock deleted or left: the other workers     *)
(* keep what they have, and alone they overlap with nobody.                *)
LEMMA ForgetKeepsLock ==
    ASSUME LockInv, NEW p \in Workers, Running(p), Forget(p),
           tickLock' \in {0, tickLock}, UNCHANGED <<idem, overran>>
    PROVE  LeaseIsLock' /\ OverlapNeedsOverrun' /\ ClaimIsHeld'
<1>1. /\ ~Running(p)'
      /\ \A q \in Workers \ {p} : /\ pc'[q] = pc[q]
                                  /\ lease'[q] = lease[q]
                                  /\ pick'[q] = pick[q]
  BY DEF Forget, LockInv, TypeOK, Running
<1>2. CASE ~overran
  <2>1. \A q \in Workers : ~Running(q)'
    BY <1>1, <1>2 DEF LockInv, OverlapNeedsOverrun, Running
  <2> QED
    BY <1>1, <2>1 DEF LeaseIsLock, OverlapNeedsOverrun, ClaimIsHeld, Running
<1>3. CASE overran
  BY <1>3 DEF LeaseIsLock, OverlapNeedsOverrun, ClaimIsHeld
<1> QED
  BY <1>2, <1>3

LEMMA LockNext == LockInv /\ [Next]_vars => LockInv'
<1> SUFFICES ASSUME LockInv, [Next]_vars PROVE LockInv'
  OBVIOUS
<1> DEFINE Goal == LeaseIsLock' /\ OverlapNeedsOverrun' /\ ClaimIsHeld'
<1>1. TypeOK /\ TypeOK'
  BY TypeNext DEF LockInv
<1>2. ASSUME UNCHANGED <<tickLock, idem, pc, pick, lease, overran>> PROVE Goal
  BY <1>2 DEF LockInv, LeaseIsLock, OverlapNeedsOverrun, ClaimIsHeld, Running
<1>3. ASSUME NEW p \in Workers, StartTick(p) PROVE Goal
  <2>1. CASE overran
    BY <1>3, <2>1 DEF StartTick, LeaseIsLock, OverlapNeedsOverrun, ClaimIsHeld
  <2>2. CASE ~overran
    <3>1. \A q \in Workers : ~Running(q)
      BY <1>3, <2>2, TimeAssumption DEF StartTick, AcquireTick, LockInv, LeaseIsLock
    <3>2. \A q \in Workers \ {p} : ~Running(q)'
      BY <1>1, <1>3, <3>1 DEF StartTick, TypeOK, Running
    <3>3. lease'[p] = tickLock' /\ tickLock' > 0 /\ pc'[p] = "scan"
      BY <1>1, <1>3, TimeAssumption DEF StartTick, AcquireTick, TypeOK
    <3> QED
      BY <3>2, <3>3 DEF LeaseIsLock, OverlapNeedsOverrun, ClaimIsHeld, Running
  <2> QED
    BY <2>1, <2>2
<1>4. ASSUME NEW p \in Workers, NEW v \in Vaults, Claim(p, v) PROVE Goal
  <2> DEFINE k == <<v, Decision(p, v)>>
  <2>1. k \in Key
    BY <1>4, EvaluateRuleType DEF Claim, Decision, Key
  <2>2. /\ pc[p] = "scan" /\ pc' = [pc EXCEPT ![p] = "send"]
        /\ pick' = [pick EXCEPT ![p] = k]
        /\ idem' = [idem EXCEPT ![k] = Cooldown]
        /\ UNCHANGED <<tickLock, lease, overran>>
    BY <1>4 DEF Claim, SetKey, Priced
  <2>3. \A q \in Workers : Running(q)' <=> Running(q)
    BY <1>1, <2>2 DEF TypeOK, Running
  <2>4. LeaseIsLock' /\ OverlapNeedsOverrun'
    BY <2>2, <2>3 DEF LockInv, LeaseIsLock, OverlapNeedsOverrun
  <2>5. ASSUME NEW q \in Workers, pc'[q] = "send", ~overran'
        PROVE  idem'[pick'[q]] >= Cooldown - LockTTL + lease'[q]
    <3>1. q = p
      BY <2>2, <2>5 DEF LockInv, OverlapNeedsOverrun, TypeOK, Running
    <3>2. pick'[q] = k /\ idem'[k] = Cooldown
      BY <1>1, <2>1, <2>2, <3>1 DEF TypeOK
    <3>3. lease'[q] \in 0..LockTTL
      BY <1>1, <2>5 DEF TypeOK
    <3> QED
      BY <3>2, <3>3, TimeAssumption
  <2> QED
    BY <2>4, <2>5 DEF ClaimIsHeld
<1>5. ASSUME NEW p \in Workers, Enqueue(p) PROVE Goal
  <2>1. /\ \A q \in Workers : Running(q)' <=> Running(q)
        /\ \A q \in Workers : pc'[q] = "send" => pc[q] = "send" /\ pick'[q] = pick[q]
        /\ UNCHANGED <<tickLock, idem, lease, overran>>
    BY <1>1, <1>5 DEF Enqueue, TypeOK, Running
  <2> QED
    BY <2>1 DEF LockInv, LeaseIsLock, OverlapNeedsOverrun, ClaimIsHeld
<1>6. ASSUME NEW p \in Workers, EndTick(p) \/ AbortTick(p) \/ Crash(p) PROVE Goal
  <2>1. /\ Running(p) /\ Forget(p) /\ tickLock' \in {0, tickLock}
        /\ UNCHANGED <<idem, overran>>
    BY <1>6 DEF EndTick, ReleaseTick, AbortTick, Crash, Priced, Running
  <2> QED
    BY <2>1, ForgetKeepsLock
<1>7. ASSUME Clock PROVE Goal
  <2>1. ASSUME ~overran'
        PROVE  /\ ~overran
               /\ \A p \in Workers : Running(p) => lease[p] > 1 /\ lease[p] \in Nat
    <3>1. ~(overran \/ \E p \in Workers : pc[p] # "idle" /\ lease[p] <= 1)
      BY <1>7, <2>1, Zenon DEF Clock
    <3> QED
      BY <1>1, <3>1 DEF Running, TypeOK
  <2>2. /\ \A p \in Workers : Running(p)' <=> Running(p)
        /\ \A p \in Workers : lease'[p] = CountDown(lease[p])
        /\ tickLock' = CountDown(tickLock)
        /\ UNCHANGED <<pc, pick>>
    BY <1>7 DEF Clock, Expire, Running
  <2>3. LeaseIsLock'
    BY <2>1, <2>2 DEF LockInv, LeaseIsLock, CountDown
  <2>4. OverlapNeedsOverrun'
    BY <2>1, <2>2 DEF LockInv, OverlapNeedsOverrun
  <2>5. ASSUME NEW p \in Workers, pc'[p] = "send", ~overran'
        PROVE  idem'[pick'[p]] >= Cooldown - LockTTL + lease'[p]
    <3>1. pick[p] \in Key /\ idem[pick[p]] \in Nat /\ lease[p] \in Nat /\ lease[p] > 1
      BY <1>1, <2>1, <2>2, <2>5 DEF TypeOK, Running
    <3>2. idem[pick[p]] >= Cooldown - LockTTL + lease[p]
      BY <2>1, <2>2, <2>5 DEF LockInv, ClaimIsHeld
    <3>3. idem'[pick'[p]] = CountDown(idem[pick[p]])
      BY <1>7, <2>2, <3>1 DEF Clock, Expire
    <3> QED
      BY <2>2, <3>1, <3>2, <3>3, TimeAssumption DEF CountDown
  <2> QED
    BY <2>3, <2>4, <2>5 DEF ClaimIsHeld
<1>8. ASSUME UNCHANGED vars PROVE Goal
  BY <1>2, <1>8 DEF vars, workerVars
<1>9. ASSUME NEW p \in Workers, NEW v \in Vaults,
             ReadRule(p, v) \/ SkipVault(p, v) \/ RuleReadFails(p, v)
      PROVE  Goal
  BY <1>2, <1>9 DEF ReadRule, SkipVault, RuleReadFails
<1>10. ASSUME NEW p \in Workers, NEW f \in Feeds, ReadPrice(p, f) \/ PriceReadFails(p, f)
       PROVE  Goal
  BY <1>2, <1>10 DEF ReadPrice, PriceReadFails
<1>11. ASSUME Environment PROVE Goal
  BY <1>2, <1>11 DEF Environment, SetRule, NewRound, Trade, Settle, workerVars
<1> QED
  BY <1>1, <1>3, <1>4, <1>5, <1>6, <1>7, <1>8, <1>9, <1>10, <1>11
     DEF Next, TickStep, TickFault, LockInv

(* At most one tick runs at a time while no tick outlives its lock.        *)
THEOREM TicksExclude == Spec => []OverlapNeedsOverrun
BY LockInit, LockNext, PTL DEF Spec, LockInv

(* A worker still holds the key it claimed when it enqueues the job.       *)
THEOREM ClaimsAreHeld == Spec => []ClaimIsHeld
BY LockInit, LockNext, PTL DEF Spec, LockInv

(***************************************************************************)
(* The ticks implement the gate, whether they overlap or not.              *)
(***************************************************************************)

AgeOf == [k \in Key |-> Cooldown - idem[k]]
ClaimsOf == {<<p, pick[p]>> : p \in {q \in Workers : pc[q] = "send"}}

LEMMA GateInit == Init => Gate!Init
<1> SUFFICES ASSUME Init PROVE Gate!Init
  OBVIOUS
<1>1. AgeOf = [k \in Key |-> Cooldown]
  BY TimeAssumption DEF Init, AgeOf
<1>2. ClaimsOf = {}
  BY DEF Init, ClaimsOf
<1> QED
  BY <1>1, <1>2 DEF Init, Gate!Init, AgeOf, ClaimsOf

(* A step that touches neither keys, claims nor jobs is a stuttering step. *)
LEMMA GateStutter ==
    ASSUME UNCHANGED <<idem, pc, pick, jobs>>
    PROVE  [Gate!Next]_(Gate!gateVars)
<1>1. AgeOf' = AgeOf /\ ClaimsOf' = ClaimsOf /\ jobs' = jobs
  BY DEF AgeOf, ClaimsOf
<1> QED
  BY <1>1 DEF Gate!gateVars, AgeOf, ClaimsOf

(* A tick that ends loses its claim, if it has one.                        *)
LEMMA GateForget ==
    ASSUME TypeOK, NEW p \in Workers, Forget(p), UNCHANGED <<idem, jobs>>
    PROVE  [Gate!Next]_(Gate!gateVars)
<1>1. AgeOf' = AgeOf
  BY DEF AgeOf
<1>2. /\ pc'[p] = "idle"
      /\ \A q \in Workers \ {p} : pc'[q] = pc[q] /\ pick'[q] = pick[q]
  BY DEF TypeOK, Forget
<1>3. CASE pc[p] = "send"
  <2>1. PICK k \in Key : k = pick[p]
    BY <1>3 DEF TypeOK
  <2>2. <<p, k>> \in ClaimsOf /\ ClaimsOf' = ClaimsOf \ {<<p, k>>}
    BY <1>2, <1>3, <2>1 DEF ClaimsOf
  <2>3. Gate!Lose(p, k)
    BY <1>1, <2>2 DEF Gate!Lose, AgeOf, ClaimsOf
  <2> QED
    BY <2>3 DEF Gate!Next
<1>4. CASE pc[p] # "send"
  <2>1. ClaimsOf' = ClaimsOf
    BY <1>2, <1>4 DEF ClaimsOf
  <2> QED
    BY <1>1, <2>1 DEF Gate!gateVars, AgeOf, ClaimsOf
<1> QED
  BY <1>3, <1>4

LEMMA GateNext == TypeOK /\ [Next]_vars => [Gate!Next]_(Gate!gateVars)
<1> SUFFICES ASSUME TypeOK, [Next]_vars PROVE [Gate!Next]_(Gate!gateVars)
  OBVIOUS
<1> DEFINE Goal == [Gate!Next]_(Gate!gateVars)
<1>1. ASSUME NEW p \in Workers, StartTick(p) PROVE Goal
  <2>1. ClaimsOf' = ClaimsOf
    BY <1>1 DEF StartTick, TypeOK, ClaimsOf
  <2>2. AgeOf' = AgeOf /\ jobs' = jobs
    BY <1>1 DEF StartTick, AgeOf
  <2> QED
    BY <2>1, <2>2 DEF Gate!gateVars, AgeOf, ClaimsOf
<1>2. ASSUME NEW p \in Workers, NEW v \in Vaults, Claim(p, v) PROVE Goal
  <2>1. PICK k \in Key : k = <<v, Decision(p, v)>>
    BY <1>2, EvaluateRuleType DEF Claim, Decision, Key
  <2>2. /\ pc[p] = "scan" /\ pc' = [pc EXCEPT ![p] = "send"]
        /\ pick' = [pick EXCEPT ![p] = k]
        /\ idem[k] = 0 /\ idem' = [idem EXCEPT ![k] = Cooldown]
        /\ jobs' = jobs
    BY <1>2, <2>1 DEF Claim, SetKey, Priced
  <2>3. AgeOf[k] = Cooldown /\ AgeOf' = [AgeOf EXCEPT ![k] = 0]
    <3>1. idem \in [Key -> Int]
      BY DEF TypeOK
    <3>2. Cooldown - 0 = Cooldown /\ Cooldown - Cooldown = 0
      BY TimeAssumption
    <3>3. \A l \in Key : idem'[l] = IF l = k THEN Cooldown ELSE idem[l]
      BY <2>2, <3>1
    <3>4. /\ AgeOf[k] = Cooldown
          /\ AgeOf' = [l \in Key |-> IF l = k THEN 0 ELSE AgeOf[l]]
      BY <2>1, <2>2, <3>2, <3>3 DEF AgeOf
    <3> QED
      BY <3>4 DEF AgeOf
  <2>4. \A other \in Key : <<p, other>> \notin ClaimsOf
    BY <2>2 DEF ClaimsOf
  <2>5. ClaimsOf' = ClaimsOf \cup {<<p, k>>}
    BY <2>2 DEF ClaimsOf, TypeOK
  <2>6. Gate!Claim(p, k)
    BY <2>2, <2>3, <2>4, <2>5 DEF Gate!Claim, AgeOf, ClaimsOf
  <2> QED
    BY <2>6 DEF Gate!Next
<1>3. ASSUME NEW p \in Workers, Enqueue(p) PROVE Goal
  <2>1. PICK k \in Key : k = pick[p]
    BY <1>3 DEF Enqueue, TypeOK
  <2>2. /\ pc[p] = "send" /\ pc' = [pc EXCEPT ![p] = "scan"]
        /\ pick' = [pick EXCEPT ![p] = NoPick]
        /\ jobs[k] < MaxJobs /\ jobs' = [jobs EXCEPT ![k] = @ + 1]
        /\ AgeOf' = AgeOf
    BY <1>3, <2>1 DEF Enqueue, AgeOf
  <2>3. <<p, k>> \in ClaimsOf /\ ClaimsOf' = ClaimsOf \ {<<p, k>>}
    BY <2>1, <2>2 DEF ClaimsOf, TypeOK
  <2>4. Gate!Send(p, k)
    BY <2>2, <2>3 DEF Gate!Send, AgeOf, ClaimsOf
  <2> QED
    BY <2>4 DEF Gate!Next
<1>4. ASSUME NEW p \in Workers, EndTick(p) \/ AbortTick(p) \/ Crash(p) PROVE Goal
  BY <1>4, GateForget DEF EndTick, AbortTick, Crash
<1>5. ASSUME NEW k \in Key, Settle(k) PROVE Goal
  <2>1. /\ jobs[k] > 0 /\ jobs' = [jobs EXCEPT ![k] = @ - 1]
        /\ AgeOf' = AgeOf /\ ClaimsOf' = ClaimsOf
    BY <1>5 DEF Settle, AgeOf, ClaimsOf, workerVars
  <2>2. Gate!Settle(k)
    BY <2>1 DEF Gate!Settle, AgeOf, ClaimsOf
  <2> QED
    BY <2>2 DEF Gate!Next
<1>6. ASSUME Clock PROVE Goal
  <2>1. ClaimsOf' = ClaimsOf /\ jobs' = jobs
    BY <1>6 DEF Clock, ClaimsOf
  <2>2. AgeOf' = [k \in Key |-> IF AgeOf[k] < Cooldown THEN AgeOf[k] + 1 ELSE Cooldown]
    BY <1>6, TimeAssumption DEF Clock, Expire, AgeOf, TypeOK, CountDown
  <2>3. Gate!Elapse
    BY <2>1, <2>2 DEF Gate!Elapse, AgeOf, ClaimsOf
  <2> QED
    BY <2>3 DEF Gate!Next
<1>7. ASSUME NEW p \in Workers, NEW v \in Vaults,
             ReadRule(p, v) \/ SkipVault(p, v) \/ RuleReadFails(p, v)
      PROVE  Goal
  BY <1>7, GateStutter DEF ReadRule, SkipVault, RuleReadFails
<1>8. ASSUME NEW p \in Workers, NEW f \in Feeds, ReadPrice(p, f) \/ PriceReadFails(p, f)
      PROVE  Goal
  BY <1>8, GateStutter DEF ReadPrice, PriceReadFails
<1>9. ASSUME NEW v \in Vaults, NEW r, SetRule(v, r) \/ Trade(v) PROVE Goal
  BY <1>9, GateStutter DEF SetRule, Trade, workerVars
<1>10. ASSUME NEW f, NEW r, NewRound(f, r) PROVE Goal
  BY <1>10, GateStutter DEF NewRound, workerVars
<1>11. ASSUME UNCHANGED vars PROVE Goal
  BY <1>11, GateStutter DEF vars, workerVars
<1> QED
  BY <1>1, <1>2, <1>3, <1>4, <1>5, <1>6, <1>7, <1>8, <1>9, <1>10, <1>11
     DEF Next, TickStep, TickFault, Environment

(* Claims of a key are a cooldown apart and give one job at most, for any  *)
(* number of overlapping, aborted or killed ticks.                         *)
THEOREM TicksImplementGate == Spec => GateSpec
BY TypeInit, TypeNext, GateInit, GateNext, PTL DEF Spec, Gate!Spec, GateSpec
===============================================================================
