------------------------------ MODULE StrategyTick ------------------------------
(***************************************************************************)
(* worker.strategy.tick (apps/worker/tasks.py, strategy_tick): celery      *)
(* workers scan the vaults under a Redis lock with an expiry, claim a      *)
(* (vault, action) key with SET NX EX and hand one execution job per claim *)
(* to the broker.                                                          *)
(*                                                                         *)
(* Time passes with Clock alone, which advances every timer at once.  A    *)
(* Redis key with an expiry is the time it has left, 0 when it is absent;  *)
(* a timestamp is its age, which stops at Cooldown since only "less than   *)
(* the cooldown ago" is ever asked of it ("never" reads as Cooldown).      *)
(***************************************************************************)
EXTENDS StrategyRule, Functions

CONSTANTS
    Vaults,     \* the rows of the vaults table
    Feeds,      \* the Chainlink feeds the rules name
    Workers,    \* processes of the celery queue, each runs one tick at a time
    RuleSet,    \* the rules an owner may set on a vault
    RoundSet,   \* the rounds a feed may publish
    LockTTL,    \* expiry of strategy:tick:running
    Cooldown,   \* execution_cooldown_seconds
    MaxJobs,    \* bound on the unsettled jobs of a key
    MaxFaults   \* bound on failed reads, aborted ticks and killed workers

ASSUME RuleAssumption == RuleSet \subseteq Rule(Feeds)
ASSUME RoundAssumption == RoundSet \subseteq Round
ASSUME TimeAssumption ==
    /\ LockTTL \in Nat \ {0}
    /\ Cooldown \in Nat
    /\ LockTTL < Cooldown
ASSUME BoundAssumption == MaxJobs \in Nat /\ MaxFaults \in Nat

VARIABLES
    tickLock,   \* time left of the key strategy:tick:running
    idem,       \* idem[k]: time left of the key strategy:exec:{vault}:{action}
    pc,         \* pc[p]: what worker p is doing
    unread,     \* unread[p]: vaults whose rule the tick has not read yet
    active,     \* active[p]: the active rules, as read, not yet dealt with
    price,      \* price[p]: the price cache, feed to price or None
    pick,       \* pick[p]: the key claimed by a worker about to enqueue
    rules,      \* rules[v]: the rule of vault v on chain
    sinceExec,  \* sinceExec[v]: age of the last execution on chain
    rounds,     \* rounds[f]: the latest round of feed f
    jobs,       \* jobs[k]: execution jobs handed to the broker, not settled
    faults,     \* number of failures so far
    lease,      \* lease[p]: time left of the lock as p set it (history)
    overran     \* TRUE once a tick has outlived its lock (history)

workerVars == <<pc, unread, active, price, pick, lease>>
chainVars == <<rules, sinceExec, rounds>>
vars == <<tickLock, idem, workerVars, chainVars, jobs, faults, overran>>

Key == Vaults \X Actions
Snapshot == [rule: RuleSet, age: 0..Cooldown]
NoEntries == [x \in {} |-> None]
NoPick == <<>>

Put(f, x, y) == [z \in DOMAIN f \cup {x} |-> IF z = x THEN y ELSE f[z]]
Drop(f, x) == Restrict(f, DOMAIN f \ {x})
CountDownBelowZero(t) == t - 1
CountDown(t) == IF t > 0 THEN t - 1 ELSE 0
CountUp(t) == IF t < Cooldown THEN t + 1 ELSE Cooldown
Older(snapshot) == [rule |-> snapshot.rule, age |-> CountUp(snapshot.age)]

TypeOK ==
    /\ tickLock \in 0..LockTTL
    /\ idem \in [Key -> 0..Cooldown]
    /\ pc \in [Workers -> {"idle", "scan", "send"}]
    /\ unread \in [Workers -> SUBSET Vaults]
    /\ DOMAIN active = Workers
    /\ \A p \in Workers : /\ DOMAIN active[p] \subseteq Vaults
                          /\ active[p] \in [DOMAIN active[p] -> Snapshot]
    /\ DOMAIN price = Workers
    /\ \A p \in Workers : /\ DOMAIN price[p] \subseteq Feeds
                          /\ price[p] \in [DOMAIN price[p] -> Nat]
    /\ DOMAIN pick = Workers
    /\ \A p \in Workers : pc[p] = "send" => pick[p] \in Key
    /\ rules \in [Vaults -> RuleSet]
    /\ sinceExec \in [Vaults -> 0..Cooldown]
    /\ rounds \in [Feeds -> RoundSet]
    /\ jobs \in [Key -> 0..MaxJobs]
    /\ faults \in 0..MaxFaults
    /\ lease \in [Workers -> 0..LockTTL]
    /\ overran \in BOOLEAN

Init ==
    /\ tickLock = 0
    /\ idem = [k \in Key |-> 0]
    /\ pc = [p \in Workers |-> "idle"]
    /\ unread = [p \in Workers |-> {}]
    /\ active = [p \in Workers |-> NoEntries]
    /\ price = [p \in Workers |-> NoEntries]
    /\ pick = [p \in Workers |-> NoPick]
    /\ rules \in [Vaults -> RuleSet]
    /\ sinceExec = [v \in Vaults |-> Cooldown]
    /\ rounds \in [Feeds -> RoundSet]
    /\ jobs = [k \in Key |-> 0]
    /\ faults = 0
    /\ lease = [p \in Workers |-> 0]
    /\ overran = FALSE

Fault == faults < MaxFaults /\ faults' = faults + 1

(* A tick ends: the worker forgets all it had read.                        *)
Forget(p) ==
    /\ pc' = [pc EXCEPT ![p] = "idle"]
    /\ unread' = [unread EXCEPT ![p] = {}]
    /\ active' = [active EXCEPT ![p] = NoEntries]
    /\ price' = [price EXCEPT ![p] = NoEntries]
    /\ pick' = [pick EXCEPT ![p] = NoPick]
    /\ lease' = [lease EXCEPT ![p] = 0]

(***************************************************************************)
(* Redis.                                                                  *)
(***************************************************************************)

(* Mutated forms, each named for the mistake it makes, precede the         *)
(* definitions they replace: they show which property notices.             *)
AcquireTickWithoutNX == tickLock' = LockTTL

(* SET strategy:tick:running NX EX 120                                     *)
AcquireTick == tickLock = 0 /\ tickLock' = LockTTL

(* DELETE strategy:tick:running, whoever set it.                           *)
ReleaseTick == tickLock' = 0

SetKeyWithoutNX(k) == idem' = [idem EXCEPT ![k] = Cooldown]
SetKeyForOneTick(k) == idem[k] = 0 /\ idem' = [idem EXCEPT ![k] = LockTTL]

(* SET strategy:exec:{vault}:{action} NX EX execution_cooldown_seconds     *)
SetKey(k) == idem[k] = 0 /\ idem' = [idem EXCEPT ![k] = Cooldown]

ExpireAllButTheLock ==
    /\ tickLock' = tickLock
    /\ idem' = [k \in Key |-> CountDown(idem[k])]

(* Every key loses time and disappears when none is left.                  *)
Expire ==
    /\ tickLock' = CountDown(tickLock)
    /\ idem' = [k \in Key |-> CountDown(idem[k])]

(***************************************************************************)
(* One tick on worker p.                                                   *)
(***************************************************************************)

(* A tick that finds the lock taken returns "already_running" and changes  *)
(* nothing.                                                                *)
StartTick(p) ==
    /\ pc[p] = "idle"
    /\ AcquireTick
    /\ lease' = [lease EXCEPT ![p] = LockTTL]
    /\ pc' = [pc EXCEPT ![p] = "scan"]
    /\ unread' = [unread EXCEPT ![p] = Vaults]
    /\ UNCHANGED <<idem, active, price, pick, chainVars, jobs, faults, overran>>

(* read_vault_token_rule and the filter of _iter_active_rules.             *)
ReadRule(p, v) ==
    /\ pc[p] = "scan"
    /\ v \in unread[p]
    /\ unread' = [unread EXCEPT ![p] = @ \ {v}]
    /\ active' = IF IsActive(rules[v])
                 THEN [active EXCEPT ![p] =
                         Put(@, v, [rule |-> rules[v], age |-> sinceExec[v]])]
                 ELSE active
    /\ UNCHANGED <<tickLock, idem, pc, price, pick, lease, chainVars, jobs,
                   faults, overran>>

(* Any error while a rule is read makes it None: the vault is left out.    *)
RuleReadFails(p, v) ==
    /\ pc[p] = "scan"
    /\ v \in unread[p]
    /\ Fault
    /\ unread' = [unread EXCEPT ![p] = @ \ {v}]
    /\ UNCHANGED <<tickLock, idem, pc, active, price, pick, lease, chainVars,
                   jobs, overran>>

FeedsInUse(p) == {active[p][v].rule.feed : v \in DOMAIN active[p]}
Unpriced(p) == IF unread[p] = {} THEN FeedsInUse(p) \ DOMAIN price[p] ELSE {}
Priced(p) == pc[p] = "scan" /\ unread[p] = {} /\ Unpriced(p) = {}

(* _build_price_cache asks each feed in use once.                          *)
ReadPrice(p, f) ==
    /\ pc[p] = "scan"
    /\ f \in Unpriced(p)
    /\ price' = [price EXCEPT ![p] = Put(@, f, UsablePrice(rounds[f]))]
    /\ UNCHANGED <<tickLock, idem, pc, unread, active, pick, lease, chainVars,
                   jobs, faults, overran>>

PriceReadFails(p, f) ==
    /\ pc[p] = "scan"
    /\ f \in Unpriced(p)
    /\ Fault
    /\ price' = [price EXCEPT ![p] = Put(@, f, None)]
    /\ UNCHANGED <<tickLock, idem, pc, unread, active, pick, lease, chainVars,
                   jobs, overran>>

(* What evaluate_rule says of v, from the rule and the price as read.      *)
Decision(p, v) ==
    EvaluateRule(active[p][v].rule, price[p][active[p][v].rule.feed],
                 active[p][v].age, Cooldown)

SkipVault(p, v) ==
    /\ Priced(p)
    /\ v \in DOMAIN active[p]
    /\ Decision(p, v) # "none" => idem[<<v, Decision(p, v)>>] > 0
    /\ active' = [active EXCEPT ![p] = Drop(@, v)]
    /\ UNCHANGED <<tickLock, idem, pc, unread, price, pick, lease, chainVars,
                   jobs, faults, overran>>

(* The rule triggers and nobody holds the key of its action.               *)
Claim(p, v) ==
    /\ Priced(p)
    /\ v \in DOMAIN active[p]
    /\ Decision(p, v) # "none"
    /\ SetKey(<<v, Decision(p, v)>>)
    /\ pick' = [pick EXCEPT ![p] = <<v, Decision(p, v)>>]
    /\ pc' = [pc EXCEPT ![p] = "send"]
    /\ active' = [active EXCEPT ![p] = Drop(@, v)]
    /\ UNCHANGED <<tickLock, unread, price, lease, chainVars, jobs, faults,
                   overran>>

(* enqueue_execution.delay                                                 *)
Enqueue(p) ==
    /\ pc[p] = "send"
    /\ jobs[pick[p]] < MaxJobs
    /\ jobs' = [jobs EXCEPT ![pick[p]] = @ + 1]
    /\ pc' = [pc EXCEPT ![p] = "scan"]
    /\ pick' = [pick EXCEPT ![p] = NoPick]
    /\ UNCHANGED <<tickLock, idem, unread, active, price, lease, chainVars,
                   faults, overran>>

(* The loop is over: the finally block runs and the tick returns.          *)
EndTick(p) ==
    /\ Priced(p)
    /\ DOMAIN active[p] = {}
    /\ ReleaseTick
    /\ Forget(p)
    /\ UNCHANGED <<idem, chainVars, jobs, faults, overran>>

(* No RPC, a database error, or a Redis or broker call that raises: the    *)
(* tick is over, its claim is not undone, the finally block still runs.    *)
AbortTick(p) ==
    /\ pc[p] # "idle"
    /\ Fault
    /\ ReleaseTick
    /\ Forget(p)
    /\ UNCHANGED <<idem, chainVars, jobs, overran>>

(* The worker is killed, or cannot reach Redis in the finally block: the   *)
(* lock stays until it expires.                                            *)
Crash(p) ==
    /\ pc[p] # "idle"
    /\ Fault
    /\ Forget(p)
    /\ UNCHANGED <<tickLock, idem, chainVars, jobs, overran>>

TickStep(p) ==
    \/ \E v \in Vaults : ReadRule(p, v) \/ SkipVault(p, v) \/ Claim(p, v)
    \/ \E f \in Feeds : ReadPrice(p, f)
    \/ Enqueue(p)
    \/ EndTick(p)

TickFault(p) ==
    \/ \E v \in Vaults : RuleReadFails(p, v)
    \/ \E f \in Feeds : PriceReadFails(p, f)
    \/ AbortTick(p)
    \/ Crash(p)

(***************************************************************************)
(* Everything a tick does not do itself.                                   *)
(***************************************************************************)

(* setTokenRule, by the owner of the vault.                                *)
SetRule(v, r) ==
    /\ rules[v] # r
    /\ rules' = [rules EXCEPT ![v] = r]
    /\ UNCHANGED <<tickLock, idem, workerVars, sinceExec, rounds, jobs, faults,
                   overran>>

NewRound(f, r) ==
    /\ rounds[f] # r
    /\ rounds' = [rounds EXCEPT ![f] = r]
    /\ UNCHANGED <<tickLock, idem, workerVars, rules, sinceExec, jobs, faults,
                   overran>>

(* A swap is mined on v, by the executor or by anyone else.                *)
Trade(v) ==
    /\ sinceExec' = [sinceExec EXCEPT ![v] = 0]
    /\ UNCHANGED <<tickLock, idem, workerVars, rules, rounds, jobs, faults,
                   overran>>

(* The execution worker is through with a job of k.                        *)
Settle(k) ==
    /\ jobs[k] > 0
    /\ jobs' = [jobs EXCEPT ![k] = @ - 1]
    /\ UNCHANGED <<tickLock, idem, workerVars, chainVars, faults, overran>>

Clock ==
    /\ Expire
    /\ sinceExec' = [v \in Vaults |-> CountUp(sinceExec[v])]
    /\ active' = [p \in Workers |->
                    [v \in DOMAIN active[p] |-> Older(active[p][v])]]
    /\ lease' = [p \in Workers |-> CountDown(lease[p])]
    /\ overran' = (overran \/ \E p \in Workers : pc[p] # "idle" /\ lease[p] <= 1)
    /\ UNCHANGED <<pc, unread, price, pick, rules, rounds, jobs, faults>>

Environment ==
    \/ \E v \in Vaults : Trade(v) \/ \E r \in RuleSet : SetRule(v, r)
    \/ \E f \in Feeds, r \in RoundSet : NewRound(f, r)
    \/ \E k \in Key : Settle(k)

Next ==
    \/ \E p \in Workers : StartTick(p) \/ TickStep(p) \/ TickFault(p)
    \/ Environment
    \/ Clock

Spec == Init /\ [][Next]_vars

(* Celery beat keeps starting ticks, a running tick goes on unless it      *)
(* fails, the execution worker drains its queue and time passes.           *)
Fairness ==
    /\ WF_vars(\E p \in Workers : StartTick(p))
    /\ \A p \in Workers : WF_vars(TickStep(p))
    /\ \A k \in Key : WF_vars(Settle(k))
    /\ WF_vars(Clock)

FairSpec == Spec /\ Fairness

(***************************************************************************)
(* Properties.                                                             *)
(***************************************************************************)

Running(p) == pc[p] # "idle"

(* Two ticks run at the same time only if some tick has outlived its lock: *)
(* the expiring key of tasks.py:379-387 excludes as long as ticks are      *)
(* faster than its expiry, although finally deletes it unconditionally.    *)
OverlapNeedsOverrun ==
    \A p, q \in Workers : p # q /\ Running(p) /\ Running(q) => overran

(* A worker that has claimed a key still holds it when it enqueues the job *)
(* (tasks.py:444-450): unless a tick overran, the key has at least the     *)
(* cooldown less one lock period left, so a second job for the same key    *)
(* cannot slip in between the claim and the call of delay().               *)
ClaimIsHeld ==
    \A p \in Workers :
        pc[p] = "send" /\ ~overran => idem[pick[p]] >= Cooldown - LockTTL + lease[p]

(* The scan implements the gate: claims of a key are a cooldown apart and  *)
(* each gives one job at most, even when ticks overlap or workers crash    *)
(* (tasks.py:443-451).                                                     *)
Gate == INSTANCE TriggerGate WITH
    Keys <- Key,
    Claimers <- Workers,
    age <- [k \in Key |-> Cooldown - idem[k]],
    claims <- {<<p, pick[p]>> : p \in {q \in Workers : pc[q] = "send"}}

GateSpec == Gate!Spec

Standing(v, a) ==
    /\ IsActive(rules[v])
    /\ EvaluateRule(rules[v], UsablePrice(rounds[rules[v].feed]), Cooldown, Cooldown) = a

(* A threshold that stays reached is acted upon again and again: jobs keep *)
(* being enqueued or the vault keeps being traded, whatever locks and keys *)
(* crashed workers left behind (tasks.py:373-468).                         *)
StandingTriggerActedOn ==
    \A v \in Vaults, a \in Actions :
        <>[]Standing(v, a) => []<>(jobs[<<v, a>>] > 0 \/ sinceExec[v] = 0)
================================================================================
