-------------------------------- MODULE RiskGuard --------------------------------
(***************************************************************************)
(* worker.risk_guard.tick (apps/worker/tasks.py, risk_guard_tick): celery  *)
(* workers scan the vaults, without a lock, and raise an alert for the     *)
(* owner of a vault whose price has reached a threshold, once per          *)
(* (vault, side) while a Redis key with an expiry lasts.                   *)
(*                                                                         *)
(* It reads rules and prices as StrategyTick does, but asks neither for    *)
(* the cooldown of the rule nor for a tick lock.  What becomes of an alert *)
(* and of its addressee, the owner, is modelled in Notify.                 *)
(***************************************************************************)
EXTENDS StrategyRule, Functions

CONSTANTS
    Vaults,     \* the rows of the vaults table
    Feeds,      \* the Chainlink feeds the rules name
    Workers,    \* processes of the celery queue
    RuleSet,    \* the rules an owner may set on a vault
    RoundSet,   \* the rounds a feed may publish
    Dedupe,     \* alert_dedupe_seconds
    MaxAlerts,  \* bound on the alerts of a key the broker holds
    MaxFaults   \* bound on failed reads, failed calls and kills

ASSUME RuleAssumption == RuleSet \subseteq Rule(Feeds)
ASSUME RoundAssumption == RoundSet \subseteq Round
ASSUME DedupeAssumption == Dedupe \in Nat \ {0}
ASSUME BoundAssumption == MaxAlerts \in Nat /\ MaxFaults \in Nat

VARIABLES
    dedupe,     \* dedupe[k]: time left of the key risk_alert:{vault}:{side}
    pc,         \* pc[p]: "idle", "scan" or "send"
    unread,     \* unread[p]: vaults whose rule is not read yet
    active,     \* active[p]: vault to active rule, not dealt with yet
    price,      \* price[p]: feed to price or None
    pick,       \* pick[p]: the key of an alert about to be sent
    rules,      \* rules[v]: the rule of vault v on chain
    rounds,     \* rounds[f]: the latest round of feed f
    alerts,     \* alerts[k]: telegram_send_to_wallet tasks queued for k
    faults      \* failures so far

tickVars == <<pc, unread, active, price, pick>>
worldVars == <<rules, rounds>>
vars == <<dedupe, tickVars, worldVars, alerts, faults>>

Key == Vaults \X Actions
Nothing == [x \in {} |-> None]
NoPick == <<>>

Put(f, x, y) == [z \in DOMAIN f \cup {x} |-> IF z = x THEN y ELSE f[z]]

TypeOK ==
    /\ dedupe \in [Key -> 0..Dedupe]
    /\ pc \in [Workers -> {"idle", "scan", "send"}]
    /\ unread \in [Workers -> SUBSET Vaults]
    /\ DOMAIN active = Workers
    /\ \A p \in Workers : /\ DOMAIN active[p] \subseteq Vaults
                          /\ active[p] \in [DOMAIN active[p] -> RuleSet]
    /\ DOMAIN price = Workers
    /\ \A p \in Workers : /\ DOMAIN price[p] \subseteq Feeds
                          /\ price[p] \in [DOMAIN price[p] -> Nat]
    /\ DOMAIN pick = Workers
    /\ \A p \in Workers : pc[p] = "send" => pick[p] \in Key
    /\ rules \in [Vaults -> RuleSet]
    /\ rounds \in [Feeds -> RoundSet]
    /\ alerts \in [Key -> 0..MaxAlerts]
    /\ faults \in 0..MaxFaults

Init ==
    /\ dedupe = [k \in Key |-> 0]
    /\ pc = [p \in Workers |-> "idle"]
    /\ unread = [p \in Workers |-> {}]
    /\ active = [p \in Workers |-> Nothing]
    /\ price = [p \in Workers |-> Nothing]
    /\ pick = [p \in Workers |-> NoPick]
    /\ rules \in [Vaults -> RuleSet]
    /\ rounds \in [Feeds -> RoundSet]
    /\ alerts = [k \in Key |-> 0]
    /\ faults = 0

Fault == faults < MaxFaults /\ faults' = faults + 1
(* A tick is over or dies: the worker forgets what it had read.            *)
Forget(p) ==
    /\ pc' = [pc EXCEPT ![p] = "idle"]
    /\ unread' = [unread EXCEPT ![p] = {}]
    /\ active' = [active EXCEPT ![p] = Nothing]
    /\ price' = [price EXCEPT ![p] = Nothing]
    /\ pick' = [pick EXCEPT ![p] = NoPick]

(***************************************************************************)
(* One tick on worker p.                                                   *)
(***************************************************************************)

StartTick(p) ==
    /\ pc[p] = "idle"
    /\ pc' = [pc EXCEPT ![p] = "scan"]
    /\ unread' = [unread EXCEPT ![p] = Vaults]
    /\ UNCHANGED <<dedupe, active, price, pick, worldVars, alerts, faults>>

(* read_vault_token_rule and the filter of _iter_active_rules.             *)
ReadRule(p, v) ==
    /\ pc[p] = "scan"
    /\ v \in unread[p]
    /\ unread' = [unread EXCEPT ![p] = @ \ {v}]
    /\ active' = IF IsActive(rules[v])
                 THEN [active EXCEPT ![p] = Put(@, v, rules[v])] ELSE active
    /\ UNCHANGED <<dedupe, pc, price, pick, worldVars, alerts, faults>>

(* A rule that cannot be read leaves its vault out.                        *)
RuleReadFails(p, v) ==
    /\ pc[p] = "scan"
    /\ v \in unread[p]
    /\ Fault
    /\ unread' = [unread EXCEPT ![p] = @ \ {v}]
    /\ UNCHANGED <<dedupe, pc, active, price, pick, worldVars, alerts>>

FeedsInUse(p) == {active[p][v].feed : v \in DOMAIN active[p]}
Unpriced(p) ==
    IF pc[p] = "scan" /\ unread[p] = {} THEN FeedsInUse(p) \ DOMAIN price[p] ELSE {}
Priced(p) == pc[p] = "scan" /\ unread[p] = {} /\ Unpriced(p) = {}

(* _build_price_cache                                                      *)
ReadPrice(p, f) ==
    /\ f \in Unpriced(p)
    /\ price' = [price EXCEPT ![p] = Put(@, f, UsablePrice(rounds[f]))]
    /\ UNCHANGED <<dedupe, pc, unread, active, pick, worldVars, alerts, faults>>

PriceReadFails(p, f) ==
    /\ f \in Unpriced(p)
    /\ Fault
    /\ price' = [price EXCEPT ![p] = Put(@, f, None)]
    /\ UNCHANGED <<dedupe, pc, unread, active, pick, worldVars, alerts>>

(* The threshold that was reached, if any: buy first, then sell.           *)
Side(rule, p) == IF p = None THEN "none" ELSE Signal(rule, p)

Deal(p, v) ==
    /\ Priced(p)
    /\ v \in DOMAIN active[p]
    /\ active' = [active EXCEPT ![p] = Restrict(@, DOMAIN @ \ {v})]

SideOf(p, v) == Side(active[p][v], price[p][active[p][v].feed])

Skip(p, v) ==
    /\ Deal(p, v)
    /\ SideOf(p, v) # "none" => dedupe[<<v, SideOf(p, v)>>] > 0
    /\ UNCHANGED <<dedupe, pc, unread, price, pick, worldVars, alerts, faults>>

(* Mutated forms, each named for the mistake it makes, precede the         *)
(* definitions they replace: they show which property notices.             *)
SetKeyWithoutNX(k) == dedupe' = [dedupe EXCEPT ![k] = Dedupe]
SetKeyWithLongExpiry(k) == dedupe[k] = 0 /\ dedupe' = [dedupe EXCEPT ![k] = Dedupe + 1]

(* SET risk_alert:{vault}:{side} NX EX alert_dedupe_seconds                *)
SetKey(k) == dedupe[k] = 0 /\ dedupe' = [dedupe EXCEPT ![k] = Dedupe]

Claim(p, v) ==
    /\ Deal(p, v)
    /\ SideOf(p, v) # "none"
    /\ SetKey(<<v, SideOf(p, v)>>)
    /\ pick' = [pick EXCEPT ![p] = <<v, SideOf(p, v)>>]
    /\ pc' = [pc EXCEPT ![p] = "send"]
    /\ UNCHANGED <<unread, price, worldVars, alerts, faults>>

(* telegram_send_to_wallet.delay(vault.owner, ...)                         *)
Send(p) ==
    /\ pc[p] = "send"
    /\ alerts[pick[p]] < MaxAlerts
    /\ alerts' = [alerts EXCEPT ![pick[p]] = @ + 1]
    /\ pc' = [pc EXCEPT ![p] = "scan"]
    /\ pick' = [pick EXCEPT ![p] = NoPick]
    /\ UNCHANGED <<dedupe, unread, active, price, worldVars, faults>>

EndTick(p) ==
    /\ Priced(p)
    /\ DOMAIN active[p] = {}
    /\ Forget(p)
    /\ UNCHANGED <<dedupe, worldVars, alerts, faults>>

(* No RPC, a database, Redis or broker call that raises, or a kill: the    *)
(* tick is over and a key it has set stays.                                *)
Abort(p) ==
    /\ pc[p] # "idle"
    /\ Fault
    /\ Forget(p)
    /\ UNCHANGED <<dedupe, worldVars, alerts>>

TickStep(p) ==
    \/ \E v \in Vaults : ReadRule(p, v) \/ Skip(p, v) \/ Claim(p, v)
    \/ \E f \in Feeds : ReadPrice(p, f)
    \/ Send(p)
    \/ EndTick(p)

TickFault(p) ==
    \/ \E v \in Vaults : RuleReadFails(p, v)
    \/ \E f \in Feeds : PriceReadFails(p, f)
    \/ Abort(p)

(***************************************************************************)
(* Everything a tick does not do itself.                                   *)
(***************************************************************************)

SetRule(v, r) ==
    /\ rules[v] # r
    /\ rules' = [rules EXCEPT ![v] = r]
    /\ UNCHANGED <<dedupe, tickVars, rounds, alerts, faults>>

NewRound(f, r) ==
    /\ rounds[f] # r
    /\ rounds' = [rounds EXCEPT ![f] = r]
    /\ UNCHANGED <<dedupe, tickVars, rules, alerts, faults>>

(* A worker has taken the task of an alert.                                *)
Taken(k) ==
    /\ alerts[k] > 0
    /\ alerts' = [alerts EXCEPT ![k] = @ - 1]
    /\ UNCHANGED <<dedupe, tickVars, worldVars, faults>>

NothingExpires == UNCHANGED dedupe

(* Redis drops a key when its time is over.                                *)
Expire == dedupe' = [k \in Key |-> IF dedupe[k] > 0 THEN dedupe[k] - 1 ELSE 0]

Clock == Expire /\ UNCHANGED <<tickVars, worldVars, alerts, faults>>

Next ==
    \/ \E p \in Workers : StartTick(p) \/ TickStep(p) \/ TickFault(p)
    \/ \E v \in Vaults, r \in RuleSet : SetRule(v, r)
    \/ \E f \in Feeds, r \in RoundSet : NewRound(f, r)
    \/ \E k \in Key : Taken(k)
    \/ Clock

Spec == Init /\ [][Next]_vars

(* Beat keeps starting ticks on idle workers, a running tick goes on       *)
(* unless it fails, queued alerts are taken and time passes.               *)
Fairness ==
    /\ WF_vars(\E p \in Workers : StartTick(p))
    /\ \A p \in Workers : WF_vars(TickStep(p))
    /\ \A k \in Key : WF_vars(Taken(k))
    /\ WF_vars(Clock)

FairSpec == Spec /\ Fairness

(***************************************************************************)
(* Properties.                                                             *)
(***************************************************************************)

(* Alerts of a vault and side are raised a dedupe period apart, and each   *)
(* key that is set gives one alert or none, although ticks overlap freely: *)
(* SET NX EX alone excludes (tasks.py:509-542).                            *)
Gate == INSTANCE TriggerGate WITH
    Keys <- Key,
    Claimers <- Workers,
    Cooldown <- Dedupe,
    MaxJobs <- MaxAlerts,
    age <- [k \in Key |-> Dedupe - dedupe[k]],
    claims <- {<<p, pick[p]>> : p \in {q \in Workers : pc[q] = "send"}},
    jobs <- alerts

AlertGate == Gate!Spec

Standing(v, side) ==
    /\ IsActive(rules[v])
    /\ Side(rules[v], UsablePrice(rounds[rules[v].feed])) = side

(* A threshold that stays reached is announced again and again, although a *)
(* failing tick may take a key with it and raise nothing                   *)
(* (tasks.py:472-555).                                                     *)
StandingAlerted ==
    \A v \in Vaults, side \in Actions :
        <>[]Standing(v, side) => []<>(alerts[<<v, side>>] > 0)
===================================================================================
