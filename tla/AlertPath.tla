-------------------------------- MODULE AlertPath --------------------------------
(***************************************************************************)
(* An alert from the price to the chat: the risk guard raises it for the   *)
(* owner of a vault, and the notification tasks take it to the channels of *)
(* that wallet.  RiskGuard and Notify keep their own modules; here are the *)
(* steps they share, the processes of the celery queue that run both, and  *)
(* the owner of a vault, which the indexer sets while ticks and alerts are *)
(* under way.                                                              *)
(*                                                                         *)
(* Alerts are as many as may be on their way at once: one that is over     *)
(* gives its place to another.                                             *)
(***************************************************************************)
EXTENDS Integers, Sequences, FiniteSets

CONSTANTS Vaults, Feeds, Workers, RuleSet, RoundSet, Dedupe, MaxFaults,
          Alerts, Wallets, Chats, Ids

VARIABLES
    dedupe, pc, unread, active, price, pick, rules, rounds,      \* RiskGuard
    table, to, walletTasks, channelTasks, job, inbox, log,
    past, unsure, hit,                                           \* Notify
    faults,     \* failures so far, of both parts
    owner,      \* owner[v]: the owner in the row of vault v
    read,       \* read[p]: the owners in the rows the tick of p has read
    key,        \* key[m]: the vault and side alert m was raised for
    began,      \* began[p]: the owners when the tick of p began (history)
    meant,      \* meant[m]: the owner when the tick that raised m began (history)
    late        \* an alert has outlived its key (history)

guardVars == <<dedupe, pc, unread, active, price, pick, rules, rounds>>
noteVars == <<table, to, walletTasks, channelTasks, job, inbox, log, past, unsure, hit>>
ownerVars == <<owner, read, key, began, meant>>
vars == <<guardVars, noteVars, faults, ownerVars, late>>

NoKey == <<>>

Note == INSTANCE Notify
Guard == INSTANCE RiskGuard WITH
    MaxAlerts <- Cardinality(Alerts),
    alerts <- [k \in Vaults \X {"buy", "sell"} |->
                  Cardinality({m \in walletTasks : key[m] = k})]

(* What the two parts ask for, of the constants they share.                *)
ASSUME NotifyAssumption == MaxFaults \in Nat /\ Note!NotRaised \notin Wallets
ASSUME DedupeAssumption == Dedupe \in Nat \ {0}
ASSUME GuardAssumption ==
    /\ IsFiniteSet(Alerts)
    /\ RuleSet \subseteq Guard!Rule(Feeds) /\ RoundSet \subseteq Guard!Round

NotRead == [v \in Vaults |-> Note!NoOwner]

Init ==
    /\ Note!Init
    /\ key = [m \in Alerts |-> NoKey]
    /\ Guard!Init
    /\ owner \in [Vaults -> Note!Unknown]
    /\ read = [p \in Workers |-> NotRead]
    /\ began = [p \in Workers |-> NotRead]
    /\ meant = [m \in Alerts |-> Note!NotRaised]
    /\ late = FALSE

(* The alert has a task left.                                              *)
UnderWay(m) ==
    \/ m \in walletTasks
    \/ \E i \in Ids : <<m, i>> \in channelTasks
    \/ \E p \in Workers : job[p] # Note!Idle /\ Note!AlertOf(p) = m

Unsettled(k) == {m \in Alerts : key[m] = k /\ UnderWay(m)}
Sending(k) == {p \in Workers : pc[p] = "send" /\ pick[p] = k}

(***************************************************************************)
(* The tick.                                                               *)
(***************************************************************************)

(* The bound on Alerts: a tick begins only if the running ticks and itself *)
(* can raise an alert for each vault.                                      *)
Room(p) ==
    Cardinality({m \in Alerts : to[m] = Note!NotRaised})
        >= Cardinality(Vaults) * Cardinality({p} \cup {q \in Workers : pc[q] # "idle"})

(* vaults = db.scalars(select(Vault)).all()                                *)
StartTick(p) ==
    /\ job[p] = Note!Idle
    /\ Room(p)
    /\ UNCHANGED <<noteVars, owner, key, meant, late>>
    /\ Guard!StartTick(p)
    /\ read' = [read EXCEPT ![p] = owner]
    /\ began' = [began EXCEPT ![p] = owner]

(* The steps of the tick that raise no alert.                              *)
Scan(p) ==
    /\ UNCHANGED <<noteVars, ownerVars, late>>
    /\ \/ \E v \in Vaults : Guard!ReadRule(p, v) \/ Guard!Skip(p, v) \/ Guard!Claim(p, v)
       \/ \E f \in Feeds : Guard!ReadPrice(p, f)
       \/ \E v \in Vaults : Guard!RuleReadFails(p, v)
       \/ \E f \in Feeds : Guard!PriceReadFails(p, f)

(* A tick is over: what it has read is gone.                               *)
Leave(p) ==
    /\ UNCHANGED <<noteVars, owner, key, meant, late>>
    /\ read' = [read EXCEPT ![p] = NotRead]
    /\ began' = [began EXCEPT ![p] = NotRead]

EndTick(p) == Leave(p) /\ Guard!EndTick(p)
AbortTick(p) == Leave(p) /\ Guard!Abort(p)

(* telegram_send_to_wallet.delay(vault.owner, ...)                         *)
Raise(p, m) ==
    /\ pc[p] = "send"
    /\ Note!Raise(m, read[p][pick[p][1]])
    /\ key' = [key EXCEPT ![m] = pick[p]]
    /\ Guard!Send(p)
    /\ meant' = [meant EXCEPT ![m] = began[p][pick[p][1]]]
    /\ UNCHANGED <<owner, read, began, late>>

(***************************************************************************)
(* The notification tasks.                                                 *)
(***************************************************************************)

TakeTask(p) ==
    /\ pc[p] = "idle"
    /\ UNCHANGED <<ownerVars, late>>
    /\ \/ \E m \in Alerts : Note!TakeWallet(p, m) /\ Guard!Taken(key[m])
       \/ \E x \in Note!Pairs : Note!TakeChannel(p, x) /\ UNCHANGED guardVars

Notify(p) == Note!Work(p) /\ UNCHANGED <<guardVars, ownerVars, late>>

NotifyFault ==
    /\ (\E p \in Workers : Note!Abort(p)) \/ (\E m \in Alerts : Note!ReadFails(m))
    /\ UNCHANGED <<guardVars, ownerVars, late>>

(* An alert that is over: its place is taken by another one.               *)
Retire(m) ==
    /\ to[m] # Note!NotRaised /\ ~UnderWay(m)
    /\ to' = [to EXCEPT ![m] = Note!NotRaised]
    /\ key' = [key EXCEPT ![m] = NoKey]
    /\ meant' = [meant EXCEPT ![m] = Note!NotRaised]
    /\ inbox' = [x \in Note!Pairs |-> IF x[1] = m THEN <<>> ELSE inbox[x]]
    /\ log' = [x \in Note!Pairs |-> IF x[1] = m THEN "none" ELSE log[x]]
    /\ past' = {x \in past : x[1] # m}
    /\ unsure' = {x \in unsure : x[1] # m}
    /\ hit' = hit \ {m}
    /\ UNCHANGED <<guardVars, table, walletTasks, channelTasks, job, faults,
                   owner, read, began, late>>

(***************************************************************************)
(* What neither part does itself.                                          *)
(***************************************************************************)

(* The indexer commits another owner.                                      *)
SetOwner(v, w) ==
    /\ owner[v] # w
    /\ owner' = [owner EXCEPT ![v] = w]
    /\ UNCHANGED <<guardVars, noteVars, faults, read, key, began, meant, late>>

Users ==
    /\ \E i \in Ids :
          \/ Note!Delete(i)
          \/ \E w \in Wallets : Note!Open(i, w)
          \/ \E c \in Chats : Note!Bind(i, c)
    /\ UNCHANGED <<guardVars, ownerVars, late>>

NewRound(f, r) == UNCHANGED <<noteVars, ownerVars, late>> /\ Guard!NewRound(f, r)

Clock ==
    /\ UNCHANGED <<noteVars, ownerVars>>
    /\ Guard!Clock
    /\ late' = (late \/ \E k \in DOMAIN dedupe :
                          dedupe'[k] = 0 /\ Unsettled(k) \cup Sending(k) # {})

Next ==
    \/ \E p \in Workers :
          \/ StartTick(p) \/ Scan(p) \/ EndTick(p) \/ AbortTick(p)
          \/ TakeTask(p) \/ Notify(p)
          \/ \E m \in Alerts : Raise(p, m)
    \/ NotifyFault
    \/ \E m \in Alerts : Retire(m)
    \/ \E v \in Vaults, w \in Wallets : SetOwner(v, w)
    \/ \E f \in Feeds, r \in RoundSet : NewRound(f, r)
    \/ Users
    \/ Clock

Spec == Init /\ [][Next]_vars

(* Ticks and notification tasks wait in one queue, which is served in      *)
(* order: whatever waits gets its turn though the processes are busy with  *)
(* the others in between.  A process goes on with what it has begun.       *)
Fairness ==
    /\ SF_vars(\E p \in Workers : StartTick(p))
    /\ SF_vars(\E p \in Workers : TakeTask(p))
    /\ \A p \in Workers :
          /\ WF_vars(Scan(p) \/ EndTick(p)) /\ WF_vars(Notify(p))
          /\ WF_vars(\E m \in Alerts : Raise(p, m))
    /\ \A m \in Alerts : WF_vars(Retire(m))
    /\ WF_vars(Clock)

FairSpec == Spec /\ Fairness

(***************************************************************************)
(* Properties.                                                             *)
(***************************************************************************)

(* An alert reaches only the chats of a wallet that owned the vault when   *)
(* the tick that raised it began, or later: each tick reads the owners     *)
(* anew, and what it has read goes no further than its own alerts          *)
(* (tasks.py:491-494, 513-519, 347-370).                                   *)
OnlyOwnersAlerted ==
    \A m \in Alerts, i \in Ids :
        inbox[<<m, i>>] # <<>> => table[i].wallet = meant[m]

(* Unless an alert outlives its key, a vault and side have one alert on    *)
(* its way at most, from the tick to the chats: alerts of one threshold    *)
(* are not delivered twice at once or out of order (tasks.py:510-542).     *)
OneAlertAtATime ==
    ~late => \A k \in DOMAIN dedupe : Cardinality(Unsettled(k)) + Cardinality(Sending(k)) <= 1

Tried(k, i) == \E m \in Alerts : key[m] = k /\ log[<<m, i>>] # "none"

(* A threshold that stays reached is announced again and again on every    *)
(* channel that the owner keeps, once the owner is settled, although ticks *)
(* fail, keys are taken for a former owner or for nobody, and alerts share *)
(* the processes with the ticks (tasks.py:472-555, 340-370).               *)
StandingReachesOwner ==
    \A v \in Vaults, w \in Wallets, i \in Ids, side \in {"buy", "sell"} :
        <>[](Guard!Standing(v, side) /\ owner[v] = w /\ i \in Note!Recipients(w))
            => []<>Tried(<<v, side>>, i)
===================================================================================
