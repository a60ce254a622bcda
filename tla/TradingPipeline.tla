---------------------------- MODULE TradingPipeline ----------------------------
(***************************************************************************)
(* The strategy ticks and the execution worker together: a claim of a tick *)
(* becomes a task of the executor, a task that swaps resets the age of the *)
(* vault's last execution that later ticks read, and both live in the same *)
(* time.  The two parts keep their own modules; here are the steps they    *)
(* share and what only the whole can promise.                              *)
(***************************************************************************)
EXTENDS Integers, Sequences, FiniteSets

CONSTANTS Vaults, Feeds, Workers, RuleSet, RoundSet, LockTTL, Cooldown,
          MaxFaults, Tasks, Executors, MaxRetries, MaxNonce

VARIABLES
    tickLock, idem, tickPc, unread, active, price, pick, rules, sinceExec,
    rounds, faults, lease, overran,                     \* StrategyTick
    queue, waiting, phase, try, pc, cur, nonce, result, connected, hasKey,
    dryRun, minedNonce, tx, rows, checked, unanswered, unlogged, \* Executor
    key,        \* key[t]: the vault and action task t was enqueued for
    swapAge,    \* swapAge[k]: time since a swap was mined for k (history)
    late        \* a job has come close to outliving its key (history)

tickVars == <<tickLock, idem, tickPc, unread, active, price, pick, rules,
              sinceExec, rounds, faults, lease, overran>>
jobVars == <<queue, waiting, phase, try, pc, cur, nonce, result, connected,
             hasKey, dryRun, minedNonce, tx, rows, checked, unanswered, unlogged>>
vars == <<tickVars, jobVars, key, swapAge, late>>

Live(t) == phase[t] \in {"waiting", "running"}
TasksOf(k) == {t \in Tasks : phase[t] # "new" /\ key[t] = k}

(* The tasks of k that may still swap.                                     *)
JobsOf(k) ==
    {t \in TasksOf(k) : Live(t) \/ \E i \in 0..MaxRetries : tx[<<t, i>>].status = "pending"}

Exec == INSTANCE Executor
Tick == INSTANCE StrategyTick WITH
    pc <- tickPc,
    MaxJobs <- Cardinality(Tasks),
    jobs <- [k \in Vaults \X {"buy", "sell"} |-> Cardinality({t \in TasksOf(k) : Live(t)})]

(* What the two parts assume of their constants, of those of the whole.    *)
ASSUME TaskAssumption == IsFiniteSet(Tasks)
ASSUME ExecutorAssumption ==
    /\ MaxRetries \in Nat /\ MaxNonce \in Nat
    /\ \A e, f \in Executors : e = f
ASSUME TickAssumption ==
    /\ RuleSet \subseteq Tick!Rule(Feeds) /\ RoundSet \subseteq Tick!Round
    /\ LockTTL \in Nat \ {0} /\ Cooldown \in Nat /\ LockTTL < Cooldown
    /\ MaxFaults \in Nat

(* The executor is configured to trade; the other settings are the         *)
(* business of Executor.                                                   *)
Init ==
    /\ hasKey = TRUE /\ dryRun = FALSE
    /\ Exec!Init
    /\ key = [t \in Tasks |-> <<>>]
    /\ swapAge = [k \in Vaults \X {"buy", "sell"} |-> Cooldown]
    /\ late = FALSE
    /\ Tick!Init

(* A job of k is neither executed nor given up: it may still swap.         *)
Unsettled(k) ==
    \/ \E p \in Workers : tickPc[p] = "send" /\ pick[p] = k
    \/ JobsOf(k) # {}

(* The steps of the ticks that enqueue nothing, and of the owners and      *)
(* feeds they read.                                                        *)
Scan ==
    /\ UNCHANGED <<jobVars, key, swapAge, late>>
    /\ \/ \E p \in Workers :
            \/ Tick!StartTick(p) \/ Tick!EndTick(p) \/ Tick!TickFault(p)
            \/ \E v \in Vaults : \/ Tick!ReadRule(p, v)
                                 \/ Tick!SkipVault(p, v)
                                 \/ Tick!Claim(p, v)
            \/ \E f \in Feeds : Tick!ReadPrice(p, f)
       \/ \E v \in Vaults, r \in RuleSet : Tick!SetRule(v, r)
       \/ \E f \in Feeds, r \in RoundSet : Tick!NewRound(f, r)

(* enqueue_execution.delay(vault.address, decision.action, ...)            *)
Enqueue(p, t) ==
    /\ tickPc[p] = "send"
    /\ Exec!Submit(t)
    /\ key' = [key EXCEPT ![t] = pick[p]]
    /\ Tick!Enqueue(p)
    /\ UNCHANGED <<swapAge, late>>

(* The executor and the chain, but for a swap that goes through.           *)
Execute ==
    /\ \/ \E t \in Tasks : Exec!CountdownOver(t)
       \/ \E e \in Executors : Exec!AttemptStep(e) \/ Exec!AttemptFault(e)
       \/ \E a \in Exec!Attempts : Exec!Mine(a, "reverted") \/ Exec!Evict(a)
    /\ UNCHANGED <<tickVars, key, swapAge, late>>

(* performUpkeep is mined: the vault has traded just now.                  *)
Swap(a) ==
    /\ Exec!Mine(a, "ok")
    /\ sinceExec' = [sinceExec EXCEPT ![key[a[1]][1]] = 0]
    /\ swapAge' = [swapAge EXCEPT ![key[a[1]]] = 0]
    /\ UNCHANGED <<tickLock, idem, tickPc, unread, active, price, pick, rules,
                   rounds, faults, lease, overran, key, late>>

Clock ==
    /\ UNCHANGED <<jobVars, key>>
    /\ Tick!Clock
    /\ swapAge' = [k \in DOMAIN swapAge |-> Tick!CountUp(swapAge[k])]
    /\ late' = (late \/ \E k \in DOMAIN idem : idem'[k] < LockTTL /\ Unsettled(k))

Next ==
    \/ Scan
    \/ \E p \in Workers, t \in Tasks : Enqueue(p, t)
    \/ Execute
    \/ \E a \in Exec!Attempts : Swap(a)
    \/ Clock

Spec == Init /\ [][Next]_vars

(***************************************************************************)
(* Properties.                                                             *)
(***************************************************************************)

Mined(a) == tx[a].status # "ok" /\ tx'[a].status = "ok"
Spaced == \A a \in Exec!Attempts : Mined(a) => swapAge[key[a[1]]] = Cooldown

Timely == ~late /\ ~overran

(* As long as jobs are settled while their key has a lock period left and  *)
(* ticks are faster than their lock, a vault never has two unsettled jobs  *)
(* of one action, queued, running, retried or in the mempool: the          *)
(* idempotency key covers the job's whole life (tasks.py:443-450).         *)
OneJobAtATime ==
    Timely => \A k \in DOMAIN idem : Cardinality(JobsOf(k)) <= 1

(* config.py:126 describes execution_cooldown_seconds as "Min seconds      *)
(* between same-action executions on the same vault".  Violated: the key   *)
(* bounds claims, not executions, so a job that waits in the queue, or a   *)
(* retry after a lost receipt, swaps right after another one.              *)
SameActionSpacing == [][Spaced]_vars

(* What the code does guarantee of the cooldown: same-action swaps are a   *)
(* cooldown apart as long as no tick outlives its lock, no attempt loses   *)
(* sight of its transaction and every job is settled while its key has a   *)
(* lock period left (strategy.py:34-37, tasks.py:422-450).                 *)
SpacedWhenTimely ==
    [][Timely /\ unanswered = {} => Spaced]_vars
================================================================================
