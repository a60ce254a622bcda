------------------------------ MODULE TriggerGate ------------------------------
(***************************************************************************)
(* What the strategy scan promises about the jobs it enqueues, whatever    *)
(* the number of workers, the locks they hold and the vaults they read: a  *)
(* key (a vault and an action) is claimed at most once per cooldown, and a *)
(* claim turns into one job or into none.  StrategyTick implements this.   *)
(***************************************************************************)
EXTENDS Integers

CONSTANTS
    Keys,       \* the (vault, action) pairs
    Claimers,   \* who may claim a key: the celery workers
    Cooldown,   \* the time between two claims of a key
    MaxJobs     \* a bound on the jobs of one key the broker may hold

VARIABLES
    age,        \* age[k]: time since the last claim of k, Cooldown at most
    claims,     \* the claims that are neither sent nor lost yet
    jobs        \* jobs[k]: the jobs of k handed to the broker, not settled

gateVars == <<age, claims, jobs>>

Init ==
    /\ age = [k \in Keys |-> Cooldown]
    /\ claims = {}
    /\ jobs = [k \in Keys |-> 0]

Claim(c, k) ==
    /\ age[k] = Cooldown
    /\ \A other \in Keys : <<c, other>> \notin claims
    /\ age' = [age EXCEPT ![k] = 0]
    /\ claims' = claims \cup {<<c, k>>}
    /\ UNCHANGED jobs

Send(c, k) ==
    /\ <<c, k>> \in claims
    /\ jobs[k] < MaxJobs
    /\ claims' = claims \ {<<c, k>>}
    /\ jobs' = [jobs EXCEPT ![k] = @ + 1]
    /\ UNCHANGED age

Lose(c, k) ==
    /\ <<c, k>> \in claims
    /\ claims' = claims \ {<<c, k>>}
    /\ UNCHANGED <<age, jobs>>

Settle(k) ==
    /\ jobs[k] > 0
    /\ jobs' = [jobs EXCEPT ![k] = @ - 1]
    /\ UNCHANGED <<age, claims>>

Elapse ==
    /\ age' = [k \in Keys |-> IF age[k] < Cooldown THEN age[k] + 1 ELSE Cooldown]
    /\ UNCHANGED <<claims, jobs>>

Next ==
    \/ \E c \in Claimers, k \in Keys : Claim(c, k) \/ Send(c, k) \/ Lose(c, k)
    \/ \E k \in Keys : Settle(k)
    \/ Elapse

Spec == Init /\ [][Next]_gateVars
================================================================================
