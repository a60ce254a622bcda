-------------------------------- MODULE Executor --------------------------------
(***************************************************************************)
(* worker.execution.enqueue (apps/worker/tasks.py, enqueue_execution) and  *)
(* execute_vault_upkeep (libs/chain/executor.py): the execution worker     *)
(* takes a task, asks checkUpkeep, signs performUpkeep with the account's  *)
(* pending nonce, waits for the receipt, logs a row and retries a failure. *)
(* The chain and its mempool run beside it and answer late or never.       *)
(*                                                                         *)
(* An attempt is a pair <<t, i>>: the i-th retry of task t.  It sends at   *)
(* most one transaction and writes at most one execution_logs row, so both *)
(* are functions of the attempt.                                           *)
(***************************************************************************)
EXTENDS Integers, Sequences, FiniteSets

CONSTANTS
    Tasks,      \* the execution tasks
    Executors,  \* processes consuming the queue "execution"
    MaxRetries, \* max_retries of the task
    MaxNonce    \* bound on the nonces of the executor's account

ASSUME RetryAssumption == MaxRetries \in Nat
ASSUME NonceAssumption == MaxNonce \in Nat
(* celery_app.py routes the task to a queue that one process with          *)
(* --concurrency=1 consumes.                                               *)
ASSUME SingleExecutor == \A e, f \in Executors : e = f

VARIABLES
    queue,      \* the tasks the broker will deliver
    waiting,    \* the tasks whose retry countdown runs
    phase,      \* phase[t]: "new", "waiting", "running" or "ended"
    try,        \* try[t]: retries of t so far
    pc,         \* pc[e]: what executor e is doing
    cur,        \* cur[e]: the task it runs
    nonce,      \* nonce[e]: the nonce it signs with
    result,     \* result[e]: what execute_vault_upkeep returned
    connected,  \* connected[e]: the process holds a connected Web3
    hasKey,     \* EXECUTOR_PRIVATE_KEY is set
    dryRun,     \* EXECUTOR_DRY_RUN
    minedNonce, \* nonces below this one are used up on chain
    tx,         \* tx[a]: the transaction of attempt a
    rows,       \* rows[a]: the execution_logs row of attempt a
    checked,    \* checked[a]: what checkUpkeep answered to a (history)
    unanswered, \* attempts that never saw their transaction's fate (history)
    unlogged    \* attempts killed or with a lost row (history)

taskVars == <<queue, waiting, phase, try>>
execVars == <<pc, cur, nonce, result, connected>>
settings == <<hasKey, dryRun>>
chainVars == <<minedNonce, tx>>
logVars == <<rows, checked, unanswered, unlogged>>
vars == <<taskVars, execVars, settings, chainVars, logVars>>

Tries == 0..MaxRetries
Attempts == Tasks \X Tries
Attempt(e) == <<cur[e], try[cur[e]]>>
NoTask == <<>>
NoTx == [status |-> "none", nonce |-> 0]
Results == {"none", "unconfigured", "check_error", "not_needed", "dry_run",
            "ok", "reverted", "error"}
RowStatus == {"none", "skipped", "unconfigured", "dry_run", "ok", "failed"}

TypeOK ==
    /\ queue \in Seq(Tasks)
    /\ waiting \subseteq Tasks
    /\ phase \in [Tasks -> {"new", "waiting", "running", "ended"}]
    /\ try \in [Tasks -> Tries]
    /\ pc \in [Executors -> {"idle", "start", "check", "perform", "send",
                             "receipt", "log", "finish"}]
    /\ cur \in [Executors -> Tasks \cup {NoTask}]
    /\ \A e \in Executors : pc[e] # "idle" => cur[e] \in Tasks
    /\ nonce \in [Executors -> 0..MaxNonce]
    /\ result \in [Executors -> Results]
    /\ connected \in [Executors -> BOOLEAN]
    /\ hasKey \in BOOLEAN /\ dryRun \in BOOLEAN
    /\ minedNonce \in Nat
    /\ tx \in [Attempts -> [status : {"none", "pending", "ok", "reverted", "dropped"},
                            nonce : 0..MaxNonce]]
    /\ rows \in [Attempts -> RowStatus]
    /\ checked \in [Attempts -> {"unasked", "yes", "no", "error"}]
    /\ unanswered \subseteq Attempts
    /\ unlogged \subseteq Attempts

Init ==
    /\ queue = <<>>
    /\ waiting = {}
    /\ phase = [t \in Tasks |-> "new"]
    /\ try = [t \in Tasks |-> 0]
    /\ pc = [e \in Executors |-> "idle"]
    /\ cur = [e \in Executors |-> NoTask]
    /\ nonce = [e \in Executors |-> 0]
    /\ result = [e \in Executors |-> "none"]
    /\ connected = [e \in Executors |-> FALSE]
    /\ hasKey \in BOOLEAN /\ dryRun \in BOOLEAN
    /\ minedNonce = 0
    /\ tx = [a \in Attempts |-> NoTx]
    /\ rows = [a \in Attempts |-> "none"]
    /\ checked = [a \in Attempts |-> "unasked"]
    /\ unanswered = {}
    /\ unlogged = {}

(***************************************************************************)
(* The broker.                                                             *)
(***************************************************************************)

(* enqueue_execution.delay in a strategy tick.                             *)
Submit(t) ==
    /\ phase[t] = "new"
    /\ phase' = [phase EXCEPT ![t] = "waiting"]
    /\ queue' = Append(queue, t)
    /\ UNCHANGED <<waiting, try, execVars, settings, chainVars, logVars>>

(* Mutated forms, each named for the mistake it makes, precede the         *)
(* definitions they replace.                                               *)
CountdownStays(t) ==
    /\ t \in waiting
    /\ queue' = Append(queue, t)
    /\ UNCHANGED <<waiting, phase, try, execVars, settings, chainVars, logVars>>

(* The countdown of 30 seconds is over: the retry is delivered again.      *)
CountdownOver(t) ==
    /\ t \in waiting
    /\ waiting' = waiting \ {t}
    /\ queue' = Append(queue, t)
    /\ UNCHANGED <<phase, try, execVars, settings, chainVars, logVars>>

(***************************************************************************)
(* One attempt on executor e.                                              *)
(***************************************************************************)

Goto(e, label) == pc' = [pc EXCEPT ![e] = label]

(* execute_vault_upkeep, or the check before it, ends with r.              *)
Return(e, r) ==
    /\ Goto(e, "log")
    /\ result' = [result EXCEPT ![e] = r]

(* The message is acknowledged when the attempt begins.                    *)
Take(e) ==
    /\ pc[e] = "idle"
    /\ queue # <<>>
    /\ queue' = Tail(queue)
    /\ cur' = [cur EXCEPT ![e] = Head(queue)]
    /\ phase' = [phase EXCEPT ![Head(queue)] = "running"]
    /\ Goto(e, "start")
    /\ UNCHANGED <<waiting, try, nonce, result, connected, settings, chainVars,
                   logVars>>

(* _get_w3 keeps a connected Web3 for good and tries again otherwise.      *)
Connect(e) ==
    /\ pc[e] = "start"
    /\ connected' = [connected EXCEPT ![e] = TRUE]
    /\ IF hasKey
       THEN Goto(e, "check") /\ UNCHANGED result
       ELSE Return(e, "unconfigured")
    /\ UNCHANGED <<taskVars, cur, nonce, settings, chainVars, logVars>>

ConnectFails(e) ==
    /\ pc[e] = "start"
    /\ ~connected[e]
    /\ Return(e, "unconfigured")
    /\ UNCHANGED <<taskVars, cur, nonce, connected, settings, chainVars, logVars>>

(* The vault's answer is the contract's business; an error of the call     *)
(* leaves upkeep_needed at its default, False.                             *)
CheckUpkeep(e, answer) ==
    /\ pc[e] = "check"
    /\ checked' = [checked EXCEPT ![Attempt(e)] = answer]
    /\ CASE answer = "yes"   -> Goto(e, "perform") /\ UNCHANGED result
         [] answer = "no"    -> Return(e, "not_needed")
         [] answer = "error" -> Return(e, "check_error")
    /\ UNCHANGED <<taskVars, cur, nonce, connected, settings, chainVars, rows,
                   unanswered, unlogged>>

(* eth_call of performUpkeep.                                              *)
Simulate(e, r) ==
    /\ pc[e] = "perform"
    /\ dryRun
    /\ Return(e, r)
    /\ UNCHANGED <<taskVars, cur, nonce, connected, settings, chainVars, logVars>>

Pending == {a \in Attempts : tx[a].status = "pending"}
LiveNonces == {tx[a].nonce : a \in Pending}

IsLatestNonce(n) == n \in 0..MaxNonce /\ n = minedNonce

(* getTransactionCount(account, "pending"): the first nonce neither used   *)
(* up on chain nor taken by the transactions in the mempool.               *)
IsPendingNonce(n) ==
    /\ n \in 0..MaxNonce
    /\ n >= minedNonce
    /\ n \notin LiveNonces
    /\ \A m \in minedNonce..(n - 1) : m \in LiveNonces

ReadNonce(e) ==
    /\ pc[e] = "perform"
    /\ ~dryRun
    /\ \E n \in 0..MaxNonce : /\ IsPendingNonce(n)
                              /\ nonce' = [nonce EXCEPT ![e] = n]
    /\ Goto(e, "send")
    /\ UNCHANGED <<taskVars, cur, result, connected, settings, chainVars, logVars>>

(* send_raw_transaction: the node has the transaction in its mempool.      *)
Broadcast(e) ==
    tx' = [tx EXCEPT ![Attempt(e)] = [status |-> "pending", nonce |-> nonce[e]]]

Send(e) ==
    /\ pc[e] = "send"
    /\ Broadcast(e)
    /\ Goto(e, "receipt")
    /\ UNCHANGED <<taskVars, cur, nonce, result, connected, settings, minedNonce,
                   logVars>>

(* The node has it, but its answer is lost.                                *)
SendAnswerLost(e) ==
    /\ pc[e] = "send"
    /\ Broadcast(e)
    /\ Return(e, "error")
    /\ unanswered' = unanswered \cup {Attempt(e)}
    /\ UNCHANGED <<taskVars, cur, nonce, connected, settings, minedNonce, rows,
                   checked, unlogged>>

(* The nonce, the latest block, the gas estimate or the send itself fails. *)
RpcFails(e) ==
    /\ pc[e] = "send" \/ (pc[e] = "perform" /\ ~dryRun)
    /\ Return(e, "error")
    /\ UNCHANGED <<taskVars, cur, nonce, connected, settings, chainVars, logVars>>

Receipt(e) ==
    /\ pc[e] = "receipt"
    /\ tx[Attempt(e)].status \in {"ok", "reverted"}
    /\ Return(e, tx[Attempt(e)].status)
    /\ UNCHANGED <<taskVars, cur, nonce, connected, settings, chainVars, logVars>>

WaitWithoutTimeout(e) ==
    /\ pc[e] = "receipt"
    /\ tx[Attempt(e)].status \in {"ok", "reverted"}
    /\ Return(e, "error")
    /\ unanswered' = unanswered \cup {Attempt(e)}
    /\ UNCHANGED <<taskVars, cur, nonce, connected, settings, chainVars, rows,
                   checked, unlogged>>

(* wait_for_transaction_receipt gives up, or polling fails: the            *)
(* transaction may well be mined later.                                    *)
ReceiptTimeout(e) ==
    /\ pc[e] = "receipt"
    /\ Return(e, "error")
    /\ unanswered' = unanswered \cup {Attempt(e)}
    /\ UNCHANGED <<taskVars, cur, nonce, connected, settings, chainVars, rows,
                   checked, unlogged>>

RowOfAnyReceipt(r) ==
    CASE r = "unconfigured" -> "unconfigured"
      [] r \in {"not_needed", "check_error"} -> "skipped"
      [] r = "error" -> "failed"
      [] OTHER -> "ok"

RowOfRawResult(r) == IF r \in {"reverted", "error"} THEN "failed" ELSE r

(* The row enqueue_execution writes for a result.                          *)
RowOf(r) ==
    CASE r = "unconfigured" -> "unconfigured"
      [] r \in {"not_needed", "check_error"} -> "skipped"
      [] r \in {"reverted", "error"} -> "failed"
      [] OTHER -> r

LogRow(e) ==
    /\ pc[e] = "log"
    /\ rows' = [rows EXCEPT ![Attempt(e)] = RowOf(result[e])]
    /\ Goto(e, "finish")
    /\ UNCHANGED <<taskVars, cur, nonce, result, connected, settings, chainVars,
                   checked, unanswered, unlogged>>

(* _persist_execution_log swallows a database error.                       *)
LogFails(e) ==
    /\ pc[e] = "log"
    /\ unlogged' = unlogged \cup {Attempt(e)}
    /\ Goto(e, "finish")
    /\ UNCHANGED <<taskVars, cur, nonce, result, connected, settings, chainVars,
                   rows, checked, unanswered>>

Release(e) ==
    /\ Goto(e, "idle")
    /\ cur' = [cur EXCEPT ![e] = NoTask]
    /\ nonce' = [nonce EXCEPT ![e] = 0]
    /\ result' = [result EXCEPT ![e] = "none"]

MayRetryForever(e) == RowOf(result[e]) = "failed"
MayRetryAnyResult(e) == try[cur[e]] < MaxRetries

(* Only a failed attempt is retried, max_retries times.                    *)
MayRetry(e) == RowOf(result[e]) = "failed" /\ try[cur[e]] < MaxRetries

(* self.retry(countdown=30)                                                *)
Retry(e) ==
    /\ pc[e] = "finish"
    /\ MayRetry(e)
    /\ try' = [try EXCEPT ![cur[e]] = @ + 1]
    /\ phase' = [phase EXCEPT ![cur[e]] = "waiting"]
    /\ waiting' = waiting \cup {cur[e]}
    /\ Release(e)
    /\ UNCHANGED <<queue, connected, settings, chainVars, logVars>>

(* The task returns, or raises once its retries are used up.               *)
End(e) ==
    /\ pc[e] = "finish"
    /\ ~MayRetry(e)
    /\ phase' = [phase EXCEPT ![cur[e]] = "ended"]
    /\ Release(e)
    /\ UNCHANGED <<queue, waiting, try, connected, settings, chainVars, logVars>>

(* The process is killed, or the broker refuses the retry: the task, long  *)
(* acknowledged, is never attempted again.                                 *)
Crash(e) ==
    /\ pc[e] # "idle"
    /\ phase' = [phase EXCEPT ![cur[e]] = "ended"]
    /\ connected' = [connected EXCEPT ![e] = FALSE]
    /\ unlogged' = IF pc[e] = "finish" THEN unlogged ELSE unlogged \cup {Attempt(e)}
    /\ Release(e)
    /\ UNCHANGED <<queue, waiting, try, settings, chainVars, rows, checked,
                   unanswered>>

AttemptStep(e) ==
    \/ Take(e) \/ Connect(e) \/ ReadNonce(e) \/ Send(e) \/ Receipt(e)
    \/ ReceiptTimeout(e) \/ LogRow(e) \/ Retry(e) \/ End(e)
    \/ \E answer \in {"yes", "no"} : CheckUpkeep(e, answer)
    \/ Simulate(e, "dry_run")

AttemptFault(e) ==
    \/ ConnectFails(e) \/ CheckUpkeep(e, "error") \/ Simulate(e, "error")
    \/ SendAnswerLost(e) \/ RpcFails(e) \/ LogFails(e) \/ Crash(e)

(***************************************************************************)
(* The chain: only the transaction with the account's next nonce can be    *)
(* mined, others with that nonce are then void; the mempool may forget.    *)
(***************************************************************************)
Mine(a, status) ==
    /\ a \in Pending
    /\ tx[a].nonce = minedNonce
    /\ minedNonce' = minedNonce + 1
    /\ tx' = [b \in Attempts |->
                IF b = a THEN [tx[b] EXCEPT !.status = status]
                ELSE IF b \in Pending /\ tx[b].nonce = minedNonce
                     THEN [tx[b] EXCEPT !.status = "dropped"] ELSE tx[b]]
    /\ UNCHANGED <<taskVars, execVars, settings, logVars>>

Evict(a) ==
    /\ a \in Pending
    /\ tx' = [tx EXCEPT ![a].status = "dropped"]
    /\ UNCHANGED <<taskVars, execVars, settings, minedNonce, logVars>>

Chain == \E a \in Attempts : Mine(a, "ok") \/ Mine(a, "reverted") \/ Evict(a)

Next ==
    \/ \E t \in Tasks : Submit(t) \/ CountdownOver(t)
    \/ \E e \in Executors : AttemptStep(e) \/ AttemptFault(e)
    \/ Chain

Spec == Init /\ [][Next]_vars

(* The broker delivers, the worker goes on with what it has begun, and     *)
(* wait_for_transaction_receipt returns by its timeout.                    *)
Fairness ==
    /\ \A t \in Tasks : WF_vars(CountdownOver(t))
    /\ \A e \in Executors : WF_vars(AttemptStep(e))

FairSpec == Spec /\ Fairness

(***************************************************************************)
(* Properties.                                                             *)
(***************************************************************************)

(* Two live transactions of the account never share a nonce, across        *)
(* retries, time-outs and evictions (celery_app.py:20-21: "so all          *)
(* performUpkeep calls are sequential -> no nonce collision").             *)
NoNonceCollision ==
    \A a, b \in Pending : tx[a].nonce = tx[b].nonce => a = b

Made(a) == checked[a] # "unasked"

(* A task whose swap went through is attempted again only if that attempt  *)
(* never learnt the fate of its transaction: retries repeat a swap after a *)
(* lost answer and in no other case (executor.py:166-218, tasks.py:218).   *)
SwapRepeatedOnlyUnanswered ==
    \A t \in Tasks : \A i, j \in Tries :
        i < j /\ tx[<<t, i>>].status = "ok" /\ Made(<<t, j>>)
            => <<t, i>> \in unanswered

Busy(a) == \E e \in Executors : pc[e] # "idle" /\ Attempt(e) = a

(* execution_logs against the chain, once an attempt is over: an "ok" row  *)
(* stands for a mined swap, and a mined transaction has the row that says  *)
(* how it ended unless its answer, its row or its worker was lost          *)
(* (tasks.py:206-244, models.py ExecutionLog).                             *)
AuditTrail ==
    \A a \in Attempts :
        /\ rows[a] = "ok" => tx[a].status = "ok"
        /\ rows[a] \in {"skipped", "unconfigured", "dry_run"} => tx[a].status = "none"
        /\ ~Busy(a) /\ a \notin unanswered \cup unlogged =>
              /\ tx[a].status = "ok" => rows[a] = "ok"
              /\ tx[a].status = "reverted" => rows[a] = "failed"

(* A task is a retrying task: attempts in sequence, MaxRetries + 1 at most *)
(* and none after an end (tasks.py:156, 218-232).                          *)
Task == INSTANCE RetryingTask

TaskSpec == Task!Spec

(* Where a task is: its messages, its countdown, the executors it runs on. *)
Places(t) ==
    {<<"message", i>> : i \in {j \in DOMAIN queue : queue[j] = t}}
    \cup {<<"countdown", u>> : u \in waiting \cap {t}}
    \cup {<<"executor", e>> : e \in {f \in Executors : pc[f] # "idle" /\ cur[f] = t}}

(* A task on its way is in one place exactly, and in none before or after: *)
(* the message taken as an attempt begins, the retry sent when it fails    *)
(* and the countdown neither lose a task nor double it (tasks.py:156-162,  *)
(* 218-232, 450).                                                          *)
OnePlaceEach ==
    \A t \in Tasks :
        IF phase[t] \in {"waiting", "running"}
        THEN \E x \in Places(t) : Places(t) = {x}
        ELSE Places(t) = {}

(* An enqueued execution ends, in success or not: it is never stuck behind *)
(* a transaction that is not mined or a task that is retried.              *)
TaskEnds == \A t \in Tasks : phase[t] = "waiting" ~> phase[t] = "ended"

(* tasks.py:214 says of every skipped row "checkUpkeep returned false -    *)
(* no swap needed".  Violated: a checkUpkeep call that fails leaves        *)
(* upkeep_needed False, is logged as skipped without an error and is not   *)
(* retried (executor.py:103-110, tasks.py:206-216).                        *)
SkippedMeansNotNeeded ==
    \A a \in Attempts : rows[a] = "skipped" => checked[a] = "no"
================================================================================
