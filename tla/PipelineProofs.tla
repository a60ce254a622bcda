----------------------------- MODULE PipelineProofs -----------------------------
(***************************************************************************)
(* Proofs about TradingPipeline for every finite set of tasks, every       *)
(* number of workers and vaults and every pair of periods with             *)
(* LockTTL < Cooldown.  The invariants of the two parts are brought over   *)
(* from their own proofs: a step of the pipeline is a step of each part.   *)
(***************************************************************************)
EXTENDS TradingPipeline, FiniteSetTheorems, TLAPS

ActionKeys == Vaults \X {"buy", "sell"}
LiveJobs(k) == {t \in TasksOf(k) : Live(t)}

ExecP == INSTANCE ExecutorProofs
TickP == INSTANCE StrategyTickProofs WITH
    pc <- tickPc,
    MaxJobs <- Cardinality(Tasks),
    jobs <- [k \in Vaults \X {"buy", "sell"} |-> Cardinality({t \in TasksOf(k) : Live(t)})]

(***************************************************************************)
(* The two instances of a part, in TradingPipeline and of its proofs, have *)
(* the same definitions.                                                   *)
(***************************************************************************)

LEMMA SameExecutorNext == Exec!Next <=> ExecP!Next
BY DEF Exec!taskVars, ExecP!taskVars, Exec!execVars, ExecP!execVars,
       Exec!settings, ExecP!settings, Exec!chainVars, ExecP!chainVars,
       Exec!logVars, ExecP!logVars, Exec!Tries, ExecP!Tries,
       Exec!Attempts, ExecP!Attempts, Exec!Attempt, ExecP!Attempt,
       Exec!NoTask, ExecP!NoTask, Exec!Submit, ExecP!Submit,
       Exec!CountdownOver, ExecP!CountdownOver, Exec!Goto, ExecP!Goto,
       Exec!Return, ExecP!Return, Exec!Take, ExecP!Take,
       Exec!Connect, ExecP!Connect, Exec!ConnectFails, ExecP!ConnectFails,
       Exec!CheckUpkeep, ExecP!CheckUpkeep, Exec!Simulate, ExecP!Simulate,
       Exec!Pending, ExecP!Pending, Exec!LiveNonces, ExecP!LiveNonces,
       Exec!IsPendingNonce, ExecP!IsPendingNonce, Exec!ReadNonce, ExecP!ReadNonce,
       Exec!Broadcast, ExecP!Broadcast, Exec!Send, ExecP!Send,
       Exec!SendAnswerLost, ExecP!SendAnswerLost, Exec!RpcFails, ExecP!RpcFails,
       Exec!Receipt, ExecP!Receipt, Exec!ReceiptTimeout, ExecP!ReceiptTimeout,
       Exec!RowOf, ExecP!RowOf, Exec!LogRow, ExecP!LogRow,
       Exec!LogFails, ExecP!LogFails, Exec!Release, ExecP!Release,
       Exec!MayRetry, ExecP!MayRetry, Exec!Retry, ExecP!Retry,
       Exec!End, ExecP!End, Exec!Crash, ExecP!Crash,
       Exec!AttemptStep, ExecP!AttemptStep, Exec!AttemptFault, ExecP!AttemptFault,
       Exec!Mine, ExecP!Mine, Exec!Evict, ExecP!Evict,
       Exec!Chain, ExecP!Chain, Exec!Next, ExecP!Next

LEMMA SameExecutorInit == Exec!Init <=> ExecP!Init
BY DEF Exec!Init, ExecP!Init, Exec!Attempts, ExecP!Attempts, Exec!Tries, ExecP!Tries,
       Exec!NoTask, ExecP!NoTask, Exec!NoTx, ExecP!NoTx

LEMMA SameTickNext == Tick!Next <=> TickP!Next
BY DEF Tick!Next, TickP!Next, Tick!TickStep, TickP!TickStep, Tick!TickFault,
       TickP!TickFault, Tick!Environment, TickP!Environment,
       Tick!workerVars, TickP!workerVars, Tick!chainVars, TickP!chainVars,
       Tick!Key, TickP!Key, Tick!NoEntries, TickP!NoEntries, Tick!NoPick, TickP!NoPick,
       Tick!Put, TickP!Put, Tick!Drop, TickP!Drop, Tick!Restrict, TickP!Restrict,
       Tick!CountDown, TickP!CountDown, Tick!CountUp, TickP!CountUp,
       Tick!Older, TickP!Older, Tick!Fault, TickP!Fault, Tick!Forget, TickP!Forget,
       Tick!AcquireTick, TickP!AcquireTick, Tick!ReleaseTick, TickP!ReleaseTick,
       Tick!SetKey, TickP!SetKey, Tick!Expire, TickP!Expire,
       Tick!StartTick, TickP!StartTick, Tick!ReadRule, TickP!ReadRule,
       Tick!RuleReadFails, TickP!RuleReadFails, Tick!FeedsInUse, TickP!FeedsInUse,
       Tick!Unpriced, TickP!Unpriced, Tick!Priced, TickP!Priced,
       Tick!ReadPrice, TickP!ReadPrice, Tick!PriceReadFails, TickP!PriceReadFails,
       Tick!Decision, TickP!Decision, Tick!SkipVault, TickP!SkipVault,
       Tick!Claim, TickP!Claim, Tick!Enqueue, TickP!Enqueue, Tick!EndTick, TickP!EndTick,
       Tick!AbortTick, TickP!AbortTick, Tick!Crash, TickP!Crash,
       Tick!SetRule, TickP!SetRule, Tick!NewRound, TickP!NewRound,
       Tick!Trade, TickP!Trade, Tick!Settle, TickP!Settle, Tick!Clock, TickP!Clock,
       Tick!None, TickP!None, Tick!Actions, TickP!Actions, Tick!IsActive, TickP!IsActive,
       Tick!UsablePrice, TickP!UsablePrice, Tick!BuyHit, TickP!BuyHit,
       Tick!SellHit, TickP!SellHit, Tick!Signal, TickP!Signal,
       Tick!EvaluateRule, TickP!EvaluateRule

LEMMA SameTickInit == Tick!Init <=> TickP!Init
BY DEF Tick!Init, TickP!Init, Tick!Key, TickP!Key, Tick!Actions, TickP!Actions,
       Tick!NoEntries, TickP!NoEntries, Tick!NoPick, TickP!NoPick, Tick!None, TickP!None

(***************************************************************************)
(* A step of the pipeline is a step of the executor, or leaves it alone.   *)
(***************************************************************************)

LEMMA StepOfExecutor == [Next]_vars => [ExecP!Next]_(ExecP!vars)
<1> SUFFICES ASSUME [Next]_vars PROVE [ExecP!Next]_(ExecP!vars)
  OBVIOUS
<1>1. ASSUME UNCHANGED jobVars PROVE UNCHANGED ExecP!vars
  BY <1>1 DEF jobVars, ExecP!vars, ExecP!taskVars, ExecP!execVars, ExecP!settings,
              ExecP!chainVars, ExecP!logVars
<1>2. CASE Scan \/ Clock \/ UNCHANGED vars
  BY <1>1, <1>2 DEF Scan, Clock, vars
<1>3. ASSUME NEW p \in Workers, NEW t \in Tasks, Enqueue(p, t) PROVE Exec!Next
  BY <1>3 DEF Enqueue, Exec!Next
<1>4. ASSUME Execute PROVE Exec!Next
  BY <1>4 DEF Execute, Exec!Next, Exec!Chain
<1>5. ASSUME NEW a \in Exec!Attempts, Swap(a) PROVE Exec!Next
  BY <1>5 DEF Swap, Exec!Next, Exec!Chain
<1> QED
  BY <1>2, <1>3, <1>4, <1>5, SameExecutorNext DEF Next

(***************************************************************************)
(* What a step of the executor does to the tasks, in the pipeline's terms. *)
(***************************************************************************)

Trials == Tasks \X (0..MaxRetries)

(* Tasks stay as live as they were, or one of them ends.                   *)
TasksKeep ==
    /\ \A t \in Tasks : phase'[t] = "new" <=> phase[t] = "new"
    /\ \/ \A t \in Tasks : Live(t)' <=> Live(t)
       \/ \E t \in Tasks : Live(t) /\ phase' = [phase EXCEPT ![t] = "ended"]

(* A transaction is sent by a live task or moves on from the mempool.      *)
TxMoves(a) ==
    \/ tx'[a].status = tx[a].status
    \/ /\ tx[a].status = "none" /\ tx'[a].status = "pending"
       /\ Live(a[1]) /\ Live(a[1])'
    \/ tx[a].status = "pending" /\ tx'[a].status \in {"reverted", "dropped"}

LEMMA AttemptMoves ==
    ASSUME ExecP!LedgerInv, NEW e \in Executors,
           Exec!AttemptStep(e) \/ Exec!AttemptFault(e)
    PROVE  /\ TasksKeep
           /\ \A a \in Trials : TxMoves(a)
           /\ unanswered \subseteq unanswered'
<1> DEFINE Goal == /\ TasksKeep
                   /\ \A a \in Trials : TxMoves(a)
                   /\ unanswered \subseteq unanswered'
<1>1. ExecP!TypeOK /\ ExecP!TaskInv
  BY DEF ExecP!LedgerInv, ExecP!TaskInv
<1>2. /\ queue \in Seq(Tasks)
      /\ phase \in [Tasks -> {"new", "waiting", "running", "ended"}]
      /\ tx \in [Trials -> [status : {"none", "pending", "ok", "reverted", "dropped"},
                            nonce : 0..MaxNonce]]
  BY <1>1 DEF ExecP!TypeOK, ExecP!Attempts, ExecP!Tries, Trials
<1>3. ASSUME Exec!Take(e) PROVE Goal
  <2>1. /\ queue # <<>> /\ queue' = Tail(queue)
        /\ phase' = [phase EXCEPT ![Head(queue)] = "running"]
        /\ UNCHANGED <<tx, unanswered>>
    BY <1>3 DEF Exec!Take, Exec!chainVars, Exec!logVars
  <2>2. Head(queue) \in Tasks /\ Head(queue) = queue[1] /\ 1 \in DOMAIN queue
    BY <1>2, <2>1
  <2>3. phase[Head(queue)] = "waiting"
    BY <1>1, <2>2 DEF ExecP!TaskInv, ExecP!InQueue
  <2> QED
    BY <1>2, <2>1, <2>2, <2>3 DEF TasksKeep, TxMoves, Live
<1>4. ASSUME pc[e] # "idle"
      PROVE  /\ cur[e] \in Tasks /\ phase[cur[e]] = "running"
             /\ <<cur[e], try[cur[e]]>> \in Trials
             /\ pc[e] = "send" => tx[<<cur[e], try[cur[e]]>>].status = "none"
  BY <1>1, <1>4
     DEF ExecP!TaskInv, ExecP!TypeOK, ExecP!LedgerInv, ExecP!AuditInv, ExecP!Underway,
         ExecP!Attempt, ExecP!Attempts, ExecP!Tries, Trials
<1>5. ASSUME UNCHANGED <<phase, tx>>, unanswered \subseteq unanswered' PROVE Goal
  BY <1>5 DEF TasksKeep, TxMoves, Live
<1>6. ASSUME \/ Exec!Connect(e) \/ Exec!ConnectFails(e) \/ Exec!ReadNonce(e)
             \/ Exec!RpcFails(e) \/ Exec!Receipt(e) \/ Exec!ReceiptTimeout(e)
             \/ Exec!LogRow(e) \/ Exec!LogFails(e)
      PROVE  Goal
  BY <1>5, <1>6 DEF Exec!Connect, Exec!ConnectFails, Exec!ReadNonce, Exec!RpcFails,
                    Exec!Receipt, Exec!ReceiptTimeout, Exec!LogRow, Exec!LogFails,
                    Exec!taskVars, Exec!chainVars, Exec!logVars
<1>7. ASSUME NEW x, Exec!CheckUpkeep(e, x) \/ Exec!Simulate(e, x) PROVE Goal
  BY <1>5, <1>7 DEF Exec!CheckUpkeep, Exec!Simulate, Exec!taskVars, Exec!chainVars,
                    Exec!logVars
<1>8. ASSUME Exec!Send(e) \/ Exec!SendAnswerLost(e) PROVE Goal
  <2>1. /\ pc[e] = "send" /\ UNCHANGED phase /\ unanswered \subseteq unanswered'
        /\ tx' = [tx EXCEPT ![<<cur[e], try[cur[e]]>>] =
                                 [status |-> "pending", nonce |-> nonce[e]]]
    BY <1>8 DEF Exec!Send, Exec!SendAnswerLost, Exec!Broadcast, Exec!Attempt,
                Exec!taskVars, Exec!logVars
  <2>2. PICK b \in Trials : b = <<cur[e], try[cur[e]]>>
    BY <1>4, <2>1
  <2>3. TxMoves(b)
    <3>1. tx'[b].status = "pending" /\ tx[b].status = "none"
      BY <1>2, <1>4, <2>1, <2>2
    <3>2. b[1] = cur[e] /\ phase[cur[e]] = "running"
      BY <1>4, <2>1, <2>2
    <3> QED
      BY <2>1, <3>1, <3>2 DEF TxMoves, Live
  <2>4. \A a \in Trials \ {b} : TxMoves(a)
    BY <1>2, <2>1, <2>2 DEF TxMoves
  <2> QED
    BY <2>1, <2>3, <2>4 DEF TasksKeep, Live
<1>9. ASSUME Exec!Retry(e) PROVE Goal
  <2>1. /\ pc[e] # "idle" /\ phase' = [phase EXCEPT ![cur[e]] = "waiting"]
        /\ UNCHANGED <<tx, unanswered>>
    BY <1>9 DEF Exec!Retry, Exec!chainVars, Exec!logVars
  <2> QED
    BY <1>2, <1>4, <2>1 DEF TasksKeep, TxMoves, Live
<1>10. ASSUME Exec!End(e) \/ Exec!Crash(e) PROVE Goal
  <2>1. /\ pc[e] # "idle" /\ phase' = [phase EXCEPT ![cur[e]] = "ended"]
        /\ UNCHANGED <<tx, unanswered>>
    BY <1>10 DEF Exec!End, Exec!Crash, Exec!chainVars, Exec!logVars
  <2> QED
    BY <1>2, <1>4, <2>1 DEF TasksKeep, TxMoves, Live
<1> QED
  BY <1>3, <1>6, <1>7, <1>8, <1>9, <1>10 DEF Exec!AttemptStep, Exec!AttemptFault

LEMMA ExecuteMoves ==
    ASSUME ExecP!LedgerInv, Execute
    PROVE  /\ TasksKeep
           /\ \A a \in Trials : TxMoves(a)
           /\ unanswered \subseteq unanswered'
<1>1. ASSUME NEW t \in Tasks, Exec!CountdownOver(t)
      PROVE  UNCHANGED <<phase, tx, unanswered>>
  BY <1>1 DEF Exec!CountdownOver, Exec!chainVars, Exec!logVars
<1>2. ASSUME NEW a \in Trials, Exec!Mine(a, "reverted") \/ Exec!Evict(a)
      PROVE  /\ UNCHANGED <<phase, unanswered>>
             /\ \A b \in Trials : TxMoves(b)
  <2>1. tx \in [Trials -> [status : {"none", "pending", "ok", "reverted", "dropped"},
                           nonce : 0..MaxNonce]]
    BY DEF ExecP!LedgerInv, ExecP!TaskInv, ExecP!TypeOK, ExecP!Attempts, ExecP!Tries,
           Trials
  <2> QED
    BY <1>2, <2>1 DEF Exec!Mine, Exec!Evict, Exec!Pending, Exec!Attempts, Exec!Tries,
                      Trials, TxMoves, Exec!taskVars, Exec!logVars
<1> QED
  BY <1>1, <1>2, AttemptMoves
     DEF Execute, Exec!Attempts, Exec!Tries, Trials, TasksKeep, TxMoves, Live

(* A swap is that of one task, and other transactions only drop out.       *)
LEMMA SwapMoves ==
    ASSUME ExecP!TypeOK, NEW a \in Trials, Swap(a)
    PROVE  /\ UNCHANGED <<phase, unanswered>>
           /\ tx[a].status = "pending" /\ tx'[a].status = "ok"
           /\ \A b \in Trials \ {a} : TxMoves(b)
<1>1. tx \in [Trials -> [status : {"none", "pending", "ok", "reverted", "dropped"},
                         nonce : 0..MaxNonce]]
  BY DEF ExecP!TypeOK, ExecP!Attempts, ExecP!Tries, Trials
<1> QED
  BY <1>1 DEF Swap, Exec!Mine, Exec!Pending, Exec!Attempts, Exec!Tries, Trials, TxMoves,
              Exec!taskVars, Exec!logVars

(***************************************************************************)
(* A step of the pipeline is a step of the ticks: a task that ends settles *)
(* a job, a swap is a trade of the vault it was enqueued for.              *)
(***************************************************************************)

(* Tasks have keys once they are enqueued, transactions come later.        *)
KeyInv ==
    /\ key \in [Tasks -> ActionKeys \cup {<<>>}]
    /\ \A t \in Tasks : phase[t] # "new" => key[t] \in ActionKeys
    /\ \A a \in Trials : tx[a].status # "none" => phase[a[1]] # "new"
    /\ swapAge \in [ActionKeys -> 0..Cooldown]

LEMMA KeyInit == Init => KeyInv
BY TickAssumption
   DEF Init, Exec!Init, KeyInv, ActionKeys, Trials, Exec!Attempts, Exec!Tries, Exec!NoTx

LEMMA KeyNext ==
    ASSUME ExecP!LedgerInv, TickP!TypeOK, KeyInv, [Next]_vars
    PROVE  KeyInv'
<1>1. ExecP!TypeOK
  BY DEF ExecP!LedgerInv, ExecP!TaskInv
<1>2. ASSUME UNCHANGED <<key, phase, tx, swapAge>> PROVE KeyInv'
  BY <1>2 DEF KeyInv
<1>3. CASE Scan \/ UNCHANGED vars
  BY <1>2, <1>3 DEF Scan, vars, jobVars
<1>4. ASSUME NEW p \in Workers, NEW t \in Tasks, Enqueue(p, t) PROVE KeyInv'
  <2>1. pick[p] \in ActionKeys
    BY <1>4 DEF Enqueue, TickP!TypeOK, TickP!Key, TickP!Actions, ActionKeys
  <2>2. /\ phase' = [phase EXCEPT ![t] = "waiting"]
        /\ key' = [key EXCEPT ![t] = pick[p]]
        /\ UNCHANGED <<tx, swapAge>>
    BY <1>4 DEF Enqueue, Exec!Submit, Exec!chainVars
  <2>3. phase \in [Tasks -> {"new", "waiting", "running", "ended"}]
    BY <1>1 DEF ExecP!TypeOK
  <2> QED
    BY <2>1, <2>2, <2>3 DEF KeyInv, Trials
<1>5. ASSUME Execute PROVE KeyInv'
  <2>1. TasksKeep /\ (\A a \in Trials : TxMoves(a)) /\ UNCHANGED <<key, swapAge>>
    BY <1>5, ExecuteMoves DEF Execute
  <2> QED
    BY <2>1 DEF KeyInv, TasksKeep, TxMoves, Live, Trials
<1>6. ASSUME NEW a \in Trials, Swap(a) PROVE KeyInv'
  <2>1. /\ UNCHANGED <<phase, key>> /\ tx[a].status = "pending"
        /\ \A b \in Trials \ {a} : TxMoves(b)
    BY <1>1, <1>6, SwapMoves DEF Swap
  <2>2. \A b \in Trials : tx'[b].status # "none" => phase[b[1]] # "new"
    BY <2>1 DEF KeyInv, TxMoves, Live
  <2>3. swapAge' = [swapAge EXCEPT ![key[a[1]]] = 0] /\ 0 \in 0..Cooldown
    BY <1>6, TickAssumption DEF Swap
  <2>4. swapAge' \in [ActionKeys -> 0..Cooldown]
    BY <2>3 DEF KeyInv
  <2> QED
    BY <2>1, <2>2, <2>4 DEF KeyInv
<1>7. CASE Clock
  <2>1. swapAge' \in [ActionKeys -> 0..Cooldown]
    BY <1>7, TickAssumption DEF Clock, Tick!CountUp, KeyInv
  <2> QED
    BY <1>7, <2>1 DEF Clock, jobVars, KeyInv
<1> QED
  BY <1>3, <1>4, <1>5, <1>6, <1>7 DEF Next, Exec!Attempts, Exec!Tries, Trials

LEMMA StepOfTick ==
    ASSUME ExecP!LedgerInv, KeyInv, [Next]_vars
    PROVE  [TickP!Next]_(TickP!vars)
<1>1. ASSUME Scan PROVE Tick!Next
  BY <1>1 DEF Scan, Tick!Next, Tick!TickStep, Tick!Environment
<1>2. ASSUME NEW p \in Workers, NEW t \in Tasks, Enqueue(p, t) PROVE Tick!Next
  BY <1>2 DEF Enqueue, Tick!Next, Tick!TickStep
<1>3. ASSUME Clock PROVE Tick!Next
  BY <1>3 DEF Clock, Tick!Next
<1>4. ASSUME UNCHANGED tickVars, \A k \in ActionKeys : LiveJobs(k)' = LiveJobs(k)
      PROVE  UNCHANGED TickP!vars
  BY <1>4 DEF tickVars, TickP!vars, TickP!workerVars, TickP!chainVars, LiveJobs, ActionKeys
<1>5. CASE UNCHANGED vars
  BY <1>4, <1>5 DEF vars, jobVars, LiveJobs, TasksOf, Live
<1>6. ASSUME NEW a \in Trials, Swap(a) PROVE Tick!Next
  <2>1. tx[a].status = "pending" /\ UNCHANGED <<phase, key>>
    BY <1>6, SwapMoves DEF Swap, ExecP!LedgerInv, ExecP!TaskInv
  <2>2. key[a[1]][1] \in Vaults
    BY <2>1 DEF KeyInv, ActionKeys, Trials
  <2>3. Tick!Trade(key[a[1]][1])
    BY <1>6, <2>1 DEF Swap, Tick!Trade, Tick!workerVars, TasksOf, Live
  <2> QED
    BY <2>2, <2>3 DEF Tick!Next, Tick!Environment
<1>7. ASSUME Execute PROVE Tick!Next \/ UNCHANGED TickP!vars
  <2>1. TasksKeep /\ UNCHANGED <<tickVars, key>>
    BY <1>7, ExecuteMoves DEF Execute
  <2>2. CASE \A t \in Tasks : Live(t)' <=> Live(t)
    BY <1>4, <2>1, <2>2 DEF TasksKeep, LiveJobs, TasksOf
  <2>3. ASSUME NEW t \in Tasks, Live(t), phase' = [phase EXCEPT ![t] = "ended"]
        PROVE  Tick!Next
    <3>1. PICK k \in ActionKeys : k = key[t]
      BY <2>3 DEF KeyInv, Live
    <3>2. phase \in [Tasks -> {"new", "waiting", "running", "ended"}]
      BY DEF ExecP!LedgerInv, ExecP!TaskInv, ExecP!TypeOK
    <3>3. /\ LiveJobs(k)' = LiveJobs(k) \ {t} /\ t \in LiveJobs(k)
          /\ \A l \in ActionKeys \ {k} : LiveJobs(l)' = LiveJobs(l)
      BY <2>1, <2>3, <3>1, <3>2 DEF LiveJobs, TasksOf, Live
    <3>4. IsFiniteSet(LiveJobs(k))
      BY TaskAssumption, FS_Subset DEF LiveJobs, TasksOf
    <3>5. /\ Cardinality(LiveJobs(k)) \in Nat
          /\ Cardinality(LiveJobs(k)') = Cardinality(LiveJobs(k)) - 1
          /\ Cardinality(LiveJobs(k)') \in Nat
      BY <3>3, <3>4, FS_RemoveElement, FS_CardinalityType, FS_Subset
    <3> DEFINE J == [l \in ActionKeys |-> Cardinality(LiveJobs(l))]
    <3>6. J[k] > 0 /\ J' = [J EXCEPT ![k] = @ - 1]
      <4>1. \A l \in ActionKeys :
              Cardinality(LiveJobs(l)') = IF l = k THEN J[k] - 1 ELSE J[l]
        BY <3>3, <3>5
      <4>2. J[k] > 0
        BY <3>5
      <4>3. J' = [l \in ActionKeys |-> IF l = k THEN J[k] - 1 ELSE J[l]]
        BY <4>1
      <4> QED
        BY <4>2, <4>3
    <3>7. Tick!Settle(k)
      BY <2>1, <3>6
         DEF Tick!Settle, tickVars, Tick!workerVars, Tick!chainVars, LiveJobs, ActionKeys
    <3> QED
      BY <3>7 DEF Tick!Next, Tick!Environment, Tick!Key, Tick!Actions, ActionKeys
  <2> QED
    BY <2>1, <2>2, <2>3 DEF TasksKeep
<1> QED
  BY <1>1, <1>2, <1>3, <1>5, <1>6, <1>7, SameTickNext
     DEF Next, Exec!Attempts, Exec!Tries, Trials

LEMMA TickAssumptions ==
    /\ RuleSet \subseteq TickP!Rule(Feeds) /\ RoundSet \subseteq TickP!Round
    /\ LockTTL \in Nat \ {0} /\ Cooldown \in Nat /\ LockTTL < Cooldown
    /\ Cardinality(Tasks) \in Nat /\ MaxFaults \in Nat
BY TickAssumption, TaskAssumption, FS_CardinalityType
   DEF Tick!Rule, TickP!Rule, Tick!Round, TickP!Round

PartsInv == ExecP!LedgerInv /\ TickP!LockInv /\ KeyInv

LEMMA PartsNext == PartsInv /\ [Next]_vars => PartsInv'
<1> SUFFICES ASSUME PartsInv, [Next]_vars PROVE PartsInv'
  OBVIOUS
<1>1. ExecP!LedgerInv /\ TickP!LockInv /\ KeyInv /\ TickP!TypeOK
  BY DEF PartsInv, TickP!LockInv
<1>2. ExecP!LedgerInv'
  BY <1>1, ExecutorAssumption, StepOfExecutor, ExecP!AuditNext
<1>3. KeyInv'
  BY <1>1, KeyNext
<1>4. TickP!LockInv'
  BY <1>1, TickAssumptions, StepOfTick, TickP!LockNext
<1> QED
  BY <1>2, <1>3, <1>4 DEF PartsInv

LEMMA PartsInit == Init => PartsInv
<1> SUFFICES ASSUME Init PROVE PartsInv
  OBVIOUS
<1>1. ExecP!LedgerInv
  BY ExecutorAssumption, SameExecutorInit, ExecP!TaskInit, ExecP!AuditInit
     DEF Init, ExecP!LedgerInv
<1>2. TickP!LockInv
  BY TickAssumptions, SameTickInit, TickP!LockInit DEF Init
<1> QED
  BY <1>1, <1>2, KeyInit DEF PartsInv

(***************************************************************************)
(* One job at a time, a cooldown apart.                                    *)
(*                                                                         *)
(* A key is claimed when it has expired, and while jobs are settled in     *)
(* time an expired key has nothing unsettled.  What a tick knows of the    *)
(* vault's age is as old as its reading: a swap since then was of a job    *)
(* whose key outlives the tick's lease, so that the tick cannot claim it.  *)
(***************************************************************************)

Sends(p, k) == tickPc[p] = "send" /\ pick[p] = k
Swapped(t) == \E i \in 0..MaxRetries : tx[<<t, i>>].status = "ok"

(* A key outlives what it was claimed for by a lock period.                *)
Covered == ~late => \A k \in ActionKeys : Unsettled(k) => idem[k] >= LockTTL

(* A job is alone of its key, and the claim of another is not on its way.  *)
Alone ==
    Timely => \A k \in ActionKeys : \A t \in JobsOf(k) :
                 /\ \A u \in JobsOf(k) : u = t
                 /\ \A p \in Workers : ~Sends(p, k)

(* What a tick has read is true, or it will find the key taken.            *)
Seen ==
    /\ \A p \in Workers : tickPc[p] = "idle" => DOMAIN active[p] = {}
    /\ \A k \in ActionKeys : sinceExec[k[1]] <= swapAge[k]
    /\ Timely =>
          \A p \in Workers : \A v \in DOMAIN active[p] : \A a \in {"buy", "sell"} :
             swapAge[<<v, a>>] >= active[p][v].age \/ idem[<<v, a>>] >= lease[p]

(* A key that has been claimed was last swapped for a cooldown ago, until  *)
(* the job of this claim swaps.                                            *)
Rested ==
    Timely =>
       /\ \A p \in Workers, k \in ActionKeys : Sends(p, k) => swapAge[k] = Cooldown
       /\ unanswered = {} =>
             \A k \in ActionKeys : \A t \in JobsOf(k) : Swapped(t) \/ swapAge[k] = Cooldown

SpacingInv == PartsInv /\ Covered /\ Alone /\ Seen /\ Rested

LEMMA SpacingInit == Init => SpacingInv
<1> SUFFICES ASSUME Init PROVE SpacingInv
  OBVIOUS
<1>1. PartsInv
  BY PartsInit
<1>2. /\ \A t \in Tasks : phase[t] = "new"
      /\ \A p \in Workers : tickPc[p] = "idle" /\ DOMAIN active[p] = {}
      /\ \A k \in ActionKeys : sinceExec[k[1]] = Cooldown /\ swapAge[k] = Cooldown
  BY DEF Init, Exec!Init, Tick!Init, Tick!NoEntries, ActionKeys
<1>3. \A k \in ActionKeys : ~Unsettled(k) /\ JobsOf(k) = {}
  BY <1>2 DEF Unsettled, JobsOf, TasksOf
<1>4. Covered /\ Alone /\ Rested
  BY <1>2, <1>3 DEF Covered, Alone, Rested, Sends
<1>5. Seen
  BY <1>2, TickAssumption DEF Seen
<1> QED
  BY <1>1, <1>4, <1>5 DEF SpacingInv

(* A step that enqueues nothing adds no job that may swap.                 *)
LEMMA JobsShrink ==
    ASSUME ExecP!TypeOK, TasksKeep, UNCHANGED key,
           \A a \in Trials : TxMoves(a) \/ tx[a].status = "pending",
           NEW k \in ActionKeys
    PROVE  JobsOf(k)' \subseteq JobsOf(k)
<1> SUFFICES ASSUME NEW t \in JobsOf(k)' PROVE t \in JobsOf(k)
  OBVIOUS
<1>1. phase \in [Tasks -> {"new", "waiting", "running", "ended"}]
  BY DEF ExecP!TypeOK
<1>2. t \in Tasks /\ phase[t] # "new" /\ key[t] = k
  BY DEF JobsOf, TasksOf, TasksKeep
<1>3. Live(t)' => Live(t)
  BY <1>1, <1>2 DEF TasksKeep, Live
<1>4. ASSUME NEW i \in 0..MaxRetries, tx'[<<t, i>>].status = "pending"
      PROVE  Live(t) \/ tx[<<t, i>>].status = "pending"
  <2>1. PICK a \in Trials : a = <<t, i>>
    BY <1>2 DEF Trials
  <2> QED
    BY <1>4, <2>1 DEF TxMoves
<1>5. Live(t)' \/ \E i \in 0..MaxRetries : tx'[<<t, i>>].status = "pending"
  BY DEF JobsOf
<1> QED
  BY <1>2, <1>3, <1>4, <1>5 DEF JobsOf, TasksOf

(* The task enqueued is the job its key gains.                             *)
LEMMA EnqueueMoves ==
    ASSUME PartsInv, NEW p \in Workers, NEW t \in Tasks, Enqueue(p, t),
           NEW k, k = pick[p]
    PROVE  /\ k \in ActionKeys /\ Sends(p, k)
           /\ tickPc'[p] = "scan"
           /\ \A q \in Workers \ {p} : tickPc'[q] = tickPc[q] /\ pick'[q] = pick[q]
           /\ JobsOf(k)' = JobsOf(k) \cup {t}
           /\ \A l \in ActionKeys \ {k} : JobsOf(l)' = JobsOf(l)
           /\ UNCHANGED <<idem, active, lease, sinceExec, swapAge, tx, late, overran,
                          unanswered>>
<1>1. /\ phase \in [Tasks -> {"new", "waiting", "running", "ended"}]
      /\ key \in [Tasks -> ActionKeys \cup {<<>>}]
  BY DEF PartsInv, ExecP!LedgerInv, ExecP!TaskInv, ExecP!TypeOK, KeyInv
<1>2. TickP!TypeOK
  BY DEF PartsInv, TickP!LockInv
<1>3. /\ tickPc[p] = "send" /\ k \in ActionKeys
      /\ tickPc' = [tickPc EXCEPT ![p] = "scan"]
      /\ pick' = [pick EXCEPT ![p] = Tick!NoPick]
      /\ UNCHANGED <<idem, active, lease, sinceExec, overran>>
  BY <1>2 DEF Enqueue, Tick!Enqueue, TickP!TypeOK, TickP!Key, TickP!Actions, ActionKeys,
              Tick!chainVars
<1>4. /\ phase[t] = "new" /\ phase' = [phase EXCEPT ![t] = "waiting"]
      /\ key' = [key EXCEPT ![t] = k]
      /\ UNCHANGED <<tx, swapAge, late, unanswered>>
  BY DEF Enqueue, Exec!Submit, Exec!chainVars, Exec!logVars
<1>5. /\ \A u \in Tasks \ {t} : phase'[u] = phase[u] /\ key'[u] = key[u]
      /\ phase'[t] = "waiting" /\ key'[t] = k
  BY <1>1, <1>4
<1>6. /\ JobsOf(k)' = JobsOf(k) \cup {t}
      /\ \A l \in ActionKeys \ {k} : JobsOf(l)' = JobsOf(l)
  <2>1. \A l \in ActionKeys, u \in Tasks \ {t} : u \in JobsOf(l)' <=> u \in JobsOf(l)
    BY <1>4, <1>5 DEF JobsOf, TasksOf, Live
  <2>2. \A l \in ActionKeys : (t \in JobsOf(l)' <=> l = k) /\ t \notin JobsOf(l)
    BY <1>4, <1>5 DEF JobsOf, TasksOf, Live
  <2>3. \A l \in ActionKeys : JobsOf(l) \subseteq Tasks /\ JobsOf(l)' \subseteq Tasks
    BY DEF JobsOf, TasksOf
  <2>4. JobsOf(k)' = JobsOf(k) \cup {t}
    BY <1>3, <2>1, <2>2, <2>3
  <2>5. ASSUME NEW l \in ActionKeys, l # k PROVE JobsOf(l)' = JobsOf(l)
    <3>1. t \notin JobsOf(l)' /\ t \notin JobsOf(l)
      BY <2>2, <2>5
    <3>2. \A u \in Tasks : u \in JobsOf(l)' <=> u \in JobsOf(l)
      BY <2>1, <3>1
    <3> QED
      BY <2>3, <3>2
  <2> QED
    BY <2>4, <2>5
<1>7. /\ tickPc'[p] = "scan"
      /\ \A q \in Workers \ {p} : tickPc'[q] = tickPc[q] /\ pick'[q] = pick[q]
  BY <1>2, <1>3 DEF TickP!TypeOK
<1> QED
  BY <1>3, <1>4, <1>6, <1>7 DEF Sends

(* Worker p claims the key of v and an action, from what it has read.      *)
ClaimedBy(p, v, a) ==
    /\ v \in DOMAIN active[p] /\ a \in {"buy", "sell"}
    /\ active[p][v].age >= Cooldown
    /\ idem[<<v, a>>] = 0 /\ idem' = [idem EXCEPT ![<<v, a>>] = Cooldown]
    /\ tickPc[p] = "scan" /\ tickPc'[p] = "send" /\ pick'[p] = <<v, a>>
    /\ \A q \in Workers \ {p} : tickPc'[q] = tickPc[q] /\ pick'[q] = pick[q]

NoneClaimed ==
    /\ UNCHANGED idem
    /\ \A p \in Workers : tickPc'[p] = "send" => tickPc[p] = "send" /\ pick'[p] = pick[p]

(* What a worker has read it keeps, with its lease, or has read just now.  *)
SnapshotsKept ==
    \A p \in Workers :
       /\ tickPc'[p] = "idle" => DOMAIN active'[p] = {}
       /\ \A v \in DOMAIN active'[p] :
             \/ active'[p][v].age = sinceExec[v]
             \/ /\ v \in DOMAIN active[p] /\ active'[p][v] = active[p][v]
                /\ lease'[p] = lease[p]

LEMMA ScanMoves ==
    ASSUME TickP!TypeOK, Seen, Scan
    PROVE  /\ UNCHANGED <<jobVars, key, swapAge, late, overran, sinceExec>>
           /\ SnapshotsKept
           /\ \/ NoneClaimed
              \/ \E p \in Workers, v \in Vaults, a \in {"buy", "sell"} : ClaimedBy(p, v, a)
<1> DEFINE Goal == /\ UNCHANGED <<overran, sinceExec>>
                   /\ SnapshotsKept
                   /\ \/ NoneClaimed
                      \/ \E p \in Workers, v \in Vaults, a \in {"buy", "sell"} :
                            ClaimedBy(p, v, a)
<1>1. /\ DOMAIN active = Workers /\ DOMAIN pick = Workers
      /\ tickPc \in [Workers -> {"idle", "scan", "send"}]
      /\ lease \in [Workers -> 0..LockTTL]
  BY DEF TickP!TypeOK
<1>2. \A p \in Workers : tickPc[p] = "idle" => DOMAIN active[p] = {}
  BY DEF Seen
<1>3. ASSUME NEW p \in Workers, Tick!StartTick(p) PROVE Goal
  BY <1>1, <1>2, <1>3 DEF Tick!StartTick, Tick!chainVars, SnapshotsKept, NoneClaimed
<1>4. ASSUME NEW p \in Workers, Tick!EndTick(p) \/ Tick!AbortTick(p) \/ Tick!Crash(p)
      PROVE  Goal
  <2>1. Tick!Forget(p) /\ UNCHANGED <<idem, overran, sinceExec>>
    BY <1>4 DEF Tick!EndTick, Tick!AbortTick, Tick!Crash, Tick!chainVars
  <2>2. DOMAIN Tick!NoEntries = {}
    BY DEF Tick!NoEntries
  <2> QED
    BY <1>1, <1>2, <2>1, <2>2 DEF Tick!Forget, SnapshotsKept, NoneClaimed
<1>5. ASSUME NEW p \in Workers, NEW v \in Vaults, Tick!ReadRule(p, v) PROVE Goal
  <2>1. /\ tickPc[p] = "scan"
        /\ UNCHANGED <<idem, tickPc, pick, lease, overran, sinceExec>>
    BY <1>5 DEF Tick!ReadRule, Tick!chainVars
  <2> DEFINE s == [rule |-> rules[v], age |-> sinceExec[v]]
  <2>2. \/ active' = active
        \/ active' = [active EXCEPT ![p] = Tick!Put(active[p], v, s)]
    BY <1>5 DEF Tick!ReadRule
  <2>3. SnapshotsKept
    BY <1>1, <1>2, <2>1, <2>2 DEF Tick!Put, SnapshotsKept
  <2> QED
    BY <2>1, <2>3 DEF NoneClaimed
<1>6. ASSUME NEW p \in Workers, NEW v \in Vaults, Tick!SkipVault(p, v) PROVE Goal
  <2>1. /\ tickPc[p] = "scan" /\ active' = [active EXCEPT ![p] = Tick!Drop(active[p], v)]
        /\ UNCHANGED <<idem, tickPc, pick, lease, overran, sinceExec>>
    BY <1>6 DEF Tick!SkipVault, Tick!Priced, Tick!chainVars
  <2>2. SnapshotsKept
    BY <1>1, <1>2, <2>1 DEF Tick!Drop, Tick!Restrict, SnapshotsKept
  <2> QED
    BY <2>1, <2>2 DEF NoneClaimed
<1>7. ASSUME NEW p \in Workers, NEW v \in Vaults, Tick!Claim(p, v) PROVE Goal
  <2>1. PICK a \in {"buy", "sell"} : a = Tick!Decision(p, v)
    BY <1>7 DEF Tick!Claim, Tick!Decision, Tick!EvaluateRule, Tick!Signal
  <2>2. active[p][v].age >= Cooldown
    BY <1>7 DEF Tick!Claim, Tick!Decision, Tick!EvaluateRule
  <2>3. /\ tickPc[p] = "scan" /\ v \in DOMAIN active[p]
        /\ active' = [active EXCEPT ![p] = Tick!Drop(active[p], v)]
        /\ tickPc' = [tickPc EXCEPT ![p] = "send"]
        /\ pick' = [pick EXCEPT ![p] = <<v, a>>]
        /\ idem[<<v, a>>] = 0 /\ idem' = [idem EXCEPT ![<<v, a>>] = Cooldown]
        /\ UNCHANGED <<lease, overran, sinceExec>>
    BY <1>7, <2>1 DEF Tick!Claim, Tick!SetKey, Tick!Priced, Tick!chainVars
  <2>4. SnapshotsKept
    BY <1>1, <1>2, <2>3 DEF Tick!Drop, Tick!Restrict, SnapshotsKept
  <2>5. ClaimedBy(p, v, a)
    BY <1>1, <2>2, <2>3 DEF ClaimedBy
  <2> QED
    BY <2>3, <2>4, <2>5
<1>8. ASSUME UNCHANGED <<idem, tickPc, pick, active, lease, overran, sinceExec>> PROVE Goal
  BY <1>2, <1>8 DEF SnapshotsKept, NoneClaimed
<1>9. ASSUME NEW p \in Workers, NEW x,
             Tick!RuleReadFails(p, x) \/ Tick!ReadPrice(p, x) \/ Tick!PriceReadFails(p, x)
      PROVE  Goal
  BY <1>8, <1>9 DEF Tick!RuleReadFails, Tick!ReadPrice, Tick!PriceReadFails, Tick!chainVars
<1>10. ASSUME NEW x, NEW r, Tick!SetRule(x, r) \/ Tick!NewRound(x, r) PROVE Goal
  BY <1>8, <1>10 DEF Tick!SetRule, Tick!NewRound, Tick!workerVars
<1>11. Goal
  BY <1>3, <1>4, <1>5, <1>6, <1>7, <1>9, <1>10 DEF Scan, Tick!TickFault
<1> QED
  BY <1>11 DEF Scan

(* The executor and the chain add no job and leave keys and ticks alone.   *)
LEMMA QuietMoves ==
    ASSUME PartsInv, Execute \/ (\E a \in Trials : Swap(a)) \/ UNCHANGED vars
    PROVE  /\ \A k \in ActionKeys : JobsOf(k)' \subseteq JobsOf(k)
           /\ UNCHANGED <<idem, tickPc, pick, active, lease, late, overran>>
<1>1. ExecP!LedgerInv /\ ExecP!TypeOK
  BY DEF PartsInv, ExecP!LedgerInv, ExecP!TaskInv
<1>2. UNCHANGED <<idem, tickPc, pick, active, lease, late, overran, key>>
  BY DEF Execute, Swap, vars, tickVars
<1>3. CASE Execute
  BY <1>1, <1>2, <1>3, ExecuteMoves, JobsShrink
<1>4. ASSUME NEW a \in Trials, Swap(a)
      PROVE  \A k \in ActionKeys : JobsOf(k)' \subseteq JobsOf(k)
  <2>1. TasksKeep
    BY <1>1, <1>4, SwapMoves DEF TasksKeep, Live
  <2>2. \A b \in Trials : TxMoves(b) \/ tx[b].status = "pending"
    BY <1>1, <1>4, SwapMoves
  <2> QED
    BY <1>1, <1>2, <2>1, <2>2, JobsShrink
<1>5. ASSUME UNCHANGED vars PROVE \A k \in ActionKeys : JobsOf(k)' = JobsOf(k)
  BY <1>5 DEF vars, jobVars, JobsOf, TasksOf, Live
<1> QED
  BY <1>2, <1>3, <1>4, <1>5

(* Time moves nobody's work.                                               *)
LEMMA ClockMoves ==
    ASSUME Clock
    PROVE  /\ UNCHANGED <<tickPc, pick, unanswered>>
           /\ \A k \in ActionKeys : /\ JobsOf(k)' = JobsOf(k)
                                    /\ Unsettled(k)' <=> Unsettled(k)
           /\ \A t \in Tasks : Swapped(t)' <=> Swapped(t)
           /\ (overran => overran') /\ (late => late')
<1>1. UNCHANGED <<tickPc, pick, unanswered, phase, key, tx>>
  BY DEF Clock, jobVars, Tick!Clock
<1>2. (overran => overran') /\ (late => late')
  BY DEF Clock, Tick!Clock
<1>3. \A k \in ActionKeys : JobsOf(k)' = JobsOf(k)
  BY <1>1 DEF JobsOf, TasksOf, Live
<1> QED
  BY <1>1, <1>2, <1>3 DEF Unsettled, Swapped

LEMMA JobsUnchanged ==
    ASSUME UNCHANGED <<jobVars, key>>
    PROVE  /\ \A k \in ActionKeys : JobsOf(k)' = JobsOf(k)
           /\ \A t \in Tasks : Swapped(t)' <=> Swapped(t)
           /\ UNCHANGED unanswered
BY DEF jobVars, JobsOf, TasksOf, Live, Swapped

LEMMA CoveredNext == ASSUME SpacingInv, [Next]_vars PROVE Covered'
<1>1. PartsInv /\ TickP!TypeOK /\ Seen /\ Covered
  BY DEF SpacingInv, PartsInv, TickP!LockInv
<1>2. idem \in [ActionKeys -> 0..Cooldown]
  BY <1>1 DEF TickP!TypeOK, TickP!Key, TickP!Actions, ActionKeys
<1>3. ASSUME UNCHANGED <<idem, late>>, \A k \in ActionKeys : Unsettled(k)' => Unsettled(k)
      PROVE  Covered'
  BY <1>1, <1>3 DEF Covered
<1>4. ASSUME Scan PROVE Covered'
  <2>1. UNCHANGED late /\ \A k \in ActionKeys : JobsOf(k)' = JobsOf(k)
    BY <1>1, <1>4, ScanMoves, JobsUnchanged
  <2>2. CASE NoneClaimed
    BY <1>3, <2>1, <2>2 DEF NoneClaimed, Unsettled
  <2>3. ASSUME NEW p \in Workers, NEW v \in Vaults, NEW a \in {"buy", "sell"},
               ClaimedBy(p, v, a)
        PROVE  Covered'
    <3>1. PICK c \in ActionKeys : c = <<v, a>>
      BY DEF ActionKeys
    <3>2. \A k \in ActionKeys : idem'[k] = IF k = c THEN Cooldown ELSE idem[k]
      BY <1>2, <2>3, <3>1 DEF ClaimedBy
    <3>3. ASSUME NEW k \in ActionKeys, k # c, Unsettled(k)' PROVE Unsettled(k)
      BY <2>1, <2>3, <3>1, <3>3 DEF Unsettled, ClaimedBy
    <3> QED
      BY <1>1, <2>1, <3>2, <3>3, TickAssumption DEF Covered
  <2> QED
    BY <1>1, <1>4, <2>2, <2>3, ScanMoves
<1>5. ASSUME NEW p \in Workers, NEW t \in Tasks, Enqueue(p, t) PROVE Covered'
  <2>1. PICK k : k = pick[p]
    OBVIOUS
  <2>2. \A l \in ActionKeys : Unsettled(l)' => Unsettled(l)
    BY <1>1, <1>5, <2>1, EnqueueMoves DEF Unsettled, Sends
  <2> QED
    BY <1>1, <1>3, <1>5, <2>1, <2>2, EnqueueMoves
<1>6. ASSUME Execute \/ (\E a \in Trials : Swap(a)) \/ UNCHANGED vars PROVE Covered'
  <2>1. \A k \in ActionKeys : Unsettled(k)' => Unsettled(k)
    BY <1>1, <1>6, QuietMoves DEF Unsettled
  <2> QED
    BY <1>1, <1>3, <1>6, <2>1, QuietMoves
<1>7. ASSUME Clock PROVE Covered'
  <2>1. idem' \in [ActionKeys -> 0..Cooldown]
    BY <1>2, <1>7, TickAssumption
       DEF Clock, Tick!Clock, Tick!Expire, Tick!CountDown, Tick!Key, Tick!Actions, ActionKeys
  <2>2. ASSUME ~late', NEW k \in ActionKeys, Unsettled(k)' PROVE idem'[k] >= LockTTL
    <3>1. ~(late \/ \E l \in DOMAIN idem : idem'[l] < LockTTL /\ Unsettled(l))
      BY <1>7, <2>2, Zenon DEF Clock
    <3>2. DOMAIN idem = ActionKeys /\ Unsettled(k)
      BY <1>2, <1>7, <2>2, ClockMoves
    <3>3. ~(idem'[k] < LockTTL)
      BY <3>1, <3>2
    <3> QED
      BY <2>1, <3>3, TickAssumption
  <2> QED
    BY <2>2 DEF Covered
<1> QED
  BY <1>4, <1>5, <1>6, <1>7 DEF Next, Exec!Attempts, Exec!Tries, Trials

LEMMA AloneNext == ASSUME SpacingInv, [Next]_vars PROVE Alone'
<1>1. PartsInv /\ TickP!LockInv /\ TickP!TypeOK /\ Seen /\ Covered /\ Alone
  BY DEF SpacingInv, PartsInv, TickP!LockInv
<1>2. ASSUME Timely' => Timely, \A k \in ActionKeys : JobsOf(k)' \subseteq JobsOf(k),
             \A p \in Workers, k \in ActionKeys : Sends(p, k)' => Sends(p, k)
      PROVE  Alone'
  BY <1>1, <1>2 DEF Alone
<1>4. ASSUME Scan PROVE Alone'
  <2>1. (Timely' => Timely) /\ \A k \in ActionKeys : JobsOf(k)' = JobsOf(k)
    BY <1>1, <1>4, ScanMoves, JobsUnchanged DEF Timely
  <2>2. CASE NoneClaimed
    BY <1>2, <2>1, <2>2 DEF NoneClaimed, Sends
  <2>3. ASSUME NEW p \in Workers, NEW v \in Vaults, NEW a \in {"buy", "sell"},
               ClaimedBy(p, v, a)
        PROVE  Alone'
    <3>1. PICK c \in ActionKeys : c = <<v, a>>
      BY DEF ActionKeys
    <3>2. Timely => JobsOf(c) = {}
      BY <1>1, <2>3, <3>1, TickAssumption DEF ClaimedBy, Timely, Covered, Unsettled
    <3>3. \A k \in ActionKeys, q \in Workers : k # c /\ Sends(q, k)' => Sends(q, k)
      BY <2>3, <3>1 DEF Sends, ClaimedBy
    <3> QED
      BY <1>1, <2>1, <3>2, <3>3 DEF Alone
  <2> QED
    BY <1>1, <1>4, <2>2, <2>3, ScanMoves
<1>5. ASSUME NEW p \in Workers, NEW t \in Tasks, Enqueue(p, t) PROVE Alone'
  <2>1. PICK k : k = pick[p]
    OBVIOUS
  <2>2. /\ k \in ActionKeys /\ Sends(p, k) /\ (Timely' => Timely)
        /\ JobsOf(k)' = JobsOf(k) \cup {t}
        /\ \A l \in ActionKeys \ {k} : JobsOf(l)' = JobsOf(l)
        /\ \A q \in Workers, l \in ActionKeys : Sends(q, l)' => Sends(q, l) /\ q # p
    BY <1>1, <1>5, <2>1, EnqueueMoves DEF Timely, Sends
  <2>3. Timely => JobsOf(k) = {}
    BY <1>1, <2>2 DEF Alone
  <2>4. Timely => \A q \in Workers, l \in ActionKeys : Sends(q, l) => q = p
    BY <1>1, <2>2
       DEF Timely, Sends, TickP!LockInv, TickP!OverlapNeedsOverrun, TickP!Running
  <2> QED
    BY <1>1, <2>2, <2>3, <2>4 DEF Alone
<1>6. ASSUME Execute \/ (\E a \in Trials : Swap(a)) \/ UNCHANGED vars PROVE Alone'
  BY <1>1, <1>2, <1>6, QuietMoves DEF Timely, Sends
<1>7. ASSUME Clock PROVE Alone'
  BY <1>2, <1>7, ClockMoves DEF Timely, Sends
<1> QED
  BY <1>4, <1>5, <1>6, <1>7 DEF Next, Exec!Attempts, Exec!Tries, Trials

LEMMA SeenNext == ASSUME SpacingInv, [Next]_vars, TickP!TypeOK' PROVE Seen'
<1>1. PartsInv /\ TickP!LockInv /\ TickP!TypeOK /\ KeyInv /\ Seen /\ Covered
  BY DEF SpacingInv, PartsInv, TickP!LockInv
<1>2. /\ idem \in [ActionKeys -> 0..Cooldown]
      /\ swapAge \in [ActionKeys -> 0..Cooldown]
      /\ sinceExec \in [Vaults -> 0..Cooldown]
      /\ lease \in [Workers -> 0..LockTTL]
      /\ \A p \in Workers : /\ DOMAIN active[p] \subseteq Vaults
                            /\ \A v \in DOMAIN active[p] : active[p][v].age \in 0..Cooldown
      /\ \A p \in Workers : DOMAIN active'[p] \subseteq Vaults
  BY <1>1 DEF TickP!TypeOK, TickP!Key, TickP!Actions, TickP!Snapshot, KeyInv, ActionKeys
<1>3. ASSUME UNCHANGED <<idem, tickPc, active, lease, sinceExec, swapAge, late, overran>>
      PROVE  Seen'
  BY <1>1, <1>3 DEF Seen, Timely
<1>4. ASSUME Scan PROVE Seen'
  <2>1. /\ UNCHANGED <<swapAge, late, overran, sinceExec>> /\ SnapshotsKept
        /\ \A k \in ActionKeys : idem'[k] >= idem[k]
    <3>1. CASE NoneClaimed
      BY <1>1, <1>2, <1>4, <3>1, ScanMoves, TickAssumption DEF NoneClaimed
    <3>2. ASSUME NEW p \in Workers, NEW v \in Vaults, NEW a \in {"buy", "sell"},
                 ClaimedBy(p, v, a)
          PROVE  \A k \in ActionKeys : idem'[k] >= idem[k]
      <4>1. PICK c \in ActionKeys : c = <<v, a>>
        BY DEF ActionKeys
      <4>2. \A k \in ActionKeys : idem'[k] = IF k = c THEN Cooldown ELSE idem[k]
        BY <1>2, <3>2, <4>1 DEF ClaimedBy
      <4> QED
        BY <1>2, <4>2, TickAssumption
    <3> QED
      BY <1>1, <1>4, <3>1, <3>2, ScanMoves
  <2>2. ASSUME Timely, NEW p \in Workers, NEW v \in DOMAIN active'[p],
               NEW a \in {"buy", "sell"}
        PROVE  \/ swapAge'[<<v, a>>] >= active'[p][v].age
               \/ idem'[<<v, a>>] >= lease'[p]
    <3> v \in Vaults
      BY <1>2
    <3>1. PICK c \in ActionKeys : c = <<v, a>>
      BY DEF ActionKeys
    <3>2. CASE active'[p][v].age = sinceExec[v]
      <4>1. c[1] = v /\ sinceExec[c[1]] <= swapAge[c]
        BY <1>1, <3>1 DEF Seen
      <4> QED
        BY <1>2, <2>1, <3>1, <3>2, <4>1
    <3>3. CASE /\ v \in DOMAIN active[p] /\ active'[p][v] = active[p][v]
               /\ lease'[p] = lease[p]
      <4>1. swapAge[c] >= active[p][v].age \/ idem[c] >= lease[p]
        BY <1>1, <2>2, <3>1, <3>3 DEF Seen
      <4>2. idem[c] \in Int /\ idem'[c] >= idem[c] /\ lease[p] \in Int
        BY <1>2, <2>1
      <4>3. idem'[c] \in Int
        BY <3>1 DEF TickP!TypeOK, TickP!Key, TickP!Actions, ActionKeys
      <4> QED
        BY <2>1, <3>1, <3>3, <4>1, <4>2, <4>3
    <3> QED
      BY <2>1, <3>2, <3>3 DEF SnapshotsKept
  <2> QED
    BY <1>1, <2>1, <2>2 DEF Seen, SnapshotsKept, Timely
<1>5. ASSUME NEW p \in Workers, NEW t \in Tasks, Enqueue(p, t) PROVE Seen'
  <2>1. PICK k : k = pick[p]
    OBVIOUS
  <2>2. /\ \A q \in Workers : tickPc'[q] = "idle" => tickPc[q] = "idle"
        /\ UNCHANGED <<idem, active, lease, sinceExec, swapAge, late, overran>>
    BY <1>1, <1>5, <2>1, EnqueueMoves
  <2> QED
    BY <1>1, <2>2 DEF Seen, Timely
<1>6. ASSUME Execute \/ UNCHANGED vars PROVE Seen'
  BY <1>3, <1>6 DEF Execute, vars, tickVars
<1>7. ASSUME NEW b \in Trials, Swap(b) PROVE Seen'
  <2>1. PICK t \in Tasks, i \in 0..MaxRetries : b = <<t, i>>
    BY DEF Trials
  <2>2. ExecP!TypeOK
    BY <1>1 DEF PartsInv, ExecP!LedgerInv, ExecP!TaskInv
  <2>3. tx[b].status = "pending" /\ phase[t] # "new"
    BY <1>1, <1>7, <2>1, <2>2, SwapMoves DEF KeyInv
  <2>4. PICK c \in ActionKeys : c = key[t] /\ c[1] \in Vaults
    BY <1>1, <2>3 DEF KeyInv, ActionKeys
  <2>5. t \in JobsOf(c)
    BY <2>1, <2>3, <2>4 DEF JobsOf, TasksOf
  <2>6. Timely => idem[c] >= LockTTL
    BY <1>1, <2>5 DEF Covered, Unsettled, Timely
  <2>7. /\ sinceExec' = [sinceExec EXCEPT ![c[1]] = 0]
        /\ swapAge' = [swapAge EXCEPT ![c] = 0]
        /\ UNCHANGED <<idem, tickPc, active, lease, late, overran>>
    BY <1>7, <2>1, <2>4 DEF Swap
  <2>8. \A k \in ActionKeys : sinceExec'[k[1]] <= swapAge'[k]
    <3> SUFFICES ASSUME NEW k \in ActionKeys PROVE sinceExec'[k[1]] <= swapAge'[k]
      OBVIOUS
    <3>1. k[1] \in Vaults /\ sinceExec[k[1]] <= swapAge[k]
      BY <1>1 DEF ActionKeys, Seen
    <3>2. /\ sinceExec'[k[1]] = IF k[1] = c[1] THEN 0 ELSE sinceExec[k[1]]
          /\ swapAge'[k] = IF k = c THEN 0 ELSE swapAge[k]
      BY <1>2, <2>7, <3>1
    <3> QED
      BY <1>2, <3>1, <3>2
  <2>9. ASSUME Timely, NEW p \in Workers, NEW v \in DOMAIN active[p],
               NEW a \in {"buy", "sell"}
        PROVE  swapAge'[<<v, a>>] >= active[p][v].age \/ idem[<<v, a>>] >= lease[p]
    <3>1. PICK k \in ActionKeys : k = <<v, a>>
      BY <1>2 DEF ActionKeys
    <3>2. swapAge[k] >= active[p][v].age \/ idem[k] >= lease[p]
      BY <1>1, <2>9, <3>1 DEF Seen
    <3>3. swapAge'[k] = IF k = c THEN 0 ELSE swapAge[k]
      BY <1>2, <2>7
    <3>4. lease[p] \in 0..LockTTL /\ idem[k] \in Nat
      BY <1>2
    <3> QED
      BY <2>6, <2>9, <3>1, <3>2, <3>3, <3>4, TickAssumption
  <2> QED
    BY <1>1, <2>7, <2>8, <2>9 DEF Seen, Timely
<1>8. ASSUME Clock PROVE Seen'
  <2>1. /\ UNCHANGED tickPc /\ (Timely' => Timely)
        /\ idem' = [k \in ActionKeys |-> IF idem[k] > 0 THEN idem[k] - 1 ELSE 0]
        /\ lease' = [p \in Workers |-> IF lease[p] > 0 THEN lease[p] - 1 ELSE 0]
        /\ sinceExec' = [v \in Vaults |-> Tick!CountUp(sinceExec[v])]
        /\ active' = [p \in Workers |->
                        [v \in DOMAIN active[p] |-> Tick!Older(active[p][v])]]
        /\ swapAge' = [k \in ActionKeys |-> Tick!CountUp(swapAge[k])]
    BY <1>2, <1>8 DEF Clock, Tick!Clock, Tick!Expire, Tick!CountDown, Timely, Tick!Key,
                      Tick!Actions, ActionKeys
  <2>2. \A m, n \in 0..Cooldown : m <= n => Tick!CountUp(m) <= Tick!CountUp(n)
    BY TickAssumption DEF Tick!CountUp
  <2>3. ASSUME NEW k \in ActionKeys PROVE sinceExec'[k[1]] <= swapAge'[k]
    <3>1. k[1] \in Vaults /\ sinceExec[k[1]] <= swapAge[k]
      BY <1>1 DEF ActionKeys, Seen
    <3> QED
      BY <1>2, <2>1, <2>2, <3>1
  <2>4. ASSUME Timely, NEW p \in Workers, NEW v \in DOMAIN active[p],
               NEW a \in {"buy", "sell"}
        PROVE  swapAge'[<<v, a>>] >= active'[p][v].age \/ idem'[<<v, a>>] >= lease'[p]
    <3>1. PICK k \in ActionKeys : k = <<v, a>>
      BY <1>2 DEF ActionKeys
    <3>2. swapAge[k] >= active[p][v].age \/ idem[k] >= lease[p]
      BY <1>1, <2>4, <3>1 DEF Seen
    <3>3. /\ swapAge'[k] = Tick!CountUp(swapAge[k])
          /\ active'[p][v].age = Tick!CountUp(active[p][v].age)
      BY <2>1 DEF Tick!Older
    <3>4. /\ idem'[k] = (IF idem[k] > 0 THEN idem[k] - 1 ELSE 0) /\ idem[k] \in Nat
          /\ lease'[p] = (IF lease[p] > 0 THEN lease[p] - 1 ELSE 0) /\ lease[p] \in Nat
      BY <1>2, <2>1
    <3>5. idem[k] >= lease[p] => idem'[k] >= lease'[p]
      BY <3>4
    <3>6. swapAge[k] \in 0..Cooldown /\ active[p][v].age \in 0..Cooldown
      BY <1>2
    <3>7. swapAge[k] >= active[p][v].age => swapAge'[k] >= active'[p][v].age
      BY <2>2, <3>3, <3>6, TickAssumption DEF Tick!CountUp
    <3> QED
      BY <3>1, <3>2, <3>5, <3>7
  <2> QED
    BY <1>1, <2>1, <2>3, <2>4 DEF Seen
<1> QED
  BY <1>4, <1>5, <1>6, <1>7, <1>8 DEF Next, Exec!Attempts, Exec!Tries, Trials

LEMMA RestedNext == ASSUME SpacingInv, [Next]_vars PROVE Rested'
<1>1. /\ PartsInv /\ TickP!LockInv /\ TickP!TypeOK /\ KeyInv
      /\ Seen /\ Covered /\ Alone /\ Rested
  BY DEF SpacingInv, PartsInv, TickP!LockInv
<1>2. /\ swapAge \in [ActionKeys -> 0..Cooldown]
      /\ lease \in [Workers -> 0..LockTTL]
      /\ \A p \in Workers : /\ DOMAIN active[p] \subseteq Vaults
                            /\ \A v \in DOMAIN active[p] : active[p][v].age \in 0..Cooldown
  BY <1>1 DEF TickP!TypeOK, TickP!Snapshot, KeyInv
<1>3. ExecP!LedgerInv /\ ExecP!TypeOK
  BY <1>1 DEF PartsInv, ExecP!LedgerInv, ExecP!TaskInv
<1>4. ASSUME Scan PROVE Rested'
  <2>1. /\ UNCHANGED <<swapAge, late, overran, unanswered>>
        /\ \A k \in ActionKeys : JobsOf(k)' = JobsOf(k)
        /\ \A t \in Tasks : Swapped(t)' <=> Swapped(t)
    BY <1>1, <1>4, ScanMoves, JobsUnchanged
  <2>2. ASSUME \A p \in Workers, k \in ActionKeys :
                  Timely /\ Sends(p, k)' => swapAge[k] = Cooldown
        PROVE  Rested'
    <3>1. \A k \in ActionKeys : JobsOf(k) \subseteq Tasks
      BY DEF JobsOf, TasksOf
    <3> QED
      BY <1>1, <2>1, <2>2, <3>1 DEF Rested, Timely
  <2>3. CASE NoneClaimed
    BY <1>1, <2>2, <2>3 DEF NoneClaimed, Sends, Rested
  <2>4. ASSUME NEW p \in Workers, NEW v \in Vaults, NEW a \in {"buy", "sell"},
               ClaimedBy(p, v, a)
        PROVE  Rested'
    <3>1. PICK c \in ActionKeys : c = <<v, a>>
      BY DEF ActionKeys
    <3>2. \A k \in ActionKeys, q \in Workers : k # c /\ Sends(q, k)' => Sends(q, k)
      BY <2>4, <3>1 DEF Sends, ClaimedBy
    <3>3. ASSUME Timely PROVE swapAge[c] = Cooldown
      <4>1. lease[p] > 0
        BY <1>1, <2>4, <3>3
           DEF ClaimedBy, Timely, TickP!LockInv, TickP!LeaseIsLock, TickP!Running
      <4>2. idem[c] = 0 /\ active[p][v].age >= Cooldown /\ v \in DOMAIN active[p]
        BY <2>4, <3>1 DEF ClaimedBy
      <4>3. swapAge[c] >= active[p][v].age \/ idem[c] >= lease[p]
        BY <1>1, <3>1, <3>3, <4>2 DEF Seen
      <4> QED
        BY <1>2, <4>1, <4>2, <4>3, TickAssumption
    <3> QED
      BY <1>1, <2>2, <3>2, <3>3 DEF Rested
  <2> QED
    BY <1>1, <1>4, <2>3, <2>4, ScanMoves
<1>5. ASSUME NEW p \in Workers, NEW t \in Tasks, Enqueue(p, t) PROVE Rested'
  <2>1. PICK k : k = pick[p]
    OBVIOUS
  <2>2. /\ k \in ActionKeys /\ Sends(p, k) /\ (Timely' <=> Timely)
        /\ JobsOf(k)' = JobsOf(k) \cup {t}
        /\ \A l \in ActionKeys \ {k} : JobsOf(l)' = JobsOf(l)
        /\ \A q \in Workers, l \in ActionKeys : Sends(q, l)' => Sends(q, l)
        /\ UNCHANGED <<swapAge, unanswered, tx>>
    BY <1>1, <1>5, <2>1, EnqueueMoves DEF Timely, Sends
  <2>3. \A u : Swapped(u)' <=> Swapped(u)
    BY <2>2 DEF Swapped
  <2>4. Timely => swapAge[k] = Cooldown
    BY <1>1, <2>2 DEF Rested
  <2>5. Timely /\ unanswered = {} =>
           \A l \in ActionKeys : \A u \in JobsOf(l)' : Swapped(u) \/ swapAge[l] = Cooldown
    BY <1>1, <2>2, <2>4 DEF Rested
  <2> QED
    BY <1>1, <2>2, <2>3, <2>5 DEF Rested
<1>6. ASSUME UNCHANGED <<tickPc, pick, late, overran, swapAge>>,
             \A k \in ActionKeys : JobsOf(k)' \subseteq JobsOf(k),
             \A t \in Tasks : Swapped(t) => Swapped(t)',
             unanswered \subseteq unanswered'
      PROVE  Rested'
  <2>1. \A k \in ActionKeys : JobsOf(k) \subseteq Tasks
    BY DEF JobsOf, TasksOf
  <2> QED
    BY <1>1, <1>6, <2>1 DEF Rested, Sends, Timely
<1>7. ASSUME Execute PROVE Rested'
  <2>1. /\ \A a \in Trials : TxMoves(a)
        /\ unanswered \subseteq unanswered'
    BY <1>3, <1>7, ExecuteMoves
  <2>2. ASSUME NEW t \in Tasks, Swapped(t) PROVE Swapped(t)'
    <3>1. PICK i \in 0..MaxRetries : tx[<<t, i>>].status = "ok"
      BY <2>2 DEF Swapped
    <3>2. PICK a \in Trials : a = <<t, i>>
      BY DEF Trials
    <3> QED
      BY <2>1, <3>1, <3>2 DEF TxMoves, Swapped
  <2> QED
    BY <1>1, <1>6, <1>7, <2>1, <2>2, QuietMoves DEF Execute
<1>8. ASSUME UNCHANGED vars PROVE Rested'
  BY <1>1, <1>6, <1>8, QuietMoves DEF vars, jobVars, Swapped
<1>9. ASSUME NEW b \in Trials, Swap(b) PROVE Rested'
  <2>1. PICK t \in Tasks, i \in 0..MaxRetries : b = <<t, i>>
    BY DEF Trials
  <2>2. /\ UNCHANGED <<phase, unanswered>>
        /\ tx[b].status = "pending" /\ tx'[b].status = "ok"
        /\ \A a \in Trials \ {b} : TxMoves(a)
    BY <1>3, <1>9, SwapMoves
  <2>3. PICK c \in ActionKeys : c = key[t]
    BY <1>1, <2>1, <2>2 DEF KeyInv
  <2>4. t \in JobsOf(c)
    BY <1>1, <2>1, <2>2, <2>3 DEF KeyInv, JobsOf, TasksOf
  <2>5. /\ \A k \in ActionKeys : JobsOf(k)' \subseteq JobsOf(k)
        /\ UNCHANGED <<tickPc, pick, late, overran>>
    BY <1>1, <1>9, QuietMoves
  <2>6. \A k \in ActionKeys : k # c => swapAge'[k] = swapAge[k]
    BY <1>2, <1>9, <2>1, <2>3 DEF Swap
  <2>7. ASSUME NEW u \in Tasks, Swapped(u) \/ u = t PROVE Swapped(u)'
    <3>1. CASE u = t
      BY <2>1, <2>2, <3>1 DEF Swapped
    <3>2. CASE Swapped(u)
      <4>1. PICK j \in 0..MaxRetries : tx[<<u, j>>].status = "ok"
        BY <3>2 DEF Swapped
      <4>2. PICK a \in Trials : a = <<u, j>>
        BY DEF Trials
      <4> QED
        BY <2>2, <4>1, <4>2 DEF TxMoves, Swapped
    <3> QED
      BY <2>7, <3>1, <3>2
  <2>8. Timely => /\ \A p \in Workers : ~Sends(p, c)
                  /\ \A u \in JobsOf(c) : u = t
    BY <1>1, <2>4 DEF Alone
  <2>9. \A k \in ActionKeys : JobsOf(k) \subseteq Tasks
    BY DEF JobsOf, TasksOf
  <2>10. Timely => \A p \in Workers, k \in ActionKeys :
                      Sends(p, k)' => swapAge'[k] = Cooldown
    BY <1>1, <2>5, <2>6, <2>8 DEF Rested, Sends
  <2>11. Timely /\ unanswered = {} =>
            \A k \in ActionKeys : \A u \in JobsOf(k)' :
               Swapped(u)' \/ swapAge'[k] = Cooldown
    BY <1>1, <2>5, <2>6, <2>7, <2>8, <2>9 DEF Rested
  <2> QED
    BY <2>2, <2>5, <2>10, <2>11 DEF Rested, Timely
<1>10. ASSUME Clock PROVE Rested'
  <2>1. \A k \in ActionKeys : swapAge[k] = Cooldown => swapAge'[k] = Cooldown
    BY <1>2, <1>10, TickAssumption DEF Clock, Tick!CountUp
  <2>2. \A k \in ActionKeys : JobsOf(k) \subseteq Tasks
    BY DEF JobsOf, TasksOf
  <2> QED
    BY <1>1, <1>10, <2>1, <2>2, ClockMoves DEF Rested, Timely, Sends
<1> QED
  BY <1>4, <1>5, <1>7, <1>8, <1>9, <1>10 DEF Next, Exec!Attempts, Exec!Tries, Trials

LEMMA SpacingNext == SpacingInv /\ [Next]_vars => SpacingInv'
<1> SUFFICES ASSUME SpacingInv, [Next]_vars PROVE SpacingInv'
  OBVIOUS
<1>1. PartsInv'
  BY PartsNext DEF SpacingInv
<1>2. TickP!TypeOK'
  BY <1>1 DEF PartsInv, TickP!LockInv
<1> QED
  BY <1>1, <1>2, CoveredNext, AloneNext, SeenNext, RestedNext DEF SpacingInv

(* As long as jobs are settled while their key has a lock period left and  *)
(* ticks are faster than their lock, a vault never has two unsettled jobs  *)
(* of one action.                                                          *)
THEOREM JobsDoNotOverlap == Spec => []OneJobAtATime
<1>1. SpacingInv => OneJobAtATime
  <2> SUFFICES ASSUME SpacingInv, Timely, NEW k \in ActionKeys
               PROVE  Cardinality(JobsOf(k)) <= 1
    BY DEF OneJobAtATime, SpacingInv, PartsInv, TickP!LockInv, TickP!TypeOK, TickP!Key,
           TickP!Actions, ActionKeys
  <2>1. CASE JobsOf(k) = {}
    BY <2>1, FS_EmptySet
  <2>2. ASSUME NEW t \in JobsOf(k) PROVE Cardinality(JobsOf(k)) <= 1
    <3>1. JobsOf(k) = {t}
      BY <2>2 DEF SpacingInv, Alone
    <3>2. Cardinality({t}) = 1
      BY FS_Singleton
    <3> QED
      BY <3>1, <3>2
  <2> QED
    BY <2>1, <2>2
<1> QED
  BY <1>1, SpacingInit, SpacingNext, PTL DEF Spec

(* A swap that is about to be mined is its task's first.                   *)
LEMMA FirstSwap ==
    ASSUME ExecP!LedgerInv, unanswered = {}, NEW t \in Tasks, NEW i \in 0..MaxRetries,
           tx[<<t, i>>].status = "pending"
    PROVE  ~Swapped(t)
<1>1. /\ try[t] \in Nat /\ \A j \in 0..MaxRetries : j \in Nat
  BY ExecutorAssumption DEF ExecP!LedgerInv, ExecP!TaskInv, ExecP!TypeOK, ExecP!Tries
<1>2. \A j \in 0..MaxRetries :
         /\ j > try[t] => tx[<<t, j>>].status = "none"
         /\ j < try[t] => tx[<<t, j>>].status \in {"none", "reverted"}
  BY DEF ExecP!LedgerInv, ExecP!AuditInv, ExecP!Tries, ExecP!ToCome, ExecP!Untouched,
         ExecP!MayRepeat
<1>3. i = try[t]
  BY <1>1, <1>2
<1>4. ASSUME NEW j \in 0..MaxRetries PROVE tx[<<t, j>>].status # "ok"
  BY <1>1, <1>2, <1>3
<1> QED
  BY <1>4 DEF Swapped

(* Same-action swaps are a cooldown apart as long as no tick outlives its  *)
(* lock, no attempt loses sight of its transaction and every job is        *)
(* settled while its key has a lock period left.                           *)
THEOREM SwapsAreSpaced == Spec => SpacedWhenTimely
<1>1. SpacingInv /\ [Next]_vars => [Timely /\ unanswered = {} => Spaced]_vars
  <2> SUFFICES ASSUME SpacingInv, [Next]_vars, Timely, unanswered = {},
                      NEW b \in Exec!Attempts, Mined(b)
               PROVE  swapAge[key[b[1]]] = Cooldown
    BY DEF Spaced
  <2>1. PICK t \in Tasks, i \in 0..MaxRetries : b = <<t, i>>
    BY DEF Exec!Attempts, Exec!Tries
  <2>2. PartsInv /\ ExecP!LedgerInv /\ ExecP!TypeOK /\ KeyInv /\ TickP!TypeOK /\ Seen
    BY DEF SpacingInv, PartsInv, ExecP!LedgerInv, ExecP!TaskInv, TickP!LockInv
  <2>3. b \in Trials
    BY <2>1 DEF Trials
  <2>4. tx[b].status = "pending"
    <3>1. CASE Scan \/ Clock \/ UNCHANGED vars
      BY <3>1 DEF Scan, Clock, vars, jobVars, Mined
    <3>2. ASSUME NEW p \in Workers, NEW u \in Tasks, Enqueue(p, u) PROVE FALSE
      BY <3>2 DEF Enqueue, Exec!Submit, Exec!chainVars, Mined
    <3>3. CASE Execute
      BY <2>2, <2>3, <3>3, ExecuteMoves DEF TxMoves, Mined
    <3>4. ASSUME NEW a \in Trials, Swap(a) PROVE tx[b].status = "pending"
      BY <2>2, <2>3, <3>4, SwapMoves DEF TxMoves, Mined
    <3> QED
      BY <3>1, <3>2, <3>3, <3>4 DEF Next, Exec!Attempts, Exec!Tries, Trials
  <2>5. PICK c \in ActionKeys : c = key[t]
    BY <2>1, <2>2, <2>3, <2>4 DEF KeyInv
  <2>6. t \in JobsOf(c)
    BY <2>1, <2>2, <2>3, <2>4, <2>5 DEF KeyInv, JobsOf, TasksOf
  <2>7. ~Swapped(t)
    BY <2>1, <2>2, <2>4, FirstSwap
  <2> QED
    BY <2>1, <2>5, <2>6, <2>7 DEF SpacingInv, Rested
<1> QED
  BY <1>1, SpacingInit, SpacingNext, PTL DEF Spec, SpacedWhenTimely

(* The executor and the ticks do in the pipeline what they do by           *)
(* themselves, so that all that is proved of them holds: an enqueued task  *)
(* is a job, its end settles it, its swap trades the vault.                *)
THEOREM PipelineImplementsParts == Spec => Exec!Spec /\ Tick!Spec
<1>1. Init => Exec!Init /\ Tick!Init
  BY DEF Init
<1>2. PartsInv /\ [Next]_vars => [Exec!Next]_(Exec!vars) /\ [Tick!Next]_(Tick!vars)
  <2>1. UNCHANGED ExecP!vars => UNCHANGED Exec!vars
    BY DEF Exec!vars, ExecP!vars, Exec!taskVars, ExecP!taskVars, Exec!execVars,
           ExecP!execVars, Exec!settings, ExecP!settings, Exec!chainVars,
           ExecP!chainVars, Exec!logVars, ExecP!logVars
  <2>2. UNCHANGED TickP!vars => UNCHANGED Tick!vars
    BY DEF Tick!vars, TickP!vars, Tick!workerVars, TickP!workerVars, Tick!chainVars,
           TickP!chainVars
  <2> QED
    BY <2>1, <2>2, StepOfExecutor, StepOfTick, SameExecutorNext, SameTickNext
       DEF PartsInv
<1> QED
  BY <1>1, <1>2, PartsInit, PartsNext, PTL DEF Spec, Exec!Spec, Tick!Spec

(***************************************************************************)
(* What the parts promise, kept by the whole.                              *)
(***************************************************************************)

PromiseInv == PartsInv /\ ExecP!NonceInv

LEMMA PromiseInit == Init => PromiseInv
<1> SUFFICES ASSUME Init PROVE ExecP!NonceInv
  BY PartsInit DEF PromiseInv
<1> QED
  BY ExecutorAssumption, SameExecutorInit, ExecP!NonceInit DEF Init

LEMMA PromiseNext == PromiseInv /\ [Next]_vars => PromiseInv'
<1> SUFFICES ASSUME PromiseInv, [Next]_vars PROVE ExecP!NonceInv'
  BY PartsNext DEF PromiseInv
<1> QED
  BY ExecutorAssumption, StepOfExecutor, ExecP!NonceNext DEF PromiseInv

LEMMA SameGateNext == Tick!Gate!Next <=> TickP!Gate!Next
BY DEF Tick!Gate!Next, TickP!Gate!Next, Tick!Gate!Claim, TickP!Gate!Claim,
       Tick!Gate!Send, TickP!Gate!Send, Tick!Gate!Lose, TickP!Gate!Lose,
       Tick!Gate!Settle, TickP!Gate!Settle, Tick!Gate!Elapse, TickP!Gate!Elapse,
       Tick!Key, TickP!Key, Tick!Actions, TickP!Actions

(* In the pipeline the ticks keep the gate and the executor runs retrying  *)
(* tasks, now that a job is the claim of a tick and an age the swap of a   *)
(* task (tasks.py:156-232, 443-451).                                       *)
THEOREM PipelineKeepsGateAndTasks == Spec => Tick!GateSpec /\ Exec!TaskSpec
<1>1. Init => Tick!Gate!Init /\ Exec!Task!Init
  <2> SUFFICES ASSUME Init PROVE Tick!Gate!Init /\ Exec!Task!Init
    OBVIOUS
  <2>1. TickP!Gate!Init
    BY TickAssumptions, SameTickInit, TickP!GateInit DEF Init
  <2>2. ExecP!Task!Init
    BY ExecutorAssumption, SameExecutorInit, ExecP!TaskInit DEF Init
  <2> QED
    BY <2>1, <2>2 DEF Tick!Gate!Init, TickP!Gate!Init, Tick!Key, TickP!Key,
                      Tick!Actions, TickP!Actions, Exec!Task!Init, ExecP!Task!Init
<1>2. PartsInv /\ [Next]_vars => /\ [Tick!Gate!Next]_(Tick!Gate!gateVars)
                                 /\ [Exec!Task!Next]_(Exec!Task!taskVars)
  <2> SUFFICES ASSUME PartsInv, [Next]_vars
               PROVE  /\ [Tick!Gate!Next]_(Tick!Gate!gateVars)
                      /\ [Exec!Task!Next]_(Exec!Task!taskVars)
    OBVIOUS
  <2>1. [TickP!Next]_(TickP!vars) /\ [ExecP!Next]_(ExecP!vars)
    BY StepOfTick, StepOfExecutor DEF PartsInv
  <2>2. TickP!TypeOK /\ ExecP!TaskInv
    BY DEF PartsInv, TickP!LockInv, ExecP!LedgerInv
  <2>3. [TickP!Gate!Next]_(TickP!Gate!gateVars)
    BY <2>1, <2>2, TickAssumptions, TickP!GateNext
  <2>4. [ExecP!Task!Next]_(ExecP!Task!taskVars)
    BY <2>1, <2>2, ExecutorAssumption, ExecP!TaskNext
  <2>5. UNCHANGED TickP!Gate!gateVars => UNCHANGED Tick!Gate!gateVars
    BY DEF Tick!Gate!gateVars, TickP!Gate!gateVars, Tick!Key, TickP!Key,
           Tick!Actions, TickP!Actions
  <2>6. [Exec!Task!Next]_(Exec!Task!taskVars)
    BY <2>4 DEF Exec!Task!Next, ExecP!Task!Next, Exec!Task!Submit, ExecP!Task!Submit,
                Exec!Task!Start, ExecP!Task!Start, Exec!Task!End, ExecP!Task!End,
                Exec!Task!Retry, ExecP!Task!Retry, Exec!Task!Move, ExecP!Task!Move,
                Exec!Task!taskVars, ExecP!Task!taskVars
  <2> QED
    BY <2>3, <2>5, <2>6, SameGateNext
<1> QED
  BY <1>1, <1>2, PartsInit, PartsNext, PTL
     DEF Spec, Tick!GateSpec, Tick!Gate!Spec, Exec!TaskSpec, Exec!Task!Spec

(* And nothing else of what they promise is lost: nonces differ, the log   *)
(* agrees with the chain, swaps are repeated only after a lost answer, a   *)
(* task has one place, ticks exclude each other while none overruns, and a *)
(* claimed key is held until its job is enqueued.                          *)
THEOREM PipelineKeepsPromises ==
    Spec => [](/\ Exec!NoNonceCollision /\ Exec!AuditTrail
               /\ Exec!SwapRepeatedOnlyUnanswered /\ Exec!OnePlaceEach
               /\ Tick!OverlapNeedsOverrun /\ Tick!ClaimIsHeld)
<1> DEFINE Promised == /\ Exec!NoNonceCollision /\ Exec!AuditTrail
                       /\ Exec!SwapRepeatedOnlyUnanswered /\ Exec!OnePlaceEach
                       /\ Tick!OverlapNeedsOverrun /\ Tick!ClaimIsHeld
<1>1. PromiseInv => Promised
  <2> SUFFICES ASSUME PromiseInv PROVE Promised
    OBVIOUS
  <2>1. ExecP!LedgerInv /\ ExecP!NonceInv /\ TickP!LockInv
    BY DEF PromiseInv, PartsInv
  <2>2. Exec!NoNonceCollision
    BY <2>1 DEF ExecP!NonceInv, ExecP!NoNonceCollision, Exec!NoNonceCollision,
                ExecP!Pending, Exec!Pending, ExecP!Attempts, Exec!Attempts,
                ExecP!Tries, Exec!Tries
  <2>3. Exec!AuditTrail
    BY <2>1, ExecutorAssumption, ExecP!LedgerTellsTrail
       DEF ExecP!AuditTrail, Exec!AuditTrail, ExecP!Busy, Exec!Busy, ExecP!Attempt,
           Exec!Attempt, ExecP!Attempts, Exec!Attempts, ExecP!Tries, Exec!Tries
  <2>4. Exec!SwapRepeatedOnlyUnanswered
    BY <2>1, ExecutorAssumption, ExecP!LedgerTellsRepeats
       DEF ExecP!SwapRepeatedOnlyUnanswered, Exec!SwapRepeatedOnlyUnanswered,
           ExecP!Made, Exec!Made, ExecP!Tries, Exec!Tries
  <2>5. Exec!OnePlaceEach
    BY <2>1, ExecutorAssumption, ExecP!LedgerPlacesTasks
       DEF ExecP!OnePlaceEach, Exec!OnePlaceEach, ExecP!Places, Exec!Places
  <2>6. Tick!OverlapNeedsOverrun /\ Tick!ClaimIsHeld
    BY <2>1 DEF TickP!LockInv, TickP!OverlapNeedsOverrun, Tick!OverlapNeedsOverrun,
                TickP!ClaimIsHeld, Tick!ClaimIsHeld, TickP!Running, Tick!Running
  <2> QED
    BY <2>2, <2>3, <2>4, <2>5, <2>6
<1> QED
  BY <1>1, PromiseInit, PromiseNext, PTL DEF Spec
===============================================================================
