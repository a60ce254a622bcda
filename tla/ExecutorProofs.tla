---------------------------- MODULE ExecutorProofs ----------------------------
(***************************************************************************)
(* Proofs about Executor for every set of tasks, every number of retries   *)
(* and every bound on nonces, with one executor.                           *)
(***************************************************************************)
EXTENDS Executor, TLAPS

Labels == {"idle", "start", "check", "perform", "send", "receipt", "log", "finish"}
Statuses == {"none", "pending", "ok", "reverted", "dropped"}
Transactions == [status : Statuses, nonce : 0..MaxNonce]

(***************************************************************************)
(* Type correctness.                                                       *)
(***************************************************************************)

LEMMA ExecutorTypeInit == Init => TypeOK
<1> SUFFICES ASSUME Init PROVE TypeOK
  OBVIOUS
<1>1. NoTx \in Transactions
  BY NonceAssumption DEF NoTx, Transactions, Statuses
<1>2. tx \in [Attempts -> Transactions]
  BY <1>1 DEF Init
<1>3. /\ try \in [Tasks -> Tries]
      /\ nonce \in [Executors -> 0..MaxNonce]
      /\ minedNonce \in Nat
  BY RetryAssumption, NonceAssumption DEF Init, Tries
<1> QED
  BY <1>2, <1>3 DEF Init, TypeOK, Transactions, Statuses, Results, RowStatus

(* A busy executor runs an attempt of a task.                              *)
LEMMA AttemptType ==
    ASSUME TypeOK, NEW e \in Executors, pc[e] # "idle"
    PROVE  cur[e] \in Tasks /\ Attempt(e) \in Attempts
BY DEF TypeOK, Attempt, Attempts

(* The program counters and results keep their types when a call returns.  *)
LEMMA ReturnType ==
    ASSUME TypeOK, NEW e \in Executors, pc[e] # "idle", NEW r \in Results,
           Return(e, r), UNCHANGED cur
    PROVE  /\ pc' \in [Executors -> Labels]
           /\ result' \in [Executors -> Results]
           /\ \A f \in Executors : pc'[f] # "idle" => cur'[f] \in Tasks
BY DEF TypeOK, Return, Goto, Labels

LEMMA GotoType ==
    ASSUME TypeOK, NEW e \in Executors, pc[e] # "idle", NEW label \in Labels,
           Goto(e, label), UNCHANGED cur
    PROVE  /\ pc' \in [Executors -> Labels]
           /\ \A f \in Executors : pc'[f] # "idle" => cur'[f] \in Tasks
BY DEF TypeOK, Goto, Labels

LEMMA ReleaseType ==
    ASSUME TypeOK, NEW e \in Executors, Release(e)
    PROVE  /\ pc' \in [Executors -> Labels]
           /\ cur' \in [Executors -> Tasks \cup {NoTask}]
           /\ \A f \in Executors : pc'[f] # "idle" => cur'[f] \in Tasks
           /\ nonce' \in [Executors -> 0..MaxNonce]
           /\ result' \in [Executors -> Results]
BY NonceAssumption DEF TypeOK, Release, Goto, Labels, Results

LEMMA ExecutorTypeNext == TypeOK /\ [Next]_vars => TypeOK'
<1> SUFFICES ASSUME TypeOK, [Next]_vars PROVE TypeOK'
  OBVIOUS
<1> USE DEF Labels
<1>1. ASSUME NEW t \in Tasks, Submit(t) PROVE TypeOK'
  BY <1>1 DEF Submit, TypeOK, execVars, settings, chainVars, logVars
<1>2. ASSUME NEW t \in Tasks, CountdownOver(t) PROVE TypeOK'
  BY <1>2 DEF CountdownOver, TypeOK, execVars, settings, chainVars, logVars
<1>3. ASSUME NEW e \in Executors, Take(e) PROVE TypeOK'
  <2>1. Head(queue) \in Tasks /\ Tail(queue) \in Seq(Tasks)
    BY <1>3 DEF Take, TypeOK
  <2>2. /\ pc' \in [Executors -> Labels]
        /\ cur' \in [Executors -> Tasks \cup {NoTask}]
        /\ \A f \in Executors : pc'[f] # "idle" => cur'[f] \in Tasks
    BY <1>3, <2>1 DEF Take, TypeOK, Goto
  <2> QED
    BY <1>3, <2>1, <2>2 DEF Take, TypeOK, settings, chainVars, logVars
<1>4. ASSUME NEW e \in Executors, Connect(e) PROVE TypeOK'
  <2>1. CASE hasKey
    BY <1>4, <2>1, GotoType
       DEF Connect, TypeOK, taskVars, settings, chainVars, logVars
  <2>2. CASE ~hasKey
    BY <1>4, <2>2, ReturnType
       DEF Connect, TypeOK, taskVars, settings, chainVars, logVars, Results
  <2> QED
    BY <2>1, <2>2
<1>5. ASSUME NEW e \in Executors, ConnectFails(e) PROVE TypeOK'
  BY <1>5, ReturnType
     DEF ConnectFails, TypeOK, taskVars, settings, chainVars, logVars, Results
<1>6. ASSUME NEW e \in Executors, NEW answer \in {"yes", "no", "error"},
             CheckUpkeep(e, answer)
      PROVE  TypeOK'
  <2>1. checked' \in [Attempts -> {"unasked", "yes", "no", "error"}]
    BY <1>6, AttemptType DEF CheckUpkeep, TypeOK
  <2>2. CASE answer = "yes"
    BY <1>6, <2>1, <2>2, GotoType
       DEF CheckUpkeep, TypeOK, taskVars, settings, chainVars
  <2>3. CASE answer = "no"
    BY <1>6, <2>1, <2>3, ReturnType
       DEF CheckUpkeep, TypeOK, taskVars, settings, chainVars, Results
  <2>4. CASE answer = "error"
    BY <1>6, <2>1, <2>4, ReturnType
       DEF CheckUpkeep, TypeOK, taskVars, settings, chainVars, Results
  <2> QED
    BY <2>2, <2>3, <2>4
<1>7. ASSUME NEW e \in Executors, NEW r \in {"dry_run", "error"}, Simulate(e, r)
      PROVE  TypeOK'
  BY <1>7, ReturnType
     DEF Simulate, TypeOK, taskVars, settings, chainVars, logVars, Results
<1>8. ASSUME NEW e \in Executors, ReadNonce(e) PROVE TypeOK'
  <2>1. nonce' \in [Executors -> 0..MaxNonce]
    BY <1>8 DEF ReadNonce, TypeOK
  <2> QED
    BY <1>8, <2>1, GotoType
       DEF ReadNonce, TypeOK, taskVars, settings, chainVars, logVars
<1>9. ASSUME NEW e \in Executors, pc[e] = "send", Broadcast(e)
      PROVE  tx' \in [Attempts -> Transactions]
  BY <1>9, AttemptType DEF Broadcast, TypeOK, Transactions, Statuses
<1>10. ASSUME NEW e \in Executors, Send(e) PROVE TypeOK'
  BY <1>9, <1>10, GotoType
     DEF Send, TypeOK, taskVars, settings, logVars, Transactions, Statuses
<1>11. ASSUME NEW e \in Executors, SendAnswerLost(e) PROVE TypeOK'
  BY <1>9, <1>11, AttemptType, ReturnType
     DEF SendAnswerLost, TypeOK, taskVars, settings, Transactions, Statuses, Results
<1>12. ASSUME NEW e \in Executors, RpcFails(e) PROVE TypeOK'
  BY <1>12, ReturnType
     DEF RpcFails, TypeOK, taskVars, settings, chainVars, logVars, Results
<1>13. ASSUME NEW e \in Executors, Receipt(e) PROVE TypeOK'
  BY <1>13, ReturnType
     DEF Receipt, TypeOK, taskVars, settings, chainVars, logVars, Results
<1>14. ASSUME NEW e \in Executors, ReceiptTimeout(e) PROVE TypeOK'
  BY <1>14, AttemptType, ReturnType
     DEF ReceiptTimeout, TypeOK, taskVars, settings, chainVars, Results
<1>15. ASSUME NEW e \in Executors, LogRow(e) PROVE TypeOK'
  <2>1. RowOf(result[e]) \in RowStatus
    BY DEF TypeOK, RowOf, Results, RowStatus
  <2>2. rows' \in [Attempts -> RowStatus]
    BY <1>15, <2>1, AttemptType DEF LogRow, TypeOK
  <2> QED
    BY <1>15, <2>2, GotoType DEF LogRow, TypeOK, taskVars, settings, chainVars
<1>16. ASSUME NEW e \in Executors, LogFails(e) PROVE TypeOK'
  BY <1>16, AttemptType, GotoType
     DEF LogFails, TypeOK, taskVars, settings, chainVars
<1>17. ASSUME NEW e \in Executors, Retry(e) PROVE TypeOK'
  <2>1. try' \in [Tasks -> Tries]
    BY <1>17, AttemptType, RetryAssumption DEF Retry, MayRetry, TypeOK, Tries
  <2> QED
    BY <1>17, <2>1, AttemptType, ReleaseType
       DEF Retry, TypeOK, settings, chainVars, logVars
<1>18. ASSUME NEW e \in Executors, End(e) PROVE TypeOK'
  BY <1>18, AttemptType, ReleaseType
     DEF End, TypeOK, settings, chainVars, logVars
<1>19. ASSUME NEW e \in Executors, Crash(e) PROVE TypeOK'
  BY <1>19, AttemptType, ReleaseType DEF Crash, TypeOK, settings, chainVars
<1>20. ASSUME NEW a \in Attempts, NEW status \in {"ok", "reverted"}, Mine(a, status)
       PROVE  TypeOK'
  <2>1. tx' \in [Attempts -> Transactions]
    BY <1>20 DEF Mine, TypeOK, Transactions, Statuses
  <2> QED
    BY <1>20, <2>1
       DEF Mine, TypeOK, taskVars, execVars, settings, logVars, Transactions, Statuses
<1>21. ASSUME NEW a \in Attempts, Evict(a) PROVE TypeOK'
  <2>1. tx' \in [Attempts -> Transactions]
    BY <1>21 DEF Evict, TypeOK, Transactions, Statuses
  <2> QED
    BY <1>21, <2>1
       DEF Evict, TypeOK, taskVars, execVars, settings, logVars, Transactions, Statuses
<1>22. CASE UNCHANGED vars
  BY <1>22 DEF vars, taskVars, execVars, settings, chainVars, logVars, TypeOK
<1> QED
  BY <1>1, <1>2, <1>3, <1>4, <1>5, <1>6, <1>7, <1>8, <1>10, <1>11, <1>12, <1>13,
     <1>14, <1>15, <1>16, <1>17, <1>18, <1>19, <1>20, <1>21, <1>22
     DEF Next, AttemptStep, AttemptFault, Chain

(* Every variable keeps its type in every behaviour of the executor.       *)
THEOREM ExecutorTypeCorrect == Spec => []TypeOK
BY ExecutorTypeInit, ExecutorTypeNext, PTL DEF Spec

(***************************************************************************)
(* No nonce collision.                                                     *)
(*                                                                         *)
(* The nonce an executor has read stays free until it is sent: the mempool *)
(* only loses transactions meanwhile, because nobody else sends any.  That *)
(* is where the single executor is needed.                                 *)
(***************************************************************************)

NonceIsFree == \A e \in Executors : pc[e] = "send" => nonce[e] \notin LiveNonces

NonceInv == TypeOK /\ NonceIsFree /\ NoNonceCollision

LEMMA NonceInit == Init => NonceInv
<1> SUFFICES ASSUME Init PROVE NonceInv
  OBVIOUS
<1>1. Pending = {}
  BY DEF Init, Pending, NoTx
<1> QED
  BY <1>1, ExecutorTypeInit DEF Init, NonceInv, NonceIsFree, NoNonceCollision

(* Steps that send nothing: no transaction becomes pending or changes its  *)
(* nonce, and no executor arrives at "send".                               *)
LEMMA NothingSent ==
    ASSUME NonceInv,
           Pending' \subseteq Pending,
           \A a \in Pending' : tx'[a].nonce = tx[a].nonce,
           \A e \in Executors : pc'[e] = "send" => pc[e] = "send" /\ nonce'[e] = nonce[e]
    PROVE  NonceIsFree' /\ NoNonceCollision'
<1>1. LiveNonces' \subseteq LiveNonces
  BY DEF LiveNonces
<1> QED
  BY <1>1 DEF NonceInv, NonceIsFree, NoNonceCollision

(* The transaction sent with a free nonce collides with none, and no other *)
(* executor is about to send one.                                          *)
LEMMA OneSent ==
    ASSUME NonceInv, NEW e \in Executors, pc[e] = "send", Broadcast(e), pc'[e] # "send"
    PROVE  NonceIsFree' /\ NoNonceCollision'
<1>1. \A f \in Executors : pc'[f] # "send"
  BY SingleExecutor
<1>2. \A a \in Pending' : a = Attempt(e) \/ (a \in Pending /\ tx'[a].nonce = tx[a].nonce)
  BY DEF Broadcast, Pending, NonceInv, TypeOK
<1>3. Attempt(e) \in Attempts /\ tx'[Attempt(e)].nonce = nonce[e]
  BY AttemptType DEF Broadcast, NonceInv, TypeOK
<1>4. \A a \in Pending : tx[a].nonce # nonce[e]
  BY DEF NonceInv, NonceIsFree, LiveNonces
<1>5. NoNonceCollision'
  BY <1>2, <1>3, <1>4 DEF NonceInv, NoNonceCollision
<1> QED
  BY <1>1, <1>5 DEF NonceIsFree

LEMMA NonceNext == NonceInv /\ [Next]_vars => NonceInv'
<1> SUFFICES ASSUME NonceInv, [Next]_vars PROVE NonceInv'
  OBVIOUS
<1> DEFINE Goal == NonceIsFree' /\ NoNonceCollision'
<1>1. TypeOK /\ TypeOK'
  BY ExecutorTypeNext DEF NonceInv
<1>2. ASSUME UNCHANGED tx,
             \A e \in Executors : pc'[e] = "send" => pc[e] = "send" /\ nonce'[e] = nonce[e]
      PROVE  Goal
  BY <1>2, NothingSent DEF Pending
<1>3. ASSUME NEW t \in Tasks, Submit(t) \/ CountdownOver(t) PROVE Goal
  BY <1>2, <1>3 DEF Submit, CountdownOver, execVars, chainVars
<1>4. ASSUME NEW e \in Executors,
             \/ Take(e) \/ Connect(e) \/ ConnectFails(e) \/ RpcFails(e) \/ Receipt(e)
             \/ ReceiptTimeout(e) \/ LogRow(e) \/ LogFails(e)
      PROVE  Goal
  <2>1. /\ UNCHANGED <<tx, nonce>>
        /\ \E label \in Labels \ {"send"} : pc' = [pc EXCEPT ![e] = label]
    BY <1>4 DEF Take, Connect, ConnectFails, RpcFails, Receipt, ReceiptTimeout,
                LogRow, LogFails, Goto, Return, Labels, chainVars
  <2> QED
    BY <1>1, <1>2, <2>1 DEF TypeOK
<1>5. ASSUME NEW e \in Executors, NEW answer \in {"yes", "no", "error"},
             CheckUpkeep(e, answer)
      PROVE  Goal
  <2>1. /\ UNCHANGED <<tx, nonce>>
        /\ \E label \in Labels \ {"send"} : pc' = [pc EXCEPT ![e] = label]
    BY <1>5 DEF CheckUpkeep, Goto, Return, Labels, chainVars
  <2> QED
    BY <1>1, <1>2, <2>1 DEF TypeOK
<1>6. ASSUME NEW e \in Executors, NEW r, Simulate(e, r) PROVE Goal
  BY <1>1, <1>2, <1>6 DEF Simulate, Goto, Return, TypeOK, chainVars
<1>7. ASSUME NEW e \in Executors, ReadNonce(e) PROVE Goal
  <2>1. PICK n \in 0..MaxNonce : IsPendingNonce(n) /\ nonce' = [nonce EXCEPT ![e] = n]
    BY <1>7 DEF ReadNonce
  <2>2. UNCHANGED tx /\ Pending' = Pending /\ LiveNonces' = LiveNonces
    BY <1>7 DEF ReadNonce, chainVars, Pending, LiveNonces
  <2>3. \A f \in Executors : nonce'[f] \notin LiveNonces'
    BY <1>1, <2>1, <2>2, SingleExecutor DEF IsPendingNonce, TypeOK
  <2> QED
    BY <2>2, <2>3 DEF NonceIsFree, NonceInv, NoNonceCollision
<1>8. ASSUME NEW e \in Executors, Send(e) \/ SendAnswerLost(e) PROVE Goal
  <2>1. pc[e] = "send" /\ Broadcast(e) /\ pc'[e] # "send"
    BY <1>1, <1>8 DEF Send, SendAnswerLost, Goto, Return, TypeOK
  <2> QED
    BY <2>1, OneSent
<1>9. ASSUME NEW e \in Executors, Retry(e) \/ End(e) \/ Crash(e) PROVE Goal
  <2>1. UNCHANGED tx /\ Release(e)
    BY <1>9 DEF Retry, End, Crash, chainVars
  <2> QED
    BY <1>1, <1>2, <2>1 DEF Release, Goto, TypeOK
<1>10. ASSUME NEW a \in Attempts, NEW status \in {"ok", "reverted"}, Mine(a, status)
       PROVE  Goal
  <2>1. /\ Pending' \subseteq Pending
        /\ \A b \in Pending' : tx'[b].nonce = tx[b].nonce
    BY <1>1, <1>10 DEF Mine, Pending, TypeOK
  <2> QED
    BY <1>10, <2>1, NothingSent DEF Mine, execVars
<1>11. ASSUME NEW a \in Attempts, Evict(a) PROVE Goal
  <2>1. /\ Pending' \subseteq Pending
        /\ \A b \in Pending' : tx'[b].nonce = tx[b].nonce
    BY <1>1, <1>11 DEF Evict, Pending, TypeOK
  <2> QED
    BY <1>11, <2>1, NothingSent DEF Evict, execVars
<1>12. ASSUME UNCHANGED vars PROVE Goal
  BY <1>2, <1>12 DEF vars, execVars, chainVars
<1> QED
  BY <1>1, <1>3, <1>4, <1>5, <1>6, <1>7, <1>8, <1>9, <1>10, <1>11, <1>12
     DEF Next, AttemptStep, AttemptFault, Chain, NonceInv

(* performUpkeep transactions that are live never share a nonce.           *)
THEOREM NoncesDiffer == Spec => []NoNonceCollision
BY NonceInit, NonceNext, PTL DEF Spec, NonceInv

(***************************************************************************)
(* A task is a retrying task.                                              *)
(*                                                                         *)
(* The abstract steps ask for the phase of the task they move.  It follows *)
(* from where the task is: one message in the broker, one entry among the  *)
(* countdowns, or one executor, never two of them.                         *)
(***************************************************************************)

InQueue(t) == \E i \in DOMAIN queue : queue[i] = t

OneMessage == \A i, j \in DOMAIN queue : queue[i] = queue[j] => i = j

TaskInv ==
    /\ TypeOK
    /\ OneMessage
    /\ \A t \in Tasks : InQueue(t) => phase[t] = "waiting" /\ t \notin waiting
    /\ \A t \in waiting : phase[t] = "waiting"
    /\ \A t \in Tasks : phase[t] = "waiting" => InQueue(t) \/ t \in waiting
    /\ \A e \in Executors : pc[e] # "idle" => phase[cur[e]] = "running"

LEMMA TaskInit == Init => TaskInv /\ Task!Init
<1> SUFFICES ASSUME Init PROVE TaskInv /\ Task!Init
  OBVIOUS
<1>1. DOMAIN queue = {}
  BY DEF Init
<1> QED
  BY <1>1, ExecutorTypeInit DEF Init, TaskInv, OneMessage, InQueue, Task!Init

(* A message appended for a task that has none.                            *)
LEMMA AppendMessage ==
    ASSUME queue \in Seq(Tasks), OneMessage, NEW t \in Tasks, ~InQueue(t),
           queue' = Append(queue, t)
    PROVE  OneMessage' /\ \A u \in Tasks : InQueue(u)' <=> u = t \/ InQueue(u)
<1>1. /\ DOMAIN queue = 1..Len(queue) /\ Len(queue) \in Nat
      /\ DOMAIN queue' = 1..(Len(queue) + 1)
      /\ queue'[Len(queue) + 1] = t
      /\ \A i \in DOMAIN queue : queue'[i] = queue[i]
  OBVIOUS
<1> QED
  BY <1>1 DEF OneMessage, InQueue

(* The first message delivered.                                            *)
LEMMA DeliverMessage ==
    ASSUME queue \in Seq(Tasks), OneMessage, queue # <<>>, queue' = Tail(queue)
    PROVE  /\ OneMessage'
           /\ InQueue(Head(queue))
           /\ \A u \in Tasks : InQueue(u)' <=> InQueue(u) /\ u # Head(queue)
<1>1. /\ Len(queue) \in Nat \ {0} /\ DOMAIN queue = 1..Len(queue)
      /\ Len(queue') = Len(queue) - 1
      /\ DOMAIN queue' = 1..(Len(queue) - 1)
      /\ Head(queue) = queue[1]
      /\ \A i \in 1..(Len(queue) - 1) : queue'[i] = queue[i + 1]
  OBVIOUS
<1>2. OneMessage'
  <2> SUFFICES ASSUME NEW i \in DOMAIN queue', NEW j \in DOMAIN queue',
                      queue'[i] = queue'[j]
               PROVE  i = j
    BY DEF OneMessage
  <2>1. i + 1 \in DOMAIN queue /\ j + 1 \in DOMAIN queue /\ queue[i + 1] = queue[j + 1]
    BY <1>1
  <2> QED
    BY <1>1, <2>1 DEF OneMessage
<1>3. InQueue(Head(queue))
  BY <1>1 DEF InQueue
<1>4. ASSUME NEW u \in Tasks PROVE InQueue(u)' <=> InQueue(u) /\ u # Head(queue)
  <2>1. ASSUME NEW i \in DOMAIN queue', queue'[i] = u
        PROVE  InQueue(u) /\ u # Head(queue)
    <3>1. i + 1 \in DOMAIN queue /\ queue[i + 1] = u /\ i + 1 # 1 /\ 1 \in DOMAIN queue
      BY <1>1, <2>1
    <3> QED
      BY <1>1, <3>1 DEF OneMessage, InQueue
  <2>2. ASSUME NEW i \in DOMAIN queue, queue[i] = u, u # Head(queue) PROVE InQueue(u)'
    <3>1. i - 1 \in DOMAIN queue' /\ queue'[i - 1] = u
      BY <1>1, <2>2
    <3> QED
      BY <3>1 DEF InQueue
  <2> QED
    BY <2>1, <2>2 DEF InQueue
<1> QED
  BY <1>2, <1>3, <1>4

LEMMA TaskNext ==
    TaskInv /\ [Next]_vars => TaskInv' /\ [Task!Next]_(Task!taskVars)
<1> SUFFICES ASSUME TaskInv, [Next]_vars
             PROVE  TaskInv' /\ [Task!Next]_(Task!taskVars)
  OBVIOUS
<1> DEFINE Goal == TaskInv' /\ [Task!Next]_(Task!taskVars)
<1>1. TypeOK /\ TypeOK'
  BY ExecutorTypeNext DEF TaskInv
<1>2. ASSUME UNCHANGED taskVars,
             \A e \in Executors : pc'[e] # "idle" => pc[e] # "idle" /\ cur'[e] = cur[e]
      PROVE  Goal
  BY <1>1, <1>2 DEF TaskInv, OneMessage, InQueue, taskVars, Task!taskVars
<1>3. ASSUME NEW t \in Tasks, Submit(t) PROVE Goal
  <2>1. ~InQueue(t)
    BY <1>3 DEF Submit, TaskInv
  <2>2. OneMessage' /\ \A u \in Tasks : InQueue(u)' <=> u = t \/ InQueue(u)
    BY <1>1, <1>3, <2>1, AppendMessage DEF Submit, TaskInv, TypeOK
  <2>3. TaskInv'
    BY <1>1, <1>3, <2>2 DEF Submit, TaskInv, TypeOK, execVars
  <2>4. Task!Submit(t)
    BY <1>3 DEF Submit, Task!Submit, Task!Move
  <2> QED
    BY <2>3, <2>4 DEF Task!Next
<1>4. ASSUME NEW t \in Tasks, CountdownOver(t) PROVE Goal
  <2>1. ~InQueue(t) /\ phase[t] = "waiting"
    BY <1>4 DEF CountdownOver, TaskInv
  <2>2. OneMessage' /\ \A u \in Tasks : InQueue(u)' <=> u = t \/ InQueue(u)
    BY <1>1, <1>4, <2>1, AppendMessage DEF CountdownOver, TaskInv, TypeOK
  <2>3. TaskInv'
    BY <1>1, <1>4, <2>1, <2>2 DEF CountdownOver, TaskInv, TypeOK, execVars
  <2> QED
    BY <1>4, <2>3 DEF CountdownOver, Task!taskVars
<1>5. ASSUME NEW e \in Executors, Take(e) PROVE Goal
  <2>1. PICK t \in Tasks : t = Head(queue)
    BY <1>1, <1>5 DEF Take, TypeOK
  <2>2. /\ OneMessage'
        /\ InQueue(t)
        /\ \A u \in Tasks : InQueue(u)' <=> InQueue(u) /\ u # t
    BY <1>1, <1>5, <2>1, DeliverMessage DEF Take, TaskInv, TypeOK
  <2>3. phase[t] = "waiting" /\ t \notin waiting
    BY <2>2 DEF TaskInv
  <2>4. /\ phase' = [phase EXCEPT ![t] = "running"] /\ UNCHANGED <<try, waiting>>
        /\ cur' = [cur EXCEPT ![e] = t]
    BY <1>5, <2>1 DEF Take
  <2>5. \A f \in Executors : pc'[f] # "idle" => phase'[cur'[f]] = "running"
    BY <1>1, <2>4, SingleExecutor DEF TypeOK
  <2>6. TaskInv'
    BY <1>1, <2>2, <2>3, <2>4, <2>5 DEF TaskInv, TypeOK
  <2>7. Task!Start(t)
    BY <2>3, <2>4 DEF Task!Start, Task!Move
  <2> QED
    BY <2>6, <2>7 DEF Task!Next
<1>6. ASSUME NEW e \in Executors,
             \/ Connect(e) \/ ConnectFails(e) \/ ReadNonce(e) \/ Send(e)
             \/ SendAnswerLost(e) \/ RpcFails(e) \/ Receipt(e) \/ ReceiptTimeout(e)
             \/ LogRow(e) \/ LogFails(e)
             \/ \E answer \in {"yes", "no", "error"} : CheckUpkeep(e, answer)
             \/ \E r \in {"dry_run", "error"} : Simulate(e, r)
      PROVE  Goal
  <2>1. /\ UNCHANGED <<taskVars, cur>> /\ pc[e] # "idle"
        /\ \E label \in Labels : pc' = [pc EXCEPT ![e] = label]
    BY <1>6 DEF Connect, ConnectFails, ReadNonce, Send, SendAnswerLost, RpcFails,
                Receipt, ReceiptTimeout, LogRow, LogFails, CheckUpkeep, Simulate,
                Goto, Return, Labels
  <2> QED
    BY <1>1, <1>2, <2>1 DEF TypeOK, taskVars
<1>7. ASSUME NEW e \in Executors, Retry(e) \/ End(e) \/ Crash(e) PROVE Goal
  <2>1. PICK t \in Tasks : t = cur[e]
    BY <1>1, <1>7, AttemptType DEF Retry, End, Crash
  <2>2. /\ phase[t] = "running" /\ ~InQueue(t) /\ t \notin waiting
        /\ \A f \in Executors : pc'[f] = "idle"
        /\ UNCHANGED queue
    BY <1>1, <1>7, <2>1, SingleExecutor
       DEF Retry, End, Crash, Release, Goto, TaskInv, TypeOK
  <2>3. OneMessage' /\ \A u \in Tasks : InQueue(u)' <=> InQueue(u)
    BY <2>2 DEF TaskInv, OneMessage, InQueue
  <2>4. CASE Retry(e)
    <3>1. /\ phase' = [phase EXCEPT ![t] = "waiting"]
          /\ waiting' = waiting \cup {t}
          /\ try[t] < MaxRetries /\ try' = [try EXCEPT ![t] = @ + 1]
      BY <2>1, <2>4 DEF Retry, MayRetry
    <3>2. TaskInv'
      BY <1>1, <2>2, <2>3, <3>1 DEF TaskInv, TypeOK
    <3>3. Task!Retry(t)
      BY <2>2, <3>1 DEF Task!Retry, Task!Move
    <3> QED
      BY <3>2, <3>3 DEF Task!Next
  <2>5. CASE End(e) \/ Crash(e)
    <3>1. phase' = [phase EXCEPT ![t] = "ended"] /\ UNCHANGED <<waiting, try>>
      BY <2>1, <2>5 DEF End, Crash
    <3>2. TaskInv'
      BY <1>1, <2>2, <2>3, <3>1 DEF TaskInv, TypeOK
    <3>3. Task!End(t)
      BY <2>2, <3>1 DEF Task!End, Task!Move
    <3> QED
      BY <3>2, <3>3 DEF Task!Next
  <2> QED
    BY <1>7, <2>4, <2>5
<1>8. ASSUME NEW a, NEW status, Mine(a, status) \/ Evict(a) PROVE Goal
  BY <1>2, <1>8 DEF Mine, Evict, execVars
<1>9. ASSUME UNCHANGED vars PROVE Goal
  BY <1>2, <1>9 DEF vars, execVars
<1> QED
  BY <1>3, <1>4, <1>5, <1>6, <1>7, <1>8, <1>9
     DEF Next, AttemptStep, AttemptFault, Chain

(* The attempts of a task follow one another, MaxRetries + 1 at most, and  *)
(* none comes after its end.                                               *)
THEOREM ExecutorImplementsTask == Spec => TaskSpec
BY TaskInit, TaskNext, PTL DEF Spec, Task!Spec, TaskSpec

(***************************************************************************)
(* The audit trail, and which swaps are repeated.                          *)
(*                                                                         *)
(* Both say what is true of an attempt that is over, and the chain goes on *)
(* after it is.  The invariant follows an attempt from before it begins,   *)
(* through the steps of its executor, to its end: what is known of its     *)
(* transaction at each of them is either final or marked as unknown.       *)
(***************************************************************************)

(* Nothing has happened yet in attempt a.                                  *)
Untouched(a) ==
    tx[a].status = "none" /\ rows[a] = "none" /\ checked[a] = "unasked"

(* Result r tells what became of the transaction of a, for good.           *)
Tells(a, r) ==
    CASE r = "ok"       -> tx[a].status = "ok"
      [] r = "reverted" -> tx[a].status = "reverted"
      [] r = "error"    -> tx[a].status = "none" \/ a \in unanswered
      [] OTHER          -> tx[a].status = "none"

(* Executor e is in attempt a.                                             *)
Underway(a, e) ==
    /\ pc[e] \in {"start", "check", "perform", "send"} => tx[a].status = "none"
    /\ pc[e] # "finish" => rows[a] = "none"
    /\ pc[e] \in {"log", "finish"} => Tells(a, result[e])
    /\ pc[e] = "finish" =>
          rows[a] = RowOf(result[e]) \/ (rows[a] = "none" /\ a \in unlogged)

(* Attempt a is over: its row and its transaction agree, or one is lost.   *)
Accounted(a) ==
    /\ rows[a] = "ok" => tx[a].status = "ok"
    /\ rows[a] \in {"skipped", "unconfigured", "dry_run"} => tx[a].status = "none"
    /\ \/ a \in unanswered \cup unlogged
       \/ tx[a].status = "none"
       \/ tx[a].status = "ok" /\ rows[a] = "ok"
       \/ tx[a].status = "reverted" /\ rows[a] = "failed"

(* No swap of a went through, or its fate was never learnt.                *)
MayRepeat(a) == tx[a].status \in {"none", "reverted"} \/ a \in unanswered

ToCome(t, i) == i > try[t] \/ (i = try[t] /\ phase[t] \in {"new", "waiting"})
Over(t, i) == i < try[t] \/ (i = try[t] /\ phase[t] = "ended")

AuditInv ==
    /\ \A t \in Tasks :
          phase[t] = "running" => \E e \in Executors : pc[e] # "idle" /\ cur[e] = t
    /\ \A e \in Executors : pc[e] # "idle" => Underway(Attempt(e), e)
    /\ \A t \in Tasks, i \in Tries :
          /\ ToCome(t, i) => Untouched(<<t, i>>)
          /\ Over(t, i) => Accounted(<<t, i>>)
          /\ i < try[t] => MayRepeat(<<t, i>>)

LEMMA AuditInit == Init => AuditInv
<1> SUFFICES ASSUME Init PROVE AuditInv
  OBVIOUS
<1>1. ASSUME NEW t \in Tasks, NEW i \in Tries
      PROVE  Untouched(<<t, i>>) /\ Accounted(<<t, i>>) /\ ~(i < try[t])
  BY <1>1, RetryAssumption
     DEF Init, Untouched, Accounted, Attempts, NoTx, Tries
<1> QED
  BY <1>1 DEF Init, AuditInv

(* A task is in one attempt, and that one is neither to come nor over.     *)
LEMMA OneAttempt ==
    ASSUME TaskInv, NEW e \in Executors, pc[e] # "idle",
           NEW t \in Tasks, NEW i \in Tries, <<t, i>> = Attempt(e)
    PROVE  ~ToCome(t, i) /\ ~Over(t, i)
<1>1. t = cur[e] /\ i = try[t] /\ phase[t] = "running"
  BY DEF Attempt, TaskInv
<1>2. i \in Nat
  BY RetryAssumption DEF Tries
<1> QED
  BY <1>1, <1>2 DEF ToCome, Over

(* A step of an executor within its attempt touches that attempt only.     *)
LEMMA WithinAttempt ==
    ASSUME TaskInv, AuditInv, NEW e \in Executors, NEW a \in Attempts,
           a = Attempt(e), pc[e] # "idle", pc'[e] # "idle",
           UNCHANGED <<taskVars, cur>>,
           \A b \in Attempts \ {a} :
               /\ tx'[b] = tx[b] /\ rows'[b] = rows[b] /\ checked'[b] = checked[b]
               /\ b \in unanswered' <=> b \in unanswered
               /\ b \in unlogged' <=> b \in unlogged,
           Underway(a, e)'
    PROVE  AuditInv'
<1>1. \A f \in Executors : f = e
  BY SingleExecutor
<1>2. Attempt(e)' = a
  BY DEF Attempt, taskVars
<1>3. ASSUME NEW t \in Tasks, NEW i \in Tries
      PROVE  /\ ToCome(t, i)' => Untouched(<<t, i>>)'
             /\ Over(t, i)' => Accounted(<<t, i>>)'
             /\ (i < try[t])' => MayRepeat(<<t, i>>)'
  <2>1. (ToCome(t, i)' <=> ToCome(t, i)) /\ (Over(t, i)' <=> Over(t, i))
    BY DEF ToCome, Over, taskVars
  <2>2. CASE <<t, i>> = a
    BY <2>1, <2>2, OneAttempt DEF Over, taskVars
  <2>3. CASE <<t, i>> # a
    <3>1. <<t, i>> \in Attempts \ {a}
      BY <2>3 DEF Attempts
    <3> QED
      BY <2>1, <3>1 DEF AuditInv, Untouched, Accounted, MayRepeat, taskVars
  <2> QED
    BY <2>2, <2>3
<1>4. \A t \in Tasks :
        phase'[t] = "running" => \E f \in Executors : pc'[f] # "idle" /\ cur'[f] = t
  BY <1>1 DEF AuditInv, taskVars
<1> QED
  BY <1>1, <1>2, <1>3, <1>4 DEF AuditInv

(* The chain changes pending transactions only: an attempt that is over    *)
(* and whose transaction is pending is marked.                             *)
LEMMA ChainKeepsAudit ==
    ASSUME TypeOK, AuditInv, UNCHANGED <<taskVars, execVars, logVars>>,
           \A b \in Attempts : tx[b].status # "pending" => tx'[b] = tx[b]
    PROVE  AuditInv'
<1>1. ASSUME NEW e \in Executors, pc[e] # "idle" PROVE Underway(Attempt(e), e)'
  <2>1. Attempt(e) \in Attempts /\ Attempt(e)' = Attempt(e) /\ Underway(Attempt(e), e)
    BY <1>1, AttemptType DEF AuditInv, Attempt, taskVars, execVars
  <2> QED
    BY <2>1 DEF Underway, Tells, execVars, logVars
<1>2. ASSUME NEW t \in Tasks, NEW i \in Tries
      PROVE  /\ ToCome(t, i)' => Untouched(<<t, i>>)'
             /\ Over(t, i)' => Accounted(<<t, i>>)'
             /\ (i < try[t])' => MayRepeat(<<t, i>>)'
  <2>1. (ToCome(t, i)' <=> ToCome(t, i)) /\ (Over(t, i)' <=> Over(t, i))
    BY DEF ToCome, Over, taskVars
  <2>2. <<t, i>> \in Attempts
    BY DEF Attempts
  <2> QED
    BY <2>1, <2>2 DEF AuditInv, Untouched, Accounted, MayRepeat, taskVars, logVars
<1> QED
  BY <1>1, <1>2 DEF AuditInv, taskVars, execVars

(* A step of an executor within its attempt leaves it well underway.       *)
LEMMA StepsWithin ==
    ASSUME TaskInv, TypeOK', AuditInv, NEW e \in Executors,
           \/ Connect(e) \/ ConnectFails(e) \/ ReadNonce(e) \/ Send(e)
           \/ SendAnswerLost(e) \/ RpcFails(e) \/ Receipt(e) \/ ReceiptTimeout(e)
           \/ LogRow(e) \/ LogFails(e)
           \/ \E answer \in {"yes", "no", "error"} : CheckUpkeep(e, answer)
           \/ \E r \in {"dry_run", "error"} : Simulate(e, r)
    PROVE  AuditInv'
<1>1. TypeOK /\ pc[e] # "idle"
  BY DEF TaskInv, Connect, ConnectFails, ReadNonce, Send, SendAnswerLost, RpcFails,
         Receipt, ReceiptTimeout, LogRow, LogFails, CheckUpkeep, Simulate
<1>2. PICK a \in Attempts : a = Attempt(e)
  BY <1>1, AttemptType
<1>3. Underway(a, e)
  BY <1>1, <1>2 DEF AuditInv
<1> DEFINE Goal == /\ pc'[e] # "idle"
                   /\ UNCHANGED <<taskVars, cur>>
                   /\ \A b \in Attempts \ {a} :
                         /\ tx'[b] = tx[b] /\ rows'[b] = rows[b]
                         /\ checked'[b] = checked[b]
                         /\ b \in unanswered' <=> b \in unanswered
                         /\ b \in unlogged' <=> b \in unlogged
                   /\ Underway(a, e)'
<1>4. ASSUME Connect(e) \/ ConnectFails(e) PROVE Goal
  <2>1. /\ pc[e] = "start" /\ UNCHANGED <<taskVars, cur, chainVars, logVars>>
        /\ \/ pc'[e] = "check"
           \/ pc'[e] = "log" /\ result'[e] = "unconfigured"
    BY <1>1, <1>4 DEF Connect, ConnectFails, Goto, Return, TypeOK
  <2> QED
    BY <1>3, <2>1 DEF Underway, Tells, chainVars, logVars
<1>5. ASSUME NEW answer \in {"yes", "no", "error"}, CheckUpkeep(e, answer) PROVE Goal
  <2>1. /\ pc[e] = "check"
        /\ UNCHANGED <<taskVars, cur, chainVars, rows, unanswered, unlogged>>
        /\ \A b \in Attempts \ {a} : checked'[b] = checked[b]
    BY <1>1, <1>2, <1>5 DEF CheckUpkeep, TypeOK
  <2>2. \/ pc'[e] = "perform"
        \/ pc'[e] = "log" /\ result'[e] \in {"not_needed", "check_error"}
    <3>1. CASE answer = "yes"
      BY <1>1, <1>5, <3>1 DEF CheckUpkeep, Goto, TypeOK
    <3>2. CASE answer = "no"
      BY <1>1, <1>5, <3>2 DEF CheckUpkeep, Goto, Return, TypeOK
    <3>3. CASE answer = "error"
      BY <1>1, <1>5, <3>3 DEF CheckUpkeep, Goto, Return, TypeOK
    <3> QED
      BY <3>1, <3>2, <3>3
  <2> QED
    BY <1>3, <2>1, <2>2 DEF Underway, Tells, chainVars
<1>6. ASSUME NEW r \in {"dry_run", "error"}, Simulate(e, r) PROVE Goal
  <2>1. /\ pc[e] = "perform" /\ UNCHANGED <<taskVars, cur, chainVars, logVars>>
        /\ pc'[e] = "log" /\ result'[e] \in {"dry_run", "error"}
    BY <1>1, <1>6 DEF Simulate, Goto, Return, TypeOK
  <2> QED
    BY <1>3, <2>1 DEF Underway, Tells, chainVars, logVars
<1>7. ASSUME ReadNonce(e) PROVE Goal
  <2>1. /\ pc[e] = "perform" /\ UNCHANGED <<taskVars, cur, chainVars, logVars>>
        /\ pc'[e] = "send"
    BY <1>1, <1>7 DEF ReadNonce, Goto, TypeOK
  <2> QED
    BY <1>3, <2>1 DEF Underway, chainVars, logVars
<1>8. ASSUME RpcFails(e) PROVE Goal
  <2>1. /\ pc[e] \in {"perform", "send"}
        /\ UNCHANGED <<taskVars, cur, chainVars, logVars>>
        /\ pc'[e] = "log" /\ result'[e] = "error"
    BY <1>1, <1>8 DEF RpcFails, Goto, Return, TypeOK
  <2> QED
    BY <1>3, <2>1 DEF Underway, Tells, chainVars, logVars
<1>9. ASSUME Send(e) PROVE Goal
  <2>1. /\ pc[e] = "send" /\ UNCHANGED <<taskVars, cur, logVars>>
        /\ pc'[e] = "receipt"
        /\ \A b \in Attempts \ {a} : tx'[b] = tx[b]
    BY <1>1, <1>2, <1>9 DEF Send, Broadcast, Goto, TypeOK
  <2> QED
    BY <1>3, <2>1 DEF Underway, logVars
<1>10. ASSUME SendAnswerLost(e) PROVE Goal
  <2>1. /\ pc[e] = "send" /\ UNCHANGED <<taskVars, cur, rows, checked, unlogged>>
        /\ pc'[e] = "log" /\ result'[e] = "error" /\ unanswered' = unanswered \cup {a}
        /\ \A b \in Attempts \ {a} : tx'[b] = tx[b]
    BY <1>1, <1>2, <1>10 DEF SendAnswerLost, Broadcast, Goto, Return, TypeOK
  <2> QED
    BY <1>3, <2>1 DEF Underway, Tells
<1>11. ASSUME Receipt(e) PROVE Goal
  <2>1. /\ pc[e] = "receipt" /\ UNCHANGED <<taskVars, cur, chainVars, logVars>>
        /\ pc'[e] = "log" /\ result'[e] = tx[a].status
        /\ tx[a].status \in {"ok", "reverted"}
    BY <1>1, <1>2, <1>11 DEF Receipt, Goto, Return, TypeOK
  <2> QED
    BY <1>3, <2>1 DEF Underway, Tells, chainVars, logVars
<1>12. ASSUME ReceiptTimeout(e) PROVE Goal
  <2>1. /\ pc[e] = "receipt"
        /\ UNCHANGED <<taskVars, cur, chainVars, rows, checked, unlogged>>
        /\ pc'[e] = "log" /\ result'[e] = "error" /\ unanswered' = unanswered \cup {a}
    BY <1>1, <1>2, <1>12 DEF ReceiptTimeout, Goto, Return, TypeOK
  <2> QED
    BY <1>3, <2>1 DEF Underway, Tells, chainVars
<1>13. ASSUME LogRow(e) PROVE Goal
  <2>1. /\ pc[e] = "log" /\ pc'[e] = "finish"
        /\ UNCHANGED <<taskVars, cur, result, chainVars, checked, unanswered, unlogged>>
        /\ rows'[a] = RowOf(result[e])
        /\ \A b \in Attempts \ {a} : rows'[b] = rows[b]
    BY <1>1, <1>2, <1>13 DEF LogRow, Goto, TypeOK
  <2>2. Tells(a, result[e])' /\ rows'[a] = RowOf(result'[e])
    BY <1>3, <2>1 DEF Underway, Tells, chainVars
  <2> QED
    BY <2>1, <2>2 DEF Underway, chainVars
<1>14. ASSUME LogFails(e) PROVE Goal
  <2>1. /\ pc[e] = "log" /\ pc'[e] = "finish" /\ unlogged' = unlogged \cup {a}
        /\ UNCHANGED <<taskVars, cur, result, chainVars, rows, checked, unanswered>>
    BY <1>1, <1>2, <1>14 DEF LogFails, Goto, TypeOK
  <2>2. Tells(a, result[e])'
    BY <1>3, <2>1 DEF Underway, Tells, chainVars
  <2> QED
    BY <1>3, <2>1, <2>2 DEF Underway, chainVars
<1>15. Goal
  BY <1>4, <1>5, <1>6, <1>7, <1>8, <1>9, <1>10, <1>11, <1>12, <1>13, <1>14
<1> QED
  BY <1>1, <1>2, <1>15, WithinAttempt

(* An attempt that ends, retried, for good or by a kill, is accounted for. *)
LEMMA AttemptEnds ==
    ASSUME TaskInv, TypeOK', AuditInv, NEW e \in Executors,
           Retry(e) \/ End(e) \/ Crash(e)
    PROVE  AuditInv'
<1>1. TypeOK /\ pc[e] # "idle"
  BY DEF TaskInv, Retry, End, Crash
<1>2. PICK u \in Tasks : u = cur[e]
  BY <1>1, AttemptType
<1>3. PICK k \in Tries : k = try[u] /\ Attempt(e) = <<u, k>> /\ k \in Nat
  BY <1>1, <1>2, RetryAssumption DEF TypeOK, Attempt, Tries
<1>4. Underway(<<u, k>>, e) /\ phase[u] = "running"
  BY <1>1, <1>2, <1>3 DEF AuditInv, TaskInv
<1>5. /\ \A f \in Executors : pc'[f] = "idle"
      /\ UNCHANGED <<chainVars, rows, checked, unanswered>>
      /\ unlogged \subseteq unlogged'
      /\ \A t \in Tasks \ {u} : try'[t] = try[t] /\ phase'[t] = phase[t]
  BY <1>1, <1>2, SingleExecutor
     DEF Retry, End, Crash, Release, Goto, TypeOK, logVars
<1>6. ASSUME pc[e] = "finish"
      PROVE  /\ Accounted(<<u, k>>)
             /\ RowOf(result[e]) = "failed" => MayRepeat(<<u, k>>)
  BY <1>1, <1>4, <1>6
     DEF TypeOK, Results, Underway, Tells, RowOf, Accounted, MayRepeat
<1>7. \A t \in Tasks \ {u} : phase[t] # "running"
  BY <1>1, <1>2, SingleExecutor DEF AuditInv
<1>8. CASE Retry(e)
  <2>1. /\ try'[u] = k + 1 /\ phase'[u] = "waiting" /\ pc[e] = "finish"
        /\ UNCHANGED unlogged /\ RowOf(result[e]) = "failed"
    BY <1>1, <1>2, <1>3, <1>8 DEF Retry, MayRetry, TypeOK, logVars
  <2>2. ASSUME NEW i \in Tries
        PROVE  /\ ToCome(u, i)' => Untouched(<<u, i>>)'
               /\ Over(u, i)' => Accounted(<<u, i>>)'
               /\ (i < try[u])' => MayRepeat(<<u, i>>)'
    <3>1. i \in Nat
      BY RetryAssumption DEF Tries
    <3>2. (ToCome(u, i)' => i > k) /\ (Over(u, i)' => i <= k) /\ ((i < try[u])' => i <= k)
      BY <1>3, <2>1, <3>1 DEF ToCome, Over
    <3> QED
      BY <1>3, <1>5, <1>6, <2>1, <3>1, <3>2
         DEF AuditInv, ToCome, Over, Untouched, Accounted, MayRepeat, chainVars
  <2>3. ASSUME NEW t \in Tasks \ {u}, NEW i \in Tries
        PROVE  /\ ToCome(t, i)' => Untouched(<<t, i>>)'
               /\ Over(t, i)' => Accounted(<<t, i>>)'
               /\ (i < try[t])' => MayRepeat(<<t, i>>)'
    BY <1>5, <2>1 DEF AuditInv, ToCome, Over, Untouched, Accounted, MayRepeat, chainVars
  <2> QED
    BY <1>5, <1>7, <2>1, <2>2, <2>3 DEF AuditInv
<1>9. CASE End(e) \/ Crash(e)
  <2>1. try' = try /\ phase'[u] = "ended"
    BY <1>1, <1>2, <1>9 DEF End, Crash, TypeOK
  <2>2. Accounted(<<u, k>>)'
    <3>1. CASE pc[e] = "finish"
      BY <1>5, <1>6, <3>1 DEF Accounted, chainVars
    <3>2. CASE pc[e] # "finish"
      <4>1. <<u, k>> \in unlogged'
        BY <1>3, <1>9, <3>2 DEF End, Crash
      <4> QED
        BY <1>4, <1>5, <3>2, <4>1 DEF Underway, Accounted, chainVars
    <3> QED
      BY <3>1, <3>2
  <2>3. ASSUME NEW t \in Tasks, NEW i \in Tries
        PROVE  /\ ToCome(t, i)' => Untouched(<<t, i>>)'
               /\ Over(t, i)' => Accounted(<<t, i>>)'
               /\ (i < try[t])' => MayRepeat(<<t, i>>)'
    <3>1. ToCome(t, i)' => ToCome(t, i)
      BY <1>5, <2>1 DEF ToCome
    <3>2. Over(t, i)' => Over(t, i) \/ (t = u /\ i = k)
      BY <1>3, <1>5, <2>1 DEF Over
    <3> QED
      BY <1>5, <2>1, <2>2, <3>1, <3>2
         DEF AuditInv, Untouched, Accounted, MayRepeat, chainVars
  <2> QED
    BY <1>5, <1>7, <2>1, <2>3 DEF AuditInv
<1> QED
  BY <1>8, <1>9

LedgerInv == TaskInv /\ AuditInv

LEMMA AuditNext == LedgerInv /\ [Next]_vars => LedgerInv'
<1> SUFFICES ASSUME LedgerInv, [Next]_vars PROVE LedgerInv'
  OBVIOUS
<1>1. TaskInv /\ AuditInv /\ TypeOK
  BY DEF LedgerInv, TaskInv
<1>2. TaskInv'
  BY <1>1, TaskNext
<1>3. TypeOK'
  BY <1>2 DEF TaskInv
<1>4. ASSUME NEW t \in Tasks, Submit(t) \/ CountdownOver(t) PROVE AuditInv'
  <2>1. /\ UNCHANGED <<try, execVars, chainVars, logVars>>
        /\ \A u \in Tasks :
              phase'[u] = phase[u] \/ (phase[u] = "new" /\ phase'[u] = "waiting")
    BY <1>1, <1>4 DEF Submit, CountdownOver, TypeOK
  <2>2. \A u \in Tasks, i \in Tries :
          (ToCome(u, i)' => ToCome(u, i)) /\ (Over(u, i)' => Over(u, i))
    BY <2>1 DEF ToCome, Over
  <2>3. \A e \in Executors : pc[e] # "idle" => Underway(Attempt(e), e)'
    BY <1>1, <2>1
       DEF AuditInv, Underway, Tells, Attempt, execVars, chainVars, logVars
  <2> QED
    BY <1>1, <2>1, <2>2, <2>3
       DEF AuditInv, Untouched, Accounted, MayRepeat, Attempt, execVars, chainVars,
           logVars
<1>5. ASSUME NEW e \in Executors, Take(e) PROVE AuditInv'
  <2>1. PICK t \in Tasks : t = Head(queue)
    BY <1>1, <1>5 DEF Take, TypeOK
  <2>2. InQueue(t)
    BY <1>1, <1>5, <2>1, DeliverMessage DEF Take, TaskInv, TypeOK
  <2>3. /\ phase[t] = "waiting" /\ phase' = [phase EXCEPT ![t] = "running"]
        /\ UNCHANGED <<try, chainVars, logVars>>
        /\ pc'[e] = "start" /\ cur'[e] = t
    BY <1>1, <1>5, <2>1, <2>2 DEF Take, Goto, TaskInv, TypeOK
  <2>4. PICK i \in Tries : i = try[t]
    BY <1>1 DEF TypeOK
  <2>5. Untouched(<<t, i>>)
    BY <1>1, <2>3, <2>4 DEF AuditInv, ToCome
  <2>6. Underway(Attempt(e), e)'
    BY <2>3, <2>4, <2>5 DEF Attempt, Underway, Untouched, chainVars, logVars
  <2>7. \A u \in Tasks, k \in Tries :
          (ToCome(u, k)' => ToCome(u, k)) /\ (Over(u, k)' => Over(u, k))
    BY <1>1, <2>3 DEF ToCome, Over, TypeOK
  <2>8. \A u \in Tasks \ {t} : phase'[u] # "running"
    BY <1>1, <1>5, <2>3, SingleExecutor DEF AuditInv, Take, TypeOK
  <2> QED
    BY <1>1, <2>3, <2>6, <2>7, <2>8, SingleExecutor
       DEF AuditInv, Untouched, Accounted, MayRepeat, chainVars, logVars
<1>6. ASSUME NEW a \in Attempts, NEW status \in {"ok", "reverted"},
             Mine(a, status) \/ Evict(a)
      PROVE  AuditInv'
  <2>1. /\ UNCHANGED <<taskVars, execVars, logVars>>
        /\ \A b \in Attempts : tx[b].status # "pending" => tx'[b] = tx[b]
    BY <1>1, <1>6 DEF Mine, Evict, Pending, TypeOK
  <2> QED
    BY <1>1, <2>1, ChainKeepsAudit
<1>7. ASSUME UNCHANGED vars PROVE AuditInv'
  BY <1>1, <1>7, ChainKeepsAudit DEF vars, chainVars
<1> QED
  BY <1>1, <1>2, <1>3, <1>4, <1>5, <1>6, <1>7, StepsWithin, AttemptEnds
     DEF Next, AttemptStep, AttemptFault, Chain, LedgerInv

LEMMA LedgerInvariant == Spec => []LedgerInv
<1>1. Init => LedgerInv
  BY TaskInit, AuditInit DEF LedgerInv
<1> QED
  BY <1>1, AuditNext, PTL DEF Spec

(* Each attempt is to come, over or the one an executor is in.             *)
LEMMA AttemptIsSomewhere ==
    ASSUME LedgerInv, NEW t \in Tasks, NEW i \in Tries
    PROVE  ToCome(t, i) \/ Over(t, i) \/ Busy(<<t, i>>)
<1>1. TypeOK /\ i \in Nat /\ try[t] \in Nat
  BY RetryAssumption DEF LedgerInv, TaskInv, TypeOK, Tries
<1>2. CASE i = try[t] /\ phase[t] = "running"
  BY <1>2 DEF LedgerInv, AuditInv, Busy, Attempt
<1> QED
  BY <1>1, <1>2 DEF ToCome, Over, TypeOK

LEMMA LedgerTellsTrail == LedgerInv => AuditTrail
<1> SUFFICES ASSUME LedgerInv, NEW t \in Tasks, NEW i \in Tries, NEW a, a = <<t, i>>
             PROVE  /\ rows[a] = "ok" => tx[a].status = "ok"
                    /\ rows[a] \in {"skipped", "unconfigured", "dry_run"}
                          => tx[a].status = "none"
                    /\ ~Busy(a) /\ a \notin unanswered \cup unlogged =>
                          /\ tx[a].status = "ok" => rows[a] = "ok"
                          /\ tx[a].status = "reverted" => rows[a] = "failed"
  BY DEF AuditTrail, Attempts
<1>1. CASE ToCome(t, i)
  BY <1>1 DEF LedgerInv, AuditInv, Untouched
<1>2. CASE Over(t, i)
  BY <1>2 DEF LedgerInv, AuditInv, Accounted
<1>3. CASE Busy(a)
  <2>1. PICK e \in Executors : pc[e] # "idle" /\ Attempt(e) = a
    BY <1>3 DEF Busy
  <2>2. Underway(Attempt(e), e)
    BY <2>1 DEF LedgerInv, AuditInv
  <2>3. result[e] \in Results
    BY DEF LedgerInv, TaskInv, TypeOK
  <2> QED
    BY <1>3, <2>1, <2>2, <2>3 DEF Underway, Tells, RowOf, Results
<1> QED
  BY <1>1, <1>2, <1>3, AttemptIsSomewhere

LEMMA LedgerTellsRepeats == LedgerInv => SwapRepeatedOnlyUnanswered
<1> SUFFICES ASSUME LedgerInv, NEW t \in Tasks, NEW i \in Tries, NEW j \in Tries,
                    i < j, tx[<<t, i>>].status = "ok", Made(<<t, j>>)
             PROVE  <<t, i>> \in unanswered
  BY DEF SwapRepeatedOnlyUnanswered
<1>1. i \in Nat /\ j \in Nat /\ try[t] \in Nat
  BY RetryAssumption DEF LedgerInv, TaskInv, TypeOK, Tries
<1>2. ~ToCome(t, j)
  BY DEF LedgerInv, AuditInv, Untouched, Made
<1>3. i < try[t]
  BY <1>1, <1>2 DEF ToCome
<1> QED
  BY <1>3 DEF LedgerInv, AuditInv, MayRepeat

(* execution_logs agrees with the chain: an "ok" row stands for a mined    *)
(* swap, and a mined transaction has the row that says how it ended unless *)
(* its answer, its row or its worker was lost.                             *)
THEOREM AuditTrailHolds == Spec => []AuditTrail
BY LedgerTellsTrail, LedgerInvariant, PTL

(* A task is attempted again after a swap that went through only if the    *)
(* first attempt never learnt the fate of its transaction.                 *)
THEOREM RepeatsAreUnanswered == Spec => []SwapRepeatedOnlyUnanswered
BY LedgerTellsRepeats, LedgerInvariant, PTL

(***************************************************************************)
(* One place each.                                                         *)
(*                                                                         *)
(* TaskInv has a task in one place at most, and a waiting one in some; the *)
(* running ones have their executor by AuditInv.                           *)
(***************************************************************************)

LEMMA LedgerPlacesTasks == LedgerInv => OnePlaceEach
<1> SUFFICES ASSUME LedgerInv, NEW t \in Tasks
             PROVE  IF phase[t] \in {"waiting", "running"}
                    THEN \E x \in Places(t) : Places(t) = {x}
                    ELSE Places(t) = {}
  BY DEF OnePlaceEach
<1> DEFINE Messages == {<<"message", i>> : i \in {j \in DOMAIN queue : queue[j] = t}}
           Countdowns == {<<"countdown", u>> : u \in waiting \cap {t}}
           Runs == {<<"executor", e>> :
                       e \in {f \in Executors : pc[f] # "idle" /\ cur[f] = t}}
<1>1. Places(t) = Messages \cup Countdowns \cup Runs
  BY DEF Places
<1>2. TaskInv /\ AuditInv
  BY DEF LedgerInv
<1>3. phase[t] \in {"new", "waiting", "running", "ended"}
  BY <1>2 DEF TaskInv, TypeOK
<1>4. phase[t] # "waiting" => Messages = {} /\ Countdowns = {}
  BY <1>2 DEF TaskInv, InQueue
<1>5. phase[t] # "running" => Runs = {}
  BY <1>2 DEF TaskInv
<1>6. CASE phase[t] = "running"
  <2>1. PICK e \in Executors : pc[e] # "idle" /\ cur[e] = t
    BY <1>2, <1>6 DEF AuditInv
  <2>2. Runs = {<<"executor", e>>}
    BY <2>1, SingleExecutor
  <2> QED
    BY <1>1, <1>4, <1>6, <2>2
<1>7. CASE phase[t] = "waiting" /\ InQueue(t)
  <2>1. PICK i \in DOMAIN queue : queue[i] = t
    BY <1>7 DEF InQueue
  <2>2. Messages = {<<"message", i>>}
    BY <1>2, <2>1 DEF TaskInv, OneMessage
  <2>3. Countdowns = {}
    BY <1>2, <1>7 DEF TaskInv
  <2> QED
    BY <1>1, <1>5, <1>7, <2>2, <2>3
<1>8. CASE phase[t] = "waiting" /\ ~InQueue(t)
  <2>1. t \in waiting
    BY <1>2, <1>8 DEF TaskInv
  <2>2. Countdowns = {<<"countdown", t>>} /\ Messages = {}
    BY <1>8, <2>1 DEF InQueue
  <2> QED
    BY <1>1, <1>5, <1>8, <2>2
<1> QED
  BY <1>1, <1>3, <1>4, <1>5, <1>6, <1>7, <1>8

(* An enqueued task is a message, a countdown or an attempt until it ends, *)
(* and never two of them: none is forgotten, none runs twice.              *)
THEOREM TasksHaveOnePlace == Spec => []OnePlaceEach
BY LedgerPlacesTasks, LedgerInvariant, PTL
===============================================================================
