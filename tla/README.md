# Verification of the Sentient backend

TLA+ modules of the Sentient backend (`src/`), their model-checking runs (TLC)
and the theorems proved about them (TLAPS). Paths below are relative to `src/`.

1. [The system](#1-the-system): components, state, operations, interactions
2. [Modules](#2-modules-and-how-they-correspond-to-the-code) and their correspondence to the code
3. [Runs](#3-runs): what each checks, bounds, fairness
4. [Proofs](#4-proofs)
5. [Where code and documents disagree](#5-where-code-and-documents-disagree)
6. [Not modelled](#6-not-modelled)
7. [Plan](#7-plan)

## 1. The system

The backend watches portfolio vaults on Base Sepolia and trades for their
owners. Celery beat starts three periodic tasks; a second celery worker executes
trades; a FastAPI application and a Telegram bot manage notification channels; a
subgraph on The Graph feeds an indexer.

```
 beat -> strategy.tick --(job)--> execution.enqueue --> vault contract, chain
 beat -> risk_guard.tick --(alert)--> telegram_to_wallet --> telegram_to_channel --> Telegram
 beat -> indexer.tick <-- subgraph <-- chain
 Telegram bot --HTTP--> alerts API --> user_notification_channels
       clients --HTTP--> vaults API, notification history
            tables: vaults, vault_events, execution_logs, notification_logs
            Redis:  strategy:tick:running, strategy:exec:*, risk_alert:*
```

| component | source | state it keeps | operations | correct when |
|---|---|---|---|---|
| Strategy tick | `apps/worker/tasks.py:373-468`, `libs/core/strategy.py`, `libs/chain/price_feed.py`, `libs/chain/vault_reader.py` | Redis lock and idempotency keys; rules, ages and prices read for the tick | acquire and release the lock, read rules and prices, decide, claim, enqueue | ticks exclude each other; one job per vault and action and cooldown; a standing trigger is acted on |
| Execution worker | `apps/worker/tasks.py:156-253`, `libs/chain/executor.py` | the attempt, the nonce; `execution_logs`; celery's retries | checkUpkeep, sign, send, wait for the receipt, log, retry | no two live transactions share a nonce; a swap is repeated only when its fate is unknown; the log agrees with the chain; tasks end |
| Risk guard | `tasks.py:471-555` | Redis dedupe keys | read rules and prices, claim, alert | alerts of a side are a dedupe period apart; a standing threshold is announced |
| Notification delivery | `tasks.py:28-53, 281-370` | `notification_logs` | fan out an alert, send, log | each alert once per channel, only to its owner's chats; the history is true |
| Alert channels API, Telegram bot | `apps/api/v1/routes/alerts.py`, `apps/telegram_bot/main.py` | `user_notification_channels` with connect tokens | create, confirm, delete, look up; /start, /stop | a token connects one chat; what a chat was told is so; deleted channels stay deleted |
| Indexer, subgraph mappings | `apps/indexer/main.py`, `tasks.py:565-654`, `subgraph-base-testnet/src` | `vaults`, `vault_events`; the subgraph's entities | page through the subgraph, insert, update, commit; create and extend entities | every lasting vault and event is stored; the owner converges |
| Vault queries, notification history | `apps/api/v1/routes/vaults.py`, `alerts.py:433-480` | none of its own; several statements per request | page through vaults, a vault's events, a wallet's notifications; a vault's detail | a walk misses nothing that was there; totals fit pages; a detail is about one vault |
| Alert path | `tasks.py:281-370, 471-555`, `apps/indexer/main.py:193-202` | what the parts above share: owners, the queue `celery` and its processes | raise, fan out, deliver | alerts go to owners only, one at a time; a standing threshold reaches its owner |
| CCIP config and fee | `ccip.py` | none | reads | (not modelled) |
| Wiring | `apps/worker/celery_app.py`, `apps/api/app/main.py`, `libs/core/config.py`, `libs/db` | none | schedules, queues, sessions | one process consumes the queue `execution` |

Behaviours that are hard to test, each listed with its line and the properties
that cover it under `hazards` in `PROJECT.json`:

- *Ticks overlap.* Beat starts a tick every minute whether or not the last one is
  over. The strategy tick has a lock that expires after 120 s and is deleted
  unconditionally at the end; risk guard and indexer have none.
- *Time moves between reading and acting.* Rules, prices, nonces, channels,
  pages and rows are read, then used one or more remote calls later.
- *Calls fail half-way.* A key is set before the job is enqueued; a transaction
  reaches the mempool but its answer does not come back; a message is sent but not logged.
- *Workers die.* Celery acknowledges early: a task that has begun is not run again.
- *Timeouts race answers.* Receipts after 60 s; bot requests after 10 s.
- *Pages shift.* The subgraph is cut by `skip` while it grows or is reorganised; the API's listings
  are cut by `OFFSET` while the indexer commits, and their orders have no tie-breaker.
- *Owners change.* The owner an alert is for is read at the start of a tick, and the channels of that
  owner when the alert leaves the queue.

## 2. Modules and how they correspond to the code

Every mapped definition, with its lines, is under `map` in `PROJECT.json`.
An action is one atomic piece of a handler: the code between two calls to
something shared (Redis, Postgres, the RPC, the broker). `pc`, `at`, `job` and
`req` say where a process is; what it keeps in local variables between two calls
are its other per-process variables. Mutated forms (`SetKeyWithoutNX`, ...) stand
before the definition they distort; nothing uses them but the mutation runs
listed in `PROJECT.json`.

| module | models | notes |
|---|---|---|
| `StrategyRule` | `evaluate_rule`, `VaultTokenRule`, the filter of `_iter_active_rules`, the price check of `get_chainlink_price` | pure operators, used by two modules |
| `TriggerGate` | what a scan promises of its keys (abstract) | claims a cooldown apart; a claim gives one job or none |
| `StrategyTick` | `strategy_tick` on any number of workers, Redis, owners and feeds that change | implements `TriggerGate` |
| `RetryingTask` | what a celery task with `max_retries` and early acknowledgement promises (abstract) | |
| `Executor` | `enqueue_execution`, `execute_vault_upkeep`, the account's mempool | implements `RetryingTask` |
| `TradingPipeline` | both together: a claim becomes a task, a swap resets the age that ticks read | INSTANCEs the two and shares their steps |
| `RiskGuard` | `risk_guard_tick` | implements `TriggerGate` once more, without the tick lock |
| `Notify` | `telegram_send_to_wallet`, `telegram_send_to_channel`, `_persist_notification_log`, the test route | |
| `AlertChannels` | the routes that create, confirm and delete channels, and the bot's `/start` and `/stop` | |
| `Indexer` | `indexer_tick`, the command of `indexer/main.py`, `sync_vaults`, `sync_vault_events`, the mapping handlers | |
| `IndexerPasses` | `Indexer` with a history of what happens to ids and owners while one process, whichever, makes a pass | adds no step |
| `AlertPath` | `RiskGuard` and `Notify` together, with owners that the indexer changes | INSTANCEs the two and shares their steps, their processes and their faults |
| `Listings` | `list_vaults`, `get_vault_history`, `get_vault`, `list_notification_history` | with the commits of the indexer and of the notification tasks in between |
| `MC...` | instances for TLC | |
| `...Proofs` | theorems for TLAPS | |

Choices a reader should know:

- *Time.* `StrategyTick`, `RiskGuard` and `TradingPipeline` have one action, `Clock`,
  that advances every timer at once. A Redis key is the time it has left, 0 when
  it is gone; a timestamp is its age, which stops at the cooldown because the code
  asks nothing finer. A step may take any time, since `Clock` may happen between
  any two. `Executor` needs no clock: a receipt may time out at any moment.
- *Failures.* `faults`, `troubles`, `failures` and `timeouts` count failed reads, calls
  that raise and killed processes, up to a bound, in the modules with liveness
  properties or where they only multiply states. `Executor` has no such bound: its
  attempts are bounded by `MaxRetries`.
- *Prices and rules* are compared only, so two prices, two thresholds and a stale
  or non-positive round are all the values that matter. `None` is 0 since a price or
  threshold of 0 is treated as absent by the code.
- *Executor.* An attempt is a pair of task and retry, sends at most one transaction
  and writes at most one row; so transactions and rows are functions of attempts.
  The mempool mines the account's next nonce only, drops what lost its nonce, and
  may forget a transaction (`Evict`).
- *Indexer.* A table is a function from ids to owners; other columns never change
  once inserted. Each page is one request, each entity one SELECT, each page one
  COMMIT. A row inserted by two ticks violates a unique constraint
  (`libs/db/models.py:24, 44`): the second COMMIT raises and its tick ends. The session does
  not flush before a SELECT (`libs/db/session.py`, `autoflush=False`), so nothing of a page is seen
  or blocks anybody before its COMMIT. The command `make indexer` (`Run`) makes the same passes.
  A reorganisation (`Revert`) brings back one of the last `Depth` stores of the subgraph, which are kept
  in `past`: vaults that were created and owners that were set are undone as well as events, so the
  pages of either table may shrink under a pass. A handler changes the store once, and an undone block is
  one or more handlers. Once `MaxTroubles` are over no store is kept, since none can come back.
- *Alert channels.* Ids are never reused, and a token is random and belongs to one
  row, so the id stands for the token. The API serves each request in a thread
  with its own session; a read and a commit are separate steps. The bot handles
  one update at a time (`run_polling`), and its requests are served by a thread
  that goes on when the bot gives up or is started anew (`BotRestarts`: pending updates are dropped).
- *Notify* merges the table with its own coarse copy of the channel routes
  (`Open`, `Register`, `Bind`, `Delete`), because delivery sees rows only at two
  moments: the fan-out and the second look. A deleted row keeps its data there for
  the properties; no action reads it.
- *Listings.* Each statement sees what is committed when it runs: the engine keeps Postgres' READ
  COMMITTED (`session.py:17-20`). Readers do not disturb each other, so one client is enough. Rows
  are members of a set whose fixed columns are a constant; the keys by which the routes sort
  (`id`; block and log index; `sent_at`) are numbers, equal where the order cannot tell two rows
  apart. A type filter stands for the time filters too. A sort with ties may come out otherwise for
  each statement (`IsPage`). The list of vaults always has a chain, since its default is one.
  Requests refused for a malformed parameter read nothing and are left out.
- *AlertPath.* Ticks and notification tasks have the same processes: `StartTick` needs a process
  without a task, `TakeTask` one without a tick. `alerts` of `RiskGuard`, a count there, becomes the
  alerts of `Notify` that wait; a tick begins only if there is room for the alerts it can raise, and
  an alert that is over is retired, so that alerts never run out. Rules are fixed and channels are
  telegram ones: the rest is the business of the two modules.
- *History variables* (marked "(history)" where they are declared) record the past
  for a property and are never read by a guard.

## 3. Runs

All runs take the modules as they are; a cfg gives constants their values only.

| run | instance | shows |
|---|---|---|
| `strategy_tick` | 2 workers, 1 vault, a rule that buys or is off, a feed that is low or stale, lock 2, cooldown 3, 1 fault | `OverlapNeedsOverrun`, `ClaimIsHeld`, `GateSpec`, `StandingTriggerActedOn` |
| `executor` | 2 tasks with 1 retry each, 4 nonces | `NoNonceCollision`, `AuditTrail`, `SwapRepeatedOnlyUnanswered`, `OnePlaceEach`, `TaskSpec`, `TaskEnds` |
| `executor_skipped` | 1 task with its 2 retries, expected to fail | `SkippedMeansNotNeeded` (section 5) |
| `pipeline` | 1 worker, 1 vault, 2 tasks without retry, lock 2, cooldown 3 | `OneJobAtATime`, `SpacedWhenTimely` |
| `pipeline_spacing` | 2 tasks with 1 retry, expected to fail | `SameActionSpacing` (section 5) |
| `risk_guard` | 2 workers, 1 vault, a rule with both thresholds, dedupe 2, 1 fault | `AlertGate`, `StandingAlerted` |
| `notify` | 2 alerts, 2 wallets, 2 channels, 1 chat, 2 workers, 1 fault | `AtMostOnce`, `OnlyConnectedChats`, `HistoryIsTrue`, `NoneForgotten`, `EveryChannelTried` |
| `alert_path` | 1 process, 1 vault, 2 owners, 2 alerts at once, 1 channel, 1 chat, dedupe 2, 1 fault | `OnlyOwnersAlerted`, `OneAlertAtATime`, `StandingReachesOwner` |
| `channels` | 1 wallet, 2 chats, 2 rows, 2 threads, token life 1, 1 bot timeout, 1 API failure | `ToldConnected`, `DuplicatesNeedOverlap`, `DeletedStaysDeleted` |
| `channels_stop` | 1 row, 1 thread, expected to fail | `NoneMeansError` (section 5) |
| `indexer` | 2 vaults, 2 owners, 1 event, 1 worker (whose passes are observed) and the command, pages of 1, depth 1, 1 trouble | `CleanPassIsComplete`, `PassSettlesOwners`, `EveryEntityIndexed`, `OwnerConverges` |
| `listings` | 3 vaults of 2 chains (one address on both), 3 events of which 2 tie, 1 notification, 2 owners, pages of 1, 8 queries | `WalkIsComplete`, `RepeatsNeedInserts`, `AnswerFitsTotal`, `DetailIsConsistent` |

*Why the bounds are enough.* Two workers overlap, take a third one's place by
starting again, and disagree about everything they read. Keys of different vaults, and of the two
sides of one, are independent in the code (no statement touches two of them), so `strategy_tick` has
one vault that buys; both thresholds together are in `risk_guard`, which shares the rule, and the
proofs of section 4 hold for any number of vaults and any rules. A lock of 2 and a cooldown of 3 are the smallest values
with a tick that outlives its lock while its key still holds, and
`LockTTL < Cooldown` (120 s and by default 3600 s in the code) is an assumption of the module.
One fault is a crash at any point with everything after it healthy; a second one
mostly repeats it. In `executor`, two tasks interleave through the queue and share the
nonces, and a retry sends beside an unanswered transaction; `MaxNonce` is the number
of attempts, so it never binds. In `indexer`, pages of 1 make both a full last
page and an empty one occur, and when a reorganisation undoes the first of 2 vaults the second one
moves up past the page that was read: without that proviso TLC finds both pass properties violated.
Vaults and events are paged alike, so the vaults stand for both. The inductive invariant was checked
once with depth 2 (725554 states) and with 2 troubles (2138223), and the proofs have any number of both.
In `channels`, two rows are needed for
an id that is deleted while a younger one lives, two threads for a race. The command of `indexer` need not be run at all, so what holds
beside it holds beside a second worker. In `listings`, pages of 1 put a boundary between any two
rows, which is where rows are lost or repeated; the indexer commits one row at a time (`Batch` 1),
as a page committed at once looks like its rows one by one with no read in between. In `alert_path`
two alerts are the least that can meet; on its one process ticks, fan-outs and deliveries alternate
in every order the queue allows, and ticks that overlap are the business of `risk_guard`.

*Symmetry* is used where the values are interchangeable and only safety is
checked (`pipeline`, `channels`), never with liveness.

*Deadlock* is checked in `strategy_tick`, `risk_guard`, `alert_path`, `channels`,
`channels_stop`, `indexer` and `listings`. `CHECK_DEADLOCK FALSE` stands where a finite supply of
tasks or alerts runs out: `executor*`, `pipeline*` (when all tasks have
ended and no more can be enqueued) and `notify`.

*Fairness.* Weak, but for the shared queue of `alert_path`:

- `StartTick`: beat sends a tick each period for ever (`celery_app.py:25-37`) and an idle
  worker takes it. Nobody has to run the command of `indexer`. There, `StartTick` and `TickStep` of a
  process are one fair action, as they are never enabled together.
- `alert_path`: ticks and notification tasks wait in one queue that is served in order, so that
  what waits gets its turn although the processes are busy in between: strong fairness of
  `StartTick` and of `TakeTask`.
- `TickStep`, `AttemptStep`, `Work`: a process goes on with what it has begun; every call it
  waits for has a timeout. Faults are not fair: none has to happen.
- `Settle`, `Taken`, `Take`, `CountdownOver`: the broker delivers to an idle worker, and
  retries after their countdown.
- `Clock`: time passes.
- The chain is *not* fair: `TaskEnds` holds although a transaction may never be
  mined, because waiting for the receipt times out.

*Mutants.* For each property of a passing run `PROJECT.json` names a plausible mistake
in the code (SET without NX, the latest instead of the pending nonce, a token that is not
cleared, a look for duplicates without the wallet, a page counter that is not reset)
under which TLC finds the property violated.

## 4. Proofs

The theorems hold for every set of vaults, feeds, workers, rules, rounds, tasks, alerts, wallets,
chats, channels, threads, rows, ids and questions and every bound that satisfies the assumptions of
the modules. `M` has its theorems in `MProofs`, `TradingPipeline` in `PipelineProofs`, and `Indexer`
in the last part of `ListingsProofs`, which instantiates it because what is proved of its commits is
what `Listings` takes for granted; the instance is `IndexerPasses`, which is `Indexer` and a history.

- `TimeAssumption`: `LockTTL > 0`, `LockTTL < Cooldown` (120 and 3600 by default in the code);
  `DedupeAssumption`: `Dedupe > 0` (300); `ChannelAssumption`: `TokenTTL > 0` (10 minutes);
- `RuleAssumption`, `RoundAssumption`: rules and rounds are well-formed;
- `SingleExecutor`: one process consumes `execution` (`celery_app.py:20-24`,
  `Procfile:3` `--concurrency=1`). All theorems of the executor but its types need it;
- `WalletAssumption` (`Notify`): no wallet is the mark of an alert that was not raised;
- `GuardAssumption` (`AlertPath`): rules and rounds are well-formed, as in `RiskGuard`, and there are
  finitely many alerts at once, so that those that wait can be counted;
- `IndexAssumption` (`ListingsProofs`): what `Indexer` assumes, that ids are numbers (the subgraph
  sorts by id) and a batch is not empty; `Observed`, the process whose passes the history notes, is any
  process;
- the two compositions repeat what their parts assume (`ExecutorAssumption`, `TickAssumption`,
  `NotifyAssumption`, `DedupeAssumption`), and `TradingPipeline` has finitely many tasks;
- `RowAssumption`, `VaultAssumption`, `AskedAssumption`, `PageAssumption` (`Listings`): there are
  finitely many rows, of three tables, `NoRow` is none of them and no address is the wildcard; vaults
  have distinct ids and distinct pairs of chain and address (`models.py:24-27`); pages are not empty;
- bounds of counters are natural numbers.

| theorem | states |
|---|---|
| `TypeCorrect` | `StrategyTick` keeps its types |
| `TicksExclude` | `Spec => []OverlapNeedsOverrun` |
| `ClaimsAreHeld` | `Spec => []ClaimIsHeld` |
| `TicksImplementGate` | `Spec => GateSpec`: the ticks implement `TriggerGate` |
| `ExecutorTypeCorrect` | `Executor` keeps its types |
| `NoncesDiffer` | `Spec => []NoNonceCollision` |
| `ExecutorImplementsTask` | `Spec => TaskSpec`: a task is a `RetryingTask` |
| `AuditTrailHolds` | `Spec => []AuditTrail` |
| `RepeatsAreUnanswered` | `Spec => []SwapRepeatedOnlyUnanswered` |
| `TasksHaveOnePlace` | `Spec => []OnePlaceEach` |
| `PipelineImplementsParts` | `TradingPipeline`: `Spec => Exec!Spec /\ Tick!Spec` |
| `JobsDoNotOverlap` | `Spec => []OneJobAtATime` |
| `SwapsAreSpaced` | `Spec => SpacedWhenTimely` |
| `PipelineKeepsGateAndTasks` | `Spec => Tick!GateSpec /\ Exec!TaskSpec`: the pipeline implements both abstractions |
| `PipelineKeepsPromises` | the pipeline keeps the safety invariants of tick and executor |
| `GuardTypeCorrect` | `RiskGuard` keeps its types |
| `GuardImplementsGate` | `Spec => AlertGate`: alerts implement `TriggerGate` |
| `NotifyTypeCorrect` | `Notify` keeps its types |
| `DeliveredAtMostOnce` | `Spec => []AtMostOnce` |
| `OnlyConnectedChatsReached` | `Spec => []OnlyConnectedChats` |
| `HistoryHolds` | `Spec => []HistoryIsTrue` |
| `NoneIsForgotten` | `Spec => NoneForgotten` |
| `OwnersAlone` | `AlertPath`: `Spec => []OnlyOwnersAlerted` |
| `AlertsDoNotOverlap` | `Spec => []OneAlertAtATime` |
| `PathKeepsGate` | `Spec => Guard!AlertGate`: alerts of the path implement `TriggerGate`, for any number of processes |
| `PathKeepsDelivery` | the path keeps the safety invariants of `Notify` |
| `PathForgetsNone` | `Spec => [][Note!OwedIsKept]_vars` |
| `ChannelTypeCorrect` | `AlertChannels` keeps its types |
| `DeletedStayDeleted` | `Spec => DeletedStaysDeleted` |
| `DuplicatesOverlap` | `Spec => []DuplicatesNeedOverlap` |
| `ToldStayConnected` | `Spec => []ToldConnected` |
| `ListingsTypeCorrect` | `Listings` keeps its types |
| `DetailsAreConsistent` | `Spec => []DetailIsConsistent` |
| `AnswersFitTotals` | `Spec => AnswerFitsTotal` |
| `WalksAreComplete` | `Spec => []WalkIsComplete` |
| `RepeatsAreExplained` | `Spec => []RepeatsNeedInserts` |
| `IndexerTypeCorrect` | `Indexer` keeps its types |
| `PassesAreComplete` | `SpecPasses => CleanPassIsComplete`, of `IndexerPasses` |
| `PassesSettleOwners` | `SpecPasses => PassSettlesOwners`, of `IndexerPasses` |
| `CommitsArePages` | `Spec => [][PagesOnly]_vars`: the indexer's commits are those of `Listings` |

*Ticks.* `OverlapNeedsOverrun` is not inductive: `StartTick` looks at the lock and not at other
ticks. `LockInv` adds `LeaseIsLock`: while no tick has overrun, the lock of a running tick is
the one it set, with time left. Then a free lock means nobody runs, and a claimed key has lost
no more time than the lease of its tick, which gives `ClaimIsHeld`. The refinement to
`TriggerGate` uses the types alone: a claim needs `idem[k] = 0`, which is age `Cooldown`, and
each step that touches neither keys nor claims nor jobs stutters.

*Executor.* `NoNonceCollision` needs `NonceIsFree`: the nonce an executor has read and not yet
used belongs to no live transaction. Only `Broadcast` adds a live transaction, and there is one
executor. The refinement to `RetryingTask` needs `TaskInv`: a task is in one place only, a single
message in the queue, a countdown, or an executor, and its phase follows. `OnePlaceEach` says so in
sets, and follows. `AuditTrail` and
`SwapRepeatedOnlyUnanswered` need `AuditInv`, the story of every attempt: one that is to come is
untouched, in one under way each step of the executor tells what is known of the transaction, and of
one that is over row and transaction agree or one of them is marked as lost. Only a failed attempt
whose transaction is not mined, or whose fate is unknown, is followed by another.

*Pipeline.* A step of the pipeline is a step of the ticks and a step of the executor, or leaves one of
them alone; so both parts' invariants hold of it (`PartsInv`), and `PipelineImplementsParts` is the
refinement. `SpacingInv` adds what neither part can say: the key of an unsettled job has a lock period
left (`Covered`), such a job is alone and nobody is about to enqueue another (`Alone`), a tick has read
an age that is true or will find the key taken (`Seen`), and the last swap is a cooldown ago when a
job is claimed and until it swaps (`Rested`). That the pipeline implements the two abstractions, and
keeps the other promises of its parts, follows from `PartsInv` and the steps of the parts' own proofs.

*Risk guard.* Its tick takes no lock, and the proof that it implements `TriggerGate` uses the types
alone: the key set with NX does all the work, however many ticks overlap.

*Notification delivery.* `DeliveryInv`: what is still to be sent for an alert and a channel is in one
place, the alert's task, the list of the worker that fans out, the channel's task or the worker that
sends; it moves on and is never copied. `ConnectInv`: a pair that is anywhere past the alert's task is
a telegram channel of the addressee, and a registered channel keeps its wallet. `HistoryInv`: what a
worker is about to log, and what is logged, is true of the chat, unless marked as unsure. `NoneForgotten` is about steps: an alert `Owed` to a channel is
with its task, on the list of its fan-out, with the channel's task or with the worker that sends, and
a step moves it from one to the next. It needs `ReadyInv` besides: the look for the channel by its
id finds an active telegram one with a chat whenever the row is there, so that the second look drops
nothing but deleted channels.

*Alert path.* A step is one of `Notify`, or changes nothing of it, or retires an alert that is over,
which keeps the invariants of delivery (`RetireKeepsDelivery`). `OwnersKnown` carries the owner from the
tick that read it to the alert. `OneAlertAtATime` needs `OnePerKey`: while nothing is late, a key is
alive as long as the alert it was set for, and was set for one thing, an alert or a tick about to send.
For `PathKeepsGate` the alerts that wait are counted by key: a step of the ticks is one of `RiskGuard`
(`StepOfGuard`), and a notification task that is taken, or lost with its worker, lowers one count, which
the gate allows (`LostAlertSettles`). What `Notify` promises holds because a step of the path is one of
it, and an alert that is retired owes nothing.

*Channels.* `StepKinds` sorts the steps once: five of them matter (an insert of either kind, the
check before one, the read and the write of a confirmation) and all others are `Quiet`: rows only
go or age, requests only end or begin. Over that,
- `ReadInv`: a row with a token is pending, a confirmation past its checks has read "pending" and
  its row, if it still exists, is a Telegram one, and the bot waits for the request it made;
- `DupInv`: two requests for one registration are counted in `doubled` when the second begins, and
  so is a request whose address is registered before it inserts; hence an insert that makes a
  duplicate is counted;
- `ToldInv`: two confirmations that have read one channel are in `contended`, and an uncontended
  channel somebody was told of has that chat, no token, and no confirmation that has read it. Only
  a write of a confirmation makes the bot say "connected" (`OnlyWritersTell`), and it leaves this
  state behind (`WriterSettles`).

*Listings.* `RequestInv` says what a request has read so far: nothing before its count, a total that is
the number of rows counted, and for a detail, a vault of the address asked for and only events of
it. It is kept by commits because rows are only inserted and their columns stay. `AnswersFitTotals`
then is arithmetic on `PageSize`, the number of rows that `OFFSET` and `LIMIT` leave of a set.
`WalkInv` is about places: where no two rows tie, the place of a row is the number of rows in front of
it, and a page is a range of places (`PagePlaces`). Rows that come in move others back, so a row that
was owed and not seen is never behind the walk unless one has left (`NonePassed`), and a row that was
seen is never ahead of it unless one has entered (`NoneAgain`).

*Indexer.* The same argument over ids. `IndexInv` is the types, with what a pass needs besides: the
subgraph and the stores it may go back to are finite, and a page is no longer than a batch. `PassOK`
says where an entity is that is not `late`: stored, ahead of the pages (`Ahead`), or on the page and not
written. Ahead means of a rank that the pages have not come to, or behind a page that is full, so that
the pass goes on. A rank falls only when a smaller id is undone, and what that moves up is late
(`AheadStays`). That the page before an id is full, and that an empty page has nothing behind it, is
`RanksAreFilled`: every rank up to that of an id is taken, because each set of numbers has a least
element. `PassSettlesOwners` is what one pass does for `OwnerConverges`, where an older tick may write an
older owner. `SettledPass` is `PassOK` again, for the vaults that nothing has `stirred`: such a vault has
its owner, or is ahead, or on the page with something left to do; and a page has the owner that the
subgraph still has.

Before they were proved, the inductive invariants were checked by TLC on the instances of section 3,
and `PathInv` with a second worker too.

*Only model-checked:* the liveness properties, `StandingTriggerActedOn`, `TaskEnds`, `StandingAlerted`,
`EveryChannelTried`, `StandingReachesOwner`, `EveryEntityIndexed` and `OwnerConverges`: fairness and
ENABLED are beyond the prover. What a step may do to them is proved where it says most:
`NoneForgotten` for `EveryChannelTried` and, on the path, for `StandingReachesOwner`, `TaskSpec` and
`OnePlaceEach` for `TaskEnds`, `PassSettlesOwners` for `OwnerConverges`.
Every safety property of a passing run is stated by a theorem. The types of the indexer are proved
(`IndexerTypeCorrect`) and not checked by a run of their own.

## 5. Where code and documents disagree

Shown by a run that is expected to fail:

- `executor_skipped`: a checkUpkeep call that *fails* is logged as `skipped`, without error and
  without a retry, and the task answers "checkUpkeep returned false" (`executor.py:105`,
  `tasks.py:206-216`).
- `pipeline_spacing`: `execution_cooldown_seconds` is described as the minimum time between
  same-action executions (`config.py:126`), but key and age bound claims; a job that waits in
  the queue or is retried swaps later, next to another one. `SpacedWhenTimely` says what does hold.
- `channels_stop`: `_api_call` returns None "on error" (`telegram_bot/main.py:82`), but also for
  the null body of a successful DELETE: `/stop` always answers "Failed to disconnect" after
  deleting the channel (`main.py:236`).

Seen while modelling, stated here only:

- `models.py:45` says that `get_vault_history` "always filters by (chain_id, vault_address)"; `chain`
  is optional there (`vaults.py:167, 187`). Without it the history of an address that two chains have
  mixes both, while the detail of the same address answers 409 (`vaults.py:241`).
- A client that pages by `total` alone may stop one page early when a row is committed between the
  count and its page; `WalkIsComplete` says when it does not. And where the order cannot tell two
  rows apart, a page boundary between them may show one twice and never show the other.
- An alert whose fan-out is slower than `alert_dedupe_seconds` is joined by a second one
  (`OneAlertAtATime` has the proviso).
- The repository's `README.md:159, 168` names `/api/v1/vault/{address}/history`; the prefix is
  `/vaults` (`vaults.py:17`).
- `ToldConnected` has a proviso. When the bot gives up on a slow confirmation and the user repeats
  it from another chat, two confirmations may both have read the pending row; the later commit wins.
- The branch "Idempotent" of `confirm_channel` (`alerts.py:272`) is never reached: an activated row
  has no token, so a second `/start` with the same link finds none and gets a 404.
- The bot's branch that repeats the API's reason (`main.py:152`) is never reached either: `_api_call`
  turns every HTTP error into None, so an expired token reads "Could not verify your token".
- `/stop` deletes one channel of the chat, though a chat may have several (`alerts.py:405`).
- The subgraph has no handler for `OwnershipTransferred`, which `vaults.py:23-40` lists; after a
  transfer the stored owner, and with it the addressee of alerts, is the former one. `OwnerConverges`
  is about the owner the subgraph has.
- An event undone by a reorganisation stays in `vault_events`, and a vault in `vaults`: rows are only
  inserted. And a reorganisation during a pass may move the vaults or events behind an undone one past
  it; a later tick finds them (`CleanPassIsComplete` has the proviso, `EveryEntityIndexed` does not).
- The repository's `README.md:190-196` describes idempotency keys per minute with an expiry of 90 s;
  the code has one key per vault and action with the cooldown as its expiry.

## 6. Not modelled

- `GET /channels`, `/alert` and the plain `/start` of the bot: they change no state and take one
  statement. `notify_telegram`: sends one message, has no caller and keeps nothing.
- `ccip.py`: a constant, and a single call of the router contract; `limiter.py` is a library.
- The application's wiring and the configuration: read once, at import. What matters of it is in the
  constants of the modules and in their assumptions.
- The celery broker and beat, but for what section 3 says of them: early acknowledgement, one queue
  in order, `execution` with one process, ticks that do not wait for one another.
- Payload columns of events and `eventCount` of the subgraph: data nobody decides by.
- The vault contract and checkUpkeep's own conditions: external, any answer is possible.
- Reorganisations deeper than `Depth` handlers, in the runs; the proofs have any depth.
- Migrations, seed scripts, infrastructure, CI: run by hand or before the program, no concurrency
  with it.

## 7. Plan

Done: sections 2 to 4, in this order: strategy tick, executor, pipeline, alert channels,
notification delivery, risk guard, indexer, listings, alert path; then the proofs of section 4. What
could follow, most useful first:

1. *The alert path as an instance of `Notify`*: a retired alert is a step that `Notify` does not have, so
   the path keeps its promises one by one; a `Notify` whose alerts end would make it a refinement.
2. *Owners end to end*: `AlertPath` lets an owner become any wallet at any time, which includes what
   the indexer commits; taking its commits instead would give `StandingReachesOwner` the subgraph's owner.
3. *Safety cores of the other liveness properties*, where they say more than a type: those of
   `StandingTriggerActedOn` and `EveryEntityIndexed` rest on timers and on ticks that come again.
