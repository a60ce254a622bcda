---------------------------------- MODULE Notify ----------------------------------
(***************************************************************************)
(* Delivery of alerts (apps/worker/tasks.py): the task                     *)
(* worker.notify.telegram_to_wallet looks up the active Telegram channels  *)
(* of a wallet and dispatches one worker.notify.telegram_to_channel task   *)
(* for each; that task reads its channel again, calls Telegram and writes  *)
(* a notification_logs row.  Neither task is retried.                      *)
(*                                                                         *)
(* The broker hands tasks to any idle worker in any order, so what is      *)
(* queued are sets.  Users register and delete channels meanwhile, as      *)
(* AlertChannels has it in detail; a deleted row keeps its data here, for  *)
(* the properties only.                                                    *)
(***************************************************************************)
EXTENDS Integers, Sequences

CONSTANTS
    Alerts,     \* calls of telegram_send_to_wallet and test notifications
    Wallets,    \* the owners of vaults
    Chats,      \* Telegram chats, and addresses of direct channels
    Ids,        \* the channels that may be registered
    Workers,    \* processes of the celery queue
    MaxFaults   \* bound on failed database and broker calls, and kills

ASSUME FaultAssumption == MaxFaults \in Nat

VARIABLES
    table,          \* table[i]: the row of channel i
    to,             \* to[m]: the wallet alert m was raised for
    walletTasks,    \* alerts queued for telegram_send_to_wallet
    channelTasks,   \* pairs <<m, i>> queued for telegram_send_to_channel
    job,            \* job[p]: what worker p is doing
    inbox,          \* inbox[<<m, i>>]: the chats m was sent to for channel i
    log,            \* log[<<m, i>>]: the status of the notification_logs row
    faults,         \* failures so far
    past,           \* pairs <<m, i>>, i deleted before m was raised (history)
    unsure,         \* pairs whose answer from Telegram was lost (history)
    hit             \* alerts one of whose tasks failed (history)

tableVars == <<table, to, past>>
queueVars == <<walletTasks, channelTasks>>
sendVars == <<inbox, log, unsure>>
vars == <<tableVars, queueVars, job, sendVars, faults, hit>>

Pairs == Alerts \X Ids
NoOwner == "nobody"
NotRaised == "none"
Unknown == Wallets \cup {NoOwner}
NoChat == "no_chat"

(* A wallet is an address, 0x and forty digits.                            *)
ASSUME WalletAssumption == NotRaised \notin Wallets

Row == [wallet: Unknown, kind: {"telegram", "direct"}, chat: Chats \cup {NoChat},
        status: {"absent", "pending", "active", "deleted"}]
Idle == [doing |-> "nothing"]
Dispatching == [doing: {"dispatch"}, alert: Alerts, todo: (SUBSET Ids) \ {{}}]
Sending == [doing: {"send"}, pair: Pairs, chat: Chats]
Logging == [doing: {"log"}, pair: Pairs, status: {"sent", "failed"}]

TypeOK ==
    /\ table \in [Ids -> Row]
    /\ to \in [Alerts -> Unknown \cup {NotRaised}]
    /\ walletTasks \subseteq Alerts
    /\ channelTasks \subseteq Pairs
    /\ job \in [Workers -> {Idle} \cup Dispatching \cup Sending \cup Logging]
    /\ inbox \in [Pairs -> Seq(Chats)]
    /\ log \in [Pairs -> {"none", "sent", "failed"}]
    /\ faults \in 0..MaxFaults
    /\ past \subseteq Pairs
    /\ unsure \subseteq Pairs
    /\ hit \subseteq Alerts

Init ==
    /\ table = [i \in Ids |-> [wallet |-> NoOwner, kind |-> "telegram",
                               chat |-> NoChat, status |-> "absent"]]
    /\ to = [m \in Alerts |-> NotRaised]
    /\ walletTasks = {}
    /\ channelTasks = {}
    /\ job = [p \in Workers |-> Idle]
    /\ inbox = [x \in Pairs |-> <<>>]
    /\ log = [x \in Pairs |-> "none"]
    /\ faults = 0
    /\ past = {}
    /\ unsure = {}
    /\ hit = {}

(***************************************************************************)
(* The table of channels, and the alerts.                                  *)
(***************************************************************************)

(* POST /channels, telegram and other types.                               *)
Open(i, w) ==
    /\ table[i].status = "absent"
    /\ table' = [table EXCEPT ![i].wallet = w, ![i].status = "pending"]
    /\ UNCHANGED <<to, past, queueVars, job, sendVars, faults, hit>>

Register(i, w, c) ==
    /\ table[i].status = "absent"
    /\ table' = [table EXCEPT ![i] = [wallet |-> w, kind |-> "direct", chat |-> c,
                                      status |-> "active"]]
    /\ UNCHANGED <<to, past, queueVars, job, sendVars, faults, hit>>

(* POST /channels/confirm                                                  *)
Bind(i, c) ==
    /\ table[i].status = "pending"
    /\ table' = [table EXCEPT ![i].chat = c, ![i].status = "active"]
    /\ UNCHANGED <<to, past, queueVars, job, sendVars, faults, hit>>

(* DELETE /channels/{id}                                                   *)
Delete(i) ==
    /\ table[i].status \in {"pending", "active"}
    /\ table' = [table EXCEPT ![i].status = "deleted"]
    /\ UNCHANGED <<to, past, queueVars, job, sendVars, faults, hit>>

Create(m, w) ==
    /\ to[m] = NotRaised
    /\ to' = [to EXCEPT ![m] = w]
    /\ past' = past \cup {<<m, i>> : i \in {j \in Ids : table[j].status = "deleted"}}

(* telegram_send_to_wallet.delay(vault.owner, ...): the owner may be null. *)
Raise(m, w) ==
    /\ Create(m, w)
    /\ walletTasks' = walletTasks \cup {m}
    /\ UNCHANGED <<table, channelTasks, job, sendVars, faults, hit>>

InTable(i) == table[i].status \in {"pending", "active"}
IsBound(i) == table[i].kind = "telegram" /\ table[i].chat # NoChat

(* POST /channels/{id}/test with the channel's own wallet.                 *)
Test(m, i) ==
    /\ InTable(i) /\ IsBound(i)
    /\ Create(m, table[i].wallet)
    /\ channelTasks' = channelTasks \cup {<<m, i>>}
    /\ UNCHANGED <<table, walletTasks, job, sendVars, faults, hit>>

(***************************************************************************)
(* telegram_send_to_wallet                                                 *)
(***************************************************************************)

(* Mutated forms, each named for the mistake it makes, precede the         *)
(* definitions they replace: they show which property notices.             *)
RecipientsOfAnyone(w) ==
    {i \in Ids : /\ table[i].kind = "telegram"
                 /\ table[i].chat # NoChat /\ table[i].status = "active"}

(* The SELECT: nothing matches a null owner, whose task fails.             *)
Recipients(w) ==
    {i \in Ids : /\ table[i].wallet = w /\ w # NoOwner
                 /\ table[i].kind = "telegram"
                 /\ table[i].chat # NoChat /\ table[i].status = "active"}

DispatchToNobody(m, todo) == [doing |-> "dispatch", alert |-> m, todo |-> todo]

DispatchTo(m, todo) ==
    IF todo = {} THEN Idle ELSE [doing |-> "dispatch", alert |-> m, todo |-> todo]

TakeWallet(p, m) ==
    /\ job[p] = Idle
    /\ m \in walletTasks
    /\ walletTasks' = walletTasks \ {m}
    /\ job' = [job EXCEPT ![p] = DispatchTo(m, Recipients(to[m]))]
    /\ UNCHANGED <<tableVars, channelTasks, sendVars, faults, hit>>

DispatchAgain(p, i) ==
    /\ job[p].doing = "dispatch"
    /\ i \in job[p].todo
    /\ channelTasks' = channelTasks \cup {<<job[p].alert, i>>}
    /\ job' \in {job, [job EXCEPT ![p] = DispatchTo(@.alert, @.todo \ {i})]}
    /\ UNCHANGED <<tableVars, walletTasks, sendVars, faults, hit>>

DispatchFirst(p, i) ==
    /\ job[p].doing = "dispatch"
    /\ i \in job[p].todo
    /\ channelTasks' = channelTasks \cup {<<job[p].alert, i>>}
    /\ job' = [job EXCEPT ![p] = Idle]
    /\ UNCHANGED <<tableVars, walletTasks, sendVars, faults, hit>>

(* telegram_send_to_channel.delay(channel.id, message)                     *)
Dispatch(p, i) ==
    /\ job[p].doing = "dispatch"
    /\ i \in job[p].todo
    /\ channelTasks' = channelTasks \cup {<<job[p].alert, i>>}
    /\ job' = [job EXCEPT ![p] = DispatchTo(@.alert, @.todo \ {i})]
    /\ UNCHANGED <<tableVars, walletTasks, sendVars, faults, hit>>

(***************************************************************************)
(* telegram_send_to_channel                                                *)
(***************************************************************************)

(* The channel, read again: found, of the right type, bound and active.    *)
MaySend(i) == InTable(i) /\ IsBound(i) /\ table[i].status = "active"

TakeChannel(p, x) ==
    /\ job[p] = Idle
    /\ x \in channelTasks
    /\ channelTasks' = channelTasks \ {x}
    /\ job' = IF MaySend(x[2])
              THEN [job EXCEPT ![p] = [doing |-> "send", pair |-> x,
                                       chat |-> table[x[2]].chat]]
              ELSE job
    /\ UNCHANGED <<tableVars, walletTasks, sendVars, faults, hit>>

Deliver(p) == inbox' = [inbox EXCEPT ![job[p].pair] = Append(@, job[p].chat)]
ThenLog(p, status) ==
    job' = [job EXCEPT ![p] = [doing |-> "log", pair |-> @.pair, status |-> status]]

Send(p) ==
    /\ job[p].doing = "send"
    /\ Deliver(p)
    /\ ThenLog(p, "sent")
    /\ UNCHANGED <<tableVars, queueVars, log, unsure, faults, hit>>

(* Telegram refuses the message or cannot be reached.                      *)
SendRefused(p) ==
    /\ job[p].doing = "send"
    /\ ThenLog(p, "failed")
    /\ UNCHANGED <<tableVars, queueVars, sendVars, faults, hit>>

(* The message is delivered and its answer is late or lost.                *)
AnswerLost(p) ==
    /\ job[p].doing = "send"
    /\ Deliver(p)
    /\ ThenLog(p, "failed")
    /\ unsure' = unsure \cup {job[p].pair}
    /\ UNCHANGED <<tableVars, queueVars, log, faults, hit>>

LogAlwaysSent(p) ==
    /\ job[p].doing = "log"
    /\ log' = [log EXCEPT ![job[p].pair] = "sent"]
    /\ job' = [job EXCEPT ![p] = Idle]
    /\ UNCHANGED <<tableVars, queueVars, inbox, unsure, faults, hit>>

(* _persist_notification_log                                               *)
Log(p) ==
    /\ job[p].doing = "log"
    /\ log' = [log EXCEPT ![job[p].pair] = job[p].status]
    /\ job' = [job EXCEPT ![p] = Idle]
    /\ UNCHANGED <<tableVars, queueVars, inbox, unsure, faults, hit>>

AlertOf(p) == IF job[p].doing = "dispatch" THEN job[p].alert ELSE job[p].pair[1]

(* The worker is killed, the broker refuses a dispatch or the database an  *)
(* insert: the task is not run again.                                      *)
Abort(p) ==
    /\ job[p] # Idle
    /\ faults < MaxFaults
    /\ faults' = faults + 1
    /\ hit' = hit \cup {AlertOf(p)}
    /\ job' = [job EXCEPT ![p] = Idle]
    /\ UNCHANGED <<tableVars, queueVars, sendVars>>

(* The database cannot be read: the task returns "failed" and is gone.     *)
ReadFails(m) ==
    /\ m \in walletTasks \/ \E i \in Ids : <<m, i>> \in channelTasks
    /\ faults < MaxFaults
    /\ faults' = faults + 1
    /\ hit' = hit \cup {m}
    /\ \/ /\ m \in walletTasks
          /\ walletTasks' = walletTasks \ {m} /\ UNCHANGED channelTasks
       \/ \E i \in Ids : /\ <<m, i>> \in channelTasks
                         /\ channelTasks' = channelTasks \ {<<m, i>>}
                         /\ UNCHANGED walletTasks
    /\ UNCHANGED <<tableVars, job, sendVars>>

Take(p) == \/ \E m \in Alerts : TakeWallet(p, m)
           \/ \E x \in Pairs : TakeChannel(p, x)

Work(p) ==
    \/ \E i \in Ids : Dispatch(p, i)
    \/ Send(p) \/ SendRefused(p) \/ AnswerLost(p) \/ Log(p)

Users ==
    \E i \in Ids :
        \/ Delete(i)
        \/ \E w \in Wallets : Open(i, w) \/ \E c \in Chats : Register(i, w, c)
        \/ \E c \in Chats : Bind(i, c)

Next ==
    \/ \E p \in Workers : Take(p) \/ Work(p) \/ Abort(p)
    \/ \E m \in Alerts : \/ ReadFails(m)
                         \/ \E w \in Unknown : Raise(m, w)
                         \/ \E i \in Ids : Test(m, i)
    \/ Users

Spec == Init /\ [][Next]_vars

(* A queued task is handed to an idle worker, and a worker goes on with    *)
(* what it has begun.                                                      *)
Fairness ==
    /\ WF_vars(\E p \in Workers : Take(p))
    /\ \A p \in Workers : WF_vars(Work(p))

FairSpec == Spec /\ Fairness

(***************************************************************************)
(* Properties.                                                             *)
(***************************************************************************)

(* An alert reaches the chat of a channel once at most, although tasks are *)
(* fanned out by one worker and run by others (tasks.py:365-370, 317-337). *)
AtMostOnce == \A x \in Pairs : Len(inbox[x]) <= 1

(* An alert of a wallet reaches only chats bound to a channel of that      *)
(* wallet, and no channel that was deleted before the alert was raised,    *)
(* although ids are dispatched first and looked up later                   *)
(* (tasks.py:288-303, 347-358).                                            *)
OnlyConnectedChats ==
    \A x \in Pairs : inbox[x] # <<>> =>
        /\ table[x[2]].wallet = to[x[1]]
        /\ table[x[2]].kind = "telegram"
        /\ x \notin past

Busy(x) == \E p \in Workers : job[p].doing \in {"send", "log"} /\ job[p].pair = x

(* The history shown to a user: a row "sent" stands for a delivered        *)
(* message, a row "failed" for none unless Telegram's answer was lost, and *)
(* a delivered message has its row "sent" once its task is over, unless a  *)
(* task of the alert failed (tasks.py:28-53, 317-337).                     *)
HistoryIsTrue ==
    \A x \in Pairs :
        /\ log[x] = "sent" => inbox[x] # <<>>
        /\ log[x] = "failed" /\ x \notin unsure => inbox[x] = <<>>
        /\ inbox[x] # <<>> /\ ~Busy(x) /\ x \notin unsure /\ x[1] \notin hit
              => log[x] = "sent"

(* Channel x[2] is still to be sent alert x[1].                            *)
Owed(x) ==
    \/ x[1] \in walletTasks /\ x[2] \in Recipients(to[x[1]])
    \/ \E p \in Workers : job[p].doing = "dispatch" /\ job[p].alert = x[1]
                              /\ x[2] \in job[p].todo
    \/ x \in channelTasks
    \/ Busy(x)

OwedIsKept ==
    \A x \in Pairs :
        Owed(x) => Owed(x)' \/ log'[x] # "none" \/ ~InTable(x[2])' \/ x[1] \in hit'

(* What is owed to a channel stays owed, on its way through two queues and *)
(* two workers, until its row tells how it went, unless the channel is     *)
(* deleted or a task of the alert fails: the selection, the loop and the   *)
(* second look at the channel drop none (tasks.py:288-310, 347-370).       *)
NoneForgotten == [][OwedIsKept]_vars

(* Every channel that is active when an alert is raised is tried, unless   *)
(* it is deleted first or a task of the alert fails: the fan-out forgets   *)
(* none (tasks.py:362-370).                                                *)
EveryChannelTried ==
    \A m \in Alerts, i \in Ids :
        m \in walletTasks /\ i \in Recipients(to[m])
            ~> log[<<m, i>>] # "none" \/ ~InTable(i) \/ m \in hit
===================================================================================
