----------------------------- MODULE NotifyProofs -----------------------------
(***************************************************************************)
(* Proofs about Notify for every set of alerts, wallets, chats, channels   *)
(* and workers and every number of faults.                                 *)
(***************************************************************************)
EXTENDS Notify, TLAPS

Jobs == {Idle} \cup Dispatching \cup Sending \cup Logging
Doing == {"nothing", "dispatch", "send", "log"}

(***************************************************************************)
(* Type correctness.                                                       *)
(***************************************************************************)

LEMMA NotifyTypeInit == Init => TypeOK
BY FaultAssumption DEF Init, TypeOK, Row, Unknown, Pairs

(* What a worker holds, by what it is doing.                               *)
LEMMA JobParts ==
    ASSUME TypeOK, NEW p \in Workers
    PROVE  /\ job[p].doing \in Doing
           /\ job[p].doing = "nothing" <=> job[p] = Idle
           /\ job[p].doing = "dispatch" =>
                 job[p].alert \in Alerts /\ job[p].todo \subseteq Ids
           /\ job[p].doing = "send" => job[p].pair \in Pairs /\ job[p].chat \in Chats
           /\ job[p].doing = "log" =>
                 job[p].pair \in Pairs /\ job[p].status \in {"sent", "failed"}
<1>1. job[p] \in Jobs
  BY DEF TypeOK, Jobs
<1> QED
  BY <1>1 DEF Jobs, Doing, Idle, Dispatching, Sending, Logging

LEMMA DispatchToType ==
    ASSUME NEW m \in Alerts, NEW todo \in SUBSET Ids
    PROVE  DispatchTo(m, todo) \in Jobs
BY DEF DispatchTo, Jobs, Dispatching

(* A channel that may be sent to has a chat.                               *)
LEMMA ActiveHasChat ==
    ASSUME TypeOK, NEW i \in Ids, MaySend(i)
    PROVE  table[i].chat \in Chats
BY DEF TypeOK, Row, MaySend, IsBound

LEMMA NotifyTypeNext == TypeOK /\ [Next]_vars => TypeOK'
<1> SUFFICES ASSUME TypeOK, [Next]_vars PROVE TypeOK'
  OBVIOUS
<1> USE DEF tableVars, queueVars, sendVars
<1>1. ASSUME NEW i \in Ids, NEW w \in Wallets, Open(i, w) PROVE TypeOK'
  <2>1. table' \in [Ids -> Row]
    BY <1>1 DEF Open, TypeOK, Row, Unknown
  <2> QED
    BY <1>1, <2>1 DEF Open, TypeOK
<1>2. ASSUME NEW i \in Ids, NEW w \in Wallets, NEW c \in Chats, Register(i, w, c)
      PROVE  TypeOK'
  <2>1. table' \in [Ids -> Row]
    BY <1>2 DEF Register, TypeOK, Row, Unknown
  <2> QED
    BY <1>2, <2>1 DEF Register, TypeOK
<1>3. ASSUME NEW i \in Ids, NEW c \in Chats, Bind(i, c) PROVE TypeOK'
  <2>1. table' \in [Ids -> Row]
    BY <1>3 DEF Bind, TypeOK, Row
  <2> QED
    BY <1>3, <2>1 DEF Bind, TypeOK
<1>4. ASSUME NEW i \in Ids, Delete(i) PROVE TypeOK'
  <2>1. table' \in [Ids -> Row]
    BY <1>4 DEF Delete, TypeOK, Row
  <2> QED
    BY <1>4, <2>1 DEF Delete, TypeOK
<1>5. ASSUME NEW m \in Alerts, NEW w \in Unknown, Create(m, w)
      PROVE  to' \in [Alerts -> Unknown \cup {NotRaised}] /\ past' \subseteq Pairs
  BY <1>5 DEF Create, TypeOK, Pairs
<1>6. ASSUME NEW m \in Alerts, NEW w \in Unknown, Raise(m, w) PROVE TypeOK'
  BY <1>5, <1>6 DEF Raise, TypeOK
<1>7. ASSUME NEW m \in Alerts, NEW i \in Ids, Test(m, i) PROVE TypeOK'
  <2>1. table[i].wallet \in Unknown
    BY DEF TypeOK, Row
  <2> QED
    BY <1>5, <1>7, <2>1 DEF Test, TypeOK, Pairs
<1>8. ASSUME NEW p \in Workers, NEW m \in Alerts, TakeWallet(p, m) PROVE TypeOK'
  <2>1. DispatchTo(m, Recipients(to[m])) \in Jobs
    BY DispatchToType DEF Recipients
  <2> QED
    BY <1>8, <2>1 DEF TakeWallet, TypeOK, Jobs
<1>9. ASSUME NEW p \in Workers, NEW x \in Pairs, TakeChannel(p, x) PROVE TypeOK'
  <2>1. MaySend(x[2]) =>
          [doing |-> "send", pair |-> x, chat |-> table[x[2]].chat] \in Jobs
    BY ActiveHasChat DEF Jobs, Sending, Pairs
  <2> QED
    BY <1>9, <2>1 DEF TakeChannel, TypeOK, Jobs
<1>10. ASSUME NEW p \in Workers, NEW i \in Ids, Dispatch(p, i) PROVE TypeOK'
  <2>1. job[p].alert \in Alerts /\ job[p].todo \subseteq Ids
    BY <1>10, JobParts DEF Dispatch
  <2>2. DispatchTo(job[p].alert, job[p].todo \ {i}) \in Jobs
    BY <2>1, DispatchToType
  <2> QED
    BY <1>10, <2>1, <2>2 DEF Dispatch, TypeOK, Jobs, Pairs
<1>11. ASSUME NEW p \in Workers, job[p].doing = "send", Deliver(p)
       PROVE  inbox' \in [Pairs -> Seq(Chats)]
  BY <1>11, JobParts DEF Deliver, TypeOK
<1>12. ASSUME NEW p \in Workers, job[p].doing = "send",
              NEW status \in {"sent", "failed"}, ThenLog(p, status)
       PROVE  job' \in [Workers -> Jobs]
  <2>1. [doing |-> "log", pair |-> job[p].pair, status |-> status] \in Jobs
    BY <1>12, JobParts DEF Jobs, Logging
  <2> QED
    BY <1>12, <2>1 DEF ThenLog, TypeOK, Jobs
<1>13. ASSUME NEW p \in Workers, Send(p) \/ SendRefused(p) \/ AnswerLost(p)
       PROVE  TypeOK'
  <2>1. job[p].pair \in Pairs
    BY <1>13, JobParts DEF Send, SendRefused, AnswerLost
  <2> QED
    BY <1>11, <1>12, <1>13, <2>1 DEF Send, SendRefused, AnswerLost, TypeOK, Jobs
<1>14. ASSUME NEW p \in Workers, Log(p) PROVE TypeOK'
  BY <1>14, JobParts DEF Log, TypeOK
<1>15. ASSUME NEW p \in Workers, Abort(p) PROVE TypeOK'
  <2>1. AlertOf(p) \in Alerts
    BY <1>15, JobParts DEF Abort, AlertOf, Doing, Pairs
  <2> QED
    BY <1>15, <2>1, FaultAssumption DEF Abort, TypeOK
<1>16. ASSUME NEW m \in Alerts, ReadFails(m) PROVE TypeOK'
  <2>1. /\ walletTasks' \subseteq walletTasks /\ channelTasks' \subseteq channelTasks
        /\ faults' = faults + 1 /\ faults < MaxFaults /\ hit' = hit \cup {m}
        /\ UNCHANGED <<tableVars, job, sendVars>>
    BY <1>16 DEF ReadFails
  <2> QED
    BY <2>1, FaultAssumption DEF TypeOK
<1>17. CASE UNCHANGED vars
  BY <1>17 DEF vars, TypeOK
<1> QED
  BY <1>1, <1>2, <1>3, <1>4, <1>6, <1>7, <1>8, <1>9, <1>10, <1>13, <1>14, <1>15,
     <1>16, <1>17 DEF Next, Take, Work, Users

(* Every variable keeps its type in every behaviour of the delivery.       *)
THEOREM NotifyTypeCorrect == Spec => []TypeOK
BY NotifyTypeInit, NotifyTypeNext, PTL DEF Spec

(***************************************************************************)
(* At most once.                                                           *)
(*                                                                         *)
(* What is still to be sent for a pair of alert and channel is in one      *)
(* place: the alert's own task, the list of a worker that dispatches, the  *)
(* channel's task or the worker that sends.  It moves from one to the next *)
(* and is never copied, and nothing was sent while it is in one of them.   *)
(***************************************************************************)

Handles(p, x) ==
    \/ job[p].doing = "dispatch" /\ x[1] = job[p].alert /\ x[2] \in job[p].todo
    \/ job[p].doing \in {"send", "log"} /\ job[p].pair = x

Queued(x) == x[1] \in walletTasks \/ x \in channelTasks

OnePlace(x) ==
    /\ x[1] \in walletTasks => x \notin channelTasks
    /\ \A p \in Workers : Handles(p, x) =>
          ~Queued(x) /\ \A q \in Workers : Handles(q, x) => p = q

(* Nothing of x was sent or logged.                                        *)
Clean(x) == inbox[x] = <<>> /\ log[x] = "none"

(* Pair x is in one place and was sent once at most.                       *)
Tracked(x) ==
    /\ OnePlace(x)
    /\ Queued(x) => Clean(x)
    /\ \A p \in Workers : Handles(p, x) =>
          /\ log[x] = "none"
          /\ job[p].doing # "log" => inbox[x] = <<>>
    /\ to[x[1]] = NotRaised =>
          Clean(x) /\ ~Queued(x) /\ \A p \in Workers : ~Handles(p, x)
    /\ Len(inbox[x]) <= 1

DeliveryInv == \A x \in Pairs : Tracked(x)

LEMMA DeliveryInit == Init => DeliveryInv
BY DEF Init, DeliveryInv, Tracked, OnePlace, Clean, Handles, Queued, Idle

(* A job that changes on one worker only.                                  *)
LEMMA OtherWorkers ==
    ASSUME TypeOK, NEW p \in Workers, NEW new, job' = [job EXCEPT ![p] = new]
    PROVE  /\ job'[p] = new
           /\ \A q \in Workers \ {p} : job'[q] = job[q]
           /\ \A q \in Workers \ {p}, x \in Pairs : Handles(q, x)' <=> Handles(q, x)
BY DEF TypeOK, Handles

LEMMA DeliveryNext == TypeOK /\ DeliveryInv /\ [Next]_vars => DeliveryInv'
<1> SUFFICES ASSUME TypeOK, DeliveryInv, [Next]_vars, NEW x \in Pairs
             PROVE  Tracked(x)'
  BY DEF DeliveryInv
<1> DEFINE Goal == Tracked(x)'
<1> USE DEF queueVars, sendVars
<1>1. Tracked(x) /\ x[1] \in Alerts /\ x[2] \in Ids /\ x = <<x[1], x[2]>>
  BY DEF DeliveryInv, Pairs
<1>2. ASSUME UNCHANGED <<to, job, sendVars>>,
             walletTasks' \subseteq walletTasks, channelTasks' \subseteq channelTasks
      PROVE  Goal
  BY <1>1, <1>2 DEF Tracked, OnePlace, Clean, Queued, Handles
<1>3. ASSUME Users PROVE Goal
  BY <1>2, <1>3 DEF Users, Open, Register, Bind, Delete
<1>4. ASSUME NEW m \in Alerts, NEW w \in Unknown, Create(m, w)
      PROVE  /\ to[m] = NotRaised /\ to'[m] # NotRaised
             /\ \A n \in Alerts \ {m} : to'[n] = to[n]
  BY <1>4, WalletAssumption DEF Create, TypeOK, Unknown, NotRaised, NoOwner
<1>5. ASSUME NEW m \in Alerts, NEW w \in Unknown, Raise(m, w) PROVE Goal
  <2>1. walletTasks' = walletTasks \cup {m} /\ UNCHANGED <<channelTasks, job, sendVars>>
    BY <1>5 DEF Raise
  <2>2. to[m] = NotRaised /\ to'[m] # NotRaised /\ \A n \in Alerts \ {m} : to'[n] = to[n]
    BY <1>4, <1>5 DEF Raise
  <2> QED
    BY <1>1, <2>1, <2>2 DEF Tracked, OnePlace, Clean, Queued, Handles
<1>6. ASSUME NEW m \in Alerts, NEW i \in Ids, Test(m, i) PROVE Goal
  <2>1. /\ channelTasks' = channelTasks \cup {<<m, i>>}
        /\ UNCHANGED <<walletTasks, job, sendVars>>
    BY <1>6 DEF Test
  <2>2. to[m] = NotRaised /\ to'[m] # NotRaised /\ \A n \in Alerts \ {m} : to'[n] = to[n]
    BY <1>4, <1>6 DEF Test, TypeOK, Row
  <2> QED
    BY <1>1, <2>1, <2>2 DEF Tracked, OnePlace, Clean, Queued, Handles
<1>7. ASSUME NEW p \in Workers, NEW m \in Alerts, TakeWallet(p, m) PROVE Goal
  <2>1. /\ m \in walletTasks /\ walletTasks' = walletTasks \ {m}
        /\ job[p] = Idle /\ job' = [job EXCEPT ![p] = DispatchTo(m, Recipients(to[m]))]
        /\ UNCHANGED <<to, channelTasks, sendVars>>
    BY <1>7 DEF TakeWallet, tableVars
  <2>2. /\ \A q \in Workers \ {p} : job'[q] = job[q] /\ (Handles(q, x)' <=> Handles(q, x))
        /\ ~Handles(p, x)
        /\ Handles(p, x)' => x[1] = m
    BY <2>1, OtherWorkers DEF Handles, DispatchTo, Idle
  <2> QED
    BY <1>1, <2>1, <2>2 DEF Tracked, OnePlace, Clean, Queued
<1>8. ASSUME NEW p \in Workers, NEW y \in Pairs, TakeChannel(p, y) PROVE Goal
  <2>1. /\ y \in channelTasks /\ channelTasks' = channelTasks \ {y} /\ job[p] = Idle
        /\ UNCHANGED <<to, walletTasks, sendVars>>
    BY <1>8 DEF TakeChannel, tableVars
  <2>2. /\ \A q \in Workers \ {p} : job'[q] = job[q] /\ (Handles(q, x)' <=> Handles(q, x))
        /\ ~Handles(p, x)
        /\ Handles(p, x)' => x = y
    BY <1>8, <2>1, OtherWorkers DEF TakeChannel, Handles, Idle
  <2> QED
    BY <1>1, <2>1, <2>2 DEF Tracked, OnePlace, Clean, Queued
<1>9. ASSUME NEW p \in Workers, NEW i \in Ids, Dispatch(p, i) PROVE Goal
  <2> DEFINE y == <<job[p].alert, i>>
  <2>1. /\ job[p].doing = "dispatch" /\ i \in job[p].todo
        /\ channelTasks' = channelTasks \cup {y}
        /\ job' = [job EXCEPT ![p] = DispatchTo(job[p].alert, job[p].todo \ {i})]
        /\ UNCHANGED <<to, walletTasks, sendVars>>
    BY <1>9 DEF Dispatch, TypeOK, tableVars
  <2>2. /\ \A q \in Workers \ {p} : job'[q] = job[q] /\ (Handles(q, x)' <=> Handles(q, x))
        /\ Handles(p, y)
        /\ Handles(p, x)' <=> Handles(p, x) /\ x # y
        /\ job[p].doing # "log"
    BY <1>1, <2>1, OtherWorkers DEF Handles, DispatchTo, Idle
  <2> QED
    BY <1>1, <2>1, <2>2 DEF Tracked, OnePlace, Clean, Queued
<1>10. ASSUME NEW p \in Workers, Send(p) \/ SendRefused(p) \/ AnswerLost(p) PROVE Goal
  <2>1. PICK status \in {"sent", "failed"} : ThenLog(p, status)
    BY <1>10 DEF Send, SendRefused, AnswerLost
  <2>2. /\ job[p].doing = "send"
        /\ Deliver(p) \/ inbox' = inbox
        /\ job' = [job EXCEPT ![p] = [doing |-> "log", pair |-> job[p].pair,
                                      status |-> status]]
        /\ UNCHANGED <<to, walletTasks, channelTasks, log>>
    BY <1>10, <2>1 DEF Send, SendRefused, AnswerLost, ThenLog, TypeOK, tableVars
  <2>3. /\ job'[p] = [doing |-> "log", pair |-> job[p].pair, status |-> status]
        /\ \A q \in Workers \ {p} : job'[q] = job[q] /\ (Handles(q, x)' <=> Handles(q, x))
    BY <2>2, OtherWorkers
  <2>4. /\ job'[p].doing = "log"
        /\ Handles(p, x) <=> job[p].pair = x
        /\ Handles(p, x)' <=> Handles(p, x)
    BY <2>2, <2>3 DEF Handles
  <2>5. \/ inbox'[x] = inbox[x]
        \/ Handles(p, x) /\ inbox'[x] = Append(inbox[x], job[p].chat)
    BY <2>2, <2>4 DEF Deliver, TypeOK
  <2>6. Handles(p, x) => inbox[x] = <<>>
    BY <1>1, <2>2 DEF Tracked
  <2>7. Len(inbox'[x]) <= 1
    BY <1>1, <2>5, <2>6 DEF Tracked
  <2> QED
    BY <1>1, <2>2, <2>3, <2>4, <2>5, <2>7 DEF Tracked, OnePlace, Clean, Queued
<1>11. ASSUME NEW p \in Workers, Log(p) PROVE Goal
  <2>1. /\ job[p].doing = "log" /\ job' = [job EXCEPT ![p] = Idle]
        /\ log' = [log EXCEPT ![job[p].pair] = job[p].status]
        /\ UNCHANGED <<to, walletTasks, channelTasks, inbox>>
    BY <1>11 DEF Log, tableVars
  <2>2. /\ job'[p] = Idle
        /\ \A q \in Workers \ {p} : job'[q] = job[q] /\ (Handles(q, x)' <=> Handles(q, x))
    BY <2>1, OtherWorkers
  <2>3. ~Handles(p, x)' /\ (Handles(p, x) <=> job[p].pair = x)
    BY <2>1, <2>2 DEF Handles, Idle
  <2>4. Handles(p, x) \/ log'[x] = log[x]
    BY <2>1, <2>3 DEF TypeOK
  <2> QED
    BY <1>1, <2>1, <2>2, <2>3, <2>4 DEF Tracked, OnePlace, Clean, Queued
<1>12. ASSUME NEW p \in Workers, Abort(p) PROVE Goal
  <2>1. job' = [job EXCEPT ![p] = Idle] /\ UNCHANGED <<to, queueVars, sendVars>>
    BY <1>12 DEF Abort, tableVars
  <2>2. /\ job'[p] = Idle
        /\ \A q \in Workers \ {p} : job'[q] = job[q] /\ (Handles(q, x)' <=> Handles(q, x))
    BY <2>1, OtherWorkers
  <2>3. ~Handles(p, x)'
    BY <2>2 DEF Handles, Idle
  <2> QED
    BY <1>1, <2>1, <2>2, <2>3 DEF Tracked, OnePlace, Clean, Queued
<1>13. ASSUME NEW m \in Alerts, ReadFails(m) PROVE Goal
  BY <1>2, <1>13 DEF ReadFails, tableVars
<1>14. ASSUME UNCHANGED vars PROVE Goal
  BY <1>2, <1>14 DEF vars, tableVars
<1> QED
  BY <1>3, <1>5, <1>6, <1>7, <1>8, <1>9, <1>10, <1>11, <1>12, <1>13, <1>14
     DEF Next, Take, Work

(* An alert reaches the chat of a channel once at most, whatever worker    *)
(* dispatches it and whatever worker sends it.                             *)
THEOREM DeliveredAtMostOnce == Spec => []AtMostOnce
<1>1. DeliveryInv => AtMostOnce
  BY DEF DeliveryInv, Tracked, AtMostOnce
<1> QED
  BY <1>1, NotifyTypeInit, NotifyTypeNext, DeliveryInit, DeliveryNext, PTL DEF Spec

(***************************************************************************)
(* Only connected chats.                                                   *)
(*                                                                         *)
(* A channel is chosen when the alert's task runs and used when its own    *)
(* does.  Between the two its row may be deleted, and never changes owner  *)
(* or type; and a row deleted before the alert was raised is never chosen. *)
(***************************************************************************)

Begun(x) ==
    inbox[x] # <<>> \/ x \in channelTasks \/ \E p \in Workers : Handles(p, x)

Entitled(x) ==
    /\ table[x[2]].wallet = to[x[1]]
    /\ table[x[2]].kind = "telegram"
    /\ table[x[2]].status # "absent"
    /\ x \notin past

ConnectInv ==
    \A x \in Pairs :
        /\ Begun(x) => Entitled(x)
        /\ x \in past => table[x[2]].status = "deleted"

LEMMA ConnectInit == Init => ConnectInv
BY DEF Init, ConnectInv, Begun, Handles, Idle

(* What users may do to a registered channel.                              *)
LEMMA UsersKeepOwner ==
    ASSUME TypeOK, Users, NEW i \in Ids, table[i].status # "absent"
    PROVE  /\ table'[i].wallet = table[i].wallet /\ table'[i].kind = table[i].kind
           /\ table'[i].status # "absent"
           /\ table[i].status = "deleted" => table'[i].status = "deleted"
<1>1. CASE \E j \in Ids, w \in Wallets : Open(j, w)
  BY <1>1 DEF Open, TypeOK
<1>2. CASE \E j \in Ids, w \in Wallets, c \in Chats : Register(j, w, c)
  BY <1>2 DEF Register, TypeOK
<1>3. CASE \E j \in Ids, c \in Chats : Bind(j, c)
  BY <1>3 DEF Bind, TypeOK, Row
<1>4. CASE \E j \in Ids : Delete(j)
  BY <1>4 DEF Delete, TypeOK, Row
<1> QED
  BY <1>1, <1>2, <1>3, <1>4 DEF Users

LEMMA ConnectNext ==
    TypeOK /\ DeliveryInv /\ ConnectInv /\ [Next]_vars => ConnectInv'
<1> SUFFICES ASSUME TypeOK, DeliveryInv, ConnectInv, [Next]_vars, NEW x \in Pairs
             PROVE  /\ Begun(x)' => Entitled(x)'
                    /\ x \in past' => table'[x[2]].status = "deleted"
  BY DEF ConnectInv
<1> DEFINE Goal == /\ Begun(x)' => Entitled(x)'
                   /\ x \in past' => table'[x[2]].status = "deleted"
<1> USE DEF tableVars, queueVars, sendVars
<1>1. /\ Tracked(x)
      /\ Begun(x) => Entitled(x)
      /\ x \in past => table[x[2]].status = "deleted"
      /\ x[1] \in Alerts /\ x[2] \in Ids /\ x = <<x[1], x[2]>>
  BY DEF DeliveryInv, ConnectInv, Pairs
<1>2. ASSUME UNCHANGED tableVars, Begun(x)' => Begun(x) PROVE Goal
  BY <1>1, <1>2 DEF Entitled
<1>3. ASSUME Users PROVE Goal
  <2>1. UNCHANGED <<to, past, queueVars, job, sendVars>>
    BY <1>3 DEF Users, Open, Register, Bind, Delete
  <2>2. Begun(x)' <=> Begun(x)
    BY <2>1 DEF Begun, Handles
  <2> QED
    BY <1>1, <1>3, <2>1, <2>2, UsersKeepOwner DEF Entitled
<1>4. ASSUME NEW m \in Alerts, NEW w \in Unknown, Create(m, w)
      PROVE  /\ to[m] = NotRaised /\ to'[m] = w
             /\ \A n \in Alerts \ {m} : to'[n] = to[n]
             /\ x[1] # m => (x \in past' <=> x \in past)
             /\ x[1] = m /\ x \in past' => x \in past \/ table[x[2]].status = "deleted"
  BY <1>1, <1>4 DEF Create, TypeOK
<1>5. ASSUME NEW m \in Alerts, NEW w \in Unknown, Raise(m, w) PROVE Goal
  <2>1. Create(m, w) /\ UNCHANGED <<table, channelTasks, job, inbox>>
    BY <1>5 DEF Raise
  <2>2. Begun(x)' <=> Begun(x)
    BY <2>1 DEF Begun, Handles
  <2>3. x[1] = m => ~Begun(x)
    BY <1>1, <1>4, <2>1 DEF Tracked, Clean, Begun, Queued
  <2> QED
    BY <1>1, <1>4, <2>1, <2>2, <2>3 DEF Entitled
<1>6. ASSUME NEW m \in Alerts, NEW i \in Ids, Test(m, i) PROVE Goal
  <2>1. /\ Create(m, table[i].wallet) /\ table[i].wallet \in Unknown
        /\ table[i].status \in {"pending", "active"} /\ table[i].kind = "telegram"
        /\ channelTasks' = channelTasks \cup {<<m, i>>}
        /\ UNCHANGED <<table, job, inbox>>
    BY <1>6 DEF Test, InTable, IsBound, TypeOK, Row
  <2>2. Begun(x)' => Begun(x) \/ x = <<m, i>>
    BY <2>1 DEF Begun, Handles
  <2>3. x[1] = m => ~Begun(x)
    BY <1>1, <1>4, <2>1 DEF Tracked, Clean, Begun, Queued
  <2>4. CASE x = <<m, i>>
    BY <1>1, <1>4, <2>1, <2>4 DEF Entitled
  <2>5. CASE x # <<m, i>>
    BY <1>1, <1>4, <2>1, <2>2, <2>3, <2>5 DEF Entitled
  <2> QED
    BY <2>4, <2>5
<1>7. ASSUME NEW p \in Workers, NEW m \in Alerts, TakeWallet(p, m) PROVE Goal
  <2>1. /\ job' = [job EXCEPT ![p] = DispatchTo(m, Recipients(to[m]))]
        /\ UNCHANGED <<tableVars, channelTasks, inbox>>
    BY <1>7 DEF TakeWallet
  <2>2. /\ job'[p] = DispatchTo(m, Recipients(to[m]))
        /\ \A q \in Workers \ {p} : Handles(q, x)' <=> Handles(q, x)
    BY <2>1, OtherWorkers
  <2>3. Handles(p, x)' => x[1] = m /\ x[2] \in Recipients(to[m])
    BY <2>2 DEF Handles, DispatchTo, Idle
  <2>4. Handles(p, x)' => Entitled(x)
    BY <1>1, <2>3 DEF Recipients, Entitled
  <2> QED
    BY <1>1, <2>1, <2>2, <2>4 DEF Begun, Entitled
<1>8. ASSUME NEW p \in Workers, NEW y \in Pairs, TakeChannel(p, y) PROVE Goal
  <2>1. /\ y \in channelTasks /\ channelTasks' \subseteq channelTasks /\ job[p] = Idle
        /\ UNCHANGED <<tableVars, inbox>>
    BY <1>8 DEF TakeChannel
  <2>2. /\ \A q \in Workers \ {p} : Handles(q, x)' <=> Handles(q, x)
        /\ Handles(p, x)' => x = y
    BY <1>8, <2>1, OtherWorkers DEF TakeChannel, Handles, Idle
  <2>3. Begun(x)' => Begun(x)
    BY <2>1, <2>2 DEF Begun
  <2> QED
    BY <1>2, <2>1, <2>3
<1>9. ASSUME NEW p \in Workers, NEW i \in Ids, Dispatch(p, i) PROVE Goal
  <2> DEFINE y == <<job[p].alert, i>>
  <2>1. /\ job[p].doing = "dispatch" /\ i \in job[p].todo
        /\ channelTasks' = channelTasks \cup {y}
        /\ job' = [job EXCEPT ![p] = DispatchTo(job[p].alert, job[p].todo \ {i})]
        /\ UNCHANGED <<tableVars, inbox>>
    BY <1>9 DEF Dispatch, TypeOK
  <2>2. /\ job'[p] = DispatchTo(job[p].alert, job[p].todo \ {i})
        /\ \A q \in Workers \ {p} : Handles(q, x)' <=> Handles(q, x)
    BY <2>1, OtherWorkers
  <2>3. (Handles(p, x)' => Handles(p, x)) /\ Handles(p, y)
    BY <2>1, <2>2 DEF Handles, DispatchTo, Idle
  <2>4. Begun(x)' => Begun(x)
    BY <2>1, <2>2, <2>3 DEF Begun
  <2> QED
    BY <1>2, <2>1, <2>4
<1>10. ASSUME NEW p \in Workers, Send(p) \/ SendRefused(p) \/ AnswerLost(p) PROVE Goal
  <2>1. PICK status \in {"sent", "failed"} : ThenLog(p, status)
    BY <1>10 DEF Send, SendRefused, AnswerLost
  <2>2. /\ job[p].doing = "send"
        /\ Deliver(p) \/ inbox' = inbox
        /\ job' = [job EXCEPT ![p] = [doing |-> "log", pair |-> job[p].pair,
                                      status |-> status]]
        /\ UNCHANGED <<tableVars, queueVars>>
    BY <1>10, <2>1 DEF Send, SendRefused, AnswerLost, ThenLog, TypeOK
  <2>3. /\ job'[p] = [doing |-> "log", pair |-> job[p].pair, status |-> status]
        /\ \A q \in Workers \ {p} : Handles(q, x)' <=> Handles(q, x)
    BY <2>2, OtherWorkers
  <2>4. /\ Handles(p, x) <=> job[p].pair = x
        /\ Handles(p, x)' <=> Handles(p, x)
    BY <2>2, <2>3 DEF Handles
  <2>5. inbox'[x] = inbox[x] \/ Handles(p, x)
    BY <2>2, <2>4 DEF Deliver, TypeOK
  <2>6. Begun(x)' => Begun(x)
    BY <2>2, <2>3, <2>4, <2>5 DEF Begun
  <2> QED
    BY <1>2, <2>2, <2>6
<1>11. ASSUME NEW p \in Workers, Log(p) \/ Abort(p) PROVE Goal
  <2>1. /\ job' = [job EXCEPT ![p] = Idle]
        /\ UNCHANGED <<tableVars, queueVars, inbox>>
    BY <1>11 DEF Log, Abort
  <2>2. /\ job'[p] = Idle
        /\ \A q \in Workers \ {p} : Handles(q, x)' <=> Handles(q, x)
    BY <2>1, OtherWorkers
  <2>3. ~Handles(p, x)'
    BY <2>2 DEF Handles, Idle
  <2>4. Begun(x)' => Begun(x)
    BY <2>1, <2>2, <2>3 DEF Begun
  <2> QED
    BY <1>2, <2>1, <2>4
<1>12. ASSUME NEW m \in Alerts, ReadFails(m) PROVE Goal
  <2>1. channelTasks' \subseteq channelTasks /\ UNCHANGED <<tableVars, job, inbox>>
    BY <1>12 DEF ReadFails
  <2>2. Begun(x)' => Begun(x)
    BY <2>1 DEF Begun, Handles
  <2> QED
    BY <1>2, <2>1, <2>2
<1>13. ASSUME UNCHANGED vars PROVE Goal
  BY <1>2, <1>13 DEF vars, Begun, Handles
<1> QED
  BY <1>3, <1>5, <1>6, <1>7, <1>8, <1>9, <1>10, <1>11, <1>12, <1>13
     DEF Next, Take, Work

(* An alert of a wallet reaches only chats of that wallet's Telegram       *)
(* channels, and none deleted before the alert was raised.                 *)
THEOREM OnlyConnectedChatsReached == Spec => []OnlyConnectedChats
<1>1. ConnectInv => OnlyConnectedChats
  BY DEF ConnectInv, OnlyConnectedChats, Begun, Entitled
<1> QED
  BY <1>1, NotifyTypeInit, NotifyTypeNext, DeliveryInit, DeliveryNext,
     ConnectInit, ConnectNext, PTL DEF Spec

(***************************************************************************)
(* The history is true.                                                    *)
(*                                                                         *)
(* A worker knows what became of its message when it comes to write the    *)
(* row, unless Telegram's answer was lost, and nobody else writes that row *)
(* or sends that message: DeliveryInv has one worker at most for a pair.   *)
(***************************************************************************)

(* Status s is what the history should say of pair x.                      *)
Truthful(x, s) ==
    /\ s = "sent" => inbox[x] # <<>>
    /\ s = "failed" => inbox[x] = <<>> \/ x \in unsure

Logs(p, x) == job[p].doing = "log" /\ job[p].pair = x

Recorded(x) ==
    /\ \A p \in Workers : Logs(p, x) => Truthful(x, job[p].status)
    /\ Truthful(x, log[x])
    /\ inbox[x] # <<>> =>
          \/ \E p \in Workers : Logs(p, x)
          \/ x \in unsure \/ x[1] \in hit \/ log[x] = "sent"

HistoryInv == \A x \in Pairs : Recorded(x)

LEMMA HistoryInit == Init => HistoryInv
BY DEF Init, HistoryInv, Recorded, Truthful, Logs, Idle

LEMMA HistoryNext ==
    TypeOK /\ DeliveryInv /\ HistoryInv /\ [Next]_vars => HistoryInv'
<1> SUFFICES ASSUME TypeOK, DeliveryInv, HistoryInv, [Next]_vars, NEW x \in Pairs
             PROVE  Recorded(x)'
  BY DEF HistoryInv
<1> USE DEF tableVars, queueVars, sendVars
<1>1. Tracked(x) /\ Recorded(x) /\ x[1] \in Alerts
  BY DEF DeliveryInv, HistoryInv, Pairs
<1>2. ASSUME UNCHANGED sendVars, hit \subseteq hit',
             \A p \in Workers : /\ Logs(p, x)' <=> Logs(p, x)
                                /\ Logs(p, x) => job'[p] = job[p]
      PROVE  Recorded(x)'
  BY <1>1, <1>2 DEF Recorded, Truthful
<1>3. ASSUME UNCHANGED <<job, sendVars>>, hit \subseteq hit' PROVE Recorded(x)'
  BY <1>2, <1>3 DEF Logs
<1>4. ASSUME Users PROVE Recorded(x)'
  BY <1>3, <1>4 DEF Users, Open, Register, Bind, Delete
<1>5. ASSUME NEW m \in Alerts,
             \/ ReadFails(m) \/ \E w \in Unknown : Raise(m, w)
             \/ \E i \in Ids : Test(m, i)
      PROVE  Recorded(x)'
  BY <1>3, <1>5 DEF ReadFails, Raise, Test
<1>6. ASSUME NEW p \in Workers, NEW m \in Alerts, TakeWallet(p, m) PROVE Recorded(x)'
  <2>1. /\ job[p] = Idle /\ job' = [job EXCEPT ![p] = DispatchTo(m, Recipients(to[m]))]
        /\ UNCHANGED <<sendVars, hit>>
    BY <1>6 DEF TakeWallet
  <2>2. /\ job'[p].doing # "log" /\ job[p].doing # "log"
        /\ \A q \in Workers \ {p} : job'[q] = job[q]
    BY <2>1, OtherWorkers DEF DispatchTo, Idle
  <2> QED
    BY <1>2, <2>1, <2>2 DEF Logs
<1>7. ASSUME NEW p \in Workers, NEW y \in Pairs, TakeChannel(p, y) PROVE Recorded(x)'
  <2>1. job[p] = Idle /\ UNCHANGED <<sendVars, hit>>
    BY <1>7 DEF TakeChannel
  <2>2. /\ job'[p].doing # "log" /\ job[p].doing # "log"
        /\ \A q \in Workers \ {p} : job'[q] = job[q]
    BY <1>7, <2>1, OtherWorkers DEF TakeChannel, Idle
  <2> QED
    BY <1>2, <2>1, <2>2 DEF Logs
<1>8. ASSUME NEW p \in Workers, NEW i \in Ids, Dispatch(p, i) PROVE Recorded(x)'
  <2>1. /\ job[p].doing = "dispatch"
        /\ job' = [job EXCEPT ![p] = DispatchTo(job[p].alert, job[p].todo \ {i})]
        /\ UNCHANGED <<sendVars, hit>>
    BY <1>8 DEF Dispatch, TypeOK
  <2>2. /\ job'[p].doing # "log"
        /\ \A q \in Workers \ {p} : job'[q] = job[q]
    BY <2>1, OtherWorkers DEF DispatchTo, Idle
  <2> QED
    BY <1>2, <2>1, <2>2 DEF Logs
<1>9. ASSUME NEW p \in Workers, Send(p) \/ SendRefused(p) \/ AnswerLost(p)
      PROVE  Recorded(x)'
  <2>1. PICK status \in {"sent", "failed"} :
          /\ ThenLog(p, status) /\ UNCHANGED <<log, hit>> /\ job[p].doing = "send"
          /\ \/ status = "sent" /\ Deliver(p) /\ UNCHANGED unsure
             \/ status = "failed" /\ UNCHANGED <<inbox, unsure>>
             \/ status = "failed" /\ Deliver(p) /\ unsure' = unsure \cup {job[p].pair}
    BY <1>9 DEF Send, SendRefused, AnswerLost
  <2>2. /\ job'[p] = [doing |-> "log", pair |-> job[p].pair, status |-> status]
        /\ \A q \in Workers \ {p} : job'[q] = job[q]
    BY <2>1 DEF ThenLog, TypeOK
  <2>3. CASE x # job[p].pair
    <3>1. inbox'[x] = inbox[x] /\ (x \in unsure' <=> x \in unsure)
      BY <2>1, <2>3 DEF Deliver, TypeOK
    <3>2. \A q \in Workers : /\ Logs(q, x)' <=> Logs(q, x)
                             /\ Logs(q, x) => job'[q] = job[q]
      BY <2>1, <2>2, <2>3 DEF Logs
    <3> QED
      BY <1>1, <2>1, <3>1, <3>2 DEF Recorded, Truthful
  <2>4. CASE x = job[p].pair
    <3>1. Handles(p, x) /\ inbox[x] = <<>> /\ log[x] = "none"
      BY <1>1, <2>1, <2>4 DEF Tracked, Handles
    <3>2. \A q \in Workers : Logs(q, x)' => q = p
      BY <1>1, <2>2, <3>1 DEF Tracked, OnePlace, Handles, Logs
    <3>3. Logs(p, x)' /\ job'[p].status = status
      BY <2>2, <2>4 DEF Logs
    <3>4. ASSUME Deliver(p) PROVE inbox'[x] # <<>>
      <4>1. inbox'[x] = Append(<<>>, job[p].chat) /\ job[p].chat \in Chats
        BY <2>1, <2>4, <3>1, <3>4, JobParts DEF Deliver, TypeOK
      <4> QED
        BY <4>1
    <3> QED
      BY <2>1, <2>4, <3>1, <3>2, <3>3, <3>4 DEF Recorded, Truthful
  <2> QED
    BY <2>3, <2>4
<1>10. ASSUME NEW p \in Workers, Log(p) PROVE Recorded(x)'
  <2>1. /\ job[p].doing = "log" /\ log' = [log EXCEPT ![job[p].pair] = job[p].status]
        /\ job[p].status \in {"sent", "failed"}
        /\ UNCHANGED <<inbox, unsure, hit>>
    BY <1>10, JobParts DEF Log
  <2>2. job'[p] = Idle /\ \A q \in Workers \ {p} : job'[q] = job[q]
    BY <1>10 DEF Log, TypeOK
  <2>3. CASE x # job[p].pair
    <3>1. \A q \in Workers : /\ Logs(q, x)' <=> Logs(q, x)
                             /\ Logs(q, x) => job'[q] = job[q]
      BY <2>2, <2>3 DEF Logs, Idle
    <3>2. log'[x] = log[x]
      BY <2>1, <2>3 DEF TypeOK
    <3> QED
      BY <1>1, <2>1, <3>1, <3>2 DEF Recorded, Truthful
  <2>4. CASE x = job[p].pair
    <3>1. Truthful(x, job[p].status) /\ log'[x] = job[p].status
      BY <1>1, <2>1, <2>4 DEF Recorded, Logs, TypeOK
    <3>2. \A q \in Workers : ~Logs(q, x)'
      BY <1>1, <2>1, <2>2, <2>4 DEF Tracked, OnePlace, Handles, Logs, Idle
    <3> QED
      BY <2>1, <3>1, <3>2 DEF Recorded, Truthful
  <2> QED
    BY <2>3, <2>4
<1>11. ASSUME NEW p \in Workers, Abort(p) PROVE Recorded(x)'
  <2>1. hit' = hit \cup {AlertOf(p)} /\ UNCHANGED sendVars
    BY <1>11 DEF Abort
  <2>2. job'[p] = Idle /\ \A q \in Workers \ {p} : job'[q] = job[q]
    BY <1>11 DEF Abort, TypeOK
  <2>3. /\ ~Logs(p, x)'
        /\ \A q \in Workers \ {p} : Logs(q, x)' <=> Logs(q, x)
    BY <2>2 DEF Logs, Idle
  <2>4. Logs(p, x) => x[1] \in hit'
    BY <2>1 DEF Logs, AlertOf
  <2> QED
    BY <1>1, <2>1, <2>2, <2>3, <2>4 DEF Recorded, Truthful
<1>12. ASSUME UNCHANGED vars PROVE Recorded(x)'
  BY <1>3, <1>12 DEF vars
<1> QED
  BY <1>4, <1>5, <1>6, <1>7, <1>8, <1>9, <1>10, <1>11, <1>12 DEF Next, Take, Work

(* A row "sent" stands for a delivered message, a row "failed" for none    *)
(* unless Telegram's answer was lost, and a delivered message has its row  *)
(* once its task is over.                                                  *)
THEOREM HistoryHolds == Spec => []HistoryIsTrue
<1>1. HistoryInv => HistoryIsTrue
  <2> SUFFICES ASSUME HistoryInv, NEW x \in Pairs
               PROVE  /\ log[x] = "sent" => inbox[x] # <<>>
                      /\ log[x] = "failed" /\ x \notin unsure => inbox[x] = <<>>
                      /\ inbox[x] # <<>> /\ ~Busy(x) /\ x \notin unsure
                            /\ x[1] \notin hit => log[x] = "sent"
    BY DEF HistoryIsTrue
  <2> QED
    BY DEF HistoryInv, Recorded, Truthful, Logs, Busy
<1> QED
  BY <1>1, NotifyTypeInit, NotifyTypeNext, DeliveryInit, DeliveryNext,
     HistoryInit, HistoryNext, PTL DEF Spec

(***************************************************************************)
(* None is forgotten.                                                      *)
(*                                                                         *)
(* The fan-out asks more of a channel than that it is in the table, and    *)
(* the second task asks again.  A channel once chosen passes that test as  *)
(* long as it is not deleted: it has its chat, and an unconfirmed one,     *)
(* which has none, was never chosen.                                       *)
(***************************************************************************)

Chosen(x) == x \in channelTasks \/ \E p \in Workers : Handles(p, x)

Ready(i) ==
    table[i].kind = "telegram" /\ table[i].chat # NoChat
        /\ table[i].status \in {"active", "deleted"}

ReadyInv ==
    /\ \A i \in Ids : table[i].status \in {"absent", "pending"} => table[i].chat = NoChat
    /\ \A x \in Pairs : Chosen(x) => Ready(x[2])

LEMMA ReadyInit == Init => ReadyInv
BY DEF Init, ReadyInv, Chosen, Handles, Idle

(* What users may do to a channel that is ready, and to one that is not.   *)
LEMMA UsersKeepReady ==
    ASSUME TypeOK, ReadyInv, Users, NEW i \in Ids
    PROVE  /\ table'[i].status \in {"absent", "pending"} => table'[i].chat = NoChat
           /\ Ready(i) => Ready(i)'
           /\ Ready(i) /\ table[i].status = "active" /\ InTable(i)' =>
                 table'[i] = table[i]
<1>1. table[i].status \in {"absent", "pending"} => table[i].chat = NoChat
  BY DEF ReadyInv
<1>2. ASSUME NEW j \in Ids, NEW w \in Wallets, Open(j, w)
      PROVE  table[j].status = "absent" /\ table'[j].chat = table[j].chat
             /\ \A k \in Ids \ {j} : table'[k] = table[k]
  BY <1>2 DEF Open, TypeOK, Row
<1>3. ASSUME NEW j \in Ids, NEW w \in Wallets, NEW c \in Chats, Register(j, w, c)
      PROVE  table[j].status = "absent" /\ table'[j].status = "active"
             /\ \A k \in Ids \ {j} : table'[k] = table[k]
  BY <1>3 DEF Register, TypeOK
<1>4. ASSUME NEW j \in Ids, NEW c \in Chats, Bind(j, c)
      PROVE  table[j].status = "pending" /\ table'[j].status = "active"
             /\ \A k \in Ids \ {j} : table'[k] = table[k]
  BY <1>4 DEF Bind, TypeOK, Row
<1>5. ASSUME NEW j \in Ids, Delete(j)
      PROVE  /\ table'[j].kind = table[j].kind /\ table'[j].chat = table[j].chat
             /\ table'[j].status = "deleted"
             /\ \A k \in Ids \ {j} : table'[k] = table[k]
  BY <1>5 DEF Delete, TypeOK, Row
<1> QED
  BY <1>1, <1>2, <1>3, <1>4, <1>5 DEF Users, Ready, InTable

LEMMA ReadyNext == TypeOK /\ ReadyInv /\ [Next]_vars => ReadyInv'
<1> SUFFICES ASSUME TypeOK, ReadyInv, [Next]_vars PROVE ReadyInv'
  OBVIOUS
<1> USE DEF tableVars, queueVars, sendVars
<1>1. ASSUME UNCHANGED table, \A x \in Pairs : Chosen(x)' => Chosen(x) \/ Ready(x[2])
      PROVE  ReadyInv'
  BY <1>1 DEF ReadyInv, Ready
<1>2. CASE Users
  <2>1. UNCHANGED <<queueVars, job>>
    BY <1>2 DEF Users, Open, Register, Bind, Delete
  <2>2. \A x \in Pairs : x[2] \in Ids /\ (Chosen(x)' <=> Chosen(x))
    BY <2>1 DEF Chosen, Handles, Pairs
  <2> QED
    BY <1>2, <2>2, UsersKeepReady DEF ReadyInv
<1>3. ASSUME NEW m \in Alerts, ReadFails(m) \/ \E w \in Unknown : Raise(m, w)
      PROVE  ReadyInv'
  <2>1. UNCHANGED <<table, job>> /\ channelTasks' \subseteq channelTasks
    BY <1>3 DEF ReadFails, Raise
  <2> QED
    BY <1>1, <2>1 DEF Chosen, Handles
<1>4. ASSUME NEW m \in Alerts, NEW i \in Ids, Test(m, i) PROVE ReadyInv'
  <2>1. /\ UNCHANGED <<table, job>> /\ channelTasks' = channelTasks \cup {<<m, i>>}
        /\ Ready(i)
    BY <1>4 DEF Test, InTable, IsBound, Ready, ReadyInv
  <2> QED
    BY <1>1, <2>1 DEF Chosen, Handles
<1>5. ASSUME NEW p \in Workers, NEW m \in Alerts, TakeWallet(p, m) PROVE ReadyInv'
  <2>1. /\ job' = [job EXCEPT ![p] = DispatchTo(m, Recipients(to[m]))]
        /\ UNCHANGED <<table, channelTasks>>
    BY <1>5 DEF TakeWallet
  <2>2. /\ job'[p] = DispatchTo(m, Recipients(to[m]))
        /\ \A q \in Workers \ {p}, x \in Pairs : Handles(q, x)' <=> Handles(q, x)
    BY <2>1, OtherWorkers
  <2>3. \A x \in Pairs : Handles(p, x)' => x[2] \in Recipients(to[m])
    BY <2>2 DEF Handles, DispatchTo, Idle
  <2>4. \A x \in Pairs : Handles(p, x)' => Ready(x[2])
    BY <2>3 DEF Recipients, Ready
  <2> QED
    BY <1>1, <2>1, <2>2, <2>4 DEF Chosen
<1>6. ASSUME NEW p \in Workers, NEW y \in Pairs, TakeChannel(p, y) PROVE ReadyInv'
  <2>1. /\ y \in channelTasks /\ channelTasks' \subseteq channelTasks /\ job[p] = Idle
        /\ UNCHANGED table
    BY <1>6 DEF TakeChannel
  <2>2. \A x \in Pairs : /\ \A q \in Workers \ {p} : Handles(q, x)' <=> Handles(q, x)
                         /\ Handles(p, x)' => x = y
    BY <1>6, <2>1, OtherWorkers DEF TakeChannel, Handles, Idle
  <2> QED
    BY <1>1, <2>1, <2>2 DEF Chosen
<1>7. ASSUME NEW p \in Workers, NEW i \in Ids, Dispatch(p, i) PROVE ReadyInv'
  <2>1. /\ job[p].doing = "dispatch" /\ i \in job[p].todo
        /\ channelTasks' = channelTasks \cup {<<job[p].alert, i>>}
        /\ job' = [job EXCEPT ![p] = DispatchTo(job[p].alert, job[p].todo \ {i})]
        /\ UNCHANGED table
    BY <1>7 DEF Dispatch, TypeOK
  <2>2. /\ job'[p] = DispatchTo(job[p].alert, job[p].todo \ {i})
        /\ \A q \in Workers \ {p}, x \in Pairs : Handles(q, x)' <=> Handles(q, x)
    BY <2>1, OtherWorkers
  <2>3. \A x \in Pairs : (Handles(p, x)' => Handles(p, x))
                            /\ (x = <<job[p].alert, i>> => Handles(p, x))
    BY <2>1, <2>2 DEF Handles, DispatchTo, Idle
  <2> QED
    BY <1>1, <2>1, <2>2, <2>3 DEF Chosen
<1>8. ASSUME NEW p \in Workers, Send(p) \/ SendRefused(p) \/ AnswerLost(p) PROVE ReadyInv'
  <2>1. PICK status \in {"sent", "failed"} :
          /\ ThenLog(p, status) /\ job[p].doing = "send"
          /\ UNCHANGED <<table, channelTasks>>
    BY <1>8 DEF Send, SendRefused, AnswerLost
  <2>2. job' = [job EXCEPT ![p] = [doing |-> "log", pair |-> job[p].pair,
                                   status |-> status]]
    BY <2>1 DEF ThenLog, TypeOK
  <2>3. /\ job'[p] = [doing |-> "log", pair |-> job[p].pair, status |-> status]
        /\ \A q \in Workers \ {p}, x \in Pairs : Handles(q, x)' <=> Handles(q, x)
    BY <2>2, OtherWorkers
  <2>4. \A x \in Pairs : Handles(p, x)' => Handles(p, x)
    BY <2>1, <2>3 DEF Handles
  <2> QED
    BY <1>1, <2>1, <2>3, <2>4 DEF Chosen
<1>9. ASSUME NEW p \in Workers, Log(p) \/ Abort(p) PROVE ReadyInv'
  <2>1. job' = [job EXCEPT ![p] = Idle] /\ UNCHANGED <<table, channelTasks>>
    BY <1>9 DEF Log, Abort
  <2>2. job'[p] = Idle /\ \A q \in Workers \ {p}, x \in Pairs : Handles(q, x)' <=> Handles(q, x)
    BY <2>1, OtherWorkers
  <2>3. \A x \in Pairs : ~Handles(p, x)'
    BY <2>2 DEF Handles, Idle
  <2> QED
    BY <1>1, <2>1, <2>2, <2>3 DEF Chosen
<1>10. CASE UNCHANGED vars
  BY <1>1, <1>10 DEF vars, Chosen, Handles
<1> QED
  BY <1>2, <1>3, <1>4, <1>5, <1>6, <1>7, <1>8, <1>9, <1>10 DEF Next, Take, Work

(* Only the owner's channels of an alert that waits, and those chosen.     *)
LEMMA OwedParts ==
    ASSUME TypeOK, NEW x \in Pairs
    PROVE  Owed(x) <=> \/ x[1] \in walletTasks /\ x[2] \in Recipients(to[x[1]])
                       \/ Chosen(x)
BY DEF Owed, Busy, Chosen, Handles

LEMMA OwedStays ==
    ASSUME TypeOK, DeliveryInv, ReadyInv, [Next]_vars, NEW x \in Pairs, Owed(x)
    PROVE  Owed(x)' \/ log'[x] # "none" \/ ~InTable(x[2])' \/ x[1] \in hit'
<1> DEFINE Waits == x[1] \in walletTasks /\ x[2] \in Recipients(to[x[1]])
           Goal == Owed(x)' \/ log'[x] # "none" \/ ~InTable(x[2])' \/ x[1] \in hit'
<1> USE DEF tableVars, queueVars, sendVars
<1>1. /\ Waits \/ Chosen(x)
      /\ Waits' \/ Chosen(x)' => Goal
  <2>1. TypeOK'
    BY NotifyTypeNext
  <2> QED
    BY <2>1, OwedParts DEF Owed, Busy, Chosen, Handles
<1>2. /\ Tracked(x) /\ x[1] \in Alerts /\ x[2] \in Ids /\ x = <<x[1], x[2]>>
      /\ Chosen(x) => Ready(x[2])
  BY DEF DeliveryInv, ReadyInv, Pairs
<1>3. CASE Users
  <2>1. UNCHANGED <<to, queueVars, job>>
    BY <1>3 DEF Users, Open, Register, Bind, Delete
  <2>2. Chosen(x)' <=> Chosen(x)
    BY <2>1 DEF Chosen, Handles
  <2>3. ASSUME Waits, InTable(x[2])' PROVE Waits'
    <3>1. Ready(x[2]) /\ table[x[2]].status = "active"
      BY <2>3 DEF Recipients, Ready
    <3>2. table'[x[2]] = table[x[2]]
      BY <1>2, <1>3, <2>3, <3>1, UsersKeepReady
    <3> QED
      BY <2>1, <2>3, <3>2 DEF Recipients
  <2> QED
    BY <1>1, <2>2, <2>3
<1>4. ASSUME NEW m \in Alerts, NEW w \in Unknown, Create(m, w),
             walletTasks \subseteq walletTasks', channelTasks \subseteq channelTasks',
             UNCHANGED <<table, job>>
      PROVE  Goal
  <2>1. Chosen(x) => Chosen(x)'
    BY <1>4 DEF Chosen, Handles
  <2>2. Waits => x[1] # m
    BY <1>2, <1>4 DEF Create, Tracked, Queued
  <2>3. Waits => Waits'
    BY <1>4, <2>2 DEF Create, Recipients, TypeOK
  <2> QED
    BY <1>1, <2>1, <2>3
<1>5. ASSUME NEW m \in Alerts,
             \/ \E w \in Unknown : Raise(m, w)
             \/ \E i \in Ids : Test(m, i)
      PROVE  Goal
  <2>1. \A i \in Ids : table[i].wallet \in Unknown
    BY DEF TypeOK, Row
  <2> QED
    BY <1>4, <1>5, <2>1 DEF Raise, Test
<1>6. ASSUME NEW p \in Workers, NEW m \in Alerts, TakeWallet(p, m) PROVE Goal
  <2>1. /\ job[p] = Idle /\ walletTasks' = walletTasks \ {m}
        /\ job' = [job EXCEPT ![p] = DispatchTo(m, Recipients(to[m]))]
        /\ UNCHANGED <<tableVars, channelTasks>>
    BY <1>6 DEF TakeWallet
  <2>2. /\ job'[p] = DispatchTo(m, Recipients(to[m]))
        /\ \A q \in Workers \ {p} : Handles(q, x)' <=> Handles(q, x)
    BY <2>1, OtherWorkers
  <2>3. ~Handles(p, x)
    BY <2>1 DEF Handles, Idle
  <2>4. Chosen(x) => Chosen(x)'
    BY <2>1, <2>2, <2>3 DEF Chosen
  <2>5. Waits /\ x[1] = m => Handles(p, x)'
    BY <2>2 DEF Handles, DispatchTo
  <2>6. Waits /\ x[1] # m => Waits'
    BY <2>1 DEF Recipients
  <2> QED
    BY <1>1, <2>4, <2>5, <2>6 DEF Chosen
<1>7. ASSUME NEW p \in Workers, NEW y \in Pairs, TakeChannel(p, y) PROVE Goal
  <2>1. /\ job[p] = Idle /\ channelTasks' = channelTasks \ {y}
        /\ UNCHANGED <<tableVars, walletTasks>>
        /\ job' = IF MaySend(y[2])
                  THEN [job EXCEPT ![p] = [doing |-> "send", pair |-> y,
                                           chat |-> table[y[2]].chat]]
                  ELSE job
    BY <1>7 DEF TakeChannel
  <2>2. \A q \in Workers \ {p} : Handles(q, x)' <=> Handles(q, x)
    BY <2>1, OtherWorkers DEF Handles
  <2>3. ~Handles(p, x)
    BY <2>1 DEF Handles, Idle
  <2>4. Waits => Waits'
    BY <2>1 DEF Recipients
  <2>5. CASE x # y \/ x \notin channelTasks
    BY <1>1, <2>1, <2>2, <2>3, <2>4, <2>5 DEF Chosen
  <2>6. CASE x = y /\ x \in channelTasks /\ MaySend(x[2])
    <3>1. job'[p] = [doing |-> "send", pair |-> y, chat |-> table[y[2]].chat]
      BY <2>1, <2>6 DEF TypeOK
    <3>2. Handles(p, x)'
      BY <2>6, <3>1 DEF Handles
    <3> QED
      BY <1>1, <3>2 DEF Chosen
  <2>7. CASE x \in channelTasks /\ ~MaySend(x[2])
    <3>1. Ready(x[2])
      BY <1>2, <2>7 DEF Chosen
    <3>2. ~InTable(x[2])'
      BY <2>1, <2>7, <3>1 DEF Ready, MaySend, InTable, IsBound
    <3> QED
      BY <3>2
  <2> QED
    BY <2>5, <2>6, <2>7
<1>8. ASSUME NEW p \in Workers, NEW i \in Ids, Dispatch(p, i) PROVE Goal
  <2>1. /\ job[p].doing = "dispatch" /\ i \in job[p].todo
        /\ channelTasks' = channelTasks \cup {<<job[p].alert, i>>}
        /\ job' = [job EXCEPT ![p] = DispatchTo(job[p].alert, job[p].todo \ {i})]
        /\ UNCHANGED <<tableVars, walletTasks>>
    BY <1>8 DEF Dispatch, TypeOK
  <2>2. /\ job'[p] = DispatchTo(job[p].alert, job[p].todo \ {i})
        /\ \A q \in Workers \ {p} : Handles(q, x)' <=> Handles(q, x)
    BY <2>1, OtherWorkers
  <2>3. Handles(p, x) => x = <<job[p].alert, i>> \/ Handles(p, x)'
    BY <1>2, <2>1, <2>2 DEF Handles, DispatchTo
  <2>4. Chosen(x) => Chosen(x)'
    BY <2>1, <2>2, <2>3 DEF Chosen
  <2>5. Waits => Waits'
    BY <2>1 DEF Recipients
  <2> QED
    BY <1>1, <2>4, <2>5
<1>9. ASSUME NEW p \in Workers, Send(p) \/ SendRefused(p) \/ AnswerLost(p) PROVE Goal
  <2>1. PICK status \in {"sent", "failed"} :
          /\ ThenLog(p, status) /\ job[p].doing = "send"
          /\ UNCHANGED <<tableVars, queueVars>>
    BY <1>9 DEF Send, SendRefused, AnswerLost
  <2>2. job' = [job EXCEPT ![p] = [doing |-> "log", pair |-> job[p].pair,
                                   status |-> status]]
    BY <2>1 DEF ThenLog, TypeOK
  <2>3. /\ job'[p] = [doing |-> "log", pair |-> job[p].pair, status |-> status]
        /\ \A q \in Workers \ {p} : Handles(q, x)' <=> Handles(q, x)
    BY <2>2, OtherWorkers
  <2>4. Handles(p, x) => Handles(p, x)'
    BY <2>1, <2>3 DEF Handles
  <2> QED
    BY <1>1, <2>1, <2>3, <2>4 DEF Chosen, Recipients
<1>10. ASSUME NEW p \in Workers, Log(p) PROVE Goal
  <2>1. /\ job[p].doing = "log" /\ log' = [log EXCEPT ![job[p].pair] = job[p].status]
        /\ job[p].status \in {"sent", "failed"} /\ job' = [job EXCEPT ![p] = Idle]
        /\ UNCHANGED <<tableVars, queueVars>>
    BY <1>10, JobParts DEF Log
  <2>2. \A q \in Workers \ {p} : Handles(q, x)' <=> Handles(q, x)
    BY <2>1, OtherWorkers
  <2>3. Handles(p, x) => log'[x] # "none"
    BY <2>1 DEF Handles, TypeOK
  <2> QED
    BY <1>1, <2>1, <2>2, <2>3 DEF Chosen, Recipients
<1>11. ASSUME NEW p \in Workers, Abort(p) PROVE Goal
  <2>1. /\ hit' = hit \cup {AlertOf(p)} /\ job' = [job EXCEPT ![p] = Idle]
        /\ UNCHANGED <<tableVars, queueVars>>
    BY <1>11 DEF Abort
  <2>2. \A q \in Workers \ {p} : Handles(q, x)' <=> Handles(q, x)
    BY <2>1, OtherWorkers
  <2>3. Handles(p, x) => x[1] \in hit'
    BY <2>1 DEF Handles, AlertOf
  <2> QED
    BY <1>1, <2>1, <2>2, <2>3 DEF Chosen, Recipients
<1>12. ASSUME NEW m \in Alerts, ReadFails(m) PROVE Goal
  <2>1. CASE x[1] = m
    BY <1>12, <2>1 DEF ReadFails
  <2>2. CASE x[1] # m
    <3>1. /\ UNCHANGED <<tableVars, job>>
          /\ x[1] \in walletTasks => x[1] \in walletTasks'
          /\ x \in channelTasks => x \in channelTasks'
      BY <1>2, <1>12, <2>2 DEF ReadFails
    <3> QED
      BY <1>1, <3>1 DEF Chosen, Handles, Recipients
  <2> QED
    BY <2>1, <2>2
<1>13. CASE UNCHANGED vars
  BY <1>1, <1>13 DEF vars, Chosen, Handles, Recipients
<1> QED
  BY <1>3, <1>5, <1>6, <1>7, <1>8, <1>9, <1>10, <1>11, <1>12, <1>13
     DEF Next, Take, Work

(* What is owed to a channel stays owed until its row is written, unless   *)
(* the channel is deleted or a task of the alert fails, for any number of  *)
(* alerts, channels and workers.                                           *)
THEOREM NoneIsForgotten == Spec => NoneForgotten
<1>1. TypeOK /\ DeliveryInv /\ ReadyInv /\ [Next]_vars => [OwedIsKept]_vars
  BY OwedStays DEF OwedIsKept
<1> QED
  BY <1>1, NotifyTypeInit, NotifyTypeNext, DeliveryInit, DeliveryNext,
     ReadyInit, ReadyNext, PTL DEF Spec, NoneForgotten
===============================================================================
