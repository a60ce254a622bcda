---------------------------- MODULE AlertPathProofs ----------------------------
(***************************************************************************)
(* Proofs about AlertPath for every set of vaults, workers, alerts,        *)
(* wallets, chats and channels and every dedupe period.  What holds of the *)
(* delivery is brought over from NotifyProofs: a step of the path is one   *)
(* of Notify, leaves the delivery alone, or clears an alert that is over.  *)
(***************************************************************************)
EXTENDS AlertPath, FiniteSetTheorems, TLAPS

NoteP == INSTANCE NotifyProofs

AlertKeys == Vaults \X {"buy", "sell"}

(***************************************************************************)
(* The invariants.                                                         *)
(***************************************************************************)

DeliverySound == NoteP!TypeOK /\ NoteP!DeliveryInv /\ NoteP!ConnectInv

TickOK ==
    /\ dedupe \in [AlertKeys -> 0..Dedupe]
    /\ pc \in [Workers -> {"idle", "scan", "send"}]
    /\ DOMAIN pick = Workers
    /\ \A p \in Workers : pc[p] = "send" => pick[p] \in AlertKeys

(* What a tick has read are the owners of when it began, and an alert goes *)
(* to the owner it is meant for.                                           *)
OwnersKnown ==
    /\ owner \in [Vaults -> Note!Unknown]
    /\ read \in [Workers -> [Vaults -> Note!Unknown]]
    /\ began = read
    /\ meant = to

(* Only an alert that was raised has a task.                               *)
RaisedOnly ==
    /\ DOMAIN key = Alerts
    /\ \A m \in Alerts : UnderWay(m) => to[m] # Note!NotRaised

(* A key outlives what it was set for, and was set for one thing.          *)
Single(k) ==
    /\ Unsettled(k) # {} \/ Sending(k) # {} => dedupe[k] > 0
    /\ \A m, n \in Unsettled(k) : m = n
    /\ \A p, q \in Sending(k) : p = q
    /\ Unsettled(k) = {} \/ Sending(k) = {}

OnePerKey == late \in BOOLEAN /\ (~late => \A k \in AlertKeys : Single(k))

PathInv == DeliverySound /\ TickOK /\ OwnersKnown /\ RaisedOnly /\ OnePerKey

(***************************************************************************)
(* The two instances of Notify, in AlertPath and of its proofs, have the   *)
(* same definitions.                                                       *)
(***************************************************************************)

LEMMA SameNotifyNext == Note!Next <=> NoteP!Next
BY DEF Note!Next, NoteP!Next, Note!Take, NoteP!Take, Note!Work, NoteP!Work,
       Note!Users, NoteP!Users, Note!Pairs, NoteP!Pairs, Note!Unknown, NoteP!Unknown,
       Note!NoOwner, NoteP!NoOwner, Note!NotRaised, NoteP!NotRaised,
       Note!NoChat, NoteP!NoChat, Note!Idle, NoteP!Idle,
       Note!tableVars, NoteP!tableVars, Note!queueVars, NoteP!queueVars,
       Note!sendVars, NoteP!sendVars, Note!Open, NoteP!Open,
       Note!Register, NoteP!Register, Note!Bind, NoteP!Bind, Note!Delete, NoteP!Delete,
       Note!Create, NoteP!Create, Note!Raise, NoteP!Raise, Note!InTable, NoteP!InTable,
       Note!IsBound, NoteP!IsBound, Note!Test, NoteP!Test,
       Note!Recipients, NoteP!Recipients, Note!DispatchTo, NoteP!DispatchTo,
       Note!TakeWallet, NoteP!TakeWallet, Note!Dispatch, NoteP!Dispatch,
       Note!MaySend, NoteP!MaySend, Note!TakeChannel, NoteP!TakeChannel,
       Note!Deliver, NoteP!Deliver, Note!ThenLog, NoteP!ThenLog, Note!Send, NoteP!Send,
       Note!SendRefused, NoteP!SendRefused, Note!AnswerLost, NoteP!AnswerLost,
       Note!Log, NoteP!Log, Note!AlertOf, NoteP!AlertOf, Note!Abort, NoteP!Abort,
       Note!ReadFails, NoteP!ReadFails

LEMMA SameNotifyInit == Note!Init <=> NoteP!Init
BY DEF Note!Init, NoteP!Init, Note!Pairs, NoteP!Pairs, Note!NoOwner, NoteP!NoOwner,
       Note!NotRaised, NoteP!NotRaised, Note!NoChat, NoteP!NoChat, Note!Idle, NoteP!Idle

(***************************************************************************)
(* The delivery.                                                           *)
(***************************************************************************)

(* A step of the path, by what it does to the delivery.                    *)
LEMMA StepOfNotify ==
    ASSUME TickOK, OwnersKnown, [Next]_vars
    PROVE  \/ Note!Next
           \/ \E m \in Alerts : Retire(m)
           \/ UNCHANGED noteVars /\ faults' \in {faults, faults + 1}
                 /\ (faults' # faults => faults < MaxFaults)
<1> DEFINE Aside == UNCHANGED noteVars /\ faults' \in {faults, faults + 1}
                       /\ (faults' # faults => faults < MaxFaults)
<1>1. ASSUME NEW p \in Workers, StartTick(p) PROVE Aside
  BY <1>1 DEF StartTick, Guard!StartTick
<1>2. ASSUME NEW p \in Workers, Scan(p) PROVE Aside
  BY <1>2 DEF Scan, Guard!ReadRule, Guard!Skip, Guard!Claim, Guard!ReadPrice,
              Guard!RuleReadFails, Guard!PriceReadFails, Guard!Fault
<1>3. ASSUME NEW p \in Workers, EndTick(p) \/ AbortTick(p) PROVE Aside
  BY <1>3 DEF EndTick, AbortTick, Leave, Guard!EndTick, Guard!Abort, Guard!Fault
<1>4. ASSUME NEW p \in Workers, TakeTask(p) \/ Notify(p) PROVE Note!Next
  BY <1>4 DEF TakeTask, Notify, Note!Next, Note!Take
<1>5. ASSUME NEW p \in Workers, NEW m \in Alerts, Raise(p, m) PROVE Note!Next
  <2>1. pick[p][1] \in Vaults
    BY <1>5 DEF Raise, TickOK, AlertKeys
  <2>2. read[p][pick[p][1]] \in Note!Unknown
    BY <2>1 DEF OwnersKnown
  <2> QED
    BY <1>5, <2>2 DEF Raise, Note!Next
<1>6. ASSUME NotifyFault PROVE Note!Next
  BY <1>6 DEF NotifyFault, Note!Next
<1>7. ASSUME Users PROVE Note!Next
  BY <1>7 DEF Users, Note!Next, Note!Users
<1>8. ASSUME NEW v, NEW w, SetOwner(v, w) PROVE Aside
  BY <1>8 DEF SetOwner
<1>9. ASSUME NEW f, NEW r, NewRound(f, r) PROVE Aside
  BY <1>9 DEF NewRound, Guard!NewRound
<1>10. ASSUME Clock PROVE Aside
  BY <1>10 DEF Clock, Guard!Clock
<1>11. ASSUME UNCHANGED vars PROVE Aside
  BY <1>11 DEF vars
<1> QED
  BY <1>1, <1>2, <1>3, <1>4, <1>5, <1>6, <1>7, <1>8, <1>9, <1>10, <1>11 DEF Next

(* An alert that is over is in no place, and clearing it leaves no trace.  *)
LEMMA RetireKeepsDelivery ==
    ASSUME DeliverySound, NEW m \in Alerts, Retire(m)
    PROVE  DeliverySound'
<1>1. /\ ~UnderWay(m)
      /\ to' = [to EXCEPT ![m] = NoteP!NotRaised]
      /\ inbox' = [x \in NoteP!Pairs |-> IF x[1] = m THEN <<>> ELSE inbox[x]]
      /\ log' = [x \in NoteP!Pairs |-> IF x[1] = m THEN "none" ELSE log[x]]
      /\ past' = {x \in past : x[1] # m}
      /\ unsure' = {x \in unsure : x[1] # m}
      /\ hit' = hit \ {m}
      /\ UNCHANGED <<table, walletTasks, channelTasks, job, faults>>
  BY DEF Retire, Note!Pairs, NoteP!Pairs, Note!NotRaised, NoteP!NotRaised
<1>2. NoteP!TypeOK /\ NoteP!DeliveryInv /\ NoteP!ConnectInv
  BY DEF DeliverySound
<1>3. NoteP!TypeOK'
  <2>1. inbox' \in [NoteP!Pairs -> Seq(Chats)]
    BY <1>1, <1>2 DEF NoteP!TypeOK
  <2>2. log' \in [NoteP!Pairs -> {"none", "sent", "failed"}]
    BY <1>1, <1>2 DEF NoteP!TypeOK
  <2>3. to' \in [Alerts -> NoteP!Unknown \cup {NoteP!NotRaised}]
    BY <1>1, <1>2 DEF NoteP!TypeOK
  <2> QED
    BY <1>1, <1>2, <2>1, <2>2, <2>3 DEF NoteP!TypeOK
<1>4. ASSUME NEW x \in NoteP!Pairs, x[1] = m
      PROVE  ~NoteP!Queued(x) /\ \A p \in Workers : ~NoteP!Handles(p, x)
  <2>1. m \notin walletTasks /\ x \notin channelTasks
    BY <1>1, <1>4 DEF UnderWay, NoteP!Pairs
  <2>2. ASSUME NEW p \in Workers, NoteP!Handles(p, x) PROVE FALSE
    BY <1>1, <1>4, <2>2 DEF UnderWay, NoteP!Handles, Note!AlertOf, Note!Idle
  <2> QED
    BY <1>4, <2>1, <2>2 DEF NoteP!Queued
<1>5. ASSUME NEW x \in NoteP!Pairs PROVE NoteP!Tracked(x)'
  <2>1. NoteP!Tracked(x) /\ x[1] \in Alerts
    BY <1>2 DEF NoteP!DeliveryInv, NoteP!Pairs
  <2>2. /\ NoteP!Queued(x)' <=> NoteP!Queued(x)
        /\ \A p \in Workers : NoteP!Handles(p, x)' <=> NoteP!Handles(p, x)
    BY <1>1 DEF NoteP!Queued, NoteP!Handles
  <2>3. CASE x[1] = m
    BY <1>1, <1>4, <2>1, <2>2, <2>3
       DEF NoteP!Tracked, NoteP!OnePlace, NoteP!Clean, NoteP!Queued
  <2>4. CASE x[1] # m
    BY <1>1, <1>2, <2>1, <2>2, <2>4
       DEF NoteP!Tracked, NoteP!OnePlace, NoteP!Clean, NoteP!TypeOK
  <2> QED
    BY <2>3, <2>4
<1>6. ASSUME NEW x \in NoteP!Pairs
      PROVE  /\ NoteP!Begun(x)' => NoteP!Entitled(x)'
             /\ x \in past' => table'[x[2]].status = "deleted"
  <2>1. /\ NoteP!Begun(x) => NoteP!Entitled(x)
        /\ x \in past => table[x[2]].status = "deleted"
        /\ x[1] \in Alerts
    BY <1>2 DEF NoteP!ConnectInv, NoteP!Pairs
  <2>2. \A p \in Workers : NoteP!Handles(p, x)' <=> NoteP!Handles(p, x)
    BY <1>1 DEF NoteP!Handles
  <2>3. CASE x[1] = m
    BY <1>1, <1>4, <2>1, <2>2, <2>3 DEF NoteP!Begun, NoteP!Queued
  <2>4. CASE x[1] # m
    BY <1>1, <1>2, <2>1, <2>2, <2>4 DEF NoteP!Begun, NoteP!Entitled, NoteP!TypeOK
  <2> QED
    BY <2>3, <2>4
<1> QED
  BY <1>3, <1>5, <1>6 DEF DeliverySound, NoteP!DeliveryInv, NoteP!ConnectInv

LEMMA DeliveryKept ==
    ASSUME DeliverySound, TickOK, OwnersKnown, [Next]_vars
    PROVE  DeliverySound'
<1>1. CASE Note!Next
  <2>1. [NoteP!Next]_(NoteP!vars)
    BY <1>1, SameNotifyNext
  <2>2. MaxFaults \in Nat /\ NoteP!NotRaised \notin Wallets
    BY NotifyAssumption DEF Note!NotRaised, NoteP!NotRaised
  <2>3. NoteP!TypeOK'
    BY <2>1, <2>2, NoteP!NotifyTypeNext DEF DeliverySound
  <2>4. NoteP!DeliveryInv'
    BY <2>1, <2>2, NoteP!DeliveryNext DEF DeliverySound
  <2>5. NoteP!ConnectInv'
    BY <2>1, <2>2, NoteP!ConnectNext DEF DeliverySound
  <2> QED
    BY <2>3, <2>4, <2>5 DEF DeliverySound
<1>2. CASE \E m \in Alerts : Retire(m)
  BY <1>2, RetireKeepsDelivery
<1>3. ASSUME UNCHANGED noteVars, faults' \in {faults, faults + 1},
             faults' # faults => faults < MaxFaults
      PROVE  DeliverySound'
  <2>1. faults' \in 0..MaxFaults
    BY <1>3, NotifyAssumption DEF DeliverySound, NoteP!TypeOK
  <2>2. NoteP!TypeOK'
    BY <1>3, <2>1 DEF DeliverySound, NoteP!TypeOK, noteVars
  <2>3. NoteP!DeliveryInv'
    BY <1>3 DEF DeliverySound, NoteP!DeliveryInv, NoteP!Tracked, NoteP!OnePlace,
                NoteP!Clean, NoteP!Queued, NoteP!Handles, noteVars
  <2>4. NoteP!ConnectInv'
    BY <1>3 DEF DeliverySound, NoteP!ConnectInv, NoteP!Begun, NoteP!Entitled,
                NoteP!Handles, noteVars
  <2> QED
    BY <2>2, <2>3, <2>4 DEF DeliverySound
<1> QED
  BY <1>1, <1>2, <1>3, StepOfNotify

LEMMA PathInit == Init => PathInv
<1> SUFFICES ASSUME Init PROVE PathInv
  OBVIOUS
<1>1. DeliverySound
  <2>1. NoteP!Init /\ MaxFaults \in Nat /\ NoteP!NotRaised \notin Wallets
    BY NotifyAssumption, SameNotifyInit DEF Init, Note!NotRaised, NoteP!NotRaised
  <2> QED
    BY <2>1, NoteP!NotifyTypeInit, NoteP!DeliveryInit, NoteP!ConnectInit
       DEF DeliverySound
<1>2. TickOK
  BY DedupeAssumption DEF Init, TickOK, Guard!Init, Guard!Key, Guard!Actions, AlertKeys
<1>3. OwnersKnown
  BY DEF Init, OwnersKnown, NotRead, Note!Init, Note!Unknown
<1>4. \A m \in Alerts : ~UnderWay(m)
  BY DEF Init, Note!Init, UnderWay
<1>5. RaisedOnly
  BY <1>4 DEF Init, RaisedOnly
<1>6. OnePerKey
  BY <1>4 DEF Init, Guard!Init, OnePerKey, Single, Unsettled, Sending
<1> QED
  BY <1>1, <1>2, <1>3, <1>5, <1>6 DEF PathInv

(***************************************************************************)
(* The ticks.                                                              *)
(***************************************************************************)

(* A tick that ends or dies claims nothing any more.                       *)
LEMMA LeaveTick ==
    ASSUME TickOK, NEW p \in Workers, Guard!Forget(p), UNCHANGED dedupe
    PROVE  /\ TickOK'
           /\ pc'[p] = "idle" /\ \A q \in Workers \ {p} : pc'[q] = pc[q] /\ pick'[q] = pick[q]
BY DEF TickOK, Guard!Forget

(* A claim takes a key that has expired, for this tick alone.              *)
LEMMA ClaimTakes ==
    ASSUME TickOK, NEW p \in Workers, NEW v \in Vaults, Guard!Claim(p, v)
    PROVE  /\ TickOK'
           /\ pc[p] = "scan" /\ pc'[p] = "send" /\ pick'[p] \in AlertKeys
           /\ dedupe[pick'[p]] = 0 /\ dedupe'[pick'[p]] = Dedupe
           /\ \A k \in AlertKeys : k # pick'[p] => dedupe'[k] = dedupe[k]
           /\ \A q \in Workers \ {p} : pc'[q] = pc[q] /\ pick'[q] = pick[q]
<1>1. PICK k \in AlertKeys : k = <<v, Guard!SideOf(p, v)>>
  BY DEF Guard!Claim, Guard!SideOf, Guard!Side, Guard!Signal, AlertKeys
<1>2. /\ pc[p] = "scan" /\ pc' = [pc EXCEPT ![p] = "send"]
      /\ pick' = [pick EXCEPT ![p] = k]
      /\ dedupe[k] = 0 /\ dedupe' = [dedupe EXCEPT ![k] = Dedupe]
  BY <1>1 DEF Guard!Claim, Guard!SetKey, Guard!Deal, Guard!Priced
<1>3. /\ pc'[p] = "send" /\ pick'[p] = k /\ dedupe'[k] = Dedupe
      /\ \A l \in AlertKeys : l # k => dedupe'[l] = dedupe[l]
      /\ \A q \in Workers \ {p} : pc'[q] = pc[q] /\ pick'[q] = pick[q]
  BY <1>2 DEF TickOK
<1>4. TickOK'
  <2>1. dedupe' \in [AlertKeys -> 0..Dedupe]
    BY <1>2, DedupeAssumption DEF TickOK
  <2> QED
    BY <1>2, <1>3, <2>1 DEF TickOK
<1> QED
  BY <1>2, <1>3, <1>4

(* The other steps of a scan leave keys and claims alone.                  *)
LEMMA ScanSteps ==
    ASSUME NEW p \in Workers, Scan(p)
    PROVE  (\E v \in Vaults : Guard!Claim(p, v)) \/ UNCHANGED <<dedupe, pc, pick>>
BY DEF Scan, Guard!ReadRule, Guard!Skip, Guard!ReadPrice, Guard!RuleReadFails,
       Guard!PriceReadFails

LEMMA RaiseSteps ==
    ASSUME TickOK, NEW p \in Workers, NEW m \in Alerts, Raise(p, m)
    PROVE  /\ TickOK'
           /\ pc[p] = "send" /\ pick[p] \in AlertKeys /\ pc'[p] = "scan"
           /\ UNCHANGED dedupe
           /\ \A q \in Workers \ {p} : pc'[q] = pc[q] /\ pick'[q] = pick[q]
BY DEF Raise, Guard!Send, TickOK

(* Time brings every key nearer to its end.                                *)
LEMMA ClockSteps ==
    ASSUME TickOK, Clock
    PROVE  TickOK' /\ UNCHANGED <<pc, pick>>
<1>1. /\ dedupe' = [k \in AlertKeys |-> IF dedupe[k] > 0 THEN dedupe[k] - 1 ELSE 0]
      /\ UNCHANGED <<pc, pick>>
  BY DEF Clock, Guard!Clock, Guard!Expire, Guard!tickVars, Guard!Key, Guard!Actions,
         AlertKeys
<1>2. dedupe' \in [AlertKeys -> 0..Dedupe]
  BY <1>1, DedupeAssumption DEF TickOK
<1> QED
  BY <1>1, <1>2 DEF TickOK

(* Whatever else happens has nothing to do with keys and claims.           *)
LEMMA OtherSteps ==
    ASSUME \/ \E p \in Workers : TakeTask(p) \/ Notify(p)
           \/ NotifyFault \/ Users
           \/ \E m \in Alerts : Retire(m)
           \/ \E v \in Vaults, w \in Wallets : SetOwner(v, w)
           \/ \E f \in Feeds, r \in RoundSet : NewRound(f, r)
           \/ UNCHANGED vars
    PROVE  UNCHANGED <<dedupe, pc, pick, late>>
BY DEF TakeTask, Notify, NotifyFault, Users, Retire, SetOwner, NewRound, vars, guardVars,
       Guard!NewRound, Guard!Taken, Guard!tickVars

(***************************************************************************)
(* The alerts.                                                             *)
(***************************************************************************)

Holds(p, m) == job[p] # Note!Idle /\ Note!AlertOf(p) = m

TaskStep == (\E p \in Workers : TakeTask(p) \/ Notify(p)) \/ NotifyFault

(* A task does not change whose alert it is.                               *)
LEMMA TasksLeave == ASSUME TaskStep PROVE UNCHANGED <<to, ownerVars>>
BY DEF TaskStep, TakeTask, Notify, NotifyFault, ownerVars, Note!TakeWallet,
       Note!TakeChannel, Note!Work, Note!Dispatch, Note!Send, Note!SendRefused,
       Note!AnswerLost, Note!Log, Note!Abort, Note!ReadFails, Note!tableVars

(* Tasks beget tasks of their own alert only.                              *)
LEMMA TasksMove ==
    ASSUME DeliverySound, TaskStep, NEW m \in Alerts
    PROVE  UnderWay(m)' => UnderWay(m)
<1>1. NoteP!TypeOK
  BY DEF DeliverySound
<1>2. job = [p \in Workers |-> job[p]]
  BY <1>1 DEF NoteP!TypeOK
<1>3. ASSUME NEW p \in Workers, NEW new, job' = [job EXCEPT ![p] = new]
      PROVE  /\ job'[p] = new
             /\ \A q \in Workers \ {p} : Holds(q, m)' <=> Holds(q, m)
  BY <1>2, <1>3 DEF Holds, Note!AlertOf
<1>4. ASSUME NEW p \in Workers, NEW n \in Alerts, Note!TakeWallet(p, n)
      PROVE  UnderWay(m)' => UnderWay(m)
  <2>1. /\ n \in walletTasks /\ walletTasks' = walletTasks \ {n}
        /\ job' = [job EXCEPT ![p] = Note!DispatchTo(n, Note!Recipients(to[n]))]
        /\ UNCHANGED channelTasks
    BY <1>4 DEF Note!TakeWallet
  <2>2. /\ job'[p] = Note!DispatchTo(n, Note!Recipients(to[n]))
        /\ \A q \in Workers \ {p} : Holds(q, m)' <=> Holds(q, m)
    BY <1>3, <2>1
  <2>3. Holds(p, m)' => m = n
    BY <2>2 DEF Holds, Note!DispatchTo, Note!AlertOf, Note!Idle
  <2> QED
    BY <2>1, <2>2, <2>3 DEF UnderWay, Holds
<1>5. ASSUME NEW p \in Workers, NEW x \in Note!Pairs, Note!TakeChannel(p, x)
      PROVE  UnderWay(m)' => UnderWay(m)
  <2>1. /\ x \in channelTasks /\ channelTasks' = channelTasks \ {x}
        /\ UNCHANGED walletTasks
        /\ x[2] \in Ids /\ x = <<x[1], x[2]>>
    BY <1>5 DEF Note!TakeChannel, Note!Pairs
  <2>2. /\ Holds(p, m)' => m = x[1] \/ Holds(p, m)
        /\ \A q \in Workers \ {p} : Holds(q, m)' <=> Holds(q, m)
    BY <1>3, <1>5 DEF Note!TakeChannel, Holds, Note!AlertOf, Note!Idle
  <2> QED
    BY <2>1, <2>2 DEF UnderWay, Holds
<1>6. ASSUME NEW p \in Workers, NEW i \in Ids, Note!Dispatch(p, i)
      PROVE  UnderWay(m)' => UnderWay(m)
  <2>1. /\ job[p].doing = "dispatch"
        /\ channelTasks' = channelTasks \cup {<<job[p].alert, i>>}
        /\ job' = [job EXCEPT ![p] = Note!DispatchTo(job[p].alert, job[p].todo \ {i})]
        /\ UNCHANGED walletTasks
    BY <1>2, <1>6 DEF Note!Dispatch
  <2>2. /\ Holds(p, m) <=> m = job[p].alert
        /\ Holds(p, m)' => m = job[p].alert
    BY <1>3, <2>1 DEF Holds, Note!DispatchTo, Note!AlertOf, Note!Idle
  <2> QED
    BY <1>3, <2>1, <2>2 DEF UnderWay, Holds
<1>7. ASSUME NEW p \in Workers, Note!Send(p) \/ Note!SendRefused(p) \/ Note!AnswerLost(p)
      PROVE  UnderWay(m)' => UnderWay(m)
  <2>1. PICK status \in {"sent", "failed"} :
          /\ job[p].doing = "send"
          /\ job' = [job EXCEPT ![p] = [doing |-> "log", pair |-> job[p].pair,
                                        status |-> status]]
          /\ UNCHANGED <<walletTasks, channelTasks>>
    BY <1>2, <1>7 DEF Note!Send, Note!SendRefused, Note!AnswerLost, Note!ThenLog,
                      Note!queueVars
  <2>2. Holds(p, m)' <=> Holds(p, m)
    BY <1>3, <2>1 DEF Holds, Note!AlertOf, Note!Idle
  <2> QED
    BY <1>3, <2>1, <2>2 DEF UnderWay, Holds
<1>8. ASSUME NEW p \in Workers, Note!Log(p) \/ Note!Abort(p)
      PROVE  UnderWay(m)' => UnderWay(m)
  <2>1. /\ job' = [job EXCEPT ![p] = Note!Idle]
        /\ UNCHANGED <<walletTasks, channelTasks>>
    BY <1>8 DEF Note!Log, Note!Abort, Note!queueVars
  <2>2. ~Holds(p, m)'
    BY <1>3, <2>1 DEF Holds
  <2> QED
    BY <1>3, <2>1, <2>2 DEF UnderWay, Holds
<1>9. ASSUME NEW n \in Alerts, Note!ReadFails(n) PROVE UnderWay(m)' => UnderWay(m)
  BY <1>9 DEF Note!ReadFails, UnderWay, Note!AlertOf
<1> QED
  BY <1>4, <1>5, <1>6, <1>7, <1>8, <1>9
     DEF TaskStep, TakeTask, Notify, NotifyFault, Note!Work

(* An alert that is raised joins those under way.                          *)
LEMMA RaiseMoves ==
    ASSUME DeliverySound, RaisedOnly, NEW p \in Workers, NEW m \in Alerts, Raise(p, m)
    PROVE  /\ to[m] = Note!NotRaised /\ ~UnderWay(m)
           /\ to' = [to EXCEPT ![m] = read[p][pick[p][1]]]
           /\ key' = [key EXCEPT ![m] = pick[p]]
           /\ \A n \in Alerts : UnderWay(n)' <=> UnderWay(n) \/ n = m
<1>1. /\ to[m] = Note!NotRaised
      /\ to' = [to EXCEPT ![m] = read[p][pick[p][1]]]
      /\ key' = [key EXCEPT ![m] = pick[p]]
      /\ walletTasks' = walletTasks \cup {m} /\ UNCHANGED <<channelTasks, job>>
  BY DEF Raise, Note!Raise, Note!Create
<1> QED
  BY <1>1 DEF RaisedOnly, UnderWay, Note!AlertOf

(* Steps that are not about alerts.                                        *)
LEMMA AlertsStay ==
    ASSUME \/ \E p \in Workers : StartTick(p) \/ Scan(p) \/ EndTick(p) \/ AbortTick(p)
           \/ \E v \in Vaults, w \in Wallets : SetOwner(v, w)
           \/ \E f \in Feeds, r \in RoundSet : NewRound(f, r)
           \/ Users \/ Clock \/ UNCHANGED vars
    PROVE  /\ UNCHANGED <<to, key, meant>>
           /\ \A m \in Alerts : UnderWay(m)' <=> UnderWay(m)
<1>1. UNCHANGED <<to, key, meant, walletTasks, channelTasks, job>>
  BY DEF StartTick, Scan, EndTick, AbortTick, Leave, SetOwner, NewRound, Users, Clock,
         vars, noteVars, ownerVars, Note!Delete, Note!Open, Note!Bind, Note!queueVars
<1> QED
  BY <1>1 DEF UnderWay, Note!AlertOf

(***************************************************************************)
(* One step of the path.                                                   *)
(***************************************************************************)

LEMMA TickKept == ASSUME TickOK, [Next]_vars PROVE TickOK'
<1>1. ASSUME UNCHANGED <<dedupe, pc, pick>> PROVE TickOK'
  BY <1>1 DEF TickOK
<1>2. ASSUME NEW p \in Workers, StartTick(p) PROVE TickOK'
  BY <1>2 DEF StartTick, Guard!StartTick, TickOK
<1>3. ASSUME NEW p \in Workers, Scan(p) PROVE TickOK'
  BY <1>1, <1>3, ScanSteps, ClaimTakes
<1>4. ASSUME NEW p \in Workers, EndTick(p) \/ AbortTick(p) PROVE TickOK'
  BY <1>4, LeaveTick DEF EndTick, AbortTick, Guard!EndTick, Guard!Abort
<1>5. ASSUME NEW p \in Workers, NEW m \in Alerts, Raise(p, m) PROVE TickOK'
  BY <1>5, RaiseSteps
<1>6. CASE Clock
  BY <1>6, ClockSteps
<1> QED
  BY <1>1, <1>2, <1>3, <1>4, <1>5, <1>6, OtherSteps DEF Next

LEMMA OwnersKept ==
    ASSUME DeliverySound, TickOK, OwnersKnown, RaisedOnly, [Next]_vars
    PROVE  OwnersKnown'
<1> USE DEF OwnersKnown
<1>1. ASSUME UNCHANGED <<owner, read, began, meant, to>> PROVE OwnersKnown'
  BY <1>1
<1>2. ASSUME NEW p \in Workers, StartTick(p) PROVE OwnersKnown'
  BY <1>2 DEF StartTick, noteVars
<1>3. ASSUME NEW p \in Workers, EndTick(p) \/ AbortTick(p) PROVE OwnersKnown'
  <2>1. NotRead \in [Vaults -> Note!Unknown]
    BY DEF NotRead, Note!Unknown
  <2> QED
    BY <1>3, <2>1 DEF EndTick, AbortTick, Leave, noteVars
<1>4. ASSUME NEW p \in Workers, NEW m \in Alerts, Raise(p, m) PROVE OwnersKnown'
  <2>1. to' = [to EXCEPT ![m] = read[p][pick[p][1]]]
    BY <1>4, RaiseMoves
  <2> QED
    BY <1>4, <2>1 DEF Raise
<1>5. ASSUME NEW m \in Alerts, Retire(m) PROVE OwnersKnown'
  BY <1>5 DEF Retire
<1>6. ASSUME NEW v \in Vaults, NEW w \in Wallets, SetOwner(v, w) PROVE OwnersKnown'
  BY <1>6 DEF SetOwner, noteVars, Note!Unknown
<1>7. CASE TaskStep
  BY <1>1, <1>7, TasksLeave DEF ownerVars
<1>8. CASE \/ \E p \in Workers : Scan(p)
           \/ \E f \in Feeds, r \in RoundSet : NewRound(f, r)
           \/ Users \/ Clock \/ UNCHANGED vars
  BY <1>1, <1>8 DEF Scan, NewRound, Users, Clock, vars, noteVars, ownerVars,
                    Note!Delete, Note!Open, Note!Bind
<1> QED
  BY <1>2, <1>3, <1>4, <1>5, <1>6, <1>7, <1>8 DEF Next, TaskStep

LEMMA RaisedKept ==
    ASSUME DeliverySound, TickOK, OwnersKnown, RaisedOnly, [Next]_vars
    PROVE  RaisedOnly'
<1> USE DEF RaisedOnly
<1>1. ASSUME UNCHANGED <<to, key>>, \A m \in Alerts : UnderWay(m)' => UnderWay(m)
      PROVE  RaisedOnly'
  BY <1>1
<1>2. ASSUME NEW p \in Workers, NEW m \in Alerts, Raise(p, m) PROVE RaisedOnly'
  <2>1. read[p][pick[p][1]] # Note!NotRaised
    <3>1. pick[p][1] \in Vaults
      BY <1>2, RaiseSteps DEF AlertKeys
    <3>2. Note!NoOwner # Note!NotRaised
      BY DEF Note!NoOwner, Note!NotRaised
    <3> QED
      BY <3>1, <3>2, NotifyAssumption DEF OwnersKnown, Note!Unknown
  <2>2. to \in [Alerts -> NoteP!Unknown \cup {NoteP!NotRaised}]
    BY DEF DeliverySound, NoteP!TypeOK
  <2> QED
    BY <1>2, <2>1, <2>2, RaiseMoves
<1>3. ASSUME NEW m \in Alerts, Retire(m) PROVE RaisedOnly'
  <2>1. /\ ~UnderWay(m) /\ to' = [to EXCEPT ![m] = Note!NotRaised]
        /\ key' = [key EXCEPT ![m] = NoKey]
        /\ UNCHANGED <<walletTasks, channelTasks, job>>
    BY <1>3 DEF Retire
  <2>2. \A n \in Alerts : UnderWay(n)' <=> UnderWay(n)
    BY <2>1 DEF UnderWay, Note!AlertOf
  <2> QED
    BY <2>1, <2>2 DEF DeliverySound, NoteP!TypeOK
<1>4. CASE TaskStep
  BY <1>1, <1>4, TasksLeave, TasksMove DEF ownerVars
<1> QED
  BY <1>1, <1>2, <1>3, <1>4, AlertsStay DEF Next, TaskStep

(* Keys that last keep what they were set for to one thing, as long as     *)
(* nothing joins what is under way.                                        *)
LEMMA SingleShrinks ==
    ASSUME NEW k \in AlertKeys, Single(k), dedupe'[k] = dedupe[k],
           Unsettled(k)' \subseteq Unsettled(k), Sending(k)' \subseteq Sending(k)
    PROVE  Single(k)'
BY DEF Single

LEMMA SingleKept ==
    ASSUME DeliverySound, TickOK, RaisedOnly, OnePerKey, [Next]_vars
    PROVE  OnePerKey'
<1>1. late \in BOOLEAN
  BY DEF OnePerKey
<1>2. ASSUME UNCHANGED <<dedupe, late>>,
             \A k \in AlertKeys : /\ Unsettled(k)' \subseteq Unsettled(k)
                                  /\ Sending(k)' \subseteq Sending(k)
      PROVE  OnePerKey'
  BY <1>2, SingleShrinks DEF OnePerKey
<1>3. ASSUME UNCHANGED key, \A m \in Alerts : UnderWay(m)' => UnderWay(m),
             NEW k \in AlertKeys
      PROVE  Unsettled(k)' \subseteq Unsettled(k)
  BY <1>3 DEF Unsettled
<1>4. ASSUME NEW p \in Workers, pc'[p] # "send",
             \A q \in Workers \ {p} : pc'[q] = pc[q] /\ pick'[q] = pick[q],
             NEW k \in AlertKeys
      PROVE  Sending(k)' = Sending(k) \ {p}
  BY <1>4 DEF Sending
<1>5. ASSUME UNCHANGED <<pc, pick>>, NEW k \in AlertKeys PROVE Sending(k)' = Sending(k)
  BY <1>5 DEF Sending
<1>6. ASSUME NEW p \in Workers, StartTick(p) PROVE OnePerKey'
  <2>1. /\ pc'[p] = "scan" /\ \A q \in Workers \ {p} : pc'[q] = pc[q] /\ pick'[q] = pick[q]
        /\ UNCHANGED <<dedupe, late>>
    BY <1>6 DEF StartTick, Guard!StartTick, TickOK
  <2> QED
    BY <1>2, <1>3, <1>4, <1>6, <2>1, AlertsStay
<1>7. ASSUME NEW p \in Workers, EndTick(p) \/ AbortTick(p) PROVE OnePerKey'
  <2>1. Guard!Forget(p) /\ UNCHANGED <<dedupe, late>>
    BY <1>7 DEF EndTick, AbortTick, Leave, Guard!EndTick, Guard!Abort
  <2>2. pc'[p] = "idle" /\ \A q \in Workers \ {p} : pc'[q] = pc[q] /\ pick'[q] = pick[q]
    BY <2>1, LeaveTick
  <2> QED
    BY <1>2, <1>3, <1>4, <1>7, <2>1, <2>2, AlertsStay
<1>8. ASSUME NEW p \in Workers, Scan(p) PROVE OnePerKey'
  <2>1. UNCHANGED <<key, late>> /\ \A m \in Alerts : UnderWay(m)' <=> UnderWay(m)
    BY <1>8, AlertsStay DEF Scan
  <2>2. CASE UNCHANGED <<dedupe, pc, pick>>
    BY <1>2, <1>3, <1>5, <2>1, <2>2
  <2>3. ASSUME NEW v \in Vaults, Guard!Claim(p, v) PROVE OnePerKey'
    <3>1. PICK c \in AlertKeys : c = pick'[p]
      BY <2>3, ClaimTakes
    <3>2. /\ pc[p] = "scan" /\ pc'[p] = "send" /\ pick'[p] = c
          /\ dedupe[c] = 0 /\ dedupe'[c] = Dedupe
          /\ \A k \in AlertKeys : k # c => dedupe'[k] = dedupe[k]
          /\ \A q \in Workers \ {p} : pc'[q] = pc[q] /\ pick'[q] = pick[q]
      BY <2>3, <3>1, ClaimTakes
    <3>3. ASSUME ~late, NEW k \in AlertKeys PROVE Single(k)'
      <4>1. Single(k)
        BY <3>3 DEF OnePerKey
      <4>2. Unsettled(k)' \subseteq Unsettled(k)
        BY <1>3, <2>1
      <4>3. CASE k # c
        <5>1. Sending(k)' \subseteq Sending(k)
          BY <3>2, <4>3 DEF Sending
        <5> QED
          BY <3>2, <4>1, <4>2, <4>3, <5>1, SingleShrinks
      <4>4. CASE k = c
        <5>1. Unsettled(k) = {} /\ Sending(k) = {}
          BY <3>2, <4>1, <4>4 DEF Single
        <5>2. Sending(k)' \subseteq {p}
          BY <3>2, <5>1 DEF Sending
        <5>3. dedupe'[k] > 0
          BY <3>2, <4>4, DedupeAssumption
        <5> QED
          BY <4>2, <5>1, <5>2, <5>3 DEF Single
      <4> QED
        BY <4>3, <4>4
    <3> QED
      BY <1>1, <2>1, <3>3 DEF OnePerKey
  <2> QED
    BY <1>8, <2>2, <2>3, ScanSteps
<1>9. ASSUME NEW p \in Workers, NEW m \in Alerts, Raise(p, m) PROVE OnePerKey'
  <2>1. PICK c \in AlertKeys : c = pick[p]
    BY <1>9, RaiseSteps
  <2>2. /\ pc[p] = "send" /\ pc'[p] = "scan"
        /\ \A q \in Workers \ {p} : pc'[q] = pc[q] /\ pick'[q] = pick[q]
        /\ UNCHANGED <<dedupe, late>>
    BY <1>9, RaiseSteps DEF Raise
  <2>3. /\ key'[m] = c /\ \A n \in Alerts \ {m} : key'[n] = key[n]
        /\ ~UnderWay(m)
        /\ \A n \in Alerts : UnderWay(n)' <=> UnderWay(n) \/ n = m
    BY <1>9, <2>1, RaiseMoves DEF RaisedOnly
  <2>4. ASSUME ~late, NEW k \in AlertKeys PROVE Single(k)'
    <3>1. Single(k) /\ Sending(k)' = Sending(k) \ {p}
      BY <1>4, <2>2, <2>4 DEF OnePerKey
    <3>2. CASE k # c
      <4>1. Unsettled(k)' \subseteq Unsettled(k)
        BY <2>3, <3>2 DEF Unsettled
      <4> QED
        BY <2>2, <3>1, <4>1, SingleShrinks
    <3>3. CASE k = c
      <4>1. p \in Sending(k)
        BY <2>1, <2>2, <3>3 DEF Sending
      <4>2. Unsettled(k) = {} /\ Sending(k) \subseteq {p} /\ dedupe[k] > 0
        BY <3>1, <4>1 DEF Single
      <4>3. Unsettled(k)' \subseteq {m}
        BY <2>3, <4>2 DEF Unsettled
      <4>4. Sending(k)' = {}
        BY <3>1, <4>2
      <4> QED
        BY <2>2, <4>2, <4>3, <4>4 DEF Single
    <3> QED
      BY <3>2, <3>3
  <2> QED
    BY <1>1, <2>2, <2>4 DEF OnePerKey
<1>10. ASSUME NEW m \in Alerts, Retire(m) PROVE OnePerKey'
  <2>1. /\ ~UnderWay(m) /\ key' = [key EXCEPT ![m] = NoKey]
        /\ UNCHANGED <<walletTasks, channelTasks, job, pc, pick, dedupe, late>>
    BY <1>10 DEF Retire, guardVars
  <2>2. \A n \in Alerts : UnderWay(n)' <=> UnderWay(n)
    BY <2>1 DEF UnderWay, Note!AlertOf
  <2>3. ASSUME NEW k \in AlertKeys PROVE Unsettled(k)' \subseteq Unsettled(k)
    BY <2>1, <2>2 DEF Unsettled, RaisedOnly
  <2> QED
    BY <1>2, <1>5, <2>1, <2>3
<1>11. CASE TaskStep
  <2>1. UNCHANGED <<dedupe, pc, pick, late>>
    BY <1>11, OtherSteps DEF TaskStep
  <2> QED
    BY <1>2, <1>3, <1>5, <1>11, <2>1, TasksMove, TasksLeave DEF ownerVars
<1>12. CASE Clock
  <2>1. /\ UNCHANGED <<pc, pick, key>>
        /\ \A m \in Alerts : UnderWay(m)' <=> UnderWay(m)
    BY <1>12, ClockSteps, AlertsStay
  <2>2. DOMAIN dedupe = AlertKeys /\ dedupe' \in [AlertKeys -> 0..Dedupe]
    BY <1>12, ClockSteps DEF TickOK
  <2>3. late' = (late \/ \E k \in AlertKeys :
                            dedupe'[k] = 0 /\ Unsettled(k) \cup Sending(k) # {})
    BY <1>12, <2>2 DEF Clock
  <2>4. late' \in BOOLEAN
    BY <2>3
  <2>5. ASSUME ~late', NEW k \in AlertKeys PROVE Single(k)'
    <3>1. ~late /\ ~(dedupe'[k] = 0 /\ Unsettled(k) \cup Sending(k) # {})
      BY <2>3, <2>5, Zenon
    <3>2. Single(k) /\ Unsettled(k)' \subseteq Unsettled(k) /\ Sending(k)' = Sending(k)
      BY <1>3, <1>5, <2>1, <3>1 DEF OnePerKey
    <3>3. Unsettled(k) # {} \/ Sending(k) # {} => dedupe'[k] > 0
      BY <2>2, <3>1, DedupeAssumption
    <3> QED
      BY <3>2, <3>3 DEF Single
  <2> QED
    BY <2>4, <2>5 DEF OnePerKey
<1>13. CASE \/ \E v \in Vaults, w \in Wallets : SetOwner(v, w)
            \/ \E f \in Feeds, r \in RoundSet : NewRound(f, r)
            \/ Users \/ UNCHANGED vars
  BY <1>2, <1>3, <1>5, <1>13, AlertsStay, OtherSteps
<1> QED
  BY <1>6, <1>7, <1>8, <1>9, <1>10, <1>11, <1>12, <1>13 DEF Next, TaskStep

LEMMA PathNext == PathInv /\ [Next]_vars => PathInv'
BY DeliveryKept, TickKept, OwnersKept, RaisedKept, SingleKept DEF PathInv

(***************************************************************************)
(* The theorems.                                                           *)
(***************************************************************************)

(* An alert reaches only the chats of a wallet that owned the vault when   *)
(* the tick that raised it began, or later, however long its tasks wait    *)
(* and whoever becomes the owner meanwhile.                                *)
THEOREM OwnersAlone == Spec => []OnlyOwnersAlerted
<1>1. PathInv => OnlyOwnersAlerted
  <2> SUFFICES ASSUME PathInv, NEW m \in Alerts, NEW i \in Ids, inbox[<<m, i>>] # <<>>
               PROVE  table[i].wallet = meant[m]
    BY DEF OnlyOwnersAlerted
  <2>1. <<m, i>> \in NoteP!Pairs /\ NoteP!Begun(<<m, i>>)
    BY DEF NoteP!Pairs, NoteP!Begun
  <2>2. table[i].wallet = to[m]
    BY <2>1 DEF PathInv, DeliverySound, NoteP!ConnectInv, NoteP!Entitled
  <2> QED
    BY <2>2 DEF PathInv, OwnersKnown
<1> QED
  BY <1>1, PathInit, PathNext, PTL DEF Spec

(* A set of one element or none.                                           *)
LEMMA AtMostOneElement ==
    ASSUME NEW S, \A x, y \in S : x = y
    PROVE  (S = {} /\ Cardinality(S) = 0) \/ (S # {} /\ Cardinality(S) = 1)
<1>1. CASE S = {}
  BY <1>1, FS_EmptySet
<1>2. CASE S # {}
  <2>1. PICK x \in S : S = {x}
    BY <1>2
  <2>2. Cardinality({x}) = 1
    BY FS_Singleton
  <2> QED
    BY <1>2, <2>1, <2>2
<1> QED
  BY <1>1, <1>2

(* Unless an alert outlives its key, a vault and side have one alert on    *)
(* its way at most, from the tick to the chats.                            *)
THEOREM AlertsDoNotOverlap == Spec => []OneAlertAtATime
<1>1. PathInv => OneAlertAtATime
  <2> SUFFICES ASSUME PathInv, ~late, NEW k \in DOMAIN dedupe
               PROVE  Cardinality(Unsettled(k)) + Cardinality(Sending(k)) <= 1
    BY DEF OneAlertAtATime
  <2>1. Single(k)
    BY DEF PathInv, TickOK, OnePerKey
  <2> QED
    BY <2>1, AtMostOneElement DEF Single
<1> QED
  BY <1>1, PathInit, PathNext, PTL DEF Spec

(***************************************************************************)
(* The gate.                                                               *)
(*                                                                         *)
(* The alerts of RiskGuard that wait are counted by key.  A step of the    *)
(* ticks is one of RiskGuard; of the others, only taking or losing the     *)
(* task of an alert changes a count, by one.                               *)
(***************************************************************************)

GuardP == INSTANCE RiskGuardProofs WITH
    MaxAlerts <- Cardinality(Alerts),
    alerts <- [k \in Vaults \X {"buy", "sell"} |->
                  Cardinality({m \in walletTasks : key[m] = k})]

WaitingFor(k) == {m \in walletTasks : key[m] = k}
Waiting == [k \in AlertKeys |-> Cardinality(WaitingFor(k))]

(* An alert that was raised was raised for a key.                          *)
Keyed == \A m \in Alerts : to[m] # Note!NotRaised => key[m] \in AlertKeys

GateInv == PathInv /\ Keyed /\ GuardP!TypeOK

LEMMA SameGuardInit == Guard!Init <=> GuardP!Init
BY DEF Guard!Init, GuardP!Init, Guard!Key, GuardP!Key, Guard!Actions, GuardP!Actions,
       Guard!Nothing, GuardP!Nothing, Guard!None, GuardP!None, Guard!NoPick, GuardP!NoPick

LEMMA SameGuardNext == Guard!Next <=> GuardP!Next
BY DEF Guard!Next, GuardP!Next, Guard!TickStep, GuardP!TickStep,
       Guard!TickFault, GuardP!TickFault, Guard!tickVars, GuardP!tickVars,
       Guard!worldVars, GuardP!worldVars, Guard!Key, GuardP!Key,
       Guard!Actions, GuardP!Actions, Guard!None, GuardP!None,
       Guard!Nothing, GuardP!Nothing, Guard!NoPick, GuardP!NoPick,
       Guard!Put, GuardP!Put, Guard!Restrict, GuardP!Restrict,
       Guard!Fault, GuardP!Fault, Guard!Forget, GuardP!Forget,
       Guard!StartTick, GuardP!StartTick, Guard!ReadRule, GuardP!ReadRule,
       Guard!RuleReadFails, GuardP!RuleReadFails, Guard!FeedsInUse, GuardP!FeedsInUse,
       Guard!Unpriced, GuardP!Unpriced, Guard!Priced, GuardP!Priced,
       Guard!ReadPrice, GuardP!ReadPrice, Guard!PriceReadFails, GuardP!PriceReadFails,
       Guard!Side, GuardP!Side, Guard!SideOf, GuardP!SideOf, Guard!Deal, GuardP!Deal,
       Guard!Skip, GuardP!Skip, Guard!SetKey, GuardP!SetKey, Guard!Claim, GuardP!Claim,
       Guard!Send, GuardP!Send, Guard!EndTick, GuardP!EndTick, Guard!Abort, GuardP!Abort,
       Guard!SetRule, GuardP!SetRule, Guard!NewRound, GuardP!NewRound,
       Guard!Taken, GuardP!Taken, Guard!Expire, GuardP!Expire, Guard!Clock, GuardP!Clock,
       Guard!IsActive, GuardP!IsActive, Guard!UsablePrice, GuardP!UsablePrice,
       Guard!BuyHit, GuardP!BuyHit, Guard!SellHit, GuardP!SellHit,
       Guard!Signal, GuardP!Signal

LEMMA SameGateNext == Guard!Gate!Next <=> GuardP!Gate!Next
BY DEF Guard!Gate!Next, GuardP!Gate!Next, Guard!Gate!Claim, GuardP!Gate!Claim,
       Guard!Gate!Send, GuardP!Gate!Send, Guard!Gate!Lose, GuardP!Gate!Lose,
       Guard!Gate!Settle, GuardP!Gate!Settle, Guard!Gate!Elapse, GuardP!Gate!Elapse,
       Guard!Key, GuardP!Key, Guard!Actions, GuardP!Actions

LEMMA SameGateInit == Guard!Gate!Init <=> GuardP!Gate!Init
BY DEF Guard!Gate!Init, GuardP!Gate!Init, Guard!Key, GuardP!Key,
       Guard!Actions, GuardP!Actions

(* What RiskGuard assumes of its constants holds of those of the path.     *)
LEMMA GuardAssumptions ==
    /\ RuleSet \subseteq GuardP!Rule(Feeds) /\ RoundSet \subseteq GuardP!Round
    /\ Dedupe \in Nat \ {0}
    /\ Cardinality(Alerts) \in Nat /\ MaxFaults \in Nat
<1>1. Cardinality(Alerts) \in Nat
  BY GuardAssumption, FS_CardinalityType
<1> QED
  BY <1>1, GuardAssumption, DedupeAssumption, NotifyAssumption
     DEF Guard!Rule, GuardP!Rule, Guard!Round, GuardP!Round

(* No more alerts wait for a key than there are.                           *)
LEMMA AlertCount ==
    ASSUME NEW W, W \subseteq Alerts
    PROVE  Cardinality(W) \in 0..Cardinality(Alerts)
<1>1. IsFiniteSet(W) /\ Cardinality(W) <= Cardinality(Alerts)
  BY GuardAssumption, FS_Subset
<1> QED
  BY <1>1, GuardAssumption, FS_CardinalityType

(* A step that is none of the guard's may take an alert from those that    *)
(* wait, and touches nothing else of it.                                   *)
LoseAlert(m) ==
    /\ m \in walletTasks /\ walletTasks' = walletTasks \ {m}
    /\ UNCHANGED <<guardVars, key>>

LEMMA StepOfGuard ==
    ASSUME DeliverySound, TickOK, Keyed, RaisedOnly, [Next]_vars
    PROVE  \/ GuardP!Next
           \/ UNCHANGED guardVars /\ UNCHANGED Waiting
           \/ \E m \in Alerts : LoseAlert(m)
<1> DEFINE Aside == UNCHANGED guardVars /\ UNCHANGED Waiting
<1>1. ASSUME UNCHANGED <<guardVars, walletTasks, key>> PROVE Aside
  BY <1>1 DEF Waiting, WaitingFor
<1>2. ASSUME NEW p \in Workers,
             StartTick(p) \/ Scan(p) \/ EndTick(p) \/ AbortTick(p)
      PROVE  Guard!Next
  BY <1>2 DEF StartTick, Scan, EndTick, AbortTick, Guard!Next, Guard!TickStep, Guard!TickFault
<1>3. ASSUME NEW p \in Workers, NEW m \in Alerts, Raise(p, m) PROVE Guard!Next
  BY <1>3 DEF Raise, Guard!Next, Guard!TickStep
<1>4. ASSUME NEW f \in Feeds, NEW r \in RoundSet, NewRound(f, r) PROVE Guard!Next
  BY <1>4 DEF NewRound, Guard!Next
<1>5. ASSUME Clock PROVE Guard!Next
  BY <1>5 DEF Clock, Guard!Next
<1>6. ASSUME NEW p \in Workers, NEW m \in Alerts, Note!TakeWallet(p, m), Guard!Taken(key[m])
      PROVE  Guard!Next
  <2>1. m \in walletTasks
    BY <1>6 DEF Note!TakeWallet
  <2>2. key[m] \in AlertKeys
    BY <2>1 DEF Keyed, RaisedOnly, UnderWay
  <2> QED
    BY <1>6, <2>2 DEF Guard!Next, Guard!Key, Guard!Actions, AlertKeys
<1>7. ASSUME NEW p \in Workers, NEW x \in Note!Pairs, Note!TakeChannel(p, x),
             UNCHANGED <<guardVars, ownerVars>>
      PROVE  Aside
  BY <1>1, <1>7 DEF Note!TakeChannel, ownerVars
<1>8. ASSUME NEW p \in Workers, Notify(p) PROVE Aside
  <2>1. UNCHANGED walletTasks
    BY <1>8 DEF Notify, Note!Work, Note!Dispatch, Note!Send, Note!SendRefused,
                Note!AnswerLost, Note!Log, Note!queueVars
  <2> QED
    BY <1>1, <1>8, <2>1 DEF Notify, ownerVars
<1>9. ASSUME NotifyFault PROVE Aside \/ \E m \in Alerts : LoseAlert(m)
  <2>1. ASSUME NEW p \in Workers, Note!Abort(p) PROVE Aside
    BY <1>1, <1>9, <2>1 DEF NotifyFault, ownerVars, Note!Abort, Note!queueVars
  <2>2. ASSUME NEW m \in Alerts, Note!ReadFails(m) PROVE Aside \/ LoseAlert(m)
    BY <1>1, <1>9, <2>2 DEF NotifyFault, ownerVars, Note!ReadFails, LoseAlert
  <2> QED
    BY <1>9, <2>1, <2>2 DEF NotifyFault
<1>10. ASSUME NEW m \in Alerts, Retire(m) PROVE Aside
  <2>1. /\ m \notin walletTasks /\ key' = [key EXCEPT ![m] = NoKey]
        /\ UNCHANGED <<guardVars, walletTasks>>
    BY <1>10 DEF Retire, UnderWay
  <2>2. ASSUME NEW k \in AlertKeys PROVE WaitingFor(k)' = WaitingFor(k)
    BY <2>1 DEF WaitingFor
  <2> QED
    BY <2>1, <2>2 DEF Waiting
<1>11. CASE \/ \E v \in Vaults, w \in Wallets : SetOwner(v, w)
            \/ Users \/ UNCHANGED vars
  BY <1>1, <1>11 DEF SetOwner, Users, vars, noteVars, ownerVars, Note!Delete, Note!Open,
                     Note!Bind, Note!queueVars
<1> QED
  BY <1>2, <1>3, <1>4, <1>5, <1>6, <1>7, <1>8, <1>9, <1>10, <1>11, SameGuardNext
     DEF Next, TakeTask

(* The count of a key goes down by one when one of its alerts is lost.     *)
LEMMA LostAlert ==
    ASSUME DeliverySound, RaisedOnly, Keyed, NEW m \in Alerts, LoseAlert(m)
    PROVE  /\ key[m] \in AlertKeys /\ Waiting[key[m]] > 0
           /\ Waiting' = [Waiting EXCEPT ![key[m]] = @ - 1]
<1>1. key[m] \in AlertKeys
  BY DEF LoseAlert, Keyed, RaisedOnly, UnderWay
<1>2. walletTasks \subseteq Alerts
  BY DEF DeliverySound, NoteP!TypeOK
<1>3. \A k \in AlertKeys : WaitingFor(k)' = WaitingFor(k) \ {m}
  BY DEF LoseAlert, WaitingFor
<1>4. m \in WaitingFor(key[m]) /\ IsFiniteSet(WaitingFor(key[m]))
  BY <1>2, GuardAssumption, FS_Subset DEF LoseAlert, WaitingFor
<1>5. Cardinality(WaitingFor(key[m]) \ {m}) = Cardinality(WaitingFor(key[m])) - 1
  BY <1>4, FS_RemoveElement
<1>6. Cardinality(WaitingFor(key[m])) > 0
  <2>1. WaitingFor(key[m]) # {}
    BY <1>4
  <2> QED
    BY <1>4, <2>1, FS_EmptySet, FS_CardinalityType
<1>7. \A k \in AlertKeys : k # key[m] => WaitingFor(k)' = WaitingFor(k)
  BY <1>3 DEF WaitingFor
<1>8. \A k \in AlertKeys : Cardinality(WaitingFor(k)') =
         IF k = key[m] THEN Cardinality(WaitingFor(k)) - 1 ELSE Cardinality(WaitingFor(k))
  BY <1>3, <1>5, <1>7
<1> QED
  BY <1>1, <1>6, <1>8 DEF Waiting

LEMMA KeyedKept == ASSUME PathInv, Keyed, [Next]_vars PROVE Keyed'
<1> USE DEF PathInv, Keyed
<1>1. ASSUME UNCHANGED <<to, key>> PROVE Keyed'
  BY <1>1
<1>2. ASSUME NEW p \in Workers, NEW m \in Alerts, Raise(p, m) PROVE Keyed'
  <2>1. /\ to' = [to EXCEPT ![m] = read[p][pick[p][1]]]
        /\ key' = [key EXCEPT ![m] = pick[p]]
        /\ pick[p] \in AlertKeys
    BY <1>2, RaiseMoves, RaiseSteps
  <2> QED
    BY <2>1 DEF RaisedOnly
<1>3. ASSUME NEW m \in Alerts, Retire(m) PROVE Keyed'
  BY <1>3 DEF Retire, DeliverySound, NoteP!TypeOK
<1>4. CASE TaskStep
  BY <1>1, <1>4, TasksLeave DEF ownerVars
<1> QED
  BY <1>1, <1>2, <1>3, <1>4, AlertsStay DEF Next, TaskStep

LEMMA GateInvInit == Init => GateInv
<1> SUFFICES ASSUME Init PROVE GateInv
  OBVIOUS
<1>1. GuardP!Init
  BY SameGuardInit DEF Init
<1>2. GuardP!TypeOK
  BY <1>1, GuardAssumptions, GuardP!GuardTypeInit
<1>3. Keyed
  BY DEF Init, Note!Init, Keyed
<1> QED
  BY <1>2, <1>3, PathInit DEF GateInv

LEMMA GuardTypeKept == ASSUME GateInv, [Next]_vars PROVE GuardP!TypeOK'
<1>1. DeliverySound' /\ DeliverySound
  BY DeliveryKept DEF GateInv, PathInv
<1>2. faults' \in 0..MaxFaults /\ walletTasks' \subseteq Alerts
  BY <1>1 DEF DeliverySound, NoteP!TypeOK
<1>3. Waiting' \in [AlertKeys -> 0..Cardinality(Alerts)]
  <2>1. \A k \in AlertKeys : WaitingFor(k)' \subseteq Alerts
    BY <1>2 DEF WaitingFor
  <2> QED
    BY <2>1, AlertCount DEF Waiting
<1>4. CASE GuardP!Next
  BY <1>4, GuardAssumptions, GuardP!GuardTypeNext DEF GateInv
<1>5. CASE UNCHANGED guardVars
  BY <1>2, <1>3, <1>5 DEF guardVars, GateInv, GuardP!TypeOK, Waiting, WaitingFor,
                          AlertKeys, GuardP!Key, GuardP!Actions
<1> QED
  BY <1>4, <1>5, StepOfGuard DEF GateInv, PathInv, LoseAlert

LEMMA GateInvNext == GateInv /\ [Next]_vars => GateInv'
BY PathNext, KeyedKept, GuardTypeKept DEF GateInv

(* A lost alert settles its key, as one that is taken does.                *)
LEMMA LostAlertSettles ==
    ASSUME DeliverySound, RaisedOnly, Keyed, NEW m \in Alerts, LoseAlert(m)
    PROVE  GuardP!Gate!Next
<1>1. /\ key[m] \in AlertKeys /\ Waiting[key[m]] > 0
      /\ Waiting' = [Waiting EXCEPT ![key[m]] = @ - 1]
  BY LostAlert
<1>2. GuardP!AgeOf' = GuardP!AgeOf /\ GuardP!ClaimsOf' = GuardP!ClaimsOf
  BY DEF LoseAlert, guardVars, GuardP!AgeOf, GuardP!ClaimsOf
<1>3. GuardP!Gate!Settle(key[m])
  BY <1>1, <1>2 DEF GuardP!Gate!Settle, GuardP!AgeOf, GuardP!ClaimsOf, Waiting, WaitingFor,
                    AlertKeys
<1> QED
  BY <1>1, <1>3 DEF GuardP!Gate!Next, GuardP!Key, GuardP!Actions, AlertKeys

LEMMA StepOfGate ==
    ASSUME GateInv, [Next]_vars
    PROVE  [GuardP!Gate!Next]_(GuardP!Gate!gateVars)
<1>1. CASE GuardP!Next
  BY <1>1, GuardAssumptions, GuardP!GateNext DEF GateInv
<1>2. CASE UNCHANGED guardVars /\ UNCHANGED Waiting
  BY <1>2, GuardAssumptions, GuardP!GateStutter DEF guardVars, Waiting, WaitingFor, AlertKeys
<1>3. CASE \E m \in Alerts : LoseAlert(m)
  BY <1>3, LostAlertSettles DEF GateInv, PathInv
<1> QED
  BY <1>1, <1>2, <1>3, StepOfGuard DEF GateInv, PathInv

(* The path keeps what RiskGuard promises of its alerts, for any number of *)
(* processes, although some are lost before a process has them and alerts  *)
(* that are over make room for others: keys are claimed a dedupe period    *)
(* apart and give one alert or none (tasks.py:340-370, 509-542).           *)
THEOREM PathKeepsGate == Spec => Guard!AlertGate
<1>1. Init => Guard!Gate!Init
  <2> SUFFICES ASSUME Init PROVE Guard!Gate!Init
    OBVIOUS
  <2>1. GuardP!Init
    BY SameGuardInit DEF Init
  <2> QED
    BY <2>1, GuardAssumptions, GuardP!GateInit, SameGateInit
<1>2. GateInv /\ [Next]_vars => [Guard!Gate!Next]_(Guard!Gate!gateVars)
  <2>1. UNCHANGED GuardP!Gate!gateVars => UNCHANGED Guard!Gate!gateVars
    BY DEF Guard!Gate!gateVars, GuardP!Gate!gateVars, Guard!Key, GuardP!Key,
           Guard!Actions, GuardP!Actions
  <2> QED
    BY <2>1, StepOfGate, SameGateNext
<1> QED
  BY <1>1, <1>2, GateInvInit, GateInvNext, PTL
     DEF Spec, Guard!AlertGate, Guard!Gate!Spec

(***************************************************************************)
(* What Notify promises, kept by the path.                                 *)
(*                                                                         *)
(* DeliverySound comes with PathInv.  The history needs its own invariant: *)
(* clearing an alert that is over clears its rows and its messages alike.  *)
(***************************************************************************)

HistorySound == PathInv /\ NoteP!HistoryInv

LEMMA HistorySoundInit == Init => HistorySound
<1> SUFFICES ASSUME Init PROVE NoteP!HistoryInv
  BY PathInit DEF HistorySound
<1>1. NoteP!Init /\ MaxFaults \in Nat /\ NoteP!NotRaised \notin Wallets
  BY NotifyAssumption, SameNotifyInit DEF Init, Note!NotRaised, NoteP!NotRaised
<1> QED
  BY <1>1, NoteP!HistoryInit

LEMMA RetireKeepsHistory ==
    ASSUME HistorySound, NEW m \in Alerts, Retire(m), NEW x \in NoteP!Pairs
    PROVE  NoteP!Recorded(x)'
<1>1. /\ inbox' = [y \in NoteP!Pairs |-> IF y[1] = m THEN <<>> ELSE inbox[y]]
      /\ log' = [y \in NoteP!Pairs |-> IF y[1] = m THEN "none" ELSE log[y]]
      /\ unsure' = {y \in unsure : y[1] # m}
      /\ hit' = hit \ {m}
      /\ UNCHANGED job
  BY DEF Retire, Note!Pairs, NoteP!Pairs
<1>2. NoteP!Recorded(x)
  BY DEF HistorySound, NoteP!HistoryInv
<1>3. \A p \in Workers : NoteP!Logs(p, x)' <=> NoteP!Logs(p, x)
  BY <1>1 DEF NoteP!Logs
<1>4. CASE x[1] # m
  BY <1>1, <1>2, <1>3, <1>4 DEF NoteP!Recorded, NoteP!Truthful
<1>5. CASE x[1] = m
  <2>1. ASSUME NEW p \in Workers, NoteP!Logs(p, x) PROVE FALSE
    BY <1>5, <2>1 DEF NoteP!Logs, Retire, UnderWay, Note!AlertOf, Note!Idle
  <2> QED
    BY <1>1, <1>3, <1>5, <2>1 DEF NoteP!Recorded, NoteP!Truthful
<1> QED
  BY <1>4, <1>5

LEMMA HistorySoundNext == HistorySound /\ [Next]_vars => HistorySound'
<1> SUFFICES ASSUME HistorySound, [Next]_vars PROVE NoteP!HistoryInv'
  BY PathNext DEF HistorySound
<1>1. CASE Note!Next
  <2>1. [NoteP!Next]_(NoteP!vars)
    BY <1>1, SameNotifyNext
  <2>2. MaxFaults \in Nat /\ NoteP!NotRaised \notin Wallets
    BY NotifyAssumption DEF Note!NotRaised, NoteP!NotRaised
  <2> QED
    BY <2>1, <2>2, NoteP!HistoryNext DEF HistorySound, PathInv, DeliverySound
<1>2. CASE \E m \in Alerts : Retire(m)
  BY <1>2, RetireKeepsHistory DEF NoteP!HistoryInv
<1>3. CASE UNCHANGED noteVars
  BY <1>3 DEF HistorySound, NoteP!HistoryInv, NoteP!Recorded, NoteP!Truthful, NoteP!Logs,
              noteVars
<1> QED
  BY <1>1, <1>2, <1>3, StepOfNotify DEF HistorySound, PathInv

(* Delivery keeps its promises when ticks raise the alerts and share the   *)
(* processes with the notification tasks, and alerts come and go without   *)
(* end: each is sent once at most, to chats its addressee has connected,   *)
(* and the history tells what became of it (tasks.py:28-53, 288-370).      *)
THEOREM PathKeepsDelivery ==
    Spec => [](Note!AtMostOnce /\ Note!OnlyConnectedChats /\ Note!HistoryIsTrue)
<1> DEFINE Promised == Note!AtMostOnce /\ Note!OnlyConnectedChats /\ Note!HistoryIsTrue
<1>1. HistorySound => Promised
  <2> SUFFICES ASSUME HistorySound PROVE Promised
    OBVIOUS
  <2>1. Note!AtMostOnce
    BY DEF HistorySound, PathInv, DeliverySound, NoteP!DeliveryInv, NoteP!Tracked,
           Note!AtMostOnce, Note!Pairs, NoteP!Pairs
  <2>2. Note!OnlyConnectedChats
    BY DEF HistorySound, PathInv, DeliverySound, NoteP!ConnectInv, NoteP!Begun,
           NoteP!Entitled, Note!OnlyConnectedChats, Note!Pairs, NoteP!Pairs
  <2>3. Note!HistoryIsTrue
    BY DEF HistorySound, NoteP!HistoryInv, NoteP!Recorded, NoteP!Truthful, NoteP!Logs,
           Note!HistoryIsTrue, Note!Busy, Note!Pairs, NoteP!Pairs
  <2> QED
    BY <2>1, <2>2, <2>3
<1> QED
  BY <1>1, HistorySoundInit, HistorySoundNext, PTL DEF Spec

(* A channel once chosen stays ready while alerts come and go.             *)
DebtInv == PathInv /\ NoteP!ReadyInv

LEMMA DebtInit == Init => DebtInv
<1> SUFFICES ASSUME Init PROVE NoteP!ReadyInv
  BY PathInit DEF DebtInv
<1>1. NoteP!Init /\ MaxFaults \in Nat /\ NoteP!NotRaised \notin Wallets
  BY NotifyAssumption, SameNotifyInit DEF Init, Note!NotRaised, NoteP!NotRaised
<1> QED
  BY <1>1, NoteP!ReadyInit

LEMMA DebtNext == DebtInv /\ [Next]_vars => DebtInv'
<1> SUFFICES ASSUME DebtInv, [Next]_vars PROVE NoteP!ReadyInv'
  BY PathNext DEF DebtInv
<1>1. CASE Note!Next
  <2>1. [NoteP!Next]_(NoteP!vars)
    BY <1>1, SameNotifyNext
  <2>2. MaxFaults \in Nat /\ NoteP!NotRaised \notin Wallets
    BY NotifyAssumption DEF Note!NotRaised, NoteP!NotRaised
  <2> QED
    BY <2>1, <2>2, NoteP!ReadyNext DEF DebtInv, PathInv, DeliverySound
<1>2. CASE UNCHANGED <<table, channelTasks, job>>
  BY <1>2 DEF DebtInv, NoteP!ReadyInv, NoteP!Chosen, NoteP!Ready, NoteP!Handles
<1>3. CASE (\E m \in Alerts : Retire(m)) \/ UNCHANGED noteVars
  BY <1>2, <1>3 DEF Retire, noteVars
<1> QED
  BY <1>1, <1>3, StepOfNotify DEF DebtInv, PathInv

(* What is owed of an alert to the channels of an owner stays owed on the  *)
(* processes that the ticks share, until it is tried: an alert is over,    *)
(* and gives its place to another, only when nothing of it is owed         *)
(* (tasks.py:288-310, 347-370).                                            *)
THEOREM PathForgetsNone == Spec => [][Note!OwedIsKept]_vars
<1>1. ASSUME DebtInv, [Next]_vars, NEW x \in Note!Pairs, Note!Owed(x)
      PROVE  Note!Owed(x)' \/ log'[x] # "none" \/ ~Note!InTable(x[2])' \/ x[1] \in hit'
  <2>1. NoteP!TypeOK /\ NoteP!DeliveryInv /\ NoteP!ReadyInv /\ x \in NoteP!Pairs
    BY <1>1 DEF DebtInv, PathInv, DeliverySound, Note!Pairs, NoteP!Pairs
  <2>2. CASE Note!Next
    <3>1. [NoteP!Next]_(NoteP!vars)
      BY <2>2, SameNotifyNext
    <3>2. MaxFaults \in Nat /\ NoteP!NotRaised \notin Wallets
      BY NotifyAssumption DEF Note!NotRaised, NoteP!NotRaised
    <3>3. NoteP!Owed(x) /\ (NoteP!Owed(x)' => Note!Owed(x)')
      BY <1>1 DEF Note!Owed, NoteP!Owed, Note!Busy, NoteP!Busy, Note!Recipients,
                  NoteP!Recipients, Note!NoOwner, NoteP!NoOwner, Note!NoChat, NoteP!NoChat
    <3>4. NoteP!Owed(x)' \/ log'[x] # "none" \/ ~NoteP!InTable(x[2])' \/ x[1] \in hit'
      BY <2>1, <3>1, <3>2, <3>3, NoteP!OwedStays
    <3> QED
      BY <3>3, <3>4 DEF Note!InTable, NoteP!InTable
  <2>3. CASE UNCHANGED noteVars
    BY <1>1, <2>3 DEF noteVars, Note!Owed, Note!Busy, Note!Recipients
  <2>4. ASSUME NEW m \in Alerts, Retire(m) PROVE Note!Owed(x)'
    <3>1. x[1] # m
      <4>1. m \notin walletTasks /\ (\A i \in Ids : <<m, i>> \notin channelTasks)
            /\ \A p \in Workers : job[p] # Note!Idle => Note!AlertOf(p) # m
        BY <2>4 DEF Retire, UnderWay
      <4>2. x[1] \in Alerts /\ x[2] \in Ids /\ x = <<x[1], x[2]>>
        BY <2>1 DEF NoteP!Pairs
      <4> QED
        BY <1>1, <4>1, <4>2 DEF Note!Owed, Note!Busy, Note!AlertOf, Note!Idle
    <3>2. /\ to'[x[1]] = to[x[1]] /\ UNCHANGED <<table, walletTasks, channelTasks, job>>
      BY <2>4, <3>1 DEF Retire, DeliverySound, NoteP!TypeOK
    <3> QED
      BY <1>1, <3>2 DEF Note!Owed, Note!Busy, Note!Recipients
  <2> QED
    BY <1>1, <2>2, <2>3, <2>4, StepOfNotify DEF DebtInv, PathInv
<1>2. DebtInv /\ [Next]_vars => [Note!OwedIsKept]_vars
  BY <1>1 DEF Note!OwedIsKept
<1> QED
  BY <1>2, DebtInit, DebtNext, PTL DEF Spec
================================================================================
