-------------------------- MODULE AlertChannelsProofs --------------------------
(***************************************************************************)
(* Proofs about AlertChannels for every number of wallets, contacts,       *)
(* threads and channels, any token life and any number of failures.        *)
(***************************************************************************)
EXTENDS AlertChannels, TLAPS

(***************************************************************************)
(* Type correctness.                                                       *)
(***************************************************************************)

Request == Confirm \cup Delete \cup Register \cup {Free}

(* What a step does to the table: rows keep their type.                    *)
RowsOK ==
    /\ lastId \in 0..MaxRows
    /\ DOMAIN rows \subseteq 1..lastId
    /\ rows \in [DOMAIN rows -> Row]

(* What a step does to the requests and to the update in hand.             *)
TalkOK ==
    /\ req \in [Threads -> Request]
    /\ bot \in Update \cup {Idle}
    /\ bot # Idle => req[bot.thread].op # "free"
    /\ reply \in [text: Texts, answer: Answers]
    /\ connected \subseteq Contacts \X Ids

LEMMA ChannelTypeInit == Init => TypeOK
<1> SUFFICES ASSUME Init PROVE TypeOK
  OBVIOUS
<1>1. /\ lastId \in 0..MaxRows /\ timeouts \in 0..MaxTimeouts
      /\ failures \in 0..MaxFailures
  BY ChannelAssumption DEF Init
<1>2. DOMAIN rows = {} /\ rows \in [DOMAIN rows -> Row]
  BY DEF Init
<1>3. reply \in [text: Texts, answer: Answers]
  BY DEF Init, Texts, Answers
<1> QED
  BY <1>1, <1>2, <1>3 DEF Init, TypeOK

(* A row with a new id joins the table.                                    *)
LEMMA InsertType ==
    ASSUME TypeOK, NEW row \in Row, Insert(row)
    PROVE  RowsOK'
<1>1. lastId' = lastId + 1 /\ lastId' \in 1..MaxRows /\ lastId \in Nat
  BY ChannelAssumption DEF TypeOK, Insert
<1>2. DOMAIN rows' = DOMAIN rows \cup {lastId'}
  BY DEF Insert
<1>3. DOMAIN rows' \subseteq 1..lastId'
  BY <1>1, <1>2 DEF TypeOK
<1>4. \A i \in DOMAIN rows' : rows'[i] \in Row
  BY <1>2 DEF TypeOK, Insert
<1>5. rows' \in [DOMAIN rows' -> Row]
  BY <1>2, <1>4 DEF Insert
<1> QED
  BY <1>1, <1>3, <1>5 DEF RowsOK

(* The bot finds a text for every answer.                                  *)
LEMMA HearType ==
    ASSUME TypeOK, bot # Idle, NEW answer \in Answers, Hear(answer)
    PROVE  /\ bot' = Idle
           /\ reply' \in [text: Texts, answer: Answers]
           /\ connected' \subseteq Contacts \X Ids
<1>1. TextFor(bot, answer) \in Texts
  BY DEF TextFor, Texts
<1>2. <<bot.chat, bot.id>> \in Contacts \X Ids
  BY DEF TypeOK, Update
<1> QED
  BY <1>1, <1>2 DEF Hear, TypeOK

LEMMA AnswerType ==
    ASSUME TypeOK, NEW s \in Threads, NEW answer \in Answers, Answer(s, answer)
    PROVE  TalkOK'
<1>1. req' \in [Threads -> Request]
  BY DEF TypeOK, Answer, Request
<1>2. CASE WaitingFor(s)
  <2>1. bot # Idle /\ Hear(answer)
    BY <1>2 DEF Answer, WaitingFor
  <2> QED
    BY <1>1, <2>1, HearType DEF TalkOK
<1>3. CASE ~WaitingFor(s)
  <2>1. UNCHANGED <<bot, reply, connected>>
    BY <1>3 DEF Answer
  <2>2. bot # Idle => bot.thread \in Threads /\ bot.thread # s
    BY <1>3 DEF WaitingFor, TypeOK, Update
  <2>3. bot' # Idle => req'[bot'.thread].op # "free"
    BY <2>1, <2>2 DEF Answer, TypeOK
  <2> QED
    BY <1>1, <2>1, <2>3 DEF TalkOK, TypeOK
<1> QED
  BY <1>2, <1>3

(* A thread that goes on with its request, or begins one.                  *)
LEMMA ProceedType ==
    ASSUME TypeOK, NEW s \in Threads, NEW r \in Request, r.op # "free",
           req' = [req EXCEPT ![s] = r],
           UNCHANGED <<bot, reply, connected>>
    PROVE  TalkOK'
<1>1. req' \in [Threads -> Request]
  BY DEF TypeOK, Request
<1>2. bot # Idle => bot.thread \in Threads
  BY DEF TypeOK, Update
<1>3. bot' # Idle => req'[bot'.thread].op # "free"
  BY <1>2 DEF TypeOK
<1> QED
  BY <1>1, <1>3 DEF TalkOK, TypeOK

(* The bot begins an update with a request of a free thread.               *)
LEMMA UpdateType ==
    ASSUME TypeOK, NEW s \in Threads, NEW r \in Request, r.op # "free",
           NEW u \in Update, u.thread = s,
           req' = [req EXCEPT ![s] = r], bot' = u,
           UNCHANGED <<reply, connected>>
    PROVE  TalkOK'
<1>1. req' \in [Threads -> Request]
  BY DEF TypeOK, Request
<1>2. req'[s] = r
  BY DEF TypeOK
<1> QED
  BY <1>1, <1>2 DEF TalkOK, TypeOK

(* The rows of the table are read with a status.                           *)
LEMMA ReadType ==
    ASSUME TypeOK, NEW s \in Threads, req[s].op \in {"confirm", "delete"},
           req[s].id \in DOMAIN rows
    PROVE  [req[s] EXCEPT !.read = rows[req[s].id].status] \in Confirm \cup Delete
<1>1. rows[req[s].id].status \in ReadAs
  BY DEF TypeOK, Row, ReadAs
<1>2. req[s] \in Confirm \cup Delete
  BY DEF TypeOK, Free, Register
<1> QED
  BY <1>1, <1>2 DEF Confirm, Delete

(* The bounded counts and the histories.                                   *)
CountsOK ==
    /\ timeouts \in 0..MaxTimeouts
    /\ failures \in 0..MaxFailures
    /\ contended \subseteq Ids
    /\ doubled \subseteq Wallets \X Contacts

LEMMA TypeParts == TypeOK <=> RowsOK /\ TalkOK /\ CountsOK
BY DEF TypeOK, RowsOK, TalkOK, CountsOK, Request

(* The operations that take ids the table has given.                       *)
LEMMA GivenIds == TypeOK => 1..lastId \subseteq Ids /\ DOMAIN rows \subseteq Ids
BY ChannelAssumption DEF TypeOK, Ids

LEMMA AnswersDefined ==
    /\ {"ok", "error", "null", "not_found", "timeout"} \subseteq Answers
    /\ \A i : Refusal(i) # "none" => Refusal(i) \in Answers
BY DEF Answers, Refusal

(* Requests of each kind, by their fields.                                 *)
LEMMA RequestFields ==
    ASSUME TypeOK, NEW s \in Threads
    PROVE  /\ req[s].op = "confirm" => req[s] \in Confirm
           /\ req[s].op = "delete" => req[s] \in Delete
           /\ req[s].op = "register" => req[s] \in Register
           /\ req[s].op = "free" => req[s] = Free
BY DEF TypeOK, Confirm, Delete, Register, Free

(* The UPDATE keeps the table in its type.                                 *)
LEMMA ActivateType ==
    ASSUME TypeOK, NEW i, NEW c \in Contacts, NEW was, Activate(i, c, was),
           lastId' = lastId
    PROVE  RowsOK'
<1>1. DOMAIN rows' = DOMAIN rows /\ i \in DOMAIN rows
  BY DEF Activate
<1>2. \A j \in DOMAIN rows : rows[j] \in Row
  BY DEF TypeOK
<1>3. 0 \in 0..TokenTTL
  BY ChannelAssumption
<1>4. rows[i].contact \in Contacts \cup {NoContact}
  BY <1>1, <1>2 DEF Row
<1>5. [rows[i] EXCEPT !.contact = IF was = "active" THEN @ ELSE c,
                      !.token = FALSE, !.left = 0, !.status = "active"] \in Row
  BY <1>1, <1>2, <1>3, <1>4 DEF Row
<1>6. \A j \in DOMAIN rows : rows'[j] \in Row
  BY <1>1, <1>2, <1>5 DEF Activate
<1>7. rows' \in [DOMAIN rows' -> Row]
  BY <1>1, <1>6 DEF Activate
<1> QED
  BY <1>1, <1>7 DEF RowsOK, TypeOK

(* Tokens run out within their type.                                       *)
LEMMA ClockType == TypeOK /\ Clock => RowsOK'
<1> SUFFICES ASSUME TypeOK, Clock PROVE RowsOK'
  OBVIOUS
<1>1. DOMAIN rows' = DOMAIN rows
  BY DEF Clock
<1>2. ASSUME NEW i \in DOMAIN rows PROVE rows'[i] \in Row
  <2>1. rows[i] \in Row
    BY DEF TypeOK
  <2>2. rows[i].left \in 0..TokenTTL
    BY <2>1 DEF Row
  <2>3. (IF rows[i].left > 0 THEN rows[i].left - 1 ELSE 0) \in 0..TokenTTL
    BY <2>2, ChannelAssumption
  <2>4. rows'[i] = [rows[i] EXCEPT !.left =
                      IF rows[i].left > 0 THEN rows[i].left - 1 ELSE 0]
    BY DEF Clock
  <2> QED
    BY <2>1, <2>3, <2>4 DEF Row
<1>3. rows' \in [DOMAIN rows' -> Row]
  BY <1>1, <1>2 DEF Clock
<1> QED
  BY <1>1, <1>3 DEF RowsOK, TypeOK, Clock

LEMMA ChannelTypeNext == TypeOK /\ [Next]_vars => TypeOK'
<1> SUFFICES ASSUME TypeOK, [Next]_vars PROVE TypeOK'
  OBVIOUS
<1> USE DEF apiVars, botVars
<1>r. RowsOK /\ TalkOK /\ CountsOK
  BY TypeParts
<1>u. UNCHANGED <<rows, lastId>> => RowsOK'
  BY <1>r DEF RowsOK
<1>t. UNCHANGED <<req, bot, reply, connected>> => TalkOK'
  BY <1>r DEF TalkOK
<1>c. UNCHANGED <<timeouts, failures, contended, doubled>> => CountsOK'
  BY <1>r DEF CountsOK
<1>a. RowsOK' /\ TalkOK' /\ CountsOK' => TypeOK'
  BY TypeParts, PTL
<1>1. ASSUME NEW w \in Wallets, CreateTelegram(w) PROVE TypeOK'
  <2>1. [wallet |-> w, kind |-> "telegram", contact |-> NoContact, token |-> TRUE,
         left |-> TokenTTL, status |-> "pending"] \in Row
    BY ChannelAssumption DEF Row
  <2>2. RowsOK'
    BY <1>1, <2>1, InsertType DEF CreateTelegram
  <2> QED
    BY <1>1, <2>2, <1>t, <1>c, <1>a DEF CreateTelegram
<1>2. ASSUME NEW s \in Threads, NEW w \in Wallets, NEW c \in Contacts,
             RegisterCheck(s, w, c)
      PROVE TypeOK'
  <2>1. [op |-> "register", wallet |-> w, contact |-> c] \in Request
    BY DEF Request, Register
  <2>2. TalkOK'
    BY <1>2, <2>1, ProceedType DEF RegisterCheck
  <2>3. CountsOK'
    BY <1>2, <1>r DEF RegisterCheck, CountsOK
  <2> QED
    BY <1>2, <2>2, <2>3, <1>u, <1>a DEF RegisterCheck
<1>3. ASSUME NEW s \in Threads, RegisterInsert(s) PROVE TypeOK'
  <2>1. req[s] \in Register
    BY <1>3, RequestFields DEF RegisterInsert
  <2>2. [wallet |-> req[s].wallet, kind |-> "direct", contact |-> req[s].contact,
         token |-> FALSE, left |-> 0, status |-> "active"] \in Row
    BY <2>1, ChannelAssumption DEF Row, Register
  <2>3. RowsOK'
    BY <1>3, <2>2, InsertType DEF RegisterInsert
  <2>4. TalkOK' /\ timeouts' = timeouts
    BY <1>3, AnswerType, AnswersDefined DEF RegisterInsert, Answer
  <2> QED
    BY <1>3, <2>3, <2>4, <1>c, <1>a DEF RegisterInsert
<1>4. ASSUME NEW s \in Threads, ConfirmRefused(s) PROVE TypeOK'
  <2>1. TalkOK' /\ timeouts' = timeouts
    BY <1>4, AnswerType, AnswersDefined DEF ConfirmRefused, Answer
  <2> QED
    BY <1>4, <2>1, <1>u, <1>c, <1>a DEF ConfirmRefused
<1>5. ASSUME NEW s \in Threads, ConfirmRead(s) PROVE TypeOK'
  <2>1. req[s].op = "confirm" /\ req[s].id \in DOMAIN rows
    BY <1>5 DEF ConfirmRead, Unread, Refusal, WithToken
  <2>2. [req[s] EXCEPT !.read = rows[req[s].id].status] \in Confirm \cup Delete
    BY <2>1, ReadType
  <2>3. [req[s] EXCEPT !.read = rows[req[s].id].status].op # "free"
    BY <2>2 DEF Confirm, Delete
  <2>4. TalkOK'
    BY <1>5, <2>2, <2>3, ProceedType DEF ConfirmRead, Request
  <2>5. CountsOK'
    BY <1>5, <1>r, <2>1, GivenIds DEF ConfirmRead, CountsOK
  <2> QED
    BY <1>5, <2>4, <2>5, <1>u, <1>a DEF ConfirmRead
<1>6. ASSUME NEW s \in Threads, ConfirmWrite(s) PROVE TypeOK'
  <2>1. req[s].chat \in Contacts
    BY <1>6, RequestFields DEF ConfirmWrite, Confirm
  <2>2. RowsOK'
    BY <1>6, <2>1, ActivateType DEF ConfirmWrite
  <2>3. TalkOK' /\ timeouts' = timeouts
    BY <1>6, AnswerType, AnswersDefined DEF ConfirmWrite, Answer
  <2> QED
    BY <1>6, <2>2, <2>3, <1>c, <1>a DEF ConfirmWrite
<1>7. ASSUME NEW s \in Threads, ConfirmStale(s) PROVE TypeOK'
  <2>1. TalkOK' /\ timeouts' = timeouts
    BY <1>7, AnswerType, AnswersDefined DEF ConfirmStale, Answer
  <2> QED
    BY <1>7, <2>1, <1>u, <1>c, <1>a DEF ConfirmStale
<1>8. ASSUME NEW s \in Threads, NEW i \in Ids, RequestDelete(s, i) PROVE TypeOK'
  <2>1. [op |-> "delete", id |-> i, read |-> "nothing"] \in Request
    BY DEF Request, Delete, ReadAs
  <2>2. TalkOK'
    BY <1>8, <2>1, ProceedType DEF RequestDelete
  <2> QED
    BY <1>8, <2>2, <1>u, <1>c, <1>a DEF RequestDelete
<1>9. ASSUME NEW s \in Threads, DeleteRead(s) PROVE TypeOK'
  <2>1. CASE req[s].id \in DOMAIN rows
    <3>1. [req[s] EXCEPT !.read = rows[req[s].id].status] \in Confirm \cup Delete
      BY <1>9, <2>1, ReadType DEF DeleteRead, Unread
    <3>2. [req[s] EXCEPT !.read = rows[req[s].id].status].op # "free"
      BY <3>1 DEF Confirm, Delete
    <3>3. TalkOK'
      BY <1>9, <2>1, <3>1, <3>2, ProceedType DEF DeleteRead, Request
    <3> QED
      BY <1>9, <2>1, <3>3, <1>u, <1>c, <1>a DEF DeleteRead
  <2>2. CASE req[s].id \notin DOMAIN rows
    <3>1. TalkOK' /\ timeouts' = timeouts
      BY <1>9, <2>2, AnswerType, AnswersDefined DEF DeleteRead, Answer
    <3> QED
      BY <1>9, <3>1, <1>u, <1>c, <1>a DEF DeleteRead
  <2> QED
    BY <2>1, <2>2
<1>10. ASSUME NEW s \in Threads, DeleteWrite(s) PROVE TypeOK'
  <2>1. RowsOK'
    BY <1>10, <1>r DEF DeleteWrite, RowsOK, Restrict
  <2>2. TalkOK' /\ timeouts' = timeouts
    BY <1>10, AnswerType, AnswersDefined DEF DeleteWrite, Answer
  <2> QED
    BY <1>10, <2>1, <2>2, <1>c, <1>a DEF DeleteWrite
<1>11. ASSUME NEW s \in Threads, ApiFails(s) PROVE TypeOK'
  <2>1. TalkOK' /\ timeouts' = timeouts
    BY <1>11, AnswerType, AnswersDefined DEF ApiFails, Answer
  <2>2. CountsOK'
    BY <1>11, <1>r, <2>1, ChannelAssumption DEF ApiFails, CountsOK
  <2> QED
    BY <1>11, <2>1, <2>2, <1>u, <1>a DEF ApiFails
<1>12. ASSUME NEW s \in Threads, NEW c \in Contacts, NEW i \in Ids, StartCommand(s, c, i)
       PROVE TypeOK'
  <2>1. /\ [op |-> "confirm", id |-> i, chat |-> c, read |-> "nothing"] \in Request
        /\ [doing |-> "confirm", chat |-> c, id |-> i, thread |-> s] \in Update
    BY DEF Request, Confirm, ReadAs, Update
  <2>2. TalkOK'
    BY <1>12, <2>1, UpdateType DEF StartCommand
  <2> QED
    BY <1>12, <2>2, <1>u, <1>c, <1>a DEF StartCommand
<1>13. ASSUME NEW s \in Threads, NEW c \in Contacts, NEW i \in Ids, StopCommand(s, c, i)
       PROVE TypeOK'
  <2>1. /\ [op |-> "delete", id |-> i, read |-> "nothing"] \in Request
        /\ [doing |-> "disconnect", chat |-> c, id |-> i, thread |-> s] \in Update
    BY DEF Request, Delete, ReadAs, Update
  <2>2. TalkOK'
    BY <1>13, <2>1, UpdateType DEF StopCommand
  <2> QED
    BY <1>13, <2>2, <1>u, <1>c, <1>a DEF StopCommand
<1>14. ASSUME NEW c \in Contacts, StopWithoutChannel(c) PROVE TypeOK'
  <2>1. TalkOK'
    BY <1>14, <1>r DEF StopWithoutChannel, TalkOK, Texts, Answers
  <2> QED
    BY <1>14, <2>1, <1>u, <1>c, <1>a DEF StopWithoutChannel
<1>15. ASSUME StopLookupFails PROVE TypeOK'
  <2>1. TalkOK'
    BY <1>15, <1>r DEF StopLookupFails, TalkOK, Texts, Answers
  <2>2. CountsOK'
    BY <1>15, <1>r, ChannelAssumption DEF StopLookupFails, CountsOK
  <2> QED
    BY <1>15, <2>1, <2>2, <1>u, <1>a DEF StopLookupFails
<1>16. ASSUME GiveUp PROVE TypeOK'
  <2>1. TalkOK'
    BY <1>16, <1>r, HearType, AnswersDefined DEF GiveUp, TalkOK
  <2>2. CountsOK'
    BY <1>16, <1>r, ChannelAssumption DEF GiveUp, CountsOK
  <2> QED
    BY <1>16, <2>1, <2>2, <1>u, <1>a DEF GiveUp
<1>17. ASSUME BotRestarts PROVE TypeOK'
  <2>1. TalkOK'
    BY <1>17, <1>r DEF BotRestarts, TalkOK
  <2> QED
    BY <1>17, <2>1, <1>u, <1>c, <1>a DEF BotRestarts
<1>18. ASSUME Clock PROVE TypeOK'
  BY <1>18, ClockType, <1>t, <1>c, <1>a DEF Clock
<1>19. ASSUME UNCHANGED vars PROVE TypeOK'
  BY <1>19, <1>u, <1>t, <1>c, <1>a DEF vars
<1> QED
  BY <1>1, <1>2, <1>3, <1>4, <1>5, <1>6, <1>7, <1>8, <1>9, <1>10, <1>11, <1>12,
     <1>13, <1>14, <1>15, <1>16, <1>17, <1>18, <1>19 DEF Next, Serve

(* Table, requests and the bot's update keep their types, and the update   *)
(* in hand always has a request that is served (alerts.py:121-347,         *)
(* telegram_bot/main.py:79-244).                                           *)
THEOREM ChannelTypeCorrect == Spec => []TypeOK
BY ChannelTypeInit, ChannelTypeNext, PTL DEF Spec

(***************************************************************************)
(* Ids: the only step that adds a row takes an id nobody had.              *)
(***************************************************************************)

Grows == lastId' = lastId + 1 /\ DOMAIN rows' = DOMAIN rows \cup {lastId + 1}
Shrinks == lastId' = lastId /\ DOMAIN rows' \subseteq DOMAIN rows

LEMMA GrowsOrShrinks == [Next]_vars => Grows \/ Shrinks
<1> SUFFICES ASSUME [Next]_vars PROVE Grows \/ Shrinks
  OBVIOUS
<1> USE DEF apiVars, botVars
<1>i. ASSUME NEW row, Insert(row) PROVE Grows
  BY <1>i DEF Insert, Grows
<1>1. ASSUME NEW w \in Wallets, CreateTelegram(w) PROVE Grows
  BY <1>1, <1>i DEF CreateTelegram
<1>2. ASSUME NEW s \in Threads, Serve(s) PROVE Grows \/ Shrinks
  <2>1. CASE RegisterInsert(s)
    BY <2>1, <1>i DEF RegisterInsert
  <2>2. CASE ConfirmWrite(s)
    BY <2>2 DEF ConfirmWrite, Activate, Shrinks
  <2>3. CASE DeleteWrite(s)
    BY <2>3 DEF DeleteWrite, Restrict, Shrinks
  <2>4. CASE ConfirmRefused(s) \/ ConfirmRead(s) \/ ConfirmStale(s)
             \/ DeleteRead(s) \/ ApiFails(s)
    BY <2>4 DEF ConfirmRefused, ConfirmRead, ConfirmStale, DeleteRead, ApiFails, Shrinks
  <2> QED
    BY <1>2, <2>1, <2>2, <2>3, <2>4 DEF Serve
<1>3. ASSUME NEW s \in Threads, NEW w \in Wallets, NEW c \in Contacts,
             RegisterCheck(s, w, c)
      PROVE Shrinks
  BY <1>3 DEF RegisterCheck, Shrinks
<1>4. ASSUME NEW s \in Threads, NEW i \in Ids,
             \/ RequestDelete(s, i)
             \/ \E c \in Contacts : StartCommand(s, c, i) \/ StopCommand(s, c, i)
      PROVE Shrinks
  BY <1>4 DEF RequestDelete, StartCommand, StopCommand, Shrinks
<1>5. ASSUME \/ \E c \in Contacts : StopWithoutChannel(c)
             \/ StopLookupFails \/ GiveUp \/ BotRestarts \/ Clock
      PROVE Shrinks
  BY <1>5 DEF StopWithoutChannel, StopLookupFails, GiveUp, BotRestarts, Clock, Shrinks
<1>6. ASSUME UNCHANGED vars PROVE Shrinks
  BY <1>6 DEF vars, Shrinks
<1> QED
  BY <1>1, <1>2, <1>3, <1>4, <1>5, <1>6 DEF Next

(* A deleted channel does not come back: a confirmation under way updates  *)
(* a row or nothing, it never inserts one (alerts.py:283-288, 342-346).    *)
THEOREM DeletedStayDeleted == Spec => DeletedStaysDeleted
<1>1. TypeOK /\ [Next]_vars
        => [\A i \in 1..lastId : i \notin DOMAIN rows => i \notin DOMAIN rows']_vars
  <2> SUFFICES ASSUME TypeOK, [Next]_vars,
                      NEW i \in 1..lastId, i \notin DOMAIN rows
               PROVE  i \notin DOMAIN rows'
    OBVIOUS
  <2>1. lastId \in Nat
    BY ChannelAssumption DEF TypeOK
  <2> QED
    BY <2>1, GrowsOrShrinks DEF Grows, Shrinks
<1> QED
  BY <1>1, ChannelTypeInit, ChannelTypeNext, PTL DEF Spec, DeletedStaysDeleted

(***************************************************************************)
(* What readers of a channel know.                                         *)
(***************************************************************************)

(* Thread s has read channel i and is about to activate it.                *)
Reading(s, i) ==
    req[s].op = "confirm" /\ req[s].read # "nothing" /\ req[s].id = i

(* An active channel has no token: only pending ones are ever read.        *)
TokenMeansPending == \A i \in DOMAIN rows : rows[i].token => rows[i].status = "pending"

ReadersKnow ==
    \A s \in Threads, i \in Ids : Reading(s, i) =>
        /\ req[s].read = "pending"
        /\ i \in 1..lastId
        /\ i \in DOMAIN rows => rows[i].kind = "telegram"

(* The bot, while it confirms, waits for the confirmation it asked for.    *)
BotAsks ==
    bot # Idle /\ bot.doing = "confirm" =>
        /\ req[bot.thread].op = "confirm"
        /\ req[bot.thread].id = bot.id
        /\ req[bot.thread].chat = bot.chat

ReadInv == TypeOK /\ TokenMeansPending /\ ReadersKnow /\ BotAsks

(* The steps that neither add nor change what the invariants look at: rows *)
(* may only go or age, requests may only end or begin unread.              *)
Kept(i) ==
    /\ rows'[i].kind = rows[i].kind /\ rows'[i].wallet = rows[i].wallet
    /\ rows'[i].contact = rows[i].contact /\ rows'[i].token = rows[i].token
    /\ rows'[i].status = rows[i].status

QuietRows == DOMAIN rows' \subseteq DOMAIN rows /\ \A i \in DOMAIN rows' : Kept(i)

QuietReq ==
    \A s \in Threads : \/ req'[s] = req[s]
                       \/ req'[s].op \in {"free", "delete"}
                       \/ req'[s].op = "confirm" /\ req'[s].read = "nothing"

Quiet == QuietRows /\ QuietReq /\ UNCHANGED <<lastId, connected, contended, doubled>>

LEMMA AnswerIsQuiet ==
    ASSUME TypeOK, NEW s \in Threads, NEW answer \in Answers, Answer(s, answer)
    PROVE  /\ QuietReq
           /\ answer # "ok" => connected' = connected
<1>1. QuietReq
  BY DEF TypeOK, Answer, QuietReq, Free
<1>2. ASSUME answer # "ok" PROVE TextFor(bot, answer) # "connected"
  BY <1>2 DEF TextFor, Result
<1>3. ASSUME answer # "ok" PROVE connected' = connected
  BY <1>2, <1>3 DEF Answer, Hear
<1> QED
  BY <1>1, <1>3

LEMMA SameRows == rows' = rows => QuietRows
BY DEF QuietRows, Kept

LEMMA StepKinds ==
    ASSUME TypeOK, [Next]_vars
    PROVE  \/ \E w \in Wallets : CreateTelegram(w)
           \/ \E s \in Threads, w \in Wallets, c \in Contacts : RegisterCheck(s, w, c)
           \/ \E s \in Threads : RegisterInsert(s) \/ ConfirmRead(s) \/ ConfirmWrite(s)
           \/ Quiet
<1> USE DEF apiVars, botVars
<1>1. ASSUME NEW s \in Threads, ConfirmRefused(s) PROVE Quiet
  <2>1. Refusal(req[s].id) \in Answers \ {"ok"}
    BY <1>1, AnswersDefined DEF ConfirmRefused, Refusal
  <2> QED
    BY <1>1, <2>1, AnswerIsQuiet, SameRows DEF ConfirmRefused, Quiet
<1>2. ASSUME NEW s \in Threads, ConfirmStale(s) \/ ApiFails(s) PROVE Quiet
  <2>1. Answer(s, "error") /\ UNCHANGED <<rows, lastId, contended, doubled>>
    BY <1>2 DEF ConfirmStale, ApiFails
  <2> QED
    BY <2>1, AnswersDefined, AnswerIsQuiet, SameRows DEF Quiet
<1>3. ASSUME NEW s \in Threads, DeleteRead(s) PROVE Quiet
  <2>1. CASE req[s].id \in DOMAIN rows
    <3>1. \A q \in Threads : req'[q] = req[q] \/ req'[q].op = "delete"
      BY <1>3, <2>1, RequestFields DEF DeleteRead, Unread, TypeOK, Delete
    <3> QED
      BY <1>3, <2>1, <3>1, SameRows DEF DeleteRead, Quiet, QuietReq
  <2>2. CASE req[s].id \notin DOMAIN rows
    <3>1. Answer(s, "not_found") /\ UNCHANGED <<rows, lastId, contended, doubled>>
      BY <1>3, <2>2 DEF DeleteRead
    <3> QED
      BY <3>1, AnswersDefined, AnswerIsQuiet, SameRows DEF Quiet
  <2> QED
    BY <2>1, <2>2
<1>4. ASSUME NEW s \in Threads, DeleteWrite(s) PROVE Quiet
  <2>1. Answer(s, "null") /\ UNCHANGED <<lastId, contended, doubled>>
    BY <1>4 DEF DeleteWrite
  <2>2. QuietRows
    BY <1>4 DEF DeleteWrite, Restrict, QuietRows, Kept
  <2> QED
    BY <2>1, <2>2, AnswersDefined, AnswerIsQuiet DEF Quiet
<1>5. ASSUME NEW s \in Threads, NEW i \in Ids,
             \/ RequestDelete(s, i)
             \/ \E c \in Contacts : StartCommand(s, c, i) \/ StopCommand(s, c, i)
      PROVE Quiet
  <2>1. QuietReq
    BY <1>5 DEF RequestDelete, StartCommand, StopCommand, QuietReq, TypeOK
  <2> QED
    BY <1>5, <2>1, SameRows DEF RequestDelete, StartCommand, StopCommand, Quiet
<1>6. ASSUME \/ \E c \in Contacts : StopWithoutChannel(c)
             \/ StopLookupFails \/ BotRestarts \/ UNCHANGED vars
      PROVE Quiet
  BY <1>6, SameRows DEF StopWithoutChannel, StopLookupFails, BotRestarts, vars, Quiet, QuietReq
<1>7. ASSUME GiveUp PROVE Quiet
  <2>1. TextFor(bot, "timeout") # "connected"
    BY DEF TextFor, Result
  <2> QED
    BY <1>7, <2>1, SameRows DEF GiveUp, Hear, Quiet, QuietReq
<1>8. ASSUME Clock PROVE Quiet
  <2>1. QuietRows
    <3>1. DOMAIN rows' = DOMAIN rows
      BY <1>8 DEF Clock
    <3>2. ASSUME NEW i \in DOMAIN rows PROVE Kept(i)
      <4>1. rows[i] \in Row
        BY DEF TypeOK
      <4> QED
        BY <1>8, <4>1 DEF Clock, Kept, Row
    <3> QED
      BY <3>1, <3>2 DEF QuietRows
  <2> QED
    BY <1>8, <2>1 DEF Clock, Quiet, QuietReq
<1> QED
  BY <1>1, <1>2, <1>3, <1>4, <1>5, <1>6, <1>7, <1>8 DEF Next, Serve

LEMMA AnswerKeepsBot ==
    ASSUME TypeOK, BotAsks, NEW s \in Threads, NEW answer, Answer(s, answer)
    PROVE  BotAsks'
<1>1. CASE WaitingFor(s)
  BY <1>1 DEF Answer, Hear, BotAsks
<1>2. CASE ~WaitingFor(s)
  <2>1. bot' = bot /\ (bot # Idle => bot.thread # s)
    BY <1>2 DEF Answer, WaitingFor
  <2>2. bot # Idle => req'[bot.thread] = req[bot.thread]
    BY <2>1 DEF Answer, TypeOK, Update
  <2> QED
    BY <2>1, <2>2 DEF BotAsks
<1> QED
  BY <1>1, <1>2

(* A thread that begins a request was free, so the bot waits for another.  *)
LEMMA BeginKeepsBot ==
    ASSUME TypeOK, BotAsks, NEW s \in Threads, req[s] = Free, NEW r,
           req' = [req EXCEPT ![s] = r], bot' = bot
    PROVE  BotAsks'
<1>1. bot # Idle => bot.thread \in Threads /\ bot.thread # s
  BY DEF TypeOK, Update, Free
<1> QED
  BY <1>1 DEF BotAsks, TypeOK

LEMMA ReadKeepsBot ==
    ASSUME TypeOK, BotAsks, NEW s \in Threads, NEW r,
           req' = [req EXCEPT ![s].read = r], bot' = bot
    PROVE  BotAsks'
<1>1. ASSUME bot # Idle, bot.doing = "confirm"
      PROVE  /\ req'[bot.thread].op = "confirm"
             /\ req'[bot.thread].id = bot.id
             /\ req'[bot.thread].chat = bot.chat
  <2>1. bot.thread \in Threads
    BY <1>1 DEF TypeOK, Update
  <2>2. req[bot.thread] \in Confirm
    BY <1>1, <2>1, RequestFields DEF BotAsks
  <2>3. req'[bot.thread] = IF bot.thread = s THEN [req[s] EXCEPT !.read = r]
                           ELSE req[bot.thread]
    BY <2>1 DEF TypeOK
  <2> QED
    BY <1>1, <2>2, <2>3 DEF BotAsks, Confirm
<1> QED
  BY <1>1 DEF BotAsks

LEMMA BotAsksNext ==
    ASSUME TypeOK, BotAsks, [Next]_vars
    PROVE  BotAsks'
<1> USE DEF apiVars, botVars
<1>1. ASSUME NEW s \in Threads, Serve(s) PROVE BotAsks'
  <2>1. CASE ConfirmRead(s)
    BY <2>1, ReadKeepsBot DEF ConfirmRead
  <2>2. CASE DeleteRead(s) /\ req[s].id \in DOMAIN rows
    BY <2>2, ReadKeepsBot DEF DeleteRead
  <2>3. CASE DeleteRead(s) /\ req[s].id \notin DOMAIN rows
    BY <2>3, AnswerKeepsBot DEF DeleteRead
  <2>4. CASE RegisterInsert(s) \/ ConfirmRefused(s) \/ ConfirmWrite(s)
             \/ ConfirmStale(s) \/ DeleteWrite(s) \/ ApiFails(s)
    BY <2>4, AnswerKeepsBot
       DEF RegisterInsert, ConfirmRefused, ConfirmWrite, ConfirmStale, DeleteWrite, ApiFails
  <2> QED
    BY <1>1, <2>1, <2>2, <2>3, <2>4 DEF Serve
<1>2. ASSUME NEW s \in Threads, NEW w \in Wallets, NEW c \in Contacts,
             RegisterCheck(s, w, c)
      PROVE BotAsks'
  BY <1>2, BeginKeepsBot DEF RegisterCheck
<1>3. ASSUME NEW s \in Threads, NEW i \in Ids, RequestDelete(s, i) PROVE BotAsks'
  BY <1>3, BeginKeepsBot DEF RequestDelete
<1>4. ASSUME NEW s \in Threads, NEW i \in Ids, NEW c \in Contacts,
             StartCommand(s, c, i) \/ StopCommand(s, c, i)
      PROVE BotAsks'
  BY <1>4 DEF StartCommand, StopCommand, BotAsks, TypeOK
<1>5. ASSUME \/ \E w \in Wallets : CreateTelegram(w)
             \/ \E c \in Contacts : StopWithoutChannel(c)
             \/ StopLookupFails \/ Clock \/ UNCHANGED vars
      PROVE BotAsks'
  <2>1. UNCHANGED <<req, bot>>
    BY <1>5 DEF CreateTelegram, StopWithoutChannel, StopLookupFails, Clock, vars
  <2> QED
    BY <2>1 DEF BotAsks
<1>6. ASSUME GiveUp \/ BotRestarts PROVE BotAsks'
  BY <1>6 DEF GiveUp, Hear, BotRestarts, BotAsks
<1> QED
  BY <1>1, <1>2, <1>3, <1>4, <1>5, <1>6 DEF Next

LEMMA ReadInvInit == Init => ReadInv
BY ChannelTypeInit DEF Init, ReadInv, TokenMeansPending, ReadersKnow, Reading, BotAsks, Free, Idle

LEMMA TokenNext ==
    ASSUME ReadInv, [Next]_vars
    PROVE  TokenMeansPending'
<1> USE DEF ReadInv
<1>1. ASSUME NEW row, Insert(row), row.token => row.status = "pending"
      PROVE TokenMeansPending'
  BY <1>1 DEF Insert, TokenMeansPending
<1>2. ASSUME NEW w \in Wallets, CreateTelegram(w) PROVE TokenMeansPending'
  BY <1>2, <1>1 DEF CreateTelegram
<1>3. ASSUME NEW s \in Threads, RegisterInsert(s) PROVE TokenMeansPending'
  BY <1>3, <1>1 DEF RegisterInsert
<1>4. ASSUME NEW s \in Threads, ConfirmWrite(s) PROVE TokenMeansPending'
  <2>1. \A j \in DOMAIN rows : rows[j] \in Row
    BY DEF TypeOK
  <2>2. ~rows'[req[s].id].token
    BY <1>4, <2>1 DEF ConfirmWrite, Activate, Row
  <2>3. DOMAIN rows' = DOMAIN rows
        /\ \A j \in DOMAIN rows : j # req[s].id => rows'[j] = rows[j]
    BY <1>4 DEF ConfirmWrite, Activate
  <2> QED
    BY <2>2, <2>3 DEF TokenMeansPending
<1>5. ASSUME rows' = rows PROVE TokenMeansPending'
  BY <1>5 DEF TokenMeansPending
<1>6. ASSUME Quiet PROVE TokenMeansPending'
  BY <1>6 DEF Quiet, QuietRows, Kept, TokenMeansPending
<1> QED
  BY StepKinds, <1>2, <1>3, <1>4, <1>5, <1>6 DEF RegisterCheck, ConfirmRead

(* A thread that reads a channel after the step read it before, but for the*)
(* one that takes ConfirmRead.                                             *)
LEMMA ReadersAfter ==
    ASSUME TypeOK, QuietReq, NEW s \in Threads, NEW i, Reading(s, i)'
    PROVE  Reading(s, i) /\ req'[s] = req[s]
BY DEF QuietReq, Reading

(* The requests of the steps that are not quiet.                           *)
LEMMA OwnRequest ==
    ASSUME TypeOK, NEW s \in Threads
    PROVE  /\ \A w \in Wallets, c \in Contacts : RegisterCheck(s, w, c) =>
                 \A q \in Threads : \A i : Reading(q, i)' => Reading(q, i) /\ req'[q] = req[q]
           /\ ConfirmRead(s) =>
                 /\ req[s].id \in DOMAIN rows /\ rows[req[s].id].token
                 /\ rows[req[s].id].kind = "telegram"
                 /\ req'[s] = [req[s] EXCEPT !.read = rows[req[s].id].status]
                 /\ \A q \in Threads \ {s} : req'[q] = req[q]
           /\ RegisterInsert(s) \/ ConfirmWrite(s) => QuietReq
<1>1. ASSUME NEW w \in Wallets, NEW c \in Contacts, RegisterCheck(s, w, c),
             NEW q \in Threads, NEW i, Reading(q, i)'
      PROVE  Reading(q, i) /\ req'[q] = req[q]
  BY <1>1 DEF RegisterCheck, Reading, TypeOK
<1>2. ASSUME ConfirmRead(s)
      PROVE  /\ req[s].id \in DOMAIN rows /\ rows[req[s].id].token
             /\ rows[req[s].id].kind = "telegram"
             /\ req'[s] = [req[s] EXCEPT !.read = rows[req[s].id].status]
             /\ \A q \in Threads \ {s} : req'[q] = req[q]
  <2>1. /\ req[s].id \in DOMAIN rows /\ rows[req[s].id].token
        /\ rows[req[s].id].kind = "telegram"
    BY <1>2 DEF ConfirmRead, Refusal, WithToken
  <2> QED
    BY <1>2, <2>1 DEF ConfirmRead, TypeOK
<1>3. ASSUME RegisterInsert(s) \/ ConfirmWrite(s) PROVE QuietReq
  BY <1>3, AnswerIsQuiet, AnswersDefined DEF RegisterInsert, ConfirmWrite
<1> QED
  BY <1>1, <1>2, <1>3

(* The type and the owner of a channel never change.                       *)
LEMMA KindKept ==
    ASSUME TypeOK, [Next]_vars, NEW i \in DOMAIN rows', i \in 1..lastId
    PROVE  /\ i \in DOMAIN rows
           /\ rows'[i].kind = rows[i].kind /\ rows'[i].wallet = rows[i].wallet
<1>1. i \in DOMAIN rows
  <2>1. lastId \in Nat
    BY ChannelAssumption DEF TypeOK
  <2> QED
    BY <2>1, GrowsOrShrinks DEF Grows, Shrinks
<1>2. ASSUME NEW row, Insert(row) PROVE rows'[i] = rows[i]
  <2>1. i # lastId'
    BY <1>2, ChannelAssumption DEF TypeOK, Insert
  <2> QED
    BY <1>1, <1>2, <2>1 DEF Insert
<1>3. ASSUME NEW s \in Threads, ConfirmWrite(s)
      PROVE rows'[i].kind = rows[i].kind /\ rows'[i].wallet = rows[i].wallet
  <2>1. rows[i] \in Row
    BY <1>1 DEF TypeOK
  <2> QED
    BY <1>1, <1>3, <2>1 DEF ConfirmWrite, Activate, Row
<1>4. ASSUME Quiet
      PROVE rows'[i].kind = rows[i].kind /\ rows'[i].wallet = rows[i].wallet
  BY <1>4 DEF Quiet, QuietRows, Kept
<1> QED
  BY <1>1, <1>2, <1>3, <1>4, StepKinds
     DEF CreateTelegram, RegisterInsert, RegisterCheck, ConfirmRead

LEMMA ReadersKnowNext ==
    ASSUME ReadInv, [Next]_vars
    PROVE  ReadersKnow'
<1> USE DEF ReadInv
<1> SUFFICES ASSUME NEW s \in Threads, NEW i \in Ids, Reading(s, i)'
             PROVE  /\ req'[s].read = "pending"
                    /\ i \in 1..lastId'
                    /\ i \in DOMAIN rows' => rows'[i].kind = "telegram"
  BY DEF ReadersKnow
<1>1. \A j \in 1..lastId : j \in 1..lastId'
  BY GrowsOrShrinks, ChannelAssumption DEF TypeOK, Grows, Shrinks
<1>2. ASSUME Reading(s, i), req'[s] = req[s]
      PROVE  /\ req'[s].read = "pending"
             /\ i \in 1..lastId'
             /\ i \in DOMAIN rows' => rows'[i].kind = "telegram"
  BY <1>1, <1>2, KindKept DEF ReadersKnow
<1>3. ASSUME ConfirmRead(s)
      PROVE  /\ req'[s].read = "pending"
             /\ i \in 1..lastId'
             /\ i \in DOMAIN rows' => rows'[i].kind = "telegram"
  <2>1. req[s] \in Confirm
    BY <1>3, RequestFields DEF ConfirmRead, Unread
  <2>2. /\ req[s].id \in DOMAIN rows /\ rows[req[s].id].token
        /\ rows[req[s].id].kind = "telegram"
        /\ req'[s] = [req[s] EXCEPT !.read = rows[req[s].id].status]
    BY <1>3, OwnRequest
  <2>3. req'[s].read = rows[req[s].id].status /\ req'[s].id = req[s].id
    BY <2>1, <2>2 DEF Confirm
  <2>4. i = req[s].id
    BY <2>3 DEF Reading
  <2> QED
    BY <1>3, <2>2, <2>3, <2>4 DEF TokenMeansPending, TypeOK, ConfirmRead
<1>4. ASSUME NEW q \in Threads, q # s, ConfirmRead(q)
      PROVE  Reading(s, i) /\ req'[s] = req[s]
  <2>1. req'[s] = req[s]
    BY <1>4, OwnRequest
  <2> QED
    BY <2>1 DEF Reading
<1>5. ASSUME NEW q \in Threads, RegisterInsert(q) \/ ConfirmWrite(q)
      PROVE  Reading(s, i) /\ req'[s] = req[s]
  BY <1>5, OwnRequest, ReadersAfter
<1>6. ASSUME NEW q \in Threads, NEW w \in Wallets, NEW c \in Contacts,
             RegisterCheck(q, w, c)
      PROVE  Reading(s, i) /\ req'[s] = req[s]
  BY <1>6, OwnRequest
<1>7. ASSUME NEW w \in Wallets, CreateTelegram(w)
      PROVE  Reading(s, i) /\ req'[s] = req[s]
  BY <1>7 DEF CreateTelegram, Reading
<1>8. ASSUME Quiet PROVE Reading(s, i) /\ req'[s] = req[s]
  BY <1>8, ReadersAfter DEF Quiet
<1> QED
  BY StepKinds, <1>2, <1>3, <1>4, <1>5, <1>6, <1>7, <1>8

LEMMA ReadInvNext == ReadInv /\ [Next]_vars => ReadInv'
BY ChannelTypeNext, TokenNext, ReadersKnowNext, BotAsksNext DEF ReadInv

(***************************************************************************)
(* Duplicates.                                                             *)
(***************************************************************************)

Registering(s, w, c) == req[s] = [op |-> "register", wallet |-> w, contact |-> c]

(* Two requests for one registration were counted when the second began.   *)
TwinsAreDoubled ==
    \A s, q \in Threads, w \in Wallets, c \in Contacts :
        s # q /\ Registering(s, w, c) /\ Registering(q, w, c) => <<w, c>> \in doubled

(* A request whose address was registered under its eyes had a twin.       *)
LateIsDoubled ==
    \A s \in Threads, w \in Wallets, c \in Contacts :
        Registering(s, w, c) /\ IsRegistered(w, c) => <<w, c>> \in doubled

DupInv == TwinsAreDoubled /\ LateIsDoubled /\ DuplicatesNeedOverlap

(* The steps that neither add a direct channel nor a request for one.      *)
DirectKept ==
    \A i \in DOMAIN rows' : rows'[i].kind = "direct" =>
        /\ i \in DOMAIN rows /\ rows[i].kind = "direct"
        /\ rows'[i].wallet = rows[i].wallet /\ rows'[i].contact = rows[i].contact

RegistersKept == \A s \in Threads : req'[s].op = "register" => req'[s] = req[s]

LEMMA DupInit == Init => DupInv
BY DEF Init, DupInv, TwinsAreDoubled, LateIsDoubled, DuplicatesNeedOverlap,
       Registering, Free

LEMMA DupStays ==
    ASSUME DupInv, DirectKept, RegistersKept, doubled \subseteq doubled'
    PROVE  DupInv'
<1>1. \A w, c : IsRegistered(w, c)' => IsRegistered(w, c)
  BY DEF DirectKept, IsRegistered
<1>2. \A s \in Threads : \A w, c : Registering(s, w, c)' => Registering(s, w, c)
  BY DEF RegistersKept, Registering
<1>3. TwinsAreDoubled'
  BY <1>2 DEF DupInv, TwinsAreDoubled
<1>4. LateIsDoubled'
  BY <1>1, <1>2 DEF DupInv, LateIsDoubled
<1>5. DuplicatesNeedOverlap'
  BY DEF DupInv, DuplicatesNeedOverlap, DirectKept
<1> QED
  BY <1>3, <1>4, <1>5 DEF DupInv

(* A request begins when nothing is registered; a twin is counted.         *)
LEMMA DupCheck ==
    ASSUME TypeOK, DupInv, NEW s \in Threads, NEW w \in Wallets, NEW c \in Contacts,
           RegisterCheck(s, w, c)
    PROVE  DupInv'
<1>1. /\ rows' = rows /\ ~IsRegistered(w, c)
      /\ req'[s] = [op |-> "register", wallet |-> w, contact |-> c]
      /\ \A q \in Threads \ {s} : req'[q] = req[q]
      /\ doubled \subseteq doubled'
      /\ (\E q \in Threads : req[q] = req'[s]) => <<w, c>> \in doubled'
  BY DEF RegisterCheck, TypeOK
<1>2. ASSUME NEW v, NEW d, Registering(s, v, d)' PROVE v = w /\ d = c
  BY <1>1, <1>2 DEF Registering
<1>3. ASSUME NEW q \in Threads \ {s}, NEW v, NEW d, Registering(q, v, d)'
      PROVE  Registering(q, v, d)
  BY <1>1, <1>3 DEF Registering
<1>4. ASSUME NEW q \in Threads \ {s}, Registering(q, w, c) PROVE <<w, c>> \in doubled'
  BY <1>1, <1>4 DEF Registering
<1>5. TwinsAreDoubled'
  <2> SUFFICES ASSUME NEW p \in Threads, NEW q \in Threads, p # q,
                      NEW v \in Wallets, NEW d \in Contacts,
                      Registering(p, v, d)', Registering(q, v, d)'
               PROVE  <<v, d>> \in doubled'
    BY DEF TwinsAreDoubled
  <2>1. CASE p = s
    BY <2>1, <1>2, <1>3, <1>4
  <2>2. CASE q = s
    BY <2>2, <1>2, <1>3, <1>4
  <2>3. CASE p # s /\ q # s
    BY <2>3, <1>1, <1>3 DEF DupInv, TwinsAreDoubled
  <2> QED
    BY <2>1, <2>2, <2>3
<1>6. LateIsDoubled'
  <2> SUFFICES ASSUME NEW q \in Threads, NEW v \in Wallets, NEW d \in Contacts,
                      Registering(q, v, d)', IsRegistered(v, d)'
               PROVE  <<v, d>> \in doubled'
    BY DEF LateIsDoubled
  <2>1. IsRegistered(v, d)
    BY <1>1 DEF IsRegistered
  <2>2. q # s
    BY <1>1, <1>2, <2>1
  <2> QED
    BY <1>1, <1>3, <2>1, <2>2 DEF DupInv, LateIsDoubled
<1>7. DuplicatesNeedOverlap'
  BY <1>1 DEF DupInv, DuplicatesNeedOverlap
<1> QED
  BY <1>5, <1>6, <1>7 DEF DupInv

(* The insert of a registration: whoever else holds the same one, in a     *)
(* request or in a row, was a twin.                                        *)
LEMMA DupInsert ==
    ASSUME TypeOK, DupInv, NEW s \in Threads, RegisterInsert(s)
    PROVE  DupInv'
<1>1. req[s] \in Register
  BY RequestFields DEF RegisterInsert
<1>2. PICK w \in Wallets, c \in Contacts : Registering(s, w, c)
  BY <1>1 DEF Register, Registering
<1>3. /\ lastId' = lastId + 1 /\ DOMAIN rows' = DOMAIN rows \cup {lastId'}
      /\ rows'[lastId'].wallet = w /\ rows'[lastId'].contact = c
      /\ lastId' \notin DOMAIN rows
      /\ \A i \in DOMAIN rows : rows'[i] = rows[i]
      /\ doubled' = doubled
  <2>1. lastId' = lastId + 1 /\ lastId' \notin DOMAIN rows
    BY ChannelAssumption DEF TypeOK, RegisterInsert, Insert
  <2>2. rows'[lastId'] = [wallet |-> w, kind |-> "direct", contact |-> c,
                          token |-> FALSE, left |-> 0, status |-> "active"]
    BY <1>2 DEF RegisterInsert, Insert, Registering
  <2> QED
    BY <2>1, <2>2 DEF RegisterInsert, Insert
<1>4. /\ req'[s] = Free
      /\ \A q \in Threads \ {s} : req'[q] = req[q]
  BY DEF RegisterInsert, Answer, TypeOK
<1>5. ASSUME NEW q \in Threads, NEW v, NEW d, Registering(q, v, d)'
      PROVE  q # s /\ Registering(q, v, d)
  BY <1>4, <1>5 DEF Registering, Free
<1>6. TwinsAreDoubled'
  BY <1>3, <1>5 DEF DupInv, TwinsAreDoubled
<1>7. LateIsDoubled'
  <2> SUFFICES ASSUME NEW q \in Threads, NEW v \in Wallets, NEW d \in Contacts,
                      Registering(q, v, d)', IsRegistered(v, d)'
               PROVE  <<v, d>> \in doubled'
    BY DEF LateIsDoubled
  <2>1. q # s /\ Registering(q, v, d)
    BY <1>5
  <2>2. IsRegistered(v, d) \/ (v = w /\ d = c)
    BY <1>3 DEF IsRegistered
  <2> QED
    BY <1>2, <1>3, <2>1, <2>2 DEF DupInv, LateIsDoubled, TwinsAreDoubled
<1>8. DuplicatesNeedOverlap'
  <2>1. IsRegistered(w, c) => <<w, c>> \in doubled
    BY <1>2 DEF DupInv, LateIsDoubled
  <2>2. ASSUME NEW i \in DOMAIN rows, rows[i].kind = "direct",
               rows[i].wallet = w, rows[i].contact = c
        PROVE  <<w, c>> \in doubled
    BY <2>1, <2>2 DEF IsRegistered
  <2> SUFFICES ASSUME NEW i \in DOMAIN rows', NEW j \in DOMAIN rows', i # j,
                      rows'[i].kind = "direct", rows'[j].kind = "direct",
                      rows'[i].wallet = rows'[j].wallet,
                      rows'[i].contact = rows'[j].contact
               PROVE  <<rows'[i].wallet, rows'[i].contact>> \in doubled'
    BY DEF DuplicatesNeedOverlap
  <2>3. CASE i = lastId'
    BY <1>3, <2>2, <2>3
  <2>4. CASE j = lastId'
    BY <1>3, <2>2, <2>4
  <2>5. CASE i # lastId' /\ j # lastId'
    BY <1>3, <2>5 DEF DupInv, DuplicatesNeedOverlap
  <2> QED
    BY <2>3, <2>4, <2>5
<1> QED
  BY <1>6, <1>7, <1>8 DEF DupInv

LEMMA DupInvNext == ReadInv /\ DupInv /\ [Next]_vars => DupInv'
<1> SUFFICES ASSUME ReadInv, DupInv, [Next]_vars PROVE DupInv'
  OBVIOUS
<1> USE DEF ReadInv
<1>0. QuietReq => RegistersKept
  BY DEF QuietReq, RegistersKept
<1>1. ASSUME NEW w \in Wallets, CreateTelegram(w) PROVE DupInv'
  <2>1. DirectKept
    BY <1>1 DEF CreateTelegram, Insert, DirectKept
  <2> QED
    BY <1>1, <2>1, DupStays DEF CreateTelegram, RegistersKept
<1>2. ASSUME NEW s \in Threads, ConfirmRead(s) PROVE DupInv'
  <2>1. req[s] \in Confirm
    BY <1>2, RequestFields DEF ConfirmRead, Unread
  <2>2. req'[s].op = "confirm"
    <3>1. req'[s] = [req[s] EXCEPT !.read = rows[req[s].id].status]
      BY <1>2, OwnRequest
    <3> QED
      BY <2>1, <3>1 DEF Confirm
  <2>3. RegistersKept
    BY <1>2, <2>2, OwnRequest DEF RegistersKept
  <2> QED
    BY <1>2, <2>3, DupStays DEF ConfirmRead, DirectKept
<1>3. ASSUME NEW s \in Threads, ConfirmWrite(s) PROVE DupInv'
  <2>1. req[s] \in Confirm /\ Reading(s, req[s].id)
    BY <1>3, RequestFields DEF ConfirmWrite, Reading
  <2>2. /\ DOMAIN rows' = DOMAIN rows
        /\ \A i \in DOMAIN rows : i # req[s].id => rows'[i] = rows[i]
        /\ req[s].id \in DOMAIN rows
    BY <1>3 DEF ConfirmWrite, Activate
  <2>3. rows[req[s].id].kind = "telegram"
    BY <2>1, <2>2 DEF ReadersKnow, Confirm
  <2>4. rows'[req[s].id].kind = "telegram"
    <3>1. \A i \in DOMAIN rows : i \in 1..lastId
      BY DEF TypeOK
    <3> QED
      BY <2>2, <2>3, <3>1, KindKept
  <2>5. DirectKept
    BY <2>2, <2>4 DEF DirectKept
  <2> QED
    BY <1>0, <1>3, <2>5, OwnRequest, DupStays DEF ConfirmWrite
<1>4. ASSUME Quiet PROVE DupInv'
  <2>1. DirectKept
    BY <1>4 DEF Quiet, QuietRows, Kept, DirectKept
  <2> QED
    BY <1>0, <1>4, <2>1, DupStays DEF Quiet
<1> QED
  BY StepKinds, DupCheck, DupInsert, <1>1, <1>2, <1>3, <1>4

(* A wallet registers an address twice only if both requests looked for a  *)
(* duplicate before either inserted (alerts.py:200-223).                   *)
THEOREM DuplicatesOverlap == Spec => []DuplicatesNeedOverlap
<1>1. DupInv => DuplicatesNeedOverlap
  BY DEF DupInv
<1> QED
  BY <1>1, ReadInvInit, ReadInvNext, DupInit, DupInvNext, PTL DEF Spec

(***************************************************************************)
(* Whom a channel belongs to.                                              *)
(***************************************************************************)

ReadersContend ==
    \A s, q \in Threads, i \in Ids :
        s # q /\ Reading(s, i) /\ Reading(q, i) => i \in contended

(* A channel somebody was told of is out of reach of further confirmations.*)
SettledFor(p) ==
    /\ p[2] \in 1..lastId
    /\ p[2] \in DOMAIN rows \ contended =>
         /\ rows[p[2]].contact = p[1]
         /\ ~rows[p[2]].token
         /\ \A s \in Threads : ~Reading(s, p[2])

Settled == \A p \in connected : SettledFor(p)

ToldInv == ReadersContend /\ Settled

LEMMA ToldInit == Init => ToldInv
BY DEF Init, ToldInv, ReadersContend, Settled, Reading, Free

LEMMA ReadersContendNext ==
    ASSUME ReadInv, ReadersContend, [Next]_vars
    PROVE  ReadersContend'
<1> USE DEF ReadInv
<1>1. ASSUME contended' = contended,
             \A s \in Threads, i \in Ids : Reading(s, i)' => Reading(s, i)
      PROVE ReadersContend'
  BY <1>1 DEF ReadersContend
<1>2. ASSUME NEW s \in Threads, ConfirmRead(s) PROVE ReadersContend'
  <2> SUFFICES ASSUME NEW p \in Threads, NEW q \in Threads, NEW i \in Ids,
                      p # q, Reading(p, i)', Reading(q, i)'
               PROVE  i \in contended'
    BY DEF ReadersContend
  <2>1. req[s] \in Confirm
    BY <1>2, RequestFields DEF ConfirmRead, Unread
  <2>2. req'[s].id = req[s].id
    <3>1. req'[s] = [req[s] EXCEPT !.read = rows[req[s].id].status]
      BY <1>2, OwnRequest
    <3> QED
      BY <2>1, <3>1 DEF Confirm
  <2>3. ASSUME NEW r \in Threads, r # s, Reading(r, i)' PROVE Reading(r, i)
    BY <1>2, <2>3, OwnRequest DEF Reading
  <2>4. ASSUME Reading(s, i)', NEW r \in Threads, r # s, Reading(r, i)'
        PROVE  i \in contended'
    <3>1. i = req[s].id /\ Reading(r, i)
      BY <2>2, <2>3, <2>4 DEF Reading
    <3>2. \E t \in Threads : /\ t # s /\ req[t].op = "confirm"
                             /\ req[t].id = req[s].id /\ req[t].read # "nothing"
      BY <2>4, <3>1 DEF Reading
    <3> QED
      BY <1>2, <3>1, <3>2 DEF ConfirmRead
  <2>5. CASE p # s /\ q # s
    BY <1>2, <2>3, <2>5 DEF ReadersContend, ConfirmRead
  <2> QED
    BY <2>4, <2>5
<1>3. ASSUME NEW s \in Threads, RegisterInsert(s) \/ ConfirmWrite(s)
      PROVE ReadersContend'
  <2>1. contended' = contended
    BY <1>3 DEF RegisterInsert, ConfirmWrite
  <2> QED
    BY <1>1, <1>3, <2>1, OwnRequest, ReadersAfter
<1>4. ASSUME NEW s \in Threads, NEW w \in Wallets, NEW c \in Contacts,
             RegisterCheck(s, w, c)
      PROVE ReadersContend'
  <2>1. contended' = contended
    BY <1>4 DEF RegisterCheck
  <2> QED
    BY <1>1, <1>4, <2>1, OwnRequest
<1>5. ASSUME NEW w \in Wallets, CreateTelegram(w) PROVE ReadersContend'
  BY <1>5 DEF CreateTelegram, ReadersContend, Reading
<1>6. ASSUME Quiet PROVE ReadersContend'
  BY <1>1, <1>6, ReadersAfter DEF Quiet
<1> QED
  BY StepKinds, <1>2, <1>3, <1>4, <1>5, <1>6

(* What a confirmation that commits leaves: the chat it names owns the row,*)
(* and nobody else has read it unless the two were counted.                *)
LEMMA WriterSettles ==
    ASSUME ReadInv, ReadersContend, NEW s \in Threads, ConfirmWrite(s),
           NEW i, i = req[s].id, NEW c, c = req[s].chat
    PROVE  SettledFor(<<c, i>>)'
<1> USE DEF ReadInv
<1>1. req[s] \in Confirm /\ i \in Ids
  BY RequestFields DEF ConfirmWrite, Confirm
<1>2. Reading(s, i)
  BY DEF ConfirmWrite, Reading
<1>3. req[s].read = "pending" /\ i \in 1..lastId
  BY <1>1, <1>2 DEF ReadersKnow
<1>4. i \in DOMAIN rows /\ rows[i] \in Row
  BY DEF ConfirmWrite, Activate, TypeOK
<1>5. rows'[i].contact = c /\ ~rows'[i].token
  BY <1>3, <1>4 DEF ConfirmWrite, Activate, Row
<1>6. req'[s] = Free
  BY DEF ConfirmWrite, Answer, TypeOK
<1>7. ASSUME NEW q \in Threads, Reading(q, i)' PROVE i \in contended'
  <2>1. q # s
    BY <1>6, <1>7 DEF Reading, Free
  <2>2. Reading(q, i)
    BY <1>7, OwnRequest, ReadersAfter
  <2> QED
    BY <1>1, <1>2, <2>1, <2>2 DEF ReadersContend, ConfirmWrite
<1>8. UNCHANGED lastId
  BY DEF ConfirmWrite
<1>9. /\ i \in 1..lastId'
      /\ i \in DOMAIN rows' \ contended' =>
           /\ rows'[i].contact = c
           /\ ~rows'[i].token
           /\ \A q \in Threads : ~Reading(q, i)'
  BY <1>3, <1>5, <1>7, <1>8
<1> QED
  BY <1>9 DEF SettledFor, Reading

(* A channel that is settled stays so.                                     *)
LEMMA SettledStays ==
    ASSUME ReadInv, [Next]_vars, NEW p \in connected, SettledFor(p)
    PROVE  SettledFor(p)'
<1> USE DEF ReadInv
<1> DEFINE i == p[2]
<1>1. i \in 1..lastId /\ i \in 1..lastId' /\ i \in Ids
  BY GrowsOrShrinks, GivenIds, ChannelAssumption
     DEF SettledFor, TypeOK, Grows, Shrinks
<1> SUFFICES ASSUME i \in DOMAIN rows', i \notin contended'
             PROVE  /\ rows'[i].contact = p[1]
                    /\ ~rows'[i].token
                    /\ \A q \in Threads : ~Reading(q, i)'
  BY <1>1 DEF SettledFor, Reading
<1>2. i \in DOMAIN rows
  BY <1>1, KindKept
<1>3. ASSUME i \notin contended
      PROVE  /\ rows[i].contact = p[1] /\ ~rows[i].token
             /\ \A q \in Threads : ~Reading(q, i)
  BY <1>2, <1>3 DEF SettledFor
<1>4. ASSUME contended' = contended,
             rows'[i].contact = rows[i].contact, rows'[i].token = rows[i].token,
             \A q \in Threads : Reading(q, i)' => Reading(q, i)
      PROVE  /\ rows'[i].contact = p[1] /\ ~rows'[i].token
             /\ \A q \in Threads : ~Reading(q, i)'
  BY <1>3, <1>4
<1>5. ASSUME NEW row, Insert(row) PROVE rows'[i] = rows[i]
  <2>1. i # lastId'
    BY <1>1, <1>5, ChannelAssumption DEF TypeOK, Insert
  <2> QED
    BY <1>2, <1>5, <2>1 DEF Insert
<1>6. ASSUME NEW w \in Wallets, CreateTelegram(w)
      PROVE  /\ rows'[i].contact = p[1] /\ ~rows'[i].token
             /\ \A q \in Threads : ~Reading(q, i)'
  <2>1. \A q \in Threads : Reading(q, i)' => Reading(q, i)
    BY <1>6 DEF CreateTelegram, Reading
  <2> QED
    BY <1>4, <1>5, <1>6, <2>1 DEF CreateTelegram
<1>7. ASSUME NEW s \in Threads, NEW w \in Wallets, NEW c \in Contacts,
             RegisterCheck(s, w, c)
      PROVE  /\ rows'[i].contact = p[1] /\ ~rows'[i].token
             /\ \A q \in Threads : ~Reading(q, i)'
  <2>1. \A q \in Threads : Reading(q, i)' => Reading(q, i)
    BY <1>7, OwnRequest
  <2> QED
    BY <1>4, <1>7, <2>1 DEF RegisterCheck
<1>8. ASSUME NEW s \in Threads, RegisterInsert(s)
      PROVE  /\ rows'[i].contact = p[1] /\ ~rows'[i].token
             /\ \A q \in Threads : ~Reading(q, i)'
  <2>1. \A q \in Threads : Reading(q, i)' => Reading(q, i)
    BY <1>8, OwnRequest, ReadersAfter
  <2> QED
    BY <1>4, <1>5, <1>8, <2>1 DEF RegisterInsert
<1>9. ASSUME NEW s \in Threads, ConfirmRead(s)
      PROVE  /\ rows'[i].contact = p[1] /\ ~rows'[i].token
             /\ \A q \in Threads : ~Reading(q, i)'
  <2>1. rows' = rows /\ i \notin contended
    BY <1>9 DEF ConfirmRead
  <2>2. req[s].id # i /\ req[s] \in Confirm
    BY <1>3, <1>9, <2>1, OwnRequest, RequestFields DEF ConfirmRead, Unread
  <2>3. req'[s].id # i
    <3>1. req'[s] = [req[s] EXCEPT !.read = rows[req[s].id].status]
      BY <1>9, OwnRequest
    <3> QED
      BY <2>2, <3>1 DEF Confirm
  <2>4. \A q \in Threads \ {s} : req'[q] = req[q]
    BY <1>9, OwnRequest
  <2>5. \A q \in Threads : ~Reading(q, i)'
    BY <1>3, <2>1, <2>3, <2>4 DEF Reading
  <2> QED
    BY <1>3, <2>1, <2>5
<1>10. ASSUME NEW s \in Threads, ConfirmWrite(s)
       PROVE  /\ rows'[i].contact = p[1] /\ ~rows'[i].token
              /\ \A q \in Threads : ~Reading(q, i)'
  <2>1. contended' = contended /\ Reading(s, req[s].id)
    BY <1>10 DEF ConfirmWrite, Reading
  <2>2. req[s].id # i
    BY <1>3, <2>1
  <2>3. rows'[i] = rows[i]
    BY <1>2, <1>10, <2>2 DEF ConfirmWrite, Activate
  <2>4. \A q \in Threads : Reading(q, i)' => Reading(q, i)
    BY <1>10, OwnRequest, ReadersAfter
  <2> QED
    BY <1>4, <2>1, <2>3, <2>4
<1>11. ASSUME Quiet
       PROVE  /\ rows'[i].contact = p[1] /\ ~rows'[i].token
              /\ \A q \in Threads : ~Reading(q, i)'
  <2>1. \A q \in Threads : Reading(q, i)' => Reading(q, i)
    BY <1>11, ReadersAfter DEF Quiet
  <2> QED
    BY <1>4, <1>11, <2>1 DEF Quiet, QuietRows, Kept
<1> QED
  BY StepKinds, <1>6, <1>7, <1>8, <1>9, <1>10, <1>11

(* Only a confirmation that commits makes the bot say "connected".         *)
LEMMA OnlyWritersTell ==
    ASSUME ReadInv, [Next]_vars, NEW p \in connected', p \notin connected
    PROVE  \E s \in Threads : ConfirmWrite(s) /\ p = <<req[s].chat, req[s].id>>
<1> USE DEF ReadInv, botVars
<1>1. ASSUME NEW s \in Threads, Answer(s, "ok")
      PROVE  req[s].op = "confirm" /\ p = <<req[s].chat, req[s].id>>
  <2>1. WaitingFor(s) /\ Hear("ok")
    BY <1>1 DEF Answer
  <2>2. bot.doing = "confirm" /\ p = <<bot.chat, bot.id>>
    BY <2>1 DEF Hear, TextFor, Result
  <2> QED
    BY <2>1, <2>2 DEF WaitingFor, BotAsks
<1>2. ASSUME NEW s \in Threads, RegisterInsert(s) PROVE FALSE
  BY <1>1, <1>2 DEF RegisterInsert
<1>3. ASSUME NEW s \in Threads, ConfirmWrite(s) PROVE p = <<req[s].chat, req[s].id>>
  BY <1>1, <1>3 DEF ConfirmWrite
<1> QED
  BY StepKinds, <1>2, <1>3 DEF CreateTelegram, RegisterCheck, ConfirmRead, Quiet

LEMMA ToldInvNext == ReadInv /\ ToldInv /\ [Next]_vars => ToldInv'
<1> SUFFICES ASSUME ReadInv, ToldInv, [Next]_vars PROVE ToldInv'
  OBVIOUS
<1>1. ReadersContend'
  BY ReadersContendNext DEF ToldInv
<1>2. ASSUME NEW p \in connected' PROVE SettledFor(p)'
  <2>1. CASE p \in connected
    BY <2>1, SettledStays DEF ToldInv, Settled
  <2>2. CASE p \notin connected
    <3>1. PICK s \in Threads : ConfirmWrite(s) /\ p = <<req[s].chat, req[s].id>>
      BY <1>2, <2>2, OnlyWritersTell
    <3>2. PICK c, i : c = req[s].chat /\ i = req[s].id
      OBVIOUS
    <3>3. SettledFor(<<c, i>>)'
      BY <3>1, <3>2, WriterSettles DEF ToldInv
    <3> QED
      BY <3>1, <3>2, <3>3
  <2> QED
    BY <2>1, <2>2
<1> QED
  BY <1>1, <1>2 DEF ToldInv, Settled

(* A chat that was told "Channel connected!" owns the channel for as long  *)
(* as it exists, unless two confirmations of it were about to commit at    *)
(* once (alerts.py:253-288, telegram_bot/main.py:137-145).                 *)
THEOREM ToldStayConnected == Spec => []ToldConnected
<1>1. ToldInv => ToldConnected
  BY DEF ToldInv, Settled, SettledFor, ToldConnected
<1> QED
  BY <1>1, ReadInvInit, ReadInvNext, ToldInit, ToldInvNext, PTL DEF Spec

================================================================================
