------------------------------ MODULE AlertChannels ------------------------------
(***************************************************************************)
(* Registration of notification channels: the routes of                    *)
(* apps/api/v1/routes/alerts.py on the table user_notification_channels,   *)
(* and the Telegram bot (apps/telegram_bot/main.py) that confirms and      *)
(* deletes channels through them.                                          *)
(*                                                                         *)
(* The API serves requests in threads, each with a session of its own: a   *)
(* handler that reads a row and commits a change is two steps.  The bot    *)
(* handles one update at a time and gives up on a request after 10         *)
(* seconds, while the API goes on with it.                                 *)
(*                                                                         *)
(* Ids are never reused; a connect token is random and belongs to the row  *)
(* it was created for, so the id names it too.  "direct" stands for email  *)
(* and discord.                                                            *)
(***************************************************************************)
EXTENDS Integers, FiniteSets, Functions

CONSTANTS
    Wallets,        \* wallets of users
    Contacts,       \* Telegram chats, and addresses of direct channels
    Threads,        \* threads of the API
    TokenTTL,       \* _CONNECT_TOKEN_TTL_MINUTES
    MaxRows,        \* bound on the channels ever created
    MaxTimeouts,    \* bound on the requests the bot gives up
    MaxFailures     \* bound on the requests the API fails to serve

ASSUME ChannelAssumption ==
    /\ TokenTTL \in Nat \ {0}
    /\ MaxRows \in Nat /\ MaxTimeouts \in Nat /\ MaxFailures \in Nat

VARIABLES
    rows,       \* the table: id to row
    lastId,     \* the highest id given so far
    req,        \* req[s]: the request thread s is serving
    bot,        \* the update the bot is handling
    reply,      \* the last thing the bot said, and the answer it had
    timeouts,   \* requests the bot gave up
    failures,   \* requests the API failed to serve
    connected,  \* pairs <<chat, id>> the bot called connected (history)
    contended,  \* ids that two confirmations were about to write (history)
    doubled     \* registrations that were in flight twice (history)

apiVars == <<rows, lastId, req>>
botVars == <<bot, reply, timeouts, connected>>
vars == <<apiVars, botVars, failures, contended, doubled>>

Ids == 1..MaxRows
NoContact == "nobody"
Free == [op |-> "free"]
Idle == [doing |-> "nothing"]

Row == [wallet: Wallets, kind: {"telegram", "direct"},
        contact: Contacts \cup {NoContact}, token: BOOLEAN,
        left: 0..TokenTTL, status: {"pending", "active"}]
ReadAs == {"nothing", "pending", "active"}
Confirm == [op: {"confirm"}, id: Ids, chat: Contacts, read: ReadAs]
Delete == [op: {"delete"}, id: Ids, read: ReadAs]
Register == [op: {"register"}, wallet: Wallets, contact: Contacts]
Update == [doing: {"confirm", "disconnect"}, chat: Contacts, id: Ids, thread: Threads]
Texts == {"welcome", "connected", "not_verified", "not_found",
          "disconnect_failed", "disconnected"}
Answers == {"none", "ok", "not_found", "refused", "expired", "null", "error",
            "timeout"}

TypeOK ==
    /\ lastId \in 0..MaxRows
    /\ DOMAIN rows \subseteq 1..lastId
    /\ rows \in [DOMAIN rows -> Row]
    /\ req \in [Threads -> Confirm \cup Delete \cup Register \cup {Free}]
    /\ bot \in Update \cup {Idle}
    /\ bot # Idle => req[bot.thread].op # "free"
    /\ reply \in [text: Texts, answer: Answers]
    /\ timeouts \in 0..MaxTimeouts
    /\ failures \in 0..MaxFailures
    /\ connected \subseteq Contacts \X Ids
    /\ contended \subseteq Ids
    /\ doubled \subseteq Wallets \X Contacts

Init ==
    /\ rows = [i \in {} |-> Free]
    /\ lastId = 0
    /\ req = [s \in Threads |-> Free]
    /\ bot = Idle
    /\ reply = [text |-> "welcome", answer |-> "none"]
    /\ timeouts = 0
    /\ failures = 0
    /\ connected = {}
    /\ contended = {}
    /\ doubled = {}

(* Mutated forms, each named for the mistake it makes, precede the         *)
(* definitions they replace: they show which property notices.             *)

(***************************************************************************)
(* The answer of the API and what the bot makes of it.                     *)
(***************************************************************************)

(* _api_call: the JSON body, or None for an HTTP error, a timeout and a    *)
(* body that is null.                                                      *)
Result(answer) == IF answer = "ok" THEN "json" ELSE "None"

(* start_command and stop_command, once _api_call has returned.            *)
TextFor(update, answer) ==
    IF update.doing = "confirm"
    THEN IF Result(answer) = "None" THEN "not_verified" ELSE "connected"
    ELSE IF Result(answer) = "None" THEN "disconnect_failed" ELSE "disconnected"

HearAndWaitOn(answer) ==
    /\ reply' = [text |-> TextFor(bot, answer), answer |-> answer]
    /\ UNCHANGED <<bot, connected>>

Hear(answer) ==
    /\ reply' = [text |-> TextFor(bot, answer), answer |-> answer]
    /\ connected' = IF TextFor(bot, answer) = "connected"
                    THEN connected \cup {<<bot.chat, bot.id>>} ELSE connected
    /\ bot' = Idle

WaitingFor(s) == bot # Idle /\ bot.thread = s

(* Thread s is through with its request; the bot hears of it if it still   *)
(* waits.                                                                  *)
Answer(s, answer) ==
    /\ req' = [req EXCEPT ![s] = Free]
    /\ IF WaitingFor(s) THEN Hear(answer) ELSE UNCHANGED <<bot, reply, connected>>
    /\ UNCHANGED timeouts

(***************************************************************************)
(* POST /channels                                                          *)
(***************************************************************************)

Insert(row) ==
    /\ lastId < MaxRows
    /\ lastId' = lastId + 1
    /\ rows' = [i \in DOMAIN rows \cup {lastId'} |->
                  IF i = lastId' THEN row ELSE rows[i]]

(* A Telegram channel is inserted pending, with a token and no chat.       *)
CreateTelegram(w) ==
    /\ Insert([wallet |-> w, kind |-> "telegram", contact |-> NoContact,
               token |-> TRUE, left |-> TokenTTL, status |-> "pending"])
    /\ UNCHANGED <<req, botVars, failures, contended, doubled>>

IsRegisteredForOthers(w, c) ==
    \E i \in DOMAIN rows : /\ rows[i].kind = "direct"
                           /\ rows[i].wallet # w
                           /\ rows[i].contact = c

(* The look for a duplicate: telegram rows have another type.              *)
IsRegistered(w, c) ==
    \E i \in DOMAIN rows : /\ rows[i].kind = "direct"
                           /\ rows[i].wallet = w
                           /\ rows[i].contact = c

RegisterCheck(s, w, c) ==
    /\ req[s] = Free
    /\ ~IsRegistered(w, c)
    /\ lastId < MaxRows
    /\ req' = [req EXCEPT ![s] = [op |-> "register", wallet |-> w, contact |-> c]]
    /\ doubled' = IF \E q \in Threads : req[q] = req'[s]
                  THEN doubled \cup {<<w, c>>} ELSE doubled
    /\ UNCHANGED <<rows, lastId, botVars, failures, contended>>

RegisterInsert(s) ==
    /\ req[s].op = "register"
    /\ Insert([wallet |-> req[s].wallet, kind |-> "direct",
               contact |-> req[s].contact, token |-> FALSE, left |-> 0,
               status |-> "active"])
    /\ Answer(s, "ok")
    /\ UNCHANGED <<failures, contended, doubled>>

(***************************************************************************)
(* POST /channels/confirm                                                  *)
(***************************************************************************)

WithToken(i) == i \in DOMAIN rows /\ rows[i].token

(* What the row of token i is refused with: 404, 422, 410 or nothing.      *)
Refusal(i) ==
    IF ~WithToken(i) THEN "not_found"
    ELSE IF rows[i].kind # "telegram" THEN "refused"
    ELSE IF rows[i].left = 0 THEN "expired" ELSE "none"

Unread(s, op) == req[s].op = op /\ req[s].read = "nothing"

ConfirmRefused(s) ==
    /\ Unread(s, "confirm")
    /\ Refusal(req[s].id) # "none"
    /\ Answer(s, Refusal(req[s].id))
    /\ UNCHANGED <<rows, lastId, failures, contended, doubled>>

(* The row passes the checks and is kept in the session.                   *)
ConfirmRead(s) ==
    /\ Unread(s, "confirm")
    /\ Refusal(req[s].id) = "none"
    /\ req' = [req EXCEPT ![s].read = rows[req[s].id].status]
    /\ contended' = IF \E q \in Threads : /\ q # s /\ req[q].op = "confirm"
                                          /\ req[q].id = req[s].id
                                          /\ req[q].read # "nothing"
                    THEN contended \cup {req[s].id} ELSE contended
    /\ UNCHANGED <<rows, lastId, botVars, failures, doubled>>

ActivateKeepingToken(i, c, was) ==
    /\ i \in DOMAIN rows
    /\ rows' = [rows EXCEPT ![i].contact = IF was = "active" THEN @ ELSE c,
                            ![i].status = "active"]

ActivateByUpsert(i, c, was) ==
    rows' = [j \in DOMAIN rows \cup {i} |->
               IF j # i THEN rows[j]
               ELSE [wallet |-> CHOOSE w \in Wallets : TRUE, kind |-> "telegram",
                     contact |-> c, token |-> FALSE, left |-> 0, status |-> "active"]]

(* The UPDATE of row i: it uses the token up; a channel that was read      *)
(* active keeps its chat.                                                  *)
Activate(i, c, was) ==
    /\ i \in DOMAIN rows
    /\ rows' = [rows EXCEPT ![i].contact = IF was = "active" THEN @ ELSE c,
                            ![i].token = FALSE,
                            ![i].left = 0,
                            ![i].status = "active"]

ConfirmWrite(s) ==
    /\ req[s].op = "confirm" /\ req[s].read # "nothing"
    /\ Activate(req[s].id, req[s].chat, req[s].read)
    /\ Answer(s, "ok")
    /\ UNCHANGED <<lastId, failures, contended, doubled>>

(* The row was deleted meanwhile: the UPDATE matches nothing and raises.   *)
ConfirmStale(s) ==
    /\ req[s].op = "confirm" /\ req[s].read # "nothing"
    /\ req[s].id \notin DOMAIN rows
    /\ Answer(s, "error")
    /\ UNCHANGED <<rows, lastId, failures, contended, doubled>>

(***************************************************************************)
(* DELETE /channels/{id}                                                   *)
(***************************************************************************)

(* The application asks for a deletion; the bot does so in StopCommand.    *)
RequestDelete(s, i) ==
    /\ req[s] = Free
    /\ i \in 1..lastId
    /\ req' = [req EXCEPT ![s] = [op |-> "delete", id |-> i, read |-> "nothing"]]
    /\ UNCHANGED <<rows, lastId, botVars, failures, contended, doubled>>

DeleteRead(s) ==
    /\ Unread(s, "delete")
    /\ IF req[s].id \in DOMAIN rows
       THEN /\ req' = [req EXCEPT ![s].read = rows[req[s].id].status]
            /\ UNCHANGED botVars
       ELSE Answer(s, "not_found")
    /\ UNCHANGED <<rows, lastId, failures, contended, doubled>>

(* A row that is gone already is no error.  The handler returns None: the  *)
(* body is null.                                                           *)
DeleteWrite(s) ==
    /\ req[s].op = "delete" /\ req[s].read # "nothing"
    /\ rows' = Restrict(rows, DOMAIN rows \ {req[s].id})
    /\ Answer(s, "null")
    /\ UNCHANGED <<lastId, failures, contended, doubled>>

(* The API or its database fails: the session is rolled back.              *)
ApiFails(s) ==
    /\ req[s] # Free
    /\ failures < MaxFailures
    /\ failures' = failures + 1
    /\ Answer(s, "error")
    /\ UNCHANGED <<rows, lastId, contended, doubled>>

(***************************************************************************)
(* The bot.                                                                *)
(***************************************************************************)

(* /start <token>: the link of channel i is opened in chat c.              *)
StartCommand(s, c, i) ==
    /\ bot = Idle /\ req[s] = Free
    /\ i \in 1..lastId
    /\ req' = [req EXCEPT ![s] = [op |-> "confirm", id |-> i, chat |-> c,
                                  read |-> "nothing"]]
    /\ bot' = [doing |-> "confirm", chat |-> c, id |-> i, thread |-> s]
    /\ UNCHANGED <<rows, lastId, reply, timeouts, connected, failures, contended,
                   doubled>>

(* GET /channels/by-chat_id: any one of the chat's active channels.        *)
ByChat(c) ==
    {i \in DOMAIN rows : /\ rows[i].kind = "telegram"
                         /\ rows[i].contact = c
                         /\ rows[i].status = "active"}

(* /stop: the channel found is deleted next.                               *)
StopCommand(s, c, i) ==
    /\ bot = Idle /\ req[s] = Free
    /\ i \in ByChat(c)
    /\ req' = [req EXCEPT ![s] = [op |-> "delete", id |-> i, read |-> "nothing"]]
    /\ bot' = [doing |-> "disconnect", chat |-> c, id |-> i, thread |-> s]
    /\ UNCHANGED <<rows, lastId, reply, timeouts, connected, failures, contended,
                   doubled>>

StopWithoutChannel(c) ==
    /\ bot = Idle
    /\ ByChat(c) = {}
    /\ reply' = [text |-> "not_found", answer |-> "not_found"]
    /\ UNCHANGED <<apiVars, bot, timeouts, connected, failures, contended, doubled>>

(* The look-up fails or is late: the bot takes it for "no channel".        *)
StopLookupFails ==
    /\ bot = Idle
    /\ failures < MaxFailures
    /\ failures' = failures + 1
    /\ reply' = [text |-> "not_found", answer |-> "error"]
    /\ UNCHANGED <<apiVars, bot, timeouts, connected, contended, doubled>>

(* urlopen gives up after 10 seconds; the API does not.                    *)
GiveUp ==
    /\ bot # Idle
    /\ timeouts < MaxTimeouts
    /\ timeouts' = timeouts + 1
    /\ Hear("timeout")
    /\ UNCHANGED <<apiVars, failures, contended, doubled>>

(* The bot is started anew: the update it was handling is not polled again *)
(* (drop_pending_updates), and its chat hears nothing; the API goes on.    *)
BotRestarts ==
    /\ bot # Idle
    /\ bot' = Idle
    /\ UNCHANGED <<apiVars, reply, timeouts, connected, failures, contended, doubled>>

(* Tokens run out.                                                         *)
Clock ==
    /\ rows' = [i \in DOMAIN rows |->
                  [rows[i] EXCEPT !.left = IF @ > 0 THEN @ - 1 ELSE 0]]
    /\ UNCHANGED <<lastId, req, botVars, failures, contended, doubled>>

Serve(s) ==
    \/ RegisterInsert(s) \/ ConfirmRefused(s) \/ ConfirmRead(s)
    \/ ConfirmWrite(s) \/ ConfirmStale(s) \/ DeleteRead(s) \/ DeleteWrite(s)
    \/ ApiFails(s)

Next ==
    \/ \E w \in Wallets : CreateTelegram(w)
    \/ \E s \in Threads :
         \/ Serve(s)
         \/ \E w \in Wallets, c \in Contacts : RegisterCheck(s, w, c)
         \/ \E i \in Ids : \/ RequestDelete(s, i)
                           \/ \E c \in Contacts : StartCommand(s, c, i) \/ StopCommand(s, c, i)
    \/ \E c \in Contacts : StopWithoutChannel(c)
    \/ StopLookupFails
    \/ GiveUp
    \/ BotRestarts
    \/ Clock

Spec == Init /\ [][Next]_vars

(***************************************************************************)
(* Properties.                                                             *)
(***************************************************************************)

(* A chat that was told "Channel connected!" owns the channel for as long  *)
(* as it exists: the token works once.  The proviso is needed: when the    *)
(* bot gives up on a slow confirmation, a second one may read the row      *)
(* before the first commits, and the later commit wins                     *)
(* (alerts.py:253-288, telegram_bot/main.py:137-145).                      *)
ToldConnected ==
    \A p \in connected :
        p[2] \in DOMAIN rows \ contended => rows[p[2]].contact = p[1]

(* A deleted channel does not come back, whatever confirmations were under *)
(* way (alerts.py:283-288, 342-346).                                       *)
DeletedStaysDeleted ==
    [][\A i \in 1..lastId : i \notin DOMAIN rows => i \notin DOMAIN rows']_vars

(* A wallet registers an address twice only if both requests looked for a  *)
(* duplicate before either inserted: no constraint of the table backs the  *)
(* look (alerts.py:200-223).                                               *)
DuplicatesNeedOverlap ==
    \A i, j \in DOMAIN rows :
        /\ i # j
        /\ rows[i].kind = "direct" /\ rows[j].kind = "direct"
        /\ rows[i].wallet = rows[j].wallet
        /\ rows[i].contact = rows[j].contact
        => <<rows[i].wallet, rows[i].contact>> \in doubled

(* _api_call "Returns JSON dict or None on error" (telegram_bot/main.py:82).*)
(* Violated: the answer to a successful DELETE has the body null, which is *)
(* None too, and the chat is told "Failed to disconnect".                  *)
NoneMeansError ==
    Result(reply.answer) = "None" =>
        reply.answer \in {"none", "not_found", "refused", "expired", "error", "timeout"}
===============================================================================
