----------------------------- MODULE BotUpdates -----------------------------
(***************************************************************************)
(* The updates of one bot: messages become rows of bot_updates             *)
(* (service/bot_api_service.go over repository/storage/bot_update_store.go *)
(* and bot_webhook_store.go), which the bot takes by long polling or which *)
(* are posted to its webhook.                                              *)
(*                                                                         *)
(* Concurrent: one task per message (IngestMessage and the goroutine of    *)
(* dispatchWebhook), the requests of getUpdates, and the requests that set *)
(* and delete the webhook.  A step is one SQL statement or one call of the *)
(* bot.  The bot has one poll open at a time but may give it up while the  *)
(* server goes on with it; examples/weather-bot is the bot.  Left out: the *)
(* error text and the counter of the webhook row, which only               *)
(* getWebhookInfo reads, and the messages the bot sends.                   *)
(*                                                                         *)
(* The module is about these services once they are called.  In the code   *)
(* as it stands IngestMessage is not reached: its one caller, Handle of    *)
(* bot_service.go, looks for a row of type 'bot' (bot_repository.go:25)    *)
(* and then refuses every type but "BOT" (bot_service.go:54).  A bot polls *)
(* or sets its webhook only with the token of a row of type 'bot'.         *)
(***************************************************************************)
EXTENDS Integers, FiniteSets, FiniteSetsExt

CONSTANTS
  Msgs,    \* messages to the bot, each sent once
  Polls,   \* requests of getUpdates that are handled at one time
  Limit,   \* rows a poll takes at most
  None

\* What the constants must satisfy.
Parameters == Limit \in Nat \ {0} /\ None \notin Polls

VARIABLES
  row,      \* delivered_at of the row of each message, if it has a row
  number,   \* the update_id of each message
  task,     \* where IngestMessage and the webhook goroutine stand
  hook,     \* the bot has a webhook
  poll,     \* per request: its step, the offset it was sent with, the rows read
  waiting,  \* the request the bot waits for
  offset,   \* the offset the bot keeps
  handed,   \* history: update ids read for a poll or accepted by the webhook
  taken     \* history: how often a poll brought each message to the bot

ingestVars == <<row, number, task, hook, handed>>
pollVars == <<poll, waiting, offset, taken>>
vars == <<row, number, task, hook, handed, poll, waiting, offset, taken>>

Idle == [at |-> "idle", from |-> 0, batch |-> {}]

Init ==
  /\ row = [m \in Msgs |-> "none"]
  /\ number = [m \in Msgs |-> 0]
  /\ task = [m \in Msgs |-> "new"]
  /\ hook = FALSE
  /\ poll = [p \in Polls |-> Idle]
  /\ waiting = None
  /\ offset = 0
  /\ handed = {}
  /\ taken = [m \in Msgs |-> 0]

-----------------------------------------------------------------------------
(* Statements of the two stores.                                           *)

Stored == {m \in Msgs : row[m] # "none"}
NextUpdateID == 1 + Max({0} \cup {number[m] : m \in Stored})

\* The rows of one update id: two, when two tasks have read the same maximum.
Numbered(ids) == {m \in Stored : number[m] \in ids}

\* Faulty variant: UPDATE without the list of ids.
MarkEveryRow(ids) ==
  row' = [m \in Msgs |-> IF m \in Stored /\ ids # {} THEN "delivered" ELSE row[m]]

\* Faulty variant: the last row of the list is left out.
MarkAllButLast(ids) ==
  row' = [m \in Msgs |-> IF m \in Numbered(ids \ {Max(ids)}) THEN "delivered"
                         ELSE row[m]]

MarkDelivered(ids) ==
  row' = [m \in Msgs |-> IF m \in Numbered(ids) THEN "delivered" ELSE row[m]]

DeletePending ==
  row' = [m \in Msgs |-> IF row[m] = "pending" THEN "none" ELSE row[m]]

\* The rows a poll from the given offset may read: the lowest update ids.
Fetched(from) ==
  LET pending == {m \in Msgs : row[m] = "pending" /\ number[m] > from} IN
  {batch \in SUBSET pending :
     /\ Cardinality(batch) = Min({Limit, Cardinality(pending)})
     /\ \A m \in batch, n \in pending \ batch : number[m] <= number[n]}

-----------------------------------------------------------------------------
(* IngestMessage and dispatchWebhook.                                      *)

At(m, from, to) == task[m] = from /\ task' = [task EXCEPT ![m] = to]

Number(m) ==
  /\ At(m, "new", "numbered")
  /\ number' = [number EXCEPT ![m] = NextUpdateID]
  /\ UNCHANGED <<row, hook, handed, pollVars>>

Create(m) ==
  /\ At(m, "numbered", "stored")
  /\ row' = [row EXCEPT ![m] = "pending"]
  /\ UNCHANGED <<number, hook, handed, pollVars>>

\* The sender is unknown, or one of the two statements fails: the sender of
\* the message is told.
IngestFails(m) ==
  /\ At(m, "new", "over") \/ At(m, "numbered", "over")
  /\ UNCHANGED <<row, number, hook, handed, pollVars>>

\* The webhook is read, and the goroutine started if there is one.
Dispatch(m) ==
  /\ At(m, "stored", IF hook THEN "posting" ELSE "over")
  /\ UNCHANGED <<row, number, hook, handed, pollVars>>

PostUpdate(m) ==
  /\ At(m, "posting", "posted")
  /\ handed' = handed \cup {number[m]}
  /\ UNCHANGED <<row, number, hook, pollVars>>

\* The call fails or the webhook cannot be read; nobody repeats it.
PostFails(m) ==
  /\ At(m, "posting", "over") \/ At(m, "stored", "over")
  /\ UNCHANGED <<row, number, hook, handed, pollVars>>

MarkPosted(m) ==
  /\ At(m, "posted", "over")
  /\ MarkDelivered({number[m]})
  /\ UNCHANGED <<number, hook, handed, pollVars>>

\* The error of MarkDelivered is ignored.
MarkPostedFails(m) ==
  /\ At(m, "posted", "over")
  /\ UNCHANGED <<row, number, hook, handed, pollVars>>

IngestSteps(m) ==
  \/ Number(m) \/ Create(m) \/ IngestFails(m) \/ Dispatch(m)
  \/ PostUpdate(m) \/ PostFails(m) \/ MarkPosted(m) \/ MarkPostedFails(m)

-----------------------------------------------------------------------------
(* GetUpdates.                                                             *)

\* The bot polls from the offset it keeps, or from 0 after a restart.
Poll(p) ==
  /\ waiting = None
  /\ poll[p].at = "idle"
  /\ waiting' = p
  /\ \E from \in {0, offset} :
       /\ offset' = from
       /\ poll' = [poll EXCEPT ![p] = [at |-> "polling", from |-> from, batch |-> {}]]
  /\ UNCHANGED <<ingestVars, taken>>

FetchPending(p) ==
  /\ poll[p].at = "polling"
  /\ \E batch \in Fetched(poll[p].from) \ {{}} :
       /\ poll' = [poll EXCEPT ![p] =
                     [at |-> "fetched", from |-> poll[p].from, batch |-> batch]]
       /\ handed' = handed \cup {number[m] : m \in batch}
  /\ UNCHANGED <<row, number, task, hook, waiting, offset, taken>>

StopsWaiting(p) == waiting' = IF waiting = p THEN None ELSE waiting

\* Nothing pending at the deadline, an error, or the bot has gone away.
PollEndsEmpty(p) ==
  /\ poll[p].at \in {"polling", "fetched"}
  /\ poll' = [poll EXCEPT ![p] = Idle]
  /\ StopsWaiting(p)
  /\ UNCHANGED <<ingestVars, offset, taken>>

\* consumeRows marks before the rows are answered.
ConsumeRows(p) ==
  /\ poll[p].at = "fetched"
  /\ MarkDelivered({number[m] : m \in poll[p].batch})
  /\ poll' = [poll EXCEPT ![p].at = "marked"]
  /\ UNCHANGED <<number, task, hook, handed, waiting, offset, taken>>

\* The bot handles the updates in turn and keeps the last id plus one.  An
\* answer the bot does not wait for is lost.
Answer(p) ==
  /\ poll[p].at = "marked"
  /\ poll' = [poll EXCEPT ![p] = Idle]
  /\ StopsWaiting(p)
  /\ IF waiting = p
     THEN /\ offset' = 1 + Max({number[m] : m \in poll[p].batch})
          /\ taken' = [m \in Msgs |-> IF m \in poll[p].batch
                                      THEN taken[m] + 1 ELSE taken[m]]
     ELSE UNCHANGED <<offset, taken>>
  /\ UNCHANGED ingestVars

\* The connection of the bot breaks.
GiveUp ==
  /\ waiting # None
  /\ waiting' = None
  /\ UNCHANGED <<ingestVars, poll, offset, taken>>

PollSteps(p) ==
  \/ Poll(p) \/ FetchPending(p) \/ PollEndsEmpty(p) \/ ConsumeRows(p)
  \/ Answer(p)

-----------------------------------------------------------------------------
(* SetWebhook and DeleteWebhook.  Their statements are steps of their own: *)
(* the second may fail, and two requests may interleave.                   *)

\* drop_pending_updates, the first statement of either request.
DropPending ==
  /\ DeletePending
  /\ UNCHANGED <<number, task, hook, handed, pollVars>>

Upsert ==
  /\ hook' = TRUE
  /\ UNCHANGED <<row, number, task, handed, pollVars>>

\* DeleteWebhook, or SetWebhook with an empty URL.
Delete ==
  /\ hook' = FALSE
  /\ UNCHANGED <<row, number, task, handed, pollVars>>

WebhookSteps == DropPending \/ Upsert \/ Delete

\* The server process dies: what was being done is not done.
Restart ==
  /\ task' = [m \in Msgs |-> IF task[m] = "new" THEN "new" ELSE "over"]
  /\ poll' = [p \in Polls |-> Idle]
  /\ waiting' = None
  /\ UNCHANGED <<row, number, hook, handed, offset, taken>>

Next ==
  \/ \E m \in Msgs : IngestSteps(m)
  \/ \E p \in Polls : PollSteps(p)
  \/ GiveUp \/ WebhookSteps \/ Restart

Spec == Init /\ [][Next]_vars

-----------------------------------------------------------------------------
\* The variables have their types.
TypeOK ==
  /\ row \in [Msgs -> {"none", "pending", "delivered"}]
  /\ number \in [Msgs -> 0 .. Cardinality(Msgs)]
  /\ task \in [Msgs -> {"new", "numbered", "stored", "posting", "posted",
                        "over"}]
  /\ hook \in BOOLEAN
  /\ poll \in [Polls -> [at : {"idle", "polling", "fetched", "marked"},
                         from : 0 .. Cardinality(Msgs) + 1, batch : SUBSET Msgs]]
  /\ waiting \in Polls \cup {None}
  /\ offset \in 0 .. Cardinality(Msgs) + 1
  /\ handed \subseteq 1 .. Cardinality(Msgs)
  /\ taken \in [Msgs -> Nat]

\* No row is marked as delivered unless its update id was read for a poll or
\* accepted by the webhook, although ids are shared by rows numbered at the
\* same time and used again after pending rows were dropped
\* (bot_update_store.go MarkDelivered).
DeliveredWasHanded == \A m \in Msgs : row[m] = "delivered" => number[m] \in handed

\* A bot with one poll open at a time gets no update twice from its polls, also
\* when it polls from 0 again and when the server still works on a poll the bot
\* gave up (bot_api_service.go consumeRows).
PolledOnce == \A m \in Msgs : taken[m] <= 1

\* A pending update whose id no other row has would be read by a poll from the
\* offset the bot keeps (bot_update_store.go FetchPending,
\* examples/weather-bot/main.go).
PendingIsAhead ==
  \A m \in Msgs :
    row[m] = "pending" /\ Numbered({number[m]}) = {m} => number[m] > offset
=============================================================================
