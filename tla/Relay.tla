------------------------------- MODULE Relay -------------------------------
(***************************************************************************)
(* How one message reaches its recipients: MessageDispatchService.Dispatch,*)
(* the live path through Hub.deliver and Connection.Enqueue, the offline   *)
(* path through MessageDeliveryService and the envelope table, the replay  *)
(* of that table when a client connects (PendingDelivery), the write pump, *)
(* and the acknowledgement that deletes a row.                             *)
(*                                                                         *)
(* Concurrent: one goroutine per Dispatch call (variable task), the Run    *)
(* loop that inserts a connection, a replay goroutine and a write pump per *)
(* connection, and the clients.  Each database call, each acquisition of   *)
(* Hub.mu and each Enqueue is a step of its own.  Evicting the older       *)
(* sessions of a user and tearing a session down are single steps here;    *)
(* module Hub takes them apart (both implement module Sessions).           *)
(***************************************************************************)
EXTENDS Naturals, Sequences, FiniteSets

CONSTANTS
  Users,        \* recipients
  Conns,        \* Connection objects; one is reused after it is forgotten
  UserOf,       \* the user of each connection
  Msgs,         \* calls of Dispatch
  Plan,         \* RoutePlan.Targets of each call: a sequence of users
  Capacity,     \* capacity of Connection.Send
  FindMayFail,  \* whether reading the pending rows may return an error
  MaxFailures,  \* bound: peers lost and sessions replaced while healthy
  None

ASSUME RelayAssumption ==
  /\ UserOf \in [Conns -> Users]
  /\ Plan \in [Msgs -> Seq(Users)]
  /\ \A m \in Msgs : \A i, j \in 1 .. Len(Plan[m]) : i # j => Plan[m][i] # Plan[m][j]
  /\ Capacity \in Nat \ {0}
  /\ FindMayFail \in BOOLEAN
  /\ MaxFailures \in Nat
  /\ None \notin Conns

Rows == Users \X Msgs

\* A frame in a Send buffer; "row" frames carry the envelope id, live ones "".
Frames == [msg : Msgs, row : BOOLEAN]

VARIABLES
  connections,  \* Hub.connections
  sess,         \* session state: none, open, closed (closeOnce closed)
  reach,        \* the client at the other end is still there
  loop,         \* connection Hub.Run has received and not yet inserted
  sendq,        \* Connection.Send
  replay,       \* goroutine running PendingDelivery.DeliverAll
  store,        \* rows of the envelope table with status 'pending'
  task,         \* the Dispatch calls
  inbox,        \* messages each client has received
  toAck,        \* envelope ids received on a connection, not acknowledged yet
  failures,     \* peers lost so far (bounds the model)
  saved,        \* history: rows ever saved
  buffered,     \* history: messages ever accepted by a Send buffer of the user
  offered       \* history: messages accepted by the Send buffer of this session

conVars == <<connections, sess, reach, loop, failures>>
msgVars == <<sendq, replay, store, task, inbox, toAck, saved, buffered, offered>>
vars == <<connections, sess, reach, loop, sendq, replay, store, task, inbox,
          toAck, failures, saved, buffered, offered>>

TaskStates == {"idle", "lookup", "fanout", "save", "relookup", "refanout",
               "accepted", "failed"}
Tasks == [pc : TaskStates, i : Nat, snap : SUBSET Conns, ok : BOOLEAN, count : Nat]
Replays == [pc : {"waiting", "sending", "aborted"}, todo : SUBSET Msgs]

NoReplay == [pc |-> "aborted", todo |-> {}]

Init ==
  /\ connections = [u \in Users |-> {}]
  /\ sess = [c \in Conns |-> "none"]
  /\ reach = [c \in Conns |-> FALSE]
  /\ loop = None
  /\ sendq = [c \in Conns |-> <<>>]
  /\ replay = [c \in Conns |-> NoReplay]
  /\ store = {}
  /\ task = [m \in Msgs |->
               [pc |-> "idle", i |-> 1, snap |-> {}, ok |-> FALSE, count |-> 0]]
  /\ inbox = {}
  /\ toAck = [c \in Conns |-> {}]
  /\ failures = 0
  /\ saved = {}
  /\ buffered = {}
  /\ offered = [c \in Conns |-> {}]

-----------------------------------------------------------------------------
(* Sessions.                                                               *)

SessionsOf(u) == {c \in Conns : UserOf[c] = u}
Healthy(u) == \E c \in SessionsOf(u) : sess[c] = "open" /\ reach[c]

\* HTTPHandler.Handle up to the moment Run receives the connection: the older
\* sessions are closed first, then the replay goroutine starts its delay.
Connect(c) ==
  LET u == UserOf[c] IN
  /\ sess[c] = "none"
  /\ loop = None
  /\ failures' = IF Healthy(u) THEN failures + 1 ELSE failures
  /\ failures' <= MaxFailures
  /\ sess' = [d \in Conns |-> IF d = c THEN "open"
                              ELSE IF d \in connections[u] THEN "closed"
                              ELSE sess[d]]
  /\ connections' = [connections EXCEPT ![u] = {}]
  /\ reach' = [reach EXCEPT ![c] = TRUE]
  /\ loop' = c
  /\ replay' = [replay EXCEPT ![c] = [pc |-> "waiting", todo |-> {}]]
  /\ UNCHANGED <<sendq, store, task, inbox, toAck, saved, buffered, offered>>

\* Hub.registerConnection.
Insert ==
  /\ loop # None
  /\ connections' = [connections EXCEPT ![UserOf[loop]] = @ \cup {loop}]
  /\ loop' = None
  /\ UNCHANGED <<sess, reach, failures>>
  /\ UNCHANGED msgVars

\* Connection.Teardown: the socket is closed and the session unregistered.
Closes(c) ==
  /\ sess' = [sess EXCEPT ![c] = "closed"]
  /\ connections' = [connections EXCEPT ![UserOf[c]] = @ \ {c}]

\* The client goes away: it closed the socket or merely vanished.
PeerLost(c) ==
  /\ sess[c] = "open"
  /\ reach[c]
  /\ failures < MaxFailures
  /\ failures' = failures + 1
  /\ reach' = [reach EXCEPT ![c] = FALSE]
  /\ UNCHANGED <<connections, sess, loop>>
  /\ UNCHANGED msgVars

\* A pump notices: read error, passed read deadline, or failed write.
Teardown(c) ==
  /\ sess[c] = "open"
  /\ ~reach[c]
  /\ Closes(c)
  /\ UNCHANGED <<reach, loop, failures>>
  /\ UNCHANGED msgVars

\* Nothing refers to a closed session any more: the object can be reused.
Forget(c) ==
  /\ sess[c] = "closed"
  /\ loop # c
  /\ c \notin connections[UserOf[c]]
  /\ replay[c].pc = "aborted"
  /\ \A m \in Msgs : c \notin task[m].snap
  /\ sess' = [sess EXCEPT ![c] = "none"]
  /\ reach' = [reach EXCEPT ![c] = FALSE]
  /\ sendq' = [sendq EXCEPT ![c] = <<>>]
  /\ toAck' = [toAck EXCEPT ![c] = {}]
  /\ offered' = [offered EXCEPT ![c] = {}]
  /\ UNCHANGED <<connections, loop, replay, store, task, inbox, failures, saved,
                 buffered>>

-----------------------------------------------------------------------------
(* Connection.Enqueue: a select over closeOnce, the buffer and default.    *)

\* The buffer has room; on a closed session the select may still choose it.
Accepts(c, m, row) ==
  /\ Len(sendq[c]) < Capacity
  /\ sendq' = [sendq EXCEPT ![c] = Append(@, [msg |-> m, row |-> row])]
  /\ buffered' = buffered \cup {<<UserOf[c], m>>}
  /\ offered' = [offered EXCEPT ![c] = @ \cup {m}]
  /\ UNCHANGED <<sess, connections>>

\* The session is closed, or its buffer is full and it is torn down.
Refuses(c) ==
  /\ \/ sess[c] = "closed" /\ UNCHANGED <<sess, connections>>
     \/ sess[c] = "open" /\ Len(sendq[c]) = Capacity /\ Closes(c)
  /\ UNCHANGED <<sendq, buffered, offered>>

-----------------------------------------------------------------------------
(* MessageDispatchService.DispatchContext, one call per message.           *)

Target(m) == Plan[m][task[m].i]

AtTarget(m) == task[m].pc \notin {"idle", "accepted", "failed"}

\* Faulty variant: one target too many.
NextTargetOverruns(t, m, count) ==
  [pc |-> IF t.i <= Len(Plan[m]) THEN "lookup"
          ELSE IF count > 0 THEN "accepted" ELSE "failed",
   i |-> IF t.i <= Len(Plan[m]) THEN t.i + 1 ELSE t.i,
   snap |-> {}, ok |-> FALSE, count |-> count]

\* The loop over plan.Targets goes on, or the call returns.
NextTarget(t, m, count) ==
  [pc |-> IF t.i < Len(Plan[m]) THEN "lookup"
          ELSE IF count > 0 THEN "accepted" ELSE "failed",
   i |-> IF t.i < Len(Plan[m]) THEN t.i + 1 ELSE t.i,
   snap |-> {}, ok |-> FALSE, count |-> count]

Dispatch(m) ==
  /\ task[m].pc = "idle"
  /\ task' = [task EXCEPT ![m].pc = IF Plan[m] = <<>> THEN "failed" ELSE "lookup"]
  /\ UNCHANGED conVars
  /\ UNCHANGED <<sendq, replay, store, inbox, toAck, saved, buffered, offered>>

\* Hub.deliver copies the user's set under RLock; an empty set is a refusal.
Lookup(m) ==
  /\ task[m].pc = "lookup"
  /\ \/ /\ connections[Target(m)] = {}
        /\ task' = [task EXCEPT ![m].pc = "save"]
     \/ /\ connections[Target(m)] # {}
        /\ task' = [task EXCEPT ![m].pc = "fanout", ![m].snap = connections[Target(m)]]
  /\ UNCHANGED conVars
  /\ UNCHANGED <<sendq, replay, store, inbox, toAck, saved, buffered, offered>>

\* One iteration of the Enqueue loop of Hub.deliver.
Fanout(m, c) ==
  /\ task[m].pc \in {"fanout", "refanout"}
  /\ c \in task[m].snap
  /\ \/ /\ Accepts(c, m, FALSE)
        /\ task' = [task EXCEPT ![m].snap = @ \ {c}, ![m].ok = TRUE]
     \/ /\ Refuses(c)
        /\ task' = [task EXCEPT ![m].snap = @ \ {c}]
  /\ UNCHANGED <<reach, loop, failures, replay, store, inbox, toAck, saved>>

\* Send returned: a success ends this target without persisting anything.
SendReturns(m) ==
  /\ task[m].pc = "fanout"
  /\ task[m].snap = {}
  /\ task' = [task EXCEPT ![m] = IF @.ok THEN NextTarget(@, m, @.count + 1)
                                 ELSE [@ EXCEPT !.pc = "save"]]
  /\ UNCHANGED conVars
  /\ UNCHANGED <<sendq, replay, store, inbox, toAck, saved, buffered, offered>>

\* Faulty variant: the offline path trusts the lookup that found nobody.
SaveWithoutLiveCopy(m) ==
  /\ task[m].pc = "save"
  /\ task' = [task EXCEPT ![m] = NextTarget(@, m, @.count + 1)]
  /\ store' = store \cup {<<Target(m), m>>}
  /\ saved' = saved \cup {<<Target(m), m>>}
  /\ UNCHANGED conVars
  /\ UNCHANGED <<sendq, replay, inbox, toAck, buffered, offered>>

\* offline.Deliver: the envelope row is inserted before presence is consulted.
Save(m) ==
  /\ task[m].pc = "save"
  /\ task' = [task EXCEPT ![m].pc = "relookup"]
  /\ store' = store \cup {<<Target(m), m>>}
  /\ saved' = saved \cup {<<Target(m), m>>}
  /\ UNCHANGED conVars
  /\ UNCHANGED <<sendq, replay, inbox, toAck, buffered, offered>>

\* Faulty variant: the loop goes on after a failed insert.
SaveFailsContinues(m) ==
  /\ task[m].pc = "save"
  /\ task' = [task EXCEPT ![m] = NextTarget(@, m, @.count)]
  /\ UNCHANGED conVars
  /\ UNCHANGED <<sendq, replay, store, inbox, toAck, saved, buffered, offered>>

\* The insert fails: Dispatch returns at once, later targets get nothing.
SaveFails(m) ==
  /\ task[m].pc = "save"
  /\ task' = [task EXCEPT ![m].pc = "failed"]
  /\ UNCHANGED conVars
  /\ UNCHANGED <<sendq, replay, store, inbox, toAck, saved, buffered, offered>>

\* presence.IsOnline and, if so, presence.Send of a live copy, result ignored.
Relookup(m) ==
  /\ task[m].pc = "relookup"
  /\ task' = [task EXCEPT ![m].pc = "refanout", ![m].snap = connections[Target(m)]]
  /\ UNCHANGED conVars
  /\ UNCHANGED <<sendq, replay, store, inbox, toAck, saved, buffered, offered>>

Delivered(m) ==
  /\ task[m].pc = "refanout"
  /\ task[m].snap = {}
  /\ task' = [task EXCEPT ![m] = NextTarget(@, m, @.count + 1)]
  /\ UNCHANGED conVars
  /\ UNCHANGED <<sendq, replay, store, inbox, toAck, saved, buffered, offered>>

-----------------------------------------------------------------------------
(* PendingDelivery.deliverEnvelopes.                                       *)

\* The 100 ms delay is taken to outlast Run's insertion of the connection.
FindPending(c) ==
  /\ replay[c].pc = "waiting"
  /\ loop # c
  /\ replay' = [replay EXCEPT ![c] =
       [pc |-> "sending", todo |-> {m \in Msgs : <<UserOf[c], m>> \in store}]]
  /\ UNCHANGED conVars
  /\ UNCHANGED <<sendq, store, task, inbox, toAck, saved, buffered, offered>>

FindFails(c) ==
  /\ FindMayFail
  /\ replay[c].pc = "waiting"
  /\ loop # c
  /\ replay' = [replay EXCEPT ![c] = NoReplay]
  /\ UNCHANGED conVars
  /\ UNCHANGED <<sendq, store, task, inbox, toAck, saved, buffered, offered>>

\* Faulty variant: a row is deleted as soon as it is enqueued, which is what
\* deliverEvents does with pending events.
ReplayRowDeletes(c, m) ==
  /\ replay[c].pc = "sending"
  /\ m \in replay[c].todo
  /\ \/ /\ Accepts(c, m, TRUE)
        /\ replay' = [replay EXCEPT ![c].todo = @ \ {m}]
        /\ store' = store \ {<<UserOf[c], m>>}
     \/ Refuses(c) /\ replay' = [replay EXCEPT ![c] = NoReplay] /\ UNCHANGED store
  /\ UNCHANGED <<reach, loop, failures, task, inbox, toAck, saved>>

\* Enqueue of one row, which stays in the table; a refusal ends the replay.
ReplayRow(c, m) ==
  /\ replay[c].pc = "sending"
  /\ m \in replay[c].todo
  /\ \/ Accepts(c, m, TRUE) /\ replay' = [replay EXCEPT ![c].todo = @ \ {m}]
     \/ Refuses(c) /\ replay' = [replay EXCEPT ![c] = NoReplay]
  /\ UNCHANGED <<reach, loop, failures, store, task, inbox, toAck, saved>>

\* DeliverAll returned on a session that has been closed meanwhile.
ReplayEnds(c) ==
  /\ replay[c].pc = "sending"
  /\ replay[c].todo = {}
  /\ sess[c] = "closed"
  /\ replay' = [replay EXCEPT ![c] = NoReplay]
  /\ UNCHANGED conVars
  /\ UNCHANGED <<sendq, store, task, inbox, toAck, saved, buffered, offered>>

-----------------------------------------------------------------------------
(* The write pump, the client, and router.deleteMessage.                   *)

\* A write succeeds locally even when the client is already gone.
WriteFrame(c) ==
  /\ sess[c] = "open"
  /\ sendq[c] # <<>>
  /\ sendq' = [sendq EXCEPT ![c] = Tail(@)]
  /\ IF reach[c]
     THEN LET f == Head(sendq[c]) IN
          /\ inbox' = inbox \cup {<<UserOf[c], f.msg>>}
          /\ toAck' = [toAck EXCEPT ![c] = IF f.row THEN @ \cup {f.msg} ELSE @]
     ELSE UNCHANGED <<inbox, toAck>>
  /\ UNCHANGED conVars
  /\ UNCHANGED <<replay, store, task, saved, buffered, offered>>

\* DELETE v2/messages/receipt for a row this client received: the row of this
\* recipient is deleted, or the frame is refused by the rate limiter.
Acknowledge(c, m) ==
  /\ sess[c] = "open"
  /\ reach[c]
  /\ m \in toAck[c]
  /\ toAck' = [toAck EXCEPT ![c] = @ \ {m}]
  /\ store' \in {store, store \ {<<UserOf[c], m>>}}
  /\ UNCHANGED conVars
  /\ UNCHANGED <<sendq, replay, task, inbox, saved, buffered, offered>>

-----------------------------------------------------------------------------
TaskSteps(m) ==
  \/ Lookup(m)
  \/ \E c \in Conns : Fanout(m, c)
  \/ SendReturns(m)
  \/ Save(m)
  \/ SaveFails(m)
  \/ Relookup(m)
  \/ Delivered(m)

ReplaySteps(c) ==
  \/ FindPending(c)
  \/ FindFails(c)
  \/ \E m \in Msgs : ReplayRow(c, m)
  \/ ReplayEnds(c)

Next ==
  \/ \E c \in Conns :
       \/ Connect(c)
       \/ PeerLost(c)
       \/ Teardown(c)
       \/ Forget(c)
       \/ ReplaySteps(c)
       \/ WriteFrame(c)
       \/ \E m \in Msgs : Acknowledge(c, m)
  \/ Insert
  \/ \E m \in Msgs : Dispatch(m) \/ TaskSteps(m)

\* A client without a working session tries again.
Reconnect(u) ==
  /\ ~Healthy(u)
  /\ \E c \in SessionsOf(u) : Connect(c)

\* Goroutines run, pumps notice a lost peer within their deadlines, and the
\* client keeps reconnecting.  Senders, failures and acknowledgements are free.
Fairness ==
  /\ WF_vars(Insert)
  /\ \A m \in Msgs : WF_vars(TaskSteps(m))
  /\ \A c \in Conns :
       /\ WF_vars(ReplaySteps(c))
       /\ WF_vars(WriteFrame(c))
       /\ WF_vars(Teardown(c))
       /\ WF_vars(Forget(c))
  /\ \A u \in Users : SF_vars(Reconnect(u))

Spec == Init /\ [][Next]_vars

FairSpec == Spec /\ Fairness

-----------------------------------------------------------------------------
(* Invariants.                                                             *)

SessionsTypeOK ==
  /\ connections \in [Users -> SUBSET Conns]
  /\ \A u \in Users : \A c \in connections[u] : UserOf[c] = u /\ sess[c] # "none"
  /\ sess \in [Conns -> {"none", "open", "closed"}]
  /\ reach \in [Conns -> BOOLEAN]
  /\ loop \in Conns \cup {None}
  /\ loop # None => sess[loop] # "none"
  /\ failures \in Nat

RowsTypeOK ==
  /\ store \subseteq Rows
  /\ inbox \subseteq Rows
  /\ saved \subseteq Rows
  /\ buffered \subseteq Rows
  /\ toAck \in [Conns -> SUBSET Msgs]
  /\ offered \in [Conns -> SUBSET Msgs]

TasksTypeOK ==
  /\ task \in [Msgs -> Tasks]
  /\ \A m \in Msgs : \/ task[m].i \in 1 .. Len(Plan[m])
                     \/ Plan[m] = <<>> /\ ~AtTarget(m)

\* The variables have their types: a session in the map is filed under its own
\* user, and a Dispatch call in progress stands at a target of its plan.
TypeOK ==
  /\ SessionsTypeOK
  /\ RowsTypeOK
  /\ TasksTypeOK
  /\ sendq \in [Conns -> Seq(Frames)]
  /\ replay \in [Conns -> Replays]

\* A frame of the message is in the Send buffer of this session.
InBuffer(c, m) == \E i \in 1 .. Len(sendq[c]) : sendq[c][i].msg = m

\* No missed wakeup: once Dispatch has moved on from recipient u, and a session
\* of u has finished reading the pending rows, every row still in the table has
\* been offered to that session, live or replayed, and a client still at its
\* other end has received it unless it is in the session's buffer.  The row is
\* inserted before presence is consulted, the session registered before the
\* table is read, so neither order of the two can leave the row behind
\* (delivery.go deliverTargets against pending_delivery.go deliverEnvelopes).
NoMissedWakeup ==
  \A c \in Conns : \A m \in Msgs :
    /\ <<UserOf[c], m>> \in store
    /\ ~(AtTarget(m) /\ Target(m) = UserOf[c])
    /\ c \in connections[UserOf[c]]
    /\ sess[c] = "open"
    /\ replay[c].pc = "sending" /\ m \notin replay[c].todo
    => /\ m \in offered[c]
       /\ reach[c] => <<UserOf[c], m>> \in inbox \/ InBuffer(c, m)

\* A row leaves the table only after its recipient has received the message
\* (pending_delivery.go does not delete, router.go deleteByID does).
KeptUntilReceived == saved \ store \subseteq inbox

\* When the sender is told 202, each target of the plan has had its message
\* saved or accepted by one of its Send buffers.
AcceptedIsHandled ==
  \A m \in Msgs : task[m].pc = "accepted" =>
    \A i \in 1 .. Len(Plan[m]) : <<Plan[m][i], m>> \in saved \cup buffered

InFlight(u, m) ==
  \E c \in SessionsOf(u) : sess[c] = "open" /\ InBuffer(c, m)

\* A message the sender was told is accepted is kept, received, or on its way
\* in the buffer of an open session.
AcceptedIsNeverLost ==
  \A m \in Msgs : task[m].pc = "accepted" =>
    \A i \in 1 .. Len(Plan[m]) :
      \/ <<Plan[m][i], m>> \in store \cup inbox
      \/ InFlight(Plan[m][i], m)

-----------------------------------------------------------------------------
(* The promise of Mailbox, kept by the store and the acknowledgements.     *)

Box == [r \in Rows |-> IF r \in store THEN "waiting"
                       ELSE IF r \in saved THEN "removed" ELSE "absent"]

Kept == INSTANCE Mailbox WITH box <- Box, got <- inbox

KeepsMailboxSafety == Kept!MailboxSafety

\* Every kept envelope reaches its recipient, who keeps reconnecting.
KeepsMailbox == Kept!MailboxSpec
=============================================================================
