# Sigma Messenger: TLA+ models and proofs

Sigma Messenger is a mobile client in Flutter (`src/lib`, `src/packages`) and a
server in Go (`src/sigma-server`). A client keeps one websocket to one server
process; messages are relayed live to the recipient's socket or kept in a table
until the recipient connects and acknowledges them. Several server processes
share a Postgres database and talk to each other through Redis. This directory
models the parts where goroutines, callbacks, databases and networks interleave,
checks them with TLC on small instances, and proves the central invariants with
TLAPS for every instance.

Contents: 1 inventory, 2 plan, 3 modules, 4 runs, 5 bounds, 6 fairness,
7 proofs, 8 disagreements with the code, 9 what is not modelled.

## 1. Inventory

Paths are relative to `src/sigma-server/internal` (server) and `src/packages`
(client). `PROJECT.json` lists every component with its files and status, and
the hazards with their lines.

### Server

| Part | State | Operations | Talks to |
|---|---|---|---|
| Hub (`transport/ws/hub`) | map user → sessions under a mutex; channels register, stop | Register, Run, UnregisterConnection, CloseUser, SendToUser, HandleRemotePresence, Shutdown | handler, session, presence, metrics |
| Upgrade handler (`transport/ws/handler`) | none | authenticate, upgrade, evict older sessions, register, start, replay after 100 ms | Hub, PendingDelivery |
| Session (`transport/ws/session`) | Send buffer of 256 frames, closeOnce, teardownOnce | Start, readPump, writePump, Enqueue, Teardown | Hub, presence, router |
| Dispatch (`service/message_dispatch_service.go`) | none | per target: live send, else persist | Hub, delivery |
| Delivery (`delivery`, `repository/storage/envelope_manager.go`) | envelope table | persist, then live copy if the recipient is online; delete by acknowledgement | presence, Hub |
| Replay (`transport/ws/service/pending_delivery.go`) | none | on connect: read pending rows and events, enqueue each | session, tables |
| Presence and rate limit of one process (`transport/ws/middleware`) | user → devices, expiry; user → message count of the second | MarkOnline, MarkOffline, IsOnline, cleanup; Allow | session, delivery |
| Presence across processes (`platform/presence`) | Redis key per user, channel `sigma:presence` | Register, Refresh, Remove, listen | Hub |
| Domain events (`events`, `platform/pubsub`, pending events) | event table, channel `sigma:events` | Publish*, HandleRemote, DeliverTargets, replay | Hub, Redis |
| Bot updates (`service/bot_api_service.go`, bot stores) | update rows, webhook row | IngestMessage, GetUpdates, SetWebhook, DeleteWebhook | webhook URL, database |
| Bot father (`service/bot_service.go`, `bot_father_service.go`, `business/bot`) | bot rows in accounts | Ensure at start; create a bot, list bots, reply (not reached, section 8) | delivery, database |
| Routes of frames (`transport/ws/router`) | none | messages, receipts, typing, sync, delete | dispatch, delivery |
| Typing and sync (`transport/ws/service/advanced_message_service.go`) | who types to whom, under a mutex | handle a notice, clean up, fan a sync out | dispatch |
| Chats and membership (`repository/storage/chat_manager.go`, `chat_rules.go`) | chat and member tables | create, add and remove members, limits | database |
| Business routing (`business/message`, `recipient_reader.go`) | none | plan the targets of a message | chats |
| Registration and login (`service/registration_service.go`, `auth`, `service/auth_service.go`) | maps of sessions, codes and locks; users, accounts, device sessions | verify codes, create accounts, issue tokens | telephony, database |
| Profiles, accounts, reactions (`service/profile_service.go`, `account_service.go`, `message_reaction_service.go`) | rows | read a row, save it | database |
| Start and stop (`app/application.go`, `app/run.go`) | closers, the hub's state | wire, run, drain, shut down, close | Hub, Redis, database |
| Configuration and admission (`config`, `auth/jwt_generator.go`, `transport/ws/service/auth.go`, `transport/ws/security`) | none | load, normalise, validate; tokens and origins | every request |
| Directory, payments, other HTTP controllers, metrics, push, telephony | rows, counters | one read or one external call | database |

### Client

| Part | State | Operations | Talks to |
|---|---|---|---|
| Socket (`sigma_core/.../signal_service_message_receiver.dart`) | status, channel, attempt in flight, reconnect timer, connectivity | connect, disconnect, establish, heartbeat, drop | login, jobs, server |
| Job queue (`sigma_core/.../job_manager.dart`, JobDao) | Jobs table, processing flag | add, process, retry with delay, reset on start | socket, factories, database |
| Sending (`sigma_chat`: SendMessageInteractor, PushTextSendJob) | message table | save as pending, enqueue, hand to the socket, mark as sent | jobs, socket |
| Session (`sigma_auth`: login and logout interactors; SigmaStore) | token in memory and in secure storage | log in, log out, clear | socket, database |
| Reception (`push_receive_job.dart`, `push_message_processor.dart`) | message table | process a frame, acknowledge it | jobs, socket |
| Screens, profile, contacts | view models | one call and one table each | server, database |

### What is hard here

- *Interleaving of goroutines.* Two upgrades of one user, a teardown during a
  registration, an eviction during a shutdown (Hub); a row inserted while its
  recipient connects (Relay); MarkOnline of one connection against MarkOffline
  of another (WsPresence); two messages to one bot taking the same update id
  (BotUpdates); a typing notice that waits under the lock (Notices); the SET of a
  presence key against the DEL of the same session's teardown (Process).
- *Check, then act, in a database without a transaction.* A first login that
  finds no user and inserts one later (Registration); a whole row saved over
  what another request stored (UserRecords); members counted before they are
  inserted, and a count written after waiting for a lock (Chats).
- *Two spellings of one thing.* The types of accounts and of recipients: a search
  that never finds what was inserted (Process), a fallback that hides it (Chats).
- *State read early and used late.* The list of sessions `deliver` copies, the
  sessions CloseUser copies, `isConnected` read two awaits before the message is
  handed over, the user who may be gone when a handshake ends.
- *Limits.* A Send buffer that is full during a replay, the connection limit
  checked far from the insertion, the window of the rate limiter.
- *Partial failure and restart.* A target of a group that cannot be saved, an
  event that is saved for some targets, a client that dies with a job marked as
  running, a user stored without the account, a token told in a reply that is
  lost, a drain that runs out of time.
- *Something must happen in the end.* Shutdown ends every session, a saved row
  reaches its recipient, a socket without a connection tries again, a job that
  is due is run, a typer is forgotten, a signal ends the process.

### What makes each part correct

- Hub: no registered session is lost to messages or to shutdown; an eviction
  reaches every older session; the gauge is the number of sessions; shutdown
  closes them all; nobody waits for ever.
- Relay: what the sender was told is accepted is saved or buffered; a saved row
  stays until received and is offered to every session that could have missed it;
  it reaches a recipient who keeps reconnecting.
- WsPresence: nobody is online without a device, and everybody goes offline in
  the end. RedisPresence: one server has the user once announcements are heard.
- Events: a published event is kept for each target until a session took it.
- BotUpdates: an update leaves the queue only by being handed out, and polls do
  not repeat it.
- Client: the status tells the truth; a lost socket retries; no job is forgotten
  or stuck; a message is handed over once unless something failed.
- Reception: a row is deleted only after a client handled its content, and one
  request is told so. Notices: notices go out in the order of the changes, and a
  synchronisation leaves no target out.
- Registration: a phone has one identity, tokens name stored rows, a used code
  is not accepted again, an account comes with its user.
- UserRecords: only an overlapping request undoes what a user set.
- Chats: limits and counts are wrong only after overlapping calls; a plan
  reaches all members.
- Process: an orderly stop leaves nobody online in Redis but those whose session
  ended in the middle of its registration or of the stop; servers share no row
  they made themselves; a signal ends the process.
- Admission: the socket and the routes see the same user, origins were listed.

## 2. Plan

In order of importance; the steps that are done are marked.

1. (done) `Hub`, `HubProofs`: sessions of one server.
2. (done) `Mailbox`, the abstract promise about one kept envelope; `Relay`, which
   implements it; `RelayProofs`. `Sessions`, what `Hub` and `Relay` promise of a
   session.
3. (done) `WsPresence`, `RedisPresence`, `Events`: who is online, and events.
4. (done) `ClientSocket`, `ClientJobs`, `ClientProofs`: the client.
5. (done) `BotUpdates`, `BotProofs`: the queue of a bot.
6. (done) `Reception`: the client's jobs for received frames and the route that
   deletes rows; `Notices`: typing, synchronisation and receipts.
7. (done) `Registration`, `RegistrationProofs`: codes, sessions, first logins;
   `UserRecords`: profiles, accounts, reactions.
8. (done) `Process`: start and shutdown; `Chats`: members, and the routing of a
   message to them; `Admission`: configuration, tokens, origins.
9. (done) `EventsProofs`, `NoticesProofs`, `RedisProofs`: events, chats, notices,
   reception, presence in Redis, processes; the part of `RegistrationProofs` on
   profiles, accounts and reactions; those of `RedisProofs` on WsPresence and on
   Admission.
10. Models still to write: job chains of the client; the route for keys, which
    keeps no state; the other jobs of the client, which follow the pattern of
    PushTextSendJob. The commands of the BotFather, once the code reaches them.

Abstract specifications: Mailbox, for Relay and Reception; Sessions, for Hub and
Relay. The history variables `intended` (UserRecords) and `changed` (Notices) play
that part in modules whose abstract side is one assignment.

## 3. Modules

| Module | Models | Checked by | Proved in |
|---|---|---|---|
| Hub | Hub, upgrade handler, teardown of sessions | MCHub, MCDelivery | HubProofs |
| Mailbox | abstract: one kept envelope for one recipient | through Relay | RelayProofs, NoticesProofs |
| Sessions | abstract: the life of a websocket session | no run | HubProofs, RelayProofs |
| Relay | Dispatch, live path, envelope table, replay, acknowledgement | MCRelay, MCDelivery | RelayProofs |
| WsPresence | PresenceCoordinator, RateLimiter and the pumps that call them | MCCluster | RedisProofs |
| RedisPresence | presence.Coordinator with the evictions of Hub, several servers | MCHub | RedisProofs |
| Events | events.Router, RedisEventHub, event delivery and replay | MCDelivery | EventsProofs |
| BotUpdates | BotAPIService with its two stores, and a polling bot | MCHub | BotProofs |
| Notices | the typing, sync and receipt routes with their services | MCCluster | NoticesProofs |
| Process | NewApplication, Run, the shutdown and Close of several servers | MCCluster | RedisProofs |
| Registration | codes, verification sessions, first logins, CreateAccount | MCServices | RegistrationProofs |
| Reception | kept rows, the jobs of the client that receives them, the deletion route | MCServices | NoticesProofs |
| UserRecords | ProfileService, AccountService, MessageReactionService | MCServices | RegistrationProofs |
| Chats | ChatManager's changes of members, Resolve over the recipient store | MCClient | EventsProofs |
| Admission | configuration, JWT, identity of a websocket request, origins | MCClient | RedisProofs |
| ClientSocket | the client's websocket, login and logout | MCClient | ClientProofs |
| ClientJobs | the job queue and the sending of messages, on ClientSocket | MCClient | ClientProofs |

`PROJECT.json` maps every definition to the lines it stands for. How the states
and steps correspond to the code:

**Hub.** A variable per goroutine says where it stands: `handler[c]` for the
goroutine of a connection (upgrade, CloseUser, Register, Start, read pump),
`loop` for Run, `closing`/`current` for whoever is tearing sessions down,
`teardown[c]` for the body of `teardownOnce` (mark, close the socket, remove from
the map, withdraw presence). A step ends where the code releases `Hub.mu`,
passes a channel or calls out of the process. `sync.Once` is modelled with its
waiting: a second caller of Teardown waits for the first. `older` is a history
variable.

**Relay.** `task[m]` is one call of Dispatch: for each target in order it copies
the sessions, offers the frame to each, and on refusal by all saves a row, looks
again, and offers the row. `sendq[c]` is the Send buffer, `replay[c]` the replay
goroutine, `store` the pending rows. Whether a session is evicted or torn down in
several steps does not matter for messages, so these are single steps here. The
plan of a Dispatch is any sequence of distinct users, which is what
`RoutePlan.Targets` is.

**Mailbox and the refinement.** `box[r]` is absent, waiting or removed. Relay
maps it from the table and the history of saved rows, and `got` from the clients'
inboxes. `KeepsMailboxSafety` is the safety part (a row is posted once and
removed only after its recipient had it), `KeepsMailbox` adds that a waiting row
reaches its recipient.

**WsPresence, RedisPresence, Events.** One step per critical section, Redis
command or database call. Time is what it makes true: an entry is fresh until it
expires, a window is counted until it is over. A Redis channel is one queue per
subscriber in one common order, and Redis does not fail.

**BotUpdates.** One step per SQL statement. The update ids are read with MAX and
written later, as in the code, so two messages may get the same id. The bot
keeps the offset as `examples/weather-bot` does, may start again from 0, and may
give a poll up while the server goes on with it. The module is about these
services from the call on. In the code as it stands no message gets to
IngestMessage (section 8), and only the token of a row of type 'bot' polls.

**ClientSocket, ClientJobs.** Dart runs one callback at a time, so a step is what
happens between two awaits. `loop` is the await at which `_processPendingJobs`
stands, with the jobs it read; `adder[j]` is the call of SendMessageInteractor
for message `j`; `timer`, `attempt` and `channel` are the fields of the receiver.
Delays are a timer that may fire at any time. ClientJobs EXTENDS ClientSocket:
where both take part in one step (a status that wakes the loop, a logout that
clears the tables, a restart) ClientJobs has the joint action.

**Notices.** `mu` is TypingService.mu, held from the change of the table to the
end of the Dispatch. A ticker removes who has typed too long. The envelope of a
notice has no payload (section 8), so a notice is its sender and its recipient:
`changed` records whose entries were changed for a recipient, `noticed` of whom
notices were dispatched. A receipt is one Dispatch of such an envelope.

**Process.** `at` is where `main` stands, `closes` the list of closers. A start
may fail at the database and at the BotFather, and then the process ends without
Close; without Redis it goes on. `fathers` are the rows with the father's
username, with their types: the search asks for 'bot' and finds at most a row
made by hand, the insertion stores 'BOT'. On a signal the HTTP server drains; if
that takes too long Run returns before the hub is told to shut down. `hub` and
`hand` are Run with the session it is registering: into the map under Hub.mu
(Insert), then SET of its key without the lock (SetKey). A teardown takes the
session from the map (Leave) and then deletes the key (RemoveKey), which may be
before the SET; `doomed` is what closeAll took from the map and waits for.
`missed` records the keys whose DEL had no effect or came first.

**Registration.** `step[r]` is where request `r` stands between two database
calls. Codes and sessions are memory and go with a crash. A code is the number
of the message that brought it, so two codes are never equal by accident; the
id of a row is the request that made it. The unique columns of `users` are
enforced, with '' as a value like others, as GORM stores it.

**Reception.** Frames become rows of the client's job queue; a job handles the
content and acknowledges. The error of a handler is swallowed, so such a job
ends without an acknowledgement and is deleted. The route tries the two tables
in turn. `Forms` are the shapes of acknowledgement in use: the client of the
repository sends `bare`, which the route refuses (section 8). The passing run
therefore uses `receipt`, the shape the route asks for, to check the rest of the
path.

**UserRecords.** A request reads, decides and saves in separate steps. `Save`
writes all columns and inserts the row if there is none, as GORM does.
`intended` is what the answered requests would have made one after another,
`raced` the rows written while another request had read them. `lastId` is the
sequence from which message_reactions takes its ids.

**Chats.** Transactions under READ COMMITTED, statement by statement: an INSERT
waits for the writer of the same key, an UPDATE for the writer of the row and
then writes what it computed before. `reader` says which store stands behind
RecipientStore: `RecipientReader` is the one the server is wired with, which
takes every destination for an individual (section 8); `contract` one that
tells the types, like the stub of `router_test.go`. MembersAreTargets and
MutedGetNoPush say something with the second only. No request handler calls the
methods that change members, and no code sets `is_muted`.

**Admission.** A configuration file is loaded, normalised and validated; a
request is then decided from it alone. Strings matter by what the code asks of
them: empty, blank, padded or trimmed.

Definitions marked *Faulty variant* are what the code would do with a plausible
mistake; no specification uses them. `PROJECT.json` names, for every property of
a passing run, such a variant under which TLC finds the property violated.

## 4. Runs

Passing runs:

| Run | Module, configuration | Shows |
|---|---|---|
| hub_safety | MCHub, HubSafety.cfg | Hub with two sessions of one user and one of another: NoLostSession, StoppedHubIsEmpty, GaugeMatches, EvictsOlder. RedisPresence: OneServerAtRest. BotUpdates: DeliveredWasHanded, PolledOnce |
| delivery | MCDelivery, Delivery.cfg | Hub: SessionsEnd, RegistrationAnswered. Relay: KeepsMailbox, the liveness of the refinement. Events: PublishedIsKept |
| relay_safety | MCRelay, RelaySafety.cfg | two messages, one to a group: NoMissedWakeup, AcceptedIsHandled, KeepsMailboxSafety |
| cluster | MCCluster, Cluster.cfg | WsPresence: GoneGoesOffline. Notices: NoticesAreSent, TypersAreForgotten. Process: StoresAreSound, SignalEnds |
| client | MCClient, Client.cfg | ClientSocket and ClientJobs: StatusTellsChannel, RetryIsArmed, NoLostWakeup, RunningIsHeld, NoNeedlessRepeat, DeletedIsDone. Chats: OnlyOverlapsDisturb, MembersAreServed. Admission: AdmittedAsConfigured |
| services | MCServices, Services.cfg | Registration: SameIdentity, TokensAreSound, OneUse, SecondOverlaps. Reception: DeletedOnceHandled. UserRecords: LostOnlyToOverlap |

Each passing run of safety properties also checks the type invariants
(`TypeOK`, or `AllTypes` where a module puts several parts together). MCHub,
MCCluster, MCClient, MCServices and MCDelivery put modules that share no state into
one run: Init chooses the part that moves, the others stay where they are, and
each property is that of its part.

Some properties are conjunctions of named parts that state one promise, and the
parts are where the modules explain them:

| Property | Parts |
|---|---|
| SessionsEnd (Hub) | ShutdownClosesSessions, DoomedAreClosed |
| NoticesAreSent (Notices) | NoticesInOrder, TableAwaitsNotice, SyncTriesAll |
| StoresAreSound (Process) | OrderlyLeavesNoKey, FathersAreOwn |
| TokensAreSound (Registration) | OwnersExist, AccountOrBroken |
| DeletedOnceHandled (Reception) | GoneWasHandled, ToldMatchesTable |
| LostOnlyToOverlap (UserRecords) | ProfileAsAsked, ReactionAsAsked, DeletedStaysGone |
| OnlyOverlapsDisturb (Chats) | LimitKept, CountIsMembers |
| MembersAreServed (Chats) | AskedAreMembers, MembersAreTargets, MutedGetNoPush |
| AdmittedAsConfigured (Admission) | ClientFitsMode, OriginWasListed, SameUserOnBoth |

Several of them say *only an overlapping request breaks this*. The code has no
transaction around its check and its act, so that the plain statement does not
hold; what remains, and what is checked, is that nothing else breaks it, and the
history variables (`raced`, `crowded`, `stale`, `blind`, `before`) record an
overlap of just those rows, not that anything overlapped at all.

Runs that show a disagreement (section 8): relay_lost, bots_skipped,
client_sent, second_login, ack_refused, routes_by_type. Each checks one property
and TLC finds it violated.

## 5. Bounds

- hub_safety: Hub has three connections, `MaxConnectionsPerUser` = 2. Two
  connections of one user are enough for two overlapping upgrades and evictions,
  the third, of another user, for what the Run loop and shutdown do to both. The
  limit of 2 lets the check refuse an upgrade. RedisPresence has the same three
  connections on two servers and one session that closes by itself
  (`MaxDropped`). BotUpdates has two messages, two polls and `Limit` = 1 where the
  code has 100, so that a poll leaves an update behind. Connections of one user
  are interchangeable (SYMMETRY).
- delivery: two connections of one user; a message to that user. Two lost peers
  (`MaxFailures`), after which the network behaves; without a bound the recipient
  could lose every connection for ever. No symmetry. Events has one event for two
  users on two servers, two sessions (`MaxSessions`) and two failed insertions: a
  failure for one target beside one that is saved, and both failing.
- relay_safety: `Capacity` = 1, so that a buffer is full after one frame; in the
  code it is 256. Two messages, two targets of which one never connects, two
  connections, one failure. `FindMayFail` lets the read of the rows fail.
- cluster: two connections of a user (presence), `MaxMsgs` = 2 messages per
  second where the code has 100; two connections of one user who sends four
  notices, synchronisations or receipts (`MaxRequests`) to two users; two servers
  that start twice between them (`MaxStarts`), with one session on the first, which
  alone reaches Redis (`Clustered`): a key belongs to the server of its session, so
  that the second matters for the shared row of the BotFather only. Two starts are
  enough for two fathers, one after the other or at once.
- client: one account, one message and one poll vote (a job without a factory),
  `MaxAttempts` = 2, one error of a database or network call (`MaxErrors`), one
  restart (`MaxRestarts`). Two jobs are enough for one to be pending while the
  loop is at the other. Chats has two calls beside one plan; 248 further members
  (`Rest`) put the group of limit 250 one below it, so that both calls find room
  and together have none. Admission takes every choice about Redis with one
  about the rest, and every choice about the socket with one Redis.
- services: three requests on two phones, of which one may have a user from
  before, two codes (`MaxSends`), `MaxTries` = 1 where the code has 5, one restart
  (`MaxCrashes`); two logins may overlap while a third breaks in. Reception has
  two devices, a row of each of the two tables, one lost connection or restart
  (`MaxLost`) and one failed statement. UserRecords has three requests of two
  users: two that overlap and one that could put things right.

`CHECK_DEADLOCK FALSE` is set where the system may stop: after the shutdown of
the hub, or when every session, event, message or request has been used. In
MCClient the client itself never stops, and the parts that come to an end have
the step AtRest.

## 6. Fairness

Weak fairness of a goroutine's or a callback's next step: the Go scheduler runs
what is runnable, mutexes are held for bounded work, a `select` with one ready
case takes it. It is assumed for Run, handlers, closers, teardowns and read pumps
whose socket is closed (Hub); for Dispatch, Run, replay, write pumps, and
teardowns of sessions whose peer is gone, which ping and read deadlines enforce
(Relay); for read pumps and the passing of time (WsPresence); for the read pumps
and the ticker of TypingService together (Notices), where nothing needs more;
for what a process does between the signal and its end, the 10 seconds of its
context included (Process). `RunCloseAll` has a condition of its own because
closing is what Run must do once `stop` is closed, whatever else is ready.
Events states the fairness of publishers and listeners; no run uses it, because
what it would show does not hold (section 8).

Strong fairness is assumed of one thing, a client that reconnects: it tries
again and again, and other sessions of the user may interrupt it. Nothing is
assumed of senders, acknowledgements, peers, failures, remote events, signals or
Shutdown.

KeepsMailbox needs two more conditions, and both are visible in the
configuration: reads of the pending rows succeed (`FindMayFail = FALSE`; nobody
repeats a failed read before the next connection) and the buffer holds the
backlog (one message, capacity 1). Section 8 says what happens otherwise.

## 7. Proofs

All proofs hold for every value of the constants that satisfies the named
assumptions of the module, which TLC evaluates on the instances: `HubAssumption`,
`RelayAssumption`, `AccountsAssumption`, `JobsAssumption`, `RegistrationAssumption`;
elsewhere the operator `Parameters`, which the theorems name as their hypothesis
(`ASSUME Parameters PROVE Spec => ...`) and the ASSUME of the MC module
instantiates. They say which constants are sets of what, that `None` is none of
them, and in Chats that the accounts are finitely many and that the chat is within
its limit when the model begins; in Reception that the rows are finitely many, and
for the types of BotUpdates that the messages are. Some proof modules have a second
part, on a module they take by INSTANCE (Chats in EventsProofs, Reception in
NoticesProofs, Process in RedisProofs, UserRecords in RegistrationProofs, WsPresence
and Admission in RedisProofs): its theorems are about `Group!Spec`, `Rec!Spec`,
`Life!Spec`, `Recs!Spec`, `Local!Spec` and `Admit!Spec`, with all constants and
variables declared and nothing said of them.

**HubProofs.** `TypeCorrect`. `NoSessionIsLost` and `ShutdownLeavesNothing` from
`SessionInv`: the types; when a goroutine's list of sessions to close
is empty and that the map is empty from closeAll on (`ListsReady`); and
NoLostSession. NoLostSession alone is not inductive: a goroutine that starts to
evict replaces its list, which loses nothing only because the list was empty, and
Run may stop only when its own has been worked off.
`OlderAreEvicted` from `EvictionTakes`: while a handler evicts or registers, each
session it had found is torn down or on the list of somebody who will do so.
`GaugeIsRight` from `GaugeInv`: the gauge is, at every step, the number of
sessions Run has counted in less the number of those a teardown has counted out.
One may be counted out before it is counted in, so the gauge can be negative on
the way; that they meet needs that whoever is torn down was received by Run.
`HubImplementsSessions`: with the refinement mapping `Place`, every step is a step of
Sessions or changes nothing there. A session is *closed* as soon as its teardown has
begun, so that one which Run files after that (section 8, OnlyActiveSessions) does
not come back; *taken* is an open session outside the map, which by NoLostSession
is on the list of a closer. The mapping needs GaugeInv: what is in the map, listed
or torn down was received.

**RelayProofs.** `RelayInv` is the conjunction of the types and of the reasons:
a replay starts only after its session is in the map (`LoopWaits`); a row an open
session has neither been offered nor will be replayed is about to be offered live
to a set of sessions that contains it (`WakeupPending`, from which `NoWakeupIsMissed`
follows: insertion before presence, registration before read); what an open session
was offered its client has received, or it is in the buffer (`OffersArrive`, which
needs `FreeIsUnused`: an object free for a new session was offered nothing and
nobody holds it); only what was
received is acknowledged (`AcksAreReceived`, hence `RowsAreKept`); targets already
passed are in the table or were buffered (`ServedSoFar`, hence
`AcceptedMeansHandled`); a row is saved by the Dispatch that stands at its target
(`SavedInTurn`), hence once. `StoreImplementsMailbox` shows that every step of
Relay is a step of Mailbox or changes nothing there; that Save posts an *absent*
row is where SavedInTurn and the distinctness of a plan's targets are needed.
`RelayImplementsSessions`: the sessions of Relay, evicted and torn down in one step,
keep the promise that Hub keeps step by step. It does not say that Relay has every
behaviour of Hub: a closer that pauses between two teardowns is in Hub only.

**ClientProofs.** `ClientInv` = `SocketInv` and `QueueInv`. StatusIsTrue and
SocketRetries need `SessionHasToken` (nobody is the current user without a token,
so an attempt cannot return for want of one) and `OfflineWaits` (offline, only an
attempt in flight keeps the status from waitingNetwork). NoWakeupIsLost needs
`WaitsAfterTry`: a job that waits for its time was tried, so a job never tried is
always due, and the loop cannot end over it. NoJobIsStuck is the invariant
RunningIsHeld itself. `NoMessageIsRepeated` from `RepeatInv`: what was handed over
is paid for by errors, restarts and the one that is free (`Paid`), where the free
one is spent as soon as the message is no longer pending or the loop is about to
note it as sent. `JobsAreDeletedWhenDone` needs `RanOrOrphan`: the loop comes to its
deletions only with a message that is no longer pending or a job without factory.

**BotProofs.** `DeliveredAreHanded` from `HandInv`: what a poll has read or the
webhook has accepted is recorded as handed out, and a message without a row is in
nobody's hands. `NoPollRepeats` adds `TakenOnce`: a pending row has not been
brought, the poll the bot waits for holds none that has, and the rows of a poll
that marked them are not pending again. Neither needs update ids to be distinct.
`UpdateTypeCorrect` is where the ids are numbers: none is greater than the number of
messages that got one (`Counted`), so the maximum plus one that NextUpdateID returns
is within one of it (`NextIsNear`), also when rows were dropped or an id is shared.

**EventsProofs.** `EventsAreKept` from `EventsInv`: a call of publish has kept, for
each target it has behind it, a row or an offer (`CallsServe`). It is the order of
the code, deliver or save for all, then publish, that makes it inductive.
`OnlyOverlapsDisturbChats` and `MembersAreServedChats` from `GroupInv`. Per
transaction: it writes in one direction and nothing it has not looked for
(`WritesFit`); what it counted is what its commit leaves, unless it is marked as
disturbed (`CountFits`); unless members were added beside it, those it adds fit
into the limit together with the members there are (`RoomFits`); whom it was asked
to add is on its list, written, a member or lost (`AskedFit`). Per plan: who was a
member all the time is on the list or among the targets, and a push is for none
who was muted all the time (`PlanFits`). The commit of one transaction is the step
at which the four of every other one have to be shown, and LimitKept follows from
the room of the one that commits. Cardinalities enter by five facts about finite
sets (`Sizes`).

**NoticesProofs.** `NoticesAreRight` from `NoticesInv`: the pump between its change
of the table and its Dispatch holds the lock (`LockIsHeld`), its change is the one
that is not dispatched yet (`ChangeAwaits`), and the table still has what its
request asked for; without the lock a second change could come between and be
dispatched first. `RowsGoOnceHandled` from `ReceptionInv`: a frame carries
the id of its row, the worker that is to acknowledge stands at a job whose content
it handled (`WorkerHasJob`), and only ids of handled rows are in an acknowledgement
on the way (`AcksAreOfHandled`). A frame that is sent twice, by the live path and by
the replay or by two replays, changes nothing in this. `ReceptionImplementsMailbox`
maps the rows of envelopes and those some device has handled to Mailbox, the
promise that Relay keeps too: Relay takes an acknowledgement as one step of the
client, Reception has the job, the frame and the two statements. The rows of the
old table are outside, because nothing posts them.

**RedisProofs.** `OneServerHolds` from `PresenceInv`, the types and the property
itself: an announcement that is queued stays queued until its server is at it.
`StoresStaySound` from `LifeInv`: Run is off until the process serves, holds a
session of its own server, and has emptied the map when it closes (`HubFits`); a
live session is in the map, in the hand of Run or taken by closeAll, so that none is
live when Run has ended (`LiveIsKnown`); until Close begins a process has the client
of Redis with which it wrote a key (`KeyCanBeDeleted`); and a server's father is a
row there is (`FatherIsRow`). `ProcessTypeCorrect` adds the list of closers through
initRedis and Close.
`LocalPresenceTypes` is about WsPresence: its invariant adds to the types that the
entry of a user who counts as online has a device, expired or not.
`AdmitsAsConfigured` from `AdmitInv`: the configuration in use is one that was loaded
and, once the server is up, valid. What is loaded is normalised, and the check of
an origin normalises it again; that the second time changes nothing is where the
loop over the addresses has to be reasoned about. Instead of an induction, which
the prover does not have for recursive functions, the proof takes the least number
of addresses at which a claim fails (`LeastNumber`) and finds that it holds there:
so `TrimmedIsAppended` (the loop appends or leaves out one text at a time),
`TrimTwice` and `NormalizedTwice`. `AdmissionTypeCorrect` uses the same lemmas.
`OneUserOnBoth` is the part SameUserOnBoth, which needs no configuration.

**RegistrationProofs.** `TypeInv` adds to the types that sessions and requests know
their phone, and logins their subject, by the step at which they use them.
`OneIdentity` and `OwnersAreStored` follow from `NamedInv`: what a request or a
token names is a row of that request's or token's phone, and two rows of one phone
are one (`PhonesDiffer`, which is what the unique index of phones gives).
`AccountsComeOrBreak` needs `AccountComes`, that a row of a user which a request has
inserted is followed by the account unless the request broke off, and with
OwnersAreStored gives `TokensAreComplete`. `CodesAreUsedOnce` needs `CodeInv`: code
numbers are given out once, and a code that a login has matched belongs to its phone
or to none, so that removing it cannot bring another one back.
`SecondAccountsOverlap` needs `SearchedFirst`: who inserts without having failed to
search has seen all that was there when it searched. `RecordsLostOnlyToOverlap` from
`RecordsInv`: unless its row was written meanwhile, a request holds it as it is
(`ReadFits`), and the id of a reaction that anybody holds was given to one user and
one message for ever (`IdsFit`), so that saving a row that was removed since can
replace nobody else's. That a write leaves no other request with a stale row that is
not marked as raced is one lemma (`OthersKnow`) for all writers. The search for the
first row by id needs that a set of numbers has a least one (`Least`).
`RecordsTypeCorrect` adds what the row found by a request can be, and that a profile
is saved only under a username nobody else has.

**Model-checked only.** The liveness properties SessionsEnd, RegistrationAnswered,
GoneGoesOffline, TypersAreForgotten and SignalEnds, and the fairness of KeepsMailbox
(its safety part is proved): reasoning under fairness needs ENABLED, which is beyond
the prover. Every safety property of a passing run is proved, those of an INSTANCE
under the name of its module. The six disagreements of section 8 are shown by TLC
alone. Sessions has no run of its own; its two refinements were checked on the
instances of MCHub and MCRelay before they were proved.

## 8. Where the code and its documents disagree

| Run | Property | What happens |
|---|---|---|
| relay_lost | AcceptedIsNeverLost | a frame accepted into a Send buffer is not saved, and is lost when the session closes, after the sender was told 202; the documents promise that no message is lost |
| ack_refused | NoAckIsRefused | the route refuses the acknowledgement the client sends, because it has no receipt status; the row stays and is sent again on every connection |
| routes_by_type | RoutesByType | the types in the database and those of the router are spelled differently, so that a message to a group is stored for the group's own id |
| second_login | OnlyTakenPhoneRefused | the second first login of a server is refused, because users without an e-mail all have the same empty one in a unique column |
| bots_skipped | PendingIsAhead | a bot that polls with the last id plus one, as the example bot does, never gets the next update, because the server returns ids greater than the offset |
| client_sent | SentWasHanded | a message is shown as sent although the socket had gone and nothing was handed to it |

Seen while modelling, without a run:

- OneSession (Hub): two overlapping upgrades of one user evict nothing and both
  stay, although a comment of the handler says the eviction prevents it.
  OnlyActiveSessions (Hub): a session torn down before its insertion stays in
  the map.
- KeepsMailbox of Relay with a backlog longer than the Send buffer: the replay
  tears the session down on every connect, and nothing need ever arrive.
- OpenIsOnline (WsPresence): a user whose last device left and who returns before
  the entry expires stays offline. KeyNamesTheServer (RedisPresence): an eviction
  deletes the key of the new server; nothing reads it.
- Events: Publish overwrites the id of the server an event comes from, so that two
  servers publish one event to each other for ever.
- LogoutDisconnects (ClientSocket): a handshake in flight opens a channel for the
  account that has logged out.
- Bots. `app/doc.go:50` says that "Bots answer /start and BotFather supports
  /newbot". The finders of `bot_repository.go` ask for the type 'bot' (line 25),
  CreateBot and EnsureBotFather store "BOT" (lines 58 and 90), and Handle refuses
  every type but "BOT" (`bot_service.go:54`): whatever row FindByID returns is
  refused, no command is carried out, and no message reaches IngestMessage. A list
  of an owner's bots would not show those the server made. Every start finds no
  father of an earlier start and inserts one of its own (FathersAreOwn). BotUpdates
  is about the services behind Handle.
- Ids. Users the server makes have ids `usr_...` and bots `bot_...`; uuid.Parse
  refuses those wherever a message, a replay, the acknowledgement of a row, the bot
  API or the deletion of an account (`account_controller.go:62`) asks for a UUID, so
  that only rows made otherwise can be addressed. The models are about those.
- Notices. The envelopes of a typing notice and of a receipt have no payload
  (`advanced_message_service.go:125` and the Dispatch of HandleReceipt): the
  recipient hears of neither started nor stopped, nor which message was received.
- Presence keys. Run sends SET after it has left Hub.mu (`hub.go:143`), and so does
  a teardown with DEL: a session that ends while it is registered leaves its key,
  also after an orderly stop, until it expires. OrderlyLeavesNoKey excepts it.
- Tables. `participant_count` is a column of `recipients`, not of the `accounts`
  that AutoMigrate makes and ChatManager updates; `message_reactions` is not among
  the tables of AutoMigrate.
- The configured Redis mode is not handed to the client, and an unknown mode is
  accepted; AdmittedAsConfigured says when that makes no difference.

## 9. What is not modelled

- The commands of the BotFather (list, create, reply) and the path of a message to
  a bot: no row gets past `bot_service.go:54`, so that a model of what comes after
  would be about a program that does not run. Handle itself changes nothing.
- The routes for keys and keep-alive, the directory, payments, attachments and
  metrics other than the gauge: reads, constants and I/O around one call.
  RetryManager, GroupPermissionValidator, CanManageChat, CanDeleteChat and the
  client of the registration service have no caller, registration locks are never
  set.
- Of chats, UpdateChat and the lists: single statements.
- DeleteAccount beside registrations: UserRecords has it, Registration has not.
- Of the deletion route, the refusal of a user whose id is no UUID, for whom nothing
  is kept, and the DELETE of envelopes by number, which finds no row among ids
  `env_...`. Of Validate, which field is missing: one choice says that one is, the
  key of the telephony provider among them.
- Of bots, the counter and the error text of the webhook row, and sendMessage,
  which is a Dispatch.
- The routing of paths to handlers, and wiring that cannot fail.
- The links between modules are by what one hands to the other: Relay takes the
  plan that Chats makes as the constant `Plan`, Reception the rows that Relay
  keeps as its table, Process the sessions of Hub as what a shutdown closes.
  They are not run together, which would be out of TLC's reach.
- A crash of the server in Hub and Relay: memory is lost and the tables stay; for
  the recipient this is a lost connection, which Relay has. BotUpdates,
  Registration and Process have it explicitly.
- Failures of Redis, and clocks: delays and expiries are nondeterministic. Maps
  without a lock in RegistrationService: a detected double write is a crash, one
  that goes unnoticed is not modelled.
- Contents of messages, encryption (there is none in the code), job chains,
  screens, push, telephony, and generated code.
