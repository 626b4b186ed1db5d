-------------------------------- MODULE Hub --------------------------------
(***************************************************************************)
(* The websocket session registry of one server process: the Hub, the      *)
(* upgrade handler that feeds it, and the teardown of a session            *)
(* (internal/transport/ws/{hub,handler,session}).                          *)
(*                                                                         *)
(* Who runs concurrently, and what a step is:                              *)
(*   - one goroutine per upgraded connection: HTTPHandler.Handle, then     *)
(*     Connection.Start and its read pump (variable handler);              *)
(*   - the Hub's Run loop (variable loop);                                 *)
(*   - the listener of remote presence events;                             *)
(*   - the write pumps and every caller of Enqueue, which matter here only *)
(*     because each may be the first to call Teardown.                     *)
(* A step ends where the code releases Hub.mu, passes a channel, or calls  *)
(* out of the process.  Messages are the subject of module Relay.          *)
(***************************************************************************)
EXTENDS Integers, FiniteSets

CONSTANTS
  Users,                  \* user ids
  Conns,                  \* Connection objects, each used for one session
  UserOf,                 \* Client.UserID of each connection
  MaxConnectionsPerUser,  \* HubConfig.MaxConnectionsPerUser
  Listener, RunLoop,      \* the two goroutines, besides handlers, that close sessions
  None

Closers == Conns \cup {Listener, RunLoop}

ASSUME HubAssumption ==
  /\ UserOf \in [Conns -> Users]
  /\ MaxConnectionsPerUser \in Nat \ {0}
  /\ Listener \notin Conns /\ RunLoop \notin Conns /\ Listener # RunLoop
  /\ None \notin Conns

VARIABLES
  connections,  \* Hub.connections: the registered sessions of each user
  handler,      \* where the goroutine of each connection stands
  closing,      \* sessions a closer took out of the map and must still tear down
  current,      \* the session whose Teardown the closer is in
  loop,         \* Hub.Run: where it stands and the connection in hand
  teardown,     \* progress of the body of Connection.teardownOnce
  advertised,   \* users this server has announced through presence.Coordinator
  active,       \* metrics.Collector.activeConnections
  stop,         \* Hub.stop is closed
  older         \* history: the sessions the map had held when a handler evicted,
                \* kept until its own session is handed over

vars == <<connections, handler, closing, current, loop, teardown,
          advertised, active, stop, older>>

HandlerStates == {"idle", "accepted", "evicting", "registering", "starting",
                  "serving", "handling", "gone"}
LoopStates == {"select", "insert", "announce", "closing", "stopped"}
TeardownStates == {"none", "marked", "closed", "removed", "done"}

Init ==
  /\ connections = [u \in Users |-> {}]
  /\ handler = [c \in Conns |-> "idle"]
  /\ closing = [k \in Closers |-> {}]
  /\ current = [k \in Closers |-> None]
  /\ loop = [pc |-> "select", conn |-> None]
  /\ teardown = [c \in Conns |-> "none"]
  /\ advertised = {}
  /\ active = 0
  /\ stop = FALSE
  /\ older = [c \in Conns |-> {}]

-----------------------------------------------------------------------------
(* What the code asks about a session.                                     *)

CanAccept(u) == Cardinality(connections[u]) < MaxConnectionsPerUser

SocketOpen(c) == teardown[c] \in {"none", "marked"}

\* The Run loop has put c into the map (and may have removed it since).
Inserted(c) ==
  /\ handler[c] \in {"starting", "serving", "handling", "gone"}
  /\ ~(loop.pc = "insert" /\ loop.conn = c)

\* The other sessions of c's user.
SessionsOf(c) == {d \in Conns \ {c} : UserOf[d] = UserOf[c]}

\* Some goroutine holds c on the list of sessions it is about to tear down.
Doomed(c) == \E k \in Closers : c \in closing[k]

\* Entry of Connection.Teardown: only the first caller runs the body, whose
\* first act is MarkOffline (module WsPresence).
EnterTeardown(c) ==
  teardown' = [teardown EXCEPT ![c] = IF @ = "none" THEN "marked" ELSE @]

-----------------------------------------------------------------------------
(* HTTPHandler.Handle and the pumps of one connection.                     *)

\* ResolveUserID and CanAccept passed and the protocol was upgraded.
Accept(c) ==
  /\ handler[c] = "idle"
  /\ ~stop
  /\ CanAccept(UserOf[c])
  /\ handler' = [handler EXCEPT ![c] = "accepted"]
  /\ UNCHANGED <<connections, closing, current, loop, teardown, advertised,
                 active, stop, older>>

\* Faulty variant: the map entry is deleted and the sessions are forgotten.
TakeSessionsForgets(k, u) ==
  /\ closing' = [closing EXCEPT ![k] = {}]
  /\ connections' = [connections EXCEPT ![u] = {}]

\* The locked half of CloseUser: closer k takes all of u's sessions.
TakeSessions(k, u) ==
  /\ closing' = [closing EXCEPT ![k] = connections[u]]
  /\ connections' = [connections EXCEPT ![u] = {}]

\* Faulty variant: the upgrade handler evicts nobody.
CloseUserSkipped(c) ==
  /\ handler[c] = "accepted"
  /\ handler' = [handler EXCEPT ![c] = "evicting"]
  /\ older' = [older EXCEPT ![c] = {d \in SessionsOf(c) : Inserted(d)}]
  /\ UNCHANGED <<connections, closing, current, loop, teardown, advertised,
                 active, stop>>

CloseUser(c) ==
  /\ handler[c] = "accepted"
  /\ TakeSessions(c, UserOf[c])
  /\ handler' = [handler EXCEPT ![c] = "evicting"]
  /\ older' = [older EXCEPT ![c] = {d \in SessionsOf(c) : Inserted(d)}]
  /\ UNCHANGED <<current, loop, teardown, advertised, active, stop>>

\* A closer calls Teardown on the next session of its list ...
CallTeardown(k, d) ==
  /\ current[k] = None
  /\ d \in closing[k]
  /\ current' = [current EXCEPT ![k] = d]
  /\ EnterTeardown(d)
  /\ UNCHANGED <<connections, handler, closing, loop, advertised, active, stop,
                 older>>

\* ... and returns once the body has run, whoever ran it (sync.Once waits).
TeardownReturns(k) ==
  /\ current[k] # None
  /\ teardown[current[k]] = "done"
  /\ closing' = [closing EXCEPT ![k] = @ \ {current[k]}]
  /\ current' = [current EXCEPT ![k] = None]
  /\ UNCHANGED <<connections, handler, loop, teardown, advertised, active,
                 stop, older>>

\* All older sessions are closed: block in Hub.Register.
OfferRegistration(c) ==
  /\ handler[c] = "evicting"
  /\ closing[c] = {}
  /\ handler' = [handler EXCEPT ![c] = "registering"]
  /\ UNCHANGED <<connections, closing, current, loop, teardown, advertised,
                 active, stop, older>>

\* Connection.Start: MarkOnline (module WsPresence), then the pumps.
Start(c) ==
  /\ handler[c] = "starting"
  /\ handler' = [handler EXCEPT ![c] = "serving"]
  /\ UNCHANGED <<connections, closing, current, loop, teardown, advertised,
                 active, stop, older>>

\* ReadMessage hands the read pump a frame.
ReadFrame(c) ==
  /\ handler[c] = "serving"
  /\ SocketOpen(c)
  /\ handler' = [handler EXCEPT ![c] = "handling"]
  /\ UNCHANGED <<connections, closing, current, loop, teardown, advertised,
                 active, stop, older>>

\* The frame is handled.
HandleFrame(c) ==
  /\ handler[c] = "handling"
  /\ handler' = [handler EXCEPT ![c] = "serving"]
  /\ UNCHANGED <<connections, closing, current, loop, teardown, advertised,
                 active, stop, older>>

\* ReadMessage fails (the peer left, the deadline passed, the socket was
\* closed): the read pump's deferred Teardown, and the handler is over.
ReadFails(c) ==
  /\ handler[c] = "serving"
  /\ handler' = [handler EXCEPT ![c] = "gone"]
  /\ EnterTeardown(c)
  /\ UNCHANGED <<connections, closing, current, loop, advertised, active, stop,
                 older>>

\* Teardown called by the write pump after a failed write, or by Enqueue on a
\* full Send buffer: the latter reaches any session the map has ever held.
WriteFails(c) ==
  /\ Inserted(c)
  /\ teardown[c] = "none"
  /\ EnterTeardown(c)
  /\ UNCHANGED <<connections, handler, closing, current, loop, advertised,
                 active, stop, older>>

-----------------------------------------------------------------------------
(* The body of teardownOnce after MarkOffline.                             *)

CloseSocket(c) ==
  /\ teardown[c] = "marked"
  /\ teardown' = [teardown EXCEPT ![c] = "closed"]
  /\ UNCHANGED <<connections, handler, closing, current, loop, advertised,
                 active, stop, older>>

\* Faulty variant: unregistering one session, the whole entry of the user is dropped.
RemoveUserFromMap(c) ==
  /\ teardown[c] = "closed"
  /\ teardown' = [teardown EXCEPT ![c] = "removed"]
  /\ connections' = [connections EXCEPT ![UserOf[c]] = {}]
  /\ UNCHANGED <<handler, closing, current, loop, advertised, active, stop,
                 older>>

\* Hub.unregisterConnection, the part under Hub.mu ...
RemoveFromMap(c) ==
  /\ teardown[c] = "closed"
  /\ teardown' = [teardown EXCEPT ![c] = "removed"]
  /\ connections' = [connections EXCEPT ![UserOf[c]] = @ \ {c}]
  /\ UNCHANGED <<handler, closing, current, loop, advertised, active, stop,
                 older>>

\* Faulty variant: only the last session of a user is counted out.
WithdrawLastOnly(c) ==
  /\ teardown[c] = "removed"
  /\ teardown' = [teardown EXCEPT ![c] = "done"]
  /\ advertised' = advertised \ {UserOf[c]}
  /\ active' = IF connections[UserOf[c]] = {} THEN active - 1 ELSE active
  /\ UNCHANGED <<connections, handler, closing, current, loop, stop, older>>

\* ... and after it: presence.Remove and ConnectionClosed, for any session.
Withdraw(c) ==
  /\ teardown[c] = "removed"
  /\ teardown' = [teardown EXCEPT ![c] = "done"]
  /\ advertised' = advertised \ {UserOf[c]}
  /\ active' = active - 1
  /\ UNCHANGED <<connections, handler, closing, current, loop, stop, older>>

-----------------------------------------------------------------------------
(* Hub.Run, Hub.Shutdown, and events of other servers.                     *)

RunReceive(c) ==
  /\ loop.pc = "select"
  /\ handler[c] = "registering"
  /\ handler' = [handler EXCEPT ![c] = "starting"]
  /\ loop' = [pc |-> "insert", conn |-> c]
  /\ older' = [older EXCEPT ![c] = {}]
  /\ UNCHANGED <<connections, closing, current, teardown, advertised, active,
                 stop>>

\* Hub.registerConnection, the part under Hub.mu ...
RunInsert ==
  /\ loop.pc = "insert"
  /\ loop' = [loop EXCEPT !.pc = "announce"]
  /\ connections' = [connections EXCEPT ![UserOf[loop.conn]] = @ \cup {loop.conn}]
  /\ UNCHANGED <<handler, closing, current, teardown, advertised, active, stop,
                 older>>

\* Faulty variant: the loop keeps the connection in hand.
RunAnnounceKeepsConn ==
  /\ loop.pc = "announce"
  /\ loop' = [loop EXCEPT !.pc = "select"]
  /\ advertised' = advertised \cup {UserOf[loop.conn]}
  /\ active' = active + 1
  /\ UNCHANGED <<connections, handler, closing, current, teardown, stop,
                 older>>

\* Faulty variant: an error of presence.Register ends the loop.
RunAnnounceFails ==
  /\ loop.pc = "announce"
  /\ \E pc \in {"select", "stopped"} : loop' = [pc |-> pc, conn |-> None]
  /\ advertised' = advertised \cup {UserOf[loop.conn]}
  /\ active' = active + 1
  /\ UNCHANGED <<connections, handler, closing, current, teardown, stop,
                 older>>

\* ... and after it: presence.Register and ConnectionOpened.
RunAnnounce ==
  /\ loop.pc = "announce"
  /\ loop' = [pc |-> "select", conn |-> None]
  /\ advertised' = advertised \cup {UserOf[loop.conn]}
  /\ active' = active + 1
  /\ UNCHANGED <<connections, handler, closing, current, teardown, stop,
                 older>>

\* Faulty variant: closeAll leaves the map to unregisterConnection.
RunCloseAllKeepsMap ==
  /\ loop.pc = "select"
  /\ stop
  /\ loop' = [loop EXCEPT !.pc = "closing"]
  /\ closing' = [closing EXCEPT ![RunLoop] = UNION {connections[u] : u \in Users}]
  /\ UNCHANGED <<connections, handler, current, teardown, advertised, active,
                 stop, older>>

\* Faulty variant: closeAll clears the map without tearing the sessions down.
RunCloseAllForgets ==
  /\ loop.pc = "select"
  /\ stop
  /\ loop' = [loop EXCEPT !.pc = "closing"]
  /\ connections' = [u \in Users |-> {}]
  /\ UNCHANGED <<handler, closing, current, teardown, advertised, active, stop,
                 older>>

\* closeAll: the locked half.
RunCloseAll ==
  /\ loop.pc = "select"
  /\ stop
  /\ loop' = [loop EXCEPT !.pc = "closing"]
  /\ closing' = [closing EXCEPT ![RunLoop] = UNION {connections[u] : u \in Users}]
  /\ connections' = [u \in Users |-> {}]
  /\ UNCHANGED <<handler, current, teardown, advertised, active, stop, older>>

\* closeAll returned: the deferred close(h.stopped).
RunStops ==
  /\ loop.pc = "closing"
  /\ closing[RunLoop] = {}
  /\ loop' = [loop EXCEPT !.pc = "stopped"]
  /\ UNCHANGED <<connections, handler, closing, current, teardown, advertised,
                 active, stop, older>>

Shutdown ==
  /\ ~stop
  /\ stop' = TRUE
  /\ UNCHANGED <<connections, handler, closing, current, loop, teardown,
                 advertised, active, older>>

\* HandleRemotePresence("connected", u), one event at a time.
RemoteConnected(u) ==
  /\ closing[Listener] = {}
  /\ connections[u] # {}
  /\ TakeSessions(Listener, u)
  /\ UNCHANGED <<handler, current, loop, teardown, advertised, active, stop,
                 older>>

-----------------------------------------------------------------------------
TeardownSteps(c) == CloseSocket(c) \/ RemoveFromMap(c) \/ Withdraw(c)

CloserSteps(k) == TeardownReturns(k) \/ \E d \in Conns : CallTeardown(k, d)

RunSteps ==
  \/ \E c \in Conns : RunReceive(c)
  \/ RunInsert
  \/ RunAnnounce
  \/ RunCloseAll
  \/ RunStops

Next ==
  \/ \E c \in Conns :
       \/ Accept(c)
       \/ CloseUser(c)
       \/ OfferRegistration(c)
       \/ Start(c)
       \/ ReadFrame(c)
       \/ HandleFrame(c)
       \/ ReadFails(c)
       \/ WriteFails(c)
       \/ TeardownSteps(c)
  \/ \E k \in Closers : CloserSteps(k)
  \/ RunSteps
  \/ Shutdown
  \/ \E u \in Users : RemoteConnected(u)

\* Runnable goroutines run; ReadMessage returns once the socket is closed.
\* Clients, peers' failures, remote events and the signal to stop are not fair.
Fairness ==
  /\ WF_vars(RunSteps)
  /\ WF_vars(RunCloseAll)
  /\ \A k \in Closers : WF_vars(CloserSteps(k))
  /\ \A c \in Conns :
       /\ WF_vars(CloseUser(c))
       /\ WF_vars(OfferRegistration(c))
       /\ WF_vars(Start(c))
       /\ WF_vars(HandleFrame(c))
       /\ WF_vars(TeardownSteps(c))
       /\ WF_vars(ReadFails(c) /\ ~SocketOpen(c))

Spec == Init /\ [][Next]_vars

FairSpec == Spec /\ Fairness

-----------------------------------------------------------------------------
(* Invariants.                                                             *)

\* The variables have their types; the loop holds a connection exactly while
\* it registers one; and a session is filed under its own user.
TypeOK ==
  /\ connections \in [Users -> SUBSET Conns]
  /\ \A u \in Users : \A c \in connections[u] : UserOf[c] = u
  /\ handler \in [Conns -> HandlerStates]
  /\ closing \in [Closers -> SUBSET Conns]
  /\ current \in [Closers -> Conns \cup {None}]
  /\ loop \in [pc : {"select", "closing", "stopped"}, conn : {None}]
              \cup [pc : {"insert", "announce"}, conn : Conns]
  /\ teardown \in [Conns -> TeardownStates]
  /\ advertised \subseteq Users
  /\ active \in Int
  /\ stop \in BOOLEAN
  /\ older \in [Conns -> SUBSET Conns]

\* No session is lost: one the Run loop registered and nobody has torn down is
\* still in the map, where messages and Shutdown find it, or on the list of a
\* goroutine that is about to close it (hub.go CloseUser, closeAll and
\* unregisterConnection racing with registerConnection).
NoLostSession ==
  \A c \in Conns :
    Inserted(c) /\ teardown[c] = "none" =>
      c \in connections[UserOf[c]] \/ Doomed(c)

\* When Run has returned the map is empty for good, and a session still open
\* is one that another goroutine has taken and will close: Shutdown leaves no
\* session behind (hub.go closeAll, run.go Hub.Shutdown).
StoppedHubIsEmpty ==
  loop.pc = "stopped" =>
    /\ \A u \in Users : connections[u] = {}
    /\ \A c \in Conns :
         Inserted(c) /\ teardown[c] = "none" =>
           \E k \in Closers \ {RunLoop} : c \in closing[k]

\* Between registrations and teardowns the gauge of /v1/metrics counts exactly
\* the sessions that are not torn down, whichever path removed the others from
\* the map (ConnectionOpened and ConnectionClosed are called on different paths).
Settled ==
  /\ loop.pc \in {"select", "stopped"}
  /\ \A c \in Conns : teardown[c] \in {"none", "done"}

GaugeMatches ==
  Settled =>
    active = Cardinality({c \in Conns : Inserted(c) /\ teardown[c] = "none"})

\* Eviction reaches every older session: of the sessions the map had held when
\* the handler evicted, those not torn down when it registers its own are on
\* the list of a goroutine that closes them (http_handler.go CloseUser before
\* Register, racing with other upgrades, remote events and shutdown).
EvictsOlder ==
  \A c \in Conns : handler[c] = "registering" =>
    \A d \in older[c] : teardown[d] # "none" \/ Doomed(d)

\* A user has at most one session that is not being torn down: the handler
\* closes the existing ones before it registers a new one.
LiveSessions(u) == {c \in connections[u] : teardown[c] = "none"}

OneSession == \A u \in Users : Cardinality(LiveSessions(u)) <= 1

\* Every session in the map is active: none is already torn down.  Does not
\* hold: a teardown may run between Run's receive and the insertion.
OnlyActiveSessions ==
  \A u \in Users : \A c \in connections[u] : teardown[c] # "done"

-----------------------------------------------------------------------------
(* Liveness.                                                               *)

\* After Shutdown the Run loop returns and every session ever registered is
\* torn down, also those other goroutines had taken out of the map.
ShutdownClosesSessions ==
  stop ~> /\ loop.pc = "stopped"
          /\ \A c \in Conns : Inserted(c) => teardown[c] = "done"

\* A session somebody evicted does not linger: its teardown completes.
DoomedAreClosed ==
  \A c \in Conns : Doomed(c) ~> teardown[c] = "done"

\* Every session that the hub or an upgrade is to close is closed in the end,
\* whoever has taken it out of the map (hub.go CloseUser and closeAll).
SessionsEnd == ShutdownClosesSessions /\ DoomedAreClosed

\* Hub.Register returns unless the Hub is being shut down.
RegistrationAnswered ==
  \A c \in Conns : handler[c] = "registering" ~> handler[c] # "registering" \/ stop
=============================================================================
