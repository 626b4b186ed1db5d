----------------------------- MODULE WsPresence -----------------------------
(***************************************************************************)
(* The presence and the rate limit one server process keeps for its        *)
(* websocket sessions (transport/ws/middleware): PresenceCoordinator and   *)
(* RateLimiter, as the pumps of session/connection.go call them.           *)
(*                                                                         *)
(* Concurrent: the read pump of each connection, whoever calls its         *)
(* Teardown, and the two cleanup goroutines.  A step is one critical       *)
(* section of a mutex.  Time is what it makes true: an entry is fresh      *)
(* until its five minutes have passed, a window until its second has.      *)
(* A device is its connection: the id is computed from RemoteAddr.         *)
(***************************************************************************)
EXTENDS Naturals

CONSTANTS
  Users,
  Conns,
  UserOf,    \* Client.UserID of each connection
  MaxMsgs,   \* RateLimiter.maxMsgs
  None

\* What the constants must satisfy.
Parameters ==
  /\ UserOf \in [Conns -> Users]
  /\ MaxMsgs \in Nat \ {0}

VARIABLES
  presence,  \* PresenceCoordinator.presence
  limits,    \* RateLimiter.limits: messages counted in the current window, if any
  pump,      \* where the read pump of each connection stands
  torn       \* the teardown of the connection has called MarkOffline

vars == <<presence, limits, pump, torn>>

States == [online : BOOLEAN, fresh : BOOLEAN, devices : SUBSET Conns]

Init ==
  /\ presence = [u \in Users |-> None]
  /\ limits = [u \in Users |-> 0]
  /\ pump = [c \in Conns |-> "new"]
  /\ torn = [c \in Conns |-> FALSE]

-----------------------------------------------------------------------------
(* PresenceCoordinator.                                                    *)

NewState == [online |-> TRUE, fresh |-> TRUE, devices |-> {}]

\* An entry that exists keeps its online flag, whatever it is.
MarkOnline(c) ==
  LET u == UserOf[c]
      state == IF presence[u] = None THEN NewState ELSE presence[u]
  IN  presence' = [presence EXCEPT ![u] =
        [state EXCEPT !.fresh = TRUE, !.devices = @ \cup {c}]]

MarkOffline(c) ==
  LET u == UserOf[c]
      state == presence[u]
      left == state.devices \ {c}
  IN  presence' =
        IF state = None THEN presence
        ELSE [presence EXCEPT ![u] =
               [state EXCEPT !.devices = left, !.online = @ /\ left # {}]]

\* Faulty variant: the expiry is left to the cleanup goroutine.
IsOnlineIgnoresExpiry(u) == presence[u] # None /\ presence[u].online

IsOnline(u) == presence[u] # None /\ presence[u].online /\ presence[u].fresh

\* Five minutes without a frame or a pong.
Expire(u) ==
  /\ presence[u] # None
  /\ presence[u].fresh
  /\ presence' = [presence EXCEPT ![u].fresh = FALSE]
  /\ UNCHANGED <<limits, pump, torn>>

\* A tick of cleanup: every expired entry goes, with the devices it lists.
CleanPresence ==
  /\ \E u \in Users : presence[u] # None /\ ~presence[u].fresh
  /\ presence' = [u \in Users |->
       IF presence[u] # None /\ ~presence[u].fresh THEN None ELSE presence[u]]
  /\ UNCHANGED <<limits, pump, torn>>

-----------------------------------------------------------------------------
(* RateLimiter.                                                            *)

\* Faulty variant: the limit is compared after one more message.
AllowOneMore(u) ==
  /\ limits[u] <= MaxMsgs
  /\ limits' = [limits EXCEPT ![u] = @ + 1]

\* The message is counted in the current window or opens a new one.
Allow(u) ==
  /\ limits[u] < MaxMsgs
  /\ limits' = [limits EXCEPT ![u] = @ + 1]

\* The second is over; cleanup drops only windows that are.
WindowPasses(u) ==
  /\ limits[u] > 0
  /\ limits' = [limits EXCEPT ![u] = 0]
  /\ UNCHANGED <<presence, pump, torn>>

-----------------------------------------------------------------------------
(* Connection.Start, readPump and Teardown.                                *)

Start(c) ==
  /\ pump[c] = "new"
  /\ pump' = [pump EXCEPT ![c] = "reading"]
  /\ MarkOnline(c)
  /\ UNCHANGED <<limits, torn>>

\* ReadMessage returns a frame, or calls the pong handler.
Receive(c) ==
  /\ pump[c] = "reading"
  /\ ~torn[c]
  /\ \E kind \in {"frame", "marking"} : pump' = [pump EXCEPT ![c] = kind]
  /\ UNCHANGED <<presence, limits, torn>>

Allowed(c) ==
  /\ pump[c] = "frame"
  /\ Allow(UserOf[c])
  /\ pump' = [pump EXCEPT ![c] = "marking"]
  /\ UNCHANGED <<presence, torn>>

Limited(c) ==
  /\ pump[c] = "frame"
  /\ limits[UserOf[c]] >= MaxMsgs
  /\ pump' = [pump EXCEPT ![c] = "reading"]
  /\ UNCHANGED <<presence, limits, torn>>

Mark(c) ==
  /\ pump[c] = "marking"
  /\ pump' = [pump EXCEPT ![c] = "reading"]
  /\ MarkOnline(c)
  /\ UNCHANGED <<limits, torn>>

\* Any closer of the session, also before Start and in the middle of a frame.
Teardown(c) ==
  /\ ~torn[c]
  /\ torn' = [torn EXCEPT ![c] = TRUE]
  /\ MarkOffline(c)
  /\ UNCHANGED <<limits, pump>>

\* ReadMessage fails on the closed socket and the pump returns.
PumpEnds(c) ==
  /\ pump[c] = "reading"
  /\ torn[c]
  /\ pump' = [pump EXCEPT ![c] = "over"]
  /\ UNCHANGED <<presence, limits, torn>>

PumpSteps(c) == Start(c) \/ Allowed(c) \/ Limited(c) \/ Mark(c) \/ PumpEnds(c)

Next ==
  \/ \E c \in Conns : PumpSteps(c) \/ Receive(c) \/ Teardown(c)
  \/ \E u \in Users : Expire(u) \/ WindowPasses(u)
  \/ CleanPresence

\* Pumps run and time passes; peers and the cleanup goroutine owe nothing.
Fairness ==
  /\ \A c \in Conns : WF_vars(PumpSteps(c))
  /\ \A u \in Users : WF_vars(Expire(u))

Spec == Init /\ [][Next]_vars

FairSpec == Spec /\ Fairness

-----------------------------------------------------------------------------
\* The variables have their types; no window counts more than MaxMsgs.
TypeOK ==
  /\ presence \in [Users -> States \cup {None}]
  /\ limits \in [Users -> 0 .. MaxMsgs]
  /\ pump \in [Conns -> {"new", "reading", "frame", "marking", "over"}]
  /\ torn \in [Conns -> BOOLEAN]
  /\ \A u \in Users : IsOnline(u) => presence[u].devices # {}

\* A user whose connections are all torn down goes offline in the end, also
\* when a read pump marks the device after the teardown has removed it and no
\* other MarkOffline will come: the expiry makes up for the lost order
\* (connection.go readPump against Teardown).
GoneGoesOffline ==
  \A u \in Users :
    (\A c \in Conns : UserOf[c] = u => torn[c] /\ pump[c] # "new") ~> ~IsOnline(u)

\* A user with a session that has been marked and not torn down is online.
\* Does not hold: MarkOnline leaves the flag of an entry that is there.
OpenIsOnline ==
  \A c \in Conns :
    pump[c] \in {"reading", "frame"} /\ ~torn[c] /\ presence[UserOf[c]] # None
      => presence[UserOf[c]].online
=============================================================================
