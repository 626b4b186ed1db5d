--------------------------- MODULE RedisPresence ---------------------------
(***************************************************************************)
(* Several server processes and one user: presence.Coordinator keeps a key *)
(* in Redis that names the user's server, and publishes "connected" and    *)
(* "disconnected" events by which a server evicts the sessions of others   *)
(* (platform/presence/redis.go with the calls of ws/hub/hub.go).  Keys and *)
(* evictions of different users do not touch each other.                   *)
(*                                                                         *)
(* Concurrent: on each server the handlers, the Run loop, the listener and *)
(* the goroutines that close sessions; Redis.  A step is one Redis command *)
(* or one critical section of Hub.mu.  Redis answers, and its channel      *)
(* delivers every event to every server in one order.                      *)
(***************************************************************************)
EXTENDS Naturals, Sequences, FiniteSets

CONSTANTS
  Servers,
  Conns,       \* upgraded connections of the user
  ServerOf,    \* the server each of them reaches
  MaxDropped,  \* bound: sessions that close for a reason of their own
  None

\* What the constants must satisfy.
Parameters ==
  /\ ServerOf \in [Conns -> Servers]
  /\ MaxDropped \in Nat
  /\ None \notin Servers \cup Conns

VARIABLES
  key,       \* the value of sigma:presence:<user>
  channel,   \* events each server has not handled yet
  mapped,    \* Hub.connections of each server
  session,   \* registration of each connection
  loop,      \* the connection the Run loop of each server is registering
  teardown,  \* progress of Connection.Teardown
  evicting,  \* sessions a handler or a listener waits to see torn down
  dropped

vars == <<key, channel, mapped, session, loop, teardown, evicting, dropped>>

Closers == Conns \cup Servers

Events == [type : {"connected", "disconnected"}, from : Servers]

Init ==
  /\ key = None
  /\ channel = [s \in Servers |-> <<>>]
  /\ mapped = [s \in Servers |-> {}]
  /\ session = [c \in Conns |-> "new"]
  /\ loop = [s \in Servers |-> None]
  /\ teardown = [c \in Conns |-> "none"]
  /\ evicting = [k \in Closers |-> {}]
  /\ dropped = 0

-----------------------------------------------------------------------------
Publish(type, s) ==
  channel' = [t \in Servers |-> Append(channel[t], [type |-> type, from |-> s])]

\* Teardown of several sessions up to their removal from the map of server s;
\* closer k waits for all of them.
Evict(k, s, doomed) ==
  /\ evicting' = [evicting EXCEPT ![k] = doomed]
  /\ teardown' = [c \in Conns |-> IF c \in doomed /\ teardown[c] = "none"
                                  THEN "unmapped" ELSE teardown[c]]

\* Hub.CloseUser in the upgrade handler.
Upgrade(c) ==
  LET s == ServerOf[c] IN
  /\ session[c] = "new"
  /\ session' = [session EXCEPT ![c] = "evicting"]
  /\ Evict(c, s, mapped[s])
  /\ mapped' = [mapped EXCEPT ![s] = {}]
  /\ UNCHANGED <<key, channel, loop, dropped>>

EvictionDone(k) ==
  /\ evicting[k] # {}
  /\ \A c \in evicting[k] : teardown[c] = "done"
  /\ evicting' = [evicting EXCEPT ![k] = {}]
  /\ UNCHANGED <<key, channel, mapped, session, loop, teardown, dropped>>

\* Run receives the connection and puts it into the map.
Insert(c) ==
  LET s == ServerOf[c] IN
  /\ session[c] = "evicting"
  /\ evicting[c] = {}
  /\ loop[s] = None
  /\ session' = [session EXCEPT ![c] = "inserted"]
  /\ loop' = [loop EXCEPT ![s] = c]
  /\ mapped' = [mapped EXCEPT ![s] = @ \cup {c}]
  /\ UNCHANGED <<key, channel, teardown, evicting, dropped>>

\* Coordinator.Register: SET with the TTL ...
SetKey(s) ==
  /\ loop[s] # None
  /\ session[loop[s]] = "inserted"
  /\ key' = s
  /\ session' = [session EXCEPT ![loop[s]] = "stored"]
  /\ UNCHANGED <<channel, mapped, loop, teardown, evicting, dropped>>

\* ... and PUBLISH.
PublishConnected(s) ==
  /\ loop[s] # None
  /\ session[loop[s]] = "stored"
  /\ Publish("connected", s)
  /\ session' = [session EXCEPT ![loop[s]] = "open"]
  /\ loop' = [loop EXCEPT ![s] = None]
  /\ UNCHANGED <<key, mapped, teardown, evicting, dropped>>

\* A session in the map closes for a reason of its own.
Drop(c) ==
  LET s == ServerOf[c] IN
  /\ dropped < MaxDropped
  /\ c \in mapped[s]
  /\ teardown[c] = "none"
  /\ dropped' = dropped + 1
  /\ teardown' = [teardown EXCEPT ![c] = "unmapped"]
  /\ mapped' = [mapped EXCEPT ![s] = @ \ {c}]
  /\ UNCHANGED <<key, channel, session, loop, evicting>>

\* Coordinator.Remove of an unregistered session: DEL of whatever the key is ...
DelKey(c) ==
  /\ teardown[c] = "unmapped"
  /\ teardown' = [teardown EXCEPT ![c] = "deleted"]
  /\ key' = None
  /\ UNCHANGED <<channel, mapped, session, loop, evicting, dropped>>

\* ... and PUBLISH.
PublishDisconnected(c) ==
  /\ teardown[c] = "deleted"
  /\ teardown' = [teardown EXCEPT ![c] = "done"]
  /\ Publish("disconnected", ServerOf[c])
  /\ UNCHANGED <<key, mapped, session, loop, evicting, dropped>>

\* Faulty variant: only one session of the user is closed.
HandleEventEvictsOne(s) ==
  LET event == Head(channel[s])
      foreign == event.from # s /\ event.type = "connected" /\ mapped[s] # {}
      one == IF foreign THEN {CHOOSE c \in mapped[s] : TRUE} ELSE {}
  IN
  /\ channel[s] # <<>>
  /\ evicting[s] = {}
  /\ channel' = [channel EXCEPT ![s] = Tail(@)]
  /\ Evict(s, s, one)
  /\ mapped' = [mapped EXCEPT ![s] = @ \ one]
  /\ UNCHANGED <<key, session, loop, dropped>>

\* listen and HandleRemotePresence: "connected" of another server evicts the
\* user here, before the next event is read; the rest is ignored.
HandleEvent(s) ==
  LET event == Head(channel[s])
      foreign == event.from # s /\ event.type = "connected"
  IN
  /\ channel[s] # <<>>
  /\ evicting[s] = {}
  /\ channel' = [channel EXCEPT ![s] = Tail(@)]
  /\ Evict(s, s, IF foreign THEN mapped[s] ELSE {})
  /\ mapped' = [mapped EXCEPT ![s] = IF foreign THEN {} ELSE @]
  /\ UNCHANGED <<key, session, loop, dropped>>

\* The TTL passes once no pump refreshes the key.
Expire ==
  /\ key # None
  /\ \A s \in Servers : mapped[s] = {}
  /\ key' = None
  /\ UNCHANGED <<channel, mapped, session, loop, teardown, evicting, dropped>>

Next ==
  \/ \E c \in Conns : Upgrade(c) \/ Insert(c) \/ Drop(c)
                      \/ DelKey(c) \/ PublishDisconnected(c)
  \/ \E k \in Closers : EvictionDone(k)
  \/ \E s \in Servers : SetKey(s) \/ PublishConnected(s) \/ HandleEvent(s)
  \/ Expire

Spec == Init /\ [][Next]_vars

-----------------------------------------------------------------------------
\* The variables have their types, and a session is mapped on its own server.
TypeOK ==
  /\ key \in Servers \cup {None}
  /\ channel \in [Servers -> Seq(Events)]
  /\ mapped \in [Servers -> SUBSET Conns]
  /\ \A s \in Servers : \A c \in mapped[s] : ServerOf[c] = s
  /\ session \in [Conns -> {"new", "evicting", "inserted", "stored", "open"}]
  /\ loop \in [Servers -> Conns \cup {None}]
  /\ teardown \in [Conns -> {"none", "unmapped", "deleted", "done"}]
  /\ evicting \in [Closers -> SUBSET Conns]
  /\ dropped \in 0 .. MaxDropped

Announced(s) == \E i \in 1 .. Len(channel[s]) :
  channel[s][i].type = "connected" /\ channel[s][i].from # s

\* Two servers hold sessions of the user only while one of them still has to
\* announce its own or to handle the announcement of the other: when no
\* "connected" event is on its way, one server at most has the user
\* (redis.go Register inserts before it publishes; hub.go HandleRemotePresence).
OneServerAtRest ==
  \A s, t \in Servers :
    s # t /\ mapped[s] # {} /\ mapped[t] # {} =>
      \/ Announced(s) \/ Announced(t)
      \/ loop[s] # None \/ loop[t] # None

\* At rest, a server that holds the user is the one the key names.  Does not
\* hold: an eviction on the old server deletes the key of the new one.
AtRest ==
  /\ \A s \in Servers : channel[s] = <<>> /\ loop[s] = None
  /\ \A c \in Conns : teardown[c] \in {"none", "done"}

KeyNamesTheServer ==
  AtRest => \A s \in Servers : mapped[s] # {} => key = s
=============================================================================
