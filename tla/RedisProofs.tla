---------------------------- MODULE RedisProofs ----------------------------
(***************************************************************************)
(* Proofs about presence in Redis: one server at rest holds the user, for  *)
(* any number of servers and connections.                                  *)
(*                                                                         *)
(* The second part is about the processes of these servers: what a stop in *)
(* good order leaves in Redis, and whose BotFather they work with.  Its    *)
(* inductive invariant says who still knows a live session, the map, Run   *)
(* or closeAll, at each step of a start and of a stop, so that none is     *)
(* left when the client of Redis is closed.                                *)
(*                                                                         *)
(* The last parts are about the presence a server keeps for itself, and    *)
(* about whom it admits: what the loop over the texts of a file leaves of  *)
(* them, by the least number of texts for which it would not hold, and     *)
(* with it the client of Redis, the origins and the user of a request.     *)
(***************************************************************************)
EXTENDS RedisPresence, WellFoundedInduction, TLAPS

CONSTANTS Clustered, MaxStarts

VARIABLES at, closes, father, busy, hub, hand, filed, taken, link, keys, missed,
          fathers, starts

\* The same servers as processes that start and stop.
Life == INSTANCE Process WITH session <- link, mapped <- filed,
  doomed <- taken

CONSTANTS Users, UserOf, MaxMsgs, UserIds, Files, Requests

VARIABLES presence, limits, pump, torn, file, cfg, state, answer

\* What one server keeps of its sessions, and whom it lets in.
Local == INSTANCE WsPresence
Admit == INSTANCE Admission

PresenceInv == TypeOK /\ OneServerAtRest

-----------------------------------------------------------------------------
\* What stays announced when an event is put at the end of a channel or one
\* that announces nothing is taken from its head.
LEMMA AppendAnnounces ==
  ASSUME NEW s \in Servers, NEW q \in Seq(Events), NEW e \in Events
  PROVE  /\ Append(q, e) \in Seq(Events) /\ Len(Append(q, e)) = Len(q) + 1 /\ Len(q) \in Nat
         /\ Append(q, e)[Len(q) + 1] = e
         /\ \A i \in 1 .. Len(q) : Append(q, e)[i] = q[i]
  OBVIOUS

LEMMA TailAnnounces ==
  ASSUME NEW q \in Seq(Events), q # <<>>
  PROVE  /\ Tail(q) \in Seq(Events) /\ Head(q) \in Events /\ Head(q) = q[1]
         /\ Len(Tail(q)) = Len(q) - 1 /\ Len(q) \in Nat
         /\ \A i \in 1 .. Len(q) : i # 1 => i - 1 \in 1 .. Len(Tail(q)) /\ Tail(q)[i - 1] = q[i]
  OBVIOUS

LEMMA PresenceInit == Parameters /\ Init => PresenceInv
  BY DEF Init, Parameters, PresenceInv, TypeOK, OneServerAtRest, Closers, Events

\* Publishing keeps the types and every announcement, and announces a
\* connection to all the others.
LEMMA PublishStep ==
  ASSUME Parameters, TypeOK, NEW type \in {"connected", "disconnected"}, NEW s \in Servers,
         Publish(type, s)
  PROVE  /\ channel' \in [Servers -> Seq(Events)]
         /\ \A t \in Servers : Announced(t) => Announced(t)'
         /\ type = "connected" => \A t \in Servers \ {s} : Announced(t)'
<1> DEFINE event == [type |-> type, from |-> s]
<1>1. event \in Events
  BY DEF Events
<1>2. /\ channel' = [t \in Servers |-> Append(channel[t], event)]
      /\ channel \in [Servers -> Seq(Events)]
  BY DEF Publish, TypeOK
<1> HIDE DEF event
<1>3. \A t \in Servers : channel[t] \in Seq(Events) /\ channel'[t] = Append(channel[t], event)
  BY <1>2
<1>4. channel' \in [Servers -> Seq(Events)]
  BY <1>1, <1>2, <1>3, AppendAnnounces
<1>5. ASSUME NEW t \in Servers, Announced(t) PROVE Announced(t)'
  <2>1. PICK i \in 1 .. Len(channel[t]) :
          channel[t][i].type = "connected" /\ channel[t][i].from # t
    BY <1>5 DEF Announced
  <2>2. i \in 1 .. Len(channel'[t]) /\ channel'[t][i] = channel[t][i]
    BY <1>1, <1>3, AppendAnnounces
  <2> QED
    BY <2>1, <2>2 DEF Announced
<1>6. ASSUME type = "connected", NEW t \in Servers \ {s} PROVE Announced(t)'
  <2>1. /\ Len(channel[t]) + 1 \in 1 .. Len(channel'[t])
        /\ channel'[t][Len(channel[t]) + 1] = event
    BY <1>1, <1>3, AppendAnnounces
  <2>2. event.type = "connected" /\ event.from # t
    BY <1>6 DEF event
  <2> QED
    BY <2>1, <2>2 DEF Announced
<1> QED
  BY <1>4, <1>5, <1>6

\* A step that hides no announcement, keeps the insertions under way and maps
\* nothing new cannot break the rule.
LEMMA OneServerStays ==
  ASSUME OneServerAtRest,
         \A s \in Servers : Announced(s) => Announced(s)',
         \A s \in Servers : mapped'[s] \subseteq mapped[s],
         loop' = loop
  PROVE  OneServerAtRest'
  BY DEF OneServerAtRest

LEMMA EvictStep ==
  ASSUME Parameters, TypeOK, NEW k \in Closers, NEW s \in Servers, NEW doomed \in SUBSET Conns,
         Evict(k, s, doomed)
  PROVE  /\ evicting' \in [Closers -> SUBSET Conns]
         /\ teardown' \in [Conns -> {"none", "unmapped", "deleted", "done"}]
  BY DEF Evict, TypeOK

LEMMA PresenceStep == Parameters /\ PresenceInv /\ [Next]_vars => PresenceInv'
<1> SUFFICES ASSUME Parameters, PresenceInv, [Next]_vars PROVE PresenceInv'
  OBVIOUS
<1>a. /\ TypeOK /\ OneServerAtRest
      /\ key \in Servers \cup {None}
      /\ channel \in [Servers -> Seq(Events)]
      /\ mapped \in [Servers -> SUBSET Conns]
      /\ \A s \in Servers : \A c \in mapped[s] : ServerOf[c] = s
      /\ session \in [Conns -> {"new", "evicting", "inserted", "stored", "open"}]
      /\ loop \in [Servers -> Conns \cup {None}]
      /\ teardown \in [Conns -> {"none", "unmapped", "deleted", "done"}]
      /\ evicting \in [Closers -> SUBSET Conns]
      /\ dropped \in 0 .. MaxDropped
  BY DEF PresenceInv, TypeOK
<1>b. /\ \A c \in Conns : ServerOf[c] \in Servers /\ c # None /\ c \in Closers
      /\ \A s \in Servers : s \in Closers /\ mapped[s] \in SUBSET Conns
      /\ MaxDropped \in Nat
  BY <1>a DEF Parameters, Closers
<1>c. channel' = channel => \A s \in Servers : Announced(s) => Announced(s)'
  BY DEF Announced
<1>0. CASE UNCHANGED vars
  <2>1. UNCHANGED <<key, channel, mapped, session, loop, teardown, evicting, dropped>>
    BY <1>0 DEF vars
  <2>2. TypeOK'
    BY <1>a, <2>1 DEF TypeOK
  <2>3. OneServerAtRest'
    BY <1>a, <1>c, <2>1, OneServerStays
  <2> QED
    BY <2>2, <2>3 DEF PresenceInv
<1>1. ASSUME NEW c \in Conns, Upgrade(c) PROVE PresenceInv'
  <2>1. /\ session' = [session EXCEPT ![c] = "evicting"]
        /\ Evict(c, ServerOf[c], mapped[ServerOf[c]])
        /\ mapped' = [mapped EXCEPT ![ServerOf[c]] = {}]
        /\ UNCHANGED <<key, channel, loop, dropped>>
    BY <1>1 DEF Upgrade
  <2>2. /\ evicting' \in [Closers -> SUBSET Conns]
        /\ teardown' \in [Conns -> {"none", "unmapped", "deleted", "done"}]
    BY <1>a, <1>b, <2>1, EvictStep
  <2>3. TypeOK'
    BY <1>a, <2>1, <2>2 DEF TypeOK
  <2>4. OneServerAtRest'
    BY <1>a, <1>c, <2>1, OneServerStays
  <2> QED
    BY <2>3, <2>4 DEF PresenceInv
<1>2. ASSUME NEW k \in Closers, EvictionDone(k) PROVE PresenceInv'
  <2>1. /\ evicting' = [evicting EXCEPT ![k] = {}]
        /\ UNCHANGED <<key, channel, mapped, session, loop, teardown, dropped>>
    BY <1>2 DEF EvictionDone
  <2>2. TypeOK'
    BY <1>a, <2>1 DEF TypeOK
  <2>3. OneServerAtRest'
    BY <1>a, <1>c, <2>1, OneServerStays
  <2> QED
    BY <2>2, <2>3 DEF PresenceInv
<1>3. ASSUME NEW c \in Conns, Insert(c) PROVE PresenceInv'
  <2>1. /\ session' = [session EXCEPT ![c] = "inserted"]
        /\ loop' = [loop EXCEPT ![ServerOf[c]] = c]
        /\ mapped' = [mapped EXCEPT ![ServerOf[c]] = @ \cup {c}]
        /\ UNCHANGED <<key, channel, teardown, evicting, dropped>>
    BY <1>3 DEF Insert
  <2>2. TypeOK'
    BY <1>a, <1>b, <2>1 DEF TypeOK
  <2>3. OneServerAtRest'
    BY <1>a, <1>b, <1>c, <2>1 DEF OneServerAtRest
  <2> QED
    BY <2>2, <2>3 DEF PresenceInv
<1>4. ASSUME NEW s \in Servers, SetKey(s) PROVE PresenceInv'
  <2>1. /\ loop[s] # None /\ key' = s
        /\ session' = [session EXCEPT ![loop[s]] = "stored"]
        /\ UNCHANGED <<channel, mapped, loop, teardown, evicting, dropped>>
    BY <1>4 DEF SetKey
  <2>2. TypeOK'
    BY <1>a, <2>1 DEF TypeOK
  <2>3. OneServerAtRest'
    BY <1>a, <1>c, <2>1, OneServerStays
  <2> QED
    BY <2>2, <2>3 DEF PresenceInv
<1>5. ASSUME NEW s \in Servers, PublishConnected(s) PROVE PresenceInv'
  <2>1. /\ loop[s] # None /\ Publish("connected", s)
        /\ session' = [session EXCEPT ![loop[s]] = "open"]
        /\ loop' = [loop EXCEPT ![s] = None]
        /\ UNCHANGED <<key, mapped, teardown, evicting, dropped>>
    BY <1>5 DEF PublishConnected
  <2>2. /\ channel' \in [Servers -> Seq(Events)]
        /\ \A t \in Servers : Announced(t) => Announced(t)'
        /\ \A t \in Servers \ {s} : Announced(t)'
    BY <1>a, <2>1, PublishStep
  <2>3. TypeOK'
    BY <1>a, <2>1, <2>2 DEF TypeOK
  <2>4. OneServerAtRest'
    BY <1>a, <2>1, <2>2 DEF OneServerAtRest
  <2> QED
    BY <2>3, <2>4 DEF PresenceInv
<1>6. ASSUME NEW c \in Conns, Drop(c) PROVE PresenceInv'
  <2>1. /\ dropped < MaxDropped /\ dropped' = dropped + 1
        /\ teardown' = [teardown EXCEPT ![c] = "unmapped"]
        /\ mapped' = [mapped EXCEPT ![ServerOf[c]] = @ \ {c}]
        /\ UNCHANGED <<key, channel, session, loop, evicting>>
    BY <1>6 DEF Drop
  <2>2. dropped' \in 0 .. MaxDropped
    BY <1>a, <1>b, <2>1
  <2>3. TypeOK'
    BY <1>a, <2>1, <2>2 DEF TypeOK
  <2>4. OneServerAtRest'
    BY <1>a, <1>c, <2>1, OneServerStays
  <2> QED
    BY <2>3, <2>4 DEF PresenceInv
<1>7. ASSUME NEW c \in Conns, DelKey(c) PROVE PresenceInv'
  <2>1. /\ teardown' = [teardown EXCEPT ![c] = "deleted"] /\ key' = None
        /\ UNCHANGED <<channel, mapped, session, loop, evicting, dropped>>
    BY <1>7 DEF DelKey
  <2>2. TypeOK'
    BY <1>a, <2>1 DEF TypeOK
  <2>3. OneServerAtRest'
    BY <1>a, <1>c, <2>1, OneServerStays
  <2> QED
    BY <2>2, <2>3 DEF PresenceInv
<1>8. ASSUME NEW c \in Conns, PublishDisconnected(c) PROVE PresenceInv'
  <2>1. /\ teardown' = [teardown EXCEPT ![c] = "done"]
        /\ Publish("disconnected", ServerOf[c])
        /\ UNCHANGED <<key, mapped, session, loop, evicting, dropped>>
    BY <1>8 DEF PublishDisconnected
  <2>2. /\ channel' \in [Servers -> Seq(Events)]
        /\ \A t \in Servers : Announced(t) => Announced(t)'
    BY <1>a, <1>b, <2>1, PublishStep
  <2>3. TypeOK'
    BY <1>a, <2>1, <2>2 DEF TypeOK
  <2>4. OneServerAtRest'
    BY <1>a, <2>1, <2>2, OneServerStays
  <2> QED
    BY <2>3, <2>4 DEF PresenceInv
<1>9. ASSUME NEW s \in Servers, HandleEvent(s) PROVE PresenceInv'
  <2> DEFINE event == Head(channel[s])
             foreign == event.from # s /\ event.type = "connected"
  <2>1. /\ channel[s] # <<>> /\ channel' = [channel EXCEPT ![s] = Tail(@)]
        /\ Evict(s, s, IF foreign THEN mapped[s] ELSE {})
        /\ mapped' = [mapped EXCEPT ![s] = IF foreign THEN {} ELSE @]
        /\ UNCHANGED <<key, session, loop, dropped>>
    BY <1>9 DEF HandleEvent
  <2>2. /\ evicting' \in [Closers -> SUBSET Conns]
        /\ teardown' \in [Conns -> {"none", "unmapped", "deleted", "done"}]
    <3>1. (IF foreign THEN mapped[s] ELSE {}) \in SUBSET Conns
      BY <1>b
    <3> QED
      BY <1>a, <1>b, <2>1, <3>1, EvictStep
  <2>3. /\ channel[s] \in Seq(Events) /\ Tail(channel[s]) \in Seq(Events)
        /\ channel' \in [Servers -> Seq(Events)]
        /\ channel'[s] = Tail(channel[s])
        /\ \A t \in Servers \ {s} : channel'[t] = channel[t]
    BY <1>a, <2>1, TailAnnounces
  <2>4. ~foreign /\ Announced(s) => Announced(s)'
    <3> SUFFICES ASSUME ~foreign, Announced(s) PROVE Announced(s)'
      OBVIOUS
    <3>1. PICK i \in 1 .. Len(channel[s]) :
            channel[s][i].type = "connected" /\ channel[s][i].from # s
      BY DEF Announced
    <3>2. i # 1
      BY <2>1, <2>3, <3>1, TailAnnounces
    <3>3. i - 1 \in 1 .. Len(channel'[s]) /\ channel'[s][i - 1] = channel[s][i]
      BY <2>1, <2>3, <3>2, TailAnnounces
    <3> QED
      BY <3>1, <3>3 DEF Announced
  <2>5. \A t \in Servers \ {s} : Announced(t) => Announced(t)'
    BY <2>3 DEF Announced
  <2>6. /\ \A t \in Servers : mapped'[t] \subseteq mapped[t]
        /\ foreign => mapped'[s] = {}
        /\ mapped' \in [Servers -> SUBSET Conns]
    BY <1>a, <2>1
  <2>7. TypeOK'
    BY <1>a, <2>1, <2>2, <2>3, <2>6 DEF TypeOK
  <2>8. OneServerAtRest'
    BY <1>a, <2>1, <2>4, <2>5, <2>6 DEF OneServerAtRest
  <2> QED
    BY <2>7, <2>8 DEF PresenceInv
<1>10. CASE Expire
  <2>1. key' = None /\ UNCHANGED <<channel, mapped, session, loop, teardown, evicting, dropped>>
    BY <1>10 DEF Expire
  <2>2. TypeOK'
    BY <1>a, <2>1 DEF TypeOK
  <2>3. OneServerAtRest'
    BY <1>a, <1>c, <2>1, OneServerStays
  <2> QED
    BY <2>2, <2>3 DEF PresenceInv
<1> QED
  BY <1>0, <1>1, <1>2, <1>3, <1>4, <1>5, <1>6, <1>7, <1>8, <1>9, <1>10 DEF Next

LEMMA PresenceInvariant == ASSUME Parameters PROVE Spec => []PresenceInv
<1>1. Init => PresenceInv
  BY PresenceInit
<1>2. PresenceInv /\ [Next]_vars => PresenceInv'
  BY PresenceStep
<1> QED
  BY <1>1, <1>2, PTL DEF Spec

\* The key, the channels, the maps and what is under way have their types, and
\* a session is in the map of the server it came to.
THEOREM RedisTypeCorrect == ASSUME Parameters PROVE Spec => []TypeOK
<1>1. PresenceInv => TypeOK
  BY DEF PresenceInv
<1> QED
  BY <1>1, PresenceInvariant, PTL

\* Register puts a session into the map before it publishes "connected", and
\* HandleRemotePresence evicts the whole map: however the events of any number
\* of servers interleave, two of them hold the user only while an announcement
\* is still to be made or to be heard.
THEOREM OneServerHolds == ASSUME Parameters PROVE Spec => []OneServerAtRest
<1>1. PresenceInv => OneServerAtRest
  BY DEF PresenceInv
<1> QED
  BY <1>1, PresenceInvariant, PTL

-----------------------------------------------------------------------------
(* The life of the processes *)

\* A set of numbers has a least one.
LEMMA LeastNumber ==
  ASSUME NEW S \in SUBSET Nat, S # {}
  PROVE  \E n \in S : \A m \in S : n <= m
<1> DEFINE R == {p \in Nat \X Nat : p[1] < p[2]}
<1>1. \E n \in S : \A m \in S : ~ (<<m, n>> \in R)
  <2>1. IsWellFoundedOn(R, Nat)
    BY NatLessThanWellFounded DEF OpToRel
  <2> HIDE DEF R
  <2> QED
    BY <2>1, WFMin
<1>2. PICK n \in S : \A m \in S : ~ (<<m, n>> \in R)
  BY <1>1
<1>3. \A m \in S : n <= m
  <2> SUFFICES ASSUME NEW m \in S PROVE n <= m
    OBVIOUS
  <2>1. n \in Nat /\ m \in Nat
    OBVIOUS
  <2>2. m < n => <<m, n>> \in R
    BY <2>1
  <2> QED
    BY <1>2, <2>1, <2>2
<1> QED
  BY <1>3

Early == {"down", "find", "insert", "wired", "built"}

\* The variables are functions with the domains the steps rely on.
LifeShape ==
  /\ at \in [Servers -> Early \cup {"serving", "draining", "stopping", "closing", "late",
                                    "failed"}]
  /\ DOMAIN closes = Servers /\ DOMAIN father = Servers /\ DOMAIN busy = Servers
  /\ DOMAIN hub = Servers /\ DOMAIN hand = Servers
  /\ DOMAIN taken = Servers
  /\ link \in [Conns -> {"none", "live", "leaving", "over"}]
  /\ keys \subseteq Conns
  /\ \A f \in fathers : f.id \in Nat

\* Run is off until the process serves, has a session of its own in hand, has
\* emptied the map when it stops, and has ended before the process closes its
\* client of Redis in good order.
HubFits ==
  \A s \in Servers :
    /\ at[s] \in Early => hub[s] = "off"
    /\ hub[s] \in {"insert", "announce"} =>
         hand[s] \in Conns /\ ServerOf[hand[s]] = s /\ link[hand[s]] # "none"
    /\ hub[s] \in {"closing", "stopped"} => \A c \in Conns : ServerOf[c] = s => c \notin filed
    /\ at[s] = "closing" => hub[s] = "stopped"

\* A live session is in the map, in the hand of Run or on the list of closeAll,
\* so there is none when Run has ended.
LiveIsKnown ==
  \A c \in Conns :
    /\ link[c] = "live" =>
         \/ c \in filed
         \/ hub[ServerOf[c]] = "insert" /\ hand[ServerOf[c]] = c
         \/ hub[ServerOf[c]] = "closing" /\ c \in taken[ServerOf[c]]
    /\ hub[ServerOf[c]] = "stopped" => link[c] # "live"
    /\ hub[ServerOf[c]] = "off" => link[c] = "none"

\* Until Close begins, a process has the Redis client with which it wrote a
\* key; an older key it cannot delete is one that was missed.
KeyCanBeDeleted ==
  \A c \in keys :
    at[ServerOf[c]] \in {"serving", "draining", "stopping"} /\ ~Life!HasRedis(ServerOf[c])
      => c \in missed

\* A server works with a row.
FatherIsRow == \A s \in Servers : father[s] # None => \E f \in fathers : f.id = father[s]

LifeInv ==
  /\ LifeShape /\ HubFits /\ LiveIsKnown /\ KeyCanBeDeleted /\ Life!OrderlyLeavesNoKey
  /\ FatherIsRow /\ Life!FathersAreOwn

LEMMA LifeInit == Life!Init => LifeInv
<1> SUFFICES ASSUME Life!Init PROVE LifeInv
  OBVIOUS
<1>1. LifeShape
  BY DEF Life!Init, LifeShape, Early
<1>2. HubFits /\ LiveIsKnown /\ KeyCanBeDeleted /\ Life!OrderlyLeavesNoKey
  BY DEF Life!Init, HubFits, LiveIsKnown, KeyCanBeDeleted, Life!OrderlyLeavesNoKey
<1>3. FatherIsRow /\ Life!FathersAreOwn
  BY DEF Life!Init, FatherIsRow, Life!FathersAreOwn
<1> QED
  BY <1>1, <1>2, <1>3 DEF LifeInv

\* The end of a process takes its sessions, and notes the keys it leaves.
LEMMA EndStep ==
  ASSUME Life!Parameters, LifeInv, NEW s \in Servers, NEW orderly \in BOOLEAN,
         orderly => at[s] = "closing",
         Life!End(s, orderly), UNCHANGED <<keys, fathers, starts>>
  PROVE  LifeInv'
<1>a. /\ at' = [at EXCEPT ![s] = "down"] /\ closes' = [closes EXCEPT ![s] = <<>>]
      /\ father' = [father EXCEPT ![s] = None] /\ busy' = [busy EXCEPT ![s] = FALSE]
      /\ hub' = [hub EXCEPT ![s] = "off"] /\ hand' = [hand EXCEPT ![s] = None]
      /\ filed' = filed \ Life!Of(s) /\ taken' = [taken EXCEPT ![s] = {}]
      /\ link' = [c \in Conns |-> IF c \in Life!Of(s) THEN "none" ELSE link[c]]
      /\ missed' = missed \cup {c \in Life!Of(s) \cap keys : ~orderly \/ link[c] = "leaving"}
  BY DEF Life!End, Life!Goto
<1>b. \A c \in Conns : c \in Life!Of(s) <=> ServerOf[c] = s
  BY DEF Life!Of
<1>c. LifeShape /\ HubFits /\ LiveIsKnown /\ KeyCanBeDeleted /\ Life!OrderlyLeavesNoKey
  BY DEF LifeInv
<1>1. LifeShape'
  BY <1>a, <1>c DEF LifeShape, Early
<1>2. /\ at'[s] = "down" /\ hub'[s] = "off"
      /\ \A t \in Servers \ {s} :
           /\ at'[t] = at[t] /\ closes'[t] = closes[t] /\ hub'[t] = hub[t]
           /\ hand'[t] = hand[t] /\ taken'[t] = taken[t]
  BY <1>a, <1>c DEF LifeShape
<1>3. \A c \in Conns :
        /\ ServerOf[c] \in Servers
        /\ ServerOf[c] = s => link'[c] = "none"
        /\ ServerOf[c] # s => /\ link'[c] = link[c]
                              /\ c \in filed' <=> c \in filed
                              /\ c \in missed' <=> c \in missed
  BY <1>a, <1>b, <1>c DEF LifeShape, Life!Parameters
<1>4. HubFits'
  BY <1>c, <1>2, <1>3 DEF HubFits
<1>5. LiveIsKnown'
  BY <1>c, <1>2, <1>3 DEF LiveIsKnown
<1>6. KeyCanBeDeleted'
  <2> SUFFICES ASSUME NEW c \in keys,
                      at'[ServerOf[c]] \in {"serving", "draining", "stopping"},
                      ~(\E i \in DOMAIN closes'[ServerOf[c]] : closes'[ServerOf[c]][i] = "presence")
               PROVE  c \in missed'
    BY DEF KeyCanBeDeleted, Life!HasRedis
  <2>1. c \in Conns /\ ServerOf[c] # s
    BY <1>c, <1>2 DEF LifeShape
  <2> QED
    BY <1>c, <1>2, <1>3, <2>1 DEF KeyCanBeDeleted, Life!HasRedis
<1>7. Life!OrderlyLeavesNoKey'
  <2> SUFFICES ASSUME NEW c \in keys, link'[c] \in {"none", "over"} PROVE c \in missed'
    BY DEF Life!OrderlyLeavesNoKey
  <2>1. c \in Conns /\ (link[c] \in {"none", "over"} => c \in missed)
    BY <1>c DEF LifeShape, Life!OrderlyLeavesNoKey
  <2>2. CASE ServerOf[c] # s
    BY <1>3, <2>1, <2>2
  <2>3. CASE ServerOf[c] = s
    <3>1. orderly => link[c] # "live"
      BY <1>c, <2>1, <2>3 DEF HubFits, LiveIsKnown
    <3> QED
      BY <1>a, <1>b, <1>c, <2>1, <2>3, <3>1 DEF LifeShape
  <2> QED
    BY <2>2, <2>3
<1>8. FatherIsRow' /\ Life!FathersAreOwn'
  BY <1>a DEF LifeInv, LifeShape, FatherIsRow, Life!FathersAreOwn
<1> QED
  BY <1>1, <1>4, <1>5, <1>6, <1>7, <1>8 DEF LifeInv

\* The steps of NewApplication, Run and Close that leave the hub, the sessions
\* and the rows alone.
LEMMA MainStep ==
  ASSUME Life!Parameters, LifeInv, NEW s \in Servers,
         \/ Life!Start(s) \/ Life!InitRedis(s) \/ Life!ListenFails(s) \/ Life!Signal(s)
         \/ Life!TakeRequest(s) \/ Life!EndRequest(s) \/ Life!Drained(s)
         \/ Life!DrainTimesOut(s) \/ Life!HubTimesOut(s) \/ Life!CloseNext(s)
  PROVE  LifeInv'
<1>a. LifeShape /\ HubFits /\ LiveIsKnown /\ KeyCanBeDeleted /\ Life!OrderlyLeavesNoKey
  BY DEF LifeInv
<1>1. UNCHANGED <<father, hub, hand, filed, taken, link, keys, missed, fathers>>
  BY DEF Life!hubVars, Life!sessionVars, Life!Start, Life!InitRedis, Life!ListenFails,
     Life!Signal, Life!TakeRequest, Life!EndRequest, Life!Drained, Life!DrainTimesOut,
     Life!HubTimesOut, Life!CloseNext
<1>2. /\ at' \in [Servers -> Early \cup {"serving", "draining", "stopping", "closing", "late",
                                         "failed"}]
      /\ DOMAIN closes' = Servers /\ DOMAIN busy' = Servers
      /\ \A t \in Servers \ {s} : at'[t] = at[t] /\ closes'[t] = closes[t]
  BY <1>a DEF LifeShape, Early, Life!Goto, Life!Start, Life!InitRedis, Life!ListenFails,
     Life!Signal, Life!TakeRequest, Life!EndRequest, Life!Drained, Life!DrainTimesOut,
     Life!HubTimesOut, Life!CloseNext
<1>3. /\ at'[s] \in Early => at[s] \in Early
      /\ at'[s] = "closing" => at[s] = "closing"
      /\ at'[s] \in {"serving", "draining", "stopping"} =>
           at[s] \in {"serving", "draining", "stopping"} /\ closes'[s] = closes[s]
  BY <1>a DEF LifeShape, Early, Life!Goto, Life!Start, Life!InitRedis, Life!ListenFails,
     Life!Signal, Life!TakeRequest, Life!EndRequest, Life!Drained, Life!DrainTimesOut,
     Life!HubTimesOut, Life!CloseNext
<1>4. LifeShape'
  BY <1>a, <1>1, <1>2 DEF LifeShape
<1>5. HubFits' /\ LiveIsKnown'
  BY <1>a, <1>1, <1>2, <1>3 DEF HubFits, LiveIsKnown
<1>6. KeyCanBeDeleted'
  <2> SUFFICES ASSUME NEW c \in keys,
                      at'[ServerOf[c]] \in {"serving", "draining", "stopping"},
                      ~(\E i \in DOMAIN closes'[ServerOf[c]] : closes'[ServerOf[c]][i] = "presence")
               PROVE  c \in missed
    BY <1>1 DEF KeyCanBeDeleted, Life!HasRedis
  <2>1. ServerOf[c] \in Servers
    BY <1>a DEF LifeShape, Life!Parameters
  <2>2. /\ at[ServerOf[c]] \in {"serving", "draining", "stopping"}
        /\ closes'[ServerOf[c]] = closes[ServerOf[c]]
    BY <1>2, <1>3, <2>1
  <2> QED
    BY <1>a, <2>2 DEF KeyCanBeDeleted, Life!HasRedis
<1>7. Life!OrderlyLeavesNoKey' /\ FatherIsRow' /\ Life!FathersAreOwn'
  BY <1>1 DEF LifeInv, Life!OrderlyLeavesNoKey, FatherIsRow, Life!FathersAreOwn
<1> QED
  BY <1>4, <1>5, <1>6, <1>7 DEF LifeInv

\* The Run loop: it starts, files a session, announces it, closes all and ends.
LEMMA HubStep ==
  ASSUME Life!Parameters, LifeInv, NEW s \in Servers,
         \/ Life!Run(s) \/ Life!Insert(s) \/ Life!SetKey(s)
         \/ Life!CloseAll(s) \/ Life!HubStopped(s)
  PROVE  LifeInv'
<1>a. LifeShape /\ HubFits /\ LiveIsKnown /\ KeyCanBeDeleted /\ Life!OrderlyLeavesNoKey
  BY DEF LifeInv
<1>b. \A c \in Conns : ServerOf[c] \in Servers /\ (c \in Life!Of(s) <=> ServerOf[c] = s)
  BY DEF Life!Parameters, Life!Of
<1>c. UNCHANGED <<closes, father, busy, link, fathers>>
  BY DEF Life!procVars, Life!sessionVars, Life!Run, Life!Insert, Life!SetKey, Life!CloseAll,
     Life!HubStopped
<1>d. \A c \in Conns : Life!HasRedis(ServerOf[c])' <=> Life!HasRedis(ServerOf[c])
  BY <1>c DEF Life!HasRedis
<1>e. FatherIsRow' /\ Life!FathersAreOwn'
  BY <1>c DEF LifeInv, FatherIsRow, Life!FathersAreOwn
<1>1. CASE Life!Run(s)
  <2>1. /\ at[s] = "built" /\ at' = [at EXCEPT ![s] = "serving"]
        /\ hub' = [hub EXCEPT ![s] = "select"]
        /\ UNCHANGED <<hand, filed, taken, keys, missed>>
    BY <1>1 DEF Life!Run, Life!Goto, Life!sessionVars
  <2>2. hub[s] = "off" /\ \A c \in Conns : ServerOf[c] = s => link[c] = "none"
    BY <1>a, <2>1 DEF HubFits, LiveIsKnown, Early
  <2>3. LifeShape' /\ HubFits'
    BY <1>a, <1>c, <2>1 DEF LifeShape, HubFits, Early
  <2>4. LiveIsKnown' /\ Life!OrderlyLeavesNoKey'
    BY <1>a, <1>b, <1>c, <2>1, <2>2 DEF LifeShape, LiveIsKnown, Life!OrderlyLeavesNoKey
  <2>5. KeyCanBeDeleted'
    <3> SUFFICES ASSUME NEW c \in keys,
                        at'[ServerOf[c]] \in {"serving", "draining", "stopping"},
                        ~Life!HasRedis(ServerOf[c])
                 PROVE  c \in missed
      BY <1>a, <1>d, <2>1 DEF LifeShape, KeyCanBeDeleted
    <3>1. CASE ServerOf[c] = s
      BY <1>a, <2>2, <3>1 DEF LifeShape, Life!OrderlyLeavesNoKey
    <3>2. CASE ServerOf[c] # s
      BY <1>a, <1>b, <2>1, <3>2 DEF LifeShape, KeyCanBeDeleted
    <3> QED
      BY <3>1, <3>2
  <2> QED
    BY <1>e, <2>3, <2>4, <2>5 DEF LifeInv
<1>2. CASE Life!Insert(s)
  <2>1. /\ hub[s] = "insert" /\ hub' = [hub EXCEPT ![s] = "announce"]
        /\ filed' = filed \cup {hand[s]}
        /\ UNCHANGED <<at, hand, taken, keys, missed>>
    BY <1>2 DEF Life!Insert, Life!procVars, Life!sessionVars
  <2>2. hand[s] \in Conns /\ ServerOf[hand[s]] = s
    BY <1>a, <2>1 DEF HubFits
  <2>3. LifeShape' /\ KeyCanBeDeleted' /\ Life!OrderlyLeavesNoKey'
    BY <1>a, <1>c, <1>d, <2>1 DEF LifeShape, KeyCanBeDeleted, Life!OrderlyLeavesNoKey
  <2>4. HubFits'
    BY <1>a, <1>c, <2>1, <2>2 DEF LifeShape, HubFits
  <2>5. LiveIsKnown'
    BY <1>a, <1>b, <1>c, <2>1, <2>2 DEF LifeShape, LiveIsKnown
  <2> QED
    BY <1>e, <2>3, <2>4, <2>5 DEF LifeInv
<1>3. CASE Life!SetKey(s)
  <2> DEFINE c == hand[s]
  <2>1. /\ hub[s] = "announce" /\ hub' = [hub EXCEPT ![s] = "select"]
        /\ hand' = [hand EXCEPT ![s] = None]
        /\ IF Life!HasRedis(s)
           THEN /\ keys' = keys \cup {c}
                /\ missed' = IF link[c] = "over" THEN missed \cup {c} ELSE missed \ {c}
           ELSE UNCHANGED <<keys, missed>>
        /\ UNCHANGED <<at, filed, taken>>
    BY <1>3 DEF Life!SetKey, Life!procVars
  <2>2. c \in Conns /\ ServerOf[c] = s /\ link[c] # "none"
    BY <1>a, <2>1 DEF HubFits
  <2> HIDE DEF c
  <2>3. LifeShape' /\ HubFits'
    BY <1>a, <1>c, <2>1, <2>2 DEF LifeShape, HubFits, Early
  <2>4. LiveIsKnown'
    BY <1>a, <1>b, <1>c, <2>1 DEF LifeShape, LiveIsKnown
  <2>5. KeyCanBeDeleted'
    BY <1>a, <1>d, <2>1, <2>2 DEF LifeShape, KeyCanBeDeleted
  <2>6. Life!OrderlyLeavesNoKey'
    BY <1>a, <1>c, <2>1, <2>2 DEF LifeShape, Life!OrderlyLeavesNoKey
  <2> QED
    BY <1>e, <2>3, <2>4, <2>5, <2>6 DEF LifeInv
<1>4. CASE Life!CloseAll(s)
  <2>1. /\ at[s] \in {"stopping", "late"} /\ hub[s] = "select"
        /\ taken' = [taken EXCEPT ![s] = filed \cap Life!Of(s)]
        /\ filed' = filed \ Life!Of(s) /\ hub' = [hub EXCEPT ![s] = "closing"]
        /\ UNCHANGED <<at, hand, keys, missed>>
    BY <1>4 DEF Life!CloseAll, Life!procVars, Life!sessionVars
  <2>2. LifeShape' /\ KeyCanBeDeleted' /\ Life!OrderlyLeavesNoKey'
    BY <1>a, <1>c, <1>d, <2>1 DEF LifeShape, KeyCanBeDeleted, Life!OrderlyLeavesNoKey
  <2>3. HubFits'
    BY <1>a, <1>b, <1>c, <2>1 DEF LifeShape, HubFits, Early
  <2>4. LiveIsKnown'
    BY <1>a, <1>b, <1>c, <2>1 DEF LifeShape, LiveIsKnown
  <2> QED
    BY <1>e, <2>2, <2>3, <2>4 DEF LifeInv
<1>5. CASE Life!HubStopped(s)
  <2>1. /\ at[s] = "stopping" /\ hub[s] = "closing"
        /\ \A c \in taken[s] : link[c] = "over"
        /\ hub' = [hub EXCEPT ![s] = "stopped"] /\ at' = [at EXCEPT ![s] = "closing"]
        /\ UNCHANGED <<hand, filed, taken, keys, missed>>
    BY <1>5 DEF Life!HubStopped, Life!Goto, Life!sessionVars
  <2>2. LifeShape' /\ HubFits' /\ Life!OrderlyLeavesNoKey'
    BY <1>a, <1>c, <2>1 DEF LifeShape, HubFits, Early, Life!OrderlyLeavesNoKey
  <2>3. LiveIsKnown'
    BY <1>a, <1>b, <1>c, <2>1 DEF LifeShape, HubFits, LiveIsKnown
  <2>4. KeyCanBeDeleted'
    BY <1>a, <1>b, <1>d, <2>1 DEF LifeShape, KeyCanBeDeleted
  <2> QED
    BY <1>e, <2>2, <2>3, <2>4 DEF LifeInv
<1> QED
  BY <1>1, <1>2, <1>3, <1>4, <1>5

\* The steps of a session and of its key.
LEMMA SessionStep ==
  ASSUME Life!Parameters, LifeInv, NEW c \in Conns,
         Life!Register(c) \/ Life!Leave(c) \/ Life!RemoveKey(c) \/ Life!ExpireKey(c)
  PROVE  LifeInv'
<1>a. LifeShape /\ HubFits /\ LiveIsKnown /\ KeyCanBeDeleted /\ Life!OrderlyLeavesNoKey
  BY DEF LifeInv
<1>b. \A d \in Conns : ServerOf[d] \in Servers
  BY DEF Life!Parameters
<1>c. UNCHANGED <<at, closes, father, busy, taken, fathers>>
  BY DEF Life!procVars, Life!hubVars, Life!Register, Life!Leave, Life!RemoveKey, Life!ExpireKey
<1>d. \A d \in Conns : Life!HasRedis(ServerOf[d])' <=> Life!HasRedis(ServerOf[d])
  BY <1>c DEF Life!HasRedis
<1>e. FatherIsRow' /\ Life!FathersAreOwn'
  BY <1>c DEF LifeInv, FatherIsRow, Life!FathersAreOwn
<1>1. CASE Life!Register(c)
  <2>1. /\ link[c] = "none" /\ hub[ServerOf[c]] = "select"
        /\ link' = [link EXCEPT ![c] = "live"]
        /\ hub' = [hub EXCEPT ![ServerOf[c]] = "insert"]
        /\ hand' = [hand EXCEPT ![ServerOf[c]] = c]
        /\ UNCHANGED <<filed, keys, missed>>
    BY <1>1 DEF Life!Register
  <2>2. LifeShape' /\ Life!OrderlyLeavesNoKey'
    BY <1>a, <1>c, <2>1 DEF LifeShape, Life!OrderlyLeavesNoKey
  <2>3. KeyCanBeDeleted'
    BY <1>a, <1>c, <1>d, <2>1 DEF LifeShape, KeyCanBeDeleted
  <2>4. HubFits'
    BY <1>a, <1>b, <1>c, <2>1 DEF LifeShape, HubFits
  <2>5. LiveIsKnown'
    BY <1>a, <1>b, <1>c, <2>1 DEF LifeShape, LiveIsKnown
  <2> QED
    BY <1>e, <2>2, <2>3, <2>4, <2>5 DEF LifeInv
<1>2. CASE Life!Leave(c)
  <2>1. /\ link[c] = "live" /\ link' = [link EXCEPT ![c] = "leaving"]
        /\ filed' = filed \ {c}
        /\ UNCHANGED <<hub, hand, keys, missed>>
    BY <1>2 DEF Life!Leave
  <2>2. LifeShape' /\ Life!OrderlyLeavesNoKey'
    BY <1>a, <1>c, <2>1 DEF LifeShape, Life!OrderlyLeavesNoKey
  <2>3. KeyCanBeDeleted'
    BY <1>a, <1>c, <1>d, <2>1 DEF LifeShape, KeyCanBeDeleted
  <2>4. HubFits'
    BY <1>a, <1>c, <2>1 DEF HubFits
  <2>5. LiveIsKnown'
    BY <1>a, <1>c, <2>1 DEF LifeShape, LiveIsKnown
  <2> QED
    BY <1>e, <2>2, <2>3, <2>4, <2>5 DEF LifeInv
<1>3. CASE Life!RemoveKey(c)
  <2>1. /\ link[c] = "leaving" /\ link' = [link EXCEPT ![c] = "over"]
        /\ keys' = IF Life!HasRedis(ServerOf[c]) THEN keys \ {c} ELSE keys
        /\ missed' = IF at[ServerOf[c]] \in {"closing", "late", "failed"}
                     THEN missed \cup (keys' \cap {c}) ELSE missed
        /\ UNCHANGED <<hub, hand, filed>>
    BY <1>3 DEF Life!RemoveKey, Life!hubVars
  <2>2. LifeShape'
    BY <1>a, <1>c, <2>1 DEF LifeShape
  <2>3. HubFits' /\ LiveIsKnown'
    BY <1>a, <1>c, <2>1 DEF LifeShape, HubFits, LiveIsKnown
  <2>4. KeyCanBeDeleted'
    BY <1>a, <1>c, <1>d, <2>1 DEF LifeShape, KeyCanBeDeleted
  <2>5. Life!OrderlyLeavesNoKey'
    <3>1. at[ServerOf[c]] \in {"serving", "draining", "stopping", "closing", "late", "failed"}
      BY <1>a, <1>b, <2>1 DEF LifeShape, HubFits, LiveIsKnown
    <3>2. c \in keys' => c \in missed'
      BY <1>a, <2>1, <3>1 DEF KeyCanBeDeleted
    <3> QED
      BY <1>a, <2>1, <3>2 DEF LifeShape, Life!OrderlyLeavesNoKey
  <2> QED
    BY <1>e, <2>2, <2>3, <2>4, <2>5 DEF LifeInv
<1>4. CASE Life!ExpireKey(c)
  <2>1. keys' = keys \ {c} /\ missed' = missed \ {c} /\ UNCHANGED <<hub, hand, filed, link>>
    BY <1>4 DEF Life!ExpireKey, Life!hubVars
  <2>2. LifeShape'
    BY <1>a, <1>c, <2>1 DEF LifeShape
  <2>3. HubFits' /\ LiveIsKnown'
    BY <1>a, <1>c, <2>1 DEF HubFits, LiveIsKnown
  <2>4. KeyCanBeDeleted' /\ Life!OrderlyLeavesNoKey'
    BY <1>a, <1>c, <1>d, <2>1 DEF LifeShape, KeyCanBeDeleted, Life!OrderlyLeavesNoKey
  <2> QED
    BY <1>e, <2>2, <2>3, <2>4 DEF LifeInv
<1> QED
  BY <1>1, <1>2, <1>3, <1>4

LEMMA LifeStep == Life!Parameters /\ LifeInv /\ [Life!Next]_(Life!vars) => LifeInv'
<1> SUFFICES ASSUME Life!Parameters, LifeInv, [Life!Next]_(Life!vars) PROVE LifeInv'
  OBVIOUS
<1>a. /\ LifeShape /\ HubFits /\ LiveIsKnown /\ KeyCanBeDeleted /\ Life!OrderlyLeavesNoKey
      /\ FatherIsRow /\ Life!FathersAreOwn
  BY DEF LifeInv
<1>0. CASE UNCHANGED Life!vars
  BY <1>a, <1>0 DEF Life!vars, Life!procVars, Life!hubVars, Life!sessionVars, LifeInv,
     LifeShape, HubFits, LiveIsKnown, KeyCanBeDeleted, Life!OrderlyLeavesNoKey,
     Life!HasRedis, FatherIsRow, Life!FathersAreOwn
<1>1. ASSUME NEW s \in Servers,
             \/ Life!Start(s) \/ Life!InitRedis(s) \/ Life!ListenFails(s) \/ Life!Signal(s)
             \/ Life!TakeRequest(s) \/ Life!EndRequest(s) \/ Life!Drained(s)
             \/ Life!DrainTimesOut(s) \/ Life!HubTimesOut(s) \/ Life!CloseNext(s)
      PROVE  LifeInv'
  BY <1>1, MainStep
<1>2. ASSUME NEW s \in Servers,
             \/ Life!Run(s) \/ Life!Insert(s) \/ Life!SetKey(s)
             \/ Life!CloseAll(s) \/ Life!HubStopped(s)
      PROVE  LifeInv'
  BY <1>2, HubStep
<1>3. ASSUME NEW s \in Servers, Life!StartFails(s) \/ Life!Exit(s) \/ Life!Kill(s)
      PROVE  LifeInv'
  <2>1. \E orderly \in BOOLEAN : Life!End(s, orderly) /\ (orderly => at[s] = "closing")
    BY <1>3 DEF Life!StartFails, Life!Exit, Life!Kill
  <2>2. UNCHANGED <<keys, fathers, starts>>
    BY <1>3 DEF Life!StartFails, Life!Exit, Life!Kill
  <2> QED
    BY <2>1, <2>2, EndStep
<1>4. ASSUME NEW s \in Servers, Life!FindFather(s) PROVE LifeInv'
  <2> DEFINE found == {f.id : f \in {f \in fathers : f.type = Life!ChatTypeBot}}
  <2>1. /\ \/ at' = [at EXCEPT ![s] = "insert"] /\ father' = father
           \/ /\ found # {} /\ at' = [at EXCEPT ![s] = "wired"]
              /\ father' = [father EXCEPT ![s] = Life!Min(found)]
        /\ at[s] = "find"
        /\ UNCHANGED <<closes, busy, hub, hand, filed, taken, link, keys, missed, fathers>>
    BY <1>4 DEF Life!FindFather, Life!Goto, Life!hubVars, Life!sessionVars
  <2>2. LifeShape'
    BY <1>a, <2>1 DEF LifeShape, Early
  <2>3. HubFits' /\ LiveIsKnown'
    BY <1>a, <2>1 DEF LifeShape, HubFits, LiveIsKnown, Early
  <2>4. KeyCanBeDeleted' /\ Life!OrderlyLeavesNoKey'
    <3>1. \A t \in Servers : at'[t] = at[t] \/ at'[t] \in {"insert", "wired"}
      BY <1>a, <2>1 DEF LifeShape
    <3>2. \A c \in keys : ServerOf[c] \in Servers
      BY <1>a DEF LifeShape, Life!Parameters
    <3> QED
      BY <1>a, <2>1, <3>1, <3>2 DEF KeyCanBeDeleted, Life!OrderlyLeavesNoKey, Life!HasRedis
  <2>5. found # {} => Life!Min(found) \in found
    <3> SUFFICES ASSUME found # {} PROVE Life!Min(found) \in found
      OBVIOUS
    <3>1. found \in SUBSET Nat
      BY <1>a DEF LifeShape
    <3> HIDE DEF found
    <3>2. \E n \in found : \A m \in found : n <= m
      BY <3>1, LeastNumber
    <3> QED
      BY <3>2 DEF Life!Min
  <2>6. FatherIsRow' /\ Life!FathersAreOwn'
    <3>1. \A t \in Servers \ {s} : father'[t] = father[t]
      BY <1>a, <2>1 DEF LifeShape
    <3>2. \/ father'[s] = father[s]
          \/ \E f \in fathers : f.id = father'[s] /\ f.type = Life!ChatTypeBot
      BY <1>a, <2>1, <2>5 DEF LifeShape
    <3> QED
      BY <1>a, <2>1, <3>1, <3>2 DEF FatherIsRow, Life!FathersAreOwn
  <2> QED
    BY <2>2, <2>3, <2>4, <2>6 DEF LifeInv
<1>5. ASSUME NEW s \in Servers, Life!InsertFather(s) PROVE LifeInv'
  <2>1. PICK id \in (1 .. MaxStarts) \ {f.id : f \in fathers} :
          /\ fathers' = fathers \cup {[id |-> id, type |-> Life!RecipientBot]}
          /\ father' = [father EXCEPT ![s] = id]
    BY <1>5 DEF Life!InsertFather
  <2>2. /\ at[s] = "insert" /\ at' = [at EXCEPT ![s] = "wired"]
        /\ UNCHANGED <<closes, busy, hub, hand, filed, taken, link, keys, missed>>
    BY <1>5 DEF Life!InsertFather, Life!Goto, Life!hubVars, Life!sessionVars
  <2>3. id \in Nat
    BY <2>1 DEF Life!Parameters
  <2>4. LifeShape'
    BY <1>a, <2>1, <2>2, <2>3 DEF LifeShape, Early
  <2>5. HubFits' /\ LiveIsKnown'
    BY <1>a, <2>2 DEF LifeShape, HubFits, LiveIsKnown, Early
  <2>6. KeyCanBeDeleted' /\ Life!OrderlyLeavesNoKey'
    BY <1>a, <2>2 DEF LifeShape, KeyCanBeDeleted, Life!OrderlyLeavesNoKey, Life!HasRedis
  <2>7. FatherIsRow' /\ Life!FathersAreOwn'
    <3>a. father'[s] = id /\ \A t \in Servers \ {s} : father'[t] = father[t]
      BY <1>a, <2>1 DEF LifeShape
    <3>b. \E f \in fathers' : f.id = id
      <4>1. [id |-> id, type |-> Life!RecipientBot] \in fathers'
        BY <2>1
      <4> QED
        BY <4>1
    <3>c. \A f \in fathers : f \in fathers' /\ f.id # id
      BY <2>1
    <3>1. /\ father'[s] = id /\ \A t \in Servers \ {s} : father'[t] = father[t]
          /\ \E f \in fathers' : f.id = id
          /\ \A f \in fathers : f \in fathers' /\ f.id # id
      BY <3>a, <3>b, <3>c
    <3>2. \A t \in Servers \ {s} : father'[t] # None => father'[t] # id
      BY <1>a, <3>1 DEF FatherIsRow
    <3>3. FatherIsRow'
      BY <1>a, <3>1 DEF FatherIsRow
    <3>4. Life!FathersAreOwn'
      <4> SUFFICES ASSUME NEW t \in Servers, NEW o \in Servers, t # o,
                          father'[t] # None, father'[t] = father'[o]
                   PROVE  \E f \in fathers' : f.id = father'[t] /\ f.type = Life!ChatTypeBot
        BY DEF Life!FathersAreOwn
      <4>1. t # s /\ o # s
        BY <3>1, <3>2
      <4> QED
        BY <1>a, <3>1, <4>1 DEF Life!FathersAreOwn
    <3> QED
      BY <3>3, <3>4
  <2> QED
    BY <2>4, <2>5, <2>6, <2>7 DEF LifeInv
<1>6. ASSUME NEW c \in Conns,
             Life!Register(c) \/ Life!Leave(c) \/ Life!RemoveKey(c) \/ Life!ExpireKey(c)
      PROVE  LifeInv'
  BY <1>6, SessionStep
<1> QED
  BY <1>0, <1>1, <1>2, <1>3, <1>4, <1>5, <1>6 DEF Life!Next, Life!StartSteps, Life!StopSteps

LEMMA LifeInvariant == ASSUME Life!Parameters PROVE Life!Spec => []LifeInv
<1>1. Life!Init => LifeInv
  BY LifeInit
<1>2. LifeInv /\ [Life!Next]_(Life!vars) => LifeInv'
  BY LifeStep
<1> QED
  BY <1>1, <1>2, PTL DEF Life!Spec

\* The processes of any number of servers, started, stopped and killed in any
\* order, with sessions that end while Run registers them or closeAll closes
\* them, leave a key without a session only as OrderlyLeavesNoKey allows, and
\* share a row of the BotFather only if a server did not insert it.
THEOREM StoresStaySound == ASSUME Life!Parameters PROVE Life!Spec => []Life!StoresAreSound
<1>1. LifeInv => Life!StoresAreSound
  BY DEF LifeInv, Life!StoresAreSound
<1> QED
  BY <1>1, LifeInvariant, PTL

\* The steps of NewApplication, Run and Close that leave the hub, the sessions
\* and the rows alone keep the types.
LEMMA ProcessTypes ==
  ASSUME Life!Parameters, LifeShape, Life!TypeOK, NEW s \in Servers,
         \/ Life!Start(s) \/ Life!InitRedis(s) \/ Life!ListenFails(s) \/ Life!Signal(s)
         \/ Life!TakeRequest(s) \/ Life!EndRequest(s) \/ Life!Drained(s)
         \/ Life!DrainTimesOut(s) \/ Life!HubTimesOut(s) \/ Life!CloseNext(s)
  PROVE  Life!TypeOK'
<1> DEFINE Clients == {"registration", "presence", "events"}
<1>1. UNCHANGED <<father, hub, hand, filed, taken, link, keys, missed, fathers>>
  BY DEF Life!hubVars, Life!sessionVars, Life!Start, Life!InitRedis, Life!ListenFails, Life!Signal,
     Life!TakeRequest, Life!EndRequest, Life!Drained, Life!DrainTimesOut,
     Life!HubTimesOut, Life!CloseNext
<1>2a. at' \in [Servers -> {"down", "find", "insert", "wired", "built", "serving",
                           "draining", "stopping", "closing", "late", "failed"}]
  BY DEF Life!TypeOK, Life!Goto,
     Life!Start, Life!InitRedis, Life!ListenFails, Life!Signal,
     Life!TakeRequest, Life!EndRequest, Life!Drained, Life!DrainTimesOut,
     Life!HubTimesOut, Life!CloseNext
<1>2b. busy' \in [Servers -> BOOLEAN]
  BY DEF Life!TypeOK,
     Life!Start, Life!InitRedis, Life!ListenFails, Life!Signal,
     Life!TakeRequest, Life!EndRequest, Life!Drained, Life!DrainTimesOut,
     Life!HubTimesOut, Life!CloseNext
<1>2c. starts' \in 0 .. MaxStarts
  <2>1. CASE Life!Start(s)
    BY <2>1 DEF Life!Start, Life!TypeOK, Life!Parameters
  <2>2. CASE ~Life!Start(s)
    <3>1. starts' = starts
      BY <2>2 DEF Life!InitRedis, Life!ListenFails, Life!Signal,
         Life!TakeRequest, Life!EndRequest, Life!Drained, Life!DrainTimesOut,
         Life!HubTimesOut, Life!CloseNext
    <3> QED
      BY <3>1 DEF Life!TypeOK
  <2> QED
    BY <2>1, <2>2
<1>3. DOMAIN closes = Servers /\ \A t \in Servers : closes[t] \in Seq(Clients)
  BY DEF Life!TypeOK, LifeShape
<1>4. \A t \in Servers : closes'[t] \in Seq(Clients)
  <2>1. CASE Life!Start(s)
    <3>1. \/ closes' = closes
          \/ closes' = [closes EXCEPT ![s] = <<"registration">>]
      BY <2>1 DEF Life!Start
    <3>2. <<"registration">> \in Seq(Clients)
      OBVIOUS
    <3> HIDE DEF Clients
    <3> QED
      BY <1>3, <3>1, <3>2
  <2>2. CASE Life!InitRedis(s)
    <3>1. PICK tail \in {<<>>, <<"presence">>, <<"events">>, <<"presence", "events">>} :
            closes' = [closes EXCEPT ![s] = @ \o tail]
      BY <2>2 DEF Life!InitRedis
    <3>2. tail \in Seq(Clients)
      <4>1. /\ <<>> \in Seq(Clients) /\ <<"presence">> \in Seq(Clients)
            /\ <<"events">> \in Seq(Clients) /\ <<"presence", "events">> \in Seq(Clients)
        OBVIOUS
      <4> HIDE DEF Clients
      <4> QED
        BY <3>1, <4>1
    <3>3. closes[s] \o tail \in Seq(Clients)
      <4> HIDE DEF Clients
      <4> QED
        BY <1>3, <3>2
    <3> HIDE DEF Clients
    <3> QED
      BY <1>3, <3>1, <3>3
  <2>3. CASE Life!CloseNext(s)
    <3>1. closes[s] # <<>> /\ closes' = [closes EXCEPT ![s] = Life!Front(@)]
      BY <2>3 DEF Life!CloseNext
    <3>2. Life!Front(closes[s]) \in Seq(Clients)
      <4> HIDE DEF Clients
      <4>1. closes[s] \in Seq(Clients)
        BY <1>3
      <4>2. Len(closes[s]) \in Nat \ {0}
        BY <3>1, <4>1
      <4> QED
        BY <4>1, <4>2 DEF Life!Front
    <3> HIDE DEF Clients
    <3> QED
      BY <1>3, <3>1, <3>2
  <2>4. CASE ~(Life!Start(s) \/ Life!InitRedis(s) \/ Life!CloseNext(s))
    <3>1. closes' = closes
      BY <2>4 DEF Life!ListenFails, Life!Signal, Life!TakeRequest,
         Life!EndRequest, Life!Drained, Life!DrainTimesOut, Life!HubTimesOut
    <3> QED
      BY <1>3, <3>1
  <2> QED
    BY <2>1, <2>2, <2>3, <2>4
<1> QED
  BY <1>1, <1>2a, <1>2b, <1>2c, <1>4 DEF Life!TypeOK

LEMMA LifeTypes ==
  Life!Parameters /\ LifeInv /\ Life!TypeOK /\ [Life!Next]_(Life!vars) => Life!TypeOK'
<1> SUFFICES ASSUME Life!Parameters, LifeShape, HubFits, Life!TypeOK, [Life!Next]_(Life!vars)
             PROVE  Life!TypeOK'
  BY DEF LifeInv
<1>1. CASE UNCHANGED Life!vars
  BY <1>1 DEF Life!vars, Life!procVars, Life!hubVars, Life!sessionVars, Life!TypeOK
<1>2. ASSUME NEW s \in Servers,
             \/ Life!Start(s) \/ Life!InitRedis(s) \/ Life!ListenFails(s) \/ Life!Signal(s)
             \/ Life!TakeRequest(s) \/ Life!EndRequest(s) \/ Life!Drained(s)
             \/ Life!DrainTimesOut(s) \/ Life!HubTimesOut(s) \/ Life!CloseNext(s)
      PROVE  Life!TypeOK'
  BY <1>2, ProcessTypes
<1>3. ASSUME NEW s \in Servers, Life!StartFails(s) \/ Life!Exit(s) \/ Life!Kill(s)
      PROVE  Life!TypeOK'
  <2>1. /\ at' = [at EXCEPT ![s] = "down"]
        /\ closes' = [closes EXCEPT ![s] = <<>>]
        /\ father' = [father EXCEPT ![s] = None] /\ busy' = [busy EXCEPT ![s] = FALSE]
        /\ hub' = [hub EXCEPT ![s] = "off"] /\ hand' = [hand EXCEPT ![s] = None]
        /\ filed' \subseteq filed /\ taken' = [taken EXCEPT ![s] = {}]
        /\ link' = [c \in Conns |-> IF c \in Life!Of(s) THEN "none" ELSE link[c]]
        /\ \E left \in SUBSET Conns : missed' = missed \cup left
        /\ UNCHANGED <<keys, fathers, starts>>
    BY <1>3 DEF Life!StartFails, Life!Exit, Life!Kill, Life!End, Life!Goto, Life!Of
  <2>2. \A t \in Servers : closes'[t] \in Seq({"registration", "presence", "events"})
    BY <2>1 DEF Life!TypeOK, LifeShape
  <2> QED
    BY <2>1, <2>2 DEF Life!TypeOK
<1>4. ASSUME NEW s \in Servers, Life!FindFather(s) PROVE Life!TypeOK'
  <2> DEFINE found == {f.id : f \in {f \in fathers : f.type = Life!ChatTypeBot}}
  <2>1. found # {} => Life!Min(found) \in found
    <3> SUFFICES ASSUME found # {} PROVE Life!Min(found) \in found
      OBVIOUS
    <3>1. found \in SUBSET Nat
      BY DEF LifeShape
    <3> HIDE DEF found
    <3>2. \E n \in found : \A m \in found : n <= m
      BY <3>1, LeastNumber
    <3> QED
      BY <3>2 DEF Life!Min
  <2>2. found \subseteq {f.id : f \in fathers}
    OBVIOUS
  <2>3. father' = father \/ (found # {} /\ father' = [father EXCEPT ![s] = Life!Min(found)])
    BY <1>4 DEF Life!FindFather, Life!Goto
  <2> HIDE DEF found
  <2>4. father' \in [Servers -> {f.id : f \in fathers} \cup {None}]
    BY <2>1, <2>2, <2>3 DEF Life!TypeOK
  <2> QED
    BY <1>4, <2>4 DEF Life!TypeOK, Life!FindFather, Life!Goto, Life!hubVars, Life!sessionVars
<1>5. ASSUME NEW s \in Servers, Life!InsertFather(s) PROVE Life!TypeOK'
  <2>1. PICK id \in (1 .. MaxStarts) \ {f.id : f \in fathers} :
          /\ fathers' = fathers \cup {[id |-> id, type |-> Life!RecipientBot]}
          /\ father' = [father EXCEPT ![s] = id]
    BY <1>5 DEF Life!InsertFather
  <2>2. fathers' \subseteq Life!Row
    BY <2>1 DEF Life!TypeOK, Life!Row, Life!Parameters
  <2>3. father' \in [Servers -> {f.id : f \in fathers'} \cup {None}]
    <3> DEFINE row == [id |-> id, type |-> Life!RecipientBot]
    <3>1. row \in fathers' /\ row.id = id /\ \A f \in fathers : f \in fathers'
      BY <2>1
    <3> HIDE DEF row
    <3>2. /\ \A f \in fathers : f.id \in {g.id : g \in fathers'}
          /\ id \in {g.id : g \in fathers'}
      BY <3>1
    <3> QED
      BY <2>1, <3>2 DEF Life!TypeOK
  <2> QED
    BY <1>5, <2>2, <2>3 DEF Life!TypeOK, Life!InsertFather, Life!Goto, Life!hubVars,
       Life!sessionVars
<1>6. ASSUME NEW s \in Servers,
             \/ Life!Run(s) \/ Life!Insert(s) \/ Life!SetKey(s)
             \/ Life!CloseAll(s) \/ Life!HubStopped(s)
      PROVE  Life!TypeOK'
  <2>1. /\ UNCHANGED <<closes, father, busy, link, fathers, starts>>
        /\ at' \in [Servers -> {"down", "find", "insert", "wired", "built", "serving",
                                "draining", "stopping", "closing", "late", "failed"}]
        /\ hub' \in [Servers -> {"off", "select", "insert", "announce", "closing", "stopped"}]
        /\ hand' \in [Servers -> Conns \cup {None}]
    BY <1>6 DEF Life!TypeOK, Life!Run, Life!Insert, Life!SetKey, Life!CloseAll,
       Life!HubStopped, Life!Goto, Life!procVars, Life!sessionVars
  <2>2. /\ filed' \subseteq Conns /\ taken' \in [Servers -> SUBSET Conns]
        /\ keys' \subseteq Conns /\ missed' \subseteq Conns
    BY <1>6 DEF HubFits, Life!TypeOK, Life!Run, Life!Insert, Life!SetKey, Life!CloseAll,
       Life!HubStopped, Life!procVars, Life!sessionVars
  <2> QED
    BY <2>1, <2>2 DEF Life!TypeOK
<1>7. ASSUME NEW c \in Conns,
             Life!Register(c) \/ Life!Leave(c) \/ Life!RemoveKey(c) \/ Life!ExpireKey(c)
      PROVE  Life!TypeOK'
  <2>1. /\ UNCHANGED <<at, closes, father, busy, taken, fathers, starts>>
        /\ hub' \in [Servers -> {"off", "select", "insert", "announce", "closing", "stopped"}]
        /\ hand' \in [Servers -> Conns \cup {None}]
        /\ filed' \subseteq Conns /\ keys' \subseteq Conns /\ missed' \subseteq Conns
        /\ link' \in [Conns -> {"none", "live", "leaving", "over"}]
    BY <1>7 DEF Life!TypeOK, Life!Register, Life!Leave, Life!RemoveKey, Life!ExpireKey,
       Life!procVars, Life!hubVars
  <2> QED
    BY <2>1 DEF Life!TypeOK
<1> QED
  BY <1>1, <1>2, <1>3, <1>4, <1>5, <1>6, <1>7 DEF Life!Next, Life!StartSteps, Life!StopSteps

\* The state of the processes, of Redis and of the BotFather's rows has its
\* types: what initRedis and Close do to the list of closes included.
THEOREM ProcessTypeCorrect == ASSUME Life!Parameters PROVE Life!Spec => []Life!TypeOK
<1>1. Life!Init => Life!TypeOK
  <2> SUFFICES ASSUME Life!Init PROVE Life!TypeOK
    OBVIOUS
  <2>1. \A s \in Servers : closes[s] \in Seq({"registration", "presence", "events"})
    BY DEF Life!Init
  <2>2. starts \in 0 .. MaxStarts
    BY DEF Life!Init, Life!Parameters
  <2>3. fathers \subseteq Life!Row
    BY DEF Life!Init, Life!Row, Life!Parameters
  <2> QED
    BY <2>1, <2>2, <2>3 DEF Life!Init, Life!TypeOK
<1>2. LifeInv /\ Life!TypeOK /\ [Life!Next]_(Life!vars) => Life!TypeOK'
  BY LifeTypes
<1> QED
  BY <1>1, <1>2, LifeInvariant, PTL DEF Life!Spec

-----------------------------------------------------------------------------
(* Presence and rate limit of one server *)

\* An entry after MarkOnline, after MarkOffline and after its five minutes.
Marked(x, c) == [x EXCEPT !.fresh = TRUE, !.devices = @ \cup {c}]
Unmarked(x, c) ==
  [x EXCEPT !.devices = x.devices \ {c}, !.online = @ /\ x.devices \ {c} # {}]
Expired(x) == [x EXCEPT !.fresh = FALSE]

WithOnline(x, t) == [x EXCEPT !.online = t]
WithFresh(x, t) == [x EXCEPT !.fresh = t]
WithDevices(x, D) == [x EXCEPT !.devices = D]

LEMMA Fields ==
  ASSUME NEW x \in Local!States
  PROVE  /\ \A t \in BOOLEAN :
              /\ WithFresh(x, t) \in Local!States
              /\ WithFresh(x, t).online = x.online /\ WithFresh(x, t).devices = x.devices
         /\ \A t \in BOOLEAN :
              /\ WithOnline(x, t) \in Local!States
              /\ WithOnline(x, t).online = t /\ WithOnline(x, t).devices = x.devices
         /\ \A D \in SUBSET Conns :
              /\ WithDevices(x, D) \in Local!States
              /\ WithDevices(x, D).devices = D /\ WithDevices(x, D).online = x.online
BY DEF Local!States, WithOnline, WithFresh, WithDevices

LEMMA StatesStay ==
  ASSUME NEW x \in Local!States
  PROVE  /\ Expired(x) \in Local!States
         /\ Expired(x).online = x.online /\ Expired(x).devices = x.devices
         /\ \A c \in Conns :
              /\ Marked(x, c) \in Local!States /\ Marked(x, c).devices # {}
              /\ Unmarked(x, c) \in Local!States
              /\ Unmarked(x, c).online => Unmarked(x, c).devices # {}
<1>1. x.online \in BOOLEAN /\ x.devices \in SUBSET Conns
  BY DEF Local!States
<1>2. /\ Expired(x) \in Local!States
      /\ Expired(x).online = x.online /\ Expired(x).devices = x.devices
  <2>1. Expired(x) = WithFresh(x, FALSE)
    BY DEF Expired, WithFresh
  <2>2. \A f \in BOOLEAN : /\ WithFresh(x, f) \in Local!States
                          /\ WithFresh(x, f).online = x.online
                          /\ WithFresh(x, f).devices = x.devices
    BY Fields
  <2> QED
    BY <2>1, <2>2, Zenon
<1>3. ASSUME NEW c \in Conns
      PROVE  Marked(x, c) \in Local!States /\ Marked(x, c).devices # {}
  <2> DEFINE fresh == WithFresh(x, TRUE)
             more == x.devices \cup {c}
  <2>1. fresh \in Local!States /\ more \in SUBSET Conns /\ more # {}
    BY <1>1, Fields
  <2>2. Marked(x, c) = WithDevices(fresh, more)
    BY DEF Marked, WithDevices, WithFresh
  <2> HIDE DEF fresh, more
  <2> QED
    BY <2>1, <2>2, Fields
<1>4. ASSUME NEW c \in Conns
      PROVE  /\ Unmarked(x, c) \in Local!States
             /\ Unmarked(x, c).online => Unmarked(x, c).devices # {}
  <2> DEFINE left == x.devices \ {c}
             half == WithDevices(x, left)
             still == (x.online /\ left # {})
  <2>1. left \in SUBSET Conns /\ still \in BOOLEAN /\ (still => left # {})
    BY <1>1
  <2>2. half \in Local!States /\ half.devices = left
    BY <2>1, Fields
  <2>3. Unmarked(x, c) = WithOnline(half, still)
    BY DEF Unmarked, WithDevices, WithOnline
  <2> HIDE DEF left, half, still
  <2> QED
    BY <2>1, <2>2, <2>3, Fields
<1> QED
  BY <1>2, <1>3, <1>4

LocalInv ==
  /\ Local!TypeOK
  /\ \A u \in Users : presence[u] # None =>
       /\ presence[u] \in Local!States
       /\ presence[u].online => presence[u].devices # {}

LEMMA LocalInit == Local!Parameters /\ Local!Init => LocalInv
BY DEF Local!Parameters, Local!Init, LocalInv, Local!TypeOK, Local!IsOnline

\* An entry that is replaced by one of the same kind, or dropped.
LEMMA EntryStep ==
  ASSUME LocalInv, NEW u \in Users, NEW x \in Local!States \cup {None},
         x # None => (x.online => x.devices # {}),
         presence' = [presence EXCEPT ![u] = x]
  PROVE  /\ presence' \in [Users -> Local!States \cup {None}]
         /\ \A v \in Users : presence'[v] # None =>
              /\ presence'[v] \in Local!States
              /\ presence'[v].online => presence'[v].devices # {}
<1>1. presence \in [Users -> Local!States \cup {None}]
  BY DEF LocalInv, Local!TypeOK
<1>2. \A v \in Users : presence'[v] = IF v = u THEN x ELSE presence[v]
  BY <1>1
<1> QED
  BY <1>1, <1>2 DEF LocalInv

LEMMA MarkOnlineStep ==
  ASSUME Local!Parameters, LocalInv, NEW c \in Conns, Local!MarkOnline(c)
  PROVE  /\ presence' \in [Users -> Local!States \cup {None}]
         /\ \A v \in Users : presence'[v] # None =>
              /\ presence'[v] \in Local!States
              /\ presence'[v].online => presence'[v].devices # {}
<1> DEFINE u == UserOf[c]
           old == IF presence[u] = None THEN Local!NewState ELSE presence[u]
<1>1. u \in Users
  BY DEF Local!Parameters
<1>2. presence' = [presence EXCEPT ![u] = Marked(old, c)]
  BY DEF Local!MarkOnline, Marked
<1>3. old \in Local!States
  BY <1>1 DEF LocalInv, Local!States, Local!NewState
<1> HIDE DEF u, old
<1>4. Marked(old, c) \in Local!States /\ Marked(old, c).devices # {}
  BY <1>3, StatesStay
<1> QED
  BY <1>1, <1>2, <1>4, EntryStep

LEMMA MarkOfflineStep ==
  ASSUME Local!Parameters, LocalInv, NEW c \in Conns, Local!MarkOffline(c)
  PROVE  /\ presence' \in [Users -> Local!States \cup {None}]
         /\ \A v \in Users : presence'[v] # None =>
              /\ presence'[v] \in Local!States
              /\ presence'[v].online => presence'[v].devices # {}
<1> DEFINE u == UserOf[c]
           x == presence[u]
           new == Unmarked(x, c)
<1>1. u \in Users
  BY DEF Local!Parameters
<1>2. CASE x = None
  BY <1>2 DEF Local!MarkOffline, LocalInv, Local!TypeOK
<1>3. CASE x # None
  <2>1. presence' = [presence EXCEPT ![u] = new]
    BY <1>3 DEF Local!MarkOffline, Unmarked
  <2>2. x \in Local!States /\ (x.online => x.devices # {})
    BY <1>1, <1>3 DEF LocalInv
  <2>3. new \in Local!States /\ (new.online => new.devices # {})
    BY <2>2, StatesStay
  <2> HIDE DEF new, u, x
  <2> QED
    BY <1>1, <2>1, <2>3, EntryStep
<1> QED
  BY <1>2, <1>3

LEMMA LocalStep ==
  Local!Parameters /\ LocalInv /\ [Local!Next]_(Local!vars) => LocalInv'
<1> SUFFICES ASSUME Local!Parameters, LocalInv, [Local!Next]_(Local!vars) PROVE LocalInv'
  OBVIOUS
<1> DEFINE Kept == /\ presence' \in [Users -> Local!States \cup {None}]
                   /\ \A v \in Users : presence'[v] # None =>
                        /\ presence'[v] \in Local!States
                        /\ presence'[v].online => presence'[v].devices # {}
           Rest == /\ limits' \in [Users -> 0 .. MaxMsgs]
                   /\ pump' \in [Conns -> {"new", "reading", "frame", "marking", "over"}]
                   /\ torn' \in [Conns -> BOOLEAN]
<1>1. Kept /\ Rest => LocalInv'
  BY DEF LocalInv, Local!TypeOK, Local!IsOnline
<1>2. Local!TypeOK /\ (presence' = presence => Kept)
  BY DEF LocalInv, Local!TypeOK
<1>3. CASE UNCHANGED Local!vars
  BY <1>1, <1>2, <1>3 DEF Local!vars, Local!TypeOK
<1>4. ASSUME NEW c \in Conns, Local!Start(c) \/ Local!Mark(c) PROVE LocalInv'
  <2>1. Kept
    BY <1>4, MarkOnlineStep DEF Local!Start, Local!Mark
  <2>2. Rest
    BY <1>2, <1>4 DEF Local!Start, Local!Mark, Local!TypeOK
  <2> QED
    BY <1>1, <2>1, <2>2
<1>5. ASSUME NEW c \in Conns, Local!Teardown(c) PROVE LocalInv'
  <2>1. Kept
    BY <1>5, MarkOfflineStep DEF Local!Teardown
  <2>2. Rest
    BY <1>2, <1>5 DEF Local!Teardown, Local!TypeOK
  <2> QED
    BY <1>1, <2>1, <2>2
<1>6. ASSUME NEW c \in Conns, Local!Receive(c) \/ Local!Limited(c) \/ Local!PumpEnds(c)
      PROVE  LocalInv'
  BY <1>1, <1>2, <1>6 DEF Local!Receive, Local!Limited, Local!PumpEnds, Local!TypeOK
<1>7. ASSUME NEW c \in Conns, Local!Allowed(c) PROVE LocalInv'
  <2>1. UserOf[c] \in Users /\ MaxMsgs \in Nat
    BY DEF Local!Parameters
  <2>2. limits' \in [Users -> 0 .. MaxMsgs]
    BY <1>2, <1>7, <2>1 DEF Local!Allowed, Local!Allow, Local!TypeOK
  <2> QED
    BY <1>1, <1>2, <1>7, <2>2 DEF Local!Allowed, Local!TypeOK
<1>8. ASSUME NEW u \in Users, Local!WindowPasses(u) PROVE LocalInv'
  <2>1. limits' \in [Users -> 0 .. MaxMsgs]
    BY <1>2, <1>8 DEF Local!WindowPasses, Local!TypeOK, Local!Parameters
  <2> QED
    BY <1>1, <1>2, <1>8, <2>1 DEF Local!WindowPasses, Local!TypeOK
<1>9. ASSUME NEW u \in Users, Local!Expire(u) PROVE LocalInv'
  <2> SUFFICES ASSUME NEW x, x = presence[u] PROVE LocalInv'
    OBVIOUS
  <2>1. x \in Local!States /\ (x.online => x.devices # {})
    BY <1>9 DEF Local!Expire, LocalInv
  <2> DEFINE new == Expired(x)
  <2>2. presence' = [presence EXCEPT ![u] = new]
    BY <1>2, <1>9 DEF Local!Expire, Local!TypeOK, Expired
  <2>4. new \in Local!States /\ (new.online => new.devices # {})
    BY <2>1, StatesStay
  <2> HIDE DEF new
  <2>5. Kept
    BY <2>2, <2>4, EntryStep
  <2>6. Rest
    BY <1>2, <1>9 DEF Local!Expire, Local!TypeOK
  <2> QED
    BY <1>1, <2>5, <2>6
<1>10. CASE Local!CleanPresence
  <2>1. \A v \in Users : presence'[v] \in {None, presence[v]}
    BY <1>10 DEF Local!CleanPresence
  <2>2. presence' = [v \in Users |-> presence'[v]]
    BY <1>10 DEF Local!CleanPresence
  <2>3. Kept
    BY <1>2, <2>1, <2>2 DEF LocalInv, Local!TypeOK
  <2>4. Rest
    BY <1>2, <1>10 DEF Local!CleanPresence, Local!TypeOK
  <2> QED
    BY <1>1, <2>3, <2>4
<1> QED
  BY <1>3, <1>4, <1>5, <1>6, <1>7, <1>8, <1>9, <1>10 DEF Local!Next, Local!PumpSteps

\* The maps of presence and of the rate limit keep their types: whoever counts
\* as online has a device, and no window counts more messages than allowed,
\* however the marks of read pumps, teardowns and the cleanup fall.
THEOREM LocalPresenceTypes ==
  ASSUME Local!Parameters
  PROVE  Local!Spec => []Local!TypeOK
<1>1. Local!Init => LocalInv
  BY LocalInit
<1>2. LocalInv /\ [Local!Next]_(Local!vars) => LocalInv'
  BY LocalStep
<1>3. LocalInv => Local!TypeOK
  BY DEF LocalInv
<1> QED
  BY <1>1, <1>2, <1>3, PTL DEF Local!Spec

-----------------------------------------------------------------------------
(* Whom the server lets in *)

\* What the loop of normalizeRedisAddresses has appended after one text more.
AfterText(text, before) ==
  IF Admit!Trim(text) = "" THEN before ELSE Append(before, Admit!Trim(text))

\* What it has appended after each of n texts.
Appended(texts, n, f) ==
  f = [i \in 0 .. n |-> IF i = 0 THEN <<>> ELSE AfterText(texts[i], f[i - 1])]

LEMMA AppendedSteps ==
  ASSUME NEW texts, NEW n \in Nat, NEW f, Appended(texts, n, f)
  PROVE  f[0] = <<>> /\ \A i \in 1 .. n : f[i] = AfterText(texts[i], f[i - 1])
<1>1. \A i \in 0 .. n : f[i] = IF i = 0 THEN <<>> ELSE AfterText(texts[i], f[i - 1])
  BY Zenon DEF Appended
<1>2. 0 \in 0 .. n /\ \A i \in 1 .. n : i \in 0 .. n /\ i # 0
  OBVIOUS
<1> QED
  BY <1>1, <1>2, Zenon

\* The loop comes to an end.
LEMMA AppendedExists ==
  ASSUME NEW texts
  PROVE  \A n \in Nat : \E f : Appended(texts, n, f)
<1> DEFINE S == {n \in Nat : ~ \E f : Appended(texts, n, f)}
<1> SUFFICES ASSUME S # {} PROVE FALSE
  OBVIOUS
<1>1. PICK n \in S : \A m \in S : n <= m
  <2> HIDE DEF S
  <2>1. S \in SUBSET Nat
    BY DEF S
  <2> QED
    BY <2>1, LeastNumber
<1>2. n # 0
  <2> DEFINE g == [i \in 0 .. 0 |-> <<>>]
             h == [i \in 0 .. 0 |-> IF i = 0 THEN <<>> ELSE AfterText(texts[i], g[i - 1])]
  <2>1. \A i \in 0 .. 0 : i = 0
    OBVIOUS
  <2>2. g = h
    BY <2>1, Zenon
  <2>3. Appended(texts, 0, g)
    BY <2>2 DEF Appended
  <2> QED
    BY <2>3
<1>3. n \in Nat /\ n - 1 \in Nat /\ n - 1 \notin S
  BY <1>1, <1>2
<1>4. PICK f : Appended(texts, n - 1, f)
  BY <1>3
<1> DEFINE last == AfterText(texts[n], f[n - 1])
           g == [i \in 0 .. n |-> IF i = n THEN last ELSE f[i]]
           h == [i \in 0 .. n |-> IF i = 0 THEN <<>> ELSE AfterText(texts[i], g[i - 1])]
<1>5. f[0] = <<>> /\ \A i \in 1 .. n - 1 : f[i] = AfterText(texts[i], f[i - 1])
  BY <1>3, <1>4, AppendedSteps
<1> HIDE DEF last
<1>6. \A i \in 0 .. n : g[i] = IF i = n THEN last ELSE f[i]
  OBVIOUS
<1>7. \A i \in 0 .. n : h[i] = IF i = 0 THEN <<>> ELSE AfterText(texts[i], g[i - 1])
  BY Zenon
<1>8. g = h
  <2> SUFFICES ASSUME NEW i \in 0 .. n PROVE g[i] = h[i]
    BY Zenon
  <2>1. CASE i = 0
    <3>1. i # n
      BY <1>2, <2>1
    <3> HIDE DEF g, h
    <3> QED
      BY <1>5, <1>6, <1>7, <2>1, <3>1, Zenon
  <2>2. CASE i # 0
    <3>1. i - 1 \in 0 .. n /\ i - 1 # n
      BY <1>3, <2>2
    <3>2. g[i - 1] = f[i - 1]
      <4> HIDE DEF g, h
      <4> QED
        BY <1>6, <3>1, Zenon
    <3>3. h[i] = AfterText(texts[i], f[i - 1])
      <4> HIDE DEF g, h
      <4> QED
        BY <1>7, <2>2, <3>2, Zenon
    <3>4. CASE i = n
      <4> HIDE DEF g, h
      <4> QED
        BY <1>6, <3>3, <3>4, Zenon DEF last
    <3>5. CASE i # n
      <4>1. i \in 1 .. n - 1
        BY <1>3, <2>2, <3>5
      <4> HIDE DEF g, h
      <4> QED
        BY <1>5, <1>6, <3>3, <3>5, <4>1, Zenon
    <3> QED
      BY <3>4, <3>5
  <2> QED
    BY <2>1, <2>2
<1>9. Appended(texts, n, g)
  BY <1>8 DEF Appended
<1> QED
  BY <1>1, <1>9

\* Trimmed is where that loop ends.
LEMMA TrimmedIsAppended ==
  ASSUME NEW T, NEW texts \in Seq(T)
  PROVE  \E f : /\ Admit!Trimmed(texts) = f[Len(texts)]
                /\ f[0] = <<>>
                /\ \A i \in 1 .. Len(texts) : f[i] = AfterText(texts[i], f[i - 1])
<1>1. Len(texts) \in Nat
  OBVIOUS
<1>2. \E f : Appended(texts, Len(texts), f)
  BY <1>1, AppendedExists
<1> DEFINE F == CHOOSE f : Appended(texts, Len(texts), f)
<1>3. Appended(texts, Len(texts), F)
  BY <1>2
<1>4. Admit!Trimmed(texts) = F[Len(texts)]
  BY Zenon DEF Appended, AfterText, Admit!Trimmed
<1> HIDE DEF F
<1> QED
  BY <1>1, <1>3, <1>4, AppendedSteps

LEMMA TrimOfBlank == Admit!Trim("blank") = "" /\ Admit!Trim("padded *") = "*"
  BY "blank" # "padded *" DEF Admit!Trim

\* What is trimmed stays as it is.
LEMMA TrimTwice ==
  ASSUME NEW text
  PROVE  Admit!Trim(Admit!Trim(text)) = Admit!Trim(text)
<1>1. Admit!Trim("blank") = "" /\ Admit!Trim("padded *") = "*"
  BY TrimOfBlank, Zenon
<1>2. Admit!Trim("") = "" /\ Admit!Trim("*") = "*"
  BY DEF Admit!Trim
<1>3. CASE text = "blank"
  BY <1>1, <1>2, <1>3, Zenon
<1>4. CASE text = "padded *"
  BY <1>1, <1>2, <1>4, Zenon
<1>5. CASE text # "blank" /\ text # "padded *"
  BY <1>5, Zenon DEF Admit!Trim
<1> QED
  BY <1>3, <1>4, <1>5, Zenon

\* A text as strings.TrimSpace leaves it, and not blank.
IsKept(text) == text # "" /\ Admit!Trim(text) = text

LEMMA AppendInSeq ==
  ASSUME NEW K, NEW before \in Seq(K), NEW more \in K
  PROVE  Append(before, more) \in Seq(K)
  OBVIOUS

\* One text more is appended trimmed, or not at all.
LEMMA AfterTextKept ==
  ASSUME NEW K, NEW before \in Seq(K), NEW text,
         Admit!Trim(text) # "" => Admit!Trim(text) \in K
  PROVE  AfterText(text, before) \in Seq(K)
<1>1. CASE Admit!Trim(text) = ""
  BY <1>1, Zenon DEF AfterText
<1>2. CASE Admit!Trim(text) # ""
  BY <1>2, AppendInSeq, Zenon DEF AfterText
<1> QED
  BY <1>1, <1>2, Zenon

\* Every trimmed text is one of the texts, trimmed, and is not empty.
LEMMA TrimmedTexts ==
  ASSUME NEW T, NEW texts \in Seq(T)
  PROVE  /\ Admit!Trimmed(texts) \in Seq({Admit!Trim(text) : text \in T})
         /\ \A j \in 1 .. Len(Admit!Trimmed(texts)) :
              /\ IsKept(Admit!Trimmed(texts)[j])
              /\ \E i \in 1 .. Len(texts) : Admit!Trimmed(texts)[j] = Admit!Trim(texts[i])
<1> DEFINE n == Len(texts)
           T2 == {Admit!Trim(text) : text \in T}
           K == {Admit!Trim(texts[i]) : i \in {i \in 1 .. n : Admit!Trim(texts[i]) # ""}}
<1>1. n \in Nat /\ \A i \in 1 .. n : texts[i] \in T
  OBVIOUS
<1>2. PICK f : /\ Admit!Trimmed(texts) = f[n] /\ f[0] = <<>>
               /\ \A i \in 1 .. n : f[i] = AfterText(texts[i], f[i - 1])
  BY TrimmedIsAppended
<1> HIDE DEF n
<1>3. \A text \in K : /\ IsKept(text)
                     /\ \E i \in 1 .. n : text = Admit!Trim(texts[i])
  <2> SUFFICES ASSUME NEW i \in 1 .. n, Admit!Trim(texts[i]) # ""
               PROVE  IsKept(Admit!Trim(texts[i]))
    BY Zenon
  <2> QED
    BY <1>1, TrimTwice, Zenon DEF IsKept
<1>4. \A i \in 1 .. n : Admit!Trim(texts[i]) # "" => Admit!Trim(texts[i]) \in K
  BY Zenon
<1> HIDE DEF K
<1>5. f[n] \in Seq(K)
  <2> DEFINE S == {i \in 0 .. n : f[i] \notin Seq(K)}
  <2>1. S \in SUBSET Nat
    BY <1>1
  <2>2. n \in 0 .. n
    BY <1>1
  <2> SUFFICES ASSUME S # {} PROVE FALSE
    BY <2>2
  <2>3. PICK i \in S : \A j \in S : i <= j
    <3> HIDE DEF S
    <3> QED
      BY <2>1, LeastNumber
  <2>4. i # 0
    <3>1. <<>> \in Seq(K)
      OBVIOUS
    <3> QED
      BY <1>2, <3>1, Zenon
  <2>5. i \in 1 .. n /\ i - 1 \in 0 .. n
    BY <1>1, <2>4
  <2>6. f[i - 1] \in Seq(K)
    <3>1. i - 1 \notin S
      <4>1. i \in Nat /\ ~ (i <= i - 1)
        BY <2>5
      <4> QED
        BY <2>3, <4>1, Zenon
    <3> QED
      BY <2>5, <3>1, Zenon
  <2>7. f[i] \in Seq(K)
    BY <1>2, <1>4, <2>5, <2>6, AfterTextKept, Zenon
  <2> QED
    BY <2>7
<1>6. f[n] \in Seq(T2) /\ \A j \in 1 .. Len(f[n]) : f[n][j] \in K
  <2>1. K \subseteq T2
    BY <1>1, Zenon DEF K
  <2> HIDE DEF T2
  <2> QED
    BY <1>5, <2>1
<1> QED
  BY <1>2, <1>3, <1>6, Zenon DEF n

\* Texts that are trimmed and not blank stay as they are.
LEMMA TrimmedStays ==
  ASSUME NEW T, NEW texts \in Seq(T), \A i \in 1 .. Len(texts) : IsKept(texts[i])
  PROVE  Admit!Trimmed(texts) = texts
<1> DEFINE n == Len(texts)
<1>1. n \in Nat /\ \A i \in 1 .. n : texts[i] \in T
  OBVIOUS
<1>2. PICK f : /\ Admit!Trimmed(texts) = f[n] /\ f[0] = <<>>
               /\ \A i \in 1 .. n : f[i] = AfterText(texts[i], f[i - 1])
  BY TrimmedIsAppended
<1>3. \A i \in 1 .. n : f[i] = Append(f[i - 1], texts[i])
  BY <1>2, Zenon DEF AfterText, IsKept
<1> DEFINE S == {i \in 0 .. n : f[i] # SubSeq(texts, 1, i)}
<1>4. f[n] = SubSeq(texts, 1, n)
  <2>1. S \in SUBSET Nat /\ n \in 0 .. n
    BY <1>1
  <2> SUFFICES ASSUME S # {} PROVE FALSE
    BY <2>1
  <2>2. PICK i \in S : \A j \in S : i <= j
    <3> HIDE DEF S
    <3> QED
      BY <2>1, LeastNumber
  <2> HIDE DEF n
  <2>3. i # 0
    <3>1. SubSeq(texts, 1, 0) = <<>>
      OBVIOUS
    <3> QED
      BY <1>2, <3>1
  <2>4. i \in 1 .. n /\ i - 1 \in 0 .. n
    BY <1>1, <2>3
  <2>5. f[i - 1] = SubSeq(texts, 1, i - 1)
    BY <2>2, <2>4
  <2>6. SubSeq(texts, 1, i) = Append(SubSeq(texts, 1, i - 1), texts[i])
    BY <1>1, <2>4 DEF n
  <2> QED
    BY <1>3, <2>4, <2>5, <2>6, Zenon
<1>5. SubSeq(texts, 1, n) = texts
  OBVIOUS
<1> QED
  BY <1>2, <1>4, <1>5

\* The addresses that RedisConfiguration.Normalized arrives at.
Addresses(redis) ==
  IF Admit!Trimmed(redis.addresses) = <<>> /\ Admit!Trim(redis.address) # ""
  THEN <<Admit!Trim(redis.address)>>
  ELSE Admit!Trimmed(redis.addresses)

\* The mode it arrives at with these addresses.
ModeOf(mode, addresses) ==
  IF mode # "" THEN mode ELSE IF Len(addresses) > 1 THEN "cluster" ELSE "single"

LEMMA NormalizedShape ==
  ASSUME NEW mode1, NEW addresses1, NEW address1, NEW master1, NEW redis,
         redis = [mode |-> mode1, addresses |-> addresses1, address |-> address1, master |-> master1]
  PROVE  Admit!NormalizedRedis(redis) =
           [mode |-> ModeOf(redis.mode, Addresses(redis)), addresses |-> Addresses(redis),
            address |-> redis.address, master |-> redis.master]
<1> DEFINE addresses == Addresses(redis)
           mode == ModeOf(redis.mode, addresses)
           between == [mode |-> mode1, addresses |-> addresses, address |-> address1,
                       master |-> master1]
<1>1. Admit!NormalizedRedis(redis) = [redis EXCEPT !.addresses = addresses, !.mode = mode]
  BY Zenon DEF Admit!NormalizedRedis, Addresses, ModeOf
<1> HIDE DEF addresses, mode
<1>2. [redis EXCEPT !.addresses = addresses, !.mode = mode] =
        [[redis EXCEPT !.addresses = addresses] EXCEPT !.mode = mode]
  OBVIOUS
<1>3. [redis EXCEPT !.addresses = addresses] = between
  OBVIOUS
<1>4. [between EXCEPT !.mode = mode] =
        [mode |-> mode, addresses |-> addresses, address |-> address1, master |-> master1]
  OBVIOUS
<1>5. redis.address = address1 /\ redis.master = master1
  OBVIOUS
<1> HIDE DEF between
<1> QED
  BY <1>1, <1>2, <1>3, <1>4, <1>5, Zenon DEF addresses, mode

LEMMA OneText ==
  ASSUME NEW text
  PROVE  <<text>> \in Seq({text}) /\ \A j \in 1 .. Len(<<text>>) : <<text>>[j] = text
<1>1. <<text>> \in Seq({text})
  OBVIOUS
<1>2. \A j \in 1 .. Len(<<text>>) : <<text>>[j] = text
  OBVIOUS
<1> QED
  BY <1>1, <1>2

\* The addresses of a normalised configuration are kept texts.
LEMMA AddressesAreKept ==
  ASSUME NEW T, NEW redis, redis.addresses \in Seq(T)
  PROVE  \E K : /\ Addresses(redis) \in Seq(K)
                /\ \A j \in 1 .. Len(Addresses(redis)) : IsKept(Addresses(redis)[j])
<1> DEFINE trimmed == Admit!Trimmed(redis.addresses)
           only == Admit!Trim(redis.address)
<1>1. CASE trimmed = <<>> /\ only # ""
  <2>1. Addresses(redis) = <<only>>
    BY <1>1, Zenon DEF Addresses
  <2>2. IsKept(only)
    BY <1>1, TrimTwice, Zenon DEF IsKept
  <2> HIDE DEF only
  <2> QED
    BY <2>1, <2>2, OneText, Zenon
<1>2. CASE ~ (trimmed = <<>> /\ only # "")
  <2>1. Addresses(redis) = trimmed
    BY <1>2, Zenon DEF Addresses
  <2> DEFINE K == {Admit!Trim(text) : text \in T}
  <2>2. /\ trimmed \in Seq(K)
        /\ \A j \in 1 .. Len(trimmed) : IsKept(trimmed[j])
    BY TrimmedTexts, Zenon
  <2> HIDE DEF K, trimmed
  <2> QED
    BY <2>1, <2>2
<1> QED
  BY <1>1, <1>2, Zenon

\* To normalise the configuration of Redis again changes nothing, as long as
\* it has an address.
LEMMA NormalizedTwice ==
  ASSUME NEW M, NEW T, NEW B, NEW C,
         NEW redis \in [mode : M, addresses : Seq(T), address : B, master : C],
         Addresses(redis) # <<>>
  PROVE  Admit!NormalizedRedis(Admit!NormalizedRedis(redis)) = Admit!NormalizedRedis(redis)
<1> DEFINE once == Admit!NormalizedRedis(redis)
           addresses == Addresses(redis)
           mode == ModeOf(redis.mode, addresses)
<1>1. once = [mode |-> mode, addresses |-> addresses, address |-> redis.address,
              master |-> redis.master]
  BY NormalizedShape
<1>2. Admit!Trimmed(addresses) = addresses
  <2>1. redis.addresses \in Seq(T)
    OBVIOUS
  <2> QED
    BY <2>1, AddressesAreKept, TrimmedStays, Zenon
<1>3. mode # ""
  <2> HIDE DEF addresses
  <2>1. CASE redis.mode # ""
    BY <2>1, Zenon DEF ModeOf
  <2>2. CASE redis.mode = ""
    <3>1. "cluster" # "" /\ "single" # ""
      OBVIOUS
    <3> QED
      BY <2>2, <3>1, Zenon DEF ModeOf
  <2> QED
    BY <2>1, <2>2, Zenon
<1> HIDE DEF addresses, mode, once
<1>5. once.addresses = addresses /\ once.mode = mode
  BY <1>1
<1>6. Addresses(once) = addresses
  <2>1. addresses # <<>>
    BY DEF addresses
  <2> QED
    BY <1>2, <1>5, <2>1, Zenon DEF Addresses
<1>7. ModeOf(once.mode, addresses) = mode
  BY <1>3, <1>5, Zenon DEF ModeOf
<1>8. Admit!NormalizedRedis(once) =
        [mode |-> mode, addresses |-> addresses, address |-> once.address, master |-> once.master]
  <2>1. Admit!NormalizedRedis(once) =
          [mode |-> ModeOf(once.mode, Addresses(once)), addresses |-> Addresses(once),
           address |-> once.address, master |-> once.master]
    BY <1>1, NormalizedShape
  <2> QED
    BY <1>6, <1>7, <2>1, Zenon
<1>9. once.address = redis.address /\ once.master = redis.master
  BY <1>1
<1> QED
  BY <1>1, <1>8, <1>9, Zenon DEF once

\* The configuration LoadConfig makes of the file.
Loaded == [file EXCEPT !.redis = Admit!NormalizedRedis(@), !.max = Admit!NormalizedMax(@)]

RedisTexts == [mode : STRING, addresses : Seq(STRING), address : STRING, master : STRING]

LEMMA LoadedFields ==
  ASSUME Admit!Parameters, file \in Files
  PROVE  /\ file.redis \in RedisTexts /\ file.max \in Int /\ file.origins \in Seq(STRING)
         /\ Loaded.redis = Admit!NormalizedRedis(file.redis)
         /\ Loaded.max = Admit!NormalizedMax(file.max)
         /\ Loaded.origins = file.origins
<1>1. file \in [secret : STRING, database : BOOLEAN, redis : RedisTexts, max : Int,
                origins : Seq(STRING), tokenQuery : STRING, legacy : BOOLEAN]
  BY Zenon DEF Admit!Parameters, RedisTexts
<1>2. file.redis \in RedisTexts /\ file.max \in Int /\ file.origins \in Seq(STRING)
  BY <1>1
<1> DEFINE redis == Admit!NormalizedRedis(file.redis)
           max == Admit!NormalizedMax(file.max)
<1>3. Loaded = [file EXCEPT !.redis = redis, !.max = max]
  BY DEF Loaded
<1> HIDE DEF redis, max
<1>4. /\ [file EXCEPT !.redis = redis, !.max = max].redis = redis
      /\ [file EXCEPT !.redis = redis, !.max = max].max = max
      /\ [file EXCEPT !.redis = redis, !.max = max].origins = file.origins
  BY <1>1
<1> QED
  BY <1>2, <1>3, <1>4 DEF redis, max

\* The client of a configuration that is valid.
LEMMA ClientOfValid ==
  ASSUME Admit!Parameters, file \in Files, Admit!Valid(Loaded)
  PROVE  /\ Admit!NormalizedRedis(Loaded.redis) = Loaded.redis
         /\ Loaded.redis.addresses # <<>>
         /\ \/ Admit!Client(Loaded.redis) = Loaded.redis.mode
            \/ Loaded.redis.mode \notin {"single", "cluster", "sentinel"}
            \/ Loaded.redis.mode # "sentinel" /\ Loaded.redis.master # ""
            \/ Loaded.redis.mode = "cluster" /\ Len(Loaded.redis.addresses) = 1
<1> DEFINE from == file.redis
           redis == Loaded.redis
<1>1. from \in RedisTexts /\ redis = Admit!NormalizedRedis(from)
  BY LoadedFields
<1>2. redis.addresses # <<>>
  BY Zenon DEF Admit!Valid
<1> HIDE DEF from, redis
<1>3. redis.addresses = Addresses(from)
  <2>1. from = [mode |-> from.mode, addresses |-> from.addresses, address |-> from.address,
                master |-> from.master]
    BY <1>1 DEF RedisTexts
  <2>2. redis = [mode |-> ModeOf(from.mode, Addresses(from)), addresses |-> Addresses(from),
                 address |-> from.address, master |-> from.master]
    BY <1>1, <2>1, NormalizedShape
  <2> QED
    BY <2>2
<1>4. Admit!NormalizedRedis(redis) = redis
  BY <1>1, <1>2, <1>3, NormalizedTwice DEF RedisTexts
<1>5. Len(redis.addresses) \in Nat \ {0}
  <2>1. from.addresses \in Seq(STRING)
    BY <1>1 DEF RedisTexts
  <2>2. PICK K : redis.addresses \in Seq(K)
    BY <1>3, <2>1, AddressesAreKept
  <2> QED
    BY <1>2, <2>2
<1>6. /\ ~ (redis.mode = "single" /\ Len(redis.addresses) > 1)
      /\ redis.mode = "sentinel" => Admit!Trim(redis.master) # ""
  BY Zenon DEF Admit!Valid, redis
<1>7. redis.mode = "sentinel" => redis.master # ""
  <2>1. Admit!Trim("") = ""
    BY DEF Admit!Trim
  <2> QED
    BY <1>6, <2>1, Zenon
<1> DEFINE many == Len(redis.addresses) > 1
<1>8. many \/ Len(redis.addresses) = 1
  <2>1. \A k \in Nat \ {0} : k > 1 \/ k = 1
    OBVIOUS
  <2> QED
    BY <1>5, <2>1, Zenon
<1>9. Admit!Client(redis) = IF redis.master # "" THEN "sentinel"
                            ELSE IF many THEN "cluster" ELSE "single"
  BY Zenon DEF Admit!Client
<1> HIDE DEF many
<1>10. \/ Admit!Client(redis) = redis.mode
       \/ redis.mode \notin {"single", "cluster", "sentinel"}
       \/ redis.mode # "sentinel" /\ redis.master # ""
       \/ redis.mode = "cluster" /\ Len(redis.addresses) = 1
  <2>1. CASE redis.mode = "single"
    <3>1. "single" # "sentinel"
      OBVIOUS
    <3> QED
      BY <1>6, <1>9, <2>1, <3>1, Zenon DEF many
  <2>2. CASE redis.mode = "cluster"
    <3>1. "cluster" # "sentinel"
      OBVIOUS
    <3> QED
      BY <1>8, <1>9, <2>2, <3>1, Zenon
  <2>3. CASE redis.mode = "sentinel"
    BY <1>7, <1>9, <2>3, Zenon
  <2> QED
    BY <2>1, <2>2, <2>3, Zenon
<1> QED
  BY <1>2, <1>4, <1>10, Zenon DEF redis

LEMMA TwoTexts ==
  ASSUME NEW one, NEW other
  PROVE  <<one, other>> \in Seq({one, other})
  OBVIOUS

LEMMA SeqElements ==
  ASSUME NEW T, NEW s \in Seq(T)
  PROVE  DOMAIN s = 1 .. Len(s) /\ \A i \in 1 .. Len(s) : s[i] \in T
  OBVIOUS

\* An origin that is allowed was listed, and is not taken for all.
LEMMA AllowedWasListed ==
  ASSUME NEW c, NEW origins, origins \in Seq(STRING), c.origins = origins, Admit!Valid(c),
         NEW origin, Admit!Allow(c, origin), Admit!Trim(origin) # ""
  PROVE  /\ Admit!Trim(origin) # "*"
         /\ \/ \E i \in DOMAIN origins : Admit!Trim(origins[i]) = Admit!Trim(origin)
            \/ /\ Admit!Trimmed(origins) = <<>>
               /\ origin \in {"http://localhost:3000", "http://127.0.0.1:3000"}
<1> DEFINE text == Admit!Trim(origin)
           trimmed == Admit!Trimmed(origins)
           defaults == <<"http://localhost:3000", "http://127.0.0.1:3000">>
           resolved == Admit!ResolvedAllowOrigins(origins)
           T == {Admit!Trim(t) : t \in STRING}
<1>1. PICK j \in DOMAIN Admit!Trimmed(resolved) : text = Admit!Trimmed(resolved)[j]
  BY Zenon DEF Admit!Allow, Admit!ToSet
<1>2. /\ trimmed \in Seq(T)
      /\ \A k \in 1 .. Len(trimmed) :
           IsKept(trimmed[k]) /\ \E i \in 1 .. Len(origins) : trimmed[k] = Admit!Trim(origins[i])
  BY TrimmedTexts, Zenon
<1>3. DOMAIN origins = 1 .. Len(origins)
  BY SeqElements, Zenon
<1>4. \A i \in DOMAIN origins : Admit!Trim(origins[i]) # "*"
  BY Zenon DEF Admit!Valid
<1>5. CASE trimmed # <<>>
  <2>1. resolved = trimmed
    BY <1>5, Zenon DEF Admit!ResolvedAllowOrigins
  <2>2. Admit!Trimmed(resolved) = trimmed
    BY <1>2, <2>1, TrimmedStays, Zenon
  <2>3. DOMAIN trimmed = 1 .. Len(trimmed)
    BY <1>2, SeqElements, Zenon
  <2> HIDE DEF text, trimmed, resolved, T
  <2>4. PICK i \in 1 .. Len(origins) : text = Admit!Trim(origins[i])
    BY <1>1, <1>2, <2>2, <2>3, Zenon
  <2> QED
    BY <1>3, <1>4, <2>4, Zenon DEF text
<1>6. CASE trimmed = <<>>
  <2>1. resolved = defaults
    BY <1>6, Zenon DEF Admit!ResolvedAllowOrigins
  <2> DEFINE D == {"http://localhost:3000", "http://127.0.0.1:3000"}
  <2>2. defaults \in Seq(D)
    BY TwoTexts, Zenon
  <2>3. PICK i \in 1 .. Len(defaults) : text = Admit!Trim(defaults[i])
    <3> DEFINE TD == {Admit!Trim(t) : t \in D}
    <3>1. /\ Admit!Trimmed(defaults) \in Seq(TD)
          /\ \A k \in 1 .. Len(Admit!Trimmed(defaults)) :
               \E i \in 1 .. Len(defaults) :
                 Admit!Trimmed(defaults)[k] = Admit!Trim(defaults[i])
      BY <2>2, TrimmedTexts, Zenon
    <3>2. DOMAIN Admit!Trimmed(defaults) = 1 .. Len(Admit!Trimmed(defaults))
      BY <3>1, SeqElements, Zenon
    <3> HIDE DEF TD, defaults, text, resolved
    <3> QED
      BY <1>1, <2>1, <3>1, <3>2, Zenon
  <2>4. defaults[i] \in D
    BY <2>2, SeqElements, Zenon
  <2>5. \A d \in D : d # "blank" /\ d # "padded *" /\ d # "" /\ d # "*"
    <3>1. /\ "http://localhost:3000" # "blank" /\ "http://127.0.0.1:3000" # "blank"
          /\ "http://localhost:3000" # "padded *" /\ "http://127.0.0.1:3000" # "padded *"
      BY Zenon
    <3>2. /\ "http://localhost:3000" # "" /\ "http://127.0.0.1:3000" # ""
          /\ "http://localhost:3000" # "*" /\ "http://127.0.0.1:3000" # "*"
      BY Zenon
    <3> QED
      BY <3>1, <3>2, Zenon
  <2>6. text \in D
    <3> HIDE DEF defaults, D
    <3>1. Admit!Trim(defaults[i]) = defaults[i]
      BY <2>4, <2>5, Zenon DEF Admit!Trim
    <3> QED
      BY <2>3, <2>4, <3>1, Zenon
  <2>7. text # "*" /\ origin = text
    <3> HIDE DEF D
    <3>1. Admit!Trim("blank") = "" /\ Admit!Trim("padded *") = "*"
      BY TrimOfBlank, Zenon
    <3>2. CASE origin # "blank" /\ origin # "padded *"
      BY <2>5, <2>6, <3>2, Zenon DEF Admit!Trim
    <3> QED
      BY <2>5, <2>6, <3>1, <3>2, Zenon
  <2> QED
    BY <1>6, <2>6, <2>7, Zenon
<1> QED
  BY <1>5, <1>6, Zenon

\* Whoever sends a token as Bearer is the same user on the socket as on the
\* routes behind JWTAuth, or nobody on both, for every configuration and every
\* request: ResolveUserID looks at the query only without a Bearer token.
THEOREM OneUserOnBoth == Admit!Spec => []Admit!SameUserOnBoth
<1>1. Admit!Init => Admit!SameUserOnBoth
  BY DEF Admit!Init, Admit!NoAnswer, Admit!SameUserOnBoth
<1>2. Admit!SameUserOnBoth /\ [Admit!Next]_(Admit!vars) => Admit!SameUserOnBoth'
  <2> SUFFICES ASSUME Admit!SameUserOnBoth, [Admit!Next]_(Admit!vars)
               PROVE  Admit!SameUserOnBoth'
    OBVIOUS
  <2>1. CASE answer' = answer
    BY <2>1 DEF Admit!SameUserOnBoth
  <2>2. ASSUME NEW request \in Requests, Admit!Handle(request)
        PROVE  Admit!SameUserOnBoth'
    <3> DEFINE user == Admit!ResolveUserID(cfg, request)
               http == Admit!JWTAuth(request)
               token == request.header.token
    <3>1. /\ answer'.request = request /\ answer'.http = http
          /\ answer'.ws \in {user, "none"}
      BY <2>2 DEF Admit!Handle
    <3>2. ~token.text => Admit!ValidateToken(token) = "none"
      BY DEF Admit!ValidateToken
    <3>3. http # "none" => Admit!IsBearer(request.header) /\ token.text
      BY <3>2 DEF Admit!JWTAuth
    <3>4. Admit!IsBearer(request.header) /\ token.text => user = http
      BY DEF Admit!JWTAuth, Admit!ResolveUserID
    <3> HIDE DEF user, http
    <3> QED
      BY <3>1, <3>3, <3>4 DEF Admit!SameUserOnBoth
  <2> QED
    BY <2>1, <2>2 DEF Admit!Next, Admit!LoadConfig, Admit!vars
<1> QED
  BY <1>1, <1>2, PTL DEF Admit!Spec

\* A server is up with what LoadConfig made of its file, and with nothing else
\* after its request either.
AdmitInv ==
  /\ file \in Files
  /\ state \in {"down", "refused", "up", "served"}
  /\ cfg = IF state = "down" THEN file ELSE Loaded
  /\ state \in {"up", "served"} => Admit!Valid(cfg)
  /\ answer.ws \in UserIds \cup {"none"} /\ answer.http \in UserIds \cup {"none"}
  /\ Admit!OriginWasListed

LEMMA UserOfToken ==
  ASSUME NEW token, token.user \in UserIds \cup {""}
  PROVE  Admit!ValidateToken(token) \in UserIds \cup {"none"}
  BY Zenon DEF Admit!ValidateToken

LEMMA UserOfRequest ==
  ASSUME NEW c, NEW request, request.header.token.user \in UserIds \cup {""},
         request.query.user \in UserIds \cup {""}
  PROVE  /\ Admit!ResolveUserID(c, request) \in UserIds \cup {"none"}
         /\ Admit!JWTAuth(request) \in UserIds \cup {"none"}
<1>1. /\ Admit!ValidateToken(request.header.token) \in UserIds \cup {"none"}
      /\ Admit!ValidateToken(request.query) \in UserIds \cup {"none"}
  BY UserOfToken, Zenon
<1> QED
  BY <1>1, Zenon DEF Admit!ResolveUserID, Admit!JWTAuth

LEMMA AdmitInit == Admit!Init => AdmitInv
  BY DEF Admit!Init, AdmitInv, Admit!NoAnswer, Admit!OriginWasListed

LEMMA AdmitStep ==
  ASSUME Admit!Parameters, AdmitInv, [Admit!Next]_(Admit!vars)
  PROVE  AdmitInv'
<1>1. CASE UNCHANGED Admit!vars
  <2>1. file' = file /\ cfg' = cfg /\ state' = state /\ answer' = answer
    BY <1>1 DEF Admit!vars
  <2>2. Loaded' = Loaded
    BY <2>1 DEF Loaded
  <2>3. Admit!OriginWasListed'
    BY <2>1, Zenon DEF AdmitInv, Admit!OriginWasListed
  <2> QED
    BY <2>1, <2>2, <2>3, Zenon DEF AdmitInv
<1>2. CASE Admit!LoadConfig
  <2>1. /\ state = "down" /\ cfg' = Loaded /\ file' = file /\ answer' = answer
        /\ state' = IF Admit!Valid(Loaded) THEN "up" ELSE "refused"
    BY <1>2, Zenon DEF Admit!LoadConfig, Loaded
  <2>2. Loaded' = Loaded
    BY <2>1 DEF Loaded
  <2>3. Admit!OriginWasListed'
    BY <2>1, Zenon DEF AdmitInv, Admit!OriginWasListed
  <2>4. /\ state' \in {"refused", "up"}
        /\ state' \in {"up", "served"} => Admit!Valid(Loaded)
    <3>1. "refused" # "up" /\ "refused" # "served"
      OBVIOUS
    <3> QED
      BY <2>1, <3>1, Zenon
  <2>5. state' # "down"
    BY <2>4
  <2>6. state' \in {"down", "refused", "up", "served"}
    BY <2>4, Zenon
  <2> QED
    BY <2>1, <2>2, <2>3, <2>4, <2>5, <2>6, Zenon DEF AdmitInv
<1>3. ASSUME NEW request \in Requests, Admit!Handle(request) PROVE AdmitInv'
  <2> DEFINE user == Admit!ResolveUserID(cfg, request)
             http == Admit!JWTAuth(request)
             ws == IF Admit!Allow(cfg, request.origin) THEN user ELSE "none"
  <2>1. /\ state = "up" /\ state' = "served" /\ file' = file /\ cfg' = cfg
        /\ answer' = [request |-> request, http |-> http, ws |-> ws]
    BY <1>3, Zenon DEF Admit!Handle
  <2>2. user \in UserIds \cup {"none"} /\ http \in UserIds \cup {"none"}
    <3>1. /\ request.header.token.user \in UserIds \cup {""}
          /\ request.query.user \in UserIds \cup {""}
      <4> DEFINE tokens == [text : BOOLEAN, user : UserIds \cup {""}, ours : BOOLEAN,
                            fresh : BOOLEAN]
      <4>1. request \in [header : [scheme : STRING, token : tokens], query : tokens,
                         userId : STRING, origin : STRING]
        BY Zenon DEF Admit!Parameters
      <4> HIDE DEF tokens
      <4>2. request.header \in [scheme : STRING, token : tokens] /\ request.query \in tokens
        BY <4>1
      <4>3. request.header.token \in tokens
        BY <4>2
      <4>4. \A token \in tokens : token.user \in UserIds \cup {""}
        BY Zenon DEF tokens
      <4> QED
        BY <4>2, <4>3, <4>4, Zenon
    <3> QED
      BY <3>1, UserOfRequest, Zenon
  <2>3. ws \in UserIds \cup {"none"}
    BY <2>2, Zenon
  <2>4. cfg = Loaded /\ Admit!Valid(cfg)
    <3>1. "up" # "down"
      OBVIOUS
    <3> QED
      BY <2>1, <3>1, Zenon DEF AdmitInv
  <2>5. cfg.origins = file.origins /\ file.origins \in Seq(STRING)
    BY <2>4, LoadedFields, Zenon DEF AdmitInv
  <2>6. answer'.request = request /\ answer'.http = http /\ answer'.ws = ws
    <3> HIDE DEF http, ws
    <3> QED
      BY <2>1
  <2>7. Admit!OriginWasListed'
    <3> SUFFICES ASSUME ws # "none", Admit!Trim(request.origin) # ""
                 PROVE  /\ Admit!Trim(request.origin) # "*"
                        /\ \/ \E i \in DOMAIN file.origins :
                                Admit!Trim(file.origins[i]) = Admit!Trim(request.origin)
                           \/ /\ Admit!Trimmed(file.origins) = <<>>
                              /\ request.origin \in {"http://localhost:3000", "http://127.0.0.1:3000"}
      <4> HIDE DEF ws
      <4> QED
        BY <2>1, <2>6, Zenon DEF Admit!OriginWasListed
    <3>1. Admit!Allow(cfg, request.origin)
      BY Zenon
    <3> QED
      BY <2>4, <2>5, <3>1, AllowedWasListed, Zenon
  <2>8. Loaded' = Loaded
    BY <2>1 DEF Loaded
  <2>9. /\ "served" # "down" /\ "served" \in {"down", "refused", "up", "served"}
    BY Zenon
  <2> HIDE DEF http, ws
  <2> QED
    BY <2>1, <2>2, <2>3, <2>4, <2>6, <2>7, <2>8, <2>9, Zenon DEF AdmitInv
<1> QED
  BY <1>1, <1>2, <1>3 DEF Admit!Next

\* Whom a server admits, for every file and every request: its client of Redis
\* fits the mode it was configured with, but in the cases named, an Origin it
\* lets in was listed or is a default, and the socket and the routes take a
\* request for the same user.
THEOREM AdmitsAsConfigured ==
  ASSUME Admit!Parameters
  PROVE  Admit!Spec => []Admit!AdmittedAsConfigured
<1>1. AdmitInv => Admit!ClientFitsMode
  <2> SUFFICES ASSUME AdmitInv, state = "up" PROVE Admit!ClientFitsMode
    BY Zenon DEF Admit!ClientFitsMode
  <2>1. cfg = Loaded /\ Admit!Valid(Loaded) /\ file \in Files
    <3>1. "up" # "down"
      OBVIOUS
    <3> QED
      BY <3>1, Zenon DEF AdmitInv
  <2> QED
    BY <2>1, ClientOfValid, Zenon DEF Admit!ClientFitsMode
<1>2. AdmitInv => Admit!OriginWasListed
  BY DEF AdmitInv
<1>3. AdmitInv /\ Admit!SameUserOnBoth => Admit!AdmittedAsConfigured
  BY <1>1, <1>2, Zenon DEF Admit!AdmittedAsConfigured
<1> QED
  BY <1>3, AdmitInit, AdmitStep, OneUserOnBoth, PTL DEF Admit!Spec

\* The variables of admission have their types: a server that is up allows at
\* least one connection for each user, and has its file's configuration.
THEOREM AdmissionTypeCorrect ==
  ASSUME Admit!Parameters
  PROVE  Admit!Spec => []Admit!TypeOK
<1>1. AdmitInv => Admit!TypeOK
  <2> SUFFICES ASSUME AdmitInv PROVE Admit!TypeOK
    OBVIOUS
  <2>1. state = "up" => cfg.max > 0
    <3> SUFFICES ASSUME state = "up" PROVE cfg.max > 0
      OBVIOUS
    <3>1. "up" # "down"
      OBVIOUS
    <3>2. cfg.max = Admit!NormalizedMax(file.max) /\ file.max \in Int
      BY <3>1, LoadedFields, Zenon DEF AdmitInv
    <3>3. \A max \in Int : Admit!NormalizedMax(max) > 0
      BY DEF Admit!NormalizedMax
    <3> QED
      BY <3>2, <3>3, Zenon
  <2> QED
    BY <2>1, Zenon DEF AdmitInv, Admit!TypeOK, Loaded
<1> QED
  BY <1>1, AdmitInit, AdmitStep, PTL DEF Admit!Spec
=============================================================================
