------------------------------- MODULE MCHub -------------------------------
(***************************************************************************)
(* Small instances of Hub, and of the modules about presence in Redis and  *)
(* about bots, which share no state with it: one run checks each of them,  *)
(* Init choosing the part and the others staying where they are.  The      *)
(* names of Hub are this module's own.                                     *)
(***************************************************************************)
EXTENDS Hub, Sequences, TLC

CONSTANTS c1, c2, c3, u1, u2, s1, s2, m1, m2, p1, p2,
          MaxDropped, MaxSessions, MaxFailures, Limit

VARIABLES
  part,
  key, channel, mapped, session, presenceLoop, leaving, evicting, dropped,
  row, number, ingest, hook, poll, waiting, offset, handed, taken

\* Two connections of the first user and one of the second.
ThreeConns == {c1, c2, c3}
TwoUsers == {u1, u2}
TwoAndOne == c1 :> u1 @@ c2 :> u1 @@ c3 :> u2

\* Two connections of a user to one server and one to another.
Redis == INSTANCE RedisPresence WITH
  Servers <- {s1, s2}, ServerOf <- (c1 :> s1 @@ c2 :> s1 @@ c3 :> s2),
  loop <- presenceLoop, teardown <- leaving

\* Two messages to one bot; a poll the bot waits for and one it gave up.
Bots == INSTANCE BotUpdates WITH
  Msgs <- {m1, m2}, Polls <- {p1, p2}, task <- ingest

ASSUME PartsAssumption == Redis!Parameters /\ Bots!Parameters

redisVars == <<key, channel, mapped, session, presenceLoop, leaving, evicting, dropped>>
botVars == <<row, number, ingest, hook, poll, waiting, offset, handed, taken>>
allVars == <<part, vars, redisVars, botVars>>

AllInit ==
  /\ part \in {"hub", "redis", "bots"}
  /\ Init /\ Redis!Init /\ Bots!Init

HubOnly == part = "hub" /\ UNCHANGED <<part, redisVars, botVars>>
RedisOnly == part = "redis" /\ UNCHANGED <<part, vars, botVars>>
BotsOnly == part = "bots" /\ UNCHANGED <<part, vars, redisVars>>

AllNext ==
  \/ HubOnly /\ Next
  \/ RedisOnly /\ Redis!Next
  \/ BotsOnly /\ Bots!Next

AllSpec == AllInit /\ [][AllNext]_allVars

BotsSpec == AllInit /\ part = "bots" /\ [][AllNext]_allVars

\* The connections of one user to one server are interchangeable.
Interchangeable == Permutations({c1, c2})

-----------------------------------------------------------------------------
\* The variables of the part that runs have their types.
AllTypes ==
  /\ TypeOK
  /\ part = "redis" => Redis!TypeOK
  /\ part = "bots" => Bots!TypeOK

\* RedisPresence: two servers hold the user only while an announcement is due.
OneServerAtRest == Redis!OneServerAtRest

\* BotUpdates: a row marked as delivered has an id that was handed out.
DeliveredWasHanded == Bots!DeliveredWasHanded

\* BotUpdates: the polls bring no update to the bot twice.
PolledOnce == Bots!PolledOnce

\* BotUpdates: the bot's next poll would read the update.
PendingIsAhead == Bots!PendingIsAhead
=============================================================================
