------------------------------ MODULE MCCluster ------------------------------
(***************************************************************************)
(* Small instances of the modules about online users, notices and the      *)
(* server processes, which share no state: one run checks each of them,    *)
(* Init choosing the part and the others staying where they are.  The      *)
(* names of Notices are this module's own.                                 *)
(***************************************************************************)
EXTENDS Notices, Integers, Sequences, TLC

CONSTANTS c1, c2, s1, s2, u1, u2, MaxMsgs, MaxStarts

VARIABLES
  part,
  presence, limits, reading, torn,
  at, closes, father, busy, hub, hand, mapped, doomed, link, keys, missed, fathers,
  starts

\* Two connections of one user; another user has none.
BothOfOne == c1 :> u1 @@ c2 :> u1

\* The same two connections, on one server.
Ws == INSTANCE WsPresence WITH
  Users <- {u1}, Conns <- Pumps, pump <- reading

\* Two servers on one database, a session of the first, which alone reaches Redis.
Proc == INSTANCE Process WITH
  Servers <- {s1, s2}, Clustered <- {s1}, Conns <- {c1}, ServerOf <- (c1 :> s1), session <- link

ASSUME ClusterAssumption ==
  Parameters /\ Ws!Parameters /\ Proc!Parameters

wsVars == <<presence, limits, reading, torn>>
procVars ==
  <<at, closes, father, busy, hub, hand, mapped, doomed, link, keys, missed, fathers, starts>>
allVars == <<part, vars, wsVars, procVars>>

AllInit ==
  /\ part \in {"notices", "ws", "processes"}
  /\ Init /\ Ws!Init /\ Proc!Init

NoticesOnly == part = "notices" /\ UNCHANGED <<part, wsVars, procVars>>
WsOnly == part = "ws" /\ UNCHANGED <<part, vars, procVars>>
ProcessesOnly == part = "processes" /\ UNCHANGED <<part, vars, wsVars>>

AllNext ==
  \/ NoticesOnly /\ Next
  \/ WsOnly /\ Ws!Next
  \/ ProcessesOnly /\ Proc!Next

\* The fairness of Notices, WsPresence and Process, where they run.
AllSpec ==
  /\ AllInit
  /\ [][AllNext]_allVars
  /\ WF_allVars(NoticesOnly /\ OwnSteps)
  /\ \A c \in Pumps : WF_allVars(WsOnly /\ Ws!PumpSteps(c))
  /\ WF_allVars(WsOnly /\ Ws!Expire(u1))
  /\ \A s \in {s1, s2} : WF_allVars(ProcessesOnly /\ Proc!StopSteps(s))

-----------------------------------------------------------------------------
\* The variables of the part that runs have their types.
AllTypes ==
  /\ TypeOK
  /\ part = "ws" => Ws!TypeOK
  /\ part = "processes" => Proc!TypeOK

\* WsPresence: a user whose connections are gone goes offline in the end.
GoneGoesOffline == Ws!GoneGoesOffline

\* Process: what servers leave in Redis and in the database is right.
StoresAreSound == Proc!StoresAreSound

\* Process: a signal ends the process.
SignalEnds == Proc!SignalEnds
===============================================================================
