----------------------------- MODULE MCDelivery -----------------------------
(***************************************************************************)
(* Delivery on small instances: liveness of Hub and of Relay for two       *)
(* connections of one user, for Relay with one message to that user; and   *)
(* one event for two users on two servers.  They share no state, so one    *)
(* run checks them: Init chooses the part that moves.  The names of Events *)
(* are this module's own; the fairness is that of Hub and Relay.           *)
(***************************************************************************)
EXTENDS Events, Integers, FiniteSets, TLC

CONSTANTS c1, c2, u1, u2, m1, s1, s2, e1, Listener, RunLoop

VARIABLES
  part,
  connections, handler, closing, current, loop, teardown, advertised, active,
  stop, older,
  registry, sess, reach, inserting, sendq, replays, store, tasks, inbox, toAck,
  failures, saved, buffered, accepted

H == INSTANCE Hub WITH
  Users <- {u1}, Conns <- {c1, c2}, UserOf <- (c1 :> u1 @@ c2 :> u1),
  MaxConnectionsPerUser <- 2

R == INSTANCE Relay WITH
  Users <- {u1}, Conns <- {c1, c2}, UserOf <- (c1 :> u1 @@ c2 :> u1),
  Msgs <- {m1}, Plan <- (m1 :> <<u1>>), Capacity <- 1, FindMayFail <- FALSE,
  connections <- registry, loop <- inserting, replay <- replays, task <- tasks,
  offered <- accepted

\* One event for both users, from the first server.
EventTargets == e1 :> <<u1, u2>>
EventOrigin == e1 :> s1

ASSUME DeliveryAssumption == Parameters

hubVars == <<connections, handler, closing, current, loop, teardown, advertised,
             active, stop, older>>
relayVars == <<registry, sess, reach, inserting, sendq, replays, store, tasks,
               inbox, toAck, failures, saved, buffered, accepted>>
allVars == <<part, hubVars, relayVars, vars>>

AllInit ==
  /\ part \in {"hub", "relay", "events"}
  /\ H!Init /\ R!Init /\ Init

HubOnly == part = "hub" /\ UNCHANGED <<part, relayVars, vars>>
RelayOnly == part = "relay" /\ UNCHANGED <<part, hubVars, vars>>
EventsOnly == part = "events" /\ UNCHANGED <<part, hubVars, relayVars>>

AllNext ==
  \/ HubOnly /\ H!Next
  \/ RelayOnly /\ R!Next
  \/ EventsOnly /\ Next

HubFairness ==
  /\ WF_allVars(HubOnly /\ H!RunSteps)
  /\ WF_allVars(HubOnly /\ H!RunCloseAll)
  /\ \A k \in {c1, c2, Listener, RunLoop} : WF_allVars(HubOnly /\ H!CloserSteps(k))
  /\ \A c \in {c1, c2} :
       /\ WF_allVars(HubOnly /\ H!CloseUser(c))
       /\ WF_allVars(HubOnly /\ H!OfferRegistration(c))
       /\ WF_allVars(HubOnly /\ H!Start(c))
       /\ WF_allVars(HubOnly /\ H!HandleFrame(c))
       /\ WF_allVars(HubOnly /\ H!TeardownSteps(c))
       /\ WF_allVars(HubOnly /\ H!ReadFails(c) /\ ~H!SocketOpen(c))

RelayFairness ==
  /\ WF_allVars(RelayOnly /\ R!Insert)
  /\ WF_allVars(RelayOnly /\ R!TaskSteps(m1))
  /\ \A c \in {c1, c2} :
       /\ WF_allVars(RelayOnly /\ R!ReplaySteps(c))
       /\ WF_allVars(RelayOnly /\ R!WriteFrame(c))
       /\ WF_allVars(RelayOnly /\ R!Teardown(c))
       /\ WF_allVars(RelayOnly /\ R!Forget(c))
  /\ SF_allVars(RelayOnly /\ R!Reconnect(u1))

AllSpec == AllInit /\ [][AllNext]_allVars /\ HubFairness /\ RelayFairness

-----------------------------------------------------------------------------
\* Hub: the sessions that a shutdown or an eviction is to close are closed.
SessionsEnd == H!SessionsEnd

\* Hub: a handler does not wait for Run for ever, unless Run is to stop.
RegistrationAnswered == H!RegistrationAnswered

\* Relay: every kept envelope reaches a recipient who keeps reconnecting.
KeepsMailbox == R!KeepsMailbox
==============================================================================
