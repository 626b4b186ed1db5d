------------------------------- MODULE Events -------------------------------
(***************************************************************************)
(* Domain events on several servers: events.Router publishes an event to   *)
(* its targets and, through pubsub.RedisEventHub, to the other servers,    *)
(* which publish it again; EventDeliveryService keeps it for a target who  *)
(* is not connected; PendingDelivery.deliverEvents replays what was kept.  *)
(*                                                                         *)
(* Concurrent: one goroutine per published event, the Redis listener of    *)
(* each server, and one replay per session that connects.  A step is one   *)
(* database call, one Enqueue (with the Delete that follows it) or one     *)
(* Redis command.                                                          *)
(***************************************************************************)
EXTENDS Naturals, Sequences

CONSTANTS
  Servers,
  Users,
  EventIds,
  Targets,      \* EventEnvelope.TargetUserIDs of each event: a sequence
  Origin,       \* the server that publishes it first
  MaxSessions,  \* bound: sessions opened
  MaxFailures,  \* bound: failed inserts of a pending event
  None

\* What the constants must satisfy.
Parameters ==
  /\ Targets \in [EventIds -> Seq(Users)]
  /\ Origin \in [EventIds -> Servers]
  /\ EventIds \cap Servers = {}
  /\ MaxSessions \in Nat /\ MaxFailures \in Nat
  /\ None \notin EventIds

\* The goroutines that run Router.publish: a request's, or a listener.
Publishers == EventIds \cup Servers

Rows == Users \X EventIds

VARIABLES
  online,    \* users with a session, per server
  task,      \* the calls of Router.publish
  channel,   \* sigma:events, per subscriber
  rows,      \* the pending_event table (equal rows are one here)
  replay,    \* rows a session's deliverEvents has still to offer
  offered,   \* history: events accepted by a Send buffer of the user
  published, \* history: events whose first publish succeeded
  opened, failed

vars == <<online, task, channel, rows, replay, offered, published, opened, failed>>

Idle == [pc |-> "idle", ev |-> None, i |-> 1]
NewTask == [pc |-> "new", ev |-> None, i |-> 1]

Init ==
  /\ online = [s \in Servers |-> {}]
  /\ task = [k \in Publishers |-> IF k \in EventIds THEN NewTask ELSE Idle]
  /\ channel = [s \in Servers |-> <<>>]
  /\ rows = {}
  /\ replay = [s \in Servers |-> [u \in Users |-> {}]]
  /\ offered = {}
  /\ published = {}
  /\ opened = 0
  /\ failed = 0

-----------------------------------------------------------------------------
(* Router.publish and EventDeliveryService.DeliverTargets.                 *)

ServerOf(k) == IF k \in EventIds THEN Origin[k] ELSE k

Target(k) == Targets[task[k].ev][task[k].i]

\* The loop over targetIDs goes on, or DeliverTargets returns.
Next1(t) == IF t.i < Len(Targets[t.ev])
            THEN [t EXCEPT !.pc = "deliver", !.i = @ + 1]
            ELSE [t EXCEPT !.pc = "publish"]

Begin(e) == [pc |-> IF Targets[e] = <<>> THEN "publish" ELSE "deliver",
             ev |-> e, i |-> 1]

PublishEvent(e) ==
  /\ task[e].pc = "new"
  /\ task' = [task EXCEPT ![e] = Begin(e)]
  /\ UNCHANGED <<online, channel, rows, replay, offered, published, opened, failed>>

\* presence.IsOnline and Send: accepted by a session of this server ...
SendLive(k) ==
  /\ task[k].pc = "deliver"
  /\ Target(k) \in online[ServerOf(k)]
  /\ offered' = offered \cup {<<Target(k), task[k].ev>>}
  /\ task' = [task EXCEPT ![k] = Next1(@)]
  /\ UNCHANGED <<online, channel, rows, replay, published, opened, failed>>

\* ... or nobody there, or every session refused: the full buffer closes it.
SendRefused(k) ==
  /\ task[k].pc = "deliver"
  /\ task' = [task EXCEPT ![k].pc = "save"]
  /\ online' = [online EXCEPT ![ServerOf(k)] = @ \ {Target(k)}]
  /\ UNCHANGED <<channel, rows, replay, offered, published, opened, failed>>

Save(k) ==
  /\ task[k].pc = "save"
  /\ rows' = rows \cup {<<Target(k), task[k].ev>>}
  /\ task' = [task EXCEPT ![k] = Next1(@)]
  /\ UNCHANGED <<online, channel, replay, offered, published, opened, failed>>

\* Faulty variant: the error is logged and the event goes out all the same.
SaveFailsPublishes(k) ==
  /\ task[k].pc = "save"
  /\ failed < MaxFailures
  /\ failed' = failed + 1
  /\ task' = [task EXCEPT ![k] = Next1(@)]
  /\ UNCHANGED <<online, channel, rows, replay, offered, published, opened>>

\* The insert fails: publish returns the error, later targets get nothing and
\* no other server hears of the event.
SaveFails(k) ==
  /\ task[k].pc = "save"
  /\ failed < MaxFailures
  /\ failed' = failed + 1
  /\ task' = [task EXCEPT ![k] = Idle]
  /\ UNCHANGED <<online, channel, rows, replay, offered, published, opened>>

\* hub.Publish replaces SourceServerID by the id of the hub.
HubPublish(k) ==
  /\ task[k].pc = "publish"
  /\ channel' = [s \in Servers |->
       Append(channel[s], [ev |-> task[k].ev, source |-> ServerOf(k)])]
  /\ published' = published \cup {task[k].ev}
  /\ task' = [task EXCEPT ![k] = Idle]
  /\ UNCHANGED <<online, rows, replay, offered, opened, failed>>

\* RedisEventHub.listen skips what this hub sent; HandleRemote compares with
\* the router's own id, which no event carries, and publishes the event.
Listen(s) ==
  LET event == Head(channel[s]) IN
  /\ channel[s] # <<>>
  /\ task[s].pc = "idle"
  /\ channel' = [channel EXCEPT ![s] = Tail(@)]
  /\ task' = IF event.source = s THEN task
             ELSE [task EXCEPT ![s] = Begin(event.ev)]
  /\ UNCHANGED <<online, rows, replay, offered, published, opened, failed>>

-----------------------------------------------------------------------------
(* Sessions and PendingDelivery.deliverEvents.                             *)

\* A session opens on s and reads the user's rows.
Connect(s, u) ==
  /\ opened < MaxSessions
  /\ opened' = opened + 1
  /\ u \notin online[s]
  /\ replay[s][u] = {}
  /\ online' = [online EXCEPT ![s] = @ \cup {u}]
  /\ replay' = [replay EXCEPT ![s][u] = {e \in EventIds : <<u, e>> \in rows}]
  /\ UNCHANGED <<task, channel, rows, offered, published, failed>>

Disconnect(s, u) ==
  /\ u \in online[s]
  /\ online' = [online EXCEPT ![s] = @ \ {u}]
  /\ UNCHANGED <<task, channel, rows, replay, offered, published, opened, failed>>

\* Faulty variant: the row is deleted whether or not the session took it.
ReplayEventAnyway(s, u, e) ==
  /\ e \in replay[s][u]
  /\ replay' = [replay EXCEPT ![s][u] = @ \ {e}]
  /\ rows' = rows \ {<<u, e>>}
  /\ offered' = IF u \in online[s] THEN offered \cup {<<u, e>>} ELSE offered
  /\ UNCHANGED <<online, task, channel, published, opened, failed>>

\* One row is enqueued and deleted (a failing Delete is ignored), or refused,
\* which ends the replay and leaves it in the table.
ReplayEvent(s, u, e) ==
  /\ e \in replay[s][u]
  /\ IF u \in online[s]
     THEN /\ offered' = offered \cup {<<u, e>>}
          /\ rows' \in {rows, rows \ {<<u, e>>}}
          /\ replay' = [replay EXCEPT ![s][u] = @ \ {e}]
     ELSE /\ replay' = [replay EXCEPT ![s][u] = {}]
          /\ UNCHANGED <<offered, rows>>
  /\ UNCHANGED <<online, task, channel, published, opened, failed>>

-----------------------------------------------------------------------------
PublishSteps(k) == SendLive(k) \/ SendRefused(k) \/ Save(k) \/ HubPublish(k)

Next ==
  \/ \E e \in EventIds : PublishEvent(e)
  \/ \E k \in Publishers : PublishSteps(k) \/ SaveFails(k)
  \/ \E s \in Servers : Listen(s)
  \/ \E s \in Servers : \E u \in Users :
       \/ Connect(s, u)
       \/ Disconnect(s, u)
       \/ \E e \in EventIds : ReplayEvent(s, u, e)

\* Publishing goroutines and listeners run.
Fairness ==
  /\ \A k \in Publishers : WF_vars(PublishSteps(k))
  /\ \A s \in Servers : WF_vars(Listen(s))

Spec == Init /\ [][Next]_vars

FairSpec == Spec /\ Fairness

-----------------------------------------------------------------------------
\* The variables have their types, and a call of publish stands at a target.
TypeOK ==
  /\ online \in [Servers -> SUBSET Users]
  /\ task \in [Publishers -> [pc : {"new", "idle", "deliver", "save", "publish"},
                              ev : EventIds \cup {None}, i : Nat]]
  /\ \A k \in Publishers : task[k].pc \in {"deliver", "save"} =>
       /\ task[k].ev \in EventIds
       /\ task[k].i \in 1 .. Len(Targets[task[k].ev])
  /\ \A k \in Publishers : task[k].pc = "publish" => task[k].ev \in EventIds
  /\ channel \in [Servers -> Seq([ev : EventIds, source : Servers])]
  /\ rows \subseteq Rows
  /\ replay \in [Servers -> [Users -> SUBSET EventIds]]
  /\ offered \subseteq Rows
  /\ published \subseteq EventIds
  /\ opened \in 0 .. MaxSessions /\ failed \in 0 .. MaxFailures

\* An event whose publish succeeded is kept for every target until a session
\* of the target has taken it, although sessions of two servers may replay and
\* delete the same row and every server publishes the event again
\* (delivery.go DeliverTargets, pending_delivery.go deliverEvents).
PublishedIsKept ==
  \A e \in published : \A i \in 1 .. Len(Targets[e]) :
    <<Targets[e][i], e>> \in rows \cup offered
=============================================================================
