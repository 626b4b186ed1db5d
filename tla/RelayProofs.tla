---------------------------- MODULE RelayProofs ----------------------------
(***************************************************************************)
(* Proofs about Relay for every set of users, connections and messages,    *)
(* every plan and every buffer capacity.  RelayInv is the inductive        *)
(* invariant: the types, and why no wakeup is missed and no row is lost.   *)
(* Relay implements Mailbox, for its rows, and Sessions.                   *)
(***************************************************************************)
EXTENDS Relay, TLAPS


\* A replay does not start before the Run loop has inserted its session.
LoopWaits == loop # None => replay[loop].pc = "waiting"

\* A row an open session has neither been offered nor is about to be replayed
\* is about to be offered live, to a set of sessions that includes this one.
Unoffered(c, m) ==
  /\ <<UserOf[c], m>> \in store
  /\ c \in connections[UserOf[c]]
  /\ sess[c] = "open"
  /\ replay[c].pc = "sending" /\ m \notin replay[c].todo
  /\ m \notin offered[c]

AboutToOffer(c, m) ==
  /\ task[m].pc \in {"relookup", "refanout"}
  /\ Target(m) = UserOf[c]
  /\ task[m].pc = "refanout" => c \in task[m].snap

WakeupPending ==
  \A c \in Conns : \A m \in Msgs : Unoffered(c, m) => AboutToOffer(c, m)

\* A connection object that is free for a new session was offered nothing, and
\* nobody holds it.
FreeIsUnused ==
  \A c \in Conns : sess[c] = "none" =>
    /\ offered[c] = {} /\ replay[c].pc = "aborted"
    /\ \A m \in Msgs : c \notin task[m].snap

\* What a session was offered its client received, or it is in the buffer.
Arrives(c, m) == <<UserOf[c], m>> \in inbox \/ InBuffer(c, m)

OffersArrive ==
  \A c \in Conns : sess[c] = "open" /\ reach[c] => \A m \in offered[c] : Arrives(c, m)

\* Only what a client received awaits its acknowledgement.
AcksAreReceived == \A c \in Conns : \A m \in toAck[c] : <<UserOf[c], m>> \in inbox

\* The call for m has settled target i, which the user's buffers or the table
\* then show.
Passed(m, i) ==
  \/ i < task[m].i
  \/ i = task[m].i /\ task[m].pc \in {"relookup", "refanout", "accepted"}

Handled(u, m) == <<u, m>> \in saved \cup buffered

SnapOwned(m) ==
  /\ task[m].pc = "idle" => task[m].snap = {}
  /\ AtTarget(m) => \A c \in task[m].snap : UserOf[c] = Target(m)
OkHandled(m) ==
  /\ task[m].pc \in {"idle", "lookup"} => ~task[m].ok
  /\ task[m].pc = "fanout" /\ task[m].ok => Handled(Target(m), m)

ServedSoFar ==
  \A m \in Msgs :
    /\ \A i \in 1 .. Len(Plan[m]) : Passed(m, i) => Handled(Plan[m][i], m)
    /\ SnapOwned(m)
    /\ OkHandled(m)

\* A row is saved by the loop of Dispatch when it stands at that target.
SavedInTurn ==
  /\ store \subseteq saved
  /\ \A m \in Msgs : \A u \in Users :
       <<u, m>> \in saved =>
         \E i \in 1 .. Len(Plan[m]) : Plan[m][i] = u /\ Passed(m, i)

AcceptedAtEnd == \A m \in Msgs : task[m].pc = "accepted" => task[m].i = Len(Plan[m])

RelayInv ==
  /\ TypeOK
  /\ LoopWaits
  /\ WakeupPending
  /\ FreeIsUnused
  /\ OffersArrive
  /\ AcksAreReceived
  /\ KeptUntilReceived
  /\ ServedSoFar
  /\ SavedInTurn
  /\ AcceptedAtEnd

-----------------------------------------------------------------------------
(* Types.                                                                  *)

LEMMA TypeInit == Init => TypeOK
<1> SUFFICES ASSUME Init
             PROVE  TypeOK
  OBVIOUS
<1> USE RelayAssumption DEF Init
<1>1. SessionsTypeOK
  BY DEF SessionsTypeOK
<1>2. RowsTypeOK
  BY DEF RowsTypeOK, Rows
<1>3. TasksTypeOK
  BY DEF TasksTypeOK, Tasks, TaskStates, AtTarget
<1>4. sendq \in [Conns -> Seq(Frames)] /\ replay \in [Conns -> Replays]
  BY DEF Replays, NoReplay
<1> QED
  BY <1>1, <1>2, <1>3, <1>4 DEF TypeOK

\* A session belongs to a user, and so does the target a call stands at.
LEMMA OwnerType == ASSUME NEW c \in Conns PROVE UserOf[c] \in Users
BY RelayAssumption

LEMMA PlanType ==
  ASSUME NEW m \in Msgs
  PROVE  /\ Plan[m] \in Seq(Users)
         /\ Len(Plan[m]) \in Nat
         /\ \A i \in 1 .. Len(Plan[m]) : Plan[m][i] \in Users
<1>1. Plan[m] \in Seq(Users)
  BY RelayAssumption
<1> QED
  BY <1>1

LEMMA TargetType ==
  ASSUME TasksTypeOK, NEW m \in Msgs, AtTarget(m)
  PROVE  Target(m) \in Users
BY PlanType DEF TasksTypeOK, Target

LEMMA FrameType ==
  ASSUME sendq \in [Conns -> Seq(Frames)], NEW c \in Conns, NEW m \in Msgs,
         NEW row \in BOOLEAN, Accepts(c, m, row)
  PROVE  sendq' \in [Conns -> Seq(Frames)]
<1> DEFINE f == [msg |-> m, row |-> row]
<1>1. f \in Frames
  BY DEF Frames
<1> HIDE DEF f
<1>2. sendq' = [sendq EXCEPT ![c] = Append(@, f)]
  BY DEF Accepts, f
<1> QED
  BY <1>1, <1>2

\* What one step may make of the Dispatch call for m.
LEMMA TaskUpdate ==
  ASSUME TasksTypeOK, NEW m \in Msgs, NEW t \in Tasks,
         \/ t.i \in 1 .. Len(Plan[m])
         \/ Plan[m] = <<>> /\ t.pc \in {"idle", "accepted", "failed"},
         task' = [task EXCEPT ![m] = t]
  PROVE  TasksTypeOK'
BY DEF TasksTypeOK, AtTarget

LEMMA NextTargetType ==
  ASSUME TasksTypeOK, NEW m \in Msgs, AtTarget(m), NEW n \in Nat
  PROVE  /\ NextTarget(task[m], m, n) \in Tasks
         /\ NextTarget(task[m], m, n).i \in 1 .. Len(Plan[m])
<1> USE PlanType DEF TasksTypeOK
<1>1. task[m] \in Tasks /\ task[m].i \in 1 .. Len(Plan[m])
  OBVIOUS
<1> QED
  BY <1>1 DEF NextTarget, Tasks, TaskStates

LEMMA ClosesType ==
  ASSUME SessionsTypeOK, NEW c \in Conns, sess[c] = "open", Closes(c),
         UNCHANGED <<reach, loop, failures>>
  PROVE  SessionsTypeOK'
BY OwnerType DEF SessionsTypeOK, Closes

LEMMA EnqueueType ==
  ASSUME RowsTypeOK, NEW c \in Conns, NEW m \in Msgs, NEW row \in BOOLEAN,
         Accepts(c, m, row)
  PROVE  buffered' \subseteq Rows /\ offered' \in [Conns -> SUBSET Msgs]
BY OwnerType DEF RowsTypeOK, Rows, Accepts

LEMMA SessionsTypeStep == SessionsTypeOK /\ [Next]_vars => SessionsTypeOK'
<1> SUFFICES ASSUME SessionsTypeOK, [Next]_vars
             PROVE  SessionsTypeOK'
  OBVIOUS
<1> USE DEF SessionsTypeOK
<1>1. ASSUME NEW c \in Conns, Connect(c) PROVE SessionsTypeOK'
  BY <1>1, OwnerType DEF Connect, SessionsOf, Healthy, conVars, msgVars
<1>2. ASSUME NEW c \in Conns, PeerLost(c) PROVE SessionsTypeOK'
  BY <1>2, OwnerType DEF PeerLost, conVars, msgVars
<1>3. ASSUME NEW c \in Conns, Teardown(c) PROVE SessionsTypeOK'
  BY <1>3, OwnerType DEF Teardown, Closes, conVars, msgVars
<1>4. ASSUME NEW c \in Conns, Forget(c) PROVE SessionsTypeOK'
  BY <1>4, OwnerType DEF Forget, conVars, msgVars
<1>5. CASE Insert
  BY <1>5, OwnerType DEF Insert, conVars, msgVars
<1>6. ASSUME NEW c \in Conns, NEW m \in Msgs, ReplayRow(c, m) PROVE SessionsTypeOK'
  BY <1>6, ClosesType DEF ReplayRow, Accepts, Refuses
<1>7. ASSUME NEW m \in Msgs, NEW c \in Conns, Fanout(m, c) PROVE SessionsTypeOK'
  BY <1>7, ClosesType DEF Fanout, Accepts, Refuses
<1>8. CASE UNCHANGED <<connections, sess, reach, loop, failures>>
  BY <1>8
<1> QED
  BY <1>1, <1>2, <1>3, <1>4, <1>5, <1>6, <1>7, <1>8
  DEF Next, TaskSteps, ReplaySteps, vars, conVars, msgVars, Acknowledge,
      Delivered, Dispatch, FindFails, FindPending, Lookup, Relookup,
      ReplayEnds, Save, SaveFails, SendReturns, WriteFrame

LEMMA RowsTypeStep == TypeOK /\ [Next]_vars => RowsTypeOK'
<1> SUFFICES ASSUME TypeOK, [Next]_vars
             PROVE  RowsTypeOK'
  OBVIOUS
<1> USE DEF TypeOK, RowsTypeOK, Rows, AtTarget
<1>1. ASSUME NEW c \in Conns, Forget(c) PROVE RowsTypeOK'
  BY <1>1, OwnerType, TargetType DEF Forget, conVars, msgVars
<1>2. ASSUME NEW c \in Conns, NEW m \in Msgs, ReplayRow(c, m) PROVE RowsTypeOK'
  BY <1>2, EnqueueType DEF ReplayRow, Refuses
<1>3. ASSUME NEW c \in Conns, WriteFrame(c) PROVE RowsTypeOK'
  <2>1. CASE reach[c]
    <3> DEFINE f == Head(sendq[c])
    <3>1. f \in Frames
      BY <1>3 DEF WriteFrame
    <3>2. f.msg \in Msgs
      BY <3>1 DEF Frames
    <3> HIDE DEF f
    <3>3. inbox' = inbox \cup {<<UserOf[c], f.msg>>}
          /\ toAck' = [toAck EXCEPT ![c] = IF f.row THEN @ \cup {f.msg} ELSE @]
      BY <1>3, <2>1 DEF WriteFrame, f
    <3>4. UNCHANGED <<store, saved, buffered, offered>>
      BY <1>3 DEF WriteFrame
    <3> QED
      BY <3>2, <3>3, <3>4, OwnerType
  <2>2. CASE ~reach[c]
    BY <1>3, <2>2 DEF WriteFrame
  <2> QED
    BY <2>1, <2>2
<1>4. ASSUME NEW c \in Conns, NEW m \in Msgs, Acknowledge(c, m) PROVE RowsTypeOK'
  BY <1>4, OwnerType, TargetType DEF Acknowledge, conVars, msgVars
<1>5. ASSUME NEW m \in Msgs, NEW c \in Conns, Fanout(m, c) PROVE RowsTypeOK'
  BY <1>5, EnqueueType DEF Fanout, Refuses
<1>6. ASSUME NEW m \in Msgs, Save(m) PROVE RowsTypeOK'
  BY <1>6, OwnerType, TargetType DEF Save, conVars, msgVars
<1>7. CASE UNCHANGED <<store, inbox, saved, buffered, toAck, offered>>
  BY <1>7
<1> QED
  BY <1>1, <1>2, <1>3, <1>4, <1>5, <1>6, <1>7
  DEF Next, TaskSteps, ReplaySteps, vars, conVars, msgVars, Closes, Connect,
      Delivered, Dispatch, FindFails, FindPending, Insert, Lookup, PeerLost,
      Relookup, ReplayEnds, SaveFails, SendReturns, Teardown

LEMMA TasksTypeStep == TypeOK /\ [Next]_vars => TasksTypeOK'
<1> SUFFICES ASSUME TypeOK, [Next]_vars
             PROVE  TasksTypeOK'
  OBVIOUS
<1> USE DEF TypeOK, TasksTypeOK, Tasks, TaskStates, AtTarget
<1>1. ASSUME NEW m \in Msgs, Dispatch(m) PROVE TasksTypeOK'
  <2>1. CASE Plan[m] = <<>>
    BY <1>1, <2>1, PlanType DEF Dispatch
  <2>2. CASE Plan[m] # <<>>
    BY <1>1, <2>2 DEF Dispatch
  <2> QED
    BY <2>1, <2>2
<1>2. ASSUME NEW m \in Msgs, Lookup(m) PROVE TasksTypeOK'
  <2>1. connections[Target(m)] \subseteq Conns
    BY <1>2, TargetType DEF Lookup, SessionsTypeOK
  <2>2. CASE task' = [task EXCEPT ![m].pc = "save"]
    BY <1>2, <2>2 DEF Lookup
  <2>3. CASE task' = [task EXCEPT ![m].pc = "fanout", ![m].snap = connections[Target(m)]]
    BY <1>2, <2>1, <2>3 DEF Lookup
  <2> QED
    BY <1>2, <2>2, <2>3 DEF Lookup
<1>3. ASSUME NEW m \in Msgs, NEW c \in Conns, Fanout(m, c) PROVE TasksTypeOK'
  <2>1. task[m] \in Tasks
    OBVIOUS
  <2>2. CASE task' = [task EXCEPT ![m].snap = @ \ {c}, ![m].ok = TRUE]
    BY <1>3, <2>1, <2>2 DEF Fanout
  <2>3. CASE task' = [task EXCEPT ![m].snap = @ \ {c}]
    BY <1>3, <2>1, <2>3 DEF Fanout
  <2> QED
    BY <1>3, <2>2, <2>3 DEF Fanout
<1>4. ASSUME NEW m \in Msgs, SendReturns(m) PROVE TasksTypeOK'
  <2>1. task[m].count + 1 \in Nat /\ AtTarget(m)
    BY <1>4 DEF SendReturns
  <2>2. CASE task[m].ok
    BY <1>4, <2>1, <2>2, NextTargetType, TaskUpdate DEF SendReturns
  <2>3. CASE ~task[m].ok
    BY <1>4, <2>3 DEF SendReturns
  <2> QED
    BY <2>2, <2>3
<1>5. ASSUME NEW m \in Msgs, Save(m) PROVE TasksTypeOK'
  BY <1>5 DEF Save, conVars, msgVars
<1>6. ASSUME NEW m \in Msgs, SaveFails(m) PROVE TasksTypeOK'
  BY <1>6 DEF SaveFails, conVars, msgVars
<1>7. ASSUME NEW m \in Msgs, Relookup(m) PROVE TasksTypeOK'
  <2>1. connections[Target(m)] \subseteq Conns
    BY <1>7, TargetType DEF Relookup, SessionsTypeOK
  <2> QED
    BY <1>7, <2>1 DEF Relookup
<1>8. ASSUME NEW m \in Msgs, Delivered(m) PROVE TasksTypeOK'
  <2>1. task[m].count + 1 \in Nat /\ AtTarget(m)
    BY <1>8 DEF Delivered
  <2> QED
    BY <1>8, <2>1, NextTargetType, TaskUpdate DEF Delivered
<1>9. CASE UNCHANGED task
  BY <1>9
<1> QED
  BY <1>1, <1>2, <1>3, <1>4, <1>5, <1>6, <1>7, <1>8, <1>9
  DEF Next, TaskSteps, ReplaySteps, vars, conVars, msgVars, Accepts,
      Acknowledge, Closes, Connect, FindFails, FindPending, Forget, Insert,
      PeerLost, Refuses, ReplayEnds, ReplayRow, Teardown, WriteFrame

LEMMA SendqTypeStep == (sendq \in [Conns -> Seq(Frames)]) /\ [Next]_vars => (sendq \in [Conns -> Seq(Frames)])'
<1> SUFFICES ASSUME (sendq \in [Conns -> Seq(Frames)]), [Next]_vars
             PROVE  (sendq \in [Conns -> Seq(Frames)])'
  OBVIOUS
<1>1. ASSUME NEW c \in Conns, Forget(c) PROVE (sendq \in [Conns -> Seq(Frames)])'
  BY <1>1, FrameType DEF Forget, conVars, msgVars
<1>2. ASSUME NEW c \in Conns, NEW m \in Msgs, ReplayRow(c, m) PROVE (sendq \in [Conns -> Seq(Frames)])'
  BY <1>2, FrameType DEF ReplayRow, Refuses
<1>3. ASSUME NEW c \in Conns, WriteFrame(c) PROVE (sendq \in [Conns -> Seq(Frames)])'
  BY <1>3, FrameType DEF WriteFrame, conVars, msgVars
<1>4. ASSUME NEW m \in Msgs, NEW c \in Conns, Fanout(m, c) PROVE (sendq \in [Conns -> Seq(Frames)])'
  BY <1>4, FrameType DEF Fanout, Refuses
<1>5. CASE UNCHANGED sendq
  BY <1>5
<1> QED
  BY <1>1, <1>2, <1>3, <1>4, <1>5
  DEF Next, TaskSteps, ReplaySteps, vars, conVars, msgVars, Acknowledge,
      Closes, Connect, Delivered, Dispatch, FindFails, FindPending, Insert,
      Lookup, PeerLost, Relookup, ReplayEnds, Save, SaveFails, SendReturns,
      Teardown

LEMMA ReplayTypeStep == (replay \in [Conns -> Replays]) /\ [Next]_vars => (replay \in [Conns -> Replays])'
<1> SUFFICES ASSUME (replay \in [Conns -> Replays]), [Next]_vars
             PROVE  (replay \in [Conns -> Replays])'
  OBVIOUS
<1> USE DEF Replays
<1>1. ASSUME NEW c \in Conns, Connect(c) PROVE (replay \in [Conns -> Replays])'
  BY <1>1 DEF Connect, SessionsOf, Healthy, conVars, msgVars
<1>2. ASSUME NEW c \in Conns, FindPending(c) PROVE (replay \in [Conns -> Replays])'
  BY <1>2 DEF FindPending, conVars, msgVars
<1>3. ASSUME NEW c \in Conns, FindFails(c) PROVE (replay \in [Conns -> Replays])'
  BY <1>3 DEF FindFails, NoReplay, conVars, msgVars
<1>4. ASSUME NEW c \in Conns, NEW m \in Msgs, ReplayRow(c, m) PROVE (replay \in [Conns -> Replays])'
  BY <1>4 DEF ReplayRow, Accepts, Refuses, Closes, NoReplay, conVars,
     msgVars
<1>5. ASSUME NEW c \in Conns, ReplayEnds(c) PROVE (replay \in [Conns -> Replays])'
  BY <1>5 DEF ReplayEnds, NoReplay, conVars, msgVars
<1>6. CASE UNCHANGED replay
  BY <1>6
<1> QED
  BY <1>1, <1>2, <1>3, <1>4, <1>5, <1>6
  DEF Next, TaskSteps, ReplaySteps, vars, conVars, msgVars, Accepts,
      Acknowledge, Closes, Delivered, Dispatch, Fanout, Forget, Insert,
      Lookup, PeerLost, Refuses, Relookup, Save, SaveFails, SendReturns,
      Teardown, WriteFrame

LEMMA TypeStep == TypeOK /\ [Next]_vars => TypeOK'
BY SessionsTypeStep, RowsTypeStep, TasksTypeStep, SendqTypeStep, ReplayTypeStep DEF TypeOK

-----------------------------------------------------------------------------
(* No missed wakeup, and no row lost.                                      *)

\* What Send's lookup leaves of the calls.
LEMMA LookupEffect ==
  ASSUME task \in [Msgs -> Tasks], NEW m \in Msgs, Lookup(m), NEW n \in Msgs
  PROVE  /\ n # m => task'[n] = task[n]
         /\ task'[n].i = task[n].i /\ task'[n].ok = task[n].ok
         /\ n = m => /\ task[n].pc = "lookup"
                     /\ \/ task'[n].pc = "save" /\ task'[n].snap = task[n].snap
                        \/ task'[n].pc = "fanout" /\ task'[n].snap = connections[Target(n)]
<1>1. task[m] \in Tasks /\ task[m].pc = "lookup"
  BY DEF Lookup
<1>2. CASE task' = [task EXCEPT ![m].pc = "save"]
  BY <1>1, <1>2 DEF Tasks
<1>3. CASE task' = [task EXCEPT ![m].pc = "fanout", ![m].snap = connections[Target(m)]]
  BY <1>1, <1>3 DEF Tasks
<1> QED
  BY <1>2, <1>3 DEF Lookup

\* What an iteration of the Enqueue loop leaves of the calls.
LEMMA FanoutEffect ==
  ASSUME task \in [Msgs -> Tasks], NEW m \in Msgs, NEW c \in Conns, Fanout(m, c),
         NEW n \in Msgs
  PROVE  /\ task'[n].pc = task[n].pc
         /\ task'[n].i = task[n].i
         /\ task'[n].snap = IF n = m THEN task[n].snap \ {c} ELSE task[n].snap
         /\ task'[n].ok => task[n].ok \/ (n = m /\ Accepts(c, m, FALSE))
<1>1. task[m] \in Tasks
  OBVIOUS
<1>2. CASE Accepts(c, m, FALSE) /\ task' = [task EXCEPT ![m].snap = @ \ {c}, ![m].ok = TRUE]
  BY <1>1, <1>2 DEF Tasks
<1>3. CASE task' = [task EXCEPT ![m].snap = @ \ {c}]
  BY <1>1, <1>3 DEF Tasks
<1> QED
  BY <1>2, <1>3 DEF Fanout

\* A session that refuses a frame is out of the map or closed afterwards.
LEMMA RefusesEffect ==
  ASSUME SessionsTypeOK, NEW c \in Conns, NEW d \in Conns, Refuses(c),
         sess'[d] = "open", d \in connections'[UserOf[d]]
  PROVE  sess[d] = "open" /\ d \in connections[UserOf[d]] /\ d # c
<1>1. CASE sess[c] = "closed" /\ UNCHANGED <<sess, connections>>
  BY <1>1 DEF SessionsTypeOK
<1>2. CASE sess[c] = "open" /\ Closes(c)
  BY <1>2, OwnerType DEF Closes, SessionsTypeOK
<1> QED
  BY <1>1, <1>2 DEF Refuses

LEMMA LoopWaitsStep == TypeOK /\ LoopWaits /\ [Next]_vars => LoopWaits'
<1> SUFFICES ASSUME TypeOK, LoopWaits, [Next]_vars
             PROVE  LoopWaits'
  OBVIOUS
<1> USE DEF TypeOK, SessionsTypeOK, Replays, LoopWaits
<1>1. ASSUME NEW c \in Conns, Connect(c) PROVE LoopWaits'
  BY <1>1, RelayAssumption DEF Connect, SessionsOf, Healthy, conVars,
     msgVars
<1>2. ASSUME NEW c \in Conns, FindPending(c) PROVE LoopWaits'
  BY <1>2, RelayAssumption DEF FindPending, conVars, msgVars
<1>3. ASSUME NEW c \in Conns, FindFails(c) PROVE LoopWaits'
  BY <1>3, RelayAssumption DEF FindFails, NoReplay, conVars, msgVars
<1>4. ASSUME NEW c \in Conns, NEW m \in Msgs, ReplayRow(c, m) PROVE LoopWaits'
  BY <1>4, RelayAssumption DEF ReplayRow, Accepts, Refuses, Closes,
     NoReplay, conVars, msgVars
<1>5. ASSUME NEW c \in Conns, ReplayEnds(c) PROVE LoopWaits'
  BY <1>5, RelayAssumption DEF ReplayEnds, NoReplay, conVars, msgVars
<1>6. CASE Insert
  BY <1>6, RelayAssumption DEF Insert, conVars, msgVars
<1>7. CASE UNCHANGED <<loop, replay>>
  BY <1>7
<1> QED
  BY <1>1, <1>2, <1>3, <1>4, <1>5, <1>6, <1>7
  DEF Next, TaskSteps, ReplaySteps, vars, conVars, msgVars, Accepts,
      Acknowledge, Closes, Delivered, Dispatch, Fanout, Forget, Lookup,
      PeerLost, Refuses, Relookup, Save, SaveFails, SendReturns, Teardown,
      WriteFrame

LEMMA WakeupPendingStep == TypeOK /\ LoopWaits /\ WakeupPending /\ [Next]_vars => WakeupPending'
<1> SUFFICES ASSUME TypeOK, LoopWaits, WakeupPending, [Next]_vars
             PROVE  WakeupPending'
  OBVIOUS
<1> USE DEF TypeOK, SessionsTypeOK, RowsTypeOK, TasksTypeOK, Tasks, Replays, LoopWaits, WakeupPending, Unoffered, AboutToOffer, Target
<1>1. ASSUME NEW c \in Conns, Connect(c) PROVE WakeupPending'
  BY <1>1, OwnerType DEF Connect, SessionsOf, Healthy, conVars, msgVars
<1>2. ASSUME NEW c \in Conns, Teardown(c) PROVE WakeupPending'
  BY <1>2, OwnerType DEF Teardown, Closes, conVars, msgVars
<1>3. ASSUME NEW c \in Conns, Forget(c) PROVE WakeupPending'
  BY <1>3, OwnerType DEF Forget, conVars, msgVars
<1>4. ASSUME NEW c \in Conns, FindPending(c) PROVE WakeupPending'
  BY <1>4, OwnerType DEF FindPending, conVars, msgVars
<1>5. ASSUME NEW c \in Conns, FindFails(c) PROVE WakeupPending'
  BY <1>5, OwnerType DEF FindFails, NoReplay, conVars, msgVars
<1>6. ASSUME NEW c \in Conns, NEW m \in Msgs, ReplayRow(c, m) PROVE WakeupPending'
  <2> SUFFICES ASSUME NEW d \in Conns, NEW n \in Msgs, Unoffered(d, n)'
               PROVE  AboutToOffer(d, n)'
    BY DEF WakeupPending
  <2>1. Unoffered(d, n) => AboutToOffer(d, n)
    BY DEF WakeupPending
  <2>2. task' = task /\ store' = store
    BY <1>6 DEF ReplayRow
  <2>3. CASE Accepts(c, m, TRUE) /\ replay' = [replay EXCEPT ![c].todo = @ \ {m}]
    <3>1. d # c \/ n # m
      BY <2>3 DEF Accepts
    <3>2. replay[d].pc = "sending" /\ n \notin replay[d].todo
      BY <2>3, <3>1
    <3> QED
      BY <2>1, <2>2, <2>3, <3>2 DEF Accepts
  <2>4. CASE Refuses(c) /\ replay' = [replay EXCEPT ![c] = NoReplay]
    <3>1. sess[d] = "open" /\ d \in connections[UserOf[d]] /\ d # c
      BY <2>4, RefusesEffect
    <3>2. offered' = offered /\ replay'[d] = replay[d]
      BY <2>4, <3>1 DEF Refuses
    <3> QED
      BY <2>1, <2>2, <3>1, <3>2
  <2> QED
    BY <1>6, <2>3, <2>4 DEF ReplayRow
<1>7. ASSUME NEW c \in Conns, ReplayEnds(c) PROVE WakeupPending'
  BY <1>7, OwnerType DEF ReplayEnds, NoReplay, conVars, msgVars
<1>8. ASSUME NEW c \in Conns, NEW m \in Msgs, Acknowledge(c, m) PROVE WakeupPending'
  BY <1>8, OwnerType DEF Acknowledge, conVars, msgVars
<1>9. CASE Insert
  BY <1>9, OwnerType DEF Insert, conVars, msgVars
<1>10. ASSUME NEW m \in Msgs, Dispatch(m) PROVE WakeupPending'
  BY <1>10, OwnerType DEF Dispatch, conVars, msgVars
<1>11. ASSUME NEW m \in Msgs, Lookup(m) PROVE WakeupPending'
  <2> SUFFICES ASSUME NEW d \in Conns, NEW n \in Msgs, Unoffered(d, n)'
               PROVE  AboutToOffer(d, n)'
    BY DEF WakeupPending
  <2>1. Unoffered(d, n) => AboutToOffer(d, n)
    BY DEF WakeupPending
  <2>2. n # m => task'[n] = task[n]
    BY <1>11 DEF Lookup
  <2> QED
    BY <1>11, <2>1, <2>2 DEF Lookup, conVars, msgVars
<1>12. ASSUME NEW m \in Msgs, NEW c \in Conns, Fanout(m, c) PROVE WakeupPending'
  <2> SUFFICES ASSUME NEW d \in Conns, NEW n \in Msgs, Unoffered(d, n)'
               PROVE  AboutToOffer(d, n)'
    BY DEF WakeupPending
  <2>1. Unoffered(d, n) => AboutToOffer(d, n)
    BY DEF WakeupPending
  <2>2. replay' = replay /\ store' = store
    BY <1>12 DEF Fanout
  <2> HIDE DEF TypeOK, SessionsTypeOK, RowsTypeOK, Tasks, Replays, WakeupPending, Unoffered,
               AboutToOffer, LoopWaits, Target
  <2>5. /\ task'[n].pc = task[n].pc
        /\ task'[n].i = task[n].i
        /\ task'[n].snap = IF n = m THEN task[n].snap \ {c} ELSE task[n].snap
    BY <1>12, FanoutEffect DEF TypeOK
  <2> USE DEF TypeOK, SessionsTypeOK, RowsTypeOK, Tasks, Replays, WakeupPending, Unoffered,
              AboutToOffer, LoopWaits, Target
  <2>3. CASE Accepts(c, m, FALSE)
    <3>1. Unoffered(d, n) /\ (d # c \/ n # m)
      BY <2>2, <2>3 DEF Accepts
    <3> QED
      BY <2>1, <2>5, <3>1
  <2>4. CASE Refuses(c)
    <3>1. sess[d] = "open" /\ d \in connections[UserOf[d]] /\ d # c
      BY <2>4, RefusesEffect
    <3>2. Unoffered(d, n)
      BY <2>2, <2>4, <3>1 DEF Refuses
    <3> QED
      BY <2>1, <2>5, <3>1, <3>2
  <2> QED
    BY <1>12, <2>3, <2>4 DEF Fanout
<1>13. ASSUME NEW m \in Msgs, SendReturns(m) PROVE WakeupPending'
  BY <1>13, OwnerType DEF SendReturns, NextTarget, conVars, msgVars
<1>14. ASSUME NEW m \in Msgs, Save(m) PROVE WakeupPending'
  BY <1>14, OwnerType DEF Save, conVars, msgVars
<1>15. ASSUME NEW m \in Msgs, SaveFails(m) PROVE WakeupPending'
  BY <1>15, OwnerType DEF SaveFails, conVars, msgVars
<1>16. ASSUME NEW m \in Msgs, Relookup(m) PROVE WakeupPending'
  BY <1>16, OwnerType DEF Relookup, conVars, msgVars
<1>17. ASSUME NEW m \in Msgs, Delivered(m) PROVE WakeupPending'
  BY <1>17, OwnerType DEF Delivered, NextTarget, conVars, msgVars
<1>18. CASE UNCHANGED <<connections, sess, replay, store, task, offered>>
  BY <1>18
<1> QED
  BY <1>1, <1>2, <1>3, <1>4, <1>5, <1>6, <1>7, <1>8, <1>9, <1>10, <1>11,
     <1>12, <1>13, <1>14, <1>15, <1>16, <1>17, <1>18
  DEF Next, TaskSteps, ReplaySteps, vars, conVars, msgVars, PeerLost,
      WriteFrame

LEMMA ReceivedStep == TypeOK /\ AcksAreReceived /\ KeptUntilReceived /\ [Next]_vars => (AcksAreReceived /\ KeptUntilReceived)'
<1> SUFFICES ASSUME TypeOK, AcksAreReceived, KeptUntilReceived, [Next]_vars
             PROVE  (AcksAreReceived /\ KeptUntilReceived)'
  OBVIOUS
<1> USE DEF TypeOK, RowsTypeOK, AcksAreReceived, KeptUntilReceived
<1>1. ASSUME NEW c \in Conns, Forget(c) PROVE (AcksAreReceived /\ KeptUntilReceived)'
  BY <1>1 DEF Forget, conVars, msgVars
<1>2. ASSUME NEW c \in Conns, WriteFrame(c) PROVE (AcksAreReceived /\ KeptUntilReceived)'
  BY <1>2 DEF WriteFrame, conVars, msgVars
<1>3. ASSUME NEW c \in Conns, NEW m \in Msgs, Acknowledge(c, m) PROVE (AcksAreReceived /\ KeptUntilReceived)'
  BY <1>3 DEF Acknowledge, conVars, msgVars
<1>4. ASSUME NEW m \in Msgs, Save(m) PROVE (AcksAreReceived /\ KeptUntilReceived)'
  BY <1>4 DEF Save, conVars, msgVars
<1>5. CASE UNCHANGED <<store, inbox, toAck, saved>>
  BY <1>5
<1> QED
  BY <1>1, <1>2, <1>3, <1>4, <1>5
  DEF Next, TaskSteps, ReplaySteps, vars, conVars, msgVars, Accepts, Closes,
      Connect, Delivered, Dispatch, Fanout, FindFails, FindPending, Insert,
      Lookup, PeerLost, Refuses, Relookup, ReplayEnds, ReplayRow, SaveFails,
      SendReturns, Teardown

\* Which targets a step lets a call leave behind: only the one it stands at,
\* and only by saving its row or after a buffer accepted it.
LEMMA PassedStep ==
  ASSUME TasksTypeOK, [Next]_vars, NEW n \in Msgs, NEW i \in 1 .. Len(Plan[n])
  PROVE  /\ Passed(n, i) => Passed(n, i)'
         /\ Passed(n, i)' => \/ Passed(n, i)
                             \/ i = task[n].i /\ (Save(n) \/ (SendReturns(n) /\ task[n].ok))
<1> DEFINE Goal == /\ Passed(n, i) => Passed(n, i)'
                   /\ Passed(n, i)' => \/ Passed(n, i)
                                       \/ /\ i = task[n].i
                                          /\ Save(n) \/ (SendReturns(n) /\ task[n].ok)
<1> SUFFICES Goal
  OBVIOUS
<1>a. task \in [Msgs -> Tasks] /\ task[n] \in Tasks /\ task[n].i \in Nat
  BY DEF TasksTypeOK, Tasks
<1>b. Len(Plan[n]) \in Nat
  BY PlanType
<1>c. CASE task'[n].i = task[n].i /\ (task'[n].pc = task[n].pc
             \/ {task[n].pc, task'[n].pc} \cap {"relookup", "refanout", "accepted"} = {}
             \/ {task[n].pc, task'[n].pc} \subseteq {"relookup", "refanout", "accepted"})
  BY <1>c DEF Passed
<1>1. ASSUME NEW m \in Msgs, Dispatch(m) PROVE Goal
  <2>1. task'[n].i = task[n].i /\ (n # m => task'[n].pc = task[n].pc)
    BY <1>a, <1>1 DEF Dispatch
  <2>2. n = m => task[n].pc = "idle" /\ task'[n].pc \in {"failed", "lookup"}
    BY <1>a, <1>1 DEF Dispatch
  <2> QED
    BY <1>c, <2>1, <2>2
<1>2. ASSUME NEW m \in Msgs, Lookup(m) PROVE Goal
  BY <1>a, <1>c, <1>2, LookupEffect
<1>3. ASSUME NEW m \in Msgs, NEW c \in Conns, Fanout(m, c) PROVE Goal
  BY <1>a, <1>c, <1>3, FanoutEffect
<1>4. ASSUME NEW m \in Msgs, SendReturns(m) PROVE Goal
  <2>1. CASE n # m \/ ~task[m].ok
    <3>1. task'[n].i = task[n].i /\ (n # m => task'[n].pc = task[n].pc)
      BY <1>a, <1>4, <2>1 DEF SendReturns
    <3>2. n = m => task[n].pc = "fanout" /\ task'[n].pc = "save"
      BY <1>a, <1>4, <2>1 DEF SendReturns
    <3> QED
      BY <1>c, <3>1, <3>2
  <2>2. CASE n = m /\ task[m].ok
    <3>1. task'[n] = NextTarget(task[n], n, task[n].count + 1) /\ task[n].pc = "fanout"
      BY <1>a, <1>4, <2>2 DEF SendReturns
    <3>2. task[n].count + 1 > 0
      BY <1>a DEF Tasks
    <3>3. task'[n].i = IF task[n].i < Len(Plan[n]) THEN task[n].i + 1 ELSE task[n].i
      BY <3>1 DEF NextTarget
    <3>4. task'[n].pc = IF task[n].i < Len(Plan[n]) THEN "lookup" ELSE "accepted"
      BY <3>1, <3>2 DEF NextTarget
    <3> QED
      BY <1>a, <1>b, <1>4, <2>2, <3>1, <3>3, <3>4 DEF Passed
  <2> QED
    BY <2>1, <2>2
<1>5. ASSUME NEW m \in Msgs, Save(m) PROVE Goal
  <2>1. task'[n].i = task[n].i /\ (n # m => task'[n].pc = task[n].pc)
    BY <1>a, <1>5 DEF Save
  <2>2. n = m => task'[n].pc = "relookup" /\ task[n].pc = "save"
    BY <1>a, <1>5 DEF Save
  <2> QED
    BY <1>c, <1>5, <2>1, <2>2 DEF Passed
<1>6. ASSUME NEW m \in Msgs, SaveFails(m) PROVE Goal
  <2>1. task'[n].i = task[n].i /\ (n # m => task'[n].pc = task[n].pc)
    BY <1>a, <1>6 DEF SaveFails
  <2>2. n = m => task'[n].pc = "failed" /\ task[n].pc = "save"
    BY <1>a, <1>6 DEF SaveFails
  <2> QED
    BY <1>c, <2>1, <2>2
<1>7. ASSUME NEW m \in Msgs, Relookup(m) PROVE Goal
  <2>1. task'[n].i = task[n].i /\ (n # m => task'[n].pc = task[n].pc)
    BY <1>a, <1>7 DEF Relookup
  <2>2. n = m => task'[n].pc = "refanout" /\ task[n].pc = "relookup"
    BY <1>a, <1>7 DEF Relookup
  <2> QED
    BY <1>c, <2>1, <2>2
<1>8. ASSUME NEW m \in Msgs, Delivered(m) PROVE Goal
  <2>1. CASE n # m
    <3>1. task'[n] = task[n]
      BY <1>a, <1>8, <2>1 DEF Delivered
    <3> QED
      BY <1>c, <3>1
  <2>2. CASE n = m
    <3>1. task'[n] = NextTarget(task[n], n, task[n].count + 1) /\ task[n].pc = "refanout"
      BY <1>a, <1>8, <2>2 DEF Delivered
    <3>2. task[n].count + 1 > 0
      BY <1>a DEF Tasks
    <3>3. task'[n].i = IF task[n].i < Len(Plan[n]) THEN task[n].i + 1 ELSE task[n].i
      BY <3>1 DEF NextTarget
    <3>4. task'[n].pc = IF task[n].i < Len(Plan[n]) THEN "lookup" ELSE "accepted"
      BY <3>1, <3>2 DEF NextTarget
    <3> QED
      BY <1>a, <1>b, <3>1, <3>3, <3>4 DEF Passed
  <2> QED
    BY <2>1, <2>2
<1>9. CASE UNCHANGED task
  BY <1>c, <1>9
<1> HIDE DEF Goal
<1> QED
  BY <1>1, <1>2, <1>3, <1>4, <1>5, <1>6, <1>7, <1>8, <1>9
  DEF Next, TaskSteps, ReplaySteps, vars, conVars, msgVars, Acknowledge,
      Connect, FindFails, FindPending, Forget, Insert, PeerLost, ReplayEnds,
      ReplayRow, Teardown, WriteFrame

LEMMA HandledStep ==
  ASSUME TypeOK, [Next]_vars, NEW u \in Users, NEW m \in Msgs, Handled(u, m)
  PROVE  Handled(u, m)'
<1>1. saved \subseteq saved' /\ buffered \subseteq buffered'
  BY DEF Next, TaskSteps, ReplaySteps, vars, conVars, msgVars, Acknowledge,
      Connect, FindFails, FindPending, Forget, Insert, PeerLost, ReplayEnds,
      ReplayRow, Teardown, WriteFrame, Dispatch, Lookup, Fanout, SendReturns, Save,
      SaveFails, Relookup, Delivered, Accepts, Refuses
<1> QED
  BY <1>1 DEF Handled

LEMMA SnapStep ==
  ASSUME TypeOK, [Next]_vars, NEW n \in Msgs, SnapOwned(n)
  PROVE  SnapOwned(n)'
<1>a. TasksTypeOK /\ task \in [Msgs -> Tasks] /\ task[n] \in Tasks
  BY DEF TypeOK, TasksTypeOK
<1>b. CASE task'[n] = task[n]
  BY <1>b DEF SnapOwned, AtTarget, Target
<1>c. CASE task'[n].snap = {}
  BY <1>c DEF SnapOwned
<1>1. ASSUME NEW m \in Msgs, Dispatch(m) PROVE SnapOwned(n)'
  <2>1. CASE n # m
    BY <1>a, <1>b, <1>1, <2>1 DEF Dispatch
  <2>2. CASE n = m
    <3>1. task'[n].snap = {}
      BY <1>a, <1>1, <2>2 DEF Dispatch, SnapOwned, Tasks
    <3> QED
      BY <1>c, <3>1
  <2> QED
    BY <2>1, <2>2
<1>2. ASSUME NEW m \in Msgs, Lookup(m) PROVE SnapOwned(n)'
  <2>1. CASE n # m
    BY <1>a, <1>b, <1>2, <2>1, LookupEffect
  <2>2. CASE n = m
    <3>1. AtTarget(n)
      BY <1>2, <2>2 DEF Lookup, AtTarget
    <3>2. Target(n) \in Users /\ Target(n)' = Target(n)
      BY <1>a, <1>2, <3>1, TargetType, LookupEffect DEF Target
    <3>3. \A c \in connections[Target(n)] : UserOf[c] = Target(n)
      BY <3>2 DEF TypeOK, SessionsTypeOK
    <3>4. /\ task'[n].snap \in {task[n].snap, connections[Target(n)]}
          /\ task'[n].pc # "idle"
      BY <1>a, <1>2, <2>2, LookupEffect
    <3> QED
      BY <3>1, <3>2, <3>3, <3>4 DEF SnapOwned
  <2> QED
    BY <2>1, <2>2
<1>3. ASSUME NEW m \in Msgs, NEW c \in Conns, Fanout(m, c) PROVE SnapOwned(n)'
  <2>1. task \in [Msgs -> Tasks]
    BY <1>a
  <2>2. /\ task'[n].pc = task[n].pc /\ task'[n].i = task[n].i
        /\ task'[n].snap = IF n = m THEN task[n].snap \ {c} ELSE task[n].snap
    <3>1. task[m] \in Tasks /\ task[n] \in Tasks
      BY <2>1
    <3>2. CASE task' = [task EXCEPT ![m].snap = @ \ {c}, ![m].ok = TRUE]
      BY <2>1, <3>1, <3>2 DEF Tasks
    <3>3. CASE task' = [task EXCEPT ![m].snap = @ \ {c}]
      BY <2>1, <3>1, <3>3 DEF Tasks
    <3> QED
      BY <1>3, <3>2, <3>3 DEF Fanout
  <2>3. task'[n].snap \subseteq task[n].snap
    BY <2>2
  <2> QED
    BY <2>2, <2>3 DEF SnapOwned, AtTarget, Target
<1>4. ASSUME NEW m \in Msgs, SendReturns(m) PROVE SnapOwned(n)'
  <2>1. CASE n # m
    BY <1>a, <1>b, <1>4, <2>1 DEF SendReturns
  <2>2. CASE n = m /\ task[m].ok
    BY <1>a, <1>c, <1>4, <2>2 DEF SendReturns, NextTarget
  <2>3. CASE n = m /\ ~task[m].ok
    BY <1>a, <1>c, <1>4, <2>3 DEF SendReturns, Tasks
  <2> QED
    BY <2>1, <2>2, <2>3
<1>5. ASSUME NEW m \in Msgs, Save(m) PROVE SnapOwned(n)'
  BY <1>a, <1>5 DEF Save, SnapOwned, AtTarget, Target
<1>6. ASSUME NEW m \in Msgs, SaveFails(m) PROVE SnapOwned(n)'
  BY <1>a, <1>6 DEF SaveFails, SnapOwned, AtTarget, Target
<1>7. ASSUME NEW m \in Msgs, Relookup(m) PROVE SnapOwned(n)'
  BY <1>a, <1>7, TargetType
  DEF Relookup, TypeOK, SessionsTypeOK, SnapOwned, AtTarget, Target
<1>8. ASSUME NEW m \in Msgs, Delivered(m) PROVE SnapOwned(n)'
  BY <1>a, <1>b, <1>c, <1>8 DEF Delivered, NextTarget, Tasks
<1>9. CASE UNCHANGED task
  BY <1>b, <1>9
<1> QED
  BY <1>1, <1>2, <1>3, <1>4, <1>5, <1>6, <1>7, <1>8, <1>9
  DEF Next, TaskSteps, ReplaySteps, vars, conVars, msgVars, Acknowledge,
      Connect, FindFails, FindPending, Forget, Insert, PeerLost, ReplayEnds,
      ReplayRow, Teardown, WriteFrame

LEMMA OkStep ==
  ASSUME TypeOK, [Next]_vars, NEW n \in Msgs, SnapOwned(n), OkHandled(n)
  PROVE  OkHandled(n)'
<1>a. TasksTypeOK /\ task \in [Msgs -> Tasks] /\ task[n] \in Tasks
  BY DEF TypeOK, TasksTypeOK
<1>t. task[n].pc = "fanout" => Target(n) \in Users
  BY <1>a, TargetType DEF AtTarget
<1>b. CASE task'[n] = task[n]
  BY <1>b, <1>t, HandledStep DEF OkHandled, Target
<1>c. CASE task'[n].pc \notin {"idle", "fanout"} /\ (task'[n].pc = "lookup" => ~task'[n].ok)
  BY <1>c DEF OkHandled
<1>1. ASSUME NEW m \in Msgs, Dispatch(m) PROVE OkHandled(n)'
  <2>1. CASE n # m
    BY <1>a, <1>b, <1>1, <2>1 DEF Dispatch
  <2>2. CASE n = m
    BY <1>a, <1>c, <1>1, <2>2 DEF Dispatch, OkHandled
  <2> QED
    BY <2>1, <2>2
<1>2. ASSUME NEW m \in Msgs, Lookup(m) PROVE OkHandled(n)'
  <2>1. CASE n # m
    BY <1>a, <1>b, <1>2, <2>1, LookupEffect
  <2>2. CASE n = m
    BY <1>a, <1>c, <1>2, <2>2, LookupEffect DEF OkHandled
  <2> QED
    BY <2>1, <2>2
<1>3. ASSUME NEW m \in Msgs, NEW c \in Conns, Fanout(m, c) PROVE OkHandled(n)'
  <2>1. /\ task'[n].pc = task[n].pc /\ Target(n)' = Target(n)
        /\ task'[n].ok => task[n].ok \/ (n = m /\ Accepts(c, m, FALSE))
    BY <1>a, <1>3, FanoutEffect DEF Target
  <2>2. CASE ~(n = m /\ Accepts(c, m, FALSE))
    BY <1>t, <2>1, <2>2, HandledStep DEF OkHandled
  <2>3. CASE n = m /\ Accepts(c, m, FALSE)
    <3>1. UserOf[c] = Target(m) /\ task[m].pc \in {"fanout", "refanout"}
      BY <1>3, <2>3 DEF Fanout, SnapOwned, AtTarget
    <3> QED
      BY <2>1, <2>3, <3>1 DEF Accepts, Handled, OkHandled
  <2> QED
    BY <2>2, <2>3
<1>4. ASSUME NEW m \in Msgs, SendReturns(m) PROVE OkHandled(n)'
  <2>1. CASE n # m
    BY <1>a, <1>b, <1>4, <2>1 DEF SendReturns
  <2>2. CASE n = m /\ task[m].ok
    BY <1>a, <1>c, <1>4, <2>2 DEF SendReturns, NextTarget
  <2>3. CASE n = m /\ ~task[m].ok
    BY <1>a, <1>c, <1>4, <2>3 DEF SendReturns, Tasks
  <2> QED
    BY <2>1, <2>2, <2>3
<1>5. ASSUME NEW m \in Msgs, Save(m) PROVE OkHandled(n)'
  BY <1>a, <1>b, <1>c, <1>5 DEF Save
<1>6. ASSUME NEW m \in Msgs, SaveFails(m) PROVE OkHandled(n)'
  BY <1>a, <1>b, <1>c, <1>6 DEF SaveFails
<1>7. ASSUME NEW m \in Msgs, Relookup(m) PROVE OkHandled(n)'
  BY <1>a, <1>b, <1>c, <1>7 DEF Relookup
<1>8. ASSUME NEW m \in Msgs, Delivered(m) PROVE OkHandled(n)'
  BY <1>a, <1>b, <1>c, <1>8 DEF Delivered, NextTarget, Tasks
<1>9. CASE UNCHANGED task
  BY <1>b, <1>9
<1> QED
  BY <1>1, <1>2, <1>3, <1>4, <1>5, <1>6, <1>7, <1>8, <1>9
  DEF Next, TaskSteps, ReplaySteps, vars, conVars, msgVars, Acknowledge,
      Connect, FindFails, FindPending, Forget, Insert, PeerLost, ReplayEnds,
      ReplayRow, Teardown, WriteFrame

LEMMA ServedSoFarStep == TypeOK /\ ServedSoFar /\ [Next]_vars => ServedSoFar'
<1> SUFFICES ASSUME TypeOK, ServedSoFar, [Next]_vars, NEW n \in Msgs
             PROVE  /\ \A i \in 1 .. Len(Plan[n]) :
                         Passed(n, i)' => Handled(Plan[n][i], n)'
                    /\ SnapOwned(n)'
                    /\ OkHandled(n)'
  BY DEF ServedSoFar
<1>1. SnapOwned(n)' /\ OkHandled(n)'
  BY SnapStep, OkStep DEF ServedSoFar
<1>2. ASSUME NEW i \in 1 .. Len(Plan[n]), Passed(n, i)'
      PROVE  Handled(Plan[n][i], n)'
  <2>0. TasksTypeOK /\ Plan[n][i] \in Users
    BY PlanType DEF TypeOK
  <2>1. CASE Passed(n, i)
    BY <2>0, <2>1, HandledStep DEF ServedSoFar
  <2>2. CASE i = task[n].i /\ Save(n)
    BY <2>2 DEF Save, Handled, Target
  <2>3. CASE i = task[n].i /\ SendReturns(n) /\ task[n].ok
    <3>1. Handled(Plan[n][i], n)
      BY <2>3 DEF ServedSoFar, OkHandled, SendReturns, Target
    <3> QED
      BY <2>0, <3>1, HandledStep
  <2> QED
    BY <1>2, <2>0, <2>1, <2>2, <2>3, PassedStep
<1> QED
  BY <1>1, <1>2

LEMMA SavedInTurnStep == TypeOK /\ SavedInTurn /\ [Next]_vars => SavedInTurn'
<1> SUFFICES ASSUME TypeOK, SavedInTurn, [Next]_vars
             PROVE  SavedInTurn'
  OBVIOUS
<1>0. TasksTypeOK
  BY DEF TypeOK
<1>1. /\ store' \subseteq saved'
      /\ \A r \in saved' : r \in saved \/ \E m \in Msgs : Save(m) /\ r = <<Target(m), m>>
  BY DEF SavedInTurn, Next, TaskSteps, ReplaySteps, vars, conVars, msgVars, Acknowledge,
      Connect, FindFails, FindPending, Forget, Insert, PeerLost, ReplayEnds,
      ReplayRow, Teardown, WriteFrame, Dispatch, Lookup, Fanout, SendReturns, Save,
      SaveFails, Relookup, Delivered
<1>2. ASSUME NEW n \in Msgs, NEW u \in Users, <<u, n>> \in saved'
      PROVE  \E i \in 1 .. Len(Plan[n]) : Plan[n][i] = u /\ Passed(n, i)'
  <2>1. CASE <<u, n>> \in saved
    <3>1. PICK i \in 1 .. Len(Plan[n]) : Plan[n][i] = u /\ Passed(n, i)
      BY <2>1 DEF SavedInTurn
    <3> QED
      BY <1>0, <3>1, PassedStep
  <2>2. CASE \E m \in Msgs : Save(m) /\ <<u, n>> = <<Target(m), m>>
    <3>1. Save(n) /\ u = Target(n)
      BY <2>2
    <3>2. task[n].i \in 1 .. Len(Plan[n])
      BY <1>0, <3>1 DEF TasksTypeOK, Save, AtTarget
    <3>3. task'[n].i = task[n].i /\ task'[n].pc = "relookup"
      BY <1>0, <3>1 DEF TasksTypeOK, Tasks, Save
    <3> QED
      BY <3>1, <3>2, <3>3 DEF Passed, Target
  <2> QED
    BY <1>1, <1>2, <2>1, <2>2
<1> QED
  BY <1>1, <1>2 DEF SavedInTurn

LEMMA AcceptedAtEndStep == TypeOK /\ AcceptedAtEnd /\ [Next]_vars => AcceptedAtEnd'
<1> SUFFICES ASSUME TypeOK, AcceptedAtEnd, [Next]_vars, NEW n \in Msgs, task'[n].pc = "accepted"
             PROVE  task'[n].i = Len(Plan[n])
  BY DEF AcceptedAtEnd
<1>a. task \in [Msgs -> Tasks] /\ task[n] \in Tasks /\ Len(Plan[n]) \in Nat
  BY PlanType DEF TypeOK, TasksTypeOK
<1>b. CASE task'[n] = task[n]
  BY <1>b DEF AcceptedAtEnd
<1>c. ASSUME AtTarget(n), task'[n] = NextTarget(task[n], n, task[n].count + 1)
      PROVE  task'[n].i = Len(Plan[n])
  <2>1. task[n].i \in 1 .. Len(Plan[n])
    BY <1>c DEF TypeOK, TasksTypeOK
  <2>2. ~(task[n].i < Len(Plan[n]))
    BY <1>c DEF NextTarget
  <2> QED
    BY <1>a, <1>c, <2>1, <2>2 DEF NextTarget
<1>1. ASSUME NEW m \in Msgs, SendReturns(m) PROVE task'[n].i = Len(Plan[n])
  <2>1. CASE n # m
    BY <1>a, <1>b, <1>1, <2>1 DEF SendReturns
  <2>2. CASE n = m /\ task[m].ok
    BY <1>a, <1>c, <1>1, <2>2 DEF SendReturns, AtTarget
  <2>3. CASE n = m /\ ~task[m].ok
    BY <1>a, <1>1, <2>3 DEF SendReturns, Tasks
  <2> QED
    BY <2>1, <2>2, <2>3
<1>2. ASSUME NEW m \in Msgs, Delivered(m) PROVE task'[n].i = Len(Plan[n])
  <2>1. CASE n # m
    BY <1>a, <1>b, <1>2, <2>1 DEF Delivered
  <2>2. CASE n = m
    BY <1>a, <1>c, <1>2, <2>2 DEF Delivered, AtTarget
  <2> QED
    BY <2>1, <2>2
<1>3. ASSUME NEW m \in Msgs, NEW c \in Conns, Fanout(m, c) PROVE task'[n].i = Len(Plan[n])
  BY <1>a, <1>3, FanoutEffect DEF AcceptedAtEnd
<1>4. ASSUME NEW m \in Msgs, Lookup(m) PROVE task'[n].i = Len(Plan[n])
  BY <1>a, <1>b, <1>4, LookupEffect
<1>5. ASSUME NEW m \in Msgs, Dispatch(m) PROVE task'[n].i = Len(Plan[n])
  BY <1>a, <1>b, <1>5 DEF Dispatch
<1>6. ASSUME NEW m \in Msgs, Save(m) \/ SaveFails(m) \/ Relookup(m)
      PROVE task'[n].i = Len(Plan[n])
  <2>1. CASE n # m
    BY <1>a, <1>b, <1>6, <2>1 DEF Save, SaveFails, Relookup
  <2>2. CASE n = m
    BY <1>a, <1>6, <2>2 DEF Save, SaveFails, Relookup, Tasks
  <2> QED
    BY <2>1, <2>2
<1>7. CASE UNCHANGED task
  BY <1>b, <1>7
<1> QED
  BY <1>1, <1>2, <1>3, <1>4, <1>5, <1>6, <1>7
  DEF Next, TaskSteps, ReplaySteps, vars, conVars, msgVars, Acknowledge,
      Connect, FindFails, FindPending, Forget, Insert, PeerLost, ReplayEnds,
      ReplayRow, Teardown, WriteFrame

LEMMA FreeIsUnusedStep == TypeOK /\ FreeIsUnused /\ [Next]_vars => FreeIsUnused'
<1> SUFFICES ASSUME TypeOK, FreeIsUnused, [Next]_vars, NEW d \in Conns, sess'[d] = "none"
             PROVE  /\ offered'[d] = {} /\ replay'[d].pc = "aborted"
                    /\ \A n \in Msgs : d \notin task'[n].snap
  BY DEF FreeIsUnused
<1> DEFINE Goal == /\ offered'[d] = {} /\ replay'[d].pc = "aborted"
                   /\ \A n \in Msgs : d \notin task'[n].snap
<1>a. /\ sess \in [Conns -> {"none", "open", "closed"}]
      /\ task \in [Msgs -> Tasks]
      /\ replay \in [Conns -> Replays]
      /\ offered \in [Conns -> SUBSET Msgs]
      /\ \A u \in Users : \A c \in connections[u] : sess[c] # "none"
  BY DEF TypeOK, SessionsTypeOK, RowsTypeOK, TasksTypeOK
<1>b. sess[d] = "none" => /\ offered[d] = {} /\ replay[d].pc = "aborted"
                          /\ \A n \in Msgs : d \notin task[n].snap
  BY DEF FreeIsUnused
<1>1. ASSUME NEW c \in Conns, Connect(c) PROVE Goal
  <2>1. d # c /\ sess[d] = "none"
    BY <1>1, <1>a DEF Connect
  <2> QED
    BY <1>1, <1>a, <1>b, <2>1 DEF Connect
<1>2. ASSUME NEW c \in Conns, Forget(c) PROVE Goal
  BY <1>2, <1>a, <1>b DEF Forget
<1>3. ASSUME NEW c \in Conns, Teardown(c) PROVE Goal
  BY <1>3, <1>a, <1>b DEF Teardown, Closes, msgVars
<1>r. ASSUME NEW c \in Conns, Refuses(c) PROVE sess[d] = "none" /\ offered' = offered
  BY <1>r, <1>a DEF Refuses, Closes
<1>4. ASSUME NEW m \in Msgs, NEW c \in Conns, Fanout(m, c) PROVE Goal
  <2>1. c \in task[m].snap /\ replay' = replay
    BY <1>4 DEF Fanout
  <2>2. sess[d] = "none"
    BY <1>4, <1>r DEF Fanout, Accepts
  <2>3. d # c
    BY <1>b, <2>1, <2>2
  <2>4. offered'[d] = offered[d]
    BY <1>4, <1>a, <1>r, <2>3 DEF Fanout, Accepts
  <2>5. ASSUME NEW n \in Msgs PROVE task'[n].snap \subseteq task[n].snap
    <3>1. task[m] \in Tasks
      BY <1>a
    <3>2. CASE task' = [task EXCEPT ![m].snap = @ \ {c}, ![m].ok = TRUE]
      BY <1>a, <3>1, <3>2 DEF Tasks
    <3>3. CASE task' = [task EXCEPT ![m].snap = @ \ {c}]
      BY <1>a, <3>1, <3>3 DEF Tasks
    <3> QED
      BY <1>4, <3>2, <3>3 DEF Fanout
  <2> QED
    BY <1>b, <2>1, <2>2, <2>4, <2>5
<1>5. ASSUME NEW c \in Conns, NEW m \in Msgs, ReplayRow(c, m) PROVE Goal
  <2>1. replay[c].pc = "sending" /\ task' = task
    BY <1>5 DEF ReplayRow
  <2>2. sess[d] = "none"
    BY <1>5, <1>r DEF ReplayRow, Accepts
  <2>3. d # c
    BY <1>b, <2>1, <2>2
  <2>4. offered'[d] = offered[d] /\ replay'[d] = replay[d]
    BY <1>5, <1>a, <1>r, <2>3 DEF ReplayRow, Accepts
  <2> QED
    BY <1>b, <2>1, <2>2, <2>4
<1>6. ASSUME NEW m \in Msgs, Lookup(m) PROVE Goal
  <2>1. Target(m) \in Users
    BY <1>6, TargetType DEF TypeOK, AtTarget, Lookup
  <2>2. sess[d] = "none" /\ offered' = offered /\ replay' = replay
    BY <1>6 DEF Lookup, conVars
  <2>3. d \notin connections[Target(m)]
    BY <1>a, <2>1, <2>2
  <2>4. ASSUME NEW n \in Msgs PROVE d \notin task'[n].snap
    BY <1>6, <1>a, <1>b, <2>2, <2>3, LookupEffect
  <2> QED
    BY <1>b, <2>2, <2>4
<1>7. ASSUME NEW m \in Msgs, Relookup(m) PROVE Goal
  <2>1. Target(m) \in Users
    BY <1>7, TargetType DEF TypeOK, AtTarget, Relookup
  <2>2. sess[d] = "none" /\ offered' = offered /\ replay' = replay
    BY <1>7 DEF Relookup, conVars
  <2>3. d \notin connections[Target(m)]
    BY <1>a, <2>1, <2>2
  <2>4. ASSUME NEW n \in Msgs PROVE task'[n].snap \in {task[n].snap, connections[Target(m)]}
    <3>1. task[m] \in Tasks
      BY <1>a
    <3> QED
      BY <1>7, <1>a, <3>1 DEF Relookup, Tasks
  <2> QED
    BY <1>b, <2>2, <2>3, <2>4
<1>8. ASSUME NEW m \in Msgs,
             Dispatch(m) \/ SendReturns(m) \/ Save(m) \/ SaveFails(m) \/ Delivered(m)
      PROVE  Goal
  <2>1. UNCHANGED <<sess, offered, replay>>
    BY <1>8 DEF Dispatch, SendReturns, Save, SaveFails, Delivered, conVars
  <2>2. ASSUME NEW n \in Msgs PROVE task'[n].snap \in {task[n].snap, {}}
    <3>1. task[m] \in Tasks
      BY <1>a
    <3>2. n # m => task'[n] = task[n]
      BY <1>8, <1>a DEF Dispatch, SendReturns, Save, SaveFails, Delivered
    <3>3. CASE SendReturns(m)
      <4>1. \/ task'[m] = NextTarget(task[m], m, task[m].count + 1)
            \/ task'[m] = [task[m] EXCEPT !.pc = "save"]
        BY <1>a, <3>3 DEF SendReturns
      <4> QED
        BY <3>1, <3>2, <4>1 DEF NextTarget, Tasks
    <3>4. CASE Delivered(m)
      <4>1. task'[m] = NextTarget(task[m], m, task[m].count + 1)
        BY <1>a, <3>4 DEF Delivered
      <4> QED
        BY <3>2, <4>1 DEF NextTarget
    <3>5. CASE Dispatch(m)
      BY <1>a, <3>1, <3>2, <3>5 DEF Dispatch, Tasks
    <3>6. CASE Save(m)
      BY <1>a, <3>1, <3>2, <3>6 DEF Save, Tasks
    <3>7. CASE SaveFails(m)
      BY <1>a, <3>1, <3>2, <3>7 DEF SaveFails, Tasks
    <3> QED
      BY <1>8, <3>3, <3>4, <3>5, <3>6, <3>7
  <2> QED
    BY <1>b, <2>1, <2>2
<1>9. ASSUME NEW c \in Conns, FindPending(c) \/ FindFails(c) \/ ReplayEnds(c) PROVE Goal
  <2>1. UNCHANGED <<sess, offered, task>> /\ replay[c].pc # "aborted"
    BY <1>9 DEF FindPending, FindFails, ReplayEnds, conVars
  <2>2. d # c
    BY <1>b, <2>1
  <2>3. replay'[d] = replay[d]
    BY <1>9, <1>a, <2>2 DEF FindPending, FindFails, ReplayEnds
  <2> QED
    BY <1>b, <2>1, <2>3
<1>10. CASE UNCHANGED <<sess, offered, replay, task>>
  BY <1>b, <1>10
<1> QED
  BY <1>1, <1>2, <1>3, <1>4, <1>5, <1>6, <1>7, <1>8, <1>9, <1>10
  DEF Next, TaskSteps, ReplaySteps, vars, conVars, msgVars, Acknowledge,
      Insert, PeerLost, WriteFrame

\* Appending keeps the frames of a buffer, and taking the head loses no other.
LEMMA FramesStay ==
  ASSUME NEW q \in Seq(Frames), NEW m \in Msgs
  PROVE  /\ \A f \in Frames :
              f.msg = m \/ (\E i \in 1 .. Len(q) : q[i].msg = m) =>
                \E i \in 1 .. Len(Append(q, f)) : Append(q, f)[i].msg = m
         /\ q # <<>> /\ (\E i \in 1 .. Len(q) : q[i].msg = m) =>
              \/ Head(q).msg = m
              \/ \E i \in 1 .. Len(Tail(q)) : Tail(q)[i].msg = m
<1>1. ASSUME NEW f \in Frames, f.msg = m \/ \E i \in 1 .. Len(q) : q[i].msg = m
      PROVE  \E i \in 1 .. Len(Append(q, f)) : Append(q, f)[i].msg = m
  <2>1. CASE f.msg = m
    <3>1. Len(q) + 1 \in 1 .. Len(Append(q, f)) /\ Append(q, f)[Len(q) + 1] = f
      OBVIOUS
    <3> QED
      BY <2>1, <3>1
  <2>2. CASE \E i \in 1 .. Len(q) : q[i].msg = m
    <3>1. PICK i \in 1 .. Len(q) : q[i].msg = m
      BY <2>2
    <3>2. i \in 1 .. Len(Append(q, f)) /\ Append(q, f)[i] = q[i]
      OBVIOUS
    <3> QED
      BY <3>1, <3>2
  <2> QED
    BY <1>1, <2>1, <2>2
<1>2. ASSUME q # <<>>, \E i \in 1 .. Len(q) : q[i].msg = m
      PROVE  Head(q).msg = m \/ \E i \in 1 .. Len(Tail(q)) : Tail(q)[i].msg = m
  <2>1. PICK i \in 1 .. Len(q) : q[i].msg = m
    BY <1>2
  <2>2. CASE i = 1
    BY <1>2, <2>1, <2>2
  <2>3. CASE i # 1
    <3>1. i - 1 \in 1 .. Len(Tail(q)) /\ Tail(q)[i - 1] = q[i]
      BY <1>2, <2>3
    <3> QED
      BY <2>1, <3>1
  <2> QED
    BY <2>2, <2>3
<1> QED
  BY <1>1, <1>2

LEMMA OffersArriveStep == TypeOK /\ FreeIsUnused /\ OffersArrive /\ [Next]_vars => OffersArrive'
<1> SUFFICES ASSUME TypeOK, FreeIsUnused, OffersArrive, [Next]_vars, NEW d \in Conns,
                    sess'[d] = "open", reach'[d], NEW n \in offered'[d]
             PROVE  Arrives(d, n)'
  BY DEF OffersArrive
<1>a. /\ sess \in [Conns -> {"none", "open", "closed"}]
      /\ reach \in [Conns -> BOOLEAN]
      /\ sendq \in [Conns -> Seq(Frames)] /\ sendq[d] \in Seq(Frames)
      /\ offered \in [Conns -> SUBSET Msgs]
  BY DEF TypeOK, SessionsTypeOK, RowsTypeOK
<1>b. sess[d] = "open" /\ reach[d] => \A m \in offered[d] : Arrives(d, m)
  BY DEF OffersArrive
<1>c. ASSUME sess[d] = "open", reach[d], n \in offered[d],
             inbox \subseteq inbox', sendq'[d] = sendq[d]
      PROVE  Arrives(d, n)'
  BY <1>b, <1>c DEF Arrives, InBuffer
<1>1. ASSUME NEW c \in Conns, Connect(c) PROVE Arrives(d, n)'
  <2>1. sess[c] = "none" /\ UNCHANGED <<offered, inbox, sendq>>
    BY <1>1 DEF Connect
  <2>2. d # c
    BY <2>1 DEF FreeIsUnused
  <2>3. sess[d] = "open" /\ reach[d]
    BY <1>1, <1>a, <2>2 DEF Connect
  <2> QED
    BY <1>c, <2>1, <2>3
<1>2. ASSUME NEW c \in Conns, Teardown(c) \/ Forget(c) PROVE Arrives(d, n)'
  <2>1. d # c /\ sess[d] = "open" /\ reach[d] /\ inbox' = inbox
    BY <1>2, <1>a DEF Teardown, Closes, Forget, msgVars
  <2>2. sendq'[d] = sendq[d] /\ offered'[d] = offered[d]
    BY <1>2, <1>a, <2>1 DEF Teardown, Forget, msgVars
  <2> QED
    BY <1>c, <2>1, <2>2
<1>3. ASSUME NEW c \in Conns, NEW m \in Msgs, NEW row \in BOOLEAN, Accepts(c, m, row),
             UNCHANGED <<reach, inbox>>
      PROVE  Arrives(d, n)'
  <2> DEFINE f == [msg |-> m, row |-> row]
  <2>1. f \in Frames /\ f.msg = m
    BY DEF Frames
  <2>2. sendq' = [sendq EXCEPT ![c] = Append(sendq[c], f)] /\ sess' = sess
        /\ offered' = [offered EXCEPT ![c] = offered[c] \cup {m}]
    BY <1>3 DEF Accepts
  <2> HIDE DEF f
  <2>3. CASE d # c
    BY <1>a, <1>c, <1>3, <2>2, <2>3
  <2>4. CASE d = c
    <3>1. sendq'[d] = Append(sendq[d], f) /\ (n = m \/ n \in offered[d]) /\ n \in Msgs
      BY <1>a, <2>2, <2>4
    <3>2. CASE n = m \/ InBuffer(d, n)
      <4>1. f.msg = n \/ \E i \in 1 .. Len(sendq[d]) : sendq[d][i].msg = n
        BY <2>1, <3>2 DEF InBuffer
      <4>2. \E i \in 1 .. Len(sendq'[d]) : sendq'[d][i].msg = n
        BY <1>a, <2>1, <3>1, <4>1, FramesStay
      <4> QED
        BY <4>2 DEF Arrives, InBuffer
    <3>3. CASE n # m /\ ~InBuffer(d, n)
      <4>1. Arrives(d, n)
        BY <1>b, <1>3, <2>2, <3>1, <3>3
      <4> QED
        BY <1>3, <3>3, <4>1 DEF Arrives
    <3> QED
      BY <3>2, <3>3
  <2> QED
    BY <2>3, <2>4
<1>4. ASSUME NEW c \in Conns, Refuses(c), UNCHANGED <<reach, inbox>> PROVE Arrives(d, n)'
  <2>1. sess[d] = "open" /\ sendq' = sendq /\ offered' = offered
    BY <1>4, <1>a DEF Refuses, Closes
  <2> QED
    BY <1>4, <1>c, <2>1
<1>5. ASSUME NEW c \in Conns, WriteFrame(c) PROVE Arrives(d, n)'
  <2>1. /\ sendq[c] # <<>> /\ sendq' = [sendq EXCEPT ![c] = Tail(sendq[c])]
        /\ UNCHANGED <<sess, reach, offered>>
        /\ reach[c] => inbox' = inbox \cup {<<UserOf[c], Head(sendq[c]).msg>>}
        /\ inbox \subseteq inbox'
    BY <1>5 DEF WriteFrame, conVars
  <2>2. CASE d # c
    BY <1>a, <1>c, <2>1, <2>2
  <2>3. CASE d = c
    <3>1. Arrives(d, n) /\ n \in Msgs /\ sendq'[d] = Tail(sendq[d]) /\ sendq[d] # <<>>
          /\ inbox' = inbox \cup {<<UserOf[d], Head(sendq[d]).msg>>}
      BY <1>a, <1>b, <2>1, <2>3
    <3>2. CASE <<UserOf[d], n>> \in inbox
      BY <3>1, <3>2 DEF Arrives
    <3>3. CASE InBuffer(d, n)
      <4>1. Head(sendq[d]).msg = n \/ \E i \in 1 .. Len(Tail(sendq[d])) : Tail(sendq[d])[i].msg = n
        BY <1>a, <3>1, <3>3, FramesStay DEF InBuffer
      <4> QED
        BY <3>1, <4>1 DEF Arrives, InBuffer
    <3> QED
      BY <3>1, <3>2, <3>3 DEF Arrives
  <2> QED
    BY <2>2, <2>3
<1>6. ASSUME NEW c \in Conns, PeerLost(c) PROVE Arrives(d, n)'
  <2>1. sess[d] = "open" /\ reach[d] /\ UNCHANGED <<inbox, sendq, offered>>
    BY <1>6, <1>a DEF PeerLost, msgVars
  <2> QED
    BY <1>c, <2>1
<1>7. CASE UNCHANGED <<sess, reach, sendq, offered, inbox>>
  BY <1>7, <1>c
<1>8. ASSUME NEW m \in Msgs, NEW c \in Conns, Fanout(m, c) PROVE Arrives(d, n)'
  BY <1>3, <1>4, <1>8 DEF Fanout
<1>9. ASSUME NEW c \in Conns, NEW m \in Msgs, ReplayRow(c, m) PROVE Arrives(d, n)'
  BY <1>3, <1>4, <1>9 DEF ReplayRow
<1> QED
  BY <1>1, <1>2, <1>5, <1>6, <1>7, <1>8, <1>9
  DEF Next, TaskSteps, ReplaySteps, vars, conVars, msgVars, Acknowledge, Delivered,
      Dispatch, FindFails, FindPending, Insert, Lookup, Relookup, ReplayEnds, Save,
      SaveFails, SendReturns

-----------------------------------------------------------------------------
(* The theorems.                                                           *)

LEMMA RelayInvInit == Init => RelayInv
<1> SUFFICES ASSUME Init
             PROVE  RelayInv
  OBVIOUS
<1>1. TypeOK
  BY TypeInit
<1>2. LoopWaits
  BY DEF Init, LoopWaits
<1>5. FreeIsUnused /\ OffersArrive
  BY DEF Init, FreeIsUnused, OffersArrive, NoReplay
<1>3. WakeupPending /\ AcksAreReceived /\ KeptUntilReceived /\ SavedInTurn
  BY DEF Init, WakeupPending, Unoffered, AcksAreReceived, KeptUntilReceived, SavedInTurn
<1>4. ServedSoFar /\ AcceptedAtEnd
  BY PlanType DEF Init, ServedSoFar, Passed, SnapOwned, OkHandled, AtTarget, AcceptedAtEnd
<1> QED
  BY <1>1, <1>2, <1>3, <1>4, <1>5 DEF RelayInv

LEMMA RelayInvStep == RelayInv /\ [Next]_vars => RelayInv'
BY TypeStep, LoopWaitsStep, WakeupPendingStep, FreeIsUnusedStep, OffersArriveStep,
   ReceivedStep, ServedSoFarStep, SavedInTurnStep, AcceptedAtEndStep
DEF RelayInv

LEMMA RelayInvHolds == Spec => []RelayInv
BY RelayInvInit, RelayInvStep, PTL DEF Spec

\* Every reachable state is well typed, and no Dispatch call ever reads a target
\* past the end of its plan (message_dispatch_service.go).
THEOREM TypeCorrect == Spec => []TypeOK
<1>1. RelayInv => TypeOK
  BY DEF RelayInv
<1> QED
  BY <1>1, RelayInvHolds, PTL

\* However many sessions, messages and recipients there are, a row inserted
\* while its recipient connects is offered to that session, and a client that is
\* still there gets it: the order "save, then look" of delivery.go and "register,
\* then read" of http_handler.go leave no gap between them.
THEOREM NoWakeupIsMissed == Spec => []NoMissedWakeup
<1>1. WakeupPending /\ OffersArrive => NoMissedWakeup
  BY DEF WakeupPending, NoMissedWakeup, Unoffered, AboutToOffer, AtTarget, OffersArrive, Arrives
<1>2. RelayInv => WakeupPending /\ OffersArrive
  BY DEF RelayInv
<1> QED
  BY <1>1, <1>2, RelayInvHolds, PTL

\* No row leaves the envelope table before its recipient received the message.
THEOREM RowsAreKept == Spec => []KeptUntilReceived
<1>1. RelayInv => KeptUntilReceived
  BY DEF RelayInv
<1> QED
  BY <1>1, RelayInvHolds, PTL

\* A Dispatch that reports success has saved or buffered the message for every
\* target of its plan, whatever the plan.
THEOREM AcceptedMeansHandled == Spec => []AcceptedIsHandled
<1>1. RelayInv => AcceptedIsHandled
  <2> SUFFICES ASSUME RelayInv, NEW m \in Msgs, task[m].pc = "accepted",
                      NEW i \in 1 .. Len(Plan[m])
               PROVE  <<Plan[m][i], m>> \in saved \cup buffered
    BY DEF AcceptedIsHandled
  <2>1. task[m].i = Len(Plan[m]) /\ Len(Plan[m]) \in Nat
    BY PlanType DEF RelayInv, AcceptedAtEnd
  <2>2. Passed(m, i)
    BY <2>1 DEF Passed
  <2> QED
    BY <2>2 DEF RelayInv, ServedSoFar, Handled
<1> QED
  BY <1>1, RelayInvHolds, PTL

-----------------------------------------------------------------------------
(* The envelope table implements Mailbox.                                  *)

\* A call saves a row once: when it stands at a target, the target's row does
\* not exist yet, since no plan names a user twice.
LEMMA SaveIsNew ==
  ASSUME RelayInv, NEW m \in Msgs, Save(m)
  PROVE  <<Target(m), m>> \in Rows /\ <<Target(m), m>> \notin saved
<1>1. TasksTypeOK /\ AtTarget(m) /\ task[m].pc = "save"
  BY DEF RelayInv, TypeOK, Save, AtTarget
<1>2. Target(m) \in Users /\ task[m].i \in 1 .. Len(Plan[m])
  BY <1>1, TargetType DEF TasksTypeOK
<1>3. ASSUME <<Target(m), m>> \in saved
      PROVE  FALSE
  <2>1. PICK i \in 1 .. Len(Plan[m]) : Plan[m][i] = Target(m) /\ Passed(m, i)
    BY <1>2, <1>3 DEF RelayInv, SavedInTurn
  <2>2. i = task[m].i
    BY <1>2, <2>1, RelayAssumption DEF Target
  <2> QED
    BY <1>1, <1>2, <2>1, <2>2 DEF Passed
<1> QED
  BY <1>2, <1>3 DEF Rows

LEMMA MailboxInitial == Init => Kept!MailboxInit
BY DEF Init, Kept!MailboxInit, Box

LEMMA MailboxStep == RelayInv /\ RelayInv' /\ [Next]_vars => [Kept!MailboxNext]_<<Box, inbox>>
<1> SUFFICES ASSUME RelayInv, RelayInv', [Next]_vars
             PROVE  [Kept!MailboxNext]_<<Box, inbox>>
  OBVIOUS
<1>a. CASE UNCHANGED <<store, saved, inbox>>
  BY <1>a DEF Box
<1>1. ASSUME NEW m \in Msgs, Save(m) PROVE [Kept!MailboxNext]_<<Box, inbox>>
  <2> DEFINE r == <<Target(m), m>>
  <2>1. r \in Rows /\ r \notin saved /\ r \notin store
    BY <1>1, SaveIsNew DEF RelayInv, SavedInTurn
  <2>2. store' = store \cup {r} /\ saved' = saved \cup {r} /\ inbox' = inbox
    BY <1>1 DEF Save
  <2> HIDE DEF r
  <2>3. Box[r] = "absent" /\ Box' = [Box EXCEPT ![r] = "waiting"]
    BY <2>1, <2>2 DEF Box
  <2>4. Kept!Post(r)
    BY <2>2, <2>3 DEF Kept!Post
  <2> QED
    BY <2>1, <2>4 DEF Kept!MailboxNext
<1>2. ASSUME NEW c \in Conns, WriteFrame(c) PROVE [Kept!MailboxNext]_<<Box, inbox>>
  <2>1. CASE ~reach[c]
    BY <1>2, <1>a, <2>1 DEF WriteFrame
  <2>2. CASE reach[c]
    <3> DEFINE r == <<UserOf[c], Head(sendq[c]).msg>>
    <3>1. inbox' = inbox \cup {r} /\ store' = store /\ saved' = saved
      BY <1>2, <2>2 DEF WriteFrame
    <3>2. r \in Rows
      BY <3>1 DEF RelayInv, TypeOK, RowsTypeOK
    <3> HIDE DEF r
    <3>3. Kept!Deliver(r)
      BY <3>1 DEF Kept!Deliver, Box
    <3> QED
      BY <3>2, <3>3 DEF Kept!MailboxNext
  <2> QED
    BY <2>1, <2>2
<1>3. ASSUME NEW c \in Conns, NEW m \in Msgs, Acknowledge(c, m)
      PROVE  [Kept!MailboxNext]_<<Box, inbox>>
  <2> DEFINE r == <<UserOf[c], m>>
  <2>1. r \in Rows /\ r \in inbox
    BY <1>3, OwnerType DEF Acknowledge, RelayInv, AcksAreReceived, Rows
  <2>2. saved' = saved /\ inbox' = inbox
    BY <1>3 DEF Acknowledge
  <2>3. store' = store \/ store' = store \ {r}
    BY <1>3 DEF Acknowledge
  <2> HIDE DEF r
  <2>4. CASE store' = store \/ r \notin store
    BY <1>a, <2>2, <2>3, <2>4
  <2>5. CASE store' = store \ {r} /\ r \in store
    <3>1. r \in saved
      BY <2>5 DEF RelayInv, SavedInTurn
    <3>2. Box[r] = "waiting" /\ Box' = [Box EXCEPT ![r] = "removed"]
      BY <2>1, <2>2, <2>5, <3>1 DEF Box
    <3>3. Kept!Remove(r)
      BY <2>1, <2>2, <3>2 DEF Kept!Remove
    <3> QED
      BY <2>1, <3>3 DEF Kept!MailboxNext
  <2> QED
    BY <2>3, <2>4, <2>5
<1> QED
  BY <1>a, <1>1, <1>2, <1>3
  DEF Next, TaskSteps, ReplaySteps, vars, conVars, msgVars,
      Connect, FindFails, FindPending, Forget, Insert, PeerLost, ReplayEnds,
      ReplayRow, Teardown, Dispatch, Lookup, Fanout, SendReturns, SaveFails,
      Relookup, Delivered

\* The envelope table keeps the promise of Mailbox in every execution: a row is
\* posted once, removed only after its recipient had it, and never comes back
\* (delivery.go, pending_delivery.go, router.go deleteByID together).
THEOREM StoreImplementsMailbox == Spec => KeepsMailboxSafety
<1>1. Init => Kept!MailboxInit
  BY MailboxInitial
<1>2. RelayInv /\ RelayInv' /\ [Next]_vars => [Kept!MailboxNext]_<<Box, inbox>>
  BY MailboxStep
<1> QED
  BY <1>1, <1>2, RelayInvHolds, PTL
  DEF Spec, KeepsMailboxSafety, Kept!MailboxSafety, Kept!mailboxVars

-----------------------------------------------------------------------------
(* The life of a session, as in Hub but with coarser steps.                *)

Place == [c \in Conns |->
  IF sess[c] = "none" THEN "new"
  ELSE IF sess[c] = "closed" THEN "closed"
  ELSE IF loop = c THEN "handed"
  ELSE IF c \in connections[UserOf[c]] THEN "listed" ELSE "taken"]

Lives == INSTANCE Sessions WITH place <- Place

LEMMA LifeInit == Init => Lives!SessionsInit
BY DEF Init, Lives!SessionsInit, Place

\* A teardown in one step: of an open session, whatever the map says of it.
LEMMA LifeCloses ==
  ASSUME SessionsTypeOK, NEW c \in Conns, sess[c] = "open", Closes(c), loop' = loop
  PROVE  [Lives!SessionsNext]_Place
<1>1. /\ sess'[c] = "closed"
      /\ \A d \in Conns \ {c} : /\ sess'[d] = sess[d]
                                /\ d \in connections'[UserOf[d]] <=> d \in connections[UserOf[d]]
  BY OwnerType DEF Closes, SessionsTypeOK
<1>2. ASSUME NEW d \in Conns \ {c} PROVE Place'[d] = Place[d]
  BY <1>1 DEF Place
<1>3. Place[c] \in {"handed", "listed", "taken"} /\ Place'[c] = "closed"
  BY <1>1 DEF Place
<1>4. Place' = [Place EXCEPT ![c] = "closed"]
  BY <1>2, <1>3 DEF Place
<1>5. Lives!Close(c)
  BY <1>3, <1>4 DEF Lives!Close
<1> QED
  BY <1>5 DEF Lives!SessionsNext

LEMMA LifeStep == SessionsTypeOK /\ [Next]_vars => [Lives!SessionsNext]_Place
<1> SUFFICES ASSUME SessionsTypeOK, [Next]_vars
             PROVE  [Lives!SessionsNext]_Place
  OBVIOUS
<1>t. /\ connections \in [Users -> SUBSET Conns]
      /\ \A u \in Users : \A c \in connections[u] : UserOf[c] = u /\ sess[c] # "none"
      /\ sess \in [Conns -> {"none", "open", "closed"}]
      /\ loop # None => loop \in Conns /\ sess[loop] # "none"
  BY DEF SessionsTypeOK
<1>s. CASE UNCHANGED <<sess, loop, connections>>
  BY <1>s DEF Place
<1>1. ASSUME NEW c \in Conns, Connect(c) PROVE [Lives!SessionsNext]_Place
  <2> DEFINE replaced == {d \in connections[UserOf[c]] : sess[d] = "open"}
  <2>1. /\ sess[c] = "none" /\ loop = None /\ loop' = c
        /\ connections' = [connections EXCEPT ![UserOf[c]] = {}]
        /\ sess' = [d \in Conns |-> IF d = c THEN "open"
                                    ELSE IF d \in connections[UserOf[c]] THEN "closed"
                                    ELSE sess[d]]
    BY <1>1 DEF Connect
  <2>2. loop \notin Conns
    BY <2>1, RelayAssumption
  <2>3. Place[c] = "new" /\ \A d \in Conns : Place[d] # "handed"
    BY <2>1, <2>2 DEF Place
  <2>4. replaced \in SUBSET Conns /\ replaced \subseteq Lives!Listed
    BY <1>t, <2>2, OwnerType DEF Lives!Listed, Place
  <2>5. ASSUME NEW d \in Conns
        PROVE  Place'[d] = IF d = c THEN "handed"
                           ELSE IF d \in replaced THEN "closed" ELSE Place[d]
    <3>1. CASE d = c
      BY <2>1, <3>1 DEF Place
    <3>2. CASE d # c /\ d \in connections[UserOf[c]]
      <4>1. sess'[d] = "closed" /\ sess[d] \in {"open", "closed"}
        BY <1>t, <2>1, <3>2, OwnerType
      <4> QED
        BY <3>2, <4>1 DEF Place
    <3>3. CASE d # c /\ d \notin connections[UserOf[c]]
      <4>1. sess'[d] = sess[d] /\ loop' # d /\ loop # d
        BY <2>1, <2>2, <3>3
      <4>2. d \in connections'[UserOf[d]] <=> d \in connections[UserOf[d]]
        BY <1>t, <2>1, <3>3, OwnerType
      <4> QED
        BY <3>3, <4>1, <4>2 DEF Place
    <3> QED
      BY <3>1, <3>2, <3>3
  <2> HIDE DEF replaced
  <2>6. Lives!Hand(c, replaced)
    BY <2>3, <2>4, <2>5 DEF Lives!Hand, Place
  <2> QED
    BY <2>4, <2>6 DEF Lives!SessionsNext
<1>2. CASE Insert
  <2>1. /\ loop \in Conns /\ loop' = None /\ sess' = sess /\ sess[loop] \in {"open", "closed"}
        /\ connections' = [connections EXCEPT ![UserOf[loop]] = connections[UserOf[loop]] \cup {loop}]
    BY <1>2, <1>t DEF Insert
  <2>2. /\ loop' # loop /\ \A d \in Conns : loop' # d
        /\ loop \in connections'[UserOf[loop]]
        /\ \A d \in Conns \ {loop} : d \in connections'[UserOf[d]] <=> d \in connections[UserOf[d]]
    BY <1>t, <2>1, OwnerType, RelayAssumption
  <2>3. ASSUME NEW d \in Conns \ {loop} PROVE Place'[d] = Place[d]
    BY <2>1, <2>2 DEF Place
  <2>4. CASE sess[loop] = "open"
    <3>1. Place[loop] = "handed" /\ Place'[loop] = "listed"
      BY <2>1, <2>2, <2>4 DEF Place
    <3>2. Place' = [Place EXCEPT ![loop] = "listed"]
      BY <2>1, <2>3, <3>1 DEF Place
    <3>3. Lives!Enter(loop)
      BY <3>1, <3>2 DEF Lives!Enter
    <3> QED
      BY <2>1, <3>3 DEF Lives!SessionsNext
  <2>5. CASE sess[loop] = "closed"
    <3>1. Place'[loop] = Place[loop]
      BY <2>1, <2>5 DEF Place
    <3>2. Place' = Place
      BY <2>1, <2>3, <3>1 DEF Place
    <3> QED
      BY <3>2
  <2> QED
    BY <2>1, <2>4, <2>5
<1>3. ASSUME NEW c \in Conns, Teardown(c) PROVE [Lives!SessionsNext]_Place
  BY <1>3, LifeCloses DEF Teardown
<1>4. ASSUME NEW c \in Conns, Forget(c) PROVE [Lives!SessionsNext]_Place
  <2>1. sess[c] = "closed" /\ sess' = [sess EXCEPT ![c] = "none"] /\ UNCHANGED <<loop, connections>>
    BY <1>4 DEF Forget
  <2>2. Place[c] = "closed" /\ Place' = [Place EXCEPT ![c] = "new"]
    BY <1>t, <2>1 DEF Place
  <2>3. Lives!Reuse(c)
    BY <2>2 DEF Lives!Reuse
  <2> QED
    BY <2>3 DEF Lives!SessionsNext
<1>5. ASSUME NEW c \in Conns, Refuses(c), loop' = loop PROVE [Lives!SessionsNext]_Place
  <2>1. CASE UNCHANGED <<sess, connections>>
    BY <1>5, <1>s, <2>1
  <2>2. CASE sess[c] = "open" /\ Closes(c)
    BY <1>5, <2>2, LifeCloses
  <2> QED
    BY <1>5, <2>1, <2>2 DEF Refuses
<1>6. ASSUME NEW m \in Msgs, NEW c \in Conns, Fanout(m, c) PROVE [Lives!SessionsNext]_Place
  BY <1>5, <1>6, <1>s DEF Fanout, Accepts
<1>7. ASSUME NEW c \in Conns, NEW m \in Msgs, ReplayRow(c, m) PROVE [Lives!SessionsNext]_Place
  BY <1>5, <1>7, <1>s DEF ReplayRow, Accepts
<1> QED
  BY <1>s, <1>1, <1>2, <1>3, <1>4, <1>6, <1>7
  DEF Next, TaskSteps, ReplaySteps, vars, conVars, Acknowledge, Delivered, Dispatch,
      FindFails, FindPending, Lookup, PeerLost, Relookup, ReplayEnds, Save, SaveFails,
      SendReturns, WriteFrame

\* The sessions of Relay live as those of Hub do: what Relay does in one step,
\* an eviction with its teardowns or a teardown, is within the promise of
\* Sessions that Hub keeps step by step (hub.go, connection.go Teardown).
THEOREM RelayImplementsSessions == Spec => Lives!SessionsSpec
<1>1. Init => Lives!SessionsInit
  BY LifeInit
<1>2. RelayInv /\ [Next]_vars => [Lives!SessionsNext]_Place
  BY LifeStep DEF RelayInv, TypeOK
<1> QED
  BY <1>1, <1>2, RelayInvHolds, PTL DEF Spec, Lives!SessionsSpec
=============================================================================
