---------------------------- MODULE EventsProofs ----------------------------
(***************************************************************************)
(* Proofs about domain events: the calls of Router.publish stand where the *)
(* type invariant says, and an event that went out to the other servers is *)
(* kept for each of its targets until a session of the target took it, for *)
(* any number of servers, users, events and failed inserts.  The inductive *)
(* invariant says the same of the targets that a call of publish has       *)
(* behind it: the rows and what was offered only grow together.            *)
(*                                                                         *)
(* The second part is about chats: the limit of members, participant_count *)
(* and the plans of messages under any number of transactions at once.  Its *)
(* inductive invariant says what each transaction may have written at each *)
(* step and what its own count still stands for, and what a plan knows.    *)
(***************************************************************************)
EXTENDS Events, FiniteSetTheorems, TLAPS

\* The part on chats: its own constants and variables.
CONSTANTS Calls, Sends, BotIds, Owner, Chat, ChatType, Verification, Rest

VARIABLES exists, members, count, lock, call, reader, send, crowded, stale

Group == INSTANCE Chats

Task == [pc : {"new", "idle", "deliver", "save", "publish"},
         ev : EventIds \cup {None}, i : Nat]

\* Where a call of publish may stand.
Stands(t) ==
  /\ t.pc \in {"deliver", "save"} => t.ev \in EventIds /\ t.i \in 1 .. Len(Targets[t.ev])
  /\ t.pc = "publish" => t.ev \in EventIds

\* What was taken by a session or is kept for one.
Kept == rows \cup offered

\* The first n targets of an event are among them.
Served(kept, e, n) == \A i \in 1 .. n : <<Targets[e][i], e>> \in kept

\* A call of publish served the targets behind it, and all of them when the
\* other servers are to hear of the event.
Serves(kept, t) ==
  /\ t.pc \in {"deliver", "save"} => Served(kept, t.ev, t.i - 1)
  /\ t.pc = "publish" => Served(kept, t.ev, Len(Targets[t.ev]))

CallsServe == \A k \in Publishers : Serves(Kept, task[k])

EventsInv == TypeOK /\ CallsServe /\ PublishedIsKept

-----------------------------------------------------------------------------
LEMMA SequencesOf ==
  ASSUME NEW S, NEW q \in Seq(S)
  PROVE  /\ q # <<>> => Head(q) \in S /\ Tail(q) \in Seq(S)
         /\ \A x \in S : Append(q, x) \in Seq(S)
  OBVIOUS

\* The loop over the targets goes on with the next, or is through.
LEMMA LoopGoesOn ==
  ASSUME Parameters, NEW t \in Task, t.pc \in {"deliver", "save"}, Stands(t)
  PROVE  /\ Next1(t) \in Task /\ Stands(Next1(t)) /\ Next1(t).ev = t.ev
         /\ \/ Next1(t).pc = "deliver" /\ Next1(t).i = t.i + 1
            \/ Next1(t).pc = "publish" /\ t.i = Len(Targets[t.ev])
<1>1. t.ev \in EventIds /\ Len(Targets[t.ev]) \in Nat /\ t.i \in 1 .. Len(Targets[t.ev])
  BY DEF Parameters, Stands
<1>2. CASE t.i < Len(Targets[t.ev])
  <2>1. Next1(t) = [t EXCEPT !.pc = "deliver", !.i = @ + 1]
    BY <1>2 DEF Next1
  <2>2. Next1(t) = [pc |-> "deliver", ev |-> t.ev, i |-> t.i + 1]
    BY <2>1 DEF Task
  <2>3. t.i + 1 \in 1 .. Len(Targets[t.ev])
    BY <1>1, <1>2
  <2> QED
    BY <1>1, <2>2, <2>3 DEF Task, Stands
<1>3. CASE ~(t.i < Len(Targets[t.ev]))
  <2>1. Next1(t) = [t EXCEPT !.pc = "publish"]
    BY <1>3 DEF Next1
  <2>2. Next1(t) = [pc |-> "publish", ev |-> t.ev, i |-> t.i]
    BY <2>1 DEF Task
  <2>3. t.i = Len(Targets[t.ev])
    BY <1>1, <1>3
  <2> QED
    BY <1>1, <2>2, <2>3 DEF Task, Stands
<1> QED
  BY <1>2, <1>3

\* A call begins before its first target, or has none.
LEMMA LoopBegins ==
  ASSUME Parameters, NEW e \in EventIds
  PROVE  /\ Begin(e) \in Task /\ Stands(Begin(e)) /\ Begin(e).ev = e
         /\ \/ Begin(e).pc = "deliver" /\ Begin(e).i = 1
            \/ Begin(e).pc = "publish" /\ Len(Targets[e]) = 0
<1>1. Targets[e] \in Seq(Users) /\ Len(Targets[e]) \in Nat
  BY DEF Parameters
<1>2. CASE Targets[e] = <<>>
  BY <1>2 DEF Begin, Task, Stands
<1>3. CASE Targets[e] # <<>>
  <2>1. Len(Targets[e]) # 0
    BY <1>1, <1>3
  <2> QED
    BY <1>1, <1>3, <2>1 DEF Begin, Task, Stands
<1> QED
  BY <1>2, <1>3

LEMMA EventsInit == Parameters /\ Init => EventsInv
<1> SUFFICES ASSUME Parameters, Init PROVE EventsInv
  OBVIOUS
<1>1. \A k \in Publishers : task[k] \in Task /\ task[k].pc \in {"new", "idle"}
  BY DEF Init, Idle, NewTask, Task, Publishers
<1>2. task \in [Publishers -> Task]
  BY <1>1 DEF Init
<1>3. channel \in [Servers -> Seq([ev : EventIds, source : Servers])]
  BY DEF Init
<1>4. TypeOK
  BY <1>1, <1>2, <1>3 DEF Init, TypeOK, Task, Rows, Parameters
<1>5. CallsServe
  BY <1>1 DEF CallsServe, Serves
<1>6. PublishedIsKept
  BY DEF Init, PublishedIsKept
<1> QED
  BY <1>4, <1>5, <1>6 DEF EventsInv

\* A step of one call of publish: the call goes on to t, and the invariant is
\* kept if t served what it should.
LEMMA CallStep ==
  ASSUME Parameters, EventsInv, Kept \subseteq Kept',
         NEW k \in Publishers, NEW t \in Task, Stands(t), Serves(Kept', t),
         task' = [task EXCEPT ![k] = t]
  PROVE  /\ task' \in [Publishers -> Task]
         /\ \A c \in Publishers : Stands(task'[c])
         /\ CallsServe'
<1>1. /\ task \in [Publishers -> Task] /\ \A c \in Publishers : Stands(task[c])
      /\ \A c \in Publishers : Serves(Kept, task[c])
  BY DEF EventsInv, TypeOK, Task, Stands, CallsServe
<1>2. \A c \in Publishers : task'[c] = IF c = k THEN t ELSE task[c]
  BY <1>1
<1>3. \A c \in Publishers : Serves(Kept, task[c]) => Serves(Kept', task[c])
  BY DEF Serves, Served
<1> QED
  BY <1>1, <1>2, <1>3 DEF CallsServe

\* The same of a step that leaves the calls alone.
LEMMA CallsStay ==
  ASSUME EventsInv, Kept \subseteq Kept', task' = task
  PROVE  /\ task' \in [Publishers -> Task]
         /\ \A c \in Publishers : Stands(task'[c])
         /\ CallsServe'
<1>1. /\ task \in [Publishers -> Task] /\ \A c \in Publishers : Stands(task[c])
      /\ \A c \in Publishers : Serves(Kept, task[c])
  BY DEF EventsInv, TypeOK, Task, Stands, CallsServe
<1> QED
  BY <1>1 DEF CallsServe, Serves, Served

LEMMA PublishedStays ==
  ASSUME PublishedIsKept, Kept \subseteq Kept', published' = published
  PROVE  PublishedIsKept'
  BY DEF PublishedIsKept, Kept

LEMMA EventsStep == Parameters /\ EventsInv /\ [Next]_vars => EventsInv'
<1> SUFFICES ASSUME Parameters, EventsInv, [Next]_vars PROVE EventsInv'
  OBVIOUS
<1>a. /\ task \in [Publishers -> Task] /\ \A k \in Publishers : Stands(task[k])
      /\ online \in [Servers -> SUBSET Users]
      /\ channel \in [Servers -> Seq([ev : EventIds, source : Servers])]
      /\ rows \subseteq Rows /\ offered \subseteq Rows /\ published \subseteq EventIds
      /\ replay \in [Servers -> [Users -> SUBSET EventIds]]
      /\ opened \in 0 .. MaxSessions /\ failed \in 0 .. MaxFailures
      /\ PublishedIsKept
  BY DEF EventsInv, TypeOK, Task, Stands
<1>b. /\ \A k \in Publishers : ServerOf(k) \in Servers
      /\ \A s \in Servers : s \in Publishers
      /\ \A e \in EventIds : e \in Publishers
      /\ MaxSessions \in Nat /\ MaxFailures \in Nat
  BY DEF Parameters, ServerOf, Publishers
<1>c. ASSUME NEW k \in Publishers, task[k].pc \in {"deliver", "save"}
      PROVE  /\ task[k].ev \in EventIds /\ task[k].i \in Nat
             /\ task[k].i \in 1 .. Len(Targets[task[k].ev])
             /\ <<Target(k), task[k].ev>> \in Rows
             /\ Next1(task[k]) \in Task /\ Stands(Next1(task[k]))
             /\ \A kept : Kept \subseteq kept /\ <<Target(k), task[k].ev>> \in kept
                             => Serves(kept, Next1(task[k]))
  <2>1. task[k].ev \in EventIds /\ task[k].i \in 1 .. Len(Targets[task[k].ev])
    BY <1>a, <1>c DEF Stands
  <2>2. Targets[task[k].ev] \in Seq(Users) /\ Len(Targets[task[k].ev]) \in Nat
    BY <2>1 DEF Parameters
  <2>3. <<Target(k), task[k].ev>> \in Rows
    BY <2>1, <2>2 DEF Target, Rows
  <2>4. /\ Next1(task[k]) \in Task /\ Stands(Next1(task[k])) /\ Next1(task[k]).ev = task[k].ev
        /\ \/ Next1(task[k]).pc = "deliver" /\ Next1(task[k]).i = task[k].i + 1
           \/ Next1(task[k]).pc = "publish" /\ task[k].i = Len(Targets[task[k].ev])
    BY <1>a, <1>c, LoopGoesOn
  <2>5. Served(Kept, task[k].ev, task[k].i - 1)
    BY <1>c DEF EventsInv, CallsServe, Serves
  <2>6. ASSUME NEW kept, Kept \subseteq kept, <<Target(k), task[k].ev>> \in kept
        PROVE  Serves(kept, Next1(task[k]))
    <3>1. Served(kept, task[k].ev, task[k].i)
      BY <2>1, <2>2, <2>5, <2>6 DEF Served, Target
    <3> QED
      BY <2>1, <2>2, <2>4, <3>1 DEF Serves
  <2> QED
    BY <2>1, <2>2, <2>3, <2>4, <2>6
<1>0. CASE UNCHANGED vars
  BY <1>0 DEF EventsInv, vars, TypeOK, CallsServe, Kept, PublishedIsKept
<1>1. ASSUME NEW e \in EventIds, PublishEvent(e) PROVE EventsInv'
  <2>1. /\ task' = [task EXCEPT ![e] = Begin(e)] /\ Kept' = Kept
        /\ UNCHANGED <<online, channel, rows, replay, offered, published, opened, failed>>
    BY <1>1 DEF PublishEvent, Kept
  <2>2. Begin(e) \in Task /\ Stands(Begin(e)) /\ Serves(Kept', Begin(e))
    BY LoopBegins DEF Serves, Served
  <2>3. /\ task' \in [Publishers -> Task] /\ \A c \in Publishers : Stands(task'[c])
        /\ CallsServe'
    BY <1>b, <2>1, <2>2, CallStep
  <2>4. PublishedIsKept'
    BY <1>a, <2>1, PublishedStays
  <2>5. TypeOK'
    BY <1>a, <2>1, <2>3 DEF TypeOK, Task, Stands
  <2> QED
    BY <2>3, <2>4, <2>5 DEF EventsInv
<1>2. ASSUME NEW k \in Publishers, SendLive(k) PROVE EventsInv'
  <2>1. /\ task[k].pc = "deliver" /\ task' = [task EXCEPT ![k] = Next1(task[k])]
        /\ offered' = offered \cup {<<Target(k), task[k].ev>>}
        /\ UNCHANGED <<online, channel, rows, replay, published, opened, failed>>
    BY <1>2 DEF SendLive
  <2>2. Kept \subseteq Kept' /\ <<Target(k), task[k].ev>> \in Kept'
    BY <2>1 DEF Kept
  <2>3. /\ Next1(task[k]) \in Task /\ Stands(Next1(task[k])) /\ Serves(Kept', Next1(task[k]))
        /\ <<Target(k), task[k].ev>> \in Rows
    BY <1>c, <2>1, <2>2
  <2>4. /\ task' \in [Publishers -> Task] /\ \A c \in Publishers : Stands(task'[c])
        /\ CallsServe'
    BY <2>1, <2>2, <2>3, CallStep
  <2>5. PublishedIsKept'
    BY <1>a, <2>1, <2>2, PublishedStays
  <2>6. TypeOK'
    BY <1>a, <2>1, <2>3, <2>4 DEF TypeOK, Task, Stands
  <2> QED
    BY <2>4, <2>5, <2>6 DEF EventsInv
<1>3. ASSUME NEW k \in Publishers, SendRefused(k) PROVE EventsInv'
  <2>1. /\ task[k].pc = "deliver" /\ task' = [task EXCEPT ![k].pc = "save"] /\ Kept' = Kept
        /\ online' = [online EXCEPT ![ServerOf(k)] = @ \ {Target(k)}]
        /\ UNCHANGED <<channel, rows, replay, offered, published, opened, failed>>
    BY <1>3 DEF SendRefused, Kept
  <2> DEFINE t == [task[k] EXCEPT !.pc = "save"]
  <2>2. /\ t \in Task /\ task' = [task EXCEPT ![k] = t]
        /\ t.pc = "save" /\ t.ev = task[k].ev /\ t.i = task[k].i
    <3>1. task[k] \in Task
      BY <1>a
    <3> QED
      BY <2>1, <3>1 DEF Task
  <2> HIDE DEF t
  <2>3. Stands(t) /\ Serves(Kept', t)
    BY <1>a, <2>1, <2>2 DEF Stands, EventsInv, CallsServe, Serves
  <2>4. /\ task' \in [Publishers -> Task] /\ \A c \in Publishers : Stands(task'[c])
        /\ CallsServe'
    BY <2>1, <2>2, <2>3, CallStep
  <2>5. online' \in [Servers -> SUBSET Users]
    BY <1>a, <2>1
  <2>6. PublishedIsKept'
    BY <1>a, <2>1, PublishedStays
  <2>7. TypeOK'
    BY <1>a, <2>1, <2>4, <2>5 DEF TypeOK, Task, Stands
  <2> QED
    BY <2>4, <2>6, <2>7 DEF EventsInv
<1>4. ASSUME NEW k \in Publishers, Save(k) PROVE EventsInv'
  <2>1. /\ task[k].pc = "save" /\ task' = [task EXCEPT ![k] = Next1(task[k])]
        /\ rows' = rows \cup {<<Target(k), task[k].ev>>}
        /\ UNCHANGED <<online, channel, replay, offered, published, opened, failed>>
    BY <1>4 DEF Save
  <2>2. Kept \subseteq Kept' /\ <<Target(k), task[k].ev>> \in Kept'
    BY <2>1 DEF Kept
  <2>3. /\ Next1(task[k]) \in Task /\ Stands(Next1(task[k])) /\ Serves(Kept', Next1(task[k]))
        /\ <<Target(k), task[k].ev>> \in Rows
    BY <1>c, <2>1, <2>2
  <2>4. /\ task' \in [Publishers -> Task] /\ \A c \in Publishers : Stands(task'[c])
        /\ CallsServe'
    BY <2>1, <2>2, <2>3, CallStep
  <2>5. PublishedIsKept'
    BY <1>a, <2>1, <2>2, PublishedStays
  <2>6. TypeOK'
    BY <1>a, <2>1, <2>3, <2>4 DEF TypeOK, Task, Stands
  <2> QED
    BY <2>4, <2>5, <2>6 DEF EventsInv
<1>d. Idle \in Task /\ Stands(Idle) /\ \A kept : Serves(kept, Idle)
  BY DEF Idle, Task, Stands, Serves
<1>5. ASSUME NEW k \in Publishers, HubPublish(k) PROVE EventsInv'
  <2>1. /\ task[k].pc = "publish" /\ task' = [task EXCEPT ![k] = Idle] /\ Kept' = Kept
        /\ published' = published \cup {task[k].ev}
        /\ channel' = [s \in Servers |->
             Append(channel[s], [ev |-> task[k].ev, source |-> ServerOf(k)])]
        /\ UNCHANGED <<online, rows, replay, offered, opened, failed>>
    BY <1>5 DEF HubPublish, Kept
  <2>2. task[k].ev \in EventIds /\ Served(Kept, task[k].ev, Len(Targets[task[k].ev]))
    BY <1>a, <2>1 DEF Stands, EventsInv, CallsServe, Serves
  <2>3. /\ task' \in [Publishers -> Task] /\ \A c \in Publishers : Stands(task'[c])
        /\ CallsServe'
    BY <1>d, <2>1, CallStep
  <2>4. channel' \in [Servers -> Seq([ev : EventIds, source : Servers])]
    <3>1. [ev |-> task[k].ev, source |-> ServerOf(k)] \in [ev : EventIds, source : Servers]
      BY <1>b, <2>2
    <3>2. \A s \in Servers : channel'[s] \in Seq([ev : EventIds, source : Servers])
      BY <1>a, <2>1, <3>1, SequencesOf
    <3> QED
      BY <2>1, <3>2
  <2>5. PublishedIsKept'
    <3> SUFFICES ASSUME NEW e \in published', NEW i \in 1 .. Len(Targets[e])
                 PROVE  <<Targets[e][i], e>> \in (rows \cup offered)'
      BY DEF PublishedIsKept
    <3> QED
      BY <1>a, <2>1, <2>2 DEF PublishedIsKept, Served, Kept
  <2>6. TypeOK'
    BY <1>a, <2>1, <2>2, <2>3, <2>4 DEF TypeOK, Task, Stands
  <2> QED
    BY <2>3, <2>5, <2>6 DEF EventsInv
<1>6. ASSUME NEW k \in Publishers, SaveFails(k) PROVE EventsInv'
  <2>1. /\ task' = [task EXCEPT ![k] = Idle] /\ Kept' = Kept
        /\ failed < MaxFailures /\ failed' = failed + 1
        /\ UNCHANGED <<online, channel, rows, replay, offered, published, opened>>
    BY <1>6 DEF SaveFails, Kept
  <2>2. failed' \in 0 .. MaxFailures
    BY <1>a, <1>b, <2>1
  <2>3. /\ task' \in [Publishers -> Task] /\ \A c \in Publishers : Stands(task'[c])
        /\ CallsServe'
    BY <1>d, <2>1, CallStep
  <2>4. PublishedIsKept'
    BY <1>a, <2>1, PublishedStays
  <2>5. TypeOK'
    BY <1>a, <2>1, <2>2, <2>3 DEF TypeOK, Task, Stands
  <2> QED
    BY <2>3, <2>4, <2>5 DEF EventsInv
<1>7. ASSUME NEW s \in Servers, Listen(s) PROVE EventsInv'
  <2>1. /\ channel[s] # <<>> /\ Kept' = Kept
        /\ channel' = [channel EXCEPT ![s] = Tail(@)]
        /\ task' = task \/ task' = [task EXCEPT ![s] = Begin(Head(channel[s]).ev)]
        /\ UNCHANGED <<online, rows, replay, offered, published, opened, failed>>
    BY <1>7 DEF Listen, Kept
  <2>2. /\ channel[s] \in Seq([ev : EventIds, source : Servers])
        /\ Head(channel[s]) \in [ev : EventIds, source : Servers]
        /\ Tail(channel[s]) \in Seq([ev : EventIds, source : Servers])
    BY <1>a, <2>1, SequencesOf
  <2>3. channel' \in [Servers -> Seq([ev : EventIds, source : Servers])]
    BY <1>a, <2>1, <2>2
  <2>4. PICK e \in EventIds : e = Head(channel[s]).ev
    BY <2>2
  <2>5. Begin(e) \in Task /\ Stands(Begin(e)) /\ Serves(Kept', Begin(e))
    BY LoopBegins DEF Serves, Served
  <2>6. /\ task' \in [Publishers -> Task] /\ \A c \in Publishers : Stands(task'[c])
        /\ CallsServe'
    <3>1. CASE task' = task
      BY <2>1, <3>1, CallsStay
    <3>2. CASE task' = [task EXCEPT ![s] = Begin(e)]
      BY <1>b, <2>1, <2>5, <3>2, CallStep
    <3> QED
      BY <2>1, <2>4, <3>1, <3>2
  <2>7. PublishedIsKept'
    BY <1>a, <2>1, PublishedStays
  <2>8. TypeOK'
    BY <1>a, <2>1, <2>3, <2>6 DEF TypeOK, Task, Stands
  <2> QED
    BY <2>6, <2>7, <2>8 DEF EventsInv
<1>8. ASSUME NEW s \in Servers, NEW u \in Users, Connect(s, u) \/ Disconnect(s, u)
      PROVE EventsInv'
  <2>1. /\ online' = [online EXCEPT ![s] = @ \cup {u}] \/ online' = [online EXCEPT ![s] = @ \ {u}]
        /\ \/ replay' = replay
           \/ \E due \in SUBSET EventIds : replay' = [replay EXCEPT ![s][u] = due]
        /\ opened' = opened \/ (opened < MaxSessions /\ opened' = opened + 1)
        /\ Kept' = Kept
        /\ UNCHANGED <<task, channel, rows, offered, published, failed>>
    <3>1. {e \in EventIds : <<u, e>> \in rows} \in SUBSET EventIds
      OBVIOUS
    <3> QED
      BY <1>8, <3>1 DEF Connect, Disconnect, Kept
  <2>2. online' \in [Servers -> SUBSET Users]
    <3>1. online[s] \cup {u} \in SUBSET Users /\ online[s] \ {u} \in SUBSET Users
      BY <1>a
    <3> QED
      BY <1>a, <2>1, <3>1
  <2>3. replay' \in [Servers -> [Users -> SUBSET EventIds]]
    <3>1. CASE replay' = replay
      BY <1>a, <3>1
    <3>2. ASSUME NEW due \in SUBSET EventIds, replay' = [replay EXCEPT ![s][u] = due]
          PROVE  replay' \in [Servers -> [Users -> SUBSET EventIds]]
      BY <1>a, <3>2
    <3> QED
      BY <2>1, <3>1, <3>2
  <2>4. opened' \in 0 .. MaxSessions
    BY <1>a, <1>b, <2>1
  <2>5. /\ task' \in [Publishers -> Task] /\ \A c \in Publishers : Stands(task'[c])
        /\ CallsServe'
    BY <2>1, CallsStay
  <2>6. PublishedIsKept'
    BY <1>a, <2>1, PublishedStays
  <2>7. TypeOK'
    BY <1>a, <2>1, <2>2, <2>3, <2>4, <2>5 DEF TypeOK, Task, Stands
  <2> QED
    BY <2>5, <2>6, <2>7 DEF EventsInv
<1>9. ASSUME NEW s \in Servers, NEW u \in Users, NEW e \in EventIds, ReplayEvent(s, u, e)
      PROVE EventsInv'
  <2>1. /\ \/ offered' = offered \cup {<<u, e>>} /\ rows' \in {rows, rows \ {<<u, e>>}}
           \/ UNCHANGED <<offered, rows>>
        /\ \E left \in SUBSET EventIds : replay' = [replay EXCEPT ![s][u] = left]
        /\ UNCHANGED <<online, task, channel, published, opened, failed>>
    <3>1. replay[s][u] \ {e} \in SUBSET EventIds /\ {} \in SUBSET EventIds
      BY <1>a
    <3> QED
      BY <1>9, <3>1 DEF ReplayEvent
  <2>2. Kept \subseteq Kept' /\ rows' \subseteq Rows /\ offered' \subseteq Rows
    BY <1>a, <2>1 DEF Kept, Rows
  <2>3. replay' \in [Servers -> [Users -> SUBSET EventIds]]
    BY <1>a, <2>1
  <2>4. /\ task' \in [Publishers -> Task] /\ \A c \in Publishers : Stands(task'[c])
        /\ CallsServe'
    BY <2>1, <2>2, CallsStay
  <2>5. PublishedIsKept'
    BY <1>a, <2>1, <2>2, PublishedStays
  <2>6. TypeOK'
    BY <1>a, <2>1, <2>2, <2>3, <2>4 DEF TypeOK, Task, Stands
  <2> QED
    BY <2>4, <2>5, <2>6 DEF EventsInv
<1> QED
  BY <1>0, <1>1, <1>2, <1>3, <1>4, <1>5, <1>6, <1>7, <1>8, <1>9 DEF Next, PublishSteps

LEMMA EventsInvariant == ASSUME Parameters PROVE Spec => []EventsInv
<1>1. Init => EventsInv
  BY EventsInit
<1>2. EventsInv /\ [Next]_vars => EventsInv'
  BY EventsStep
<1> QED
  BY <1>1, <1>2, PTL DEF Spec

\* The variables of the domain events have their types, and a call of publish
\* stands at a target of its event.
THEOREM EventsTypeCorrect == ASSUME Parameters PROVE Spec => []TypeOK
<1>1. EventsInv => TypeOK
  BY DEF EventsInv
<1> QED
  BY <1>1, EventsInvariant, PTL

\* DeliverTargets sends an event to the other servers only after each target
\* took it or has a row, and deliverEvents deletes a row only after a session
\* took the event: no target loses a published event, whichever servers
\* replay or publish it again meanwhile.
THEOREM EventsAreKept == ASSUME Parameters PROVE Spec => []PublishedIsKept
<1>1. EventsInv => PublishedIsKept
  BY DEF EventsInv
<1> QED
  BY <1>1, EventsInvariant, PTL
-----------------------------------------------------------------------------
(* Chats *)

Limit == Group!EffectiveMemberLimit(ChatType, Verification)

Size(S) == Group!Cardinality(S)

CallRecord ==
  [at : {"idle", "count", "look", "write", "delete", "update", "commit", "ok", "failed"},
   kind : {"none", "add", "remove"}, users : SUBSET Users, left : SUBSET Users,
   absent : SUBSET Users, own : SUBSET Users, gone : SUBSET Users, counted : Nat,
   disturbed : BOOLEAN, lost : SUBSET Users]

SendRecord ==
  [at : {"idle", "member", "list", "muted", "planned", "refused", "failed"},
   from : Users, to : Users \cup {Chat, None}, left : SUBSET Users,
   targets : SUBSET [user : Users \cup {Chat}, push : BOOLEAN],
   steady : SUBSET Users, quiet : SUBSET Users]

GroupShape ==
  /\ exists \in BOOLEAN /\ crowded \in BOOLEAN /\ stale \in BOOLEAN
  /\ DOMAIN members \subseteq Users /\ \A u \in DOMAIN members : members[u] \in BOOLEAN
  /\ count \in Rest .. (Rest + Size(Users))
  /\ lock \in Calls \cup {None} /\ (lock # None => call[lock].at = "commit")
  /\ call \in [Calls -> CallRecord]
  /\ send \in [Sends -> SendRecord]
  /\ reader \in {"contract", "RecipientReader"}

\* What the transaction of a call sees of the memberships.
SeenBy(r) == (DOMAIN members \ r.gone) \cup r.own

\* A call writes in one direction, and only after it has looked.
WritesFit(r) ==
  /\ r.at \in {"count", "look", "delete", "idle", "ok", "failed"} => r.own = {} /\ r.gone = {}
  /\ r.at \in {"count", "look"} => r.kind = "add"
  /\ r.at = "delete" => r.kind = "remove" /\ r.left = {}
  /\ r.at \in {"write", "update", "commit"} =>
       \/ r.kind = "add" /\ r.gone = {} /\ r.own \cup r.left \subseteq r.absent
       \/ r.kind = "remove" /\ r.own = {} /\ r.left = {}
  /\ r.at \in {"update", "commit"} => r.counted \in Rest .. (Rest + Size(Users))

\* What a call has counted is what its commit leaves, unless another call
\* changed the members since.
CountFits(r) ==
  r.at \in {"update", "commit"} /\ ~r.disturbed /\ exists =>
    r.counted = Rest + Size(SeenBy(r))

\* There is room for those a call is adding, unless members were added since
\* it counted.
RoomFits(r) ==
  r.kind = "add" /\ ~crowded /\ exists =>
    /\ r.at = "look" => Rest + Size(DOMAIN members) <= r.counted
    /\ r.at \in {"write", "update", "commit"} =>
         Rest + Size(DOMAIN members) + Size(r.absent) <= Limit

\* Whom a call was asked to add is a member, about to be one, or was removed.
AskedFit(r) ==
  r.kind = "add" =>
    /\ r.at \in {"count", "look"} =>
         r.users \subseteq r.left \cup r.absent \cup DOMAIN members \cup r.lost
    /\ r.at \in {"write", "update", "commit"} =>
         r.users \subseteq r.left \cup r.own \cup DOMAIN members \cup r.lost
    /\ r.at \in {"update", "commit"} => r.left = {}

CallFits(r) == WritesFit(r) /\ CountFits(r) /\ RoomFits(r) /\ AskedFit(r)

\* A plan about the chat is made with a store that tells its type; who was a
\* member from its start still is, and is on the list until considered.
PlanFits(p) ==
  p.at \in {"member", "list", "muted"} =>
    /\ reader = "contract"
    /\ p.steady \subseteq DOMAIN members
    /\ \A u \in p.quiet : u \in DOMAIN members /\ members[u]
    /\ \A t \in p.targets :
         /\ t.user \in Users \ ({p.from} \cup BotIds)
         /\ t.push => t.user \notin p.quiet
    /\ p.at = "muted" =>
         p.steady \ ({p.from} \cup BotIds) \subseteq p.left \cup {t.user : t \in p.targets}

CallsFit == \A c \in Calls : CallFits(call[c])

PlansFit == \A s \in Sends : PlanFits(send[s])

GroupInv == GroupShape /\ CallsFit /\ PlansFit /\ Group!OnlyOverlapsDisturb

-----------------------------------------------------------------------------
LEMMA Sizes ==
  ASSUME Group!Parameters
  PROVE  /\ Limit \in Nat /\ Rest \in Nat /\ Rest < Limit
         /\ \A S \in SUBSET Users : Size(S) \in Nat /\ Size(S) <= Size(Users)
         /\ \A S, T \in SUBSET Users : Size(S \cup T) <= Size(S) + Size(T)
         /\ \A S, T \in SUBSET Users : S \subseteq T => Size(S) <= Size(T)
         /\ \A u \in Users : Size({u}) = 1
         /\ Size({}) = 0
<1>1. Limit \in Nat /\ Rest \in Nat /\ Rest < Limit
  BY DEF Limit, Group!EffectiveMemberLimit, Group!Parameters
<1>2. \A S : Size(S) = Cardinality(S)
  BY DEF Size, Group!Cardinality, Cardinality
<1>3. Group!IsFiniteSet(Users) = IsFiniteSet(Users)
  BY DEF Group!IsFiniteSet, IsFiniteSet
<1>4. \A S \in SUBSET Users : IsFiniteSet(S)
  BY <1>3, FS_Subset DEF Group!Parameters
<1>5. \A S \in SUBSET Users : Cardinality(S) \in Nat
  BY <1>4, FS_CardinalityType
<1>6. \A S, T \in SUBSET Users : S \subseteq T => Cardinality(S) <= Cardinality(T)
  BY <1>4, FS_Subset
<1>7. \A S, T \in SUBSET Users : Cardinality(S \cup T) <= Cardinality(S) + Cardinality(T)
  <2> SUFFICES ASSUME NEW S \in SUBSET Users, NEW T \in SUBSET Users
               PROVE  Cardinality(S \cup T) <= Cardinality(S) + Cardinality(T)
    OBVIOUS
  <2>1. Cardinality(S \cup T) = Cardinality(S) + Cardinality(T) - Cardinality(S \cap T)
    BY <1>4, FS_Union
  <2>2. Cardinality(S \cap T) \in Nat /\ Cardinality(S) \in Nat /\ Cardinality(T) \in Nat
    BY <1>5
  <2> QED
    BY <2>1, <2>2
<1>8. Cardinality({}) = 0 /\ \A u \in Users : Cardinality({u}) = 1
  BY FS_EmptySet, FS_Singleton
<1> QED
  BY <1>1, <1>2, <1>5, <1>6, <1>7, <1>8

LEMMA GroupInit == Group!Parameters /\ Group!Init => GroupInv
<1> SUFFICES ASSUME Group!Parameters, Group!Init PROVE GroupInv
  OBVIOUS
<1>1. Group!IdleCall \in CallRecord /\ Group!IdleCall.at = "idle" /\ Group!IdleCall.kind = "none"
      /\ Group!IdleCall.own = {} /\ Group!IdleCall.gone = {}
  BY DEF Group!IdleCall, CallRecord
<1>2. Group!IdleSend \in SendRecord /\ Group!IdleSend.at = "idle"
  BY DEF Group!IdleSend, SendRecord, Group!Parameters
<1>3. /\ exists = TRUE /\ crowded = FALSE /\ stale = FALSE /\ count = Rest + 1 /\ lock = None
      /\ call = [c \in Calls |-> Group!IdleCall] /\ send = [s \in Sends |-> Group!IdleSend]
      /\ reader \in {"contract", "RecipientReader"}
      /\ DOMAIN members = {Owner} /\ members[Owner] \in BOOLEAN
  BY DEF Group!Init
<1>4. Owner \in Users /\ Size({Owner}) = 1 /\ Size({Owner}) <= Size(Users)
      /\ Size(Users) \in Nat /\ Rest \in Nat /\ Limit \in Nat /\ Rest < Limit
  BY Sizes DEF Group!Parameters
<1>5. GroupShape
  <2>1. count \in Rest .. (Rest + Size(Users))
    BY <1>3, <1>4
  <2>2. call \in [Calls -> CallRecord] /\ send \in [Sends -> SendRecord]
    BY <1>1, <1>2, <1>3
  <2> QED
    BY <1>3, <1>4, <2>1, <2>2 DEF GroupShape
<1>6. CallsFit /\ PlansFit
  BY <1>1, <1>2, <1>3 DEF CallsFit, PlansFit, CallFits, WritesFit, CountFits, RoomFits, AskedFit,
     PlanFits
<1>7. Group!OnlyOverlapsDisturb
  BY <1>3, <1>4 DEF Group!OnlyOverlapsDisturb, Group!LimitKept, Group!CountIsMembers, Limit, Size
<1> QED
  BY <1>5, <1>6, <1>7 DEF GroupInv

\* A step of one call that does not change the members of the chat.
LEMMA CallGoesOn ==
  ASSUME GroupInv, NEW c \in Calls, NEW r \in CallRecord, CallFits(r),
         call' = [call EXCEPT ![c] = r],
         lock' \in Calls \cup {None}, lock' = c => r.at = "commit", lock' \in {c, lock, None},
         lock' = lock /\ lock = c => r.at = "commit",
         UNCHANGED <<exists, members, count, send, reader, crowded, stale>>
  PROVE  GroupInv'
<1>1. /\ call \in [Calls -> CallRecord] /\ CallsFit /\ PlansFit /\ Group!OnlyOverlapsDisturb
      /\ GroupShape
  BY DEF GroupInv, GroupShape
<1>2. /\ call' \in [Calls -> CallRecord]
      /\ \A d \in Calls : call'[d] = IF d = c THEN r ELSE call[d]
  BY <1>1
<1>3. lock' # None => call'[lock'].at = "commit"
  BY <1>1, <1>2 DEF GroupShape
<1>4. GroupShape'
  BY <1>1, <1>2, <1>3 DEF GroupShape, Size
<1>5. CallsFit'
  <2> SUFFICES ASSUME NEW d \in Calls, NEW q, q = call'[d] PROVE CallFits(call[d])'
    BY DEF CallsFit
  <2>1. CallFits(q)
    BY <1>1, <1>2 DEF CallsFit
  <2>2. WritesFit(call[d])'
    BY <2>1 DEF CallFits, WritesFit, Size
  <2>3. CountFits(call[d])'
    BY <2>1 DEF CallFits, CountFits, SeenBy, Size
  <2>4. RoomFits(call[d])'
    BY <2>1 DEF CallFits, RoomFits, Size
  <2>5. AskedFit(call[d])'
    BY <2>1 DEF CallFits, AskedFit
  <2> QED
    BY <2>2, <2>3, <2>4, <2>5 DEF CallFits
<1>6. PlansFit'
  BY <1>1 DEF PlansFit, PlanFits
<1>7. Group!OnlyOverlapsDisturb'
  BY <1>1 DEF Group!OnlyOverlapsDisturb, Group!LimitKept, Group!CountIsMembers
<1> QED
  BY <1>4, <1>5, <1>6, <1>7 DEF GroupInv

\* A step of one plan.
LEMMA PlanGoesOn ==
  ASSUME GroupInv, NEW s \in Sends, NEW p \in SendRecord, PlanFits(p),
         send' = [send EXCEPT ![s] = p],
         UNCHANGED <<exists, members, count, lock, call, reader, crowded, stale>>
  PROVE  GroupInv'
<1>1. /\ send \in [Sends -> SendRecord] /\ CallsFit /\ PlansFit /\ Group!OnlyOverlapsDisturb
      /\ GroupShape
  BY DEF GroupInv, GroupShape
<1>2. /\ send' \in [Sends -> SendRecord]
      /\ \A d \in Sends : send'[d] = IF d = s THEN p ELSE send[d]
  BY <1>1
<1>3. GroupShape'
  BY <1>1, <1>2 DEF GroupShape, Size
<1>4. CallsFit'
  BY <1>1 DEF CallsFit, CallFits, WritesFit, CountFits, RoomFits, AskedFit, SeenBy, Size
<1>5. PlansFit'
  BY <1>1, <1>2 DEF PlansFit, PlanFits
<1>6. Group!OnlyOverlapsDisturb'
  BY <1>1 DEF Group!OnlyOverlapsDisturb, Group!LimitKept, Group!CountIsMembers
<1> QED
  BY <1>3, <1>4, <1>5, <1>6 DEF GroupInv

LEMMA IdleFits ==
  LET idle == Group!IdleCall
  IN  /\ idle \in CallRecord /\ idle.kind = "none" /\ idle.left = {} /\ idle.absent = {}
      /\ idle.own = {} /\ idle.gone = {} /\ idle.lost = {}
BY DEF Group!IdleCall, CallRecord

\* A call that is over fits.
LEMMA OverFits ==
  ASSUME NEW step \in {"ok", "failed"}
  PROVE  /\ Group!Over(step) \in CallRecord /\ CallFits(Group!Over(step))
         /\ Group!Over(step).at = step /\ Group!Over(step).kind = "none"
         /\ Group!Over(step).own = {} /\ Group!Over(step).gone = {}
<1> DEFINE idle == Group!IdleCall
           r == [idle EXCEPT !.at = step]
<1>1. Group!Over(step) = r
  BY DEF Group!Over
<1> HIDE DEF idle
<1>2. r \in CallRecord /\ r.at = step /\ r.kind = "none" /\ r.own = {} /\ r.gone = {}
  BY IdleFits DEF CallRecord, idle
<1> HIDE DEF r
<1> QED
  BY <1>1, <1>2 DEF CallFits, WritesFit, CountFits, RoomFits, AskedFit

\* The steps of a call that only read, and those that keep what they wrote to
\* themselves: the record r of the call after each of them.
LEMMA CallSteps ==
  ASSUME Group!Parameters, GroupInv, NEW c \in Calls,
         \/ \E users \in SUBSET Users : Group!AddMembers(c, users)
         \/ \E u \in Users : Group!RemoveMember(c, u)
         \/ Group!CountMembers(c) \/ Group!LookFor(c) \/ Group!CheckLimit(c) \/ Group!Insert(c)
         \/ Group!DeleteMember(c) \/ Group!Recount(c) \/ Group!Update(c) \/ Group!Fail(c)
  PROVE  GroupInv'
<1> USE DEF Group!Goes, Group!To, Group!tables
<1>a. /\ call \in [Calls -> CallRecord] /\ call[c] \in CallRecord /\ CallFits(call[c])
      /\ lock \in Calls \cup {None} /\ (lock # None => call[lock].at = "commit")
      /\ DOMAIN members \subseteq Users /\ None \notin Calls
      /\ (call[c].at # "commit" => lock # c)
  BY DEF GroupInv, GroupShape, CallsFit, Group!Parameters
<1>f. /\ call[c].users \in SUBSET Users /\ call[c].left \in SUBSET Users
      /\ call[c].absent \in SUBSET Users /\ call[c].own \in SUBSET Users
      /\ call[c].gone \in SUBSET Users /\ call[c].counted \in Nat
      /\ call[c].disturbed \in BOOLEAN /\ call[c].lost \in SUBSET Users
      /\ call[c].kind \in {"none", "add", "remove"}
  BY <1>a DEF CallRecord
<1>s. Group!Seen(c) = SeenBy(call[c]) /\ SeenBy(call[c]) \in SUBSET Users
  BY <1>a, <1>f DEF Group!Seen, SeenBy
<1>n. /\ Limit \in Nat /\ Rest \in Nat
      /\ \A S \in SUBSET Users : Size(S) \in Nat /\ Size(S) <= Size(Users)
      /\ \A S, T \in SUBSET Users : Size(S \cup T) <= Size(S) + Size(T)
      /\ \A S, T \in SUBSET Users : S \subseteq T => Size(S) <= Size(T)
  BY Sizes
<1>o. ASSUME NEW step \in {"ok", "failed"}, call' = [call EXCEPT ![c] = Group!Over(step)],
             lock' = IF lock = c THEN None ELSE lock,
             UNCHANGED <<exists, members, count, send, reader, crowded, stale>>
      PROVE  GroupInv'
  BY <1>a, <1>o, OverFits, CallGoesOn
<1>1. ASSUME NEW users \in SUBSET Users, Group!AddMembers(c, users) PROVE GroupInv'
  <2>1. /\ call[c].at = "idle"
        /\ UNCHANGED <<exists, members, count, lock, send, reader, crowded, stale>>
    BY <1>1 DEF Group!AddMembers
  <2>2. CASE ~exists
    <3>1. call' = [call EXCEPT ![c] = Group!Over("failed")]
      BY <1>1, <2>2 DEF Group!AddMembers
    <3> QED
      BY <1>a, <1>o, <2>1, <3>1
  <2>3. CASE exists
    <3> DEFINE idle == Group!IdleCall
               r == [idle EXCEPT !.at = "count", !.kind = "add", !.users = users,
                                 !.left = users]
    <3>1. call' = [call EXCEPT ![c] = r]
      BY <1>1, <2>3 DEF Group!AddMembers
    <3> HIDE DEF idle
    <3>2. /\ r \in CallRecord /\ r.at = "count" /\ r.kind = "add" /\ r.users = users
          /\ r.left = users /\ r.own = {} /\ r.gone = {}
      BY IdleFits DEF CallRecord, idle
    <3> HIDE DEF r
    <3>3. CallFits(r)
      BY <3>2 DEF CallFits, WritesFit, CountFits, RoomFits, AskedFit
    <3> QED
      BY <1>a, <2>1, <3>1, <3>2, <3>3, CallGoesOn
  <2> QED
    BY <2>2, <2>3
<1>2. ASSUME NEW u \in Users, Group!RemoveMember(c, u) PROVE GroupInv'
  <2> DEFINE idle == Group!IdleCall
             r == [idle EXCEPT !.kind = "remove", !.users = {u}, !.at = "delete"]
  <2>1. /\ call[c].at = "idle" /\ call' = [call EXCEPT ![c] = r]
        /\ UNCHANGED <<exists, members, count, lock, send, reader, crowded, stale>>
    BY <1>2 DEF Group!RemoveMember
  <2> HIDE DEF idle
  <2>2. /\ r \in CallRecord /\ r.at = "delete" /\ r.kind = "remove" /\ r.left = {}
        /\ r.own = {} /\ r.gone = {}
    BY IdleFits DEF CallRecord, idle
  <2> HIDE DEF r
  <2>3. CallFits(r)
    BY <2>2 DEF CallFits, WritesFit, CountFits, RoomFits, AskedFit
  <2> QED
    BY <1>a, <2>1, <2>2, <2>3, CallGoesOn
<1>3. ASSUME Group!CountMembers(c) PROVE GroupInv'
  <2> DEFINE n == Rest + Size(SeenBy(call[c]))
             r == [call[c] EXCEPT !.counted = n, !.at = "look"]
  <2>1. /\ call[c].at = "count" /\ call' = [call EXCEPT ![c] = r]
        /\ UNCHANGED <<exists, members, count, lock, send, reader, crowded, stale>>
    BY <1>3, <1>s DEF Group!CountMembers, Size
  <2>2. n \in Nat
    BY <1>s, <1>n
  <2>3. /\ r \in CallRecord /\ r.at = "look" /\ r.counted = n
        /\ r.kind = call[c].kind /\ r.users = call[c].users /\ r.left = call[c].left
        /\ r.absent = call[c].absent /\ r.own = call[c].own /\ r.gone = call[c].gone
        /\ r.lost = call[c].lost
    BY <1>a, <2>2 DEF CallRecord
  <2>4. r.own = {} /\ r.gone = {} /\ r.kind = "add" /\ n = Rest + Size(DOMAIN members)
    <3>1. call[c].own = {} /\ call[c].gone = {} /\ call[c].kind = "add"
      BY <1>a, <2>1 DEF CallFits, WritesFit
    <3>2. SeenBy(call[c]) = DOMAIN members
      BY <3>1 DEF SeenBy
    <3> QED
      BY <2>3, <3>1, <3>2
  <2>5. CallFits(r)
    <3>1. WritesFit(r) /\ CountFits(r)
      BY <2>3, <2>4 DEF WritesFit, CountFits
    <3>2. RoomFits(r)
      BY <1>a, <1>n, <2>2, <2>3, <2>4 DEF RoomFits
    <3>3. AskedFit(r)
      BY <1>a, <2>1, <2>3, <2>4 DEF AskedFit, CallFits
    <3> QED
      BY <3>1, <3>2, <3>3 DEF CallFits
  <2> HIDE DEF r
  <2> QED
    BY <1>a, <2>1, <2>3, <2>5, CallGoesOn
<1>4. ASSUME Group!LookFor(c) PROVE GroupInv'
  <2>1. PICK u \in call[c].left :
          /\ call[c].at = "look"
          /\ call' = [call EXCEPT ![c].left = @ \ {u},
                        ![c].absent = IF u \in Group!Seen(c) THEN @ ELSE @ \cup {u}]
          /\ UNCHANGED <<exists, members, count, lock, send, reader, crowded, stale>>
    BY <1>4 DEF Group!LookFor
  <2> DEFINE absent == IF u \in SeenBy(call[c]) THEN call[c].absent ELSE call[c].absent \cup {u}
             r == [call[c] EXCEPT !.left = call[c].left \ {u}, !.absent = absent]
  <2>2. call' = [call EXCEPT ![c] = r]
    BY <1>a, <1>s, <2>1
  <2>3. call[c].own = {} /\ call[c].gone = {} /\ call[c].kind = "add"
        /\ SeenBy(call[c]) = DOMAIN members
    BY <1>a, <2>1 DEF CallFits, WritesFit, SeenBy
  <2>4. absent \in SUBSET Users /\ call[c].absent \subseteq absent
        /\ u \in absent \cup DOMAIN members
    BY <1>f, <2>3
  <2> HIDE DEF absent
  <2>5. /\ r \in CallRecord /\ r.at = "look" /\ r.counted = call[c].counted
        /\ r.kind = call[c].kind /\ r.users = call[c].users /\ r.left = call[c].left \ {u}
        /\ r.absent = absent /\ r.own = {} /\ r.gone = {} /\ r.lost = call[c].lost
    BY <1>a, <1>f, <2>1, <2>3, <2>4 DEF CallRecord
  <2> HIDE DEF r
  <2>6. CallFits(r)
    BY <1>a, <2>1, <2>3, <2>4, <2>5 DEF CallFits, WritesFit, CountFits, RoomFits, AskedFit
  <2> QED
    BY <1>a, <2>1, <2>2, <2>5, <2>6, CallGoesOn
<1>5. ASSUME Group!CheckLimit(c) PROVE GroupInv'
  <2>1. /\ call[c].at = "look" /\ call[c].left = {}
        /\ UNCHANGED <<exists, members, count, lock, send, reader, crowded, stale>>
    BY <1>5 DEF Group!CheckLimit
  <2>2. CASE Group!Exceeds(c)
    <3>1. call' = [call EXCEPT ![c] = Group!Over("failed")]
      BY <1>5, <2>2 DEF Group!CheckLimit
    <3> QED
      BY <1>a, <1>o, <2>1, <3>1
  <2>3. CASE ~Group!Exceeds(c)
    <3> DEFINE r == [call[c] EXCEPT !.at = "write", !.left = call[c].absent]
    <3>1. call' = [call EXCEPT ![c] = r]
      BY <1>5, <1>a, <2>3 DEF Group!CheckLimit
    <3>2. call[c].own = {} /\ call[c].gone = {} /\ call[c].kind = "add"
      BY <1>a, <2>1 DEF CallFits, WritesFit
    <3>3. call[c].counted + Size(call[c].absent) <= Limit
      BY <1>f, <1>n, <2>3, Sizes DEF Group!Exceeds, Limit, Size
    <3>4. /\ r \in CallRecord /\ r.at = "write" /\ r.counted = call[c].counted
          /\ r.kind = "add" /\ r.users = call[c].users /\ r.left = call[c].absent
          /\ r.absent = call[c].absent /\ r.own = {} /\ r.gone = {} /\ r.lost = call[c].lost
      BY <1>a, <1>f, <3>2 DEF CallRecord
    <3> HIDE DEF r
    <3>5. RoomFits(r)
      BY <1>a, <1>f, <1>n, <2>1, <3>2, <3>3, <3>4 DEF CallFits, RoomFits
    <3>6. WritesFit(r) /\ CountFits(r) /\ AskedFit(r)
      BY <1>a, <2>1, <3>2, <3>4 DEF CallFits, WritesFit, CountFits, AskedFit
    <3> QED
      BY <1>a, <2>1, <3>1, <3>4, <3>5, <3>6, CallGoesOn DEF CallFits
  <2> QED
    BY <2>2, <2>3
<1>6. ASSUME Group!Insert(c) PROVE GroupInv'
  <2>1. PICK u \in call[c].left :
          /\ call[c].at = "write"
          /\ IF u \notin DOMAIN members /\ exists
             THEN call' = [call EXCEPT ![c].left = @ \ {u}, ![c].own = @ \cup {u}]
             ELSE call' = [call EXCEPT ![c] = Group!Over("failed")]
          /\ UNCHANGED <<exists, members, count, lock, send, reader, crowded, stale>>
    BY <1>6 DEF Group!Insert
  <2>2. CASE ~(u \notin DOMAIN members /\ exists)
    BY <1>a, <1>o, <2>1, <2>2
  <2>3. CASE u \notin DOMAIN members /\ exists
    <3> DEFINE r == [call[c] EXCEPT !.left = call[c].left \ {u}, !.own = call[c].own \cup {u}]
    <3>1. call' = [call EXCEPT ![c] = r]
      BY <1>a, <2>1, <2>3
    <3>2. /\ r \in CallRecord /\ r.at = "write" /\ r.counted = call[c].counted
          /\ r.kind = call[c].kind /\ r.users = call[c].users /\ r.left = call[c].left \ {u}
          /\ r.absent = call[c].absent /\ r.own = call[c].own \cup {u}
          /\ r.gone = call[c].gone /\ r.lost = call[c].lost
      BY <1>a, <1>f, <2>1 DEF CallRecord
    <3> HIDE DEF r
    <3>3. CallFits(r)
      BY <1>a, <2>1, <3>2 DEF CallFits, WritesFit, CountFits, RoomFits, AskedFit
    <3> QED
      BY <1>a, <2>1, <3>1, <3>2, <3>3, CallGoesOn
  <2> QED
    BY <2>2, <2>3
<1>7. ASSUME Group!DeleteMember(c) PROVE GroupInv'
  <2> DEFINE gone == call[c].users \cap DOMAIN members
             r == [call[c] EXCEPT !.gone = gone, !.at = "write"]
  <2>1. /\ call[c].at = "delete" /\ call' = [call EXCEPT ![c] = r]
        /\ UNCHANGED <<exists, members, count, lock, send, reader, crowded, stale>>
    BY <1>7 DEF Group!DeleteMember
  <2>2. call[c].own = {} /\ call[c].kind = "remove" /\ call[c].left = {}
    BY <1>a, <2>1 DEF CallFits, WritesFit
  <2>3. gone \in SUBSET Users
    BY <1>a
  <2> HIDE DEF gone
  <2>4. /\ r \in CallRecord /\ r.at = "write" /\ r.kind = "remove" /\ r.own = {} /\ r.left = {}
    BY <1>a, <2>2, <2>3 DEF CallRecord
  <2> HIDE DEF r
  <2>5. CallFits(r)
    BY <2>4 DEF CallFits, WritesFit, CountFits, RoomFits, AskedFit
  <2> QED
    BY <1>a, <2>1, <2>4, <2>5, CallGoesOn
<1>8. ASSUME Group!Recount(c) PROVE GroupInv'
  <2> DEFINE n == Rest + Size(SeenBy(call[c]))
             r == [call[c] EXCEPT !.counted = n, !.at = "update"]
  <2>1. /\ call[c].at = "write" /\ call[c].left = {} /\ call' = [call EXCEPT ![c] = r]
        /\ UNCHANGED <<exists, members, count, lock, send, reader, crowded, stale>>
    BY <1>8, <1>s DEF Group!Recount, Size
  <2>2. n \in Nat /\ n \in Rest .. (Rest + Size(Users))
    BY <1>s, <1>n, Sizes
  <2>3. /\ r \in CallRecord /\ r.at = "update" /\ r.counted = n
        /\ r.kind = call[c].kind /\ r.users = call[c].users /\ r.left = {}
        /\ r.absent = call[c].absent /\ r.own = call[c].own /\ r.gone = call[c].gone
        /\ r.lost = call[c].lost /\ SeenBy(r) = SeenBy(call[c])
    BY <1>a, <2>1, <2>2 DEF CallRecord, SeenBy
  <2>4. CountFits(r)
    BY <2>3 DEF CountFits
  <2> HIDE DEF r, n
  <2>5. WritesFit(r) /\ RoomFits(r) /\ AskedFit(r)
    BY <1>a, <2>1, <2>2, <2>3 DEF CallFits, WritesFit, RoomFits, AskedFit
  <2> QED
    BY <1>a, <2>1, <2>3, <2>4, <2>5, CallGoesOn DEF CallFits
<1>9. ASSUME Group!Update(c) PROVE GroupInv'
  <2> DEFINE r == [call[c] EXCEPT !.at = "commit"]
  <2>1. /\ call[c].at = "update" /\ call' = [call EXCEPT ![c] = r]
        /\ lock' \in {c, lock} /\ (lock' # lock => lock = None)
        /\ UNCHANGED <<exists, members, count, send, reader, crowded, stale>>
    BY <1>9 DEF Group!Update
  <2>2. /\ r \in CallRecord /\ r.at = "commit" /\ r.counted = call[c].counted
        /\ r.kind = call[c].kind /\ r.users = call[c].users /\ r.left = call[c].left
        /\ r.absent = call[c].absent /\ r.own = call[c].own /\ r.gone = call[c].gone
        /\ r.lost = call[c].lost /\ r.disturbed = call[c].disturbed
    BY <1>a DEF CallRecord
  <2> HIDE DEF r
  <2>3. CallFits(r)
    BY <1>a, <2>1, <2>2 DEF CallFits, WritesFit, CountFits, RoomFits, AskedFit, SeenBy
  <2> QED
    BY <1>a, <2>1, <2>2, <2>3, CallGoesOn
<1>10. ASSUME Group!Fail(c) PROVE GroupInv'
  BY <1>10, <1>o DEF Group!Fail
<1> QED
  BY <1>1, <1>2, <1>3, <1>4, <1>5, <1>6, <1>7, <1>8, <1>9, <1>10

\* A commit publishes what the call wrote; the other calls and the plans learn
\* of it only through the tables.
LEMMA CommitKeeps ==
  ASSUME Group!Parameters, GroupInv, NEW c \in Calls, Group!Commit(c)
  PROVE  GroupInv'
<1> DEFINE me == call[c]
           seen == SeenBy(me)
           counting == {o \in Calls \ {c} :
             call[o].kind = "add" /\ call[o].at \in {"look", "write", "update", "commit"}}
           noisy == me.own \cup me.gone # {}
<1>a. /\ GroupShape /\ CallsFit /\ PlansFit /\ Group!OnlyOverlapsDisturb
      /\ call \in [Calls -> CallRecord] /\ me \in CallRecord /\ CallFits(me)
      /\ lock \in Calls \cup {None} /\ (lock # None => call[lock].at = "commit")
      /\ DOMAIN members \subseteq Users /\ None \notin Calls
  BY DEF GroupInv, GroupShape, CallsFit, Group!Parameters
<1>f. /\ me.absent \in SUBSET Users /\ me.own \in SUBSET Users /\ me.gone \in SUBSET Users
      /\ me.kind \in {"none", "add", "remove"} /\ me.disturbed \in BOOLEAN
  BY <1>a DEF CallRecord
<1>s. Group!Seen(c) = seen /\ seen \in SUBSET Users
  BY <1>a, <1>f DEF Group!Seen, SeenBy
<1>w. /\ me.at = "commit"
      /\ \/ me.kind = "add" /\ me.gone = {} /\ me.own \subseteq me.absent
         \/ me.kind = "remove" /\ me.own = {}
      /\ me.counted \in Rest .. (Rest + Size(Users))
  BY <1>a DEF Group!Commit, Group!Goes, CallFits, WritesFit
<1>c. /\ members' = [u \in seen |-> u \in DOMAIN members /\ members[u]]
      /\ count' = IF exists THEN me.counted ELSE count
      /\ lock' = IF lock = c THEN None ELSE lock
      /\ call' = [o \in Calls |->
           IF o = c THEN Group!Over("ok")
           ELSE [call[o] EXCEPT
             !.lost = @ \cup me.gone,
             !.disturbed = @ \/ (call[o].at \in {"update", "commit"} /\ noisy)]]
      /\ send' = [s \in Sends |-> [send[s] EXCEPT !.steady = @ \ me.gone,
                                                  !.quiet = @ \ me.gone]]
      /\ crowded' = (crowded \/ (me.own # {} /\ counting # {}))
      /\ stale' = me.disturbed
      /\ exists' = exists /\ reader' = reader
  BY <1>s DEF Group!Commit, Group!Learn
<1>n. /\ Limit \in Nat /\ Rest \in Nat
      /\ \A S \in SUBSET Users : Size(S) \in Nat /\ Size(S) <= Size(Users)
      /\ \A S, T \in SUBSET Users : Size(S \cup T) <= Size(S) + Size(T)
      /\ \A S, T \in SUBSET Users : S \subseteq T => Size(S) <= Size(T)
  BY Sizes
<1>m. /\ seen = (DOMAIN members \ me.gone) \cup me.own
      /\ DOMAIN members' = seen
      /\ \A u \in seen : members'[u] = (u \in DOMAIN members /\ members[u])
  BY <1>c DEF SeenBy
<1>o. ASSUME NEW o \in Calls, o # c
      PROVE  /\ call'[o] \in CallRecord /\ call'[o].at = call[o].at
             /\ call'[o].kind = call[o].kind /\ call'[o].users = call[o].users
             /\ call'[o].left = call[o].left /\ call'[o].absent = call[o].absent
             /\ call'[o].own = call[o].own /\ call'[o].gone = call[o].gone
             /\ call'[o].counted = call[o].counted
             /\ call'[o].lost = call[o].lost \cup me.gone
             /\ call'[o].disturbed =
                  (call[o].disturbed \/ (call[o].at \in {"update", "commit"} /\ noisy))
  <2> DEFINE late == call[o].disturbed \/ (call[o].at \in {"update", "commit"} /\ noisy)
             r == [call[o] EXCEPT !.lost = call[o].lost \cup me.gone, !.disturbed = late]
  <2>1. call'[o] = r
    BY <1>c, <1>o, Zenon
  <2>2. call[o] \in CallRecord /\ late \in BOOLEAN
    BY <1>a
  <2>3. call[o].lost \cup me.gone \in SUBSET Users
    BY <1>f, <2>2 DEF CallRecord
  <2> HIDE DEF late, noisy, me
  <2> QED
    BY <2>1, <2>2, <2>3 DEF CallRecord, late
<1>p. ASSUME NEW s \in Sends
      PROVE  /\ send'[s] \in SendRecord /\ send'[s].at = send[s].at
             /\ send'[s].from = send[s].from /\ send'[s].to = send[s].to
             /\ send'[s].left = send[s].left /\ send'[s].targets = send[s].targets
             /\ send'[s].steady = send[s].steady \ me.gone
             /\ send'[s].quiet = send[s].quiet \ me.gone
  <2> DEFINE r == [send[s] EXCEPT !.steady = send[s].steady \ me.gone,
                                  !.quiet = send[s].quiet \ me.gone]
  <2>1. send'[s] = r
    BY <1>c
  <2>2. send[s] \in SendRecord
    BY <1>a DEF GroupShape
  <2> HIDE DEF me
  <2> QED
    BY <2>1, <2>2 DEF SendRecord
<1>v. call'[c] \in CallRecord /\ CallFits(Group!Over("ok")) /\ call'[c] = Group!Over("ok")
  BY <1>c, OverFits
<1>h. ~crowded' => ~crowded /\ (me.own = {} \/ counting = {})
  BY <1>a, <1>c DEF GroupShape
<1> HIDE DEF me, seen, counting, noisy
<1>1. GroupShape'
  <2>1. call' \in [Calls -> CallRecord] /\ send' \in [Sends -> SendRecord]
    BY <1>c, <1>o, <1>p, <1>v
  <2>2. crowded' \in BOOLEAN /\ stale' \in BOOLEAN /\ exists' \in BOOLEAN
        /\ reader' \in {"contract", "RecipientReader"}
    BY <1>a, <1>c, <1>f DEF GroupShape
  <2>3. DOMAIN members' \subseteq Users
    BY <1>m, <1>s
  <2>4. ASSUME NEW u \in DOMAIN members' PROVE members'[u] \in BOOLEAN
    BY <1>a, <1>m, <2>4 DEF GroupShape
  <2>5. count' \in Rest .. (Rest + Size(Users))
    BY <1>a, <1>c, <1>w DEF GroupShape
  <2>6. lock' \in Calls \cup {None} /\ (lock' # None => call'[lock'].at = "commit")
    <3>1. CASE lock = c
      BY <1>c, <3>1
    <3>2. CASE lock # c
      <4>1. lock' = lock
        BY <1>c, <3>2
      <4>2. CASE lock \in Calls
        BY <1>a, <1>o, <3>2, <4>1, <4>2
      <4> QED
        BY <1>a, <4>1, <4>2
    <3> QED
      BY <3>1, <3>2
  <2> QED
    BY <2>1, <2>2, <2>3, <2>4, <2>5, <2>6 DEF GroupShape, Size
<1>2. CallsFit'
  <2> SUFFICES ASSUME NEW o \in Calls PROVE CallFits(call[o])'
    BY DEF CallsFit
  <2>1. CASE o = c
    <3>1. /\ call'[o].at = "ok" /\ call'[o].kind = "none" /\ call'[o].own = {}
          /\ call'[o].gone = {}
      BY <1>v, <2>1, OverFits
    <3> QED
      BY <3>1 DEF CallFits, WritesFit, CountFits, RoomFits, AskedFit
  <2>2. CASE o # c
    <3>1. CallFits(call[o]) /\ call[o] \in CallRecord /\ call[o].disturbed \in BOOLEAN
      BY <1>a DEF CallsFit, CallRecord
    <3>2. WritesFit(call[o])'
      BY <1>o, <2>2, <3>1 DEF CallFits, WritesFit, Size
    <3>3. CountFits(call[o])'
      <4> SUFFICES ASSUME call[o].at \in {"update", "commit"}, ~call'[o].disturbed, exists
                   PROVE  Rest + Size(SeenBy(call[o])') = call[o].counted
        BY <1>c, <1>o, <2>2 DEF CountFits, Size, SeenBy
      <4>1. ~call[o].disturbed /\ me.own = {} /\ me.gone = {}
        BY <1>o, <2>2, <3>1 DEF noisy
      <4>2. seen = DOMAIN members
        BY <1>m, <4>1
      <4>3. SeenBy(call[o])' = SeenBy(call[o])
        BY <1>m, <1>o, <2>2, <4>2 DEF SeenBy
      <4> QED
        BY <3>1, <4>1, <4>3 DEF CallFits, CountFits
    <3>4. RoomFits(call[o])'
      <4> SUFFICES ASSUME call[o].kind = "add", ~crowded', exists,
                          call[o].at \in {"look", "write", "update", "commit"}
                   PROVE  RoomFits(call[o])'
        BY <1>c, <1>o, <2>2 DEF RoomFits
      <4>1. ~crowded /\ me.own = {}
        BY <1>h, <2>2 DEF counting
      <4>2. Size(seen) \in Nat /\ Size(DOMAIN members) \in Nat /\ Size(call[o].absent) \in Nat
            /\ Size(seen) <= Size(DOMAIN members) /\ call[o].counted \in Nat
        BY <1>a, <1>m, <1>n, <1>s, <3>1, <4>1 DEF CallRecord
      <4>3. RoomFits(call[o])
        BY <3>1 DEF CallFits
      <4> QED
        BY <1>m, <1>n, <1>o, <2>2, <4>1, <4>2, <4>3 DEF RoomFits, Size, Limit
    <3>5. AskedFit(call[o])'
      BY <1>m, <1>o, <2>2, <3>1 DEF CallFits, AskedFit
    <3> QED
      BY <3>2, <3>3, <3>4, <3>5 DEF CallFits
  <2> QED
    BY <2>1, <2>2
<1>3. PlansFit'
  <2> SUFFICES ASSUME NEW s \in Sends, send[s].at \in {"member", "list", "muted"}
               PROVE  PlanFits(send[s])'
    BY <1>p DEF PlansFit, PlanFits
  <2>1. PlanFits(send[s])
    BY <1>a DEF PlansFit
  <2>2. ASSUME NEW u \in send[s].quiet, u \notin me.gone PROVE u \in DOMAIN members' /\ members'[u]
    BY <1>m, <2>1, <2>2 DEF PlanFits
  <2>3. send'[s].steady \subseteq DOMAIN members'
    BY <1>m, <1>p, <2>1 DEF PlanFits
  <2>4. \A u \in send'[s].quiet : u \in DOMAIN members' /\ members'[u]
    BY <1>p, <2>2
  <2>5. \A t \in send'[s].targets :
          /\ t.user \in Users \ ({send'[s].from} \cup BotIds)
          /\ t.push => t.user \notin send'[s].quiet
    BY <1>p, <2>1 DEF PlanFits
  <2>6. send'[s].at = "muted" =>
          send'[s].steady \ ({send'[s].from} \cup BotIds)
            \subseteq send'[s].left \cup {t.user : t \in send'[s].targets}
    BY <1>p, <2>1 DEF PlanFits
  <2>7. reader' = "contract"
    BY <1>c, <2>1 DEF PlanFits
  <2> QED
    BY <2>3, <2>4, <2>5, <2>6, <2>7 DEF PlanFits
<1>4. Group!LimitKept'
  <2>a. Group!Cardinality(seen) \in Nat
    BY <1>n, <1>s DEF Size
  <2>b. Group!LimitKept' =
          (exists' /\ Rest + Group!Cardinality(seen) > Limit => crowded')
    BY <1>m DEF Group!LimitKept, Limit
  <2>c. (Rest + Group!Cardinality(seen) <= Limit) => ~(Rest + Group!Cardinality(seen) > Limit)
    BY <1>n, <2>a
  <2> SUFFICES ASSUME exists, ~crowded' PROVE Rest + Size(seen) <= Limit
    BY <1>c, <2>b, <2>c DEF Size
  <2>1. Size(seen) \in Nat /\ Size(DOMAIN members) \in Nat /\ Size(me.absent) \in Nat
    BY <1>a, <1>f, <1>n, <1>s
  <2>2. CASE me.kind = "add"
    <3>1. Rest + Size(DOMAIN members) + Size(me.absent) <= Limit
      BY <1>a, <1>h, <1>w, <2>2 DEF CallFits, RoomFits
    <3>2. seen \subseteq DOMAIN members \cup me.absent /\ DOMAIN members \cup me.absent \in SUBSET Users
      BY <1>a, <1>f, <1>m, <1>w, <2>2
    <3>3. /\ Size(DOMAIN members \cup me.absent) \in Nat
          /\ Size(seen) <= Size(DOMAIN members \cup me.absent)
          /\ Size(DOMAIN members \cup me.absent) <= Size(DOMAIN members) + Size(me.absent)
      BY <1>a, <1>f, <1>n, <1>s, <3>2
    <3> QED
      BY <1>n, <2>1, <3>1, <3>3
  <2>3. CASE me.kind = "remove"
    <3>1. Size(seen) <= Size(DOMAIN members)
      BY <1>a, <1>m, <1>n, <1>s, <1>w, <2>3
    <3>2. Rest + Size(DOMAIN members) <= Limit
      BY <1>a, <1>h, <1>n, <2>1 DEF Group!OnlyOverlapsDisturb, Group!LimitKept, Size, Limit
    <3> QED
      BY <1>n, <2>1, <3>1, <3>2
  <2> QED
    BY <1>w, <2>2, <2>3
<1>5. Group!CountIsMembers'
  <2> SUFFICES ASSUME exists, ~me.disturbed PROVE me.counted = Rest + Size(seen)
    BY <1>c, <1>m DEF Group!CountIsMembers, Size
  <2> QED
    BY <1>a, <1>w DEF CallFits, CountFits, seen
<1> QED
  BY <1>1, <1>2, <1>3, <1>4, <1>5 DEF GroupInv, Group!OnlyOverlapsDisturb

\* The chat goes while no call has written: what the others were asked for is
\* lost, and the plans have nobody left to be told of.
LEMMA DeleteKeeps ==
  ASSUME Group!Parameters, GroupInv, NEW c \in Calls, Group!DeleteChat(c)
  PROVE  GroupInv'
<1>a. /\ GroupShape /\ CallsFit /\ PlansFit
      /\ call \in [Calls -> CallRecord] /\ send \in [Sends -> SendRecord]
  BY DEF GroupInv, GroupShape
<1>c. /\ lock = None /\ lock' = lock /\ exists' = FALSE /\ DOMAIN members' = {}
      /\ call' = [o \in Calls |->
           IF o = c THEN Group!Over("ok") ELSE [call[o] EXCEPT !.lost = Users]]
      /\ send' = [s \in Sends |-> [send[s] EXCEPT !.steady = @ \ Users, !.quiet = @ \ Users]]
      /\ UNCHANGED <<count, reader, crowded, stale>>
  BY DEF Group!DeleteChat, Group!Learn
<1>o. ASSUME NEW o \in Calls, o # c
      PROVE  /\ call'[o] \in CallRecord /\ call'[o].at = call[o].at
             /\ call'[o].kind = call[o].kind /\ call'[o].users \subseteq Users
             /\ call'[o].left = call[o].left /\ call'[o].absent = call[o].absent
             /\ call'[o].own = call[o].own /\ call'[o].gone = call[o].gone
             /\ call'[o].counted = call[o].counted /\ call'[o].lost = Users
  <2>1. call'[o] = [call[o] EXCEPT !.lost = Users] /\ call[o] \in CallRecord
    BY <1>a, <1>c, <1>o
  <2> QED
    BY <2>1 DEF CallRecord
<1>v. /\ call'[c] \in CallRecord /\ call'[c].at = "ok" /\ call'[c].kind = "none"
      /\ call'[c].own = {} /\ call'[c].gone = {}
  <2>1. call'[c] = Group!Over("ok")
    BY <1>c
  <2> QED
    BY <2>1, OverFits
<1>p. ASSUME NEW s \in Sends
      PROVE  /\ send'[s] \in SendRecord /\ send'[s].at = send[s].at
             /\ send'[s].from = send[s].from /\ send'[s].left = send[s].left
             /\ send'[s].targets = send[s].targets
             /\ send'[s].steady = {} /\ send'[s].quiet = {}
  <2>1. send'[s] = [send[s] EXCEPT !.steady = send[s].steady \ Users,
                                   !.quiet = send[s].quiet \ Users]
        /\ send[s] \in SendRecord
    BY <1>a, <1>c
  <2> QED
    BY <2>1 DEF SendRecord
<1>1. GroupShape'
  <2>1. call' \in [Calls -> CallRecord] /\ send' \in [Sends -> SendRecord]
    BY <1>c, <1>o, <1>p, <1>v
  <2> QED
    BY <1>a, <1>c, <2>1 DEF GroupShape, Size
<1>2. CallsFit'
  <2> SUFFICES ASSUME NEW o \in Calls PROVE CallFits(call[o])'
    BY DEF CallsFit
  <2>1. CASE o = c
    BY <1>v, <2>1 DEF CallFits, WritesFit, CountFits, RoomFits, AskedFit
  <2>2. CASE o # c
    <3>1. CallFits(call[o])
      BY <1>a DEF CallsFit
    <3>2. WritesFit(call[o])'
      BY <1>o, <2>2, <3>1 DEF CallFits, WritesFit, Size
    <3>3. CountFits(call[o])' /\ RoomFits(call[o])'
      BY <1>c DEF CountFits, RoomFits
    <3>4. AskedFit(call[o])'
      BY <1>o, <2>2, <3>1 DEF CallFits, AskedFit
    <3> QED
      BY <3>2, <3>3, <3>4 DEF CallFits
  <2> QED
    BY <2>1, <2>2
<1>3. PlansFit'
  <2> SUFFICES ASSUME NEW s \in Sends, send[s].at \in {"member", "list", "muted"}
               PROVE  PlanFits(send[s])'
    BY <1>p DEF PlansFit, PlanFits
  <2>1. PlanFits(send[s])
    BY <1>a DEF PlansFit
  <2> QED
    BY <1>c, <1>p, <2>1 DEF PlanFits
<1>4. Group!OnlyOverlapsDisturb'
  BY <1>c DEF Group!OnlyOverlapsDisturb, Group!LimitKept, Group!CountIsMembers
<1> QED
  BY <1>1, <1>2, <1>3, <1>4 DEF GroupInv

\* What the store tells of an id: the reader of the tables tells of all that
\* they are users.
LEMMA Types ==
  ASSUME Group!Parameters, reader \in {"contract", "RecipientReader"}
  PROVE  /\ \A id \in Users \cup {Chat} : Group!Type(id) \in {"BOT", "GROUP", "USER"}
         /\ \A id \in Users \cup {Chat} :
              Group!Type(id) = "GROUP" => reader = "contract" /\ id = Chat
         /\ \A id \in Users \ BotIds : Group!Type(id) = "USER"
         /\ reader = "contract" => \A id \in BotIds : Group!Type(id) = "BOT"
<1>1. \A type : Group!ParseRecipientType(type) = "USER"
  <2> SUFFICES ASSUME NEW type PROVE Group!ParseRecipientType(type) = "USER"
    OBVIOUS
  <2>1. Group!Lower(type) \notin {"USER", "GROUP", "CHANNEL", "BOT"}
    BY DEF Group!Lower
  <2> QED
    BY <2>1 DEF Group!ParseRecipientType
<1>2. CASE reader = "RecipientReader"
  BY <1>1, <1>2 DEF Group!Type
<1>3. CASE reader = "contract"
  BY <1>3 DEF Group!Type, Group!Parameters
<1> QED
  BY <1>2, <1>3

LEMMA AnswerFits ==
  ASSUME Group!Parameters, NEW step \in {"planned", "refused", "failed"},
         NEW to \in Users \cup {Chat, None},
         NEW targets \in SUBSET [user : Users \cup {Chat}, push : BOOLEAN]
  PROVE  LET p == Group!Answer(step, to, targets)
         IN  p \in SendRecord /\ p.at = step /\ PlanFits(p)
<1> DEFINE idle == Group!IdleSend
           p == [idle EXCEPT !.at = step, !.to = to, !.targets = targets]
<1>1. Group!Answer(step, to, targets) = p
  BY DEF Group!Answer
<1>2. idle \in SendRecord
  BY DEF Group!IdleSend, SendRecord, Group!Parameters
<1> HIDE DEF idle
<1>3. p \in SendRecord /\ p.at = step
  BY <1>2 DEF SendRecord
<1> HIDE DEF p
<1> QED
  BY <1>1, <1>3 DEF PlanFits

LEMMA PlanSteps ==
  ASSUME Group!Parameters, GroupInv, NEW s \in Sends,
         \/ \E from \in Users \ BotIds, to \in Users \cup {Chat} : Group!Resolve(s, from, to)
         \/ Group!SendSteps(s)
  PROVE  GroupInv'
<1> DEFINE old == send[s]
<1> USE DEF Group!tables
<1>a. /\ old \in SendRecord /\ PlanFits(old) /\ send \in [Sends -> SendRecord]
      /\ reader \in {"contract", "RecipientReader"}
      /\ DOMAIN members \in SUBSET Users /\ \A u \in DOMAIN members : members[u] \in BOOLEAN
  BY DEF GroupInv, GroupShape, PlansFit
<1>f. /\ old.from \in Users /\ old.to \in Users \cup {Chat, None} /\ old.left \in SUBSET Users
      /\ old.targets \in SUBSET [user : Users \cup {Chat}, push : BOOLEAN]
      /\ old.steady \in SUBSET Users /\ old.quiet \in SUBSET Users
  BY <1>a DEF SendRecord
<1>o. ASSUME NEW step \in {"planned", "refused", "failed"}, NEW to \in Users \cup {Chat, None},
             NEW targets \in SUBSET [user : Users \cup {Chat}, push : BOOLEAN],
             send' = [send EXCEPT ![s] = Group!Answer(step, to, targets)],
             UNCHANGED <<exists, members, count, lock, call, reader, crowded, stale>>
      PROVE  GroupInv'
  BY <1>o, AnswerFits, PlanGoesOn
<1>1. ASSUME NEW from \in Users \ BotIds, NEW to \in Users \cup {Chat}, Group!Resolve(s, from, to)
      PROVE  GroupInv'
  <2>1. UNCHANGED <<exists, members, count, lock, call, reader, crowded, stale>>
    BY <1>1 DEF Group!Resolve
  <2>2. CASE to = Chat /\ ~exists
    <3>1. send' = [send EXCEPT ![s] = Group!Answer("refused", None, {})]
      BY <1>1, <2>2 DEF Group!Resolve
    <3> QED
      BY <1>o, <2>1, <3>1
  <2>3. CASE ~(to = Chat /\ ~exists)
    <3>1. CASE Group!Type(to) = "BOT"
      <4>1. to # from
        BY <1>a, <3>1, Types
      <4>2. send' = [send EXCEPT ![s] =
                       Group!Answer("planned", to, {Group!Target(from, TRUE)})]
        BY <1>1, <2>3, <3>1, <4>1 DEF Group!Resolve
      <4>3. {Group!Target(from, TRUE)} \in SUBSET [user : Users \cup {Chat}, push : BOOLEAN]
        BY DEF Group!Target
      <4> QED
        BY <1>o, <2>1, <4>2, <4>3
    <3>2. CASE Group!Type(to) = "GROUP"
      <4> DEFINE quiet == {u \in DOMAIN members : members[u]}
                 p == [at |-> "member", from |-> from, to |-> to, left |-> {}, targets |-> {},
                       steady |-> DOMAIN members, quiet |-> quiet]
      <4>1. reader = "contract" /\ to = Chat /\ to # from
        BY <1>a, <3>2, Types DEF Group!Parameters
      <4>2. send' = [send EXCEPT ![s] = p]
        BY <1>1, <2>3, <3>2, <4>1 DEF Group!Resolve
      <4>3. p \in SendRecord
        BY <1>a DEF SendRecord
      <4>4. PlanFits(p)
        BY <4>1 DEF PlanFits
      <4> HIDE DEF p
      <4> QED
        BY <2>1, <4>2, <4>3, <4>4, PlanGoesOn
    <3>3. CASE Group!Type(to) = "USER"
      <4>1. CASE to = from
        <5>1. send' = [send EXCEPT ![s] = Group!Answer("refused", None, {})]
          BY <1>1, <2>3, <3>3, <4>1 DEF Group!Resolve
        <5> QED
          BY <1>o, <2>1, <5>1
      <4>2. CASE to # from
        <5>1. send' = [send EXCEPT ![s] =
                         Group!Answer("planned", to, {Group!Target(to, TRUE)})]
          BY <1>1, <2>3, <3>3, <4>2 DEF Group!Resolve
        <5>2. {Group!Target(to, TRUE)} \in SUBSET [user : Users \cup {Chat}, push : BOOLEAN]
          BY DEF Group!Target
        <5> QED
          BY <1>o, <2>1, <5>1, <5>2
      <4> QED
        BY <4>1, <4>2
    <3> QED
      BY <1>a, <3>1, <3>2, <3>3, Types
  <2> QED
    BY <2>2, <2>3
<1>2. ASSUME Group!IsMember(s) PROVE GroupInv'
  <2>1. old.at = "member" /\ UNCHANGED <<exists, members, count, lock, call, reader, crowded, stale>>
    BY <1>2 DEF Group!IsMember
  <2>2. CASE old.from \in DOMAIN members
    <3> DEFINE p == [old EXCEPT !.at = "list"]
    <3>1. send' = [send EXCEPT ![s] = p]
      BY <1>2, <1>a, <2>2 DEF Group!IsMember
    <3>2. /\ p \in SendRecord /\ p.at = "list" /\ p.from = old.from /\ p.targets = old.targets
          /\ p.steady = old.steady /\ p.quiet = old.quiet
      BY <1>a DEF SendRecord
    <3> HIDE DEF p
    <3>3. PlanFits(p)
      BY <1>a, <2>1, <3>2 DEF PlanFits
    <3> QED
      BY <2>1, <3>1, <3>2, <3>3, PlanGoesOn
  <2>3. CASE old.from \notin DOMAIN members
    <3>1. send' = [send EXCEPT ![s] = Group!Answer("refused", None, {})]
      BY <1>2, <2>3 DEF Group!IsMember
    <3> QED
      BY <1>o, <2>1, <3>1
  <2> QED
    BY <2>2, <2>3
<1>3. ASSUME Group!ListMembers(s) PROVE GroupInv'
  <2> DEFINE p == [old EXCEPT !.left = DOMAIN members, !.at = "muted"]
  <2>1. /\ old.at = "list" /\ send' = [send EXCEPT ![s] = p]
        /\ UNCHANGED <<exists, members, count, lock, call, reader, crowded, stale>>
    BY <1>3, <1>a DEF Group!ListMembers
  <2>2. /\ p \in SendRecord /\ p.at = "muted" /\ p.from = old.from /\ p.targets = old.targets
        /\ p.steady = old.steady /\ p.quiet = old.quiet /\ p.left = DOMAIN members
    BY <1>a DEF SendRecord
  <2> HIDE DEF p
  <2>3. PlanFits(p)
    BY <1>a, <2>1, <2>2 DEF PlanFits
  <2> QED
    BY <2>1, <2>2, <2>3, PlanGoesOn
<1>4. ASSUME Group!Consider(s) PROVE GroupInv'
  <2>1. PICK u \in old.left :
          /\ old.at = "muted"
          /\ send' = [send EXCEPT
               ![s].left = @ \ {u},
               ![s].targets = IF u = old.from \/ Group!Type(u) = "BOT" THEN @
                 ELSE @ \cup {Group!Target(u, ~(u \in DOMAIN members /\ members[u]))}]
          /\ UNCHANGED <<exists, members, count, lock, call, reader, crowded, stale>>
    BY <1>4 DEF Group!Consider
  <2>2. PICK push \in BOOLEAN : push = ~(u \in DOMAIN members /\ members[u])
    OBVIOUS
  <2> DEFINE targets == IF u = old.from \/ Group!Type(u) = "BOT" THEN old.targets
                        ELSE old.targets \cup {[user |-> u, push |-> push]}
             p == [old EXCEPT !.left = old.left \ {u}, !.targets = targets]
  <2>3. send' = [send EXCEPT ![s] = p]
    BY <1>a, <2>1, <2>2 DEF Group!Target
  <2>4. targets \in SUBSET [user : Users \cup {Chat}, push : BOOLEAN]
    BY <1>f
  <2>5. reader = "contract" /\ (u \in BotIds => Group!Type(u) = "BOT")
        /\ (u \in old.quiet => ~push)
    BY <1>a, <2>1, <2>2, Types DEF PlanFits
  <2>6. /\ \A t \in targets : /\ t.user \in Users \ ({old.from} \cup BotIds)
                              /\ t.push => t.user \notin old.quiet
        /\ old.targets \subseteq targets
        /\ u \notin {old.from} \cup BotIds => u \in {t.user : t \in targets}
    <3>1. \A t \in old.targets : /\ t.user \in Users \ ({old.from} \cup BotIds)
                                 /\ t.push => t.user \notin old.quiet
      BY <1>a, <2>1 DEF PlanFits
    <3>2. u \in Users \ BotIds => Group!Type(u) # "BOT"
      BY <1>a, Types
    <3>3. CASE u = old.from \/ Group!Type(u) = "BOT"
      BY <1>f, <2>5, <3>1, <3>2, <3>3
    <3>4. CASE ~(u = old.from \/ Group!Type(u) = "BOT")
      <4>1. targets = old.targets \cup {[user |-> u, push |-> push]}
        BY <3>4
      <4>2. u \in Users \ ({old.from} \cup BotIds)
        BY <1>f, <2>5, <3>4
      <4> DEFINE new == [user |-> u, push |-> push]
      <4>3. new.user = u /\ new.push = push /\ new \in targets
        BY <4>1
      <4> HIDE DEF targets, new
      <4>4. ASSUME NEW t \in targets
            PROVE  /\ t.user \in Users \ ({old.from} \cup BotIds)
                   /\ t.push => t.user \notin old.quiet
        BY <2>5, <3>1, <4>1, <4>2, <4>3 DEF new
      <4>5. old.targets \subseteq targets
        BY <4>1
      <4> QED
        BY <4>3, <4>4, <4>5
    <3> QED
      BY <3>3, <3>4
  <2> HIDE DEF targets
  <2>7. /\ p \in SendRecord /\ p.at = "muted" /\ p.from = old.from /\ p.targets = targets
        /\ p.steady = old.steady /\ p.quiet = old.quiet /\ p.left = old.left \ {u}
    BY <1>a, <1>f, <2>1, <2>4 DEF SendRecord
  <2> HIDE DEF p
  <2>8. PlanFits(p)
    <3>1. old.steady \ ({old.from} \cup BotIds)
            \subseteq (old.left \ {u}) \cup {t.user : t \in targets}
      BY <1>a, <2>1, <2>6 DEF PlanFits
    <3> QED
      BY <1>a, <2>1, <2>5, <2>6, <2>7, <3>1 DEF PlanFits
  <2> QED
    BY <2>1, <2>3, <2>7, <2>8, PlanGoesOn
<1>5. ASSUME Group!Planned(s) PROVE GroupInv'
  BY <1>5, <1>f, <1>o DEF Group!Planned
<1>6. ASSUME Group!ResolveFails(s) PROVE GroupInv'
  BY <1>6, <1>o DEF Group!ResolveFails
<1> QED
  BY <1>1, <1>2, <1>3, <1>4, <1>5, <1>6 DEF Group!SendSteps

LEMMA GroupStep ==
  ASSUME Group!Parameters, GroupInv, [Group!Next]_(Group!vars) PROVE GroupInv'
<1>1. CASE UNCHANGED Group!vars
  BY <1>1 DEF Group!vars, Group!tables, GroupInv, GroupShape, CallsFit, PlansFit, CallFits,
     WritesFit, CountFits, RoomFits, AskedFit, SeenBy, PlanFits, Size,
     Group!OnlyOverlapsDisturb, Group!LimitKept, Group!CountIsMembers
<1>2. ASSUME NEW c \in Calls, NEW users \in SUBSET Users, Group!AddMembers(c, users)
      PROVE  GroupInv'
  BY <1>2, CallSteps
<1>3. ASSUME NEW c \in Calls, NEW u \in Users, Group!RemoveMember(c, u) PROVE GroupInv'
  BY <1>3, CallSteps
<1>4. ASSUME NEW c \in Calls, Group!DeleteChat(c) PROVE GroupInv'
  BY <1>4, DeleteKeeps
<1>5. ASSUME NEW c \in Calls, Group!CallSteps(c) PROVE GroupInv'
  BY <1>5, CallSteps, CommitKeeps DEF Group!CallSteps
<1>6. ASSUME NEW s \in Sends, NEW from \in Users \ BotIds, NEW to \in Users \cup {Chat},
             Group!Resolve(s, from, to)
      PROVE  GroupInv'
  BY <1>6, PlanSteps
<1>7. ASSUME NEW s \in Sends, Group!SendSteps(s) PROVE GroupInv'
  BY <1>7, PlanSteps
<1> QED
  BY <1>1, <1>2, <1>3, <1>4, <1>5, <1>6, <1>7 DEF Group!Next

LEMMA GroupInvariant ==
  ASSUME Group!Parameters PROVE Group!Spec => []GroupInv
<1>1. Group!Init => GroupInv
  BY GroupInit
<1>2. GroupInv /\ [Group!Next]_(Group!vars) => GroupInv'
  BY GroupStep
<1> QED
  BY <1>1, <1>2, PTL DEF Group!Spec

\* However many calls and plans run, the tables, the transactions and the plans
\* keep their types, the row of the chat is locked by a call about to commit
\* and participant_count never leaves its range.
THEOREM ChatsTypeCorrect ==
  ASSUME Group!Parameters PROVE Group!Spec => []Group!TypeOK
<1>1. ASSUME Group!Parameters, GroupInv PROVE Group!TypeOK
  <2>1. GroupShape /\ CallsFit
    BY <1>1 DEF GroupInv
  <2>2. \A c \in Calls : call[c] \in CallRecord /\ WritesFit(call[c])
    BY <2>1 DEF GroupShape, CallsFit, CallFits
  <2>3. ASSUME NEW c \in Calls
        PROVE  /\ call[c].at \in {"idle", "count", "look", "write", "delete", "update",
                                  "commit", "ok", "failed"}
               /\ call[c].own \cap call[c].gone = {} /\ call[c].lost \subseteq Users
    BY <2>2 DEF CallRecord, WritesFit
  <2>4. ASSUME NEW s \in Sends
        PROVE  /\ send[s].at \in {"idle", "member", "list", "muted", "planned", "refused",
                                  "failed"}
               /\ \A t \in send[s].targets : t.user \in Users \cup {Chat}
    BY <2>1 DEF GroupShape, SendRecord
  <2> QED
    BY <2>1, <2>3, <2>4 DEF GroupShape, Group!TypeOK, Size
<1> QED
  BY <1>1, GroupInvariant, PTL

\* For any limit, any members and any number of calls of ChatManager at once:
\* the chat exceeds its limit, or participant_count is wrong, only if two calls
\* that changed the members overlapped.
THEOREM OnlyOverlapsDisturbChats ==
  ASSUME Group!Parameters PROVE Group!Spec => []Group!OnlyOverlapsDisturb
<1>1. GroupInv => Group!OnlyOverlapsDisturb
  BY DEF GroupInv
<1> QED
  BY <1>1, GroupInvariant, PTL

-----------------------------------------------------------------------------
\* A call about to commit succeeds by committing, and a plan ends when its list
\* is through.
LEMMA WhatEnds ==
  ASSUME Group!Parameters, GroupInv, Group!Next
  PROVE  /\ \A c \in Calls : call[c].at = "commit" /\ call'[c].at = "ok" => Group!Commit(c)
         /\ \A s \in Sends : Group!Ends(s) => Group!Planned(s)
<1> USE DEF Group!Goes, Group!To, Group!tables
<1>a. call \in [Calls -> CallRecord] /\ send \in [Sends -> SendRecord]
  BY DEF GroupInv, GroupShape
<1> DEFINE Ok(c) == call[c].at = "commit" /\ call'[c].at = "ok"
<1>o. \A step : Group!Over(step).at = step
  BY DEF Group!Over, Group!IdleCall
<1>w. \A step, to, targets : Group!Answer(step, to, targets).at = step
  BY DEF Group!Answer, Group!IdleSend
<1>1. ASSUME NEW d \in Calls,
             \/ \E users \in SUBSET Users : Group!AddMembers(d, users)
             \/ \E u \in Users : Group!RemoveMember(d, u)
             \/ Group!DeleteChat(d) \/ Group!CallSteps(d),
             NEW c \in Calls, Ok(c)
      PROVE  Group!Commit(c)
  <2>1. CASE \E users \in SUBSET Users : Group!AddMembers(d, users)
    <3>1. call'[c] = call[c] \/ call[c].at = "idle"
      BY <1>a, <2>1 DEF Group!AddMembers
    <3> QED
      BY <1>1, <3>1
  <2>2. CASE \E u \in Users : Group!RemoveMember(d, u)
    <3>1. call'[c] = call[c] \/ call[c].at = "idle"
      BY <1>a, <2>2 DEF Group!RemoveMember
    <3> QED
      BY <1>1, <3>1
  <2>3. CASE Group!DeleteChat(d)
    <3>1. c # d
      BY <1>1, <2>3 DEF Group!DeleteChat
    <3>2. call'[c] = [call[c] EXCEPT !.lost = Users] /\ call[c] \in CallRecord
      BY <1>a, <2>3, <3>1 DEF Group!DeleteChat
    <3>3. call'[c].at = call[c].at
      BY <3>2 DEF CallRecord
    <3> QED
      BY <1>1, <3>3
  <2>4. CASE Group!Commit(d)
    <3>1. CASE c = d
      BY <2>4, <3>1
    <3>2. CASE c # d
      <4>1. PICK lost, disturbed :
              call'[c] = [call[c] EXCEPT !.lost = lost, !.disturbed = disturbed]
        BY <2>4, <3>2, Zenon DEF Group!Commit
      <4>2. call'[c].at = call[c].at
        BY <1>a, <4>1 DEF CallRecord
      <4> QED
        BY <1>1, <4>2
    <3> QED
      BY <3>1, <3>2
  <2>5. CASE Group!Fail(d)
    <3>1. call'[c] = call[c] \/ call'[c] = Group!Over("failed")
      BY <1>a, <2>5 DEF Group!Fail
    <3> QED
      BY <1>1, <1>o, <3>1
  <2>6. CASE \/ Group!CountMembers(d) \/ Group!LookFor(d) \/ Group!CheckLimit(d)
             \/ Group!Insert(d) \/ Group!DeleteMember(d) \/ Group!Recount(d) \/ Group!Update(d)
    <3>1. call[d].at # "commit" /\ \A o \in Calls \ {d} : call'[o] = call[o]
      BY <1>a, <2>6 DEF Group!CountMembers, Group!LookFor, Group!CheckLimit, Group!Insert,
         Group!DeleteMember, Group!Recount, Group!Update
    <3> QED
      BY <1>1, <3>1
  <2> QED
    BY <1>1, <2>1, <2>2, <2>3, <2>4, <2>5, <2>6 DEF Group!CallSteps
<1>2. ASSUME NEW d \in Calls,
             \/ \E users \in SUBSET Users : Group!AddMembers(d, users)
             \/ \E u \in Users : Group!RemoveMember(d, u)
             \/ Group!DeleteChat(d) \/ Group!CallSteps(d),
             NEW s \in Sends
      PROVE  send'[s].at = send[s].at
  <2>1. CASE send' = send
    BY <2>1
  <2>2. CASE \E gone : send' = Group!Learn(gone)
    <3>1. PICK gone : send'[s] = [send[s] EXCEPT !.steady = send[s].steady \ gone,
                                                 !.quiet = send[s].quiet \ gone]
      BY <2>2 DEF Group!Learn
    <3> QED
      BY <1>a, <3>1 DEF SendRecord
  <2>3. send' = send \/ \E gone : send' = Group!Learn(gone)
    <3>1. CASE Group!DeleteChat(d)
      BY <3>1 DEF Group!DeleteChat
    <3>2. CASE Group!Commit(d)
      BY <3>2 DEF Group!Commit
    <3>3. CASE ~Group!DeleteChat(d) /\ ~Group!Commit(d)
      BY <1>2, <3>3 DEF Group!AddMembers, Group!RemoveMember, Group!CallSteps,
         Group!CountMembers, Group!LookFor, Group!CheckLimit, Group!Insert,
         Group!DeleteMember, Group!Recount, Group!Update, Group!Fail
    <3> QED
      BY <3>1, <3>2, <3>3
  <2> QED
    BY <2>1, <2>2, <2>3
<1>3. ASSUME NEW d \in Sends,
             \/ \E from \in Users \ BotIds, to \in Users \cup {Chat} : Group!Resolve(d, from, to)
             \/ Group!SendSteps(d)
      PROVE  /\ call' = call
             /\ \A s \in Sends : Group!Ends(s) => Group!Planned(s)
  <2>1. call' = call
    BY <1>3 DEF Group!SendSteps, Group!Resolve, Group!IsMember, Group!ListMembers,
       Group!Consider, Group!Planned, Group!ResolveFails
  <2>2. ASSUME NEW s \in Sends, Group!Ends(s) PROVE Group!Planned(s)
    <3>a. send[s].at = "muted" /\ send'[s].at = "planned"
      BY <2>2 DEF Group!Ends
    <3>1. CASE s # d
      <4>1. send'[s] = send[s]
        BY <1>3, <1>a, <3>1 DEF Group!SendSteps, Group!Resolve, Group!IsMember,
           Group!ListMembers, Group!Consider, Group!Planned, Group!ResolveFails
      <4> QED
        BY <3>a, <4>1
    <3>2. CASE s = d
      <4>1. CASE Group!Consider(s)
        <5>1. PICK left, targets :
                send' = [send EXCEPT ![s].left = left, ![s].targets = targets]
          BY <4>1 DEF Group!Consider
        <5>2. send'[s] = [send[s] EXCEPT !.left = left, !.targets = targets]
          BY <1>a, <5>1
        <5>3. send'[s].at = send[s].at
          BY <1>a, <5>2 DEF SendRecord
        <5> QED
          BY <3>a, <5>3
      <4>2. CASE Group!ResolveFails(s)
        <5>1. send'[s] = Group!Answer("failed", None, {})
          BY <1>a, <4>2 DEF Group!ResolveFails
        <5> QED
          BY <1>w, <3>a, <5>1
      <4>3. ~Group!IsMember(s) /\ ~Group!ListMembers(s)
            /\ \A from \in Users \ BotIds, to \in Users \cup {Chat} : ~Group!Resolve(s, from, to)
        BY <3>a DEF Group!IsMember, Group!ListMembers, Group!Resolve
      <4> QED
        BY <1>3, <3>2, <4>1, <4>2, <4>3 DEF Group!SendSteps
    <3> QED
      BY <3>1, <3>2
  <2> QED
    BY <2>1, <2>2
<1>4. CASE \E d \in Calls :
             \/ \E users \in SUBSET Users : Group!AddMembers(d, users)
             \/ \E u \in Users : Group!RemoveMember(d, u)
             \/ Group!DeleteChat(d) \/ Group!CallSteps(d)
  BY <1>1, <1>2, <1>4 DEF Group!Ends
<1>5. CASE \E d \in Sends :
             \/ \E from \in Users \ BotIds, to \in Users \cup {Chat} : Group!Resolve(d, from, to)
             \/ Group!SendSteps(d)
  BY <1>3, <1>5
<1> QED
  BY <1>4, <1>5 DEF Group!Next

\* Whoever else comes and goes meanwhile, AddMembers succeeds only with all it
\* was asked to add, but those removed since; a message to a chat is planned
\* for every unmuted or muted member who stayed, never for the sender, a bot or
\* the chat, and nobody muted all the time gets a push.
THEOREM MembersAreServedChats ==
  ASSUME Group!Parameters PROVE Group!Spec => [][Group!MembersAreServed]_(Group!vars)
<1>1. ASSUME Group!Parameters, GroupInv, Group!Next PROVE Group!MembersAreServed
  <2>1. ASSUME NEW c \in Calls, call[c].kind = "add", call[c].at = "commit",
               call'[c].at = "ok"
        PROVE  call[c].users \ call[c].lost \subseteq DOMAIN members'
    <3>1. Group!Commit(c)
      BY <1>1, <2>1, WhatEnds
    <3>2. DOMAIN members' = (DOMAIN members \ call[c].gone) \cup call[c].own
      BY <3>1 DEF Group!Commit, Group!Seen
    <3>3. CallFits(call[c])
      BY <1>1 DEF GroupInv, CallsFit
    <3> QED
      BY <2>1, <3>2, <3>3 DEF CallFits, WritesFit, AskedFit
  <2>2. ASSUME NEW s \in Sends, Group!Ends(s)
        PROVE  /\ send[s].steady \ ({send[s].from} \cup BotIds) \subseteq Group!TargetUsers(s)
               /\ Group!TargetUsers(s) \cap ({send[s].from, Chat} \cup BotIds) = {}
               /\ \A t \in send[s].targets : t.push => t.user \notin send[s].quiet
    <3>1. send[s].at = "muted" /\ send[s].left = {}
      BY <1>1, <2>2, WhatEnds DEF Group!Planned
    <3>2. PlanFits(send[s]) /\ Chat \notin Users
      BY <1>1 DEF GroupInv, PlansFit, Group!Parameters
    <3> QED
      BY <3>1, <3>2 DEF PlanFits, Group!TargetUsers
  <2> QED
    BY <2>1, <2>2 DEF Group!MembersAreServed, Group!AskedAreMembers, Group!MembersAreTargets,
       Group!MutedGetNoPush
<1> QED
  BY <1>1, GroupInvariant, PTL DEF Group!Spec
=============================================================================
