----------------------------- MODULE BotProofs -----------------------------
(***************************************************************************)
(* Proofs about BotUpdates for any number of messages and polls: what is   *)
(* marked as delivered was handed out, and no poll repeats an update.      *)
(* Neither needs that update ids are numbers, or distinct.  The types do:  *)
(* no id is greater than the number of messages that got one.              *)
(***************************************************************************)
EXTENDS BotUpdates, FiniteSetTheorems, WellFoundedInduction, TLAPS

\* The variables are functions with the domains the steps rely on.
Shape ==
  /\ row \in [Msgs -> {"none", "pending", "delivered"}]
  /\ DOMAIN number = Msgs
  /\ task \in [Msgs -> {"new", "numbered", "stored", "posting", "posted", "over"}]
  /\ DOMAIN poll = Polls
  /\ \A p \in Polls :
       /\ poll[p] = [at |-> poll[p].at, from |-> poll[p].from, batch |-> poll[p].batch]
       /\ poll[p].batch \subseteq Msgs

\* What a poll has read, and what the webhook has accepted, was handed out.
ReadIsHanded ==
  /\ \A p \in Polls : \A m \in poll[p].batch : number[m] \in handed
  /\ \A m \in Msgs : task[m] = "posted" => number[m] \in handed

\* A message without a row yet is in nobody's hands.
NewIsUnread ==
  \A m \in Msgs : task[m] \in {"new", "numbered"} =>
    row[m] = "none" /\ \A p \in Polls : m \notin poll[p].batch

HandInv == Shape /\ ReadIsHanded /\ NewIsUnread /\ DeliveredWasHanded

LEMMA HandInit == Init => HandInv
  BY DEF Init, Idle, HandInv, Shape, ReadIsHanded, NewIsUnread, DeliveredWasHanded

\* MarkDelivered turns rows into delivered ones whose ids are in the list, and
\* does so with every row of that id.
LEMMA Marks ==
  ASSUME Shape, NEW ids, MarkDelivered(ids)
  PROVE  /\ row' \in [Msgs -> {"none", "pending", "delivered"}]
         /\ \A m \in Msgs : row'[m] # row[m] => row'[m] = "delivered" /\ row[m] = "pending"
                                                  /\ number[m] \in ids
         /\ \A m \in Msgs : number[m] \in ids => row'[m] # "pending"
  BY DEF Shape, MarkDelivered, Numbered, Stored

LEMMA HandStep == HandInv /\ [Next]_vars => HandInv'
<1> SUFFICES ASSUME HandInv, [Next]_vars
             PROVE  HandInv'
  OBVIOUS
<1> USE DEF HandInv, Shape, ReadIsHanded, NewIsUnread, DeliveredWasHanded, At, pollVars, ingestVars
<1>1. ASSUME NEW m \in Msgs, Number(m) PROVE HandInv'
  BY <1>1 DEF Number
<1>2. ASSUME NEW m \in Msgs, Create(m) PROVE HandInv'
  BY <1>2 DEF Create
<1>3. ASSUME NEW m \in Msgs, IngestFails(m) PROVE HandInv'
  BY <1>3 DEF IngestFails
<1>4. ASSUME NEW m \in Msgs, Dispatch(m) PROVE HandInv'
  BY <1>4 DEF Dispatch
<1>5. ASSUME NEW m \in Msgs, PostUpdate(m) PROVE HandInv'
  BY <1>5 DEF PostUpdate
<1>6. ASSUME NEW m \in Msgs, PostFails(m) PROVE HandInv'
  BY <1>6 DEF PostFails
<1>7. ASSUME NEW m \in Msgs, MarkPosted(m) PROVE HandInv'
  BY <1>7, Marks DEF MarkPosted
<1>8. ASSUME NEW m \in Msgs, MarkPostedFails(m) PROVE HandInv'
  BY <1>8 DEF MarkPostedFails
<1>9. ASSUME NEW p \in Polls, Poll(p) PROVE HandInv'
  <2>1. PICK from \in {0, offset} :
          poll' = [poll EXCEPT ![p] = [at |-> "polling", from |-> from, batch |-> {}]]
    BY <1>9 DEF Poll
  <2>2. Shape'
    BY <1>9, <2>1 DEF Poll
  <2>3. ReadIsHanded' /\ NewIsUnread' /\ DeliveredWasHanded'
    BY <1>9, <2>1 DEF Poll
  <2> QED
    BY <2>2, <2>3
<1>10. ASSUME NEW p \in Polls, FetchPending(p) PROVE HandInv'
  <2>1. PICK batch \in Fetched(poll[p].from) \ {{}} :
          /\ poll' = [poll EXCEPT ![p] =
                        [at |-> "fetched", from |-> poll[p].from, batch |-> batch]]
          /\ handed' = handed \cup {number[m] : m \in batch}
    BY <1>10 DEF FetchPending
  <2>2. batch \subseteq {m \in Msgs : row[m] = "pending"}
    BY <2>1 DEF Fetched
  <2>3. Shape'
    BY <1>10, <2>1, <2>2 DEF FetchPending
  <2>4. ReadIsHanded' /\ NewIsUnread' /\ DeliveredWasHanded'
    BY <1>10, <2>1, <2>2 DEF FetchPending
  <2> QED
    BY <2>3, <2>4
<1>11. ASSUME NEW p \in Polls, PollEndsEmpty(p) PROVE HandInv'
  BY <1>11 DEF PollEndsEmpty, Idle
<1>12. ASSUME NEW p \in Polls, ConsumeRows(p) PROVE HandInv'
  <2>1. {number[m] : m \in poll[p].batch} \subseteq handed
    OBVIOUS
  <2> QED
    BY <1>12, <2>1, Marks DEF ConsumeRows
<1>13. ASSUME NEW p \in Polls, Answer(p) PROVE HandInv'
  BY <1>13 DEF Answer, Idle
<1>14. CASE GiveUp
  BY <1>14 DEF GiveUp
<1>15. CASE DropPending
  BY <1>15 DEF DropPending, DeletePending
<1>16. CASE Upsert
  BY <1>16 DEF Upsert
<1>17. CASE Delete
  BY <1>17 DEF Delete
<1>18. CASE Restart
  BY <1>18 DEF Restart, Idle
<1>19. CASE UNCHANGED vars
  BY <1>19 DEF vars
<1> QED
  BY <1>1, <1>2, <1>3, <1>4, <1>5, <1>6, <1>7, <1>8, <1>9, <1>10, <1>11, <1>12,
     <1>13, <1>14, <1>15, <1>16, <1>17, <1>18, <1>19
     DEF Next, IngestSteps, PollSteps, WebhookSteps

LEMMA HandInvariant == Spec => []HandInv
  BY HandInit, HandStep, PTL DEF Spec

\* A row is marked as delivered only if its update id was read for a poll or
\* accepted by the webhook (BotUpdateStore.MarkDelivered), for any messages,
\* any polls and any limit.
THEOREM DeliveredAreHanded == Spec => []DeliveredWasHanded
<1>1. HandInv => DeliveredWasHanded
  BY DEF HandInv
<1> QED
  BY <1>1, HandInvariant, PTL
-----------------------------------------------------------------------------
(* PolledOnce.                                                             *)

\* A pending row is one no poll has brought; the poll the bot waits for holds
\* none that a poll has brought; and the rows of a poll that has marked them
\* are not pending again.
TakenOnce ==
  /\ taken \in [Msgs -> {0, 1}]
  /\ \A m \in Msgs : row[m] = "pending" => taken[m] = 0
  /\ \A m \in Msgs : task[m] \in {"new", "numbered"} => taken[m] = 0
  /\ \A p \in Polls : waiting = p => \A m \in poll[p].batch : taken[m] = 0
  /\ \A p \in Polls : poll[p].at = "marked" =>
       \A m \in poll[p].batch : row[m] # "pending"

\* A poll that has not read yet holds nothing.
EmptyHanded ==
  \A p \in Polls : poll[p].at \in {"idle", "polling"} => poll[p].batch = {}

OnceInv == HandInv /\ EmptyHanded /\ TakenOnce

LEMMA OnceInit == Init => EmptyHanded /\ TakenOnce
  BY DEF Init, Idle, EmptyHanded, TakenOnce

LEMMA OnceStep ==
  ASSUME Parameters, OnceInv, [Next]_vars
  PROVE  (EmptyHanded /\ TakenOnce)'
<1> USE DEF Parameters, OnceInv, HandInv, Shape, NewIsUnread, EmptyHanded, TakenOnce, At, pollVars, ingestVars
<1> DEFINE Goal == (EmptyHanded /\ TakenOnce)'
<1>1. ASSUME NEW m \in Msgs, Number(m) PROVE Goal
  BY <1>1 DEF Number
<1>2. ASSUME NEW m \in Msgs, Create(m) PROVE Goal
  BY <1>2 DEF Create
<1>3. ASSUME NEW m \in Msgs, IngestFails(m) PROVE Goal
  BY <1>3 DEF IngestFails
<1>4. ASSUME NEW m \in Msgs, Dispatch(m) PROVE Goal
  BY <1>4 DEF Dispatch
<1>5. ASSUME NEW m \in Msgs, PostUpdate(m) PROVE Goal
  BY <1>5 DEF PostUpdate
<1>6. ASSUME NEW m \in Msgs, PostFails(m) PROVE Goal
  BY <1>6 DEF PostFails
<1>7. ASSUME NEW m \in Msgs, MarkPosted(m) PROVE Goal
  BY <1>7, Marks DEF MarkPosted
<1>8. ASSUME NEW m \in Msgs, MarkPostedFails(m) PROVE Goal
  BY <1>8 DEF MarkPostedFails
<1>9. ASSUME NEW p \in Polls, Poll(p) PROVE Goal
  <2>1. PICK from \in {0, offset} :
          poll' = [poll EXCEPT ![p] = [at |-> "polling", from |-> from, batch |-> {}]]
    BY <1>9 DEF Poll
  <2> QED
    BY <1>9, <2>1 DEF Poll
<1>10. ASSUME NEW p \in Polls, FetchPending(p) PROVE Goal
  <2>1. PICK batch \in Fetched(poll[p].from) \ {{}} :
          poll' = [poll EXCEPT ![p] =
                     [at |-> "fetched", from |-> poll[p].from, batch |-> batch]]
    BY <1>10 DEF FetchPending
  <2>2. batch \subseteq {m \in Msgs : row[m] = "pending"}
    BY <2>1 DEF Fetched
  <2> QED
    BY <1>10, <2>1, <2>2 DEF FetchPending
<1>11. ASSUME NEW p \in Polls, PollEndsEmpty(p) PROVE Goal
  BY <1>11 DEF PollEndsEmpty, StopsWaiting, Idle
<1>12. ASSUME NEW p \in Polls, ConsumeRows(p) PROVE Goal
  <2>1. \A m \in poll[p].batch : row'[m] # "pending"
    BY <1>12, Marks DEF ConsumeRows
  <2> QED
    BY <1>12, <2>1, Marks DEF ConsumeRows
<1>13. ASSUME NEW p \in Polls, Answer(p) PROVE Goal
  BY <1>13 DEF Answer, StopsWaiting, Idle
<1>14. CASE GiveUp
  BY <1>14 DEF GiveUp
<1>15. CASE DropPending
  BY <1>15 DEF DropPending, DeletePending
<1>16. CASE Upsert
  BY <1>16 DEF Upsert
<1>17. CASE Delete
  BY <1>17 DEF Delete
<1>18. CASE Restart
  BY <1>18 DEF Restart, Idle
<1>19. CASE UNCHANGED vars
  BY <1>19 DEF vars
<1> QED
  BY <1>1, <1>2, <1>3, <1>4, <1>5, <1>6, <1>7, <1>8, <1>9, <1>10, <1>11, <1>12,
     <1>13, <1>14, <1>15, <1>16, <1>17, <1>18, <1>19
     DEF Next, IngestSteps, PollSteps, WebhookSteps

\* A bot that has one poll open at a time gets no update from two polls, also
\* when the server works on for one it gave up or it polls from 0 again
\* (BotAPIService.consumeRows), for any messages, any polls and any limit.
THEOREM NoPollRepeats ==
  ASSUME Parameters
  PROVE  Spec => []PolledOnce
<1>1. Init => OnceInv
  BY HandInit, OnceInit DEF OnceInv
<1>2. OnceInv /\ [Next]_vars => OnceInv'
  BY HandStep, OnceStep DEF OnceInv
<1>3. OnceInv => PolledOnce
  BY DEF OnceInv, TakenOnce, PolledOnce
<1> QED
  BY <1>1, <1>2, <1>3, PTL DEF Spec
-----------------------------------------------------------------------------
(* The types: how far update ids go.                                       *)

\* A bounded set of numbers has a greatest one.
LEMMA Greatest ==
  ASSUME NEW S \in SUBSET Nat, S # {}, NEW top \in Nat, \A x \in S : x <= top
  PROVE  Max(S) \in S
<1> DEFINE R == {p \in Nat \X Nat : p[1] < p[2]}
           U == {u \in Nat : \A x \in S : x <= u}
<1>1. \E u \in U : \A v \in U : ~ (<<v, u>> \in R)
  <2>1. IsWellFoundedOn(R, Nat)
    BY NatLessThanWellFounded DEF OpToRel
  <2>2. U \subseteq Nat /\ U # {}
    OBVIOUS
  <2> HIDE DEF R, U
  <2> QED
    BY <2>1, <2>2, WFMin
<1>2. PICK u \in U : \A v \in U : ~ (<<v, u>> \in R)
  BY <1>1
<1>3. u \in S
  <2> SUFFICES ASSUME u \notin S PROVE FALSE
    OBVIOUS
  <2>0. \A x \in S : x \in Nat /\ u \in Nat /\ x <= u /\ x # u
    OBVIOUS
  <2>1. u - 1 \in Nat /\ \A x \in S : x <= u - 1
    <3>1. PICK y \in S : TRUE
      OBVIOUS
    <3> HIDE DEF U
    <3> QED
      BY <2>0, <3>1
  <2>2. <<u - 1, u>> \in R
    BY <2>1
  <2>3. u - 1 \in U
    BY <2>1
  <2> QED
    BY <1>2, <2>2, <2>3
<1>4. \A y \in S : u >= y
  OBVIOUS
<1> QED
  BY <1>3, <1>4 DEF Max

\* No id is greater than the number of messages that got one; a message that
\* waits to be stored, is stored, or is in a poll has an id.
Counted ==
  /\ \A m \in Msgs : number[m] <= Cardinality({n \in Msgs : number[n] # 0})
  /\ \A m \in Msgs : task[m] = "new" => number[m] = 0
  /\ \A m \in Msgs :
       row[m] # "none" \/ task[m] \in {"numbered", "stored", "posting", "posted"}
       => number[m] # 0
  /\ \A p \in Polls : \A m \in poll[p].batch : number[m] # 0
  /\ \A p \in Polls : poll[p].at \in {"fetched", "marked"} => poll[p].batch # {}

CountInv == HandInv /\ TypeOK /\ Counted

LEMMA CountInit == ASSUME IsFiniteSet(Msgs) PROVE Init => TypeOK /\ Counted
<1> SUFFICES ASSUME Init PROVE TypeOK /\ Counted
  OBVIOUS
<1>1. Cardinality(Msgs) \in Nat
  BY FS_CardinalityType
<1>2. {n \in Msgs : number[n] # 0} = {}
  BY DEF Init
<1>3. Counted
  <2>1. Cardinality({n \in Msgs : number[n] # 0}) = 0
    BY <1>2, FS_EmptySet
  <2>2. \A m \in Msgs : number[m] = 0
    BY DEF Init
  <2>3. \A m \in Msgs : number[m] <= Cardinality({n \in Msgs : number[n] # 0})
    <3> DEFINE used == Cardinality({n \in Msgs : number[n] # 0})
    <3>1. used = 0
      BY <2>1
    <3> HIDE DEF used
    <3>2. \A m \in Msgs : number[m] <= used
      BY <2>2, <3>1
    <3> QED
      BY <3>2 DEF used
  <2>4. /\ \A m \in Msgs : row[m] = "none" /\ task[m] = "new"
        /\ \A p \in Polls : poll[p].at = "idle" /\ poll[p].batch = {}
    BY DEF Init, Idle
  <2> QED
    BY <2>2, <2>3, <2>4 DEF Counted
<1>4. TypeOK
  <2>1. 0 \in 0 .. Cardinality(Msgs) /\ 0 \in 0 .. Cardinality(Msgs) + 1
    BY <1>1
  <2>2. /\ number \in [Msgs -> 0 .. Cardinality(Msgs)]
        /\ offset \in 0 .. Cardinality(Msgs) + 1
    BY <2>1 DEF Init
  <2>3. poll \in [Polls -> [at : {"idle", "polling", "fetched", "marked"},
                            from : 0 .. Cardinality(Msgs) + 1, batch : SUBSET Msgs]]
    BY <2>1 DEF Init, Idle
  <2> QED
    BY <2>2, <2>3 DEF Init, TypeOK
<1> QED
  BY <1>3, <1>4

\* The next update id is at most one more than the ids given out.
LEMMA NextIsNear ==
  ASSUME TypeOK, Counted, IsFiniteSet(Msgs)
  PROVE  /\ Cardinality({n \in Msgs : number[n] # 0}) \in Nat
         /\ NextUpdateID \in 1 .. (1 + Cardinality({n \in Msgs : number[n] # 0}))
<1> DEFINE used == Cardinality({n \in Msgs : number[n] # 0})
           S == {0} \cup {number[m] : m \in Stored}
<1>1. used \in Nat
  BY FS_Subset, FS_CardinalityType
<1>2. Cardinality(Msgs) \in Nat
  BY FS_CardinalityType
<1>3. \A m \in Msgs : number[m] \in Nat /\ number[m] <= used
  BY <1>2 DEF TypeOK, Counted
<1>4. S \subseteq Nat /\ \A x \in S : x <= used
  BY <1>1, <1>3 DEF Stored
<1>5. Max(S) \in S
  BY <1>1, <1>4, Greatest
<1>6. Max(S) \in 0 .. used
  BY <1>1, <1>4, <1>5
<1> QED
  BY <1>1, <1>6 DEF NextUpdateID

LEMMA CountNumber ==
  ASSUME IsFiniteSet(Msgs), CountInv, NEW m \in Msgs, Number(m)
  PROVE  (TypeOK /\ Counted)'
<1> DEFINE Used == {n \in Msgs : number[n] # 0}
<1>1. /\ number' = [number EXCEPT ![m] = NextUpdateID]
      /\ task[m] = "new" /\ task' = [task EXCEPT ![m] = "numbered"]
      /\ UNCHANGED <<row, hook, handed, poll, waiting, offset, taken>>
  BY DEF Number, At, pollVars
<1>2. Cardinality(Used) \in Nat /\ NextUpdateID \in 1 .. (1 + Cardinality(Used))
  BY NextIsNear DEF CountInv
<1>3. number \in [Msgs -> Nat] /\ number[m] = 0
  BY <1>1, FS_CardinalityType DEF CountInv, TypeOK, Counted
<1>4. {n \in Msgs : number'[n] # 0} = Used \cup {m}
  BY <1>1, <1>2, <1>3
<1>5. /\ Cardinality(Used \cup {m}) = Cardinality(Used) + 1
      /\ Cardinality(Used \cup {m}) <= Cardinality(Msgs)
      /\ Cardinality(Msgs) \in Nat
  <2>1. IsFiniteSet(Used) /\ m \notin Used /\ Used \cup {m} \in SUBSET Msgs
    BY <1>3, FS_Subset
  <2> HIDE DEF Used
  <2> QED
    BY <2>1, FS_AddElement, FS_Subset, FS_CardinalityType
<1>6. \A n \in Msgs : number[n] <= Cardinality(Used)
  BY DEF CountInv, Counted
<1> HIDE DEF Used
<1>7. \A n \in Msgs : number'[n] <= Cardinality(Used \cup {m})
  BY <1>1, <1>2, <1>3, <1>5, <1>6
<1>8. NextUpdateID \in 1 .. Cardinality(Msgs)
  BY <1>2, <1>5
<1>9. TypeOK'
  BY <1>1, <1>8 DEF CountInv, TypeOK
<1>10. Counted'
  <2>1. \A p \in Polls : m \notin poll[p].batch
    BY <1>1 DEF CountInv, HandInv, NewIsUnread
  <2> QED
    BY <1>1, <1>3, <1>4, <1>7, <1>8, <2>1 DEF CountInv, TypeOK, Counted
<1> QED
  BY <1>9, <1>10

\* An id of a message that has one is among the ids of the types.
LEMMA Ids ==
  ASSUME TypeOK, IsFiniteSet(Msgs)
  PROVE  /\ Cardinality(Msgs) \in Nat
         /\ \A m \in Msgs : number[m] \in 0 .. Cardinality(Msgs)
         /\ \A m \in Msgs : number[m] # 0 => number[m] \in 1 .. Cardinality(Msgs)
<1>1. Cardinality(Msgs) \in Nat
  BY FS_CardinalityType
<1>2. \A m \in Msgs : number[m] \in 0 .. Cardinality(Msgs)
  BY DEF TypeOK
<1> QED
  BY <1>1, <1>2

LEMMA CountStep ==
  ASSUME IsFiniteSet(Msgs), CountInv, [Next]_vars
  PROVE  (TypeOK /\ Counted)'
<1> DEFINE Goal == (TypeOK /\ Counted)'
           N == Cardinality(Msgs)
<1>a. HandInv /\ TypeOK /\ Counted
  BY DEF CountInv
<1>b. /\ N \in Nat
      /\ \A m \in Msgs : number[m] # 0 => number[m] \in 1 .. N
  BY <1>a, Ids
<1> HIDE DEF N
<1>c. TypeOK /\ N = Cardinality(Msgs)
  BY <1>a DEF N
<1> USE DEF At, pollVars, ingestVars
<1>1. ASSUME NEW m \in Msgs, Number(m) PROVE Goal
  BY <1>1, CountNumber
<1>2. ASSUME NEW m \in Msgs, Create(m) PROVE Goal
  BY <1>a, <1>2 DEF Create, TypeOK, Counted
<1>3. ASSUME NEW m \in Msgs, IngestFails(m) PROVE Goal
  BY <1>a, <1>3 DEF IngestFails, TypeOK, Counted
<1>4. ASSUME NEW m \in Msgs, Dispatch(m) PROVE Goal
  BY <1>a, <1>4 DEF Dispatch, TypeOK, Counted
<1>5. ASSUME NEW m \in Msgs, PostUpdate(m) PROVE Goal
  <2>1. number[m] \in 1 .. N
    BY <1>a, <1>b, <1>5 DEF PostUpdate, Counted
  <2> QED
    BY <1>a, <1>c, <1>5, <2>1 DEF PostUpdate, TypeOK, Counted
<1>6. ASSUME NEW m \in Msgs, PostFails(m) PROVE Goal
  BY <1>a, <1>6 DEF PostFails, TypeOK, Counted
<1>7. ASSUME NEW m \in Msgs, MarkPosted(m) PROVE Goal
  <2>1. /\ row' \in [Msgs -> {"none", "pending", "delivered"}]
        /\ \A n \in Msgs : row'[n] # "none" => row[n] # "none"
    BY <1>a, <1>7, Marks DEF MarkPosted, HandInv
  <2> QED
    BY <1>a, <1>7, <2>1 DEF MarkPosted, TypeOK, Counted
<1>8. ASSUME NEW m \in Msgs, MarkPostedFails(m) PROVE Goal
  BY <1>a, <1>8 DEF MarkPostedFails, TypeOK, Counted
<1>9. ASSUME NEW p \in Polls, Poll(p) PROVE Goal
  <2>1. PICK from \in {0, offset} :
          /\ offset' = from
          /\ poll' = [poll EXCEPT ![p] = [at |-> "polling", from |-> from, batch |-> {}]]
    BY <1>9 DEF Poll
  <2>2. from \in 0 .. N + 1
    BY <1>b, <1>c, <2>1 DEF TypeOK
  <2>3. TypeOK'
    BY <1>c, <1>9, <2>1, <2>2 DEF Poll, TypeOK
  <2>4. Counted'
    BY <1>a, <1>9, <2>1 DEF Poll, Counted, TypeOK
  <2> QED
    BY <2>3, <2>4
<1>10. ASSUME NEW p \in Polls, FetchPending(p) PROVE Goal
  <2>1. PICK batch \in Fetched(poll[p].from) \ {{}} :
          /\ poll' = [poll EXCEPT ![p] =
                        [at |-> "fetched", from |-> poll[p].from, batch |-> batch]]
          /\ handed' = handed \cup {number[m] : m \in batch}
    BY <1>10 DEF FetchPending
  <2>2. batch \subseteq {m \in Msgs : row[m] = "pending"} /\ batch # {}
    BY <2>1 DEF Fetched
  <2>3. \A m \in batch : number[m] # 0 /\ number[m] \in 1 .. N
    BY <1>a, <1>b, <2>2 DEF Counted
  <2>4. UNCHANGED <<row, number, task, hook, waiting, offset, taken>>
    BY <1>10 DEF FetchPending
  <2>5. poll[p].from \in 0 .. N + 1
    BY <1>c DEF TypeOK
  <2>6. TypeOK'
    BY <1>c, <2>1, <2>2, <2>3, <2>4, <2>5 DEF TypeOK
  <2>7. Counted'
    BY <1>a, <2>1, <2>2, <2>3, <2>4 DEF TypeOK, Counted
  <2> QED
    BY <2>6, <2>7
<1>11. ASSUME NEW p \in Polls, PollEndsEmpty(p) PROVE Goal
  <2>1. /\ poll' = [poll EXCEPT ![p] = Idle]
        /\ waiting' \in {waiting, None}
        /\ UNCHANGED <<row, number, task, hook, handed, offset, taken>>
    BY <1>11 DEF PollEndsEmpty, StopsWaiting
  <2>2. 0 \in 0 .. N + 1
    BY <1>b
  <2>3. TypeOK'
    BY <1>c, <2>1, <2>2 DEF TypeOK, Idle
  <2>4. Counted'
    BY <1>a, <2>1 DEF TypeOK, Counted, Idle
  <2> QED
    BY <2>3, <2>4
<1>12. ASSUME NEW p \in Polls, ConsumeRows(p) PROVE Goal
  <2>1. /\ row' \in [Msgs -> {"none", "pending", "delivered"}]
        /\ \A n \in Msgs : row'[n] # "none" => row[n] # "none"
    BY <1>a, <1>12, Marks DEF ConsumeRows, HandInv
  <2>2. /\ poll[p].at = "fetched" /\ poll' = [poll EXCEPT ![p].at = "marked"]
        /\ UNCHANGED <<number, task, hook, handed, waiting, offset, taken>>
    BY <1>12 DEF ConsumeRows
  <2>3. TypeOK'
    BY <1>a, <2>1, <2>2 DEF TypeOK
  <2>4. Counted'
    BY <1>a, <2>1, <2>2 DEF TypeOK, Counted
  <2> QED
    BY <2>3, <2>4
<1>13. ASSUME NEW p \in Polls, Answer(p) PROVE Goal
  <2>1. /\ poll[p].at = "marked" /\ poll' = [poll EXCEPT ![p] = Idle]
        /\ waiting' \in {waiting, None}
        /\ UNCHANGED <<row, number, task, hook, handed>>
    BY <1>13 DEF Answer, StopsWaiting
  <2>2. offset' \in 0 .. N + 1 /\ taken' \in [Msgs -> Nat]
    <3>1. CASE waiting = p
      <4> DEFINE S == {number[m] : m \in poll[p].batch}
      <4>1. S \subseteq 1 .. N /\ S # {}
        BY <1>a, <1>b, <2>1 DEF Counted, TypeOK
      <4>2. S \subseteq Nat /\ \A x \in S : x <= N
        BY <1>b, <4>1
      <4>3. Max(S) \in 1 .. N
        <5> HIDE DEF S
        <5> QED
          BY <1>b, <4>1, <4>2, Greatest
      <4>4. /\ offset' = 1 + Max(S)
            /\ taken' = [m \in Msgs |-> IF m \in poll[p].batch THEN taken[m] + 1 ELSE taken[m]]
        BY <1>13, <3>1 DEF Answer
      <4>5. \A m \in Msgs : taken[m] \in Nat /\ taken[m] + 1 \in Nat
        BY <1>a DEF TypeOK
      <4> HIDE DEF S
      <4>6. offset' \in 0 .. N + 1
        BY <1>b, <4>3, <4>4
      <4>7. taken' \in [Msgs -> Nat]
        BY <4>4, <4>5
      <4> QED
        BY <4>6, <4>7
    <3>2. CASE waiting # p
      BY <1>c, <1>13, <3>2 DEF Answer, TypeOK
    <3> QED
      BY <3>1, <3>2
  <2>3. 0 \in 0 .. N + 1
    BY <1>b
  <2>4. TypeOK'
    BY <1>c, <2>1, <2>2, <2>3 DEF TypeOK, Idle
  <2>5. Counted'
    BY <1>a, <2>1 DEF TypeOK, Counted, Idle
  <2> QED
    BY <2>4, <2>5
<1>14. CASE GiveUp
  BY <1>a, <1>14 DEF GiveUp, TypeOK, Counted
<1>15. CASE DropPending
  BY <1>a, <1>15 DEF DropPending, DeletePending, TypeOK, Counted
<1>16. CASE Upsert
  BY <1>a, <1>16 DEF Upsert, TypeOK, Counted
<1>17. CASE Delete
  BY <1>a, <1>17 DEF Delete, TypeOK, Counted
<1>18. CASE Restart
  <2>1. 0 \in 0 .. N + 1
    BY <1>b
  <2>2. TypeOK'
    BY <1>c, <1>18, <2>1 DEF Restart, Idle, TypeOK
  <2>3. Counted'
    BY <1>a, <1>18 DEF Restart, Idle, Counted, TypeOK
  <2> QED
    BY <2>2, <2>3
<1>19. CASE UNCHANGED vars
  BY <1>a, <1>19 DEF vars, TypeOK, Counted
<1> QED
  BY <1>1, <1>2, <1>3, <1>4, <1>5, <1>6, <1>7, <1>8, <1>9, <1>10, <1>11, <1>12,
     <1>13, <1>14, <1>15, <1>16, <1>17, <1>18, <1>19
     DEF Next, IngestSteps, PollSteps, WebhookSteps

\* For any finite number of messages, no update id is greater than it, nor the
\* offset a bot keeps than it plus one: NextUpdateID counts from the rows that
\* are left, so ids are shared or used again and never run ahead
\* (BotUpdateStore.NextUpdateID).
THEOREM UpdateTypeCorrect ==
  ASSUME IsFiniteSet(Msgs)
  PROVE  Spec => []TypeOK
<1>1. Init => CountInv
  BY HandInit, CountInit DEF CountInv
<1>2. CountInv /\ [Next]_vars => CountInv'
  BY HandStep, CountStep DEF CountInv
<1>3. CountInv => TypeOK
  BY DEF CountInv
<1> QED
  BY <1>1, <1>2, <1>3, PTL DEF Spec
=============================================================================
