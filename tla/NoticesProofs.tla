---------------------------- MODULE NoticesProofs ----------------------------
(***************************************************************************)
(* Proofs about typing notices and synchronisation, for any number of      *)
(* connections and users: notices go out in the order in which the table   *)
(* changed, each while the table is still as its request left it, and a    *)
(* SyncMessage goes to each of its targets.  The inductive invariant adds  *)
(* what TypingService.mu is for: one pump at a time is between its change  *)
(* of the table and its Dispatch.                                          *)
(*                                                                         *)
(* The second part is about reception: a kept row is deleted only after a  *)
(* client handled it, and one deletion is told of it.  Its inductive       *)
(* invariant follows a row through replay, frame, job and acknowledgement; *)
(* from it Reception implements Mailbox.                                   *)
(***************************************************************************)
EXTENDS Notices, FiniteSetTheorems, TLAPS

\* The part on reception: its own constants and variables.
CONSTANTS Clients, Rows, Older, Forms, MaxLost, MaxErrors

VARIABLES table, link, down, jobs, worker, handled, up, serving, told, refused,
          lost, errors

Rec == INSTANCE Reception

Pair(p) == <<pump[p].to, UserOf[p]>>

\* A typing request names a recipient.
TypingHasRecipient ==
  \A p \in Pumps : pump[p].at \in {"lock", "relay"} => pump[p].to \in Users

\* The lock is held by the pump that stands before its Dispatch.
LockIsHeld == \A p \in Pumps : pump[p].at = "relay" <=> mu = p

\* The change that a pump made is the one whose notice is missing.
ChangeAwaits ==
  \A p \in Pumps :
    pump[p].at = "relay" => changed[pump[p].to] = Append(noticed[pump[p].to], UserOf[p])

NoticesInv ==
  /\ TypeOK
  /\ TypingHasRecipient /\ LockIsHeld /\ ChangeAwaits
  /\ NoticesInOrder /\ TableAwaitsNotice /\ SyncTriesAll

-----------------------------------------------------------------------------
LEMMA NoticesInit == Parameters /\ Init => NoticesInv
<1> SUFFICES ASSUME Parameters, Init PROVE NoticesInv
  OBVIOUS
<1>1. \A p \in Pumps : pump[p] = Idle
  BY DEF Init
<1>2. Idle \in Request
  BY DEF Idle, Request
<1>3. <<>> \in Seq(Users)
  OBVIOUS
<1>4. TypeOK
  BY <1>2, <1>3 DEF Init, TypeOK, Parameters
<1>5. TypingHasRecipient /\ LockIsHeld /\ ChangeAwaits /\ TableAwaitsNotice
  BY <1>1 DEF Init, Idle, TypingHasRecipient, LockIsHeld, ChangeAwaits, TableAwaitsNotice,
     Parameters
<1>6. NoticesInOrder /\ SyncTriesAll
  BY <1>1 DEF Init, NoticesInOrder, SyncTriesAll
<1> QED
  BY <1>4, <1>5, <1>6 DEF NoticesInv

\* A pump that takes a request of any kind is not one that waits.
LEMMA TakeStep ==
  ASSUME Parameters, NoticesInv, NEW p \in Pumps, NEW request \in Request,
         request.at \in {"lock", "sync", "receipt"},
         request.at = "lock" => request.to \in Users,
         Take(p, request), UNCHANGED <<typers, mu, orderVars>>
  PROVE  /\ pump' \in [Pumps -> Request] /\ requests' \in 0 .. MaxRequests
         /\ pump[p].at = "read" /\ pump'[p] = request
         /\ \A q \in Pumps \ {p} : pump'[q] = pump[q]
         /\ TypingHasRecipient' /\ LockIsHeld' /\ ChangeAwaits'
         /\ NoticesInOrder' /\ TableAwaitsNotice'
<1>a. /\ pump \in [Pumps -> Request] /\ None \notin Pumps
      /\ requests \in 0 .. MaxRequests /\ MaxRequests \in Nat
  BY DEF NoticesInv, TypeOK, Parameters
<1>b. TypingHasRecipient /\ LockIsHeld /\ ChangeAwaits /\ NoticesInOrder /\ TableAwaitsNotice
  BY DEF NoticesInv
<1>1. /\ pump' \in [Pumps -> Request] /\ requests' \in 0 .. MaxRequests
      /\ pump[p].at = "read" /\ pump'[p] = request
      /\ \A q \in Pumps \ {p} : pump'[q] = pump[q]
  BY <1>a DEF Take
<1>2. \A q \in Pumps : /\ pump[q].at = "relay" => pump'[q] = pump[q]
                       /\ pump'[q].at = "relay" => pump'[q] = pump[q]
  BY <1>1
<1>3. TypingHasRecipient' /\ LockIsHeld' /\ TableAwaitsNotice'
  BY <1>b, <1>1, <1>2 DEF TypingHasRecipient, LockIsHeld, TableAwaitsNotice
<1>4. ChangeAwaits' /\ NoticesInOrder'
  BY <1>b, <1>2 DEF ChangeAwaits, NoticesInOrder, orderVars
<1> QED
  BY <1>1, <1>3, <1>4

LEMMA NoticesStep == Parameters /\ NoticesInv /\ [Next]_vars => NoticesInv'
<1> SUFFICES ASSUME Parameters, NoticesInv, [Next]_vars PROVE NoticesInv'
  OBVIOUS
<1>a. /\ typers \in [Users \X Users -> {"none", "fresh", "expired"}]
      /\ mu \in Pumps \cup {None} /\ None \notin Pumps
      /\ pump \in [Pumps -> Request] /\ \A p \in Pumps : UserOf[p] \in Users
      /\ changed \in [Users -> Seq(Users)] /\ noticed \in [Users -> Seq(Users)]
      /\ asked \in [Pumps -> SUBSET Users] /\ tried \in [Pumps -> SUBSET Users]
      /\ requests \in 0 .. MaxRequests /\ MaxRequests \in Nat
  BY DEF NoticesInv, TypeOK, Parameters
<1>b. /\ TypingHasRecipient /\ LockIsHeld /\ ChangeAwaits
      /\ NoticesInOrder /\ TableAwaitsNotice /\ SyncTriesAll
  BY DEF NoticesInv
<1>c. Idle \in Request /\ Idle.at = "read"
  BY DEF Idle, Request
<1>0. CASE UNCHANGED vars
  BY <1>0 DEF NoticesInv, vars, orderVars, syncVars, TypeOK, TypingHasRecipient, LockIsHeld,
     ChangeAwaits, NoticesInOrder, TableAwaitsNotice, SyncTriesAll
<1>1. ASSUME NEW p \in Pumps, NEW to \in Users, NEW state \in {"started", "stopped"},
             PutTyping(p, to, state)
      PROVE  NoticesInv'
  <2> DEFINE request == [Idle EXCEPT !.at = "lock", !.to = to, !.state = state]
  <2>1. /\ Take(p, request) /\ UNCHANGED <<typers, mu, orderVars, asked, tried>>
    BY <1>1 DEF PutTyping, syncVars
  <2>2. request \in Request /\ request.at = "lock" /\ request.to = to
    BY DEF Idle, Request
  <2> HIDE DEF request
  <2>3. /\ pump' \in [Pumps -> Request] /\ requests' \in 0 .. MaxRequests
        /\ pump[p].at = "read" /\ pump'[p] = request
        /\ \A q \in Pumps \ {p} : pump'[q] = pump[q]
        /\ TypingHasRecipient' /\ LockIsHeld' /\ ChangeAwaits'
        /\ NoticesInOrder' /\ TableAwaitsNotice'
    BY <2>1, <2>2, TakeStep
  <2>4. TypeOK'
    BY <1>a, <2>1, <2>3 DEF TypeOK, orderVars
  <2>5. SyncTriesAll'
    BY <1>b, <2>1, <2>2, <2>3 DEF SyncTriesAll
  <2> QED
    BY <2>3, <2>4, <2>5 DEF NoticesInv
<1>2. ASSUME NEW p \in Pumps, NEW targets \in SUBSET Users, PutSync(p, targets)
      PROVE  NoticesInv'
  <2> DEFINE request == [Idle EXCEPT !.at = "sync", !.targets = targets]
  <2>1. /\ Take(p, request) /\ UNCHANGED <<typers, mu, orderVars>>
        /\ asked' = [asked EXCEPT ![p] = targets] /\ tried' = [tried EXCEPT ![p] = {}]
    BY <1>2 DEF PutSync
  <2>2. request \in Request /\ request.at = "sync" /\ request.targets = targets
    BY DEF Idle, Request
  <2> HIDE DEF request
  <2>3. /\ pump' \in [Pumps -> Request] /\ requests' \in 0 .. MaxRequests
        /\ pump[p].at = "read" /\ pump'[p] = request
        /\ \A q \in Pumps \ {p} : pump'[q] = pump[q]
        /\ TypingHasRecipient' /\ LockIsHeld' /\ ChangeAwaits'
        /\ NoticesInOrder' /\ TableAwaitsNotice'
    BY <2>1, <2>2, TakeStep
  <2>4. TypeOK'
    BY <1>a, <2>1, <2>3 DEF TypeOK, orderVars
  <2>5. SyncTriesAll'
    BY <1>a, <1>b, <2>1, <2>2, <2>3 DEF SyncTriesAll
  <2> QED
    BY <2>3, <2>4, <2>5 DEF NoticesInv
<1>3. ASSUME NEW p \in Pumps, PutReceipt(p) PROVE NoticesInv'
  <2> DEFINE request == [Idle EXCEPT !.at = "receipt"]
  <2>1. /\ Take(p, request) /\ UNCHANGED <<typers, mu, orderVars, asked, tried>>
    BY <1>3 DEF PutReceipt, syncVars
  <2>2. request \in Request /\ request.at = "receipt"
    BY DEF Idle, Request
  <2> HIDE DEF request
  <2>3. /\ pump' \in [Pumps -> Request] /\ requests' \in 0 .. MaxRequests
        /\ pump[p].at = "read" /\ pump'[p] = request
        /\ \A q \in Pumps \ {p} : pump'[q] = pump[q]
        /\ TypingHasRecipient' /\ LockIsHeld' /\ ChangeAwaits'
        /\ NoticesInOrder' /\ TableAwaitsNotice'
    BY <2>1, <2>2, TakeStep
  <2>4. TypeOK'
    BY <1>a, <2>1, <2>3 DEF TypeOK, orderVars
  <2>5. SyncTriesAll'
    BY <1>b, <2>1, <2>2, <2>3 DEF SyncTriesAll
  <2> QED
    BY <2>3, <2>4, <2>5 DEF NoticesInv
<1>4. ASSUME NEW p \in Pumps, HandleTyping(p) PROVE NoticesInv'
  <2>1. /\ pump[p].at = "lock" /\ mu = None /\ mu' = p
        /\ typers' = [typers EXCEPT ![Pair(p)] =
                        IF pump[p].state = "started" THEN "fresh" ELSE "none"]
        /\ changed' = [changed EXCEPT ![pump[p].to] = Append(@, UserOf[p])]
        /\ pump' = [pump EXCEPT ![p].at = "relay"]
        /\ UNCHANGED <<noticed, asked, tried, requests>>
    BY <1>4 DEF HandleTyping, Noted, Pair, syncVars
  <2>2. pump[p].to \in Users /\ UserOf[p] \in Users /\ Pair(p) \in Users \X Users
    BY <1>a, <1>b, <2>1 DEF TypingHasRecipient, Pair
  <2>3. /\ pump' \in [Pumps -> Request]
        /\ \A q \in Pumps \ {p} : pump'[q] = pump[q]
        /\ pump'[p].at = "relay" /\ pump'[p].to = pump[p].to
        /\ pump'[p].state = pump[p].state
    BY <1>a, <2>1 DEF Request
  <2>4. /\ typers' \in [Users \X Users -> {"none", "fresh", "expired"}]
        /\ typers'[Pair(p)] = IF pump[p].state = "started" THEN "fresh" ELSE "none"
    BY <1>a, <2>1, <2>2
  <2>5. /\ changed' \in [Users -> Seq(Users)]
        /\ changed'[pump[p].to] = Append(changed[pump[p].to], UserOf[p])
        /\ \A to \in Users : to # pump[p].to => changed'[to] = changed[to]
    <3>1. Append(changed[pump[p].to], UserOf[p]) \in Seq(Users)
      BY <1>a, <2>2
    <3> QED
      BY <1>a, <2>1, <2>2, <3>1
  <2>6. TypeOK'
    BY <1>a, <2>1, <2>3, <2>4, <2>5 DEF TypeOK
  <2>7. \A q \in Pumps : pump[q].at # "relay"
    BY <1>a, <1>b, <2>1 DEF LockIsHeld
  <2>8. TypingHasRecipient' /\ LockIsHeld'
    BY <1>a, <1>b, <2>1, <2>2, <2>3, <2>7 DEF TypingHasRecipient, LockIsHeld
  <2>9. TableAwaitsNotice'
    BY <2>3, <2>4, <2>7 DEF TableAwaitsNotice, Pair
  <2>10. ChangeAwaits' /\ NoticesInOrder'
    <3>a. ChangeAwaits'
      <4>1. changed[pump[p].to] = noticed[pump[p].to]
        BY <1>b, <2>2, <2>7 DEF NoticesInOrder
      <4> QED
        BY <2>1, <2>3, <2>5, <2>7, <4>1 DEF ChangeAwaits
    <3> SUFFICES ASSUME NEW to \in Users, changed'[to] # noticed[to]
                 PROVE  /\ pump'[p].at = "relay" /\ pump'[p].to = to
                        /\ changed'[to] = Append(noticed[to], UserOf[p])
      BY <2>1, <3>a DEF NoticesInOrder
    <3>1. noticed[to] = changed[to]
      BY <1>b, <2>7 DEF NoticesInOrder
    <3>2. to = pump[p].to
      BY <2>5, <3>1
    <3> QED
      BY <2>3, <2>5, <3>1, <3>2
  <2>11. SyncTriesAll'
    BY <1>b, <2>1, <2>3 DEF SyncTriesAll
  <2> QED
    BY <2>6, <2>8, <2>9, <2>10, <2>11 DEF NoticesInv
<1>5. ASSUME NEW p \in Pumps, RelayTyping(p) PROVE NoticesInv'
  <2>1. /\ pump[p].at = "relay" /\ mu' = None
        /\ noticed' = [noticed EXCEPT ![pump[p].to] = Append(@, UserOf[p])]
        /\ pump' = [pump EXCEPT ![p] = Idle]
        /\ UNCHANGED <<typers, changed, asked, tried, requests>>
    BY <1>5 DEF RelayTyping, syncVars
  <2>2. pump[p].to \in Users /\ UserOf[p] \in Users
    BY <1>a, <1>b, <2>1 DEF TypingHasRecipient
  <2>3. /\ pump' \in [Pumps -> Request]
        /\ \A q \in Pumps : pump'[q] = IF q = p THEN Idle ELSE pump[q]
    BY <1>a, <1>c, <2>1
  <2>4. /\ noticed' \in [Users -> Seq(Users)]
        /\ noticed'[pump[p].to] = Append(noticed[pump[p].to], UserOf[p])
        /\ \A to \in Users : to # pump[p].to => noticed'[to] = noticed[to]
    <3>1. Append(noticed[pump[p].to], UserOf[p]) \in Seq(Users)
      BY <1>a, <2>2
    <3> QED
      BY <1>a, <2>1, <2>2, <3>1
  <2>5. TypeOK'
    BY <1>a, <2>1, <2>3, <2>4 DEF TypeOK
  <2>6. \A q \in Pumps : q # p => pump[q].at # "relay"
    BY <1>b, <2>1 DEF LockIsHeld
  <2>7. TypingHasRecipient' /\ LockIsHeld' /\ TableAwaitsNotice'
    BY <1>a, <1>b, <1>c, <2>1, <2>3, <2>6
    DEF TypingHasRecipient, LockIsHeld, TableAwaitsNotice
  <2>c. ChangeAwaits'
    BY <1>c, <2>3, <2>6 DEF ChangeAwaits
  <2>8. NoticesInOrder'
    <3> SUFFICES ASSUME NEW to \in Users PROVE noticed'[to] = changed[to]
      BY <2>1 DEF NoticesInOrder
    <3>1. CASE to # pump[p].to
      BY <1>b, <2>4, <2>6, <3>1 DEF NoticesInOrder
    <3>2. CASE to = pump[p].to
      <4>1. changed[to] = Append(noticed[to], UserOf[p])
        BY <1>b, <2>1, <3>2 DEF ChangeAwaits
      <4> QED
        BY <2>4, <3>2, <4>1
    <3> QED
      BY <3>1, <3>2
  <2>9. SyncTriesAll'
    BY <1>b, <1>c, <2>1, <2>3 DEF SyncTriesAll
  <2> QED
    BY <2>5, <2>7, <2>c, <2>8, <2>9 DEF NoticesInv
<1>6. CASE Cleanup \/ \E pair \in Users \X Users : Expire(pair)
  <2>1. /\ UNCHANGED <<mu, pump, changed, noticed, asked, tried, requests>>
        /\ typers' \in [Users \X Users -> {"none", "fresh", "expired"}]
    BY <1>a, <1>6 DEF Cleanup, Expire, orderVars, syncVars
  <2>2. \A p \in Pumps : pump[p].at = "relay" => (typers'[Pair(p)] # "none" <=> typers[Pair(p)] # "none")
    <3> SUFFICES ASSUME NEW p \in Pumps, pump[p].at = "relay"
                 PROVE  typers'[Pair(p)] # "none" <=> typers[Pair(p)] # "none"
      OBVIOUS
    <3>1. mu = p /\ mu # None /\ Pair(p) \in Users \X Users
      BY <1>a, <1>b DEF LockIsHeld, TypingHasRecipient, Pair
    <3>2. PICK pair \in Users \X Users : Expire(pair)
      BY <1>6, <3>1 DEF Cleanup
    <3> QED
      BY <1>a, <3>1, <3>2 DEF Expire
  <2>3. TypeOK'
    BY <1>a, <2>1 DEF TypeOK
  <2>4. TypingHasRecipient' /\ LockIsHeld' /\ ChangeAwaits' /\ NoticesInOrder' /\ SyncTriesAll'
    BY <1>b, <2>1 DEF TypingHasRecipient, LockIsHeld, ChangeAwaits, NoticesInOrder, SyncTriesAll
  <2>5. TableAwaitsNotice'
    BY <1>b, <2>1, <2>2 DEF TableAwaitsNotice, Pair
  <2> QED
    BY <2>3, <2>4, <2>5 DEF NoticesInv
<1>7. ASSUME NEW p \in Pumps, SyncToTarget(p) PROVE NoticesInv'
  <2>1. PICK u \in pump[p].targets :
          /\ pump[p].at = "sync"
          /\ tried' = IF u = UserOf[p] THEN tried ELSE [tried EXCEPT ![p] = @ \cup {u}]
          /\ pump' = [pump EXCEPT ![p].targets = @ \ {u}]
          /\ UNCHANGED <<typers, mu, changed, noticed, asked, requests>>
    BY <1>7 DEF SyncToTarget, orderVars
  <2>2. pump[p].targets \subseteq Users
    BY <1>a DEF Request
  <2>3. /\ pump' \in [Pumps -> Request]
        /\ \A q \in Pumps \ {p} : pump'[q] = pump[q]
        /\ pump'[p].at = "sync" /\ pump'[p].targets = pump[p].targets \ {u}
    BY <1>a, <2>1 DEF Request
  <2>4. tried' \in [Pumps -> SUBSET Users]
    BY <1>a, <2>1, <2>2
  <2>5. TypeOK'
    BY <1>a, <2>1, <2>3, <2>4 DEF TypeOK
  <2>6. TypingHasRecipient' /\ LockIsHeld' /\ TableAwaitsNotice'
    BY <1>b, <2>1, <2>3 DEF TypingHasRecipient, LockIsHeld, TableAwaitsNotice
  <2>7. ChangeAwaits' /\ NoticesInOrder'
    BY <1>b, <2>1, <2>3 DEF ChangeAwaits, NoticesInOrder
  <2>8. SyncTriesAll'
    <3> SUFFICES ASSUME NEW q \in Pumps
                 PROVE  (asked[q] \ {UserOf[q]})
                          \ (IF pump'[q].at = "sync" THEN pump'[q].targets ELSE {})
                             \subseteq tried'[q]
      BY <2>1 DEF SyncTriesAll
    <3>1. (asked[q] \ {UserOf[q]}) \ (IF pump[q].at = "sync" THEN pump[q].targets ELSE {})
             \subseteq tried[q]
      BY <1>b DEF SyncTriesAll
    <3>2. CASE q # p
      <4>1. tried'[q] = tried[q] /\ pump'[q] = pump[q]
        BY <1>a, <2>1, <2>3, <3>2
      <4> QED
        BY <3>1, <4>1
    <3>3. CASE q = p
      <4>1. tried'[p] = IF u = UserOf[p] THEN tried[p] ELSE tried[p] \cup {u}
        BY <1>a, <2>1
      <4> QED
        BY <2>1, <2>3, <3>1, <3>3, <4>1
    <3> QED
      BY <3>2, <3>3
  <2> QED
    BY <2>5, <2>6, <2>7, <2>8 DEF NoticesInv
<1>8. ASSUME NEW p \in Pumps, SyncEnds(p) \/ HandleReceipt(p) PROVE NoticesInv'
  <2>1. /\ pump[p].at \in {"sync", "receipt"}
        /\ pump[p].at = "sync" => pump[p].targets = {}
        /\ pump' = [pump EXCEPT ![p] = Idle]
        /\ UNCHANGED <<typers, mu, changed, noticed, asked, tried, requests>>
    BY <1>8 DEF SyncEnds, HandleReceipt, orderVars, syncVars
  <2>2. /\ pump' \in [Pumps -> Request]
        /\ \A q \in Pumps : pump'[q] = IF q = p THEN Idle ELSE pump[q]
    BY <1>a, <1>c, <2>1
  <2>3. TypeOK'
    BY <1>a, <2>1, <2>2 DEF TypeOK
  <2>4. TypingHasRecipient' /\ LockIsHeld' /\ TableAwaitsNotice'
    BY <1>b, <1>c, <2>1, <2>2 DEF TypingHasRecipient, LockIsHeld, TableAwaitsNotice
  <2>5. ChangeAwaits' /\ NoticesInOrder'
    BY <1>b, <1>c, <2>1, <2>2 DEF ChangeAwaits, NoticesInOrder
  <2>6. SyncTriesAll'
    BY <1>b, <1>c, <2>1, <2>2 DEF SyncTriesAll
  <2> QED
    BY <2>3, <2>4, <2>5, <2>6 DEF NoticesInv
<1> QED
  BY <1>0, <1>1, <1>2, <1>3, <1>4, <1>5, <1>6, <1>7, <1>8 DEF Next, OwnSteps, PumpSteps

LEMMA NoticesInvariant == ASSUME Parameters PROVE Spec => []NoticesInv
<1>1. Init => NoticesInv
  BY NoticesInit
<1>2. NoticesInv /\ [Next]_vars => NoticesInv'
  BY NoticesStep
<1> QED
  BY <1>1, <1>2, PTL DEF Spec

\* The table of typers, the lock, the pumps and what is remembered of their
\* requests have their types.
THEOREM NoticesTypeCorrect == ASSUME Parameters PROVE Spec => []TypeOK
<1>1. NoticesInv => TypeOK
  BY DEF NoticesInv
<1> QED
  BY <1>1, NoticesInvariant, PTL

\* TypingService holds its lock over the Dispatch, so notices go out in the
\* order in which the table changed, each change once, and until then nobody
\* touches the entry; HandleSync leaves no target out.
THEOREM NoticesAreRight == ASSUME Parameters PROVE Spec => []NoticesAreSent
<1>1. NoticesInv => NoticesAreSent
  BY DEF NoticesInv, NoticesAreSent
<1> QED
  BY <1>1, NoticesInvariant, PTL
-----------------------------------------------------------------------------
(* Reception *)

\* A frame carries the id of its row, or none.
Carried == {f \in Rec!FrameType : f.id \in {None, f.row}}

\* Requests for rows whose content the client has handled.
Handled(h) == [form : Forms, id : h \cup {None}]

FramesCarryRows ==
  /\ down \in [Clients -> Seq(Carried)]
  /\ jobs \in [Clients -> Seq(Carried)]

\* The job manager stands at its first job, whose content it has handled if
\* it is to acknowledge it.
WorkerHasJob ==
  \A c \in Clients :
    /\ worker[c] # "idle" => jobs[c] # <<>>
    /\ worker[c] = "handled" => Head(jobs[c]).row \in handled[c]

\* What is acknowledged was handled, on the way and in the read pump.
AcksAreOfHandled ==
  \A c \in Clients :
    up[c] \in Seq(Handled(handled[c])) /\ serving[c].id \in handled[c] \cup {None}

ReceptionInv ==
  /\ Rec!TypeOK
  /\ FramesCarryRows /\ WorkerHasJob /\ AcksAreOfHandled
  /\ Rec!DeletedOnceHandled

LEMMA SequenceSteps ==
  ASSUME NEW S, NEW q \in Seq(S)
  PROVE  /\ q # <<>> => Head(q) \in S /\ Tail(q) \in Seq(S)
         /\ \A x \in S :
              /\ Append(q, x) \in Seq(S) /\ Append(q, x) # <<>>
              /\ q # <<>> => Head(Append(q, x)) = Head(q)
         /\ \A T : S \subseteq T => q \in Seq(T)
  OBVIOUS

\* The rows of a finite set, as a sequence.
LEMMA RowsInOrder ==
  ASSUME NEW S, IsFiniteSet(S)
  PROVE  Rec!SetToSeq(S) \in Seq(S)
<1>1. PICK f \in [1 .. Cardinality(S) -> S] : Rec!IsInjective(f)
  <2>1. PICK f \in Bijection(1 .. Cardinality(S), S) : TRUE
    BY FS_CardinalityType DEF ExistsBijection
  <2>2. /\ f \in [1 .. Cardinality(S) -> S]
        /\ \A a, b \in 1 .. Cardinality(S) : f[a] = f[b] => a = b
    BY <2>1 DEF Bijection, Injection, IsInjective
  <2> QED
    BY <2>2 DEF Rec!IsInjective
<1>2. Rec!Cardinality(S) = Cardinality(S)
  BY DEF Rec!Cardinality, Cardinality
<1>3. Rec!SetToSeq(S) \in [1 .. Cardinality(S) -> S]
  BY <1>1, <1>2 DEF Rec!SetToSeq
<1>4. Cardinality(S) \in Nat
  BY FS_CardinalityType
<1> QED
  BY <1>3, <1>4

LEMMA ReplayCarriesRows == ASSUME Rec!Parameters PROVE Rec!Replayed \in Seq(Carried)
<1> DEFINE frames(S) ==
      [i \in 1 .. Len(Rec!SetToSeq(S)) |->
         Rec!Frame(Rec!SetToSeq(S)[i], Rec!SetToSeq(S)[i])]
<1>1. ASSUME NEW S \in SUBSET Rows PROVE frames(S) \in Seq(Carried)
  <2>1. Rec!IsFiniteSet(Rows) = IsFiniteSet(Rows)
    BY DEF Rec!IsFiniteSet, IsFiniteSet
  <2>2. IsFiniteSet(S)
    BY <2>1, FS_Subset DEF Rec!Parameters
  <2> DEFINE q == Rec!SetToSeq(S)
  <2>3. q \in Seq(S)
    BY <2>2, RowsInOrder
  <2> HIDE DEF q
  <2>4. \A i \in 1 .. Len(q) : q[i] \in Rows /\ Rec!Frame(q[i], q[i]) \in Carried
    BY <2>3 DEF Carried, Rec!Frame, Rec!FrameType
  <2>5. [i \in 1 .. Len(q) |-> Rec!Frame(q[i], q[i])] \in Seq(Carried)
    BY <2>3, <2>4
  <2> QED
    BY <2>5 DEF q
<1> DEFINE waiting == {r \in Rows : table[r] = "waiting"}
<1>2. frames(waiting \ Older) \in Seq(Carried) /\ frames(waiting \cap Older) \in Seq(Carried)
  BY <1>1
<1>3. Rec!Replayed = frames(waiting \ Older) \o frames(waiting \cap Older)
  BY DEF Rec!Replayed
<1> HIDE DEF frames
<1> QED
  BY <1>2, <1>3

LEMMA ReceptionInit == Rec!Parameters /\ Rec!Init => ReceptionInv
<1> SUFFICES ASSUME Rec!Parameters, Rec!Init PROVE ReceptionInv
  OBVIOUS
<1> USE DEF Rec!Init, Rec!Idle
<1>1. Rec!TypeOK
  <2>1. /\ down \in [Clients -> Seq(Rec!FrameType)] /\ jobs \in [Clients -> Seq(Rec!FrameType)]
        /\ up \in [Clients -> Seq([form : Forms, id : Rows \cup {None}])]
    OBVIOUS
  <2>2. /\ serving \in [Clients -> [at : {"read", "envelopes", "pending_envelopes"},
                                    id : Rows \cup {None}]]
        /\ told \in [Rows -> Nat] /\ table \in [Rows -> {"none", "waiting", "gone"}]
    OBVIOUS
  <2>3. /\ link \in [Clients -> BOOLEAN] /\ worker \in [Clients -> {"idle", "handled", "done"}]
        /\ handled \in [Clients -> SUBSET Rows]
    OBVIOUS
  <2>4. lost = 0 /\ errors = 0 /\ MaxLost \in Nat /\ MaxErrors \in Nat
    BY DEF Rec!Parameters
  <2>5. lost \in 0 .. MaxLost /\ errors \in 0 .. MaxErrors
    BY ONLY <2>4
  <2>6. refused \in BOOLEAN
    OBVIOUS
  <2> QED
    BY <2>1, <2>2, <2>3, <2>5, <2>6 DEF Rec!TypeOK
<1>2. FramesCarryRows /\ WorkerHasJob /\ AcksAreOfHandled
  BY DEF FramesCarryRows, WorkerHasJob, AcksAreOfHandled, Handled
<1>3. Rec!DeletedOnceHandled
  BY DEF Rec!DeletedOnceHandled, Rec!GoneWasHandled, Rec!ToldMatchesTable
<1> QED
  BY <1>1, <1>2, <1>3 DEF ReceptionInv

LEMMA ReceptionStep ==
  Rec!Parameters /\ ReceptionInv /\ [Rec!Next]_(Rec!vars) => ReceptionInv'
<1> SUFFICES ASSUME Rec!Parameters, ReceptionInv, [Rec!Next]_(Rec!vars)
             PROVE  ReceptionInv'
  OBVIOUS
<1>p. None \notin Rows /\ MaxLost \in Nat /\ MaxErrors \in Nat
  BY DEF Rec!Parameters
<1>a. /\ table \in [Rows -> {"none", "waiting", "gone"}]
      /\ link \in [Clients -> BOOLEAN]
      /\ worker \in [Clients -> {"idle", "handled", "done"}]
      /\ handled \in [Clients -> SUBSET Rows]
      /\ up \in [Clients -> Seq([form : Forms, id : Rows \cup {None}])]
      /\ serving \in [Clients -> [at : {"read", "envelopes", "pending_envelopes"},
                                  id : Rows \cup {None}]]
      /\ told \in [Rows -> Nat] /\ refused \in BOOLEAN
      /\ lost \in 0 .. MaxLost /\ errors \in 0 .. MaxErrors
  BY DEF ReceptionInv, Rec!TypeOK
<1>b. /\ down \in [Clients -> Seq(Carried)] /\ jobs \in [Clients -> Seq(Carried)]
      /\ \A c \in Clients :
           /\ worker[c] # "idle" => jobs[c] # <<>>
           /\ worker[c] = "handled" => Head(jobs[c]).row \in handled[c]
           /\ up[c] \in Seq(Handled(handled[c]))
           /\ serving[c].id \in handled[c] \cup {None}
  BY DEF ReceptionInv, FramesCarryRows, WorkerHasJob, AcksAreOfHandled
<1>c. /\ \A r \in Rows : table[r] = "gone" => \E c \in Clients : r \in handled[c]
      /\ \A r \in Rows : told[r] = IF table[r] = "gone" THEN 1 ELSE 0
  BY DEF ReceptionInv, Rec!DeletedOnceHandled, Rec!GoneWasHandled, Rec!ToldMatchesTable
<1>d. ASSUME down' \in [Clients -> Seq(Carried)], jobs' \in [Clients -> Seq(Carried)]
      PROVE  /\ down' \in [Clients -> Seq(Rec!FrameType)]
             /\ jobs' \in [Clients -> Seq(Rec!FrameType)]
  <2>1. Seq(Carried) \subseteq Seq(Rec!FrameType)
    BY SequenceSteps DEF Carried
  <2> QED
    BY <1>d, <2>1
<1>e. ASSUME UNCHANGED <<table, told>>, \A c \in Clients : handled[c] \subseteq handled'[c]
      PROVE  Rec!DeletedOnceHandled'
  BY <1>c, <1>e DEF Rec!DeletedOnceHandled, Rec!GoneWasHandled, Rec!ToldMatchesTable
<1>0. CASE UNCHANGED Rec!vars
  BY <1>0 DEF ReceptionInv, Rec!vars, Rec!serverVars, Rec!clientVars, Rec!TypeOK,
     FramesCarryRows, WorkerHasJob, AcksAreOfHandled, Rec!DeletedOnceHandled,
     Rec!GoneWasHandled, Rec!ToldMatchesTable
<1>1. ASSUME NEW r \in Rows, Rec!Post(r) PROVE ReceptionInv'
  <2>1. /\ table[r] = "none" /\ table' = [table EXCEPT ![r] = "waiting"]
        /\ \/ down' = [c \in Clients |-> IF link[c] THEN Append(down[c], Rec!Frame(r, None))
                                         ELSE down[c]]
           \/ down' = down
        /\ UNCHANGED <<serving, told, refused, link, jobs, worker, handled, up, lost, errors>>
    BY <1>1 DEF Rec!Post
  <2>2. down' \in [Clients -> Seq(Carried)]
    <3>1. Rec!Frame(r, None) \in Carried
      BY DEF Carried, Rec!Frame, Rec!FrameType
    <3>2. \A c \in Clients : Append(down[c], Rec!Frame(r, None)) \in Seq(Carried)
      BY <1>b, <3>1, SequenceSteps
    <3> QED
      BY <1>b, <2>1, <3>2
  <2>3. Rec!TypeOK'
    BY <1>a, <1>b, <1>d, <2>1, <2>2 DEF Rec!TypeOK
  <2>4. FramesCarryRows' /\ WorkerHasJob' /\ AcksAreOfHandled'
    BY <1>b, <2>1, <2>2 DEF FramesCarryRows, WorkerHasJob, AcksAreOfHandled, Handled
  <2>5. Rec!DeletedOnceHandled'
    BY <1>a, <1>c, <2>1 DEF Rec!DeletedOnceHandled, Rec!GoneWasHandled, Rec!ToldMatchesTable
  <2> QED
    BY <2>3, <2>4, <2>5 DEF ReceptionInv
<1>2. ASSUME NEW c \in Clients, Rec!Connect(c) \/ Rec!Drop(c) \/ Rec!Restart(c) PROVE ReceptionInv'
  <2>1. /\ UNCHANGED <<table, serving, told, refused, jobs, handled, errors>>
        /\ link' \in [Clients -> BOOLEAN] /\ lost' \in 0 .. MaxLost
        /\ worker' = worker \/ worker' = [worker EXCEPT ![c] = "idle"]
        /\ down' = [down EXCEPT ![c] = Rec!Replayed] \/ down' = [down EXCEPT ![c] = <<>>]
        /\ up' = up \/ up' = [up EXCEPT ![c] = <<>>]
    <3>1. CASE Rec!Connect(c)
      BY <1>a, <3>1 DEF Rec!Connect, Rec!serverVars
    <3>2. CASE Rec!Drop(c)
      BY <1>a, <1>p, <3>2 DEF Rec!Drop, Rec!Cut, Rec!serverVars
    <3>3. CASE Rec!Restart(c)
      BY <1>a, <1>p, <3>3 DEF Rec!Restart, Rec!Cut, Rec!serverVars
    <3> QED
      BY <1>2, <3>1, <3>2, <3>3
  <2>2. down' \in [Clients -> Seq(Carried)]
    <3>1. Rec!Replayed \in Seq(Carried) /\ <<>> \in Seq(Carried)
      BY ReplayCarriesRows
    <3> QED
      BY <1>b, <2>1, <3>1
  <2>3. Rec!TypeOK'
    <3>1. /\ worker' \in [Clients -> {"idle", "handled", "done"}]
          /\ up' \in [Clients -> Seq([form : Forms, id : Rows \cup {None}])]
      <4>1. <<>> \in Seq([form : Forms, id : Rows \cup {None}])
        OBVIOUS
      <4> QED
        <5>1. worker' \in [Clients -> {"idle", "handled", "done"}]
          BY <1>a, <2>1
        <5>2. CASE up' = up
          BY <1>a, <5>1, <5>2
        <5>3. CASE up' = [up EXCEPT ![c] = <<>>]
          BY <1>a, <4>1, <5>1, <5>3
        <5> QED
          BY <2>1, <5>2, <5>3
    <3> QED
      BY <1>a, <1>b, <1>d, <2>1, <2>2, <3>1 DEF Rec!TypeOK
  <2>4. FramesCarryRows' /\ WorkerHasJob'
    BY <1>a, <1>b, <2>1, <2>2 DEF FramesCarryRows, WorkerHasJob
  <2>5. AcksAreOfHandled'
    <3> SUFFICES ASSUME NEW d \in Clients
                 PROVE  up'[d] \in Seq(Handled(handled[d])) /\ serving[d].id \in handled[d] \cup {None}
      BY <2>1 DEF AcksAreOfHandled
    <3>1. up'[d] = up[d] \/ up'[d] = <<>>
      BY <1>a, <2>1
    <3> QED
      <4>1. <<>> \in Seq(Handled(handled[d]))
        OBVIOUS
      <4> QED
        BY <1>b, <2>1, <3>1, <4>1
  <2> QED
    BY <1>e, <2>1, <2>3, <2>4, <2>5 DEF ReceptionInv
<1>3. ASSUME NEW c \in Clients, Rec!AddJob(c) PROVE ReceptionInv'
  <2>1. /\ down[c] # <<>> /\ jobs' = [jobs EXCEPT ![c] = Append(jobs[c], Head(down[c]))]
        /\ down' = [down EXCEPT ![c] = Tail(down[c])]
        /\ UNCHANGED <<table, serving, told, refused, link, worker, handled, up, lost, errors>>
    BY <1>3 DEF Rec!AddJob, Rec!serverVars
  <2>2. /\ Head(down[c]) \in Carried /\ Tail(down[c]) \in Seq(Carried)
        /\ Append(jobs[c], Head(down[c])) \in Seq(Carried)
        /\ Append(jobs[c], Head(down[c])) # <<>>
        /\ jobs[c] # <<>> => Head(Append(jobs[c], Head(down[c]))) = Head(jobs[c])
    <3>1. down[c] \in Seq(Carried) /\ jobs[c] \in Seq(Carried)
      BY <1>b
    <3>2. Head(down[c]) \in Carried /\ Tail(down[c]) \in Seq(Carried)
      BY <2>1, <3>1, SequenceSteps
    <3> QED
      BY <3>1, <3>2, SequenceSteps
  <2>3. FramesCarryRows'
    BY <1>b, <2>1, <2>2 DEF FramesCarryRows
  <2>4. Rec!TypeOK'
    BY <1>a, <1>d, <2>1, <2>3 DEF Rec!TypeOK, FramesCarryRows
  <2>5. WorkerHasJob'
    BY <1>b, <2>1, <2>2 DEF WorkerHasJob
  <2>6. AcksAreOfHandled'
    BY <1>b, <2>1 DEF AcksAreOfHandled
  <2> QED
    BY <1>e, <2>1, <2>3, <2>4, <2>5, <2>6 DEF ReceptionInv
<1>4. ASSUME NEW c \in Clients, Rec!HandleContent(c) PROVE ReceptionInv'
  <2>1. /\ jobs[c] # <<>>
        /\ handled' = [handled EXCEPT ![c] = handled[c] \cup {Head(jobs[c]).row}]
        /\ worker' = [worker EXCEPT ![c] = "handled"]
        /\ UNCHANGED <<table, serving, told, refused, link, down, jobs, up, lost, errors>>
    BY <1>4 DEF Rec!HandleContent, Rec!serverVars
  <2>2. Head(jobs[c]) \in Carried /\ Head(jobs[c]).row \in Rows
    <3>1. jobs[c] \in Seq(Carried)
      BY <1>b
    <3>2. Head(jobs[c]) \in Carried
      BY <2>1, <3>1, SequenceSteps
    <3> QED
      BY <3>2 DEF Carried, Rec!FrameType
  <2>3. /\ handled' \in [Clients -> SUBSET Rows]
        /\ \A d \in Clients : handled[d] \subseteq handled'[d]
    BY <1>a, <2>1, <2>2
  <2>4. FramesCarryRows'
    BY <1>b, <2>1 DEF FramesCarryRows
  <2>5. Rec!TypeOK'
    <3>1. worker' \in [Clients -> {"idle", "handled", "done"}]
      BY <1>a, <2>1
    <3> QED
      BY <1>a, <1>d, <2>1, <2>3, <2>4, <3>1 DEF Rec!TypeOK, FramesCarryRows
  <2>6. WorkerHasJob'
    BY <1>a, <1>b, <2>1, <2>2 DEF WorkerHasJob
  <2>7. AcksAreOfHandled'
    <3> SUFFICES ASSUME NEW d \in Clients
                 PROVE  up[d] \in Seq(Handled(handled'[d])) /\ serving[d].id \in handled'[d] \cup {None}
      BY <2>1 DEF AcksAreOfHandled
    <3>1. Handled(handled[d]) \subseteq Handled(handled'[d])
      BY <2>3 DEF Handled
    <3> QED
      BY <1>b, <2>3, <3>1, SequenceSteps
  <2> QED
    BY <1>e, <2>1, <2>3, <2>4, <2>5, <2>6, <2>7 DEF ReceptionInv
<1>5. ASSUME NEW c \in Clients, Rec!HandlingFails(c) \/ Rec!DeleteJob(c) PROVE ReceptionInv'
  <2>1. /\ jobs[c] # <<>>
        /\ \/ worker' = [worker EXCEPT ![c] = "done"] /\ jobs' = jobs
           \/ /\ worker' = [worker EXCEPT ![c] = "idle"]
              /\ jobs' = [jobs EXCEPT ![c] = Tail(jobs[c])]
        /\ errors' \in 0 .. MaxErrors
        /\ UNCHANGED <<table, serving, told, refused, link, down, handled, up, lost>>
    BY <1>5, <1>a, <1>b, <1>p DEF Rec!HandlingFails, Rec!DeleteJob, Rec!serverVars
  <2>2. FramesCarryRows'
    <3>1. Tail(jobs[c]) \in Seq(Carried)
      BY <1>b, <2>1, SequenceSteps
    <3> QED
      BY <1>b, <2>1, <3>1 DEF FramesCarryRows
  <2>3. Rec!TypeOK'
    <3>1. worker' \in [Clients -> {"idle", "handled", "done"}]
      BY <1>a, <2>1
    <3> QED
      BY <1>a, <1>d, <2>1, <2>2, <3>1 DEF Rec!TypeOK, FramesCarryRows
  <2>4. WorkerHasJob'
    BY <1>a, <1>b, <2>1 DEF WorkerHasJob
  <2>5. AcksAreOfHandled'
    BY <1>b, <2>1 DEF AcksAreOfHandled
  <2> QED
    BY <1>e, <2>1, <2>2, <2>3, <2>4, <2>5 DEF ReceptionInv
<1>6. ASSUME NEW c \in Clients, NEW form \in Forms, Rec!AcknowledgeReceipt(c, form)
      PROVE  ReceptionInv'
  <2> DEFINE ack == [form |-> form, id |-> Head(jobs[c]).id]
  <2>1. /\ worker[c] = "handled" /\ worker' = [worker EXCEPT ![c] = "done"]
        /\ up' = up \/ up' = [up EXCEPT ![c] = Append(up[c], ack)]
        /\ UNCHANGED <<table, serving, told, refused, link, down, jobs, handled, lost, errors>>
    BY <1>6 DEF Rec!AcknowledgeReceipt, Rec!serverVars
  <2>2. /\ ack \in Handled(handled[c])
        /\ ack \in [form : Forms, id : Rows \cup {None}]
    <3>1. jobs[c] # <<>> /\ Head(jobs[c]).row \in handled[c]
      BY <1>b, <2>1
    <3>2. Head(jobs[c]) \in Carried
      BY <1>b, <3>1, SequenceSteps
    <3> QED
      BY <1>a, <3>1, <3>2 DEF Carried, Rec!FrameType, Handled
  <2> HIDE DEF ack
  <2>3. FramesCarryRows'
    BY <1>b, <2>1 DEF FramesCarryRows
  <2>4. Rec!TypeOK'
    <3>1. worker' \in [Clients -> {"idle", "handled", "done"}]
      BY <1>a, <2>1
    <3>2. up' \in [Clients -> Seq([form : Forms, id : Rows \cup {None}])]
      <4>1. Append(up[c], ack) \in Seq([form : Forms, id : Rows \cup {None}])
        BY <1>a, <2>2, SequenceSteps
      <4> QED
        BY <1>a, <2>1, <4>1
    <3> QED
      BY <1>a, <1>d, <2>1, <2>3, <3>1, <3>2 DEF Rec!TypeOK, FramesCarryRows
  <2>5. WorkerHasJob'
    BY <1>a, <1>b, <2>1 DEF WorkerHasJob
  <2>6. AcksAreOfHandled'
    <3>1. Append(up[c], ack) \in Seq(Handled(handled[c]))
      BY <1>b, <2>2, SequenceSteps
    <3> QED
      BY <1>a, <1>b, <2>1, <3>1 DEF AcksAreOfHandled
  <2> QED
    BY <1>e, <2>1, <2>3, <2>4, <2>5, <2>6 DEF ReceptionInv
<1>7. ASSUME NEW c \in Clients, Rec!DeleteMessage(c) PROVE ReceptionInv'
  <2>1. /\ up[c] # <<>> /\ up' = [up EXCEPT ![c] = Tail(up[c])]
        /\ refused' \in BOOLEAN
        /\ \/ serving' = serving
           \/ serving' = [serving EXCEPT ![c] = [at |-> "envelopes", id |-> Head(up[c]).id]]
        /\ UNCHANGED <<table, told, link, down, jobs, worker, handled, lost, errors>>
    BY <1>7, <1>a DEF Rec!DeleteMessage
  <2>2. /\ Head(up[c]) \in Handled(handled[c]) /\ Tail(up[c]) \in Seq(Handled(handled[c]))
        /\ Tail(up[c]) \in Seq([form : Forms, id : Rows \cup {None}])
    <3>1. up[c] \in Seq(Handled(handled[c])) /\ up[c] \in Seq([form : Forms, id : Rows \cup {None}])
      BY <1>a, <1>b
    <3> QED
      BY <2>1, <3>1, SequenceSteps
  <2>3. Head(up[c]).id \in handled[c] \cup {None} /\ Head(up[c]).id \in Rows \cup {None}
    BY <1>a, <2>2 DEF Handled
  <2>4. FramesCarryRows' /\ WorkerHasJob'
    BY <1>b, <2>1 DEF FramesCarryRows, WorkerHasJob
  <2>5. Rec!TypeOK'
    <3>1. /\ up' \in [Clients -> Seq([form : Forms, id : Rows \cup {None}])]
          /\ serving' \in [Clients -> [at : {"read", "envelopes", "pending_envelopes"},
                                       id : Rows \cup {None}]]
      <4>1. up' \in [Clients -> Seq([form : Forms, id : Rows \cup {None}])]
        BY <1>a, <2>1, <2>2
      <4>2. [at |-> "envelopes", id |-> Head(up[c]).id] \in
              [at : {"read", "envelopes", "pending_envelopes"}, id : Rows \cup {None}]
        BY <2>3
      <4> QED
        <5>1. CASE serving' = serving
          BY <1>a, <4>1, <5>1
        <5>2. CASE serving' = [serving EXCEPT ![c] = [at |-> "envelopes", id |-> Head(up[c]).id]]
          BY <1>a, <4>1, <4>2, <5>2
        <5> QED
          BY <2>1, <5>1, <5>2
    <3> QED
      BY <1>a, <1>d, <2>1, <2>4, <3>1 DEF Rec!TypeOK, FramesCarryRows
  <2>6. AcksAreOfHandled'
    BY <1>a, <1>b, <2>1, <2>2, <2>3 DEF AcksAreOfHandled
  <2> QED
    BY <1>e, <2>1, <2>4, <2>5, <2>6 DEF ReceptionInv
<1>i. Rec!Idle = [at |-> "read", id |-> None]
  BY DEF Rec!Idle
<1>8. ASSUME NEW c \in Clients, Rec!DeleteRow(c) PROVE ReceptionInv'
  <2> DEFINE named == Rec!Named(c)
  <2>1. /\ table' = [r \in Rows |-> IF r \in named THEN "gone" ELSE table[r]]
        /\ told' = [r \in Rows |-> IF r \in named THEN told[r] + 1 ELSE told[r]]
        /\ serving' = [serving EXCEPT ![c] = Rec!Idle]
        /\ UNCHANGED <<refused, link, down, jobs, worker, handled, up, lost, errors>>
    BY <1>8 DEF Rec!DeleteRow, Rec!clientVars
  <2>2. \A r \in named : r \in Rows /\ table[r] = "waiting" /\ r \in handled[c]
    BY <1>b, <1>p DEF Rec!Named
  <2> HIDE DEF named
  <2>3. FramesCarryRows' /\ WorkerHasJob'
    BY <1>b, <2>1 DEF FramesCarryRows, WorkerHasJob
  <2>4. /\ serving' \in [Clients -> [at : {"read", "envelopes", "pending_envelopes"},
                                     id : Rows \cup {None}]]
        /\ AcksAreOfHandled'
    BY <1>a, <1>b, <1>i, <2>1 DEF AcksAreOfHandled
  <2>5. Rec!TypeOK'
    <3>1. /\ table' \in [Rows -> {"none", "waiting", "gone"}]
          /\ told' \in [Rows -> Nat]
      BY <1>a, <2>1
    <3> QED
      BY <1>a, <1>d, <2>1, <2>3, <2>4, <3>1 DEF Rec!TypeOK, FramesCarryRows
  <2>6. Rec!DeletedOnceHandled'
    BY <1>a, <1>c, <2>1, <2>2 DEF Rec!DeletedOnceHandled, Rec!GoneWasHandled, Rec!ToldMatchesTable
  <2> QED
    BY <2>3, <2>4, <2>5, <2>6 DEF ReceptionInv
<1>9. ASSUME NEW c \in Clients, Rec!DeleteNothing(c) PROVE ReceptionInv'
  <2>1. /\ \/ serving' = [serving EXCEPT ![c] = [serving[c] EXCEPT !.at = "pending_envelopes"]]
           \/ serving' = [serving EXCEPT ![c] = Rec!Idle]
        /\ errors' \in 0 .. MaxErrors
        /\ UNCHANGED <<table, told, refused, link, down, jobs, worker, handled, up, lost>>
    <3>1. errors' \in 0 .. MaxErrors
      BY <1>9, <1>a, <1>p DEF Rec!DeleteNothing
    <3>2. \/ serving' = [serving EXCEPT ![c] = [serving[c] EXCEPT !.at = "pending_envelopes"]]
          \/ serving' = [serving EXCEPT ![c] = Rec!Idle]
      BY <1>9 DEF Rec!DeleteNothing
    <3> QED
      BY <1>9, <3>1, <3>2 DEF Rec!DeleteNothing, Rec!clientVars
  <2>2. FramesCarryRows' /\ WorkerHasJob'
    BY <1>b, <2>1 DEF FramesCarryRows, WorkerHasJob
  <2>3. /\ serving' \in [Clients -> [at : {"read", "envelopes", "pending_envelopes"},
                                     id : Rows \cup {None}]]
        /\ AcksAreOfHandled'
    <3> DEFINE next == [serving[c] EXCEPT !.at = "pending_envelopes"]
    <3>1. /\ next \in [at : {"read", "envelopes", "pending_envelopes"}, id : Rows \cup {None}]
          /\ next.id = serving[c].id
      <4>1. serving[c] \in [at : {"read", "envelopes", "pending_envelopes"}, id : Rows \cup {None}]
        BY <1>a
      <4> QED
        BY <4>1
    <3>2. PICK s \in {next, Rec!Idle} : serving' = [serving EXCEPT ![c] = s]
      BY <2>1
    <3> HIDE DEF next
    <3>3. /\ s \in [at : {"read", "envelopes", "pending_envelopes"}, id : Rows \cup {None}]
          /\ s.id \in handled[c] \cup {None}
      BY <1>b, <1>i, <3>1, <3>2
    <3> QED
      BY <1>a, <1>b, <2>1, <3>2, <3>3 DEF AcksAreOfHandled
  <2>4. Rec!TypeOK'
    BY <1>a, <1>d, <2>1, <2>2, <2>3 DEF Rec!TypeOK, FramesCarryRows
  <2> QED
    BY <1>e, <2>1, <2>2, <2>3, <2>4 DEF ReceptionInv
<1> QED
  BY <1>0, <1>1, <1>2, <1>3, <1>4, <1>5, <1>6, <1>7, <1>8, <1>9
  DEF Rec!Next, Rec!ClientSteps, Rec!ServerSteps

LEMMA ReceptionInvariant == ASSUME Rec!Parameters PROVE Rec!Spec => []ReceptionInv
<1>1. Rec!Init => ReceptionInv
  BY ReceptionInit
<1>2. ReceptionInv /\ [Rec!Next]_(Rec!vars) => ReceptionInv'
  BY ReceptionStep
<1> QED
  BY <1>1, <1>2, PTL DEF Rec!Spec

\* Rows, frames, jobs, acknowledgements and requests have their types.
THEOREM ReceptionTypeCorrect == ASSUME Rec!Parameters PROVE Rec!Spec => []Rec!TypeOK
<1>1. ReceptionInv => Rec!TypeOK
  BY DEF ReceptionInv
<1> QED
  BY <1>1, ReceptionInvariant, PTL

\* The client acknowledges a frame after its data handler took the content,
\* and the route deletes by the id of the acknowledgement: no row is deleted
\* unhandled, and one of the requests for it is told so, for any number of
\* devices, rows, lost connections and failed statements.
THEOREM RowsGoOnceHandled == ASSUME Rec!Parameters PROVE Rec!Spec => []Rec!DeletedOnceHandled
<1>1. ReceptionInv => Rec!DeletedOnceHandled
  BY DEF ReceptionInv
<1> QED
  BY <1>1, ReceptionInvariant, PTL

-----------------------------------------------------------------------------
(* Reception keeps the promise of Mailbox *)

\* The rows that are kept while the server runs: those of envelopes.
NewRows == Rows \ Older

RowBox == [r \in NewRows |-> IF table[r] = "none" THEN "absent"
                             ELSE IF table[r] = "waiting" THEN "waiting" ELSE "removed"]

\* Rows whose content some device has handled.
HandledRows == {r \in NewRows : \E c \in Clients : r \in handled[c]}

\* Mailbox without the fairness of delivery: a row is posted once, and removed
\* only after a device of the recipient handled it.
Kept == INSTANCE Mailbox WITH Rows <- NewRows, box <- RowBox, got <- HandledRows

LEMMA ReceptionMailboxInit == Rec!Init => Kept!MailboxInit
<1> SUFFICES ASSUME Rec!Init PROVE Kept!MailboxInit
  OBVIOUS
<1>1. RowBox = [r \in NewRows |-> "absent"]
  BY DEF Rec!Init, RowBox, NewRows
<1>2. HandledRows = {}
  BY DEF Rec!Init, HandledRows, NewRows
<1> QED
  BY <1>1, <1>2 DEF Kept!MailboxInit

LEMMA ReceptionMailboxStep ==
  Rec!Parameters /\ ReceptionInv /\ [Rec!Next]_(Rec!vars) => [Kept!MailboxNext]_<<RowBox, HandledRows>>
<1> SUFFICES ASSUME Rec!Parameters, ReceptionInv, [Rec!Next]_(Rec!vars)
             PROVE  [Kept!MailboxNext]_<<RowBox, HandledRows>>
  OBVIOUS
<1>t. /\ table \in [Rows -> {"none", "waiting", "gone"}]
      /\ handled \in [Clients -> SUBSET Rows]
      /\ NewRows \subseteq Rows
  BY DEF ReceptionInv, Rec!TypeOK, NewRows
<1>a. CASE UNCHANGED <<table, handled>>
  BY <1>a DEF RowBox, HandledRows
<1>1. ASSUME NEW r \in Rows, Rec!Post(r) PROVE [Kept!MailboxNext]_<<RowBox, HandledRows>>
  <2>1. table[r] = "none" /\ table' = [table EXCEPT ![r] = "waiting"] /\ handled' = handled
    BY <1>1 DEF Rec!Post
  <2>2. CASE r \in NewRows
    <3>1. RowBox[r] = "absent" /\ RowBox' = [RowBox EXCEPT ![r] = "waiting"] /\ HandledRows' = HandledRows
      BY <1>t, <2>1, <2>2 DEF RowBox, HandledRows
    <3>2. Kept!Post(r)
      BY <3>1 DEF Kept!Post
    <3> QED
      BY <2>2, <3>2 DEF Kept!MailboxNext
  <2>3. CASE r \notin NewRows
    <3>1. RowBox' = RowBox /\ HandledRows' = HandledRows
      BY <1>t, <2>1, <2>3 DEF RowBox, HandledRows
    <3> QED
      BY <3>1
  <2> QED
    BY <2>2, <2>3
<1>2. ASSUME NEW c \in Clients, Rec!HandleContent(c) PROVE [Kept!MailboxNext]_<<RowBox, HandledRows>>
  <2> DEFINE r == Head(jobs[c]).row
  <2>1. handled' = [handled EXCEPT ![c] = handled[c] \cup {r}] /\ table' = table
    BY <1>2 DEF Rec!HandleContent, Rec!serverVars
  <2> HIDE DEF r
  <2>2. RowBox' = RowBox
    BY <2>1 DEF RowBox
  <2>3. \A q \in NewRows : q \in HandledRows' <=> q \in HandledRows \/ q = r
    BY <1>t, <2>1 DEF HandledRows
  <2>4. CASE r \in NewRows
    <3>1. HandledRows' = HandledRows \cup {r}
      BY <2>3, <2>4 DEF HandledRows
    <3>2. Kept!Deliver(r)
      BY <2>2, <3>1 DEF Kept!Deliver
    <3> QED
      BY <2>4, <3>2 DEF Kept!MailboxNext
  <2>5. CASE r \notin NewRows
    <3>1. HandledRows' = HandledRows
      BY <2>3, <2>5 DEF HandledRows
    <3> QED
      BY <2>2, <3>1
  <2> QED
    BY <2>4, <2>5
<1>3. ASSUME NEW c \in Clients, Rec!DeleteRow(c) PROVE [Kept!MailboxNext]_<<RowBox, HandledRows>>
  <2> DEFINE r == serving[c].id
  <2>1. /\ Rec!Named(c) = {r} /\ r \in Rows /\ table[r] = "waiting"
        /\ table' = [q \in Rows |-> IF q = r THEN "gone" ELSE table[q]]
        /\ handled' = handled
    <3>1. Rec!Named(c) # {} /\ Rec!Named(c) \subseteq {r}
      BY <1>3 DEF Rec!DeleteRow, Rec!Named
    <3>2. Rec!Named(c) = {r}
      BY <3>1
    <3>3. r \in Rows /\ table[r] = "waiting"
      BY <3>2 DEF Rec!Named
    <3> QED
      BY <1>3, <3>2, <3>3 DEF Rec!DeleteRow, Rec!clientVars
  <2>2. r \in handled[c]
    <3>1. r \in handled[c] \cup {None}
      BY DEF ReceptionInv, AcksAreOfHandled
    <3>2. None \notin Rows
      BY DEF Rec!Parameters
    <3> QED
      BY <2>1, <3>1, <3>2
  <2> HIDE DEF r
  <2>3. CASE r \in NewRows
    <3>1. RowBox[r] = "waiting" /\ RowBox' = [RowBox EXCEPT ![r] = "removed"]
      BY <1>t, <2>1, <2>3 DEF RowBox
    <3>2. r \in HandledRows /\ HandledRows' = HandledRows
      BY <2>1, <2>2, <2>3 DEF HandledRows
    <3>3. Kept!Remove(r)
      BY <3>1, <3>2 DEF Kept!Remove
    <3> QED
      BY <2>3, <3>3 DEF Kept!MailboxNext
  <2>4. CASE r \notin NewRows
    <3>1. RowBox' = RowBox /\ HandledRows' = HandledRows
      BY <1>t, <2>1, <2>4 DEF RowBox, HandledRows
    <3> QED
      BY <3>1
  <2> QED
    BY <2>3, <2>4
<1> QED
  BY <1>a, <1>1, <1>2, <1>3
  DEF Rec!Next, Rec!ClientSteps, Rec!ServerSteps, Rec!vars, Rec!serverVars, Rec!clientVars,
      Rec!Connect, Rec!Drop, Rec!Restart, Rec!AddJob, Rec!HandlingFails,
      Rec!AcknowledgeReceipt, Rec!DeleteJob, Rec!DeleteMessage, Rec!DeleteNothing

\* The route and the client together keep the promise that Relay keeps with
\* every request taken at its word: a row of envelopes is posted once, goes
\* only after a device handled its content, and does not come back.
THEOREM ReceptionImplementsMailbox ==
  ASSUME Rec!Parameters PROVE Rec!Spec => Kept!MailboxSafety
<1>1. Rec!Init => Kept!MailboxInit
  BY ReceptionMailboxInit
<1>2. ReceptionInv /\ [Rec!Next]_(Rec!vars) => [Kept!MailboxNext]_<<RowBox, HandledRows>>
  BY ReceptionMailboxStep
<1> QED
  BY <1>1, <1>2, ReceptionInvariant, PTL
  DEF Rec!Spec, Kept!MailboxSafety, Kept!mailboxVars
=============================================================================
