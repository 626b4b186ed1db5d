------------------------------- MODULE Notices -------------------------------
(***************************************************************************)
(* Typing notices, synchronisation and receipts of one server: the routes  *)
(* v2/typing, v2/sync and v2/receipt of transport/ws/router/router.go and  *)
(* the services of transport/ws/service/advanced_message_service.go.       *)
(*                                                                         *)
(* A read pump serves one request at a time.  TypingService holds its lock *)
(* from the change of its table to the end of the Dispatch; a ticker       *)
(* removes who has typed too long.  The envelope of a notice and that of a *)
(* receipt are empty but for their sender and time: neither says what was  *)
(* asked for.  Dispatch is Relay's matter: here it succeeds or fails.      *)
(***************************************************************************)
EXTENDS Naturals, Sequences

CONSTANTS
  Pumps,     \* read pumps of connections
  UserOf,    \* the user of each
  Users,
  None,
  MaxRequests  \* bound: requests that are made

\* What the constants must satisfy.
Parameters ==
  UserOf \in [Pumps -> Users] /\ None \notin Pumps /\ MaxRequests \in Nat

VARIABLES
  typers,   \* activeTypers: by recipient and sender, none, fresh or expired
  mu,       \* the pump that holds TypingService.mu
  pump,     \* the request a pump serves: its step, recipient, state, targets
  changed,  \* history: by recipient, whose entries in the table were changed
  noticed,  \* history: by recipient, of whom notices were dispatched
  asked,    \* history: the targets of a pump's last SyncMessage
  tried,    \* history: those to whom it was dispatched
  requests

orderVars == <<changed, noticed>>
syncVars == <<asked, tried>>
vars == <<typers, mu, pump, orderVars, syncVars, requests>>

Idle == [at |-> "read", to |-> None, state |-> "stopped", targets |-> {}]

Init ==
  /\ typers = [pair \in Users \X Users |-> "none"]
  /\ mu = None
  /\ pump = [p \in Pumps |-> Idle]
  /\ changed = [to \in Users |-> <<>>] /\ noticed = [to \in Users |-> <<>>]
  /\ asked = [p \in Pumps |-> {}] /\ tried = [p \in Pumps |-> {}]
  /\ requests = 0

\* A pump takes a request of its connection.
Take(p, request) ==
  /\ pump[p].at = "read" /\ requests < MaxRequests
  /\ pump' = [pump EXCEPT ![p] = request]
  /\ requests' = requests + 1

-----------------------------------------------------------------------------
(* Typing *)

PutTyping(p, to, state) ==
  /\ Take(p, [Idle EXCEPT !.at = "lock", !.to = to, !.state = state])
  /\ UNCHANGED <<typers, mu, orderVars, syncVars>>

\* The table by recipient and sender after the request of p.
Noted(p) ==
  [typers EXCEPT ![<<pump[p].to, UserOf[p]>>] = IF pump[p].state = "started" THEN "fresh" ELSE "none"]

\* Faulty variant: the lock is given back before the Dispatch.
HandleTypingUnlocked(p) ==
  /\ pump[p].at = "lock" /\ mu = None
  /\ typers' = Noted(p)
  /\ changed' = [changed EXCEPT ![pump[p].to] = Append(@, UserOf[p])]
  /\ pump' = [pump EXCEPT ![p].at = "relay"]
  /\ UNCHANGED <<mu, noticed, syncVars, requests>>

\* HandleTyping up to its Dispatch.
HandleTyping(p) ==
  /\ pump[p].at = "lock" /\ mu = None
  /\ mu' = p
  /\ typers' = Noted(p)
  /\ changed' = [changed EXCEPT ![pump[p].to] = Append(@, UserOf[p])]
  /\ pump' = [pump EXCEPT ![p].at = "relay"]
  /\ UNCHANGED <<noticed, syncVars, requests>>

\* The Dispatch of an envelope without payload, whose error is ignored, and
\* the end of the lock.
RelayTyping(p) ==
  /\ pump[p].at = "relay"
  /\ noticed' = [noticed EXCEPT ![pump[p].to] = Append(@, UserOf[p])]
  /\ mu' = None
  /\ pump' = [pump EXCEPT ![p] = Idle]
  /\ UNCHANGED <<typers, changed, syncVars, requests>>

\* Five seconds pass.
Expire(pair) ==
  /\ typers[pair] = "fresh"
  /\ typers' = [typers EXCEPT ![pair] = "expired"]
  /\ UNCHANGED <<mu, pump, orderVars, syncVars, requests>>

\* Faulty variant: compares the wrong way round.
CleanupOfFresh ==
  /\ mu = None
  /\ typers' = [pair \in Users \X Users |->
       IF typers[pair] = "fresh" THEN "none" ELSE typers[pair]]
  /\ UNCHANGED <<mu, pump, orderVars, syncVars, requests>>

\* cleanupExpiredTyping, when the ticker fires.
Cleanup ==
  /\ mu = None
  /\ typers' = [pair \in Users \X Users |->
       IF typers[pair] = "expired" THEN "none" ELSE typers[pair]]
  /\ UNCHANGED <<mu, pump, orderVars, syncVars, requests>>

-----------------------------------------------------------------------------
(* Synchronisation *)

PutSync(p, targets) ==
  /\ Take(p, [Idle EXCEPT !.at = "sync", !.targets = targets])
  /\ asked' = [asked EXCEPT ![p] = targets]
  /\ tried' = [tried EXCEPT ![p] = {}]
  /\ UNCHANGED <<typers, mu, orderVars>>

\* HandleSync goes on to a target: the sender is passed over, and an error of
\* the Dispatch ignored.
SyncToTarget(p) ==
  \E u \in pump[p].targets :
    /\ pump[p].at = "sync"
    /\ tried' = IF u = UserOf[p] THEN tried ELSE [tried EXCEPT ![p] = @ \cup {u}]
    /\ pump' = [pump EXCEPT ![p].targets = @ \ {u}]
    /\ UNCHANGED <<typers, mu, orderVars, asked, requests>>

SyncEnds(p) ==
  /\ pump[p].at = "sync" /\ pump[p].targets = {}
  /\ pump' = [pump EXCEPT ![p] = Idle]
  /\ UNCHANGED <<typers, mu, orderVars, syncVars, requests>>
-----------------------------------------------------------------------------
(* Receipts *)

PutReceipt(p) ==
  /\ Take(p, [Idle EXCEPT !.at = "receipt"])
  /\ UNCHANGED <<typers, mu, orderVars, syncVars>>

\* HandleReceipt: one Dispatch to the sender of the original message, or
\* none without one; the client is told of an error.
HandleReceipt(p) ==
  /\ pump[p].at = "receipt"
  /\ pump' = [pump EXCEPT ![p] = Idle]
  /\ UNCHANGED <<typers, mu, orderVars, syncVars, requests>>
-----------------------------------------------------------------------------
PumpSteps(p) ==
  HandleTyping(p) \/ RelayTyping(p) \/ SyncToTarget(p) \/ SyncEnds(p) \/ HandleReceipt(p)

\* What happens without a request of a client.
OwnSteps ==
  \/ \E p \in Pumps : PumpSteps(p)
  \/ \E pair \in Users \X Users : Expire(pair)
  \/ Cleanup

Next ==
  \/ \E p \in Pumps, to \in Users, state \in {"started", "stopped"} : PutTyping(p, to, state)
  \/ \E p \in Pumps, targets \in SUBSET Users : PutSync(p, targets)
  \/ \E p \in Pumps : PutReceipt(p)
  \/ OwnSteps

\* Goroutines run, time passes and the ticker fires.
Fairness == WF_vars(OwnSteps)

Spec == Init /\ [][Next]_vars /\ Fairness

-----------------------------------------------------------------------------
Request ==
  [at : {"read", "lock", "relay", "sync", "receipt"}, to : Users \cup {None},
   state : {"started", "stopped"}, targets : SUBSET Users]

\* The variables have their types.
TypeOK ==
  /\ typers \in [Users \X Users -> {"none", "fresh", "expired"}]
  /\ mu \in Pumps \cup {None}
  /\ pump \in [Pumps -> Request]
  /\ changed \in [Users -> Seq(Users)] /\ noticed \in [Users -> Seq(Users)]
  /\ asked \in [Pumps -> SUBSET Users] /\ tried \in [Pumps -> SUBSET Users]
  /\ requests \in 0..MaxRequests

\* The notices to a recipient go out in the order in which the table changed,
\* each change once: only the last may be waiting for the Dispatch of the
\* pump that made it, since the lock is held until that is over.
NoticesInOrder ==
  \A to \in Users :
    \/ noticed[to] = changed[to]
    \/ \E p \in Pumps :
         /\ pump[p].at = "relay" /\ pump[p].to = to
         /\ changed[to] = Append(noticed[to], UserOf[p])

\* While a notice waits for its Dispatch the table is as its request left it:
\* neither another connection of the user nor the clean-up changes the entry.
TableAwaitsNotice ==
  \A p \in Pumps :
    pump[p].at = "relay" =>
      (typers[<<pump[p].to, UserOf[p]>>] # "none" <=> pump[p].state = "started")

\* A SyncMessage is dispatched to each of its targets but the sender, also
\* when the Dispatch to another target has failed.
SyncTriesAll ==
  \A p \in Pumps :
    LET left == IF pump[p].at = "sync" THEN pump[p].targets ELSE {}
    IN (asked[p] \ {UserOf[p]}) \ left \subseteq tried[p]

\* Others are told of each request, in order, whatever goes on beside it.
NoticesAreSent == NoticesInOrder /\ TableAwaitsNotice /\ SyncTriesAll

\* Once no more requests come, everybody is forgotten as a typer.
TypersAreForgotten == <>[](\A to, from \in Users : typers[<<to, from>>] = "none")
=============================================================================
