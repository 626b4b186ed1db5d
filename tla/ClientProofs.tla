---------------------------- MODULE ClientProofs ----------------------------
(***************************************************************************)
(* Proofs about the client's socket and job queue: isConnected tells the   *)
(* truth, a socket that lost its connection tries again, no wakeup of the  *)
(* job loop is lost, no job is left marked as running, no message is handed *)
(* over more often than calls failed, and no row is deleted too early.  The *)
(* inductive invariant adds who may be logged in without a token (nobody), *)
(* that a job which is not due was tried before, that both parts have their *)
(* types, and what each further run of a job was paid with.                *)
(***************************************************************************)
EXTENDS ClientJobs, TLAPS

\* Who is noted as the user has a token, and nobody has one during a logout.
SessionHasToken ==
  /\ user # None => token # None
  /\ loggingOut # "no" => token = None

\* Without a network, as the socket knows it, only an attempt in flight keeps
\* the status of a user's socket from saying that it waits for one.
OfflineWaits ==
  /\ probe # "done" => ~online
  /\ (user # None /\ ~online /\ status \in {"disconnected", "connecting"}) => attempt # None

SocketInv ==
  /\ SocketTypeOK
  /\ SessionHasToken
  /\ OfflineWaits
  /\ StatusTellsChannel
  /\ RetryIsArmed

\* Only a failed attempt makes a job wait for its time.
WaitsAfterTry == \A j \in Jobs : ~Due(rows[j]) => rows[j].tries > 0

QueueInv == TypeOK /\ WaitsAfterTry /\ RunningIsHeld /\ NoLostWakeup

ClientInv == SocketInv /\ QueueInv

-----------------------------------------------------------------------------
\* The socket

LEMMA SocketInitInv == SocketInit => SocketInv
  BY DEF SocketInit, FreshSocket, SocketInv, SocketTypeOK, SessionHasToken, OfflineWaits,
         OfflineWaits, StatusTellsChannel, RetryIsArmed, Statuses

\* Every step of the socket keeps its invariant, and only the end of a
\* handshake makes it connected, with a wakeup for the listeners.
LEMMA SocketStep ==
  ASSUME SocketInv, SocketNext
  PROVE  /\ SocketInv'
         /\ status' = "connected" => wake' \/ (status = "connected" /\ wake' = wake)
<1> DEFINE Goal == /\ SocketInv'
                   /\ status' = "connected" => wake' \/ (status = "connected" /\ wake' = wake)
<1> SUFFICES Goal
  OBVIOUS
<1>1. CASE ProbeAnswers
  BY <1>1 DEF ProbeAnswers, SocketInv, SocketTypeOK,
     SessionHasToken, OfflineWaits, StatusTellsChannel, RetryIsArmed, Statuses
<1>2. CASE ProbeReturns
  BY <1>2 DEF ProbeReturns, SocketInv, SocketTypeOK,
     SessionHasToken, OfflineWaits, StatusTellsChannel, RetryIsArmed, Statuses
<1>3. CASE AttemptSucceeds
  BY <1>3 DEF AttemptSucceeds, SocketInv, SocketTypeOK,
     SessionHasToken, OfflineWaits, StatusTellsChannel, RetryIsArmed, Statuses
<1>4. CASE AttemptFails
  BY <1>4 DEF AttemptFails, HandleDisconnection, SocketInv, SocketTypeOK,
     SessionHasToken, OfflineWaits, StatusTellsChannel, RetryIsArmed, Statuses
<1>5. CASE HeartbeatExpires
  BY <1>5 DEF HeartbeatExpires, HandleDisconnection, SocketInv, SocketTypeOK,
     SessionHasToken, OfflineWaits, StatusTellsChannel, RetryIsArmed, Statuses
<1>6. CASE TimerFires
  <2>1. CASE status # "connected" /\ online /\ user # None /\ attempt = None
    <3>1. Establish(user, online)
      BY <1>6, <2>1 DEF TimerFires, SocketInv, SocketTypeOK,
         SessionHasToken, OfflineWaits, StatusTellsChannel, RetryIsArmed, Statuses
    <3>2. online \in BOOLEAN /\ (user # None => token # None)
      BY DEF SocketInv, SocketTypeOK, SessionHasToken
    <3>3. /\ status' \in Statuses /\ timer' \in BOOLEAN
          /\ attempt' \in Accounts \cup {None} /\ channel' \in Accounts \cup {None}
          /\ (status' = "connected") = (channel' # None)
          /\ attempt' # None => channel' = None
          /\ status' = "connected" => status = "connected"
          /\ attempt' # None
      BY <2>1, <3>1, <3>2
      DEF Establish, SocketInv, SocketTypeOK, StatusTellsChannel, Statuses
    <3> QED
      BY <1>6, <3>3 DEF TimerFires, SocketInv, SocketTypeOK,
         SessionHasToken, OfflineWaits, StatusTellsChannel, RetryIsArmed, Statuses
  <2>2. CASE ~(status # "connected" /\ online /\ user # None /\ attempt = None)
    <3>0. /\ timer' = FALSE /\ UNCHANGED <<status, attempt, channel>>
          /\ UNCHANGED <<net, probe, online, user, token, stored, peer, loggingOut, wake>>
      BY <1>6, <2>2 DEF TimerFires
    <3>1. SocketTypeOK'
      BY <3>0 DEF SocketInv, SocketTypeOK
    <3>2. SessionHasToken' /\ OfflineWaits'
      BY <3>0 DEF SocketInv, SessionHasToken, OfflineWaits
    <3>3. StatusTellsChannel' /\ RetryIsArmed'
      <4>1. /\ online \in BOOLEAN
            /\ (status \in {"disconnected", "connecting"} /\ user # None => attempt # None)
        BY <1>6, <2>2 DEF SocketInv, SocketTypeOK, StatusTellsChannel, RetryIsArmed, OfflineWaits
      <4> QED
        BY <3>0, <4>1 DEF SocketInv, StatusTellsChannel, RetryIsArmed
    <3> QED
      BY <1>6, <2>2, <3>1, <3>2, <3>3 DEF TimerFires, SocketInv
  <2> QED
    BY <2>1, <2>2
<1>7. CASE NetChangesUnheard
  BY <1>7 DEF NetChangesUnheard, SocketInv, SocketTypeOK,
     SessionHasToken, OfflineWaits, StatusTellsChannel, RetryIsArmed, Statuses
<1>8. CASE NetReturns
  <2>1. CASE ~online \/ status = "waitingNetwork"
    <3>1. Establish(user, TRUE)
      BY <1>8, <2>1 DEF NetReturns, SocketInv, SocketTypeOK,
         SessionHasToken, OfflineWaits, StatusTellsChannel, RetryIsArmed, Statuses
    <3>2. user # None => token # None
      BY DEF SocketInv, SessionHasToken
    <3>3. /\ status' \in Statuses /\ timer' \in BOOLEAN
          /\ attempt' \in Accounts \cup {None} /\ channel' \in Accounts \cup {None}
          /\ (status' = "connected") = (channel' # None)
          /\ attempt' # None => channel' = None
          /\ status' = "connected" => status = "connected"
          /\ (user # None /\ status # "connected") => attempt' # None
          /\ status' \in {status, "connecting"}
          /\ status' = "connecting" => attempt' # None \/ status = "connecting"
      BY <3>1, <3>2
      DEF Establish, SocketInv, SocketTypeOK, StatusTellsChannel, Statuses
    <3> QED
      BY <1>8, <3>3 DEF NetReturns, SocketInv, SocketTypeOK,
         SessionHasToken, OfflineWaits, StatusTellsChannel, RetryIsArmed, Statuses
  <2>2. CASE ~(~online \/ status = "waitingNetwork")
    BY <1>8, <2>2 DEF NetReturns, SocketInv, SocketTypeOK,
       SessionHasToken, OfflineWaits, StatusTellsChannel, RetryIsArmed, Statuses
  <2> QED
    BY <2>1, <2>2
<1>9. CASE NetGoes
  BY <1>9 DEF NetGoes, SocketInv, SocketTypeOK,
     SessionHasToken, OfflineWaits, StatusTellsChannel, RetryIsArmed, Statuses
<1>10. ASSUME NEW a \in Accounts, SaveSession(a) PROVE Goal
  BY <1>10 DEF SaveSession, SocketInv, SocketTypeOK,
     SessionHasToken, OfflineWaits, StatusTellsChannel, RetryIsArmed, Statuses
<1>11. CASE Connect
  <2>1. CASE status = "connected" \/ attempt # None
    <3>1. SocketTypeOK'
      BY <1>11, <2>1 DEF Connect, SocketInv, SocketTypeOK, Statuses
    <3>2. SessionHasToken' /\ OfflineWaits'
      BY <1>11, <2>1 DEF Connect, SocketInv, SocketTypeOK, SessionHasToken, OfflineWaits
    <3>3. StatusTellsChannel' /\ RetryIsArmed'
      BY <1>11, <2>1 DEF Connect, SocketInv, StatusTellsChannel, RetryIsArmed
    <3> QED
      BY <1>11, <2>1, <3>1, <3>2, <3>3 DEF Connect, SocketInv
  <2>2. CASE status # "connected" /\ attempt = None /\ ~online
    <3>1. SocketTypeOK'
      BY <1>11, <2>2 DEF Connect, SocketInv, SocketTypeOK, Statuses
    <3>2. SessionHasToken' /\ OfflineWaits'
      BY <1>11, <2>2 DEF Connect, SocketInv, SocketTypeOK, SessionHasToken, OfflineWaits
    <3>3. StatusTellsChannel' /\ RetryIsArmed'
      BY <1>11, <2>2 DEF Connect, SocketInv, StatusTellsChannel, RetryIsArmed
    <3> QED
      BY <1>11, <2>2, <3>1, <3>2, <3>3 DEF Connect, SocketInv
  <2>3. CASE status # "connected" /\ attempt = None /\ online
    <3>1. Establish(token, online)
      BY <1>11, <2>3 DEF Connect, SocketInv, SocketTypeOK,
         SessionHasToken, OfflineWaits, StatusTellsChannel, RetryIsArmed, Statuses
    <3>2. online \in BOOLEAN /\ (token # None => token # None) /\ token # None
      BY <1>11 DEF Connect, SocketInv, SocketTypeOK
    <3>3. /\ status' \in Statuses /\ timer' \in BOOLEAN
          /\ attempt' \in Accounts \cup {None} /\ channel' \in Accounts \cup {None}
          /\ (status' = "connected") = (channel' # None)
          /\ attempt' # None => channel' = None
          /\ status' = "connected" => status = "connected"
          /\ attempt' # None
      BY <2>3, <3>1, <3>2
      DEF Establish, SocketInv, SocketTypeOK, StatusTellsChannel, Statuses
    <3> QED
      <4>1. SocketTypeOK'
        BY <1>11, <3>3 DEF Connect, SocketInv, SocketTypeOK, Statuses
      <4>2. SessionHasToken' /\ OfflineWaits'
        BY <1>11, <3>3 DEF Connect, SocketInv, SocketTypeOK, SessionHasToken, OfflineWaits
      <4>3. StatusTellsChannel' /\ RetryIsArmed'
        BY <1>11, <3>3 DEF Connect, SocketInv, StatusTellsChannel, RetryIsArmed
      <4> QED
        BY <1>11, <3>3, <4>1, <4>2, <4>3 DEF Connect, SocketInv
  <2> QED
    BY <2>1, <2>2, <2>3
<1>12. CASE Logout
  BY <1>12 DEF Logout, SocketInv, SocketTypeOK,
     SessionHasToken, OfflineWaits, StatusTellsChannel, RetryIsArmed, Statuses
<1>13. CASE SessionStored \/ StorageCleared
  BY <1>13 DEF SessionStored, StorageCleared, SocketInv, SocketTypeOK,
     SessionHasToken, OfflineWaits, StatusTellsChannel, RetryIsArmed, Statuses
<1>14. CASE PeerVanishes
  BY <1>14 DEF PeerVanishes, SocketInv, SocketTypeOK,
     SessionHasToken, OfflineWaits, StatusTellsChannel, RetryIsArmed, Statuses
<1>15. CASE ChannelCloses
  BY <1>15 DEF ChannelCloses, HandleDisconnection, SocketInv, SocketTypeOK,
     SessionHasToken, OfflineWaits, StatusTellsChannel, RetryIsArmed, Statuses
<1> QED
  BY <1>1, <1>2, <1>3, <1>4, <1>5, <1>6, <1>7, <1>8, <1>9, <1>10, <1>11, <1>12,
     <1>13, <1>14, <1>15 DEF SocketNext, SocketSteps

-----------------------------------------------------------------------------
\* The job queue

LoopTypeOK ==
  /\ loop \in [pc : LoopPcs, job : Jobs \cup {None}, todo : SUBSET Jobs, did : BOOLEAN]
  /\ loop.pc \notin {"off", "read"} => loop.job \in Jobs \ loop.todo

LEMMA QueueInitInv == Init => QueueInv
<1> SUFFICES ASSUME Init PROVE QueueInv
  OBVIOUS
<1>1. SocketTypeOK
  BY SocketInitInv DEF Init, SocketInv
<1>2. TypeOK
  BY <1>1 DEF Init, TypeOK, Off, LoopPcs
<1>3. WaitsAfterTry /\ RunningIsHeld
  BY DEF Init, WaitsAfterTry, Due, RunningIsHeld
<1>4. NoLostWakeup
  BY DEF Init, NoLostWakeup, Fresh
<1> QED
  BY <1>2, <1>3, <1>4 DEF QueueInv

\* A loop that goes on stands before a job it has not yet touched, reads
\* again, or ends; it ends on a connected socket only with a list of which
\* nothing was processed and nothing was due.
LEMMA AdvanceStep ==
  ASSUME NEW STATE todo, todo \subseteq Jobs, NEW STATE did, did \in BOOLEAN,
         Advance(todo, did)
  PROVE  /\ LoopTypeOK'
         /\ loop'.pc \in {"off", "read", "mark", "orphan"}
         /\ (status = "connected" /\ loop'.pc = "off")
               => ~did /\ \A j \in todo : ~Due(rows'[j])
<1> DEFINE due == {j \in todo : Due(rows'[j])}
<1>1. CASE status # "connected" \/ due = {}
  <2>1. loop' = Off \/ (loop' = Reading /\ did)
    BY <1>1 DEF Advance
  <2>2. (status = "connected" /\ loop' = Off) => ~did
    BY <1>1 DEF Advance, Off, Reading
  <2>3. status = "connected" => \A j \in todo : ~Due(rows'[j])
    BY <1>1
  <2>4. LoopTypeOK' /\ loop'.pc \in {"off", "read"} /\ (loop'.pc = "off" => loop' = Off)
    <3>1. CASE loop' = Off
      BY <3>1 DEF LoopTypeOK, LoopPcs, Off
    <3>2. CASE loop' = Reading
      BY <3>2 DEF LoopTypeOK, LoopPcs, Reading
    <3> QED
      BY <2>1, <3>1, <3>2
  <2> QED
    BY <2>2, <2>3, <2>4
<1>2. CASE status = "connected" /\ due # {}
  <2>1. PICK j \in due :
          loop' = [pc |-> IF j \in Orphans THEN "orphan" ELSE "mark",
                   job |-> j, todo |-> todo \ {j}, did |-> TRUE]
    BY <1>2 DEF Advance
  <2> QED
    BY <2>1 DEF LoopTypeOK, LoopPcs
<1> QED
  BY <1>1, <1>2

LEMMA ProcessStep ==
  ASSUME LoopTypeOK, Process
  PROVE  /\ LoopTypeOK'
         /\ loop' = loop \/ (loop.pc = "off" /\ loop'.pc = "read")
         /\ status = "connected" => loop'.pc # "off"
<1>1. CASE loop.pc = "off" /\ status = "connected"
  BY <1>1 DEF Process, Reading, LoopTypeOK, LoopPcs
<1>2. CASE ~(loop.pc = "off" /\ status = "connected")
  BY <1>2 DEF Process, LoopTypeOK
<1> QED
  BY <1>1, <1>2

\* What a step of the queue keeps of the types and of the marks, for each of
\* the actions that move the loop or touch the table.
LEMMA QueueStep ==
  ASSUME QueueInv,
         \/ StatusWakes
         \/ \E j \in Jobs : SaveMessage(j) \/ InsertJob(j) \/ AddWakes(j) \/ Elapse(j)
         \/ LoopSteps \/ RunThrows \/ LoopThrows
  PROVE  /\ LoopTypeOK'
         /\ rows' \in [Jobs -> Row \cup {None}]
         /\ WaitsAfterTry'
         /\ RunningIsHeld'
         /\ NoLostWakeup'
<1> DEFINE Goal == /\ LoopTypeOK'
                   /\ rows' \in [Jobs -> Row \cup {None}]
                   /\ WaitsAfterTry'
                   /\ RunningIsHeld'
                   /\ NoLostWakeup'
<1> SUFFICES Goal
  OBVIOUS
<1>a. /\ LoopTypeOK /\ rows \in [Jobs -> Row \cup {None}]
      /\ WaitsAfterTry /\ RunningIsHeld /\ NoLostWakeup
      /\ adder \in [Jobs -> {"idle", "saved", "inserted", "done"}]
      /\ loop.pc \in LoopPcs /\ loop.todo \subseteq Jobs
  BY DEF QueueInv, TypeOK, LoopTypeOK
<1>b. \A row \in Row : row.running \in BOOLEAN /\ row.due \in BOOLEAN /\ row.tries \in Nat
  BY DEF Row
<1>1. CASE StatusWakes
  <2>1. /\ LoopTypeOK' /\ rows' = rows /\ broken' = broken /\ status' = status
        /\ loop' = loop \/ (loop.pc = "off" /\ loop'.pc = "read")
        /\ status = "connected" => loop'.pc # "off"
    BY <1>a, <1>1, ProcessStep DEF StatusWakes
  <2>2. RunningIsHeld'
    BY <1>a, <2>1 DEF RunningIsHeld
  <2> QED
    BY <1>a, <2>1, <2>2 DEF WaitsAfterTry, NoLostWakeup
<1>2. ASSUME NEW k \in Jobs, SaveMessage(k) PROVE Goal
  <2>1. /\ loop' = loop /\ rows' = rows /\ broken' = broken /\ status' = status /\ wake' = wake
        /\ \A j \in Jobs : adder[j] = "inserted" => adder'[j] = "inserted"
    BY <1>a, <1>2 DEF SaveMessage, sockVars
  <2> QED
    BY <1>a, <2>1 DEF LoopTypeOK, WaitsAfterTry, RunningIsHeld, NoLostWakeup, Fresh
<1>3. ASSUME NEW k \in Jobs, InsertJob(k) PROVE Goal
  <2>1. /\ loop' = loop /\ broken' = broken /\ status' = status
        /\ rows' = [rows EXCEPT ![k] = NewRow] /\ adder'[k] = "inserted"
    BY <1>a, <1>3 DEF InsertJob, sockVars
  <2>2. rows' \in [Jobs -> Row \cup {None}]
    BY <1>a, <2>1 DEF NewRow, Row
  <2>3. \A j \in Jobs : rows'[j] = (IF j = k THEN NewRow ELSE rows[j])
    BY <1>a, <2>1
  <2>4. WaitsAfterTry'
    BY <1>a, <2>3 DEF WaitsAfterTry, Due, NewRow
  <2>5. RunningIsHeld'
    BY <1>a, <2>1, <2>3 DEF RunningIsHeld, NewRow
  <2>6. NoLostWakeup'
    BY <2>1 DEF NoLostWakeup
  <2> QED
    BY <1>a, <2>1, <2>2, <2>4, <2>5, <2>6 DEF LoopTypeOK
<1>4. ASSUME NEW k \in Jobs, AddWakes(k) PROVE Goal
  <2>1. /\ LoopTypeOK' /\ rows' = rows /\ broken' = broken /\ status' = status
        /\ loop' = loop \/ (loop.pc = "off" /\ loop'.pc = "read")
        /\ status = "connected" => loop'.pc # "off"
    BY <1>a, <1>4, ProcessStep DEF AddWakes, sockVars
  <2>2. RunningIsHeld'
    BY <1>a, <2>1 DEF RunningIsHeld
  <2> QED
    BY <1>a, <2>1, <2>2 DEF WaitsAfterTry, NoLostWakeup
<1>5. ASSUME NEW k \in Jobs, Elapse(k) PROVE Goal
  <2>1. /\ loop' = loop /\ broken' = broken /\ status' = status /\ wake' = wake /\ adder' = adder
        /\ rows[k] # None /\ ~Due(rows[k])
        /\ rows' = [rows EXCEPT ![k].due = TRUE]
    BY <1>5 DEF Elapse, sockVars
  <2>2. rows[k] \in Row /\ rows[k].tries > 0
    BY <1>a, <2>1 DEF WaitsAfterTry
  <2>3. /\ rows' \in [Jobs -> Row \cup {None}]
        /\ \A j \in Jobs : j # k => rows'[j] = rows[j]
        /\ rows'[k] \in Row /\ rows'[k].running = rows[k].running
        /\ rows'[k].due = TRUE /\ rows'[k].tries = rows[k].tries
    BY <1>a, <2>1, <2>2 DEF Row
  <2>4. WaitsAfterTry'
    BY <1>a, <2>2, <2>3 DEF WaitsAfterTry, Due
  <2>5. RunningIsHeld'
    BY <1>a, <2>1, <2>3 DEF RunningIsHeld
  <2>6. \A j \in Jobs : Fresh(j)' => Fresh(j)
    <3>1. ~Fresh(k)'
      BY <1>b, <2>2, <2>3 DEF Fresh
    <3> QED
      BY <2>3, <3>1 DEF Fresh
  <2>7. NoLostWakeup'
    BY <1>a, <2>1, <2>6 DEF NoLostWakeup
  <2> QED
    BY <1>a, <2>1, <2>3, <2>4, <2>5, <2>7 DEF LoopTypeOK
<1>6. CASE Read
  <2>1. /\ rows' = rows /\ broken' = broken /\ status' = status /\ wake' = wake /\ adder' = adder
        /\ loop.pc = "read" /\ Advance(Pending, FALSE)
    BY <1>6 DEF Read, sockVars
  <2>2. Pending \subseteq Jobs
    BY DEF Pending
  <2>3. /\ LoopTypeOK' /\ loop'.pc \in {"off", "read", "mark", "orphan"}
        /\ (status = "connected" /\ loop'.pc = "off") => \A j \in Pending : ~Due(rows'[j])
    BY <2>1, <2>2, AdvanceStep
  <2>4. RunningIsHeld'
    BY <1>a, <2>1 DEF RunningIsHeld
  <2>5. (status = "connected" /\ loop'.pc = "off") => \A j \in Jobs : ~Fresh(j)
    BY <2>1, <2>3 DEF Fresh, Pending, Due
  <2>6. NoLostWakeup'
    BY <2>1, <2>5 DEF NoLostWakeup, Fresh
  <2> QED
    BY <1>a, <2>1, <2>3, <2>4, <2>6 DEF WaitsAfterTry
<1>7. CASE Mark
  <2>1. /\ broken' = broken /\ loop.pc = "mark" /\ loop' = [loop EXCEPT !.pc = "run"]
        /\ rows' = [j \in Jobs |-> IF j = loop.job /\ rows[j] # None
                               THEN [rows[j] EXCEPT !.running = TRUE] ELSE rows[j]]
    BY <1>7 DEF Mark
  <2>2. LoopTypeOK' /\ loop'.pc = "run" /\ loop'.job = loop.job
    BY <1>a, <2>1 DEF LoopTypeOK, LoopPcs
  <2>3. rows' \in [Jobs -> Row \cup {None}]
    BY <1>a, <2>1 DEF Row
  <2>4. \A j \in Jobs : /\ rows'[j] = None <=> rows[j] = None
                        /\ Due(rows'[j]) = Due(rows[j])
                        /\ rows[j] # None => rows'[j].tries = rows[j].tries
                        /\ j # loop.job => rows'[j] = rows[j]
    <3> SUFFICES ASSUME NEW j \in Jobs
                 PROVE  /\ rows'[j] = None <=> rows[j] = None
                        /\ Due(rows'[j]) = Due(rows[j])
                        /\ rows[j] # None => rows'[j].tries = rows[j].tries
                        /\ j # loop.job => rows'[j] = rows[j]
      OBVIOUS
    <3>1. CASE j # loop.job \/ rows[j] = None
      <4>1. rows'[j] = rows[j]
        BY <2>1, <3>1
      <4> QED
        BY <3>1, <4>1
    <3>2. CASE j = loop.job /\ rows[j] # None
      <4>1. rows[j] \in Row /\ rows'[j] = [rows[j] EXCEPT !.running = TRUE]
        BY <1>a, <2>1, <3>2
      <4>2. /\ rows'[j] \in Row /\ rows'[j].due = rows[j].due
            /\ rows'[j].tries = rows[j].tries
        BY <4>1 DEF Row
      <4> QED
        BY <3>2, <4>2, JobsAssumption DEF Due
    <3> QED
      BY <3>1, <3>2
  <2>5. WaitsAfterTry'
    BY <1>a, <2>4 DEF WaitsAfterTry, Due
  <2>6. RunningIsHeld'
    BY <1>a, <2>1, <2>2, <2>4 DEF RunningIsHeld
  <2>7. NoLostWakeup'
    BY <2>2 DEF NoLostWakeup
  <2> QED
    BY <2>2, <2>3, <2>5, <2>6, <2>7
<1>8. CASE Run \/ StoreStatus \/ RunThrows
  <2>1. /\ rows' = rows /\ broken' = broken /\ loop.pc \in {"run", "store", "delete"}
        /\ \E pc \in {"store", "delete", "fail"} : loop' = [loop EXCEPT !.pc = pc]
    BY <1>8 DEF Run, StoreStatus, RunThrows
  <2>2. LoopTypeOK' /\ loop'.pc \in {"store", "delete", "fail"} /\ loop'.job = loop.job
    BY <1>a, <2>1 DEF LoopTypeOK, LoopPcs
  <2>3. RunningIsHeld'
    BY <1>a, <2>1, <2>2 DEF RunningIsHeld
  <2> QED
    BY <1>a, <2>1, <2>2, <2>3 DEF WaitsAfterTry, NoLostWakeup
<1>9. CASE DeleteJob
  <2>1. /\ broken' = broken /\ status' = status
        /\ loop.pc \in {"delete", "orphan"} /\ loop.job \in Jobs
        /\ rows' = [rows EXCEPT ![loop.job] = None] /\ Advance(loop.todo, TRUE)
    BY <1>a, <1>9 DEF DeleteJob, sockVars, LoopTypeOK
  <2>2. LoopTypeOK' /\ ~(status = "connected" /\ loop'.pc = "off")
    BY <1>a, <2>1, AdvanceStep
  <2>3. \A j \in Jobs : rows'[j] = (IF j = loop.job THEN None ELSE rows[j])
    BY <1>a, <2>1
  <2>4. rows' \in [Jobs -> Row \cup {None}]
    BY <1>a, <2>1
  <2>5. WaitsAfterTry'
    BY <1>a, <2>3 DEF WaitsAfterTry, Due
  <2>6. RunningIsHeld'
    BY <1>a, <2>1, <2>3 DEF RunningIsHeld
  <2> QED
    BY <2>1, <2>2, <2>4, <2>5, <2>6 DEF NoLostWakeup
<1>10. CASE HandleFailure
  <2>1. /\ broken' = broken /\ status' = status
        /\ loop.pc = "fail" /\ loop.job \in Jobs
        /\ rows' = [j \in Jobs |->
             IF j # loop.job \/ rows[j] = None THEN rows[j]
             ELSE IF rows[j].tries + 1 < MaxAttempts
               THEN [running |-> FALSE, due |-> FALSE, tries |-> rows[j].tries + 1]
               ELSE None]
        /\ Advance(loop.todo, TRUE)
    BY <1>a, <1>10 DEF HandleFailure, sockVars, LoopTypeOK
  <2>2. LoopTypeOK' /\ ~(status = "connected" /\ loop'.pc = "off")
    BY <1>a, <2>1, AdvanceStep
  <2>3. \A j \in Jobs :
          \/ rows'[j] = rows[j] /\ (j # loop.job \/ rows[j] = None)
          \/ rows'[j] = None
          \/ /\ rows[j] \in Row
             /\ rows'[j] = [running |-> FALSE, due |-> FALSE, tries |-> rows[j].tries + 1]
    BY <1>a, <2>1
  <2>4. rows' \in [Jobs -> Row \cup {None}]
    BY <1>a, <2>1 DEF Row
  <2>5. WaitsAfterTry'
    <3> SUFFICES ASSUME NEW j \in Jobs, ~Due(rows'[j]) PROVE rows'[j].tries > 0
      BY DEF WaitsAfterTry
    <3>1. CASE rows'[j] = rows[j]
      BY <1>a, <3>1 DEF WaitsAfterTry
    <3>2. CASE rows'[j] = None
      BY <3>2 DEF Due
    <3>3. CASE /\ rows[j] \in Row
               /\ rows'[j] = [running |-> FALSE, due |-> FALSE, tries |-> rows[j].tries + 1]
      <4>1. rows[j].tries \in Nat /\ rows'[j].tries = rows[j].tries + 1
        BY <1>b, <3>3
      <4> QED
        BY <4>1
    <3> QED
      BY <2>3, <3>1, <3>2, <3>3
  <2>6. RunningIsHeld'
    BY <1>a, <2>1, <2>3 DEF RunningIsHeld
  <2> QED
    BY <2>1, <2>2, <2>4, <2>5, <2>6 DEF NoLostWakeup
<1>11. CASE LoopThrows
  <2>1. rows' = rows /\ broken' = TRUE /\ loop' = Off
    BY <1>11 DEF LoopThrows
  <2>2. LoopTypeOK'
    BY <2>1 DEF LoopTypeOK, LoopPcs, Off
  <2> QED
    BY <1>a, <2>1, <2>2 DEF WaitsAfterTry, RunningIsHeld, NoLostWakeup
<1> QED
  BY <1>1, <1>2, <1>3, <1>4, <1>5, <1>6, <1>7, <1>8, <1>9, <1>10, <1>11 DEF LoopSteps

\* What the steps of the queue do to the other variables.
LEMMA OthersTyped ==
  ASSUME TypeOK,
         \/ StatusWakes
         \/ \E j \in Jobs : SaveMessage(j) \/ InsertJob(j) \/ AddWakes(j) \/ Elapse(j)
         \/ LoopSteps \/ RunThrows \/ LoopThrows
  PROVE  /\ local' \in [Jobs -> {"new", "pending", "sent"}]
         /\ adder' \in [Jobs -> {"idle", "saved", "inserted", "done"}]
         /\ handed' \in [Jobs -> Nat]
         /\ broken' \in BOOLEAN /\ errors' \in Nat /\ restarts' \in Nat
<1> DEFINE Goal == /\ local' \in [Jobs -> {"new", "pending", "sent"}]
                   /\ adder' \in [Jobs -> {"idle", "saved", "inserted", "done"}]
                   /\ handed' \in [Jobs -> Nat]
                   /\ broken' \in BOOLEAN /\ errors' \in Nat /\ restarts' \in Nat
<1> SUFFICES Goal
  OBVIOUS
<1>a. /\ local \in [Jobs -> {"new", "pending", "sent"}]
      /\ adder \in [Jobs -> {"idle", "saved", "inserted", "done"}]
      /\ handed \in [Jobs -> Nat]
      /\ broken \in BOOLEAN /\ errors \in Nat /\ restarts \in Nat
  BY DEF TypeOK
<1>1. CASE StatusWakes \/ Read \/ Mark \/ DeleteJob \/ HandleFailure
  BY <1>a, <1>1 DEF StatusWakes, Read, Mark, DeleteJob, HandleFailure
<1>2. CASE \E j \in Jobs : SaveMessage(j) \/ InsertJob(j) \/ AddWakes(j) \/ Elapse(j)
  <2>1. PICK j \in Jobs : SaveMessage(j) \/ InsertJob(j) \/ AddWakes(j) \/ Elapse(j)
    BY <1>2
  <2>2. CASE SaveMessage(j)
    BY <1>a, <2>2 DEF SaveMessage
  <2>3. CASE InsertJob(j)
    BY <1>a, <2>3 DEF InsertJob
  <2>4. CASE AddWakes(j)
    BY <1>a, <2>4 DEF AddWakes
  <2>5. CASE Elapse(j)
    BY <1>a, <2>5 DEF Elapse
  <2> QED
    BY <2>1, <2>2, <2>3, <2>4, <2>5
<1>3. CASE Run
  <2>1. handed' = handed \/ handed' = [handed EXCEPT ![loop.job] = @ + 1]
    BY <1>3 DEF Run
  <2>2. handed' \in [Jobs -> Nat]
    BY <1>a, <2>1
  <2> QED
    BY <1>a, <1>3, <2>2 DEF Run
<1>4. CASE StoreStatus
  BY <1>a, <1>4 DEF StoreStatus
<1>5. CASE RunThrows \/ LoopThrows
  <2>1. errors' = errors + 1 /\ UNCHANGED <<local, adder, handed, restarts>>
    BY <1>5 DEF RunThrows, LoopThrows
  <2>2. broken' \in BOOLEAN
    BY <1>a, <1>5 DEF RunThrows, LoopThrows
  <2>3. errors' \in Nat
    BY <1>a, <2>1
  <2> QED
    BY <1>a, <2>1, <2>2, <2>3
<1> QED
  BY <1>1, <1>2, <1>3, <1>4, <1>5 DEF LoopSteps

\* The socket's invariant does not speak of wake but for its type, and nothing
\* else of the socket changes in a step of the queue.
LEMMA SocketKept ==
  ASSUME SocketInv,
         \/ StatusWakes
         \/ \E j \in Jobs : SaveMessage(j) \/ InsertJob(j) \/ AddWakes(j) \/ Elapse(j)
         \/ LoopSteps \/ RunThrows \/ LoopThrows
  PROVE  SocketInv'
<1>1. /\ UNCHANGED <<net, probe, online, user, token, stored, status, attempt, channel, peer,
                     timer, loggingOut>>
      /\ wake' \in {wake, FALSE}
  BY DEF StatusWakes, SaveMessage, InsertJob, AddWakes, Elapse, LoopSteps, Read, Mark, Run,
         StoreStatus, DeleteJob, HandleFailure, RunThrows, LoopThrows, sockVars
<1>2. SocketTypeOK'
  <2>1. net' \in BOOLEAN /\ online' \in BOOLEAN /\ peer' \in BOOLEAN /\ timer' \in BOOLEAN
        /\ wake' \in BOOLEAN
    BY <1>1 DEF SocketInv, SocketTypeOK
  <2>2. /\ probe' \in {"asked", "online", "offline", "done"}
        /\ loggingOut' \in {"no", "storage", "tables"} /\ status' \in Statuses
        /\ user' \in Accounts \cup {None} /\ token' \in Accounts \cup {None}
        /\ stored' \in Accounts \cup {None} /\ attempt' \in Accounts \cup {None}
        /\ channel' \in Accounts \cup {None}
    BY <1>1 DEF SocketInv, SocketTypeOK
  <2> QED
    BY <2>1, <2>2 DEF SocketTypeOK
<1>3. SessionHasToken' /\ OfflineWaits' /\ StatusTellsChannel' /\ RetryIsArmed'
  BY <1>1 DEF SocketInv, SessionHasToken, OfflineWaits, StatusTellsChannel, RetryIsArmed
<1> QED
  BY <1>2, <1>3 DEF SocketInv

LEMMA ClientStep == ClientInv /\ [Next]_vars => ClientInv'
<1> SUFFICES ASSUME ClientInv, [Next]_vars PROVE ClientInv'
  OBVIOUS
<1>a. SocketInv /\ QueueInv /\ TypeOK
  BY DEF ClientInv, QueueInv
<1>1. CASE SocketNext /\ UNCHANGED jobVars
  <2>1. /\ SocketInv'
        /\ status' = "connected" => wake' \/ (status = "connected" /\ wake' = wake)
    BY <1>a, <1>1, SocketStep
  <2>2. UNCHANGED <<local, adder, rows, loop, handed, broken, errors, restarts>>
    BY <1>1 DEF jobVars
  <2>3. TypeOK'
    BY <1>a, <2>1, <2>2 DEF TypeOK, SocketInv
  <2>4. WaitsAfterTry' /\ RunningIsHeld'
    BY <1>a, <2>2 DEF QueueInv, WaitsAfterTry, RunningIsHeld
  <2>5. NoLostWakeup'
    BY <1>a, <2>1, <2>2 DEF QueueInv, NoLostWakeup, Fresh
  <2> QED
    BY <2>1, <2>3, <2>4, <2>5 DEF ClientInv, QueueInv
<1>2. CASE ClearData
  <2>1. /\ rows' = [j \in Jobs |-> None] /\ local' = [j \in Jobs |-> "new"]
        /\ UNCHANGED <<adder, loop, handed, broken, errors, restarts>>
        /\ LogoutEnds
    BY <1>2 DEF ClearData
  <2>2. SocketInv'
    BY <1>a, <2>1 DEF LogoutEnds, SocketInv, SocketTypeOK, SessionHasToken, OfflineWaits,
       StatusTellsChannel, RetryIsArmed, Statuses
  <2>3. TypeOK'
    BY <1>a, <2>1, <2>2 DEF TypeOK, SocketInv
  <2>4. WaitsAfterTry' /\ RunningIsHeld' /\ NoLostWakeup'
    BY <2>1 DEF WaitsAfterTry, Due, RunningIsHeld, NoLostWakeup, Fresh
  <2> QED
    BY <2>2, <2>3, <2>4 DEF ClientInv, QueueInv
<1>3. CASE Restart
  <2>1. /\ RestartSocket /\ loop' = Off /\ broken' = FALSE
        /\ adder' = [j \in Jobs |-> IF adder[j] = "idle" THEN "idle" ELSE "done"]
        /\ rows' = [j \in Jobs |-> IF rows[j] = None THEN None
                                     ELSE [rows[j] EXCEPT !.running = FALSE]]
        /\ restarts' = restarts + 1 /\ UNCHANGED <<local, handed, errors>>
    BY <1>3 DEF Restart
  <2>2. SocketInv'
    BY <1>a, <2>1 DEF RestartSocket, SocketInv, SocketTypeOK, SessionHasToken, OfflineWaits,
       StatusTellsChannel, RetryIsArmed, Statuses
  <2>3. \A j \in Jobs :
          \/ rows[j] = None /\ rows'[j] = None
          \/ /\ rows[j] \in Row /\ rows'[j] \in Row /\ rows'[j].running = FALSE
             /\ rows'[j].due = rows[j].due /\ rows'[j].tries = rows[j].tries
    BY <1>a, <2>1 DEF TypeOK, Row
  <2>4. TypeOK'
    <3>1. rows' \in [Jobs -> Row \cup {None}]
      BY <2>1, <2>3
    <3>2. loop' \in [pc : LoopPcs, job : Jobs \cup {None}, todo : SUBSET Jobs, did : BOOLEAN]
          /\ loop'.pc = "off"
      BY <2>1 DEF Off, LoopPcs
    <3>3. restarts' \in Nat
      BY <1>a, <2>1 DEF TypeOK
    <3>4. adder' \in [Jobs -> {"idle", "saved", "inserted", "done"}]
      BY <1>a, <2>1 DEF TypeOK
    <3>5. broken' \in BOOLEAN /\ UNCHANGED <<local, handed, errors>> /\ SocketTypeOK'
      BY <2>1, <2>2 DEF SocketInv
    <3> QED
      BY <1>a, <3>1, <3>2, <3>3, <3>4, <3>5 DEF TypeOK
  <2>5. WaitsAfterTry'
    BY <1>a, <2>3, JobsAssumption DEF QueueInv, WaitsAfterTry, Due
  <2>6. RunningIsHeld'
    BY <2>3 DEF RunningIsHeld
  <2>7. NoLostWakeup'
    BY <2>1 DEF RestartSocket, NoLostWakeup
  <2> QED
    BY <2>2, <2>4, <2>5, <2>6, <2>7 DEF ClientInv, QueueInv
<1>4. CASE \/ StatusWakes
           \/ \E j \in Jobs : SaveMessage(j) \/ InsertJob(j) \/ AddWakes(j) \/ Elapse(j)
           \/ LoopSteps \/ RunThrows \/ LoopThrows
  <2>1. SocketInv'
    BY <1>a, <1>4, SocketKept
  <2>2. /\ LoopTypeOK' /\ rows' \in [Jobs -> Row \cup {None}]
        /\ WaitsAfterTry' /\ RunningIsHeld' /\ NoLostWakeup'
    BY <1>a, <1>4, QueueStep
  <2>3. /\ local' \in [Jobs -> {"new", "pending", "sent"}]
        /\ adder' \in [Jobs -> {"idle", "saved", "inserted", "done"}]
        /\ handed' \in [Jobs -> Nat]
        /\ broken' \in BOOLEAN /\ errors' \in Nat /\ restarts' \in Nat
    BY <1>a, <1>4, OthersTyped
  <2>4. TypeOK'
    BY <2>1, <2>2, <2>3 DEF TypeOK, LoopTypeOK, SocketInv
  <2> QED
    BY <2>1, <2>2, <2>4 DEF ClientInv, QueueInv
<1>5. CASE UNCHANGED vars
  BY <1>a, <1>5 DEF ClientInv, QueueInv, vars, sockVars, jobVars, SocketInv, SocketTypeOK,
     SessionHasToken, OfflineWaits, StatusTellsChannel, RetryIsArmed, TypeOK,
     WaitsAfterTry, RunningIsHeld, NoLostWakeup, Fresh
<1> QED
  BY <1>1, <1>2, <1>3, <1>4, <1>5 DEF Next

LEMMA ClientInvariant == Spec => []ClientInv
<1>1. Init => ClientInv
  BY SocketInitInv, QueueInitInv DEF Init, ClientInv
<1> QED
  BY <1>1, ClientStep, PTL DEF Spec

-----------------------------------------------------------------------------
\* The socket's and the queue's variables have their types, and the job the
\* loop stands at is never still on its list, so no job is run twice in a pass.
THEOREM ClientTypeCorrect == Spec => []TypeOK
<1>1. ClientInv => TypeOK
  BY DEF ClientInv, QueueInv
<1> QED
  BY <1>1, ClientInvariant, PTL

\* isConnected is true exactly while there is a channel, through drops,
\* reconnects, logouts, handshakes that end late and restarts.
THEOREM StatusIsTrue == Spec => []StatusTellsChannel
<1>1. ClientInv => StatusTellsChannel
  BY DEF ClientInv, SocketInv
<1> QED
  BY <1>1, ClientInvariant, PTL

\* A user who is logged in and has a network is never left with a socket that
\* neither is connected nor will try again.
THEOREM SocketRetries == Spec => []RetryIsArmed
<1>1. ClientInv => RetryIsArmed
  BY DEF ClientInv, SocketInv
<1> QED
  BY <1>1, ClientInvariant, PTL

\* _processPendingJobs returns at once while another loop runs; still, a job
\* added at that moment is found, by that loop or by the next.
THEOREM NoWakeupIsLost == Spec => []NoLostWakeup
<1>1. ClientInv => NoLostWakeup
  BY DEF ClientInv, QueueInv
<1> QED
  BY <1>1, ClientInvariant, PTL

\* A row that getPendingJobs skips because it is marked as running is the one
\* the loop is working on.
THEOREM NoJobIsStuck == Spec => []RunningIsHeld
<1>1. ClientInv => RunningIsHeld
  BY DEF ClientInv, QueueInv
<1> QED
  BY <1>1, ClientInvariant, PTL

-----------------------------------------------------------------------------
\* How often a job is run

\* One handing over is free, and it is spent while the message is no longer
\* pending or the loop is about to note that it was sent; a job that is to be
\* run again has paid for the last time with a failed call or a restart.
Spent(j) ==
  IF local[j] = "pending" /\ ~(loop.pc = "store" /\ loop.job = j) THEN 0 ELSE 1

\* A job that lies in the table or that the loop has read was enqueued, and a
\* message that was not yet saved was never handed over.
OnceEnqueued ==
  \A j \in Jobs :
    /\ rows[j] # None \/ j \in loop.todo \/ loop.job = j => adder[j] # "idle"
    /\ adder[j] = "idle" => local[j] = "new" /\ handed[j] = 0

Paid == \A j \in Jobs : handed[j] <= errors + restarts + Spent(j)

\* The loop deletes a job that ran, or one that has no factory.
RanOrOrphan ==
  /\ loop.pc = "delete" => local[loop.job] # "pending"
  /\ loop.pc = "orphan" => loop.job \in Orphans

RepeatInv == OnceEnqueued /\ Paid /\ RanOrOrphan

LEMMA RepeatInit == Init => RepeatInv
  BY JobsAssumption DEF Init, Off, RepeatInv, OnceEnqueued, Paid, Spent, RanOrOrphan

\* Where a loop that goes on stands: at no job, or at one of its list.
LEMMA AdvanceWhere ==
  ASSUME NEW STATE todo, todo \subseteq Jobs, NEW STATE did,
         Advance(todo, did)
  PROVE  /\ loop'.todo \subseteq todo
         /\ loop'.job \in todo \cup {None}
         /\ loop'.pc \in {"off", "read", "mark", "orphan"}
         /\ loop'.pc = "orphan" => loop'.job \in Orphans
<1> DEFINE due == {j \in todo : Due(rows'[j])}
<1>1. CASE loop' = Off \/ loop' = Reading
  BY <1>1 DEF Off, Reading
<1>2. CASE ~(loop' = Off \/ loop' = Reading)
  <2>1. PICK j \in due :
          loop' = [pc |-> IF j \in Orphans THEN "orphan" ELSE "mark",
                   job |-> j, todo |-> todo \ {j}, did |-> TRUE]
    BY <1>2 DEF Advance
  <2> QED
    BY <2>1
<1> QED
  BY <1>1, <1>2

\* A step that hands nothing over and leaves the messages alone keeps the
\* count, if it does not leave "store" without paying.
LEMMA PaidKept ==
  ASSUME TypeOK, Paid, UNCHANGED <<local, handed>>,
         \/ UNCHANGED <<errors, restarts>> /\ (loop.pc # "store" \/ loop' = loop)
         \/ errors' = errors + 1 /\ restarts' = restarts
         \/ errors' = errors /\ restarts' = restarts + 1
  PROVE  Paid'
<1> SUFFICES ASSUME NEW j \in Jobs PROVE handed'[j] <= errors' + restarts' + Spent(j)'
  BY DEF Paid
<1>1. /\ handed[j] \in Nat /\ errors \in Nat /\ restarts \in Nat
      /\ handed[j] <= errors + restarts + Spent(j) /\ handed'[j] = handed[j]
  BY DEF TypeOK, Paid
<1>2. Spent(j) \in {0, 1} /\ Spent(j)' \in {0, 1}
  BY DEF Spent
<1>3. \/ UNCHANGED <<errors, restarts>> /\ Spent(j)' >= Spent(j)
      \/ errors' = errors + 1 /\ restarts' = restarts
      \/ errors' = errors /\ restarts' = restarts + 1
  BY <1>2 DEF Spent
<1> QED
  BY <1>1, <1>2, <1>3

LEMMA RepeatStep == ClientInv /\ RepeatInv /\ [Next]_vars => RepeatInv'
<1> SUFFICES ASSUME ClientInv, RepeatInv, [Next]_vars PROVE RepeatInv'
  OBVIOUS
<1>a. /\ TypeOK
      /\ local \in [Jobs -> {"new", "pending", "sent"}]
      /\ adder \in [Jobs -> {"idle", "saved", "inserted", "done"}]
      /\ handed \in [Jobs -> Nat] /\ errors \in Nat /\ restarts \in Nat
      /\ rows \in [Jobs -> Row \cup {None}]
      /\ loop \in [pc : LoopPcs, job : Jobs \cup {None}, todo : SUBSET Jobs, did : BOOLEAN]
      /\ loop.pc \notin {"off", "read"} => loop.job \in Jobs \ loop.todo
      /\ None \notin Jobs
  BY JobsAssumption DEF ClientInv, QueueInv, TypeOK
<1>b. OnceEnqueued /\ Paid /\ RanOrOrphan
  BY DEF RepeatInv
<1>0. CASE UNCHANGED jobVars
  BY <1>b, <1>0 DEF jobVars, RepeatInv, OnceEnqueued, Paid, Spent, RanOrOrphan
<1>1. CASE ClearData
  <2>1. /\ rows' = [j \in Jobs |-> None] /\ local' = [j \in Jobs |-> "new"]
        /\ UNCHANGED <<adder, loop, handed, errors, restarts>>
    BY <1>1 DEF ClearData
  <2>2. OnceEnqueued'
    BY <1>b, <2>1 DEF OnceEnqueued
  <2>3. Paid'
    <3> SUFFICES ASSUME NEW j \in Jobs PROVE handed[j] <= errors + restarts + Spent(j)'
      BY <2>1 DEF Paid
    <3>1. Spent(j)' = 1 /\ Spent(j) \in {0, 1} /\ handed[j] <= errors + restarts + Spent(j)
      BY <1>b, <2>1 DEF Paid, Spent
    <3> QED
      BY <1>a, <3>1
  <2>4. RanOrOrphan'
    BY <1>a, <1>b, <2>1 DEF RanOrOrphan
  <2> QED
    BY <2>2, <2>3, <2>4 DEF RepeatInv
<1>2. CASE Restart
  <2>1. /\ adder' = [j \in Jobs |-> IF adder[j] = "idle" THEN "idle" ELSE "done"]
        /\ rows' = [j \in Jobs |-> IF rows[j] = None THEN None
                                     ELSE [rows[j] EXCEPT !.running = FALSE]]
        /\ loop' = Off /\ restarts' = restarts + 1
        /\ UNCHANGED <<local, handed, errors>>
    BY <1>2 DEF Restart
  <2>2. \A j \in Jobs : rows'[j] # None => rows[j] # None
    BY <2>1
  <2>3. OnceEnqueued'
    BY <1>a, <1>b, <2>1, <2>2 DEF OnceEnqueued, Off
  <2>4. Paid'
    BY <1>a, <1>b, <2>1, PaidKept
  <2>5. RanOrOrphan'
    BY <2>1 DEF RanOrOrphan, Off
  <2> QED
    BY <2>3, <2>4, <2>5 DEF RepeatInv
<1>3. ASSUME NEW k \in Jobs, SaveMessage(k) PROVE RepeatInv'
  <2>1. /\ adder[k] = "idle" /\ local' = [local EXCEPT ![k] = "pending"]
        /\ adder' = [adder EXCEPT ![k] = "saved"]
        /\ UNCHANGED <<rows, loop, handed, errors, restarts>>
    BY <1>3 DEF SaveMessage
  <2>2. /\ \A j \in Jobs : local'[j] = IF j = k THEN "pending" ELSE local[j]
        /\ \A j \in Jobs : adder'[j] = IF j = k THEN "saved" ELSE adder[j]
        /\ handed[k] = 0
    BY <1>a, <1>b, <2>1 DEF OnceEnqueued
  <2>3. OnceEnqueued'
    BY <1>b, <2>1, <2>2 DEF OnceEnqueued
  <2>4. Paid'
    <3> SUFFICES ASSUME NEW j \in Jobs PROVE handed[j] <= errors + restarts + Spent(j)'
      BY <2>1 DEF Paid
    <3>1. Spent(j)' \in {0, 1}
      BY DEF Spent
    <3>2. CASE j = k
      BY <1>a, <2>2, <3>1, <3>2
    <3>3. CASE j # k
      <4>1. Spent(j)' = Spent(j)
        BY <2>1, <2>2, <3>3 DEF Spent
      <4> QED
        BY <1>b, <4>1 DEF Paid
    <3> QED
      BY <3>2, <3>3
  <2>5. RanOrOrphan'
    BY <1>a, <1>b, <2>1, <2>2 DEF RanOrOrphan, OnceEnqueued
  <2> QED
    BY <2>3, <2>4, <2>5 DEF RepeatInv
<1>4. ASSUME NEW k \in Jobs, InsertJob(k) PROVE RepeatInv'
  <2>1. /\ adder[k] = "saved" /\ rows' = [rows EXCEPT ![k] = NewRow]
        /\ adder' = [adder EXCEPT ![k] = "inserted"]
        /\ UNCHANGED <<local, loop, handed, errors, restarts>>
    BY <1>4 DEF InsertJob
  <2>2. OnceEnqueued'
    BY <1>a, <1>b, <2>1 DEF OnceEnqueued
  <2>3. Paid' /\ RanOrOrphan'
    BY <1>b, <2>1 DEF Paid, Spent, RanOrOrphan
  <2> QED
    BY <2>2, <2>3 DEF RepeatInv
<1>5. CASE StatusWakes \/ \E k \in Jobs : AddWakes(k)
  <2>1. /\ UNCHANGED <<rows, local, handed, errors, restarts>>
        /\ adder' = adder \/ \E k \in Jobs : /\ adder[k] = "inserted"
                                             /\ adder' = [adder EXCEPT ![k] = "done"]
        /\ loop' = loop \/ (loop.pc = "off" /\ loop' = Reading)
    BY <1>5 DEF StatusWakes, AddWakes, Process
  <2>2. \A j \in Jobs : adder'[j] = "idle" <=> adder[j] = "idle"
    BY <1>a, <2>1
  <2>3. loop'.todo \subseteq loop.todo /\ loop'.job \in {loop.job, None}
    BY <1>a, <2>1 DEF Reading
  <2>4. OnceEnqueued'
    BY <1>a, <1>b, <2>1, <2>2, <2>3 DEF OnceEnqueued
  <2>5. Paid'
    <3>1. loop.pc # "store" \/ loop' = loop
      BY <2>1
    <3> QED
      BY <1>a, <1>b, <2>1, <3>1, PaidKept
  <2>6. RanOrOrphan'
    BY <1>b, <2>1 DEF RanOrOrphan, Reading
  <2> QED
    BY <2>4, <2>5, <2>6 DEF RepeatInv
<1>6. ASSUME NEW k \in Jobs, Elapse(k) PROVE RepeatInv'
  <2>1. /\ rows[k] # None /\ rows' = [rows EXCEPT ![k].due = TRUE]
        /\ UNCHANGED <<local, adder, loop, handed, errors, restarts>>
    BY <1>6 DEF Elapse
  <2>2. \A j \in Jobs : rows'[j] # None => rows[j] # None
    BY <1>a, <2>1
  <2> QED
    BY <1>b, <2>1, <2>2 DEF RepeatInv, OnceEnqueued, Paid, Spent, RanOrOrphan
<1>7. CASE Read \/ DeleteJob \/ HandleFailure
  <2>1. /\ UNCHANGED <<local, adder, handed, errors, restarts>>
        /\ loop.pc # "store"
        /\ \A j \in Jobs : rows'[j] # None => rows[j] # None
    BY <1>a, <1>7 DEF Read, DeleteJob, HandleFailure
  <2>2. \E todo \in SUBSET Jobs :
          /\ Advance(todo, FALSE) \/ Advance(todo, TRUE)
          /\ \A j \in todo : adder[j] # "idle"
    <3>1. CASE Read
      <4>1. Pending \in SUBSET Jobs /\ \A j \in Pending : adder[j] # "idle"
        BY <1>b DEF Pending, OnceEnqueued
      <4> QED
        BY <3>1, <4>1 DEF Read
    <3>2. CASE DeleteJob \/ HandleFailure
      <4>1. loop.todo \in SUBSET Jobs /\ \A j \in loop.todo : adder[j] # "idle"
        BY <1>a, <1>b DEF OnceEnqueued
      <4> QED
        BY <3>2, <4>1 DEF DeleteJob, HandleFailure
    <3> QED
      BY <1>7, <3>1, <3>2
  <2>3. PICK todo \in SUBSET Jobs :
          /\ Advance(todo, FALSE) \/ Advance(todo, TRUE)
          /\ \A j \in todo : adder[j] # "idle"
    BY <2>2
  <2>4. /\ loop'.todo \subseteq todo /\ loop'.job \in todo \cup {None}
        /\ loop'.pc \in {"off", "read", "mark", "orphan"}
        /\ loop'.pc = "orphan" => loop'.job \in Orphans
    BY <2>3, AdvanceWhere
  <2>5. OnceEnqueued'
    BY <1>a, <1>b, <2>1, <2>3, <2>4 DEF OnceEnqueued
  <2>6. Paid'
    BY <1>a, <1>b, <2>1, PaidKept
  <2>7. RanOrOrphan'
    BY <2>4 DEF RanOrOrphan
  <2> QED
    BY <2>5, <2>6, <2>7 DEF RepeatInv
<1>8. CASE Mark
  <2>1. /\ loop.pc = "mark" /\ loop' = [loop EXCEPT !.pc = "run"]
        /\ UNCHANGED <<local, adder, handed, errors, restarts>>
        /\ \A j \in Jobs : rows'[j] # None => rows[j] # None
    BY <1>8 DEF Mark
  <2>2. loop'.pc = "run" /\ loop'.job = loop.job /\ loop'.todo = loop.todo
    BY <1>a, <2>1
  <2>3. OnceEnqueued' /\ RanOrOrphan'
    BY <1>b, <2>1, <2>2 DEF OnceEnqueued, RanOrOrphan
  <2>4. Paid'
    BY <1>a, <1>b, <2>1, PaidKept
  <2> QED
    BY <2>3, <2>4 DEF RepeatInv
<1>9. CASE Run
  <2>1. loop.pc = "run" /\ UNCHANGED <<rows, local, adder, errors, restarts>>
    BY <1>9 DEF Run
  <2>2. loop.job \in Jobs /\ adder[loop.job] # "idle"
    BY <1>a, <1>b, <2>1 DEF OnceEnqueued
  <2>3. CASE local[loop.job] # "pending"
    <3>1. loop' = [loop EXCEPT !.pc = "delete"] /\ handed' = handed
      BY <1>9, <2>3 DEF Run
    <3>2. loop'.pc = "delete" /\ loop'.job = loop.job /\ loop'.todo = loop.todo
      BY <1>a, <3>1
    <3>3. OnceEnqueued' /\ RanOrOrphan'
      BY <1>b, <2>1, <2>3, <3>1, <3>2 DEF OnceEnqueued, RanOrOrphan
    <3>4. Paid'
      BY <1>a, <1>b, <2>1, <3>1, PaidKept
    <3> QED
      BY <3>3, <3>4 DEF RepeatInv
  <2>4. CASE local[loop.job] = "pending"
    <3>1. /\ loop' = [loop EXCEPT !.pc = "store"]
          /\ handed' = [handed EXCEPT ![loop.job] = @ + 1] \/ handed' = handed
      BY <1>9, <2>4 DEF Run
    <3>2. loop'.pc = "store" /\ loop'.job = loop.job /\ loop'.todo = loop.todo
      BY <1>a, <3>1
    <3>3. OnceEnqueued' /\ RanOrOrphan'
      BY <1>a, <1>b, <2>1, <2>2, <3>1, <3>2 DEF OnceEnqueued, RanOrOrphan
    <3>4. Paid'
      <4> SUFFICES ASSUME NEW j \in Jobs PROVE handed'[j] <= errors + restarts + Spent(j)'
        BY <2>1 DEF Paid
      <4>1. handed[j] <= errors + restarts + Spent(j)
        BY <1>b DEF Paid
      <4>2. CASE j = loop.job
        <5>1. Spent(j) = 0 /\ Spent(j)' = 1
          BY <2>1, <2>4, <3>2, <4>2 DEF Spent
        <5>2. handed'[j] <= handed[j] + 1 /\ handed[j] \in Nat /\ handed'[j] \in Nat
          BY <1>a, <3>1, <4>2
        <5> QED
          BY <1>a, <4>1, <5>1, <5>2
      <4>3. CASE j # loop.job
        <5>1. Spent(j)' = Spent(j)
          BY <2>1, <3>2, <4>3 DEF Spent
        <5>2. handed'[j] = handed[j]
          BY <1>a, <3>1, <4>3
        <5> QED
          BY <4>1, <5>1, <5>2
      <4> QED
        BY <4>2, <4>3
    <3> QED
      BY <3>3, <3>4 DEF RepeatInv
  <2> QED
    BY <2>3, <2>4
<1>10. CASE StoreStatus
  <2>1. /\ loop.pc = "store" /\ loop' = [loop EXCEPT !.pc = "delete"]
        /\ local' = [j \in Jobs |-> IF j = loop.job /\ local[j] # "new" THEN "sent" ELSE local[j]]
        /\ UNCHANGED <<rows, adder, handed, errors, restarts>>
    BY <1>10 DEF StoreStatus
  <2>2. /\ loop.job \in Jobs /\ local'[loop.job] # "pending"
        /\ loop'.pc = "delete" /\ loop'.job = loop.job /\ loop'.todo = loop.todo
    BY <1>a, <2>1
  <2>3. OnceEnqueued' /\ RanOrOrphan'
    BY <1>b, <2>1, <2>2 DEF OnceEnqueued, RanOrOrphan
  <2>4. \A j \in Jobs : Spent(j)' = Spent(j)
    BY <2>1, <2>2 DEF Spent
  <2>5. Paid'
    BY <1>b, <2>1, <2>4 DEF Paid
  <2> QED
    BY <2>3, <2>5 DEF RepeatInv
<1>11. CASE RunThrows \/ LoopThrows
  <2>1. /\ UNCHANGED <<rows, local, adder, handed, restarts>> /\ errors' = errors + 1
        /\ loop' = [loop EXCEPT !.pc = "fail"] \/ loop' = Off
    BY <1>11 DEF RunThrows, LoopThrows
  <2>2. /\ loop'.pc \in {"fail", "off"} /\ loop'.job \in {loop.job, None}
        /\ loop'.todo \subseteq loop.todo
    BY <1>a, <2>1 DEF Off
  <2>3. OnceEnqueued' /\ RanOrOrphan'
    BY <1>a, <1>b, <2>1, <2>2 DEF OnceEnqueued, RanOrOrphan
  <2>4. Paid'
    BY <1>a, <1>b, <2>1, PaidKept
  <2> QED
    BY <2>3, <2>4 DEF RepeatInv
<1> QED
  BY <1>0, <1>1, <1>2, <1>3, <1>4, <1>5, <1>6, <1>7, <1>8, <1>9, <1>10, <1>11
  DEF Next, LoopSteps, vars

LEMMA RepeatInvariant == Spec => [](ClientInv /\ RepeatInv)
<1>1. Init => ClientInv /\ RepeatInv
  BY SocketInitInv, QueueInitInv, RepeatInit DEF Init, ClientInv
<1>2. ClientInv /\ RepeatInv /\ [Next]_vars => (ClientInv /\ RepeatInv)'
  BY ClientStep, RepeatStep
<1> QED
  BY <1>1, <1>2, PTL DEF Spec

\* Between two awaits of _processPendingJobs anything may happen, a logout and
\* a dead process included; still a message goes to a channel a second time
\* only if a call failed or the process restarted.
THEOREM NoMessageIsRepeated == Spec => []NoNeedlessRepeat
<1>1. ClientInv /\ RepeatInv => NoNeedlessRepeat
  <2> SUFFICES ASSUME ClientInv, RepeatInv, NEW j \in Jobs
               PROVE  handed[j] <= 1 + errors + restarts
    BY DEF NoNeedlessRepeat
  <2>1. /\ handed[j] <= errors + restarts + Spent(j) /\ Spent(j) \in {0, 1}
        /\ handed[j] \in Nat /\ errors \in Nat /\ restarts \in Nat
    BY DEF RepeatInv, Paid, Spent, ClientInv, QueueInv, TypeOK
  <2> QED
    BY <2>1
<1> QED
  BY <1>1, RepeatInvariant, PTL

\* The row of a job leaves the table with its message still pending only in
\* _handleJobFailure, and there only when the attempts are used up.
THEOREM JobsAreDeletedWhenDone == Spec => DeletedIsDone
<1>1. ClientInv /\ RepeatInv /\ [Next]_vars
        => [\A j \in Jobs \ Orphans :
              (rows[j] # None /\ rows'[j] = None /\ local'[j] = "pending")
                 => rows[j].tries + 1 >= MaxAttempts]_vars
  <2> SUFFICES ASSUME ClientInv, RepeatInv, Next, NEW j \in Jobs \ Orphans,
                      rows[j] # None, rows'[j] = None, local'[j] = "pending"
               PROVE  rows[j].tries + 1 >= MaxAttempts
    OBVIOUS
  <2>a. /\ local \in [Jobs -> {"new", "pending", "sent"}]
        /\ rows \in [Jobs -> Row \cup {None}] /\ None \notin Row /\ MaxAttempts \in Nat
    BY JobsAssumption DEF ClientInv, QueueInv, TypeOK
  <2>b. rows[j] \in Row /\ rows[j].tries \in Nat
    BY <2>a DEF Row
  <2>1. CASE (SocketNext /\ UNCHANGED jobVars) \/ StatusWakes \/ Read \/ Run \/ StoreStatus
             \/ RunThrows \/ LoopThrows
    <3>1. rows' = rows
      BY <2>1 DEF jobVars, StatusWakes, Read, Run, StoreStatus, RunThrows, LoopThrows
    <3> QED
      BY <3>1
  <2>2. CASE ClearData
    BY <2>2 DEF ClearData
  <2>3. CASE Restart \/ Mark
    <3>1. rows'[j] = rows[j] \/ rows'[j] = [rows[j] EXCEPT !.running = FALSE]
                             \/ rows'[j] = [rows[j] EXCEPT !.running = TRUE]
      BY <2>3 DEF Restart, Mark
    <3>2. rows'[j] \in Row
      BY <2>b, <3>1 DEF Row
    <3> QED
      BY <2>a, <3>2
  <2>4. CASE \E k \in Jobs : SaveMessage(k) \/ InsertJob(k) \/ AddWakes(k) \/ Elapse(k)
    <3>1. PICK k \in Jobs : SaveMessage(k) \/ InsertJob(k) \/ AddWakes(k) \/ Elapse(k)
      BY <2>4
    <3>2. CASE SaveMessage(k) \/ AddWakes(k)
      BY <3>2 DEF SaveMessage, AddWakes
    <3>3. CASE InsertJob(k)
      <4>1. rows'[j] \in {rows[j], NewRow} /\ NewRow \in Row
        BY <2>a, <3>3 DEF InsertJob, NewRow, Row
      <4> QED
        BY <2>a, <2>b, <4>1
    <3>4. CASE Elapse(k)
      <4>1. rows'[j] = rows[j] \/ rows'[j] = [rows[j] EXCEPT !.due = TRUE]
        BY <2>a, <3>4 DEF Elapse
      <4>2. rows'[j] \in Row
        BY <2>b, <4>1 DEF Row
      <4> QED
        BY <2>a, <4>2
    <3> QED
      BY <3>1, <3>2, <3>3, <3>4
  <2>5. CASE DeleteJob
    <3>1. /\ loop.pc \in {"delete", "orphan"} /\ local' = local
          /\ rows' = [rows EXCEPT ![loop.job] = None]
      BY <2>5 DEF DeleteJob
    <3>2. j = loop.job
      BY <2>a, <3>1
    <3> QED
      BY <3>1, <3>2 DEF RepeatInv, RanOrOrphan
  <2>6. CASE HandleFailure
    <3>1. rows'[j] = IF j # loop.job \/ rows[j] = None THEN rows[j]
                     ELSE IF rows[j].tries + 1 < MaxAttempts
                       THEN [running |-> FALSE, due |-> FALSE, tries |-> rows[j].tries + 1]
                       ELSE None
      BY <2>6 DEF HandleFailure
    <3>2. CASE rows[j].tries + 1 < MaxAttempts
      <4>1. rows'[j] \in Row
        BY <2>b, <3>1, <3>2 DEF Row
      <4> QED
        BY <2>a, <4>1
    <3> QED
      BY <2>a, <2>b, <3>2
  <2> QED
    BY <2>1, <2>2, <2>3, <2>4, <2>5, <2>6 DEF Next, LoopSteps
<1> QED
  BY <1>1, RepeatInvariant, PTL DEF Spec, DeletedIsDone
=============================================================================
