----------------------------- MODULE ClientJobs -----------------------------
(***************************************************************************)
(* The job queue of the mobile client, SigmaJobManager with JobDao, on top *)
(* of the socket of ClientSocket: SendMessageInteractor saves a message    *)
(* and enqueues a PushTextSendJob, one processing loop runs the persisted  *)
(* jobs while the socket is connected, a failed job is rescheduled, and a  *)
(* restart finds the rows and nothing else.  An action is what runs        *)
(* between two awaits; the database answers calls in the order they were   *)
(* made, so a row that was inserted is seen by a later read.               *)
(***************************************************************************)
EXTENDS ClientSocket

CONSTANTS
  Jobs,         \* messages to send, each with its job
  Orphans,      \* jobs of a key without a factory (PollVoteJob)
  MaxAttempts,  \* Job.maxAttempts
  MaxErrors,    \* bound: database or network calls that throw
  MaxRestarts   \* bound: restarts of the process

\* A row of the Jobs table.
Row == [running : BOOLEAN, due : BOOLEAN, tries : Nat]
NewRow == [running |-> FALSE, due |-> TRUE, tries |-> 0]

ASSUME JobsAssumption ==
  /\ Orphans \subseteq Jobs
  /\ None \notin Jobs /\ None \notin Row
  /\ MaxAttempts \in Nat \ {0} /\ MaxErrors \in Nat /\ MaxRestarts \in Nat

VARIABLES
  local,     \* status of the message in the local database
  adder,     \* SendMessageInteractor: where its call stands
  rows,      \* the Jobs table
  loop,      \* _processPendingJobs: the await it stands at
  handed,    \* how often the message was handed to a channel
  broken,    \* the loop was left by an exception since the process started
  errors, restarts

jobVars == <<local, adder, rows, loop, handed, broken, errors, restarts>>
vars == <<sockVars, jobVars>>

\* _isProcessing is FALSE.
Off == [pc |-> "off", job |-> None, todo |-> {}, did |-> FALSE]
Reading == [pc |-> "read", job |-> None, todo |-> {}, did |-> FALSE]

Init ==
  /\ SocketInit
  /\ local = [j \in Jobs |-> "new"]
  /\ adder = [j \in Jobs |-> "idle"]
  /\ rows = [j \in Jobs |-> None]
  /\ loop = Off
  /\ handed = [j \in Jobs |-> 0]
  /\ broken = FALSE
  /\ errors = 0 /\ restarts = 0

Pending == {j \in Jobs : IF rows[j] = None THEN FALSE ELSE ~rows[j].running}

\* A row that is no longer there was read before it went; it may have been due.
Due(row) == IF row = None THEN TRUE ELSE row.due

-----------------------------------------------------------------------------
\* _processPendingJobs as it is called: a running loop makes it return, a
\* socket that is not connected ends it at once.
Process ==
  loop' = IF loop.pc = "off" /\ status = "connected" THEN Reading ELSE loop

\* Faulty variant: the job it stops at stays on the list.
AdvanceKeepsJob(todo, did) ==
  LET due == {j \in todo : Due(rows'[j])} IN
  IF status # "connected" THEN loop' = Off
  ELSE IF due = {} THEN loop' = IF did THEN Reading ELSE Off
  ELSE \E j \in due :
         loop' = [pc |-> IF j \in Orphans THEN "orphan" ELSE "mark",
                  job |-> j, todo |-> todo, did |-> TRUE]

\* The loop over the jobs it has read goes on without an await: it ends when
\* the socket is down, skips jobs that are not due, and stops at the next call
\* to the database.  A list that ran out is read again if a job was processed.
Advance(todo, did) ==
  LET due == {j \in todo : Due(rows'[j])} IN
  IF status # "connected" THEN loop' = Off
  ELSE IF due = {} THEN loop' = IF did THEN Reading ELSE Off
  ELSE \E j \in due :
         loop' = [pc |-> IF j \in Orphans THEN "orphan" ELSE "mark",
                  job |-> j, todo |-> todo \ {j}, did |-> TRUE]

-----------------------------------------------------------------------------
\* SendMessageInteractor saves the message as pending ...
SaveMessage(j) ==
  /\ user # None
  /\ adder[j] = "idle"
  /\ local' = [local EXCEPT ![j] = "pending"]
  /\ adder' = [adder EXCEPT ![j] = "saved"]
  /\ UNCHANGED <<sockVars, rows, loop, handed, broken, errors, restarts>>

\* ... add() inserts the job ...
InsertJob(j) ==
  /\ adder[j] = "saved"
  /\ rows' = [rows EXCEPT ![j] = NewRow]
  /\ adder' = [adder EXCEPT ![j] = "inserted"]
  /\ UNCHANGED <<sockVars, local, loop, handed, broken, errors, restarts>>

\* Faulty variant: add() leaves it at the insert.
AddWithoutWake(j) ==
  /\ adder[j] = "inserted"
  /\ adder' = [adder EXCEPT ![j] = "done"]
  /\ UNCHANGED <<sockVars, local, loop, rows, handed, broken, errors, restarts>>

\* ... and calls _processPendingJobs.
AddWakes(j) ==
  /\ adder[j] = "inserted"
  /\ adder' = [adder EXCEPT ![j] = "done"]
  /\ Process
  /\ UNCHANGED <<sockVars, local, rows, handed, broken, errors, restarts>>

\* The job manager's listener hears that the socket is connected.
StatusWakes ==
  /\ wake
  /\ wake' = FALSE
  /\ Process
  /\ UNCHANGED <<net, probe, online, user, token, stored, status, attempt, channel,
                 peer, timer, loggingOut>>
  /\ UNCHANGED <<local, adder, rows, handed, broken, errors, restarts>>

-----------------------------------------------------------------------------
\* getPendingJobs returns.
Read ==
  /\ loop.pc = "read"
  /\ UNCHANGED <<sockVars, local, adder, rows, handed, broken, errors, restarts>>
  /\ Advance(Pending, FALSE)

\* markJobRunning returns: the job is built from its row and run.
Mark ==
  /\ loop.pc = "mark"
  /\ loop' = [loop EXCEPT !.pc = "run"]
  /\ rows' = [j \in Jobs |-> IF j = loop.job /\ rows[j] # None
                               THEN [rows[j] EXCEPT !.running = TRUE] ELSE rows[j]]
  /\ UNCHANGED <<sockVars, local, adder, handed, broken, errors, restarts>>

\* PushTextSendJob.run: a message that is no longer pending is left alone,
\* another is handed to sendRequest, which drops it without a word when the
\* socket is not connected any more.
Run ==
  /\ loop.pc = "run"
  /\ LET j == loop.job IN
     IF local[j] # "pending"
       THEN loop' = [loop EXCEPT !.pc = "delete"] /\ UNCHANGED handed
       ELSE /\ loop' = [loop EXCEPT !.pc = "store"]
            /\ handed' = IF status = "connected" /\ channel # None
                           THEN [handed EXCEPT ![j] = @ + 1] ELSE handed
  /\ UNCHANGED <<sockVars, local, adder, rows, broken, errors, restarts>>

\* Faulty variant: the answer of the update is taken for a failure.
StoreStatusFails ==
  /\ loop.pc = "store"
  /\ loop' = [loop EXCEPT !.pc = "fail"]
  /\ UNCHANGED <<sockVars, local, adder, rows, handed, broken, errors, restarts>>

\* updateMessageStatus: an UPDATE, so a message that is gone stays gone.
StoreStatus ==
  /\ loop.pc = "store"
  /\ loop' = [loop EXCEPT !.pc = "delete"]
  /\ local' = [j \in Jobs |-> IF j = loop.job /\ local[j] # "new" THEN "sent" ELSE local[j]]
  /\ UNCHANGED <<sockVars, adder, rows, handed, broken, errors, restarts>>

\* run() throws, because getMessage or updateMessageStatus failed, or the
\* deleteJob after it does: both are within the try of _runJob.
RunThrows ==
  /\ loop.pc \in {"run", "store", "delete"}
  /\ errors < MaxErrors
  /\ errors' = errors + 1
  /\ loop' = [loop EXCEPT !.pc = "fail"]
  /\ UNCHANGED <<sockVars, local, adder, rows, handed, broken, restarts>>

\* deleteJob returns, after a job that ran or one that has no factory.
DeleteJob ==
  /\ loop.pc \in {"delete", "orphan"}
  /\ rows' = [rows EXCEPT ![loop.job] = None]
  /\ Advance(loop.todo, TRUE)
  /\ UNCHANGED <<sockVars, local, adder, handed, broken, errors, restarts>>

\* Faulty variant: one failure is enough to give the job up.
HandleFailureDeletes ==
  /\ loop.pc = "fail"
  /\ rows' = [rows EXCEPT ![loop.job] = None]
  /\ Advance(loop.todo, TRUE)
  /\ UNCHANGED <<sockVars, local, adder, handed, broken, errors, restarts>>

\* _handleJobFailure: another attempt after 2^n * 5 seconds, or the end.
HandleFailure ==
  /\ loop.pc = "fail"
  /\ rows' = [j \in Jobs |->
       IF j # loop.job \/ rows[j] = None THEN rows[j]
       ELSE IF rows[j].tries + 1 < MaxAttempts
         THEN [running |-> FALSE, due |-> FALSE, tries |-> rows[j].tries + 1]
         ELSE None]
  /\ Advance(loop.todo, TRUE)
  /\ UNCHANGED <<sockVars, local, adder, handed, broken, errors, restarts>>

\* A call of the loop itself throws: the catch around the loop ends it.
LoopThrows ==
  /\ loop.pc \in {"read", "mark", "orphan", "fail"}
  /\ errors < MaxErrors
  /\ errors' = errors + 1
  /\ loop' = Off
  /\ broken' = TRUE
  /\ UNCHANGED <<sockVars, local, adder, rows, handed, restarts>>

\* The time of a rescheduled job comes.
Elapse(j) ==
  /\ rows[j] # None
  /\ ~Due(rows[j])
  /\ rows' = [rows EXCEPT ![j].due = TRUE]
  /\ UNCHANGED <<sockVars, local, adder, loop, handed, broken, errors, restarts>>

-----------------------------------------------------------------------------
\* LogoutInteractor has cleared every table, which ends the logout.
ClearData ==
  /\ LogoutEnds
  /\ rows' = [j \in Jobs |-> None]
  /\ local' = [j \in Jobs |-> "new"]
  /\ UNCHANGED <<adder, loop, handed, broken, errors, restarts>>

\* Faulty variant: the marks of the last process stay.
RestartKeepsMarks ==
  /\ restarts < MaxRestarts
  /\ restarts' = restarts + 1
  /\ RestartSocket
  /\ adder' = [j \in Jobs |-> IF adder[j] = "idle" THEN "idle" ELSE "done"]
  /\ loop' = Off
  /\ broken' = FALSE
  /\ UNCHANGED <<local, rows, handed, errors>>

\* The process dies and starts again: calls in progress are lost, and
\* resetAllJobsStatus is the first thing the job manager asks of the database.
Restart ==
  /\ restarts < MaxRestarts
  /\ restarts' = restarts + 1
  /\ RestartSocket
  /\ adder' = [j \in Jobs |-> IF adder[j] = "idle" THEN "idle" ELSE "done"]
  /\ rows' = [j \in Jobs |-> IF rows[j] = None THEN None
                               ELSE [rows[j] EXCEPT !.running = FALSE]]
  /\ loop' = Off
  /\ broken' = FALSE
  /\ UNCHANGED <<local, handed, errors>>

LoopSteps == Read \/ Mark \/ Run \/ StoreStatus \/ DeleteJob \/ HandleFailure

Next ==
  \/ SocketNext /\ UNCHANGED jobVars
  \/ ClearData \/ Restart
  \/ StatusWakes
  \/ \E j \in Jobs : SaveMessage(j) \/ InsertJob(j) \/ AddWakes(j) \/ Elapse(j)
  \/ LoopSteps \/ RunThrows \/ LoopThrows

Spec == Init /\ [][Next]_vars

-----------------------------------------------------------------------------
LoopPcs == {"off", "read", "mark", "orphan", "run", "store", "delete", "fail"}

\* The variables of the socket and of the queue have their types; the job the
\* loop stands at is not on the list of those to come.
TypeOK ==
  /\ SocketTypeOK
  /\ local \in [Jobs -> {"new", "pending", "sent"}]
  /\ adder \in [Jobs -> {"idle", "saved", "inserted", "done"}]
  /\ rows \in [Jobs -> Row \cup {None}]
  /\ loop \in [pc : LoopPcs, job : Jobs \cup {None}, todo : SUBSET Jobs, did : BOOLEAN]
  /\ loop.pc \notin {"off", "read"} => loop.job \in Jobs \ loop.todo
  /\ handed \in [Jobs -> Nat]
  /\ broken \in BOOLEAN /\ errors \in Nat /\ restarts \in Nat

Fresh(j) == IF rows[j] = None THEN FALSE
            ELSE rows[j].due /\ ~rows[j].running /\ rows[j].tries = 0

\* No lost wakeup: a job that was never tried does not lie in the table while
\* the socket is connected and no loop runs, unless the call that starts the
\* loop is on its way.
NoLostWakeup ==
  (status = "connected" /\ loop.pc = "off" /\ ~broken)
     => \A j \in Jobs : Fresh(j) => wake \/ \E k \in Jobs : adder[k] = "inserted"

\* A row marked as running, which no later read returns, belongs to the job
\* the loop is at; only an exception in the loop itself leaves such a row
\* behind, until the process restarts.
RunningIsHeld ==
  ~broken => \A j \in Jobs :
    IF rows[j] = None THEN TRUE
    ELSE rows[j].running => /\ loop.job = j
                            /\ loop.pc \in {"run", "store", "delete", "fail"}

\* A message is handed to a channel once, and once more for every call that
\* failed and every restart: the loop never runs a job twice by itself.
NoNeedlessRepeat == \A j \in Jobs : handed[j] <= 1 + errors + restarts

\* A row of a message that is still pending goes only with a logout, after the
\* last attempt, or because its key has no factory.
DeletedIsDone ==
  [][\A j \in Jobs \ Orphans :
       (rows[j] # None /\ rows'[j] = None /\ local'[j] = "pending")
          => rows[j].tries + 1 >= MaxAttempts]_vars

\* What SendMessageInteractor calls guaranteed delivery: a message shown as
\* sent was handed to a channel.
SentWasHanded == \A j \in Jobs : local[j] = "sent" => handed[j] > 0
=============================================================================
