------------------------------ MODULE Reception ------------------------------
(***************************************************************************)
(* The rows kept for one recipient, the clients that receive them, and the *)
(* acknowledgements by which the server's routes delete them               *)
(* (transport/ws/router/router.go; push_receive_job.dart and the           *)
(* processors it calls).                                                   *)
(*                                                                         *)
(* A frame becomes a job of the client's database; the job handles the     *)
(* content and then acknowledges the id the frame came with.  The read     *)
(* pump of the connection serves one request at a time and tries one       *)
(* DELETE statement after another.  Live copies of a message have no id.   *)
(* Older rows are those of pending_envelopes, the table that is read and   *)
(* deleted from but no longer written.                                     *)
(*                                                                         *)
(* The client of the repository sends acknowledgements of the form "bare"; *)
(* the route asks for "receipt", or takes a "raw" id.  How a row comes     *)
(* about and how frames are sent is Relay's matter and is one step here.   *)
(*                                                                         *)
(* Left out is what cannot delete a row here.  The recipient's id is a     *)
(* UUID: the route refuses any other (router.go:183), but neither table    *)
(* has a row for such a user (delivery.go:100).  The DELETE of envelopes   *)
(* by number (router.go:216) compares it with ids env_..., and its adapter *)
(* reports no row; and which column of pending_envelopes an id is compared *)
(* with is decided by its form.                                            *)
(***************************************************************************)
EXTENDS Naturals, Sequences, SequencesExt

CONSTANTS
  Clients,    \* devices of the recipient
  Rows,       \* rows of envelopes and of pending_envelopes
  Older,      \* the rows of pending_envelopes
  Forms,      \* forms of acknowledgement the clients use
  None,
  MaxLost,    \* bound: lost connections and restarts of clients
  MaxErrors   \* bound: errors of a database call

\* What the constants must satisfy.
Parameters ==
  /\ Older \subseteq Rows /\ None \notin Rows /\ IsFiniteSet(Rows)
  /\ Forms \subseteq {"bare", "receipt", "raw"}
  /\ MaxLost \in Nat /\ MaxErrors \in Nat

VARIABLES
  table,    \* the row of each message: none yet, waiting or gone
  link,     \* the client has a connection
  down,     \* frames on the way to a client
  jobs,     \* the client's PushReceiveJobs, in the order of the queue
  worker,   \* where the first of them stands
  handled,  \* what the client's data handler has handled
  up,       \* acknowledgements on the way to the server
  serving,  \* the request of a connection's read pump, and the next statement
  told,     \* history: how often a request for the row was answered 200
  refused,  \* history: a request that names a row was answered 400
  lost,
  errors

serverVars == <<table, serving, told, refused>>
clientVars == <<link, down, jobs, worker, handled, up>>
vars == <<serverVars, clientVars, lost, errors>>

Idle == [at |-> "read", id |-> None]

Init ==
  /\ table = [r \in Rows |-> IF r \in Older THEN "waiting" ELSE "none"]
  /\ link = [c \in Clients |-> FALSE]
  /\ down = [c \in Clients |-> <<>>]
  /\ jobs = [c \in Clients |-> <<>>]
  /\ worker = [c \in Clients |-> "idle"]
  /\ handled = [c \in Clients |-> {}]
  /\ up = [c \in Clients |-> <<>>]
  /\ serving = [c \in Clients |-> Idle]
  /\ told = [r \in Rows |-> 0]
  /\ refused = FALSE
  /\ lost = 0 /\ errors = 0

-----------------------------------------------------------------------------
(* Rows and frames *)

Frame(r, id) == [row |-> r, id |-> id]

\* A message is kept, and a copy without an id goes to every open connection
\* if presence knows of one.
Post(r) ==
  /\ table[r] = "none"
  /\ table' = [table EXCEPT ![r] = "waiting"]
  /\ \/ down' = [c \in Clients |-> IF link[c] THEN Append(down[c], Frame(r, None)) ELSE down[c]]
     \/ UNCHANGED down
  /\ UNCHANGED <<serving, told, refused, link, jobs, worker, handled, up, lost, errors>>

\* What DeliverAll sends: the rows of envelopes, then those of
\* pending_envelopes, each with its id.
Replayed ==
  LET waiting == {r \in Rows : table[r] = "waiting"}
      frames(S) == [i \in 1..Len(SetToSeq(S)) |-> Frame(SetToSeq(S)[i], SetToSeq(S)[i])]
  IN frames(waiting \ Older) \o frames(waiting \cap Older)

Connect(c) ==
  /\ ~link[c]
  /\ link' = [link EXCEPT ![c] = TRUE]
  /\ down' = [down EXCEPT ![c] = Replayed]
  /\ UNCHANGED <<serverVars, jobs, worker, handled, up, lost, errors>>

\* The connection is lost with what was on the way.
Cut(c) ==
  /\ link' = [link EXCEPT ![c] = FALSE]
  /\ down' = [down EXCEPT ![c] = <<>>]
  /\ up' = [up EXCEPT ![c] = <<>>]

Drop(c) ==
  /\ link[c] /\ lost < MaxLost
  /\ Cut(c)
  /\ lost' = lost + 1
  /\ UNCHANGED <<serverVars, jobs, worker, handled, errors>>

\* The app ends and starts: a job that was running is pending again.
Restart(c) ==
  /\ worker[c] # "idle" /\ lost < MaxLost
  /\ Cut(c)
  /\ worker' = [worker EXCEPT ![c] = "idle"]
  /\ lost' = lost + 1
  /\ UNCHANGED <<serverVars, jobs, handled, errors>>

-----------------------------------------------------------------------------
(* The client *)

\* JobManager hears the frame, and addRaw inserts a job.
AddJob(c) ==
  /\ down[c] # <<>>
  /\ jobs' = [jobs EXCEPT ![c] = Append(@, Head(down[c]))]
  /\ down' = [down EXCEPT ![c] = Tail(@)]
  /\ UNCHANGED <<serverVars, link, worker, handled, up, lost, errors>>

\* DataMessageHandler: the first processor that can stores the content, and
\* what no processor can take counts as handled.
HandleContent(c) ==
  /\ worker[c] = "idle" /\ jobs[c] # <<>> /\ link[c]
  /\ handled' = [handled EXCEPT ![c] = @ \cup {Head(jobs[c]).row}]
  /\ worker' = [worker EXCEPT ![c] = "handled"]
  /\ UNCHANGED <<serverVars, link, down, jobs, up, lost, errors>>

\* Faulty variant: acknowledges before it knows.
HandlingFailsUnseen(c) ==
  /\ worker[c] = "idle" /\ jobs[c] # <<>> /\ link[c] /\ errors < MaxErrors
  /\ worker' = [worker EXCEPT ![c] = "handled"]
  /\ errors' = errors + 1
  /\ UNCHANGED <<serverVars, link, down, jobs, handled, up, lost>>

\* An error is logged, and the job counts as done.
HandlingFails(c) ==
  /\ worker[c] = "idle" /\ jobs[c] # <<>> /\ link[c] /\ errors < MaxErrors
  /\ worker' = [worker EXCEPT ![c] = "done"]
  /\ errors' = errors + 1
  /\ UNCHANGED <<serverVars, link, down, jobs, handled, up, lost>>

\* acknowledgeReceipt: sendRequest does nothing without a connection.
AcknowledgeReceipt(c, form) ==
  /\ worker[c] = "handled"
  /\ worker' = [worker EXCEPT ![c] = "done"]
  /\ up' = IF link[c]
           THEN [up EXCEPT ![c] = Append(@, [form |-> form, id |-> Head(jobs[c]).id])]
           ELSE up
  /\ UNCHANGED <<serverVars, link, down, jobs, handled, lost, errors>>

\* The job manager deletes the job.
DeleteJob(c) ==
  /\ worker[c] = "done"
  /\ jobs' = [jobs EXCEPT ![c] = Tail(@)]
  /\ worker' = [worker EXCEPT ![c] = "idle"]
  /\ UNCHANGED <<serverVars, link, down, handled, up, lost, errors>>

-----------------------------------------------------------------------------
(* The server *)

\* Requests the route refuses of a user whose id is a UUID: an envelope whose
\* status is not "receipt", and an empty body.
Refuses(request) ==
  \/ request.form = "bare"
  \/ request.form = "raw" /\ request.id = None

\* The read pump takes a request; handleMessage finds no destination in its
\* path, the router matches the route, and deleteMessage reads the body.
DeleteMessage(c) ==
  LET request == Head(up[c])
  IN
  /\ serving[c].at = "read" /\ up[c] # <<>>
  /\ up' = [up EXCEPT ![c] = Tail(@)]
  /\ IF Refuses(request)
     THEN /\ refused' = (refused \/ request.id # None)
          /\ UNCHANGED serving
     ELSE /\ serving' = [serving EXCEPT ![c] = [at |-> "envelopes", id |-> request.id]]
          /\ UNCHANGED refused
  /\ UNCHANGED <<table, told, link, down, jobs, worker, handled, lost, errors>>

\* The row of the id in the table of this statement.
Named(c) ==
  {r \in Rows : r = serving[c].id /\ table[r] = "waiting"
                /\ (r \in Older) = (serving[c].at = "pending_envelopes")}

\* A statement deletes the row, which is answered 200.
DeleteRow(c) ==
  /\ serving[c].at # "read" /\ Named(c) # {}
  /\ table' = [r \in Rows |-> IF r \in Named(c) THEN "gone" ELSE table[r]]
  /\ told' = [r \in Rows |-> IF r \in Named(c) THEN told[r] + 1 ELSE told[r]]
  /\ serving' = [serving EXCEPT ![c] = Idle]
  /\ UNCHANGED <<refused, clientVars, lost, errors>>

\* A statement deletes nothing, or fails: the other table is tried, and after
\* it the answer is 404 or 500.
DeleteNothing(c) ==
  /\ serving[c].at # "read"
  /\ IF Named(c) = {} THEN UNCHANGED errors
     ELSE errors < MaxErrors /\ errors' = errors + 1
  /\ serving' = [serving EXCEPT ![c] =
                   IF @.at = "envelopes" THEN [@ EXCEPT !.at = "pending_envelopes"] ELSE Idle]
  /\ UNCHANGED <<table, told, refused, clientVars, lost>>

-----------------------------------------------------------------------------
ClientSteps(c) ==
  \/ AddJob(c) \/ HandleContent(c) \/ HandlingFails(c) \/ DeleteJob(c)
  \/ \E form \in Forms : AcknowledgeReceipt(c, form)

ServerSteps(c) == DeleteMessage(c) \/ DeleteRow(c) \/ DeleteNothing(c)

Next ==
  \/ \E r \in Rows : Post(r)
  \/ \E c \in Clients :
       Connect(c) \/ Drop(c) \/ Restart(c) \/ ClientSteps(c) \/ ServerSteps(c)

Spec == Init /\ [][Next]_vars

-----------------------------------------------------------------------------
FrameType == [row : Rows, id : Rows \cup {None}]

\* The variables have their types.
TypeOK ==
  /\ table \in [Rows -> {"none", "waiting", "gone"}]
  /\ link \in [Clients -> BOOLEAN]
  /\ down \in [Clients -> Seq(FrameType)]
  /\ jobs \in [Clients -> Seq(FrameType)]
  /\ worker \in [Clients -> {"idle", "handled", "done"}]
  /\ handled \in [Clients -> SUBSET Rows]
  /\ up \in [Clients -> Seq([form : Forms, id : Rows \cup {None}])]
  /\ serving \in [Clients -> [at : {"read", "envelopes", "pending_envelopes"},
                              id : Rows \cup {None}]]
  /\ told \in [Rows -> Nat]
  /\ refused \in BOOLEAN
  /\ lost \in 0..MaxLost /\ errors \in 0..MaxErrors

\* A row leaves the table only after a client has handled its content: not
\* by an acknowledgement of a job that failed, was lost with a restart, or
\* belongs to another row.
GoneWasHandled ==
  \A r \in Rows : table[r] = "gone" => \E c \in Clients : r \in handled[c]

\* Of all the requests for a row, from several clients or repeated by one,
\* exactly the one that deleted it is told so.
ToldMatchesTable ==
  \A r \in Rows : told[r] = IF table[r] = "gone" THEN 1 ELSE 0

\* A row is deleted once, by a request that comes after its content was handled.
DeletedOnceHandled == GoneWasHandled /\ ToldMatchesTable

\* What the route does with an acknowledgement is to look for the row:
\* "The client sends a sigmapb.Envelope with type RECEIPT and the requestId
\* in Content" (router.go:192), and none is refused for its form.
NoAckIsRefused == ~refused
=============================================================================
