---------------------------- MODULE UserRecords ----------------------------
(***************************************************************************)
(* Profiles, accounts and reactions: requests that read a row and write it *)
(* later without a transaction (service/profile_service.go,                *)
(* account_service.go, message_reaction_service.go and the controllers     *)
(* that call them).                                                        *)
(*                                                                         *)
(* Save writes every column, and inserts the row if there is none with its *)
(* key.  Usernames are unique in their table; nothing makes the reaction   *)
(* of a user to a message unique.  Every statement may fail.  The table    *)
(* message_reactions has to be there: AutoMigrate does not make it.        *)
(***************************************************************************)
EXTENDS Naturals, FiniteSets

CONSTANTS
  Requests,   \* calls of the HTTP API
  Users,      \* users who hold a token
  Stored,     \* those who have a row in users and one in accounts
  Messages,
  Values,     \* names, usernames, FCM tokens and reactions
  None

\* A row of message_reactions.
Reactions == [id : Nat, user : Users, on : Messages, value : Values]

\* What the constants must satisfy.
Parameters ==
  /\ Stored \subseteq Users
  /\ None \notin Values \cup Users \cup Messages /\ None \notin Reactions

VARIABLES
  profiles,   \* table users: name and username of those who have a row
  accounts,   \* table accounts: the FCM token of those who have a row
  nameless,   \* accounts has the row whose id is ''
  reactions,  \* table message_reactions
  lastId,     \* its sequence of ids, which are never given out again
  request,    \* the job of a request, its step and what it found
  intended,   \* history: what the answered requests would have made alone
  deleted,    \* history: users whose account was deleted
  raced       \* history: rows written while another request had read them

tables == <<profiles, accounts, nameless, reactions, lastId>>
vars == <<tables, request, intended, deleted, raced>>

Row(name, username) == [name |-> name, username |-> username]

\* A name and a username of a profile, None where the body has none.
Fields == [name : Values \cup {None}, username : Values \cup {None}]

\* What a request is about.
Jobs ==
  [kind : {"profile"}, user : Users, on : {None}, value : Fields]
    \cup [kind : {"token"}, user : Users, on : {None}, value : Values]
    \cup [kind : {"delete", "create"}, user : Users, on : {None}, value : {None}]
    \cup [kind : {"react"}, user : Users, on : Messages, value : Values]
    \cup [kind : {"unreact"}, user : Users, on : Messages, value : {None}]

\* The row a job reads and writes.
RowOf(job) ==
  CASE job.kind = "profile"             -> <<"users", job.user, None>>
    [] job.kind \in {"token", "delete"} -> <<"accounts", job.user, None>>
    [] job.kind = "create"              -> <<"accounts", None, None>>
    [] OTHER                            -> <<"message_reactions", job.user, job.on>>

RowIds ==
  ({"users"} \X Users \X {None}) \cup ({"accounts"} \X (Users \cup {None}) \X {None})
    \cup ({"message_reactions"} \X Users \X Messages)

\* A username of his own for every stored user; no request asks for it.
Init ==
  /\ profiles = [u \in Stored |-> Row(None, u)]
  /\ accounts = [u \in Stored |-> None]
  /\ nameless = FALSE
  /\ reactions = {} /\ lastId = 0
  /\ request = [r \in Requests |-> [at |-> "idle"]]
  /\ intended = [users |-> profiles, reactions |-> [p \in Users \X Messages |-> None]]
  /\ deleted = {} /\ raced = {}

-----------------------------------------------------------------------------
\* A request has passed the token check and its body is well formed.
Begin(r, step, job) ==
  /\ request[r].at = "idle"
  /\ request' = [request EXCEPT ![r] = [at |-> step, job |-> job, found |-> None]]
  /\ UNCHANGED <<tables, intended, deleted, raced>>

Job(kind, u, m, value) == [kind |-> kind, user |-> u, on |-> m, value |-> value]

UpdateProfile(r, u, value) == Begin(r, "find", Job("profile", u, None, value))
UpdateFCMToken(r, u, token) == Begin(r, "find", Job("token", u, None, token))
Delete(r, u) == Begin(r, "find", Job("delete", u, None, None))
Create(r, u) == Begin(r, "write", Job("create", u, None, None))
Add(r, u, m, value) == Begin(r, "find", Job("react", u, m, value))
Remove(r, u, m) == Begin(r, "write", Job("unreact", u, m, None))

Goes(r, kind, step) == request[r].at = step /\ request[r].job.kind = kind

Answer(r) == request' = [request EXCEPT ![r] = [at |-> "done"]]

Found(r, step, row) ==
  request' = [request EXCEPT ![r].at = step, ![r].found = row]

\* Others who have read the row and will write it.
Others(r) ==
  {o \in Requests \ {r} : /\ request[o].at \in {"check", "write"}
                          /\ RowOf(request[o].job) = RowOf(request[r].job)
                          /\ request[o].job.kind # "unreact"}

\* The row is written under the eyes of others, or by one who knows its state.
Race(r) ==
  raced' = IF Others(r) # {} THEN raced \cup {RowOf(request[r].job)} ELSE raced

\* The same for a statement that removes the row whatever it holds.
RaceOrClear(r) ==
  raced' = IF Others(r) # {} THEN raced \cup {RowOf(request[r].job)}
                             ELSE raced \ {RowOf(request[r].job)}

\* A statement fails, and the request is answered 500.
Fail(r) ==
  /\ request[r].at \in {"find", "write"}
  /\ Answer(r)
  /\ UNCHANGED <<tables, intended, deleted, raced>>

-----------------------------------------------------------------------------
(* UpdateProfile *)

FindProfile(r) ==
  /\ Goes(r, "profile", "find")
  /\ IF request[r].job.user \in DOMAIN profiles
     THEN Found(r, IF request[r].job.value.username = None THEN "write" ELSE "check",
                profiles[request[r].job.user])
     ELSE Answer(r)
  /\ UNCHANGED <<tables, intended, deleted, raced>>

\* The username is somebody else's; an error of the query counts as no.
CheckUsername(r) ==
  /\ Goes(r, "profile", "check")
  /\ \/ /\ \A u \in DOMAIN profiles \ {request[r].job.user} :
             profiles[u].username # request[r].job.value.username
        /\ request' = [request EXCEPT ![r].at = "write"]
     \/ /\ \E u \in DOMAIN profiles \ {request[r].job.user} :
             profiles[u].username = request[r].job.value.username
        /\ Answer(r)
     \/ request' = [request EXCEPT ![r].at = "write"]
  /\ UNCHANGED <<tables, intended, deleted, raced>>

\* The asked fields over those of a row.
Changed(row, value) ==
  [f \in {"name", "username"} |-> IF value[f] # None THEN value[f] ELSE row[f]]

\* The row is saved over the one that was found.
Saved(r) ==
  LET job == request[r].job
  IN
  /\ profiles' = [profiles EXCEPT ![job.user] = Changed(request[r].found, job.value)]
  /\ intended' = [intended EXCEPT !.users[job.user] =
       [f \in {"name", "username"} |-> IF job.value[f] # None THEN job.value[f] ELSE @[f]]]
  /\ Race(r)

\* repo.Update saves the whole row; the unique index may refuse it.
SaveProfile(r) ==
  LET job == request[r].job
      username == Changed(request[r].found, job.value).username
  IN
  /\ Goes(r, "profile", "write")
  /\ IF \E u \in DOMAIN profiles \ {job.user} : profiles[u].username = username
     THEN UNCHANGED <<profiles, intended, raced>>
     ELSE Saved(r)
  /\ Answer(r)
  /\ UNCHANGED <<accounts, nameless, reactions, lastId, deleted>>

-----------------------------------------------------------------------------
(* Accounts *)

\* CreateAccount sets no id, so that only one of its rows fits in the table.
CreateAccount(r) ==
  /\ Goes(r, "create", "write")
  /\ nameless' = TRUE
  /\ Answer(r)
  /\ UNCHANGED <<profiles, accounts, reactions, lastId, intended, deleted, raced>>

\* UpdateFCMToken and DeleteAccount look for the row first.
FindAccount(r) ==
  /\ Goes(r, "token", "find") \/ Goes(r, "delete", "find")
  /\ IF request[r].job.user \in DOMAIN accounts THEN Found(r, "write", None) ELSE Answer(r)
  /\ UNCHANGED <<tables, intended, deleted, raced>>

SaveToken(r) ==
  LET job == request[r].job
  IN
  /\ Goes(r, "token", "write")
  /\ accounts' = [u \in DOMAIN accounts \cup {job.user} |->
                    IF u = job.user THEN job.value ELSE accounts[u]]
  /\ Race(r)
  /\ Answer(r)
  /\ UNCHANGED <<profiles, nameless, reactions, lastId, intended, deleted>>

DeleteAccount(r) ==
  LET job == request[r].job
  IN
  /\ Goes(r, "delete", "write")
  /\ accounts' = [u \in DOMAIN accounts \ {job.user} |-> accounts[u]]
  /\ deleted' = deleted \cup {job.user}
  /\ RaceOrClear(r)
  /\ Answer(r)
  /\ UNCHANGED <<profiles, nameless, reactions, lastId, intended>>

-----------------------------------------------------------------------------
(* Reactions *)

\* The rows of a user's reaction to a message.
ReactionsOf(job) == {x \in reactions : x.user = job.user /\ x.on = job.on}

\* Faulty variant: adds a row whether it found one or not.
FindNoReaction(r) ==
  /\ Goes(r, "react", "find")
  /\ Found(r, "write", None)
  /\ UNCHANGED <<tables, intended, deleted, raced>>

\* FindByMessageIDAndReactorID returns the first by id.
FindReaction(r) ==
  LET mine == ReactionsOf(request[r].job)
  IN
  /\ Goes(r, "react", "find")
  /\ Found(r, "write", IF mine = {} THEN None
                       ELSE CHOOSE x \in mine : \A y \in mine : x.id <= y.id)
  /\ UNCHANGED <<tables, intended, deleted, raced>>

\* The row that was found is saved, a new one inserted.
SaveReaction(r) ==
  LET job == request[r].job
      id == IF request[r].found = None THEN lastId + 1 ELSE request[r].found.id
  IN
  /\ Goes(r, "react", "write")
  /\ reactions' = {x \in reactions : x.id # id} \cup
                  {[id |-> id, user |-> job.user, on |-> job.on, value |-> job.value]}
  /\ lastId' = IF request[r].found = None THEN id ELSE lastId
  /\ intended' = [intended EXCEPT !.reactions[<<job.user, job.on>>] = job.value]
  /\ Race(r)
  /\ Answer(r)
  /\ UNCHANGED <<profiles, accounts, nameless, deleted>>

\* RemoveReaction deletes all rows of the user and the message; none is 404.
RemoveReaction(r) ==
  LET job == request[r].job
  IN
  /\ Goes(r, "unreact", "write")
  /\ reactions' = reactions \ ReactionsOf(job)
  /\ intended' = [intended EXCEPT !.reactions[<<job.user, job.on>>] = None]
  /\ RaceOrClear(r)
  /\ Answer(r)
  /\ UNCHANGED <<profiles, accounts, nameless, lastId, deleted>>

-----------------------------------------------------------------------------
Steps(r) ==
  \/ Fail(r)
  \/ FindProfile(r) \/ CheckUsername(r) \/ SaveProfile(r)
  \/ CreateAccount(r) \/ FindAccount(r) \/ SaveToken(r) \/ DeleteAccount(r)
  \/ FindReaction(r) \/ SaveReaction(r) \/ RemoveReaction(r)

Next ==
  \E r \in Requests :
    \/ Steps(r)
    \/ \E u \in Users :
         \/ \E value \in Fields : UpdateProfile(r, u, value)
         \/ \E token \in Values : UpdateFCMToken(r, u, token)
         \/ Delete(r, u) \/ Create(r, u)
         \/ \E m \in Messages, value \in Values : Add(r, u, m, value)
         \/ \E m \in Messages : Remove(r, u, m)

Spec == Init /\ [][Next]_vars

-----------------------------------------------------------------------------
\* The variables have their types, and usernames and ids are unique.
TypeOK ==
  /\ \A u \in DOMAIN profiles :
       /\ u \in Stored
       /\ profiles[u] \in [name : Values \cup {None}, username : Values \cup Stored]
  /\ \A u \in DOMAIN accounts : u \in Stored /\ accounts[u] \in Values \cup {None}
  /\ nameless \in BOOLEAN
  /\ reactions \subseteq Reactions /\ \A x \in reactions : x.id \in 1 .. lastId
  /\ \A r \in Requests :
       /\ request[r].at \in {"idle", "find", "check", "write", "done"}
       /\ request[r].at \in {"find", "check", "write"} => request[r].job \in Jobs
  /\ \A u, v \in DOMAIN profiles : profiles[u].username = profiles[v].username => u = v
  /\ \A x, y \in reactions : x.id = y.id => x = y
  /\ deleted \subseteq Users /\ raced \subseteq RowIds

\* What a user set in his profile is lost only to an update that had read the
\* row before: Save writes the columns it was not asked for as it found them.
ProfileAsAsked ==
  \A u \in Stored : <<"users", u, None>> \notin raced => profiles[u] = intended.users[u]

\* A user has one reaction to a message, the one he asked for last, or none
\* after its removal, unless a request wrote it between the search and the
\* write of another.  A removal that nobody disturbs puts it right again.
ReactionAsAsked ==
  \A u \in Users, m \in Messages :
    <<"message_reactions", u, m>> \notin raced =>
      LET mine == {x \in reactions : x.user = u /\ x.on = m}
      IN /\ Cardinality(mine) <= 1
         /\ {x.value : x \in mine} = {intended.reactions[<<u, m>>]} \ {None}

\* A deleted account exists again only if its deletion fell between the
\* search and the Save of a request that stores an FCM token.
DeletedStaysGone ==
  \A u \in deleted \cap DOMAIN accounts : <<"accounts", u, None>> \in raced

\* The requests of users have the effect they would have one after another,
\* but for rows that were written while another request had read them.
LostOnlyToOverlap == ProfileAsAsked /\ ReactionAsAsked /\ DeletedStaysGone
=============================================================================
