-------------------------------- MODULE Chats --------------------------------
(***************************************************************************)
(* One group or channel: the transactions of                               *)
(* repository/storage/chat_manager.go that change its members, and the     *)
(* routing of a message to it (business/message/router.go over             *)
(* repository/storage/recipient_reader.go).                                *)
(*                                                                         *)
(* A transaction is PostgreSQL's READ COMMITTED: each statement sees what  *)
(* was committed before it and the writes of its own transaction.  An      *)
(* INSERT or a DELETE waits for the transaction that wrote the same key,   *)
(* an UPDATE for the one that wrote the same row; it then writes the value *)
(* it computed before it waited.  Any statement may fail, also as the      *)
(* victim of a deadlock.                                                   *)
(*                                                                         *)
(* The tables are those of estrutura_banco.sql, where the column           *)
(* participant_count is one of recipients.  The entities call that table   *)
(* accounts, and AutoMigrate makes accounts without the column: the module *)
(* takes a database whose accounts have it.                                *)
(***************************************************************************)
EXTENDS Naturals, FiniteSets

CONSTANTS
  Calls,         \* calls of ChatManager
  Sends,         \* calls of Router.Resolve
  Users,         \* accounts that a call may add or remove
  BotIds,        \* those that are bots
  Owner,
  Chat,
  ChatType,      \* accounts.type of the chat
  Verification,  \* verification_type of the owner
  Rest,          \* further members, whom nobody touches
  None

\* EffectiveMemberLimit.
EffectiveMemberLimit(type, verification) ==
  CASE type = "group" ->
         IF verification \in {"verified", "business", "premium"} THEN 1000 ELSE 250
    [] type = "channel" ->
         IF verification = "verified" THEN 5000
         ELSE IF verification \in {"business", "premium"} THEN 3000 ELSE 1000
    [] OTHER -> 0

\* What the constants must satisfy.  The chat is within its limit at first.
Parameters ==
  /\ IsFiniteSet(Users) /\ BotIds \subseteq Users /\ Owner \in Users \ BotIds
  /\ Chat \notin Users /\ None \notin Users \cup Calls \cup {Chat}
  /\ ChatType \in {"group", "channel"}
  /\ Rest \in Nat /\ Rest < EffectiveMemberLimit(ChatType, Verification)

VARIABLES
  exists,   \* table accounts holds the chat
  members,  \* table memberships: is_muted by member
  count,    \* participant_count of the chat
  lock,     \* the call that has written the row of the chat
  call,     \* the calls: kind, step, and what each has read and written
  reader,   \* what stands behind the port RecipientStore
  send,     \* the plans: sender, destination, step and targets
  crowded,  \* history: members were added while another call had counted
  stale     \* history: the last count was taken before another commit

tables == <<exists, members, count, lock>>
vars == <<tables, call, reader, send, crowded, stale>>

IdleCall == [at |-> "idle", kind |-> "none", users |-> {}, left |-> {}, absent |-> {},
             own |-> {}, gone |-> {}, counted |-> 0, disturbed |-> FALSE, lost |-> {}]

IdleSend == [at |-> "idle", from |-> Owner, to |-> None, left |-> {}, targets |-> {},
             steady |-> {}, quiet |-> {}]

\* The chat as Create leaves it, or with a muted owner: no code sets is_muted,
\* the flag is what the table holds.
Init ==
  /\ exists = TRUE
  /\ \E muted \in BOOLEAN : members = [u \in {Owner} |-> muted]
  /\ count = Rest + 1
  /\ lock = None
  /\ call = [c \in Calls |-> IdleCall]
  /\ reader \in {"contract", "RecipientReader"}
  /\ send = [s \in Sends |-> IdleSend]
  /\ crowded = FALSE /\ stale = FALSE

-----------------------------------------------------------------------------
(* Transactions *)

\* What a statement of a call sees of the table memberships.
Seen(c) == (DOMAIN members \ call[c].gone) \cup call[c].own

Goes(c, step) == call[c].at = step

To(c, step) == call' = [call EXCEPT ![c].at = step]

\* A call that is over.
Over(at) == [IdleCall EXCEPT !.at = at]

\* AddMembers: the list without repetitions, the chat and its owner.
AddMembers(c, users) ==
  /\ Goes(c, "idle")
  /\ call' = [call EXCEPT ![c] =
       IF ~exists THEN Over("failed")
       ELSE [IdleCall EXCEPT !.at = "count", !.kind = "add", !.users = users, !.left = users]]
  /\ UNCHANGED <<tables, reader, send, crowded, stale>>

CountMembers(c) ==
  /\ Goes(c, "count")
  /\ call' = [call EXCEPT ![c].counted = Rest + Cardinality(Seen(c)), ![c].at = "look"]
  /\ UNCHANGED <<tables, reader, send, crowded, stale>>

LookFor(c) ==
  \E u \in call[c].left :
    /\ Goes(c, "look")
    /\ call' = [call EXCEPT ![c].left = @ \ {u},
                            ![c].absent = IF u \in Seen(c) THEN @ ELSE @ \cup {u}]
    /\ UNCHANGED <<tables, reader, send, crowded, stale>>

Exceeds(c) ==
  LET limit == EffectiveMemberLimit(ChatType, Verification)
  IN limit > 0 /\ call[c].counted + Cardinality(call[c].absent) > limit

CheckLimit(c) ==
  /\ Goes(c, "look") /\ call[c].left = {}
  /\ IF Exceeds(c)
     THEN call' = [call EXCEPT ![c] = Over("failed")]
     ELSE call' = [call EXCEPT ![c].at = "write", ![c].left = call[c].absent]
  /\ UNCHANGED <<tables, reader, send, crowded, stale>>

\* Another transaction has written the key of a membership.
Written(c, u) == \E o \in Calls \ {c} : u \in call[o].own \cup call[o].gone

\* The row is refused if the member exists by now, or the chat no more.
Insert(c) ==
  \E u \in call[c].left :
    /\ Goes(c, "write") /\ ~Written(c, u)
    /\ IF u \notin DOMAIN members /\ exists
       THEN call' = [call EXCEPT ![c].left = @ \ {u}, ![c].own = @ \cup {u}]
       ELSE call' = [call EXCEPT ![c] = Over("failed")]
    /\ UNCHANGED <<tables, reader, send, crowded, stale>>

\* RemoveMember.
RemoveMember(c, u) ==
  /\ Goes(c, "idle")
  /\ call' = [call EXCEPT ![c] = [IdleCall EXCEPT
       !.kind = "remove", !.users = {u}, !.at = "delete"]]
  /\ UNCHANGED <<tables, reader, send, crowded, stale>>

\* A row that another transaction has deleted is waited for.
DeleteMember(c) ==
  /\ Goes(c, "delete")
  /\ \A o \in Calls \ {c} : call[o].gone \cap call[c].users = {}
  /\ call' = [call EXCEPT ![c].gone = call[c].users \cap DOMAIN members,
                          ![c].at = "write"]
  /\ UNCHANGED <<tables, reader, send, crowded, stale>>

\* Faulty variant: does not see what the call itself has written.
RecountCommitted(c) ==
  /\ Goes(c, "write") /\ call[c].left = {}
  /\ call' = [call EXCEPT ![c].counted = Rest + Cardinality(DOMAIN members),
                          ![c].at = "update"]
  /\ UNCHANGED <<tables, reader, send, crowded, stale>>

\* The count after the writes: a query of AddMembers, and of RemoveMember's
\* UPDATE the subquery, which sees what its statement saw at its start.
Recount(c) ==
  /\ Goes(c, "write") /\ call[c].left = {}
  /\ call' = [call EXCEPT ![c].counted = Rest + Cardinality(Seen(c)), ![c].at = "update"]
  /\ UNCHANGED <<tables, reader, send, crowded, stale>>

\* participant_count: the row of the chat stays locked to the commit.
Update(c) ==
  /\ Goes(c, "update")
  /\ IF exists THEN lock = None /\ lock' = c ELSE UNCHANGED lock
  /\ To(c, "commit")
  /\ UNCHANGED <<exists, members, count, reader, send, crowded, stale>>

\* What the plans under way learn of members who leave.
Learn(gone) ==
  [s \in Sends |-> [send[s] EXCEPT !.steady = @ \ gone, !.quiet = @ \ gone]]

Commit(c) ==
  LET me == call[c]
      counting == {o \in Calls \ {c} :
        call[o].kind = "add" /\ call[o].at \in {"look", "write", "update", "commit"}}
  IN
  /\ Goes(c, "commit")
  /\ members' = [u \in Seen(c) |-> u \in DOMAIN members /\ members[u]]
  /\ count' = IF exists THEN me.counted ELSE count
  /\ lock' = IF lock = c THEN None ELSE lock
  /\ call' = [o \in Calls |->
       IF o = c THEN Over("ok")
       ELSE [call[o] EXCEPT
         !.lost = @ \cup me.gone,
         !.disturbed =
           @ \/ (call[o].at \in {"update", "commit"} /\ me.own \cup me.gone # {})]]
  /\ send' = Learn(me.gone)
  /\ crowded' = (crowded \/ (me.own # {} /\ counting # {}))
  /\ stale' = me.disturbed
  /\ UNCHANGED <<exists, reader>>

\* A statement fails: the transaction is rolled back.
Fail(c) ==
  /\ call[c].at \in {"count", "look", "write", "delete", "update", "commit"}
  /\ call' = [call EXCEPT ![c] = Over("failed")]
  /\ lock' = IF lock = c THEN None ELSE lock
  /\ UNCHANGED <<exists, members, count, reader, send, crowded, stale>>

\* DeleteChat: the memberships go with the chat, once nobody writes them.
DeleteChat(c) ==
  /\ Goes(c, "idle") /\ lock = None
  /\ \A o \in Calls : call[o].own \cup call[o].gone = {}
  /\ exists' = FALSE
  /\ members' = [u \in {} |-> FALSE]
  /\ call' = [o \in Calls |->
       IF o = c THEN Over("ok") ELSE [call[o] EXCEPT !.lost = Users]]
  /\ send' = Learn(Users)
  /\ UNCHANGED <<count, lock, reader, crowded, stale>>

-----------------------------------------------------------------------------
(* Resolve *)

\* What strings.ToLower makes of the types that rows hold.
Lower(type) ==
  CASE type = "USER" -> "user" [] type = "GROUP" -> "group"
    [] type = "CHANNEL" -> "channel" [] type = "BOT" -> "bot" [] OTHER -> type

\* ParseRecipientType compares a type in lower case with constants in capitals;
\* what it does not recognise the reader takes for an individual.
ParseRecipientType(type) ==
  IF Lower(type) \in {"USER", "GROUP", "CHANNEL", "BOT"} THEN Lower(type) ELSE "USER"

\* accounts.type of a destination.
TypeOf(id) == IF id = Chat THEN ChatType ELSE IF id \in BotIds THEN "BOT" ELSE "individual"

\* The type that the port's FindRecipient and ListMembers tell of an id.
Type(id) ==
  IF reader = "RecipientReader" THEN ParseRecipientType(TypeOf(id))
  ELSE CASE id = Chat -> "GROUP" [] id \in BotIds -> "BOT" [] OTHER -> "USER"

Target(u, push) == [user |-> u, push |-> push]

\* What Resolve returns.
Answer(at, to, targets) == [IdleSend EXCEPT !.at = at, !.to = to, !.targets = targets]

\* FindRecipient, and the answer for an individual or a bot.
Resolve(s, from, to) ==
  /\ send[s].at = "idle"
  /\ send' = [send EXCEPT ![s] =
       IF to = Chat /\ ~exists THEN Answer("refused", None, {})
       ELSE CASE Type(to) = "BOT" -> Answer("planned", to, {Target(from, TRUE)})
         [] Type(to) = "GROUP" ->
              [at |-> "member", from |-> from, to |-> to, left |-> {}, targets |-> {},
               steady |-> DOMAIN members, quiet |-> {u \in DOMAIN members : members[u]}]
         [] to = from -> Answer("refused", None, {})
         [] OTHER -> Answer("planned", to, {Target(to, TRUE)})]
  /\ UNCHANGED <<tables, call, reader, crowded, stale>>

IsMember(s) ==
  /\ send[s].at = "member"
  /\ IF send[s].from \in DOMAIN members
     THEN send' = [send EXCEPT ![s].at = "list"]
     ELSE send' = [send EXCEPT ![s] = Answer("refused", None, {})]
  /\ UNCHANGED <<tables, call, reader, crowded, stale>>

\* GetMembers.
ListMembers(s) ==
  /\ send[s].at = "list"
  /\ send' = [send EXCEPT ![s].left = DOMAIN members, ![s].at = "muted"]
  /\ UNCHANGED <<tables, call, reader, crowded, stale>>

\* Faulty variant: a bot ends the loop over the members.
ConsiderUntilBot(s) ==
  \E u \in send[s].left :
    /\ send[s].at = "muted"
    /\ send' = [send EXCEPT
         ![s].left = IF Type(u) = "BOT" THEN {} ELSE @ \ {u},
         ![s].targets = IF u = send[s].from \/ Type(u) = "BOT" THEN @
                        ELSE @ \cup {Target(u, ~(u \in DOMAIN members /\ members[u]))}]
    /\ UNCHANGED <<tables, call, reader, crowded, stale>>

\* The muted flag of a listed member is a query of its own, which takes a
\* member who has left for unmuted; the router drops the sender and bots.
Consider(s) ==
  \E u \in send[s].left :
    /\ send[s].at = "muted"
    /\ send' = [send EXCEPT
         ![s].left = @ \ {u},
         ![s].targets = IF u = send[s].from \/ Type(u) = "BOT" THEN @
                        ELSE @ \cup {Target(u, ~(u \in DOMAIN members /\ members[u]))}]
    /\ UNCHANGED <<tables, call, reader, crowded, stale>>

\* The plan is ready when no member is left.
Planned(s) ==
  /\ send[s].at = "muted" /\ send[s].left = {}
  /\ send' = [send EXCEPT ![s] = Answer("planned", send[s].to, send[s].targets)]
  /\ UNCHANGED <<tables, call, reader, crowded, stale>>

\* A query fails, and with it the Dispatch.
ResolveFails(s) ==
  /\ send[s].at \in {"member", "list", "muted"}
  /\ send' = [send EXCEPT ![s] = Answer("failed", None, {})]
  /\ UNCHANGED <<tables, call, reader, crowded, stale>>

-----------------------------------------------------------------------------
CallSteps(c) ==
  \/ CountMembers(c) \/ LookFor(c) \/ CheckLimit(c) \/ Insert(c)
  \/ DeleteMember(c) \/ Recount(c) \/ Update(c) \/ Commit(c) \/ Fail(c)

SendSteps(s) ==
  IsMember(s) \/ ListMembers(s) \/ Consider(s) \/ Planned(s) \/ ResolveFails(s)

Next ==
  \/ \E c \in Calls :
       \/ \E users \in SUBSET Users : AddMembers(c, users)
       \/ \E u \in Users : RemoveMember(c, u)
       \/ DeleteChat(c)
       \/ CallSteps(c)
  \/ \E s \in Sends :
       \/ \E from \in Users \ BotIds, to \in Users \cup {Chat} : Resolve(s, from, to)
       \/ SendSteps(s)

Spec == Init /\ [][Next]_vars

-----------------------------------------------------------------------------
\* The variables have their types; the lock is that of a call that commits.
TypeOK ==
  /\ exists \in BOOLEAN /\ crowded \in BOOLEAN /\ stale \in BOOLEAN
  /\ DOMAIN members \subseteq Users /\ \A u \in DOMAIN members : members[u] \in BOOLEAN
  /\ count \in Rest .. (Rest + Cardinality(Users))
  /\ lock \in Calls \cup {None} /\ (lock # None => call[lock].at = "commit")
  /\ \A c \in Calls :
       /\ call[c].at \in {"idle", "count", "look", "write", "delete", "update", "commit",
                          "ok", "failed"}
       /\ call[c].own \cap call[c].gone = {} /\ call[c].lost \subseteq Users
  /\ \A s \in Sends :
       /\ send[s].at \in {"idle", "member", "list", "muted", "planned", "refused", "failed"}
       /\ \A t \in send[s].targets : t.user \in Users \cup {Chat}
  /\ reader \in {"contract", "RecipientReader"}

\* A chat exceeds its limit only if two calls added members at once: each
\* counts before it inserts, and neither sees the other's rows.
LimitKept ==
  LET limit == EffectiveMemberLimit(ChatType, Verification)
  IN exists /\ Rest + Cardinality(DOMAIN members) > limit => crowded

\* participant_count is the number of members, unless the last call to commit
\* had counted before another one committed: waiting for the lock of the
\* row does not count again.  The next call alone puts it right.
CountIsMembers ==
  exists /\ ~stale => count = Rest + Cardinality(DOMAIN members)

\* Only calls that overlap leave more members than allowed or a wrong count.
OnlyOverlapsDisturb == LimitKept /\ CountIsMembers

\* Whom AddMembers was asked to add is a member when it succeeds, added or
\* found, unless he was removed since it began.
AskedAreMembers ==
  \A c \in Calls :
    call[c].kind = "add" /\ call[c].at = "commit" /\ call'[c].at = "ok" =>
      call[c].users \ call[c].lost \subseteq DOMAIN members'

\* The users of the targets of a plan.
TargetUsers(s) == {t.user : t \in send[s].targets}

\* Resolve gets to the end of a list of members.
Ends(s) == send[s].at = "muted" /\ send'[s].at = "planned"

\* A message to a chat is planned, with a store that tells the types of
\* accounts, for all who were members all the time but the sender and the
\* bots, and never for those.
MembersAreTargets ==
  \A s \in Sends : Ends(s) =>
    /\ send[s].steady \ ({send[s].from} \cup BotIds) \subseteq TargetUsers(s)
    /\ TargetUsers(s) \cap ({send[s].from, Chat} \cup BotIds) = {}

\* Who was a muted member from the start of a plan to its end gets no push:
\* one query lists the members and others look up their flags.
MutedGetNoPush ==
  \A s \in Sends : Ends(s) =>
    \A t \in send[s].targets : t.push => t.user \notin send[s].quiet

\* Whatever comes and goes meanwhile, a call and a plan end with the members
\* they were about.
MembersAreServed == AskedAreMembers /\ MembersAreTargets /\ MutedGetNoPush

\* What internal/app/doc.go says: the server routes by the type of the
\* recipient.  A message to a chat does not go to the chat itself.
RoutesByType ==
  \A s \in Sends :
    send[s].at = "planned" /\ send[s].to = Chat => Chat \notin TargetUsers(s)
=============================================================================
