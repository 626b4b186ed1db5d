------------------------------ MODULE MCClient ------------------------------
(***************************************************************************)
(* Small instances of ClientJobs, whose names are this module's own, and   *)
(* of the two modules that decide what becomes of a request of the client, *)
(* which share no state with it: who is let in, and to whom a message      *)
(* goes.  One run checks each of them, Init choosing the part and the      *)
(* others staying where they are.  Of the client there are one account and *)
(* two jobs, of which one may be a poll vote, whose job has no factory.    *)
(***************************************************************************)
EXTENDS ClientJobs, Integers, Sequences, TLC

CONSTANTS a1, m1, v1, k1, k2, s1, u1, u2, b1, g1

VARIABLES
  part,
  exists, members, count, lock, call, reader, send, crowded, stale,
  file, cfg, state, answer

\* Two calls and a message to a group of 249 members, one below its limit;
\* the owner, another user and a bot are those who come and go.
Groups == INSTANCE Chats WITH
  Calls <- {k1, k2}, Sends <- {s1}, Users <- {u1, u2, b1}, BotIds <- {b1},
  Owner <- u1, Chat <- g1, ChatType <- "group", Verification <- "", Rest <- 248

\* Configuration files: every choice about Redis with one about the rest,
\* and the choices about the socket with one Redis.
RedisFiles ==
  [mode : {"", "single", "cluster", "sentinel", "other"},
   addresses : {<<>>, <<"a">>, <<"blank", "a">>, <<"a", "b">>},
   address : {"", "blank", "a"}, master : {"", "blank", "m"}]

OneRedis == [mode |-> "", addresses |-> <<"a">>, address |-> "", master |-> ""]

SocketFiles ==
  [secret : {"k"}, database : {TRUE}, redis : {OneRedis}, max : {-1, 3},
   origins : {<<>>, <<"blank">>, <<"o", "p">>, <<"padded *">>},
   tokenQuery : {"unset", "true", "false"}, legacy : BOOLEAN]

ConfigFiles ==
  SocketFiles \cup
    [secret : {"", "blank", "k"}, database : BOOLEAN, redis : RedisFiles, max : {3},
     origins : {<<"o">>}, tokenQuery : {"unset"}, legacy : {FALSE}]

\* A token: none, two users' own, one expired, one signed by another, one
\* without a user.
TokenOf(u) == [text |-> TRUE, user |-> u, ours |-> TRUE, fresh |-> TRUE]

SomeTokens ==
  {[TokenOf("") EXCEPT !.text = FALSE], TokenOf("u"), TokenOf("v"), TokenOf(""),
   [TokenOf("u") EXCEPT !.ours = FALSE], [TokenOf("u") EXCEPT !.fresh = FALSE]}

SomeHeaders ==
  [scheme : {"Bearer"}, token : SomeTokens]
    \cup [scheme : {"", "Basic", "bearer"}, token : {TokenOf("u")}]

SomeRequests ==
  [header : SomeHeaders, query : {x \in SomeTokens : x.user = "v" \/ ~x.fresh \/ ~x.text},
   userId : {"", "v", "bad"},
   origin : {"", "o", "padded *", "http://localhost:3000"}]

Doors == INSTANCE Admission WITH
  UserIds <- {"u", "v"}, Files <- ConfigFiles, Requests <- SomeRequests

ASSUME PartsAssumption == Groups!Parameters /\ Doors!Parameters

groupVars == <<exists, members, count, lock, call, reader, send, crowded, stale>>
doorVars == <<file, cfg, state, answer>>
allVars == <<part, vars, groupVars, doorVars>>

\* Which configuration file there is matters to admission only.
AllInit ==
  /\ part \in {"client", "groups", "doors"}
  /\ Init /\ Groups!Init
  /\ IF part = "doors" THEN Doors!Init
     ELSE file = OneRedis /\ cfg = file /\ state = "down" /\ answer = Doors!NoAnswer
  /\ part # "groups" => reader = "contract" /\ ~members[u1]

ClientOnly == part = "client" /\ UNCHANGED <<part, groupVars, doorVars>>
GroupsOnly == part = "groups" /\ UNCHANGED <<part, vars, doorVars>>
DoorsOnly == part = "doors" /\ UNCHANGED <<part, vars, groupVars>>

\* The calls and the requests of these parts come to an end.
AtRest == part # "client" /\ UNCHANGED allVars

AllNext ==
  \/ ClientOnly /\ Next
  \/ GroupsOnly /\ Groups!Next
  \/ DoorsOnly /\ Doors!Next
  \/ AtRest

AllSpec == AllInit /\ [][AllNext]_allVars

ClientSpec == AllInit /\ part = "client" /\ [][AllNext]_allVars

GroupsSpec == AllInit /\ part = "groups" /\ [][AllNext]_allVars

\* Calls are interchangeable: they take their input in their first step.
CallSymmetry == Permutations({k1, k2})

-----------------------------------------------------------------------------
\* The variables of the part that runs have their types.
AllTypes ==
  /\ TypeOK
  /\ part = "groups" => Groups!TypeOK
  /\ part = "doors" => Doors!TypeOK

\* Chats: only overlapping calls exceed the limit or miscount the members.
OnlyOverlapsDisturb == Groups!OnlyOverlapsDisturb

\* Chats: calls and plans end with the members they were about.
MembersAreServed == [][part = "groups" => Groups!MembersAreServed]_<<call, send>>

\* Chats: a message to a chat goes to others than the chat.
RoutesByType == Groups!RoutesByType

\* Admission: what the configuration says is what the server does.
AdmittedAsConfigured == part = "doors" => Doors!AdmittedAsConfigured
=============================================================================
