------------------------------ MODULE Admission ------------------------------
(***************************************************************************)
(* What a configuration file makes of the server and whom it lets in:      *)
(* config/configuration.go, transport/ws/config/config.go, the client      *)
(* that platform/presence/redis.go and platform/pubsub/redis.go open,      *)
(* auth/jwt_generator.go, transport/http/middleware/auth.go,               *)
(* transport/ws/service/auth.go and transport/ws/security/origin.go.       *)
(*                                                                         *)
(* A text of the file is empty, "blank" (it holds spaces only), "padded"   *)
(* (with spaces around it), or as strings.TrimSpace leaves it.  A request  *)
(* is decided from the configuration alone, so that one for each server is *)
(* enough.                                                                 *)
(***************************************************************************)
EXTENDS Integers, Sequences, SequencesExt

CONSTANTS
  UserIds,   \* user ids
  Files,     \* bound: the configuration files considered
  Requests   \* bound: the requests considered

VARIABLES
  file,    \* the configuration file
  cfg,     \* the loaded configuration
  state,   \* "down", "refused", "up", or "served" after its request
  answer   \* what became of the request

vars == <<file, cfg, state, answer>>

\* The texts of a file and of a request; a token without a user holds "".
Parameters ==
  LET tokens == [text : BOOLEAN, user : UserIds \cup {""}, ours : BOOLEAN, fresh : BOOLEAN]
      redis == [mode : STRING, addresses : Seq(STRING), address : STRING, master : STRING]
  IN
  /\ Files \subseteq [secret : STRING, database : BOOLEAN, redis : redis, max : Int,
                      origins : Seq(STRING), tokenQuery : STRING, legacy : BOOLEAN]
  /\ Requests \subseteq [header : [scheme : STRING, token : tokens], query : tokens,
                         userId : STRING, origin : STRING]

\* No request was made.
NoAnswer == [ws |-> "none", http |-> "none", request |-> "none"]

Init ==
  /\ file \in Files
  /\ cfg = file
  /\ state = "down"
  /\ answer = NoAnswer

-----------------------------------------------------------------------------
(* The configuration *)

\* strings.TrimSpace.
Trim(text) == CASE text = "blank" -> "" [] text = "padded *" -> "*" [] OTHER -> text

\* normalizeRedisAddresses, and what ResolvedAllowOrigins does to origins;
\* kept[i] is what its loop has appended after i texts.
Trimmed(texts) ==
  LET kept[i \in 0 .. Len(texts)] ==
        IF i = 0 THEN <<>>
        ELSE IF Trim(texts[i]) = "" THEN kept[i - 1]
        ELSE Append(kept[i - 1], Trim(texts[i]))
  IN kept[Len(texts)]

\* Normalized of RedisConfiguration; it is applied again before each client is made.
NormalizedRedis(redis) ==
  LET addresses == IF Trimmed(redis.addresses) = <<>> /\ Trim(redis.address) # ""
                   THEN <<Trim(redis.address)>>
                   ELSE Trimmed(redis.addresses)
  IN [redis EXCEPT
        !.addresses = addresses,
        !.mode = IF redis.mode # "" THEN redis.mode
                 ELSE IF Len(addresses) > 1 THEN "cluster" ELSE "single"]

\* Normalized of WebSocketConfiguration.
NormalizedMax(max) == IF max <= 0 THEN 5 ELSE max

ResolvedAllowOrigins(origins) ==
  IF Trimmed(origins) # <<>> THEN Trimmed(origins)
  ELSE <<"http://localhost:3000", "http://127.0.0.1:3000">>

\* TokenQueryAllowed.
TokenQueryAllowed(c) == c.tokenQuery # "false"

\* Validate; "database" says that no field of the database is blank, nor the
\* API key of a telephony provider that is not "mock".
Valid(c) ==
  /\ Trim(c.secret) # "" /\ c.database
  /\ c.redis.addresses # <<>>
  /\ ~(c.redis.mode = "single" /\ Len(c.redis.addresses) > 1)
  /\ c.redis.mode = "sentinel" => Trim(c.redis.master) # ""
  /\ \A i \in DOMAIN c.origins : Trim(c.origins[i]) # "*"

LoadConfig ==
  LET loaded == [file EXCEPT !.redis = NormalizedRedis(@), !.max = NormalizedMax(@)]
  IN
  /\ state = "down"
  /\ cfg' = loaded
  /\ state' = IF Valid(loaded) THEN "up" ELSE "refused"
  /\ UNCHANGED <<file, answer>>

\* The client that redis.NewUniversalClient makes of the options it is given,
\* which do not hold the mode.
Client(redis) ==
  IF redis.master # "" THEN "sentinel"
  ELSE IF Len(redis.addresses) > 1 THEN "cluster" ELSE "single"

-----------------------------------------------------------------------------
(* A request *)

\* ValidateToken: the user of a token signed with the secret that has not
\* expired; "none" stands for an error.
ValidateToken(token) ==
  IF token.text /\ token.ours /\ token.fresh /\ token.user # "" THEN token.user ELSE "none"

\* The text after "Bearer ", in whatever case.
IsBearer(header) == header.scheme \in {"Bearer", "bearer"}

\* JWTAuth.
JWTAuth(request) ==
  IF IsBearer(request.header) THEN ValidateToken(request.header.token) ELSE "none"

\* Faulty variant: a bad header is passed over for the query.
ResolveAnyToken(c, request) ==
  IF JWTAuth(request) # "none" THEN JWTAuth(request)
  ELSE IF TokenQueryAllowed(c) THEN ValidateToken(request.query) ELSE "none"

\* ResolveUserID: a token in the header goes before one in the query, and the
\* user id of the query counts, if it is allowed, only without either.
ResolveUserID(c, request) ==
  IF IsBearer(request.header) /\ request.header.token.text
  THEN ValidateToken(request.header.token)
  ELSE IF TokenQueryAllowed(c) /\ request.query.text
  THEN ValidateToken(request.query)
  ELSE IF c.legacy /\ request.userId \in UserIds THEN request.userId ELSE "none"

\* Allow: a request without an Origin is not a browser's.
Allow(c, origin) ==
  LET allowed == ToSet(Trimmed(ResolvedAllowOrigins(c.origins)))
  IN allowed # {} /\ (Trim(origin) = "" \/ Trim(origin) \in allowed)

\* The same credentials reach the socket and a route behind JWTAuth.
Handle(request) ==
  LET user == ResolveUserID(cfg, request)
  IN
  /\ state = "up"
  /\ state' = "served"
  /\ answer' = [request |-> request, http |-> JWTAuth(request),
                ws |-> IF Allow(cfg, request.origin) THEN user ELSE "none"]
  /\ UNCHANGED <<file, cfg>>

Next == LoadConfig \/ \E request \in Requests : Handle(request)

Spec == Init /\ [][Next]_vars

-----------------------------------------------------------------------------
\* The variables have their types.
TypeOK ==
  /\ state \in {"down", "refused", "up", "served"} /\ (state = "up" => cfg.max > 0)
  /\ cfg \in {file, [file EXCEPT !.redis = NormalizedRedis(@), !.max = NormalizedMax(@)]}
  /\ answer.ws \in UserIds \cup {"none"} /\ answer.http \in UserIds \cup {"none"}

\* The mode of the configuration never reaches the Redis client, which is
\* chosen by the addresses and the name of the master.  A server that starts
\* has a client of its mode all the same, unless the mode is none of the three,
\* a mode other than sentinel comes with a master's name, or the mode cluster
\* with one address; and to normalise the configuration again changes nothing.
ClientFitsMode ==
  state = "up" =>
    /\ NormalizedRedis(cfg.redis) = cfg.redis
    /\ cfg.redis.addresses # <<>>
    /\ \/ Client(cfg.redis) = cfg.redis.mode
       \/ cfg.redis.mode \notin {"single", "cluster", "sentinel"}
       \/ cfg.redis.mode # "sentinel" /\ cfg.redis.master # ""
       \/ cfg.redis.mode = "cluster" /\ Len(cfg.redis.addresses) = 1

\* An Origin that reaches a session is one that the file lists, or one of the
\* two defaults when it lists none; "*" is never taken for all of them.
OriginWasListed ==
  answer.ws # "none" /\ Trim(answer.request.origin) # "" =>
    /\ Trim(answer.request.origin) # "*"
    /\ \/ \E i \in DOMAIN file.origins : Trim(file.origins[i]) = Trim(answer.request.origin)
       \/ /\ Trimmed(file.origins) = <<>>
          /\ answer.request.origin \in {"http://localhost:3000", "http://127.0.0.1:3000"}

\* Whoever sends a token as Bearer is the same user on the socket as on the
\* routes of the HTTP API, or nobody on both, whatever else the query says.
SameUserOnBoth ==
  /\ answer.http # "none" => answer.ws \in {answer.http, "none"}
  /\ answer.ws # "none" /\ answer.http = "none" =>
       ~(IsBearer(answer.request.header) /\ answer.request.header.token.text)

\* A server that starts does what its configuration says: with Redis, with the
\* origins of browsers, and with the identity a token stands for.
AdmittedAsConfigured == ClientFitsMode /\ OriginWasListed /\ SameUserOnBoth
=============================================================================
