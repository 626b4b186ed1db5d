------------------------------ MODULE Process ------------------------------
(***************************************************************************)
(* The life of the server processes: NewApplication, Run, the shutdown and *)
(* Close (app/application.go, app/run.go), with the row of the BotFather   *)
(* that each looks for or inserts, and the presence that sessions leave in *)
(* Redis.                                                                  *)
(*                                                                         *)
(* Requests and sessions are here only as what a shutdown waits for or     *)
(* closes: a user has one session in the life of a process, since several  *)
(* are the matter of Hub and RedisPresence.  A session is torn down by its *)
(* own pumps, an eviction or closeAll, all in one way.  Run, which files   *)
(* sessions, and the goroutines that tear them down meet at Hub.mu only:   *)
(* the commands to Redis come after it.  A key also expires after two      *)
(* minutes.                                                                *)
(***************************************************************************)
EXTENDS Naturals, SequencesExt

CONSTANTS
  Servers,
  Clustered,   \* those that may reach Redis when they start; all have addresses
  Conns,       \* sessions, of one user each
  ServerOf,
  None,
  MaxStarts    \* bound: starts of processes

\* What the constants must satisfy.
Parameters ==
  /\ ServerOf \in [Conns -> Servers] /\ Clustered \subseteq Servers /\ None \notin Nat
  /\ MaxStarts \in Nat \ {0}

VARIABLES
  at,        \* where a process stands
  closes,    \* its Application.closes
  father,    \* the id of the row that its Ensure returned
  busy,      \* an HTTP request is being served
  hub,       \* its Run loop
  hand,      \* the session that Run is registering
  mapped,    \* sessions in Hub.connections
  doomed,    \* those that closeAll took out of it
  session,   \* a session: not there, live, being torn down, over
  keys,      \* sessions whose user has a key in Redis
  fathers,   \* rows with the username of the BotFather
  starts,
  missed     \* history: sessions whose key nobody could delete

procVars == <<at, closes, father, busy>>
hubVars == <<hub, hand, mapped, doomed>>
sessionVars == <<session, keys, missed>>
vars == <<procVars, hubVars, sessionVars, fathers, starts>>

Of(s) == {c \in Conns : ServerOf[c] = s}

\* The type the queries of BotRepository ask for, and the one it inserts.
ChatTypeBot == "bot"
RecipientBot == "BOT"

\* Somebody may have made a row for the BotFather by hand.
Init ==
  /\ at = [s \in Servers |-> "down"]
  /\ closes = [s \in Servers |-> <<>>]
  /\ father = [s \in Servers |-> None]
  /\ busy = [s \in Servers |-> FALSE]
  /\ hub = [s \in Servers |-> "off"]
  /\ hand = [s \in Servers |-> None]
  /\ mapped = {} /\ doomed = [s \in Servers |-> {}]
  /\ session = [c \in Conns |-> "none"]
  /\ keys = {} /\ missed = {} /\ starts = 0
  /\ fathers \in SUBSET {[id |-> 0, type |-> ChatTypeBot]}

Goto(s, step) == at' = [at EXCEPT ![s] = step]

\* The process is gone, with its memory and its sessions.  It leaves keys of
\* which it did not get to be rid, unless it ended in good order.
End(s, orderly) ==
  /\ Goto(s, "down")
  /\ closes' = [closes EXCEPT ![s] = <<>>]
  /\ father' = [father EXCEPT ![s] = None]
  /\ busy' = [busy EXCEPT ![s] = FALSE]
  /\ hub' = [hub EXCEPT ![s] = "off"]
  /\ hand' = [hand EXCEPT ![s] = None]
  /\ mapped' = mapped \ Of(s) /\ doomed' = [doomed EXCEPT ![s] = {}]
  /\ session' = [c \in Conns |-> IF c \in Of(s) THEN "none" ELSE session[c]]
  /\ missed' = missed \cup {c \in Of(s) \cap keys : ~orderly \/ session[c] = "leaving"}

-----------------------------------------------------------------------------
(* NewApplication *)

\* The database is opened, and a registration client made or not.
Start(s) ==
  /\ at[s] = "down" /\ starts < MaxStarts
  /\ starts' = starts + 1
  /\ Goto(s, "find")
  /\ closes' \in {closes, [closes EXCEPT ![s] = <<"registration">>]}
  /\ UNCHANGED <<father, busy, hubVars, sessionVars, fathers>>

\* Without its database or its BotFather the process ends; Close is not called.
StartFails(s) ==
  /\ at[s] \in {"find", "insert"}
  /\ End(s, FALSE)
  /\ UNCHANGED <<keys, fathers, starts>>

\* Faulty variant: the search asks for the username only.
FindAnyFather(s) ==
  LET found == {f.id : f \in fathers}
  IN
  /\ at[s] = "find"
  /\ IF found = {}
     THEN Goto(s, "insert") /\ UNCHANGED father
     ELSE Goto(s, "wired") /\ father' = [father EXCEPT ![s] = Min(found)]
  /\ UNCHANGED <<closes, busy, hubVars, sessionVars, fathers, starts>>

\* EnsureBotFather looks for the username and the type that chats have for
\* bots, the first by id.
FindFather(s) ==
  LET found == {f.id : f \in {f \in fathers : f.type = ChatTypeBot}}
  IN
  /\ at[s] = "find"
  /\ IF found = {}
     THEN Goto(s, "insert") /\ UNCHANGED father
     ELSE Goto(s, "wired") /\ father' = [father EXCEPT ![s] = Min(found)]
  /\ UNCHANGED <<closes, busy, hubVars, sessionVars, fathers, starts>>

\* It inserts a row of the type that recipients have, with a new random id.
InsertFather(s) ==
  /\ at[s] = "insert"
  /\ \E id \in (1..MaxStarts) \ {f.id : f \in fathers} :
       /\ fathers' = fathers \cup {[id |-> id, type |-> RecipientBot]}
       /\ father' = [father EXCEPT ![s] = id]
  /\ Goto(s, "wired")
  /\ UNCHANGED <<closes, busy, hubVars, sessionVars, starts>>

\* initRedis: without the coordinator or the event hub the server goes on.
InitRedis(s) ==
  /\ at[s] = "wired"
  /\ \E tail \in {<<>>, <<"presence">>, <<"events">>, <<"presence", "events">>} :
       /\ tail # <<>> => s \in Clustered
       /\ closes' = [closes EXCEPT ![s] = @ \o tail]
  /\ Goto(s, "built")
  /\ UNCHANGED <<father, busy, hubVars, sessionVars, fathers, starts>>

-----------------------------------------------------------------------------
(* Run *)

\* The goroutines of the hub and of the HTTP server are started.
Run(s) ==
  /\ at[s] = "built"
  /\ hub' = [hub EXCEPT ![s] = "select"]
  /\ Goto(s, "serving")
  /\ UNCHANGED <<closes, father, busy, hand, mapped, doomed, sessionVars, fathers, starts>>

\* The HTTP server ends with an error, which Run returns.
ListenFails(s) ==
  /\ at[s] = "serving"
  /\ Goto(s, "failed")
  /\ UNCHANGED <<closes, father, busy, hubVars, sessionVars, fathers, starts>>

Signal(s) ==
  /\ at[s] = "serving"
  /\ Goto(s, "draining")
  /\ UNCHANGED <<closes, father, busy, hubVars, sessionVars, fathers, starts>>

TakeRequest(s) ==
  /\ at[s] = "serving" /\ ~busy[s]
  /\ busy' = [busy EXCEPT ![s] = TRUE]
  /\ UNCHANGED <<at, closes, father, hubVars, sessionVars, fathers, starts>>

EndRequest(s) ==
  /\ busy[s]
  /\ busy' = [busy EXCEPT ![s] = FALSE]
  /\ UNCHANGED <<at, closes, father, hubVars, sessionVars, fathers, starts>>

\* Faulty variant: Run returns without telling the hub.
DrainedOnly(s) ==
  /\ at[s] = "draining" /\ ~busy[s]
  /\ Goto(s, "closing")
  /\ UNCHANGED <<closes, father, busy, hubVars, sessionVars, fathers, starts>>

\* Echo.Shutdown waits for the requests, not for upgraded connections; then
\* Hub.Shutdown closes the channel that stops Run.
Drained(s) ==
  /\ at[s] = "draining" /\ ~busy[s]
  /\ Goto(s, "stopping")
  /\ UNCHANGED <<closes, father, busy, hubVars, sessionVars, fathers, starts>>

\* Faulty variant: Shutdown has no deadline.
DrainWaits(s) ==
  /\ at[s] = "draining" /\ busy[s]
  /\ UNCHANGED vars

\* Ten seconds pass first, and Run returns the error.
DrainTimesOut(s) ==
  /\ at[s] = "draining" /\ busy[s]
  /\ Goto(s, "failed")
  /\ UNCHANGED <<closes, father, busy, hubVars, sessionVars, fathers, starts>>

\* closeAll has torn down what it took, and Hub.Shutdown sees Run end.
HubStopped(s) ==
  /\ at[s] = "stopping" /\ hub[s] = "closing"
  /\ \A c \in doomed[s] : session[c] = "over"
  /\ hub' = [hub EXCEPT ![s] = "stopped"]
  /\ Goto(s, "closing")
  /\ UNCHANGED <<closes, father, busy, hand, mapped, doomed, sessionVars, fathers, starts>>

\* The ten seconds are over: Hub.Shutdown returns, and so does Run.
HubTimesOut(s) ==
  /\ at[s] = "stopping"
  /\ Goto(s, "late")
  /\ UNCHANGED <<closes, father, busy, hubVars, sessionVars, fathers, starts>>

\* Close goes through closes from the last to the first.
CloseNext(s) ==
  /\ at[s] \in {"closing", "late", "failed"} /\ closes[s] # <<>>
  /\ closes' = [closes EXCEPT ![s] = Front(@)]
  /\ UNCHANGED <<at, father, busy, hubVars, sessionVars, fathers, starts>>

Exit(s) ==
  /\ at[s] \in {"closing", "late", "failed"} /\ closes[s] = <<>>
  /\ End(s, at[s] = "closing")
  /\ UNCHANGED <<keys, fathers, starts>>

Kill(s) ==
  /\ at[s] # "down"
  /\ End(s, FALSE)
  /\ UNCHANGED <<keys, fathers, starts>>

-----------------------------------------------------------------------------
(* Sessions *)

HasRedis(s) == \E i \in DOMAIN closes[s] : closes[s][i] = "presence"

\* Run receives an upgraded connection, also while the server stops: Run has
\* the choice between its channels.  The pumps of the session start.
Register(c) ==
  LET s == ServerOf[c]
  IN
  /\ session[c] = "none" /\ hub[s] = "select"
  /\ session' = [session EXCEPT ![c] = "live"]
  /\ hub' = [hub EXCEPT ![s] = "insert"]
  /\ hand' = [hand EXCEPT ![s] = c]
  /\ UNCHANGED <<procVars, mapped, doomed, keys, missed, fathers, starts>>

\* registerConnection: into the map under the lock,
Insert(s) ==
  /\ hub[s] = "insert"
  /\ mapped' = mapped \cup {hand[s]}
  /\ hub' = [hub EXCEPT ![s] = "announce"]
  /\ UNCHANGED <<procVars, hand, doomed, sessionVars, fathers, starts>>

\* and then SET, which may come after the DEL of a session that has ended.
SetKey(s) ==
  LET c == hand[s]
  IN
  /\ hub[s] = "announce"
  /\ IF HasRedis(s)
     THEN /\ keys' = keys \cup {c}
          /\ missed' = IF session[c] = "over" THEN missed \cup {c} ELSE missed \ {c}
     ELSE UNCHANGED <<keys, missed>>
  /\ hub' = [hub EXCEPT ![s] = "select"]
  /\ hand' = [hand EXCEPT ![s] = None]
  /\ UNCHANGED <<procVars, mapped, doomed, session, fathers, starts>>

\* Run finds the channel closed: closeAll empties the map.
CloseAll(s) ==
  /\ at[s] \in {"stopping", "late"} /\ hub[s] = "select"
  /\ doomed' = [doomed EXCEPT ![s] = mapped \cap Of(s)]
  /\ mapped' = mapped \ Of(s)
  /\ hub' = [hub EXCEPT ![s] = "closing"]
  /\ UNCHANGED <<procVars, hand, sessionVars, fathers, starts>>

\* A teardown takes the session from the map.  closeAll waits for one that
\* others have begun.
Leave(c) ==
  /\ session[c] = "live"
  /\ session' = [session EXCEPT ![c] = "leaving"]
  /\ mapped' = mapped \ {c}
  /\ UNCHANGED <<procVars, hub, hand, doomed, keys, missed, fathers, starts>>

\* Then its key is deleted, if the client of Redis is open: Close may have
\* come to it.
RemoveKey(c) ==
  LET s == ServerOf[c]
  IN
  /\ session[c] = "leaving"
  /\ session' = [session EXCEPT ![c] = "over"]
  /\ keys' = IF HasRedis(s) THEN keys \ {c} ELSE keys
  /\ missed' = IF at[s] \in {"closing", "late", "failed"} THEN missed \cup (keys' \cap {c})
               ELSE missed
  /\ UNCHANGED <<procVars, hubVars, fathers, starts>>

\* A key that nobody refreshes expires.
ExpireKey(c) ==
  /\ c \in keys /\ session[c] \in {"none", "over"}
  /\ keys' = keys \ {c} /\ missed' = missed \ {c}
  /\ UNCHANGED <<procVars, hubVars, session, fathers, starts>>

-----------------------------------------------------------------------------
StopSteps(s) ==
  \/ Drained(s) \/ DrainTimesOut(s) \/ HubStopped(s) \/ HubTimesOut(s)
  \/ CloseNext(s) \/ Exit(s)

StartSteps(s) ==
  Start(s) \/ StartFails(s) \/ FindFather(s) \/ InsertFather(s) \/ InitRedis(s) \/ Run(s)

Next ==
  \/ \E s \in Servers :
       \/ StartSteps(s) \/ StopSteps(s)
       \/ ListenFails(s) \/ Signal(s) \/ TakeRequest(s) \/ EndRequest(s) \/ Kill(s)
       \/ Insert(s) \/ SetKey(s) \/ CloseAll(s)
  \/ \E c \in Conns : Register(c) \/ Leave(c) \/ RemoveKey(c) \/ ExpireKey(c)

\* The main goroutine runs, and its waits are bounded by ten seconds.
Fairness == \A s \in Servers : WF_vars(StopSteps(s))

Spec == Init /\ [][Next]_vars /\ Fairness

-----------------------------------------------------------------------------
Row == [id : 0..MaxStarts, type : {ChatTypeBot, RecipientBot}]

\* The variables have their types.
TypeOK ==
  /\ at \in [Servers -> {"down", "find", "insert", "wired", "built", "serving",
                         "draining", "stopping", "closing", "late", "failed"}]
  /\ \A s \in Servers : closes[s] \in Seq({"registration", "presence", "events"})
  /\ father \in [Servers -> {f.id : f \in fathers} \cup {None}]
  /\ busy \in [Servers -> BOOLEAN]
  /\ hub \in [Servers -> {"off", "select", "insert", "announce", "closing", "stopped"}]
  /\ hand \in [Servers -> Conns \cup {None}]
  /\ mapped \subseteq Conns /\ doomed \in [Servers -> SUBSET Conns]
  /\ session \in [Conns -> {"none", "live", "leaving", "over"}]
  /\ keys \subseteq Conns /\ missed \subseteq Conns
  /\ fathers \subseteq Row /\ starts \in 0..MaxStarts

\* A user is left online in Redis without a session only by a process that
\* was killed, failed or ran out of time, or by a session that was torn down
\* while Run still registered it, so that DEL came before SET.  A process that
\* stops in good order has otherwise closed the sessions before it closes its
\* client of Redis, except those that were ending by themselves: their keys
\* are deleted after they have left the table that closeAll goes by.
OrderlyLeavesNoKey ==
  \A c \in keys : session[c] \in {"none", "over"} => c \in missed

\* Two servers work with one BotFather only if somebody made its row by hand:
\* what a start inserts is found by no other, because the search asks for the
\* other spelling of the type.
FathersAreOwn ==
  \A s, t \in Servers :
    s # t /\ father[s] # None /\ father[s] = father[t] =>
      \E f \in fathers : f.id = father[s] /\ f.type = ChatTypeBot

\* What servers leave in the stores that all of them share.
StoresAreSound == OrderlyLeavesNoKey /\ FathersAreOwn

\* A signal ends the process, also with requests that do not end.
SignalEnds == \A s \in Servers : at[s] = "draining" ~> at[s] = "down"
=============================================================================
