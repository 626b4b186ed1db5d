------------------------------ MODULE Sessions ------------------------------
(***************************************************************************)
(* What a server promises about the life of a websocket session, whoever   *)
(* closes it and whenever: one session at a time is handed to the registry *)
(* and not in it yet; it enters the registry once; it leaves it for good,  *)
(* closed or in the hands of somebody who is to close it; and the object   *)
(* is free for another session only when it is closed.                     *)
(***************************************************************************)
CONSTANT Conns   \* session objects

VARIABLE place   \* where the session of each object is in its life

SessionPlaces == {"new", "handed", "listed", "taken", "closed"}

SessionsInit == place = [c \in Conns |-> "new"]

Listed == {c \in Conns : place[c] = "listed"}

\* A session is handed over; sessions that it replaces may close with it.
Hand(c, replaced) ==
  /\ place[c] = "new"
  /\ \A d \in Conns : place[d] # "handed"
  /\ replaced \subseteq Listed
  /\ place' = [d \in Conns |-> IF d = c THEN "handed"
                               ELSE IF d \in replaced THEN "closed" ELSE place[d]]

Enter(c) ==
  /\ place[c] = "handed"
  /\ place' = [place EXCEPT ![c] = "listed"]

\* Somebody takes sessions out of the registry, to close them.
Take(some) ==
  /\ some \subseteq Listed
  /\ place' = [d \in Conns |-> IF d \in some THEN "taken" ELSE place[d]]

Close(c) ==
  /\ place[c] \in {"handed", "listed", "taken"}
  /\ place' = [place EXCEPT ![c] = "closed"]

Reuse(c) ==
  /\ place[c] = "closed"
  /\ place' = [place EXCEPT ![c] = "new"]

SessionsNext ==
  \/ \E c \in Conns : Enter(c) \/ Close(c) \/ Reuse(c)
  \/ \E some \in SUBSET Conns : Take(some) \/ \E c \in Conns : Hand(c, some)

SessionsSpec == SessionsInit /\ [][SessionsNext]_place
=============================================================================
