------------------------------ MODULE MCRelay ------------------------------
(***************************************************************************)
(* Relay on small instances.  Safety: the first message goes to a user with*)
(* two connections and to one who never connects, the second to the first  *)
(* user only.  The runs with one user send one or two messages to that user.*)
(***************************************************************************)
EXTENDS Relay, TLC

CONSTANTS c1, c2, u1, u2, m1, m2

TwoConns == {c1, c2}
OneUser == {u1}
TwoUsers == {u1, u2}
OneMsg == {m1}
TwoMsgs == {m1, m2}

SameUser == [c \in Conns |-> u1]

Direct == [m \in Msgs |-> <<u1>>]
Group == m1 :> <<u1, u2>> @@ m2 :> <<u1>>

SymmetricConns == Permutations(Conns)
SymmetricSenders == Permutations(Conns) \cup Permutations(Msgs)
=============================================================================
