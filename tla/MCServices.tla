----------------------------- MODULE MCServices -----------------------------
(***************************************************************************)
(* Small instances of the modules about requests to one server and its     *)
(* database, which share no state: one run checks each of them, Init       *)
(* choosing the part and the others staying where they are.  The names of  *)
(* Registration are this module's own.                                     *)
(***************************************************************************)
EXTENDS Registration, Sequences, TLC

CONSTANTS r1, r2, r3, p1, p2, stored, s1, d1, c1, c2, m1, m2, u1, u2, v1, v2,
          Forms, MaxLost, MaxErrors

VARIABLES
  part,
  table, link, down, jobs, worker, handled, up, serving, told, refused, lost, errors,
  profiles, tokens, nameless, reactions, lastId, request, intended, deleted,
  raced

StoredRows == {[id |-> stored, phone |-> p1, email |-> stored]}

\* Two devices, a kept message and a row of the old table.
Rec == INSTANCE Reception WITH Clients <- {c1, c2}, Rows <- {m1, m2}, Older <- {m2}

\* Three requests of two users about two values and a message.
Records == INSTANCE UserRecords WITH
  Users <- {u1, u2}, Stored <- {u1, u2}, Messages <- {m1}, Values <- {v1, v2},
  accounts <- tokens

ASSUME ServicesAssumption == Rec!Parameters /\ Records!Parameters

recVars == <<table, link, down, jobs, worker, handled, up, serving, told, refused,
             lost, errors>>
recordVars == <<profiles, tokens, nameless, reactions, lastId, request, intended, deleted,
  raced>>
allVars == <<part, vars, recVars, recordVars>>

AllInit ==
  /\ part \in {"accounts", "reception", "records"}
  /\ Init /\ Rec!Init /\ Records!Init
  /\ part # "accounts" => users = {}

AccountsOnly == part = "accounts" /\ UNCHANGED <<part, recVars, recordVars>>
ReceptionOnly == part = "reception" /\ UNCHANGED <<part, vars, recordVars>>
RecordsOnly == part = "records" /\ UNCHANGED <<part, vars, recVars>>

AllNext ==
  \/ AccountsOnly /\ Next
  \/ ReceptionOnly /\ Rec!Next
  \/ RecordsOnly /\ Records!Next

AllSpec == AllInit /\ [][AllNext]_allVars

AccountsSpec == AllInit /\ part = "accounts" /\ [][AllNext]_allVars

ReceptionSpec == AllInit /\ part = "reception" /\ [][AllNext]_allVars

\* Requests are interchangeable: they take their input in their
\* first step.  Devices are: nothing names one.
RequestSymmetry == Permutations({r1, r2, r3}) \cup Permutations({c1, c2})

-----------------------------------------------------------------------------
\* The variables of the part that runs have their types.
AllTypes ==
  /\ TypeOK
  /\ part = "reception" => Rec!TypeOK
  /\ part = "records" => Records!TypeOK

\* Reception: rows go once, and only after a client handled their content.
DeletedOnceHandled == Rec!DeletedOnceHandled

\* Reception: no acknowledgement is refused for its form.
NoAckIsRefused == Rec!NoAckIsRefused

\* UserRecords: what a user asked for is lost only to overlapping requests.
LostOnlyToOverlap == Records!LostOnlyToOverlap
=============================================================================
