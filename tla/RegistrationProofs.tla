------------------------- MODULE RegistrationProofs -------------------------
(***************************************************************************)
(* What holds of Registration for every number of requests, phones,        *)
(* sessions and devices, whatever the table of users held at the start.    *)
(*                                                                         *)
(* The second part is about UserRecords: whatever users, messages and      *)
(* values there are, only overlapping requests undo one another.           *)
(***************************************************************************)
EXTENDS Registration, FiniteSetTheorems, WellFoundedInduction, TLAPS

\* The part on profiles and reactions: its own constants and variables.
CONSTANTS Users, Holders, Messages, Values

VARIABLES profiles, tokens, nameless, reactions, lastId, request, intended, deleted, raced

Recs == INSTANCE UserRecords WITH Stored <- Holders, accounts <- tokens

Finished == {"idle", "missed", "refused", "done"}

\* The types, for which sessions and requests must know their phone in time.
SessionsTyped ==
  /\ sessions \in [Sessions -> SessionRecord]
  /\ \A s \in Sessions : sessions[s].state = "open" => sessions[s].phone \in Phones

RequestsTyped ==
  /\ step \in [Requests -> Steps]
  /\ phone \in [Requests -> Phones \cup {None}]
  /\ code \in [Requests -> Nat]
  /\ session \in [Requests -> Sessions \cup {None}]
  /\ \A r \in Requests :
       /\ step[r] \notin Finished => phone[r] \in Phones
       /\ step[r] \in {"missed", "answer", "register", "add", "search"} =>
            session[r] \in Sessions

SubjectsTyped ==
  /\ subject \in [Requests -> Ids \cup {None}]
  /\ \A r \in Requests : step[r] \in {"account", "token", "device"} => subject[r] \in Ids

TablesTyped ==
  /\ users \subseteq [id : Ids, phone : Phones, email : Ids \cup {None}]
  /\ accounts \subseteq AccountRow
  /\ devices \in [Devices -> Identity \cup {None}]
  /\ issued \subseteq [phone : Phones, identity : Identity]

CodesTyped ==
  /\ codes \in [Phones -> Nat]
  /\ sent \in 0..MaxSends
  /\ spent \subseteq Nat

RestTyped ==
  /\ crashes \in Nat
  /\ broken \subseteq Requests /\ blind \subseteq Requests
  /\ before \in [Requests -> SUBSET AccountRow]

TypeInv ==
  /\ SessionsTyped /\ RequestsTyped /\ SubjectsTyped
  /\ TablesTyped /\ CodesTyped /\ RestTyped

LEMMA TypeInit == Init => TypeInv
  BY RegistrationAssumption
  DEF Init, TypeInv, SessionsTyped, RequestsTyped, SubjectsTyped, TablesTyped, CodesTyped,
      RestTyped, NoSession, SessionRecord, Steps, Finished, Ids

\* A session is replaced by a record of the right type.
LEMMA SessionUpdate ==
  ASSUME SessionsTyped, NEW s \in Sessions, NEW rec \in SessionRecord,
         rec.state = "open" => rec.phone \in Phones,
         sessions' = [sessions EXCEPT ![s] = rec]
  PROVE  SessionsTyped'
  BY DEF SessionsTyped

LEMMA SessionsStep == TypeInv /\ [Next]_vars => SessionsTyped'
<1> SUFFICES ASSUME TypeInv, [Next]_vars PROVE SessionsTyped'
  OBVIOUS
<1> USE DEF TypeInv
<1>0. ASSUME NEW s \in Sessions PROVE sessions[s] \in SessionRecord
  BY DEF SessionsTyped
<1>1. ASSUME NEW s \in Sessions, NEW p \in Phones, CreateVerificationSession(s, p)
      PROVE SessionsTyped'
  <2> DEFINE rec == [NoSession EXCEPT !.state = "open", !.phone = p, !.live = TRUE]
  <2>1. rec \in SessionRecord /\ rec.phone \in Phones
    BY DEF NoSession, SessionRecord
  <2> QED
    BY <1>1, <2>1, SessionUpdate DEF CreateVerificationSession
<1>2. ASSUME NEW s \in Sessions, SendVerificationCode(s) PROVE SessionsTyped'
  <2> DEFINE rec == [sessions[s] EXCEPT !.code = sent + 1, !.tries = 0]
  <2>1. sent + 1 \in Nat
    BY RegistrationAssumption DEF CodesTyped
  <2>2. rec \in SessionRecord /\ rec.phone = sessions[s].phone /\ rec.state = sessions[s].state
    BY <1>0, <2>1 DEF SessionRecord
  <2> QED
    BY <1>2, <2>2, SessionUpdate DEF SendVerificationCode, SessionsTyped
<1>3. ASSUME NEW s \in Sessions, ExpireSession(s) PROVE SessionsTyped'
  <2> DEFINE rec == [sessions[s] EXCEPT !.live = FALSE]
  <2>1. rec \in SessionRecord /\ rec.phone = sessions[s].phone /\ rec.state = sessions[s].state
    BY <1>0 DEF SessionRecord
  <2> QED
    BY <1>3, <2>1, SessionUpdate DEF ExpireSession, SessionsTyped
<1>4. ASSUME NEW r \in Requests, NEW s \in Sessions, CheckRight(r, s) PROVE SessionsTyped'
  <2> DEFINE rec == [sessions[s] EXCEPT !.verified = TRUE]
  <2>1. rec \in SessionRecord /\ rec.phone = sessions[s].phone /\ rec.state = sessions[s].state
    BY <1>0 DEF SessionRecord
  <2> QED
    BY <1>4, <2>1, SessionUpdate DEF CheckRight, SessionsTyped
<1>5. ASSUME NEW r \in Requests, CountMiss(r) PROVE SessionsTyped'
  <2> DEFINE s == session[r]
             rec == [sessions[s] EXCEPT !.tries = sessions[s].tries + 1]
  <2>1. s \in Sessions
    BY <1>5 DEF CountMiss, RequestsTyped
  <2>2. rec \in SessionRecord /\ rec.phone = sessions[s].phone /\ rec.state = sessions[s].state
    BY <1>0, <2>1 DEF SessionRecord
  <2> QED
    BY <1>5, <2>1, <2>2, SessionUpdate DEF CountMiss, SessionsTyped
<1>6. ASSUME NEW r \in Requests, CloseSession(r) PROVE SessionsTyped'
  <2> DEFINE rec == [NoSession EXCEPT !.state = "gone"]
  <2>1. rec \in SessionRecord /\ rec.state = "gone"
    BY DEF NoSession, SessionRecord
  <2>2. session[r] \in Sessions
    BY <1>6 DEF CloseSession, RequestsTyped
  <2> QED
    BY <1>6, <2>1, <2>2, SessionUpdate DEF CloseSession
<1>7. CASE Crash
  BY <1>7 DEF Crash, SessionsTyped, NoSession, SessionRecord
<1>8. CASE UNCHANGED sessions
  BY <1>8 DEF SessionsTyped
<1> QED
  BY <1>1, <1>2, <1>3, <1>4, <1>5, <1>6, <1>7, <1>8
  DEF Next, LoginSteps, AccountSteps, vars, memory, RequestCode, CompareCode, DeleteDevice,
      CheckWrong,
      OpenAccount, RemoveCode, FindUser, CreateUser, CreateUserAccount, IssueToken, SaveDevice,
      LoginFails, SearchAccount, AddAccount, RegisterDevice

\* Every step of a request moves that request alone.
LEMMA RequestsStep == TypeInv /\ [Next]_vars => RequestsTyped'
<1> SUFFICES ASSUME TypeInv, [Next]_vars PROVE RequestsTyped'
  OBVIOUS
<1> USE DEF RequestsTyped, Goto, Steps, Finished, inputs
<1>0. RequestsTyped /\ SessionsTyped
  BY DEF TypeInv
<1>1. ASSUME NEW r \in Requests, NEW p \in Phones, NEW n \in 1..sent, CompareCode(r, p, n)
      PROVE RequestsTyped'
  BY <1>0, <1>1 DEF CompareCode
<1>2. ASSUME NEW r \in Requests, NEW s \in Sessions, CheckRight(r, s)
      PROVE RequestsTyped'
  BY <1>0, <1>2 DEF CheckRight, MayCheck, SessionsTyped
<1>3. ASSUME NEW r \in Requests, NEW s \in Sessions, CheckWrong(r, s)
      PROVE RequestsTyped'
  <2>1. sessions[s].code \in Nat
    BY <1>0 DEF SessionsTyped, SessionRecord
  <2> QED
    BY <1>0, <1>3, <2>1 DEF CheckWrong
<1>4. ASSUME NEW r \in Requests, NEW s \in Sessions, OpenAccount(r, s)
      PROVE RequestsTyped'
  BY <1>0, <1>4 DEF OpenAccount, SessionsTyped
<1>5. ASSUME NEW r \in Requests, CountMiss(r) PROVE RequestsTyped'
  BY <1>0, <1>5 DEF CountMiss
<1>6. ASSUME NEW r \in Requests, RemoveCode(r) PROVE RequestsTyped'
  BY <1>0, <1>6 DEF RemoveCode
<1>7. ASSUME NEW r \in Requests, FindUser(r) PROVE RequestsTyped'
  BY <1>0, <1>7 DEF FindUser
<1>8. ASSUME NEW r \in Requests, CreateUser(r) PROVE RequestsTyped'
  BY <1>0, <1>8 DEF CreateUser
<1>9. ASSUME NEW r \in Requests, CreateUserAccount(r) PROVE RequestsTyped'
  BY <1>0, <1>9 DEF CreateUserAccount
<1>10. ASSUME NEW r \in Requests, IssueToken(r) PROVE RequestsTyped'
  BY <1>0, <1>10 DEF IssueToken
<1>11. ASSUME NEW r \in Requests, SaveDevice(r) \/ LoginFails(r) PROVE RequestsTyped'
  BY <1>0, <1>11 DEF SaveDevice, LoginFails
<1>12. ASSUME NEW r \in Requests, SearchAccount(r) PROVE RequestsTyped'
  BY <1>0, <1>12 DEF SearchAccount
<1>13. ASSUME NEW r \in Requests, AddAccount(r) PROVE RequestsTyped'
  BY <1>0, <1>13 DEF AddAccount
<1>14. ASSUME NEW r \in Requests, RegisterDevice(r) \/ CloseSession(r) PROVE RequestsTyped'
  BY <1>0, <1>14 DEF RegisterDevice, CloseSession
<1>15. CASE Crash
  BY <1>0, <1>15 DEF Crash
<1>16. CASE UNCHANGED <<step, phone, code, session>>
  BY <1>0, <1>16
<1> QED
  BY <1>1, <1>2, <1>3, <1>4, <1>5, <1>6, <1>7, <1>8, <1>9, <1>10, <1>11, <1>12, <1>13, <1>14,
     <1>15, <1>16
  DEF Next, LoginSteps, AccountSteps, vars, RequestCode, CreateVerificationSession,
      SendVerificationCode, ExpireSession, DeleteDevice

LEMMA SubjectsStep == TypeInv /\ [Next]_vars => SubjectsTyped'
<1> SUFFICES ASSUME TypeInv, [Next]_vars PROVE SubjectsTyped'
  OBVIOUS
<1> USE DEF SubjectsTyped, Goto
<1>0. SubjectsTyped /\ step \in [Requests -> Steps]
  BY DEF TypeInv, RequestsTyped
<1>1. ASSUME NEW r \in Requests, FindUser(r) PROVE SubjectsTyped'
  <2>1. ASSUME NEW u \in users PROVE u.id \in Ids
    BY DEF TypeInv, TablesTyped
  <2> QED
    BY <1>0, <1>1, <2>1 DEF FindUser
<1>2. ASSUME NEW r \in Requests, CreateUser(r) PROVE SubjectsTyped'
  BY <1>0, <1>2 DEF CreateUser, Ids
<1>3. ASSUME NEW r \in Requests, CreateUserAccount(r) PROVE SubjectsTyped'
  BY <1>0, <1>3 DEF CreateUserAccount
<1>4. ASSUME NEW r \in Requests, IssueToken(r) PROVE SubjectsTyped'
  BY <1>0, <1>4 DEF IssueToken
<1>5. ASSUME NEW r \in Requests,
      CountMiss(r) \/ RemoveCode(r) \/ SaveDevice(r) \/ LoginFails(r)
      PROVE SubjectsTyped'
  BY <1>0, <1>5 DEF CountMiss, RemoveCode, SaveDevice, LoginFails
<1>6. ASSUME NEW r \in Requests, AccountSteps(r) PROVE SubjectsTyped'
  BY <1>0, <1>6 DEF AccountSteps, SearchAccount, AddAccount, RegisterDevice, CloseSession
<1>7. ASSUME NEW r \in Requests, NEW p \in Phones, NEW n \in 1..sent, CompareCode(r, p, n)
      PROVE SubjectsTyped'
  BY <1>0, <1>7 DEF CompareCode
<1>8. ASSUME NEW r \in Requests, NEW s \in Sessions,
             CheckRight(r, s) \/ CheckWrong(r, s) \/ OpenAccount(r, s)
      PROVE SubjectsTyped'
  BY <1>0, <1>8 DEF CheckRight, CheckWrong, OpenAccount
<1>9. CASE Crash
  BY <1>0, <1>9 DEF Crash
<1>10. CASE UNCHANGED <<step, subject>>
  BY <1>0, <1>10
<1> QED
  BY <1>1, <1>2, <1>3, <1>4, <1>5, <1>6, <1>7, <1>8, <1>9, <1>10
  DEF Next, LoginSteps, vars, RequestCode, CreateVerificationSession, SendVerificationCode,
      ExpireSession, DeleteDevice

LEMMA CodesStep == TypeInv /\ [Next]_vars => CodesTyped'
<1> SUFFICES ASSUME TypeInv, [Next]_vars PROVE CodesTyped'
  OBVIOUS
<1> USE RegistrationAssumption DEF CodesTyped
<1>0. CodesTyped
  BY DEF TypeInv
<1>1. ASSUME NEW p \in Phones, RequestCode(p) PROVE CodesTyped'
  BY <1>0, <1>1 DEF RequestCode, history
<1>2. ASSUME NEW s \in Sessions, SendVerificationCode(s) PROVE CodesTyped'
  BY <1>0, <1>2 DEF SendVerificationCode, history
<1>3. ASSUME NEW r \in Requests, RemoveCode(r) PROVE CodesTyped'
  BY <1>0, <1>3 DEF RemoveCode, TypeInv, RequestsTyped
<1>4. CASE Crash
  BY <1>0, <1>4 DEF Crash
<1>5. CASE UNCHANGED <<codes, sent, spent>>
  BY <1>0, <1>5
<1> QED
  BY <1>1, <1>2, <1>3, <1>4, <1>5
  DEF Next, LoginSteps, AccountSteps, vars, memory, history, CreateVerificationSession,
      ExpireSession, DeleteDevice, CompareCode, CheckRight, CheckWrong, OpenAccount,
      CountMiss, FindUser,
      CreateUser, CreateUserAccount, IssueToken, SaveDevice, LoginFails, SearchAccount,
      AddAccount, RegisterDevice, CloseSession

LEMMA TablesStep == TypeInv /\ [Next]_vars => TablesTyped'
<1> SUFFICES ASSUME TypeInv, [Next]_vars PROVE TablesTyped'
  OBVIOUS
<1> USE DEF TablesTyped
<1>0. TablesTyped
  BY DEF TypeInv
<1>p. \A r \in Requests : /\ step[r] \notin Finished => phone[r] \in Phones
                          /\ step[r] \in {"account", "token", "device"} => subject[r] \in Ids
  BY DEF TypeInv, RequestsTyped, SubjectsTyped
<1>i. ASSUME NEW r \in Requests
      PROVE  /\ subject[r] \in Ids => UserIdentity(r) \in Identity
             /\ AccountIdentity(r) \in Identity
  BY DEF UserIdentity, AccountIdentity, Identity
<1>1. ASSUME NEW r \in Requests, CreateUser(r) PROVE TablesTyped'
  BY <1>0, <1>1, <1>p DEF CreateUser, UserRow, Ids, Finished, history
<1>2. ASSUME NEW r \in Requests, CreateUserAccount(r) PROVE TablesTyped'
  BY <1>0, <1>2 DEF CreateUserAccount, AccountRow, history
<1>3. ASSUME NEW r \in Requests, IssueToken(r) PROVE TablesTyped'
  BY <1>0, <1>3, <1>p, <1>i DEF IssueToken, Finished, tables
<1>4. ASSUME NEW r \in Requests, SaveDevice(r) PROVE TablesTyped'
  BY <1>0, <1>4, <1>p, <1>i DEF SaveDevice, history
<1>5. ASSUME NEW r \in Requests, AddAccount(r) PROVE TablesTyped'
  BY <1>0, <1>5, <1>p DEF AddAccount, AccountRow, Finished, history
<1>6. ASSUME NEW r \in Requests, RegisterDevice(r) PROVE TablesTyped'
  BY <1>0, <1>6, <1>i DEF RegisterDevice, history
<1>7. ASSUME NEW r \in Requests, CloseSession(r) PROVE TablesTyped'
  BY <1>0, <1>7, <1>p, <1>i DEF CloseSession, Finished, tables
<1>8. ASSUME NEW d \in Devices, DeleteDevice(d) PROVE TablesTyped'
  BY <1>0, <1>8 DEF DeleteDevice, history
<1>9. CASE UNCHANGED <<tables, issued>>
  BY <1>0, <1>9 DEF tables
<1> QED
  BY <1>1, <1>2, <1>3, <1>4, <1>5, <1>6, <1>7, <1>8, <1>9
  DEF Next, LoginSteps, AccountSteps, vars, tables, history, RequestCode, CompareCode,
      CreateVerificationSession, SendVerificationCode, ExpireSession, DeleteDevice,
      CheckRight, CheckWrong,
      OpenAccount, CountMiss, RemoveCode, FindUser, LoginFails, SearchAccount, Crash

LEMMA RestStep == TypeInv /\ [Next]_vars => RestTyped'
<1> SUFFICES ASSUME TypeInv, [Next]_vars PROVE RestTyped'
  OBVIOUS
<1> USE DEF RestTyped
<1>0. RestTyped /\ accounts \subseteq AccountRow
  BY DEF TypeInv, TablesTyped
<1>1. ASSUME NEW r \in Requests, LoginFails(r) PROVE RestTyped'
  BY <1>0, <1>1 DEF LoginFails
<1>2. ASSUME NEW r \in Requests, SearchAccount(r) PROVE RestTyped'
  BY <1>0, <1>2 DEF SearchAccount
<1>3. CASE Crash
  BY <1>0, <1>3 DEF Crash
<1>4. CASE UNCHANGED <<crashes, broken, blind, before>>
  BY <1>0, <1>4
<1> QED
  BY <1>1, <1>2, <1>3, <1>4
  DEF Next, LoginSteps, AccountSteps, vars, history, RequestCode, CompareCode,
      CreateVerificationSession, SendVerificationCode, ExpireSession, DeleteDevice,
      CheckRight, CheckWrong,
      OpenAccount, CountMiss, RemoveCode, FindUser, CreateUser, CreateUserAccount, IssueToken,
      SaveDevice, AddAccount, RegisterDevice, CloseSession

LEMMA TypeStep == TypeInv /\ [Next]_vars => TypeInv'
  BY SessionsStep, RequestsStep, SubjectsStep, TablesStep, CodesStep, RestStep DEF TypeInv

LEMMA TypesHold == Spec => []TypeInv
  BY TypeInit, TypeStep, PTL DEF Spec

\* The variables have their types: in particular a request that has passed
\* the check of its code knows its phone, and a token names an identity.
THEOREM RegistrationTypes == Spec => []TypeOK
<1>1. TypeInv => TypeOK
  BY DEF TypeInv, SessionsTyped, RequestsTyped, SubjectsTyped, TablesTyped, CodesTyped,
         RestTyped, TypeOK
<1> QED
  BY <1>1, TypesHold, PTL

-----------------------------------------------------------------------------
(* Whom tokens and devices name *)

\* Definitions of the actions that leave the tables and the tokens alone.
LEMMA TablesGrow ==
  [Next]_vars => users \subseteq users' /\ accounts \subseteq accounts'
  BY DEF Next, LoginSteps, AccountSteps, vars, tables, history, RequestCode, CompareCode,
      CreateVerificationSession, SendVerificationCode, ExpireSession, DeleteDevice,
      CheckRight, CheckWrong,
      OpenAccount, CountMiss, RemoveCode, FindUser, CreateUser, CreateUserAccount, IssueToken,
      SaveDevice, LoginFails, SearchAccount, AddAccount, RegisterDevice, CloseSession, Crash

PhonesDiffer == \A u, v \in users : u.phone = v.phone => u = v

\* A request that has found or made its user names a row of its phone.
SubjectNamed ==
  \A r \in Requests : step[r] \in {"account", "token", "device"} =>
    \E u \in users : u.id = subject[r] /\ u.phone = phone[r]

\* A request that has added its account has a row.
AccountNamed ==
  \A r \in Requests : step[r] \in {"register", "answer"} => \E a \in accounts : a.by = r

TokensNamed ==
  \A t \in issued :
    /\ t.identity.table = "users" =>
         \E u \in users : u.id = t.identity.id /\ u.phone = t.phone
    /\ t.identity.table = "accounts" => \E a \in accounts : a.by = t.identity.id

DevicesNamed ==
  \A d \in Devices :
    devices[d] # None =>
      /\ devices[d].table = "users" => \E u \in users : u.id = devices[d].id
      /\ devices[d].table = "accounts" => \E a \in accounts : a.by = devices[d].id

NamedInv == PhonesDiffer /\ SubjectNamed /\ AccountNamed /\ TokensNamed /\ DevicesNamed

LEMMA NamedInit == Init => NamedInv
  BY RegistrationAssumption
  DEF Init, NamedInv, PhonesDiffer, SubjectNamed, AccountNamed, TokensNamed, DevicesNamed

\* Only the row that the unique indexes let in is added to the users.
LEMMA PhonesDifferStep == TypeInv /\ NamedInv /\ [Next]_vars => PhonesDiffer'
<1> SUFFICES ASSUME NamedInv, [Next]_vars PROVE PhonesDiffer'
  OBVIOUS
<1>1. ASSUME NEW r \in Requests, CreateUser(r) PROVE PhonesDiffer'
  BY <1>1 DEF NamedInv, PhonesDiffer, CreateUser, UserRow, Taken
<1>2. CASE UNCHANGED users
  BY <1>2 DEF NamedInv, PhonesDiffer
<1> QED
  BY <1>1, <1>2 DEF Next, LoginSteps, AccountSteps, vars, tables, RequestCode, CompareCode,
      CreateVerificationSession, SendVerificationCode, ExpireSession, DeleteDevice,
      CheckRight, CheckWrong,
      OpenAccount, CountMiss, RemoveCode, FindUser, CreateUserAccount, IssueToken,
      SaveDevice, LoginFails, SearchAccount, AddAccount, RegisterDevice, CloseSession, Crash

LEMMA RequestsNamedStep ==
  TypeInv /\ NamedInv /\ [Next]_vars => SubjectNamed' /\ AccountNamed'
<1> SUFFICES ASSUME TypeInv, NamedInv, [Next]_vars PROVE SubjectNamed' /\ AccountNamed'
  OBVIOUS
<1>0. /\ SubjectNamed /\ AccountNamed
      /\ users \subseteq users' /\ accounts \subseteq accounts'
      /\ step \in [Requests -> Steps] /\ DOMAIN phone = Requests /\ DOMAIN subject = Requests
  BY TablesGrow DEF NamedInv, TypeInv, RequestsTyped, SubjectsTyped
<1> USE DEF SubjectNamed, AccountNamed, Goto
<1>1. ASSUME NEW r \in Requests, FindUser(r) PROVE SubjectNamed' /\ AccountNamed'
  BY <1>0, <1>1 DEF FindUser, inputs, tables
<1>2. ASSUME NEW r \in Requests, CreateUser(r) PROVE SubjectNamed' /\ AccountNamed'
  BY <1>0, <1>2 DEF CreateUser, UserRow, inputs
<1>3. ASSUME NEW r \in Requests, CreateUserAccount(r) PROVE SubjectNamed' /\ AccountNamed'
  BY <1>0, <1>3 DEF CreateUserAccount, inputs
<1>4. ASSUME NEW r \in Requests, IssueToken(r) \/ SaveDevice(r) \/ LoginFails(r)
      PROVE SubjectNamed' /\ AccountNamed'
  BY <1>0, <1>4 DEF IssueToken, SaveDevice, LoginFails, inputs
<1>5. ASSUME NEW r \in Requests, AddAccount(r) PROVE SubjectNamed' /\ AccountNamed'
  <2> DEFINE row == [by |-> r, user |-> None, phone |-> phone[r]]
  <2>1. SubjectNamed'
    BY <1>0, <1>5 DEF AddAccount, inputs
  <2>2. step'[r] = "register" => row \in accounts' /\ row.by = r
    BY <1>0, <1>5 DEF AddAccount
  <2>3. \A q \in Requests \ {r} : step'[q] = step[q]
    BY <1>0, <1>5 DEF AddAccount
  <2>4. step'[r] \in {"register", "done"}
    BY <1>0, <1>5 DEF AddAccount
  <2> HIDE DEF row
  <2> QED
    BY <1>0, <2>1, <2>2, <2>3, <2>4
<1>6. ASSUME NEW r \in Requests, SearchAccount(r) \/ RegisterDevice(r) \/ CloseSession(r)
      PROVE SubjectNamed' /\ AccountNamed'
  BY <1>0, <1>6 DEF SearchAccount, RegisterDevice, CloseSession, inputs
<1>7. ASSUME NEW r \in Requests, CountMiss(r) \/ RemoveCode(r)
      PROVE SubjectNamed' /\ AccountNamed'
  BY <1>0, <1>7 DEF CountMiss, RemoveCode, inputs
<1>8. ASSUME NEW r \in Requests, NEW p \in Phones, NEW n \in 1..sent, CompareCode(r, p, n)
      PROVE SubjectNamed' /\ AccountNamed'
  BY <1>0, <1>8 DEF CompareCode
<1>9. ASSUME NEW r \in Requests, NEW s \in Sessions,
             CheckRight(r, s) \/ CheckWrong(r, s) \/ OpenAccount(r, s)
      PROVE SubjectNamed' /\ AccountNamed'
  BY <1>0, <1>9 DEF CheckRight, CheckWrong, OpenAccount
<1>10. CASE Crash
  BY <1>0, <1>10 DEF Crash, inputs
<1>11. CASE UNCHANGED <<step, phone, subject>>
  BY <1>0, <1>11
<1> QED
  BY <1>1, <1>2, <1>3, <1>4, <1>5, <1>6, <1>7, <1>8, <1>9, <1>10, <1>11
  DEF Next, LoginSteps, AccountSteps, vars, inputs, RequestCode, CreateVerificationSession,
      SendVerificationCode, ExpireSession, DeleteDevice

LEMMA NamesStep ==
  TypeInv /\ NamedInv /\ [Next]_vars => TokensNamed' /\ DevicesNamed'
<1> SUFFICES ASSUME TypeInv, NamedInv, [Next]_vars PROVE TokensNamed' /\ DevicesNamed'
  OBVIOUS
<1>0. /\ SubjectNamed /\ AccountNamed /\ TokensNamed /\ DevicesNamed
      /\ users \subseteq users' /\ accounts \subseteq accounts'
      /\ DOMAIN devices = Devices
  BY TablesGrow DEF NamedInv, TypeInv, TablesTyped
<1> USE DEF SubjectNamed, AccountNamed, TokensNamed, DevicesNamed, UserIdentity,
      AccountIdentity
<1>1. ASSUME NEW r \in Requests, IssueToken(r) PROVE TokensNamed' /\ DevicesNamed'
  BY <1>0, <1>1 DEF IssueToken, tables
<1>2. ASSUME NEW r \in Requests, CloseSession(r) PROVE TokensNamed' /\ DevicesNamed'
  BY <1>0, <1>2 DEF CloseSession, tables
<1>3. ASSUME NEW r \in Requests, SaveDevice(r) PROVE TokensNamed' /\ DevicesNamed'
  BY <1>0, <1>3 DEF SaveDevice, history
<1>4. ASSUME NEW r \in Requests, RegisterDevice(r) PROVE TokensNamed' /\ DevicesNamed'
  BY <1>0, <1>4 DEF RegisterDevice, history
<1>5. ASSUME NEW d \in Devices, DeleteDevice(d) PROVE TokensNamed' /\ DevicesNamed'
  BY <1>0, <1>5 DEF DeleteDevice, history
<1>6. CASE UNCHANGED <<devices, issued>>
  BY <1>0, <1>6
<1> QED
  BY <1>1, <1>2, <1>3, <1>4, <1>5, <1>6 DEF Next, LoginSteps, AccountSteps, vars, tables,
      history,
      RequestCode, CompareCode, CreateVerificationSession, SendVerificationCode, ExpireSession,
      CheckRight, CheckWrong, OpenAccount, CountMiss, RemoveCode, FindUser, CreateUser,
      CreateUserAccount, LoginFails, SearchAccount, AddAccount, Crash

LEMMA NamesHold == Spec => []NamedInv
<1>1. TypeInv /\ NamedInv /\ [Next]_vars => NamedInv'
  BY PhonesDifferStep, RequestsNamedStep, NamesStep DEF NamedInv
<1> QED
  BY <1>1, NamedInit, TypesHold, PTL DEF Spec

\* All the tokens a phone gets by logging in name one user, for any requests,
\* crashes and rows: a token names a row of its phone, and the indexes of the
\* table let in one row per phone.
THEOREM OneIdentity == Spec => []SameIdentity
<1>1. TypeInv /\ NamedInv => SameIdentity
  <2> SUFFICES ASSUME TypeInv, NamedInv, NEW t \in issued, NEW o \in issued,
                      t.phone = o.phone, t.identity.table = "users", o.identity.table = "users"
               PROVE  t.identity = o.identity
    BY DEF SameIdentity
  <2>1. t.identity.id = o.identity.id
    BY DEF NamedInv, TokensNamed, PhonesDiffer
  <2>2. t.identity \in Identity /\ o.identity \in Identity
    BY DEF TypeInv, TablesTyped
  <2> QED
    BY <2>1, <2>2 DEF Identity
<1> QED
  BY <1>1, NamesHold, TypesHold, PTL

\* The rows that tokens and devices name are in the tables.
THEOREM OwnersAreStored == Spec => []OwnersExist
<1>1. TypeInv /\ NamedInv => OwnersExist
  <2> SUFFICES ASSUME TypeInv, NamedInv PROVE OwnersExist
    OBVIOUS
  <2>1. ASSUME NEW t \in issued PROVE t.identity.table \in {"users", "accounts"}
    BY DEF TypeInv, TablesTyped, Identity
  <2>2. ASSUME NEW d \in Devices, devices[d] # None
        PROVE devices[d].table \in {"users", "accounts"}
    BY <2>2 DEF TypeInv, TablesTyped, Identity
  <2> QED
    BY <2>1, <2>2 DEF NamedInv, TokensNamed, DevicesNamed, OwnersExist, Exists
<1> QED
  BY <1>1, NamesHold, TypesHold, PTL

-----------------------------------------------------------------------------
(* Accounts that are missing *)

\* A user whom a login registered has an account, is about to get one, or was
\* left without by a failure or a crash.
AccountComes ==
  \A u \in users :
    \/ u.id \in StoredIds \/ u.id \in broken \/ step[u.id] = "account"
    \/ \E a \in accounts : a.user = u.id

LEMMA AccountComesStep == TypeInv /\ AccountComes /\ [Next]_vars => AccountComes'
<1> SUFFICES ASSUME TypeInv, AccountComes, [Next]_vars, NEW u \in users', u.id \notin StoredIds
             PROVE  \/ u.id \in broken' \/ step'[u.id] = "account"
                    \/ \E a \in accounts' : a.user = u.id
  BY DEF AccountComes
<1>0. /\ accounts \subseteq accounts' /\ step \in [Requests -> Steps]
      /\ u \in users => u.id \in Requests
  BY TablesGrow DEF TypeInv, RequestsTyped, TablesTyped, Ids
<1>1. u \in users => \/ u.id \in broken \/ step[u.id] = "account"
                     \/ \E a \in accounts : a.user = u.id
  BY DEF AccountComes
<1>2. ASSUME NEW r \in Requests, CreateUser(r) PROVE step'[u.id] = "account" \/ u \in users
  BY <1>0, <1>2 DEF CreateUser, UserRow, Goto
<1>3. ASSUME NEW r \in Requests, CreateUserAccount(r), u \in users, step[u.id] = "account"
      PROVE step'[u.id] = "account" \/ \E a \in accounts' : a.user = u.id
  <2> DEFINE row == [by |-> r, user |-> r, phone |-> None]
  <2>1. row \in accounts' /\ row.user = r
    BY <1>3 DEF CreateUserAccount
  <2>2. u.id # r => step'[u.id] = step[u.id]
    BY <1>0, <1>3 DEF CreateUserAccount, Goto
  <2> HIDE DEF row
  <2> QED
    BY <1>3, <2>1, <2>2
<1>4. ASSUME NEW r \in Requests, LoginFails(r), u \in users, step[u.id] = "account"
      PROVE step'[u.id] = "account" \/ u.id \in broken'
  BY <1>0, <1>4 DEF LoginFails, Goto
<1>5. ASSUME Crash, u \in users, step[u.id] = "account" PROVE u.id \in broken'
  BY <1>0, <1>5 DEF Crash
<1>6. broken \subseteq broken'
  BY DEF Next, LoginSteps, AccountSteps, vars, tables, history, RequestCode, CompareCode,
      CreateVerificationSession, SendVerificationCode, ExpireSession, DeleteDevice,
      CheckRight, CheckWrong,
      OpenAccount, CountMiss, RemoveCode, FindUser, CreateUser, CreateUserAccount, IssueToken,
      SaveDevice, LoginFails, SearchAccount, AddAccount, RegisterDevice, CloseSession, Crash
<1>7. u \in users \/ \E r \in Requests : CreateUser(r)
  BY DEF Next, LoginSteps, AccountSteps, vars, tables, RequestCode, CompareCode,
      CreateVerificationSession, SendVerificationCode, ExpireSession, DeleteDevice,
      CheckRight, CheckWrong,
      OpenAccount, CountMiss, RemoveCode, FindUser, CreateUserAccount, IssueToken,
      SaveDevice, LoginFails, SearchAccount, AddAccount, RegisterDevice, CloseSession, Crash
<1>8. ASSUME u \in users, step[u.id] = "account"
      PROVE  \/ step'[u.id] = "account"
             \/ Crash
             \/ \E r \in Requests : CreateUserAccount(r) \/ LoginFails(r)
  BY <1>0, <1>8 DEF Next, LoginSteps, AccountSteps, vars, Goto, RequestCode, CompareCode,
      CreateVerificationSession, SendVerificationCode, ExpireSession, DeleteDevice,
      CheckRight, CheckWrong,
      OpenAccount, CountMiss, RemoveCode, FindUser, CreateUser, IssueToken,
      SaveDevice, SearchAccount, AddAccount, RegisterDevice, CloseSession
<1>9. CASE u \in users
  BY <1>0, <1>1, <1>3, <1>4, <1>5, <1>6, <1>8, <1>9
<1>10. CASE u \notin users
  BY <1>2, <1>7, <1>10
<1> QED
  BY <1>9, <1>10

\* A token is only given to a user who has an account, unless an insertion is
\* due, failed, or was cut off.
THEOREM AccountsComeOrBreak == Spec => []AccountOrBroken
<1>1. Init => AccountComes
  BY DEF Init, AccountComes, StoredIds
<1>2. NamedInv /\ AccountComes => AccountOrBroken
  BY DEF NamedInv, TokensNamed, AccountComes, AccountOrBroken
<1> QED
  BY <1>1, <1>2, AccountComesStep, NamesHold, TypesHold, PTL DEF Spec

\* A token stands for stored rows, and its user has an account, unless the
\* registration broke off.
THEOREM TokensAreComplete == Spec => []TokensAreSound
<1>1. OwnersExist /\ AccountOrBroken => TokensAreSound
  BY DEF TokensAreSound
<1> QED
  BY <1>1, OwnersAreStored, AccountsComeOrBreak, PTL

-----------------------------------------------------------------------------
(* Codes *)

\* A code that a login has matched is in the table for its phone or nowhere;
\* numbers are given out once.
CodeInv ==
  /\ \A p, q \in Phones : codes[p] = codes[q] /\ codes[p] # 0 => p = q
  /\ \A p \in Phones : codes[p] \in 0..sent
  /\ spent \subseteq 1..sent
  /\ \A r \in Requests : step[r] = "matched" =>
       /\ code[r] \in 1..sent
       /\ \A q \in Phones : codes[q] = code[r] => q = phone[r]
  /\ OneUse

LEMMA CodeStep == TypeInv /\ CodeInv /\ [Next]_vars => CodeInv'
<1> SUFFICES ASSUME TypeInv, CodeInv, [Next]_vars PROVE CodeInv'
  OBVIOUS
<1>0. /\ sent \in Nat /\ codes \in [Phones -> Nat] /\ step \in [Requests -> Steps]
      /\ phone \in [Requests -> Phones \cup {None}] /\ code \in [Requests -> Nat]
      /\ \A r \in Requests : step[r] = "matched" => phone[r] \in Phones
  BY RegistrationAssumption DEF TypeInv, CodesTyped, RequestsTyped, Finished
<1> USE DEF CodeInv, OneUse, Goto
<1>1. ASSUME NEW p \in Phones, RequestCode(p) PROVE CodeInv'
  BY <1>0, <1>1 DEF RequestCode, inputs, history
<1>2. ASSUME NEW r \in Requests, NEW p \in Phones, NEW n \in 1..sent, CompareCode(r, p, n)
      PROVE CodeInv'
  BY <1>0, <1>2 DEF CompareCode, memory, history
<1>3. ASSUME NEW r \in Requests, RemoveCode(r) PROVE CodeInv'
  <2>1. /\ phone[r] \in Phones /\ code[r] \in 1..sent
        /\ \A q \in Phones : codes[q] = code[r] => q = phone[r]
    BY <1>0, <1>3 DEF RemoveCode
  <2>2. \A q \in Phones : codes'[q] = IF q = phone[r] THEN 0 ELSE codes[q]
    BY <1>0, <1>3, <2>1 DEF RemoveCode
  <2>3. \A q \in Requests : step'[q] = "matched" => step[q] = "matched"
    BY <1>0, <1>3 DEF RemoveCode
  <2>4. /\ spent' = spent \cup {code[r]} /\ sent' = sent
        /\ UNCHANGED <<phone, code>>
    BY <1>3 DEF RemoveCode, inputs
  <2>5. /\ \A p, q \in Phones : codes'[p] = codes'[q] /\ codes'[p] # 0 => p = q
        /\ \A p \in Phones : codes'[p] \in 0..sent'
    BY <1>0, <2>2, <2>4
  <2>6. spent' \subseteq 1..sent'
    BY <1>0, <2>1, <2>4
  <2>7. \A q \in Requests : step'[q] = "matched" =>
          /\ code'[q] \in 1..sent'
          /\ \A p \in Phones : codes'[p] = code'[q] => p = phone'[q]
    BY <1>0, <2>2, <2>3, <2>4
  <2>8. \A p \in Phones : codes'[p] \notin spent'
    BY <1>0, <2>1, <2>2, <2>4
  <2> QED
    BY <2>5, <2>6, <2>7, <2>8
<1>4. ASSUME NEW s \in Sessions, SendVerificationCode(s) PROVE CodeInv'
  BY <1>0, <1>4 DEF SendVerificationCode, inputs, history
<1>5. CASE Crash
  BY <1>0, <1>5 DEF Crash, inputs
<1>6. ASSUME /\ UNCHANGED <<codes, sent, spent>>
             /\ \A r \in Requests : step'[r] = "matched" =>
                  step[r] = "matched" /\ UNCHANGED <<phone[r], code[r]>>
      PROVE CodeInv'
  BY <1>0, <1>6
<1>7. ASSUME NEW r \in Requests, CountMiss(r) \/ AccountSteps(r)
      PROVE /\ UNCHANGED <<codes, sent, spent>>
            /\ \A q \in Requests : step'[q] = "matched" =>
                  step[q] = "matched" /\ UNCHANGED <<phone[q], code[q]>>
  BY <1>0, <1>7 DEF CountMiss, AccountSteps, SearchAccount, AddAccount, RegisterDevice,
      CloseSession, memory, inputs, history
<1>8. ASSUME NEW r \in Requests,
             \/ FindUser(r) \/ CreateUser(r) \/ CreateUserAccount(r) \/ IssueToken(r)
             \/ SaveDevice(r) \/ LoginFails(r)
      PROVE /\ UNCHANGED <<codes, sent, spent>>
            /\ \A q \in Requests : step'[q] = "matched" =>
                  step[q] = "matched" /\ UNCHANGED <<phone[q], code[q]>>
  BY <1>0, <1>8 DEF FindUser, CreateUser, CreateUserAccount, IssueToken, SaveDevice,
      LoginFails, memory, inputs, history
<1>9. ASSUME NEW r \in Requests, NEW s \in Sessions,
             CheckRight(r, s) \/ CheckWrong(r, s) \/ OpenAccount(r, s)
      PROVE /\ UNCHANGED <<codes, sent, spent>>
            /\ \A q \in Requests : step'[q] = "matched" =>
                  step[q] = "matched" /\ UNCHANGED <<phone[q], code[q]>>
  BY <1>0, <1>9 DEF CheckRight, CheckWrong, OpenAccount, memory, inputs, history
<1>10. CASE UNCHANGED <<codes, sent, spent, step, phone, code>>
  BY <1>0, <1>6, <1>10
<1> QED
  BY <1>1, <1>2, <1>3, <1>4, <1>5, <1>6, <1>7, <1>8, <1>9, <1>10
  DEF Next, LoginSteps, vars, memory, inputs, history, CreateVerificationSession,
      ExpireSession,
      DeleteDevice

\* A code that was removed by a login that used it is in the table no more.
THEOREM CodesAreUsedOnce == Spec => []OneUse
<1>1. Init => CodeInv
  BY DEF Init, CodeInv, OneUse
<1>2. CodeInv => OneUse
  BY DEF CodeInv
<1> QED
  BY <1>1, <1>2, CodeStep, TypesHold, PTL DEF Spec

-----------------------------------------------------------------------------
(* Accounts of one phone *)

\* The row of a request was inserted after a search that found no account of
\* the phone, or that failed.
SearchedFirst ==
  /\ \A r \in Requests :
       step[r] = "add" /\ r \notin blind => \A a \in before[r] : a.phone # phone[r]
  /\ \A b \in accounts :
       b.phone # None =>
         /\ step[b.by] \in {"register", "answer", "done"}
         /\ b.by \notin blind => \A a \in before[b.by] : a.phone # b.phone

LEMMA SearchedStep == TypeInv /\ SearchedFirst /\ [Next]_vars => SearchedFirst'
<1> SUFFICES ASSUME TypeInv, SearchedFirst, [Next]_vars PROVE SearchedFirst'
  OBVIOUS
<1>0. /\ step \in [Requests -> Steps] /\ DOMAIN phone = Requests
      /\ DOMAIN before = Requests /\ \A b \in accounts : b.by \in Requests
  BY DEF TypeInv, RequestsTyped, RestTyped, TablesTyped, AccountRow
<1> USE DEF SearchedFirst, Goto
<1>1. ASSUME NEW r \in Requests, SearchAccount(r) PROVE SearchedFirst'
  BY <1>0, <1>1 DEF SearchAccount, tables, inputs
<1>2. ASSUME NEW r \in Requests, AddAccount(r) PROVE SearchedFirst'
  BY <1>0, <1>2 DEF AddAccount, inputs, history
<1>3. ASSUME NEW r \in Requests, CreateUserAccount(r) PROVE SearchedFirst'
  BY <1>0, <1>3 DEF CreateUserAccount, inputs, history
<1>4. ASSUME NEW r \in Requests, RegisterDevice(r) \/ CloseSession(r) PROVE SearchedFirst'
  BY <1>0, <1>4 DEF RegisterDevice, CloseSession, tables, inputs, history
<1>5. ASSUME NEW r \in Requests,
             \/ RemoveCode(r) \/ FindUser(r) \/ CreateUser(r) \/ IssueToken(r)
             \/ SaveDevice(r) \/ LoginFails(r) \/ CountMiss(r)
      PROVE SearchedFirst'
  BY <1>0, <1>5 DEF RemoveCode, FindUser, CreateUser, IssueToken, SaveDevice, LoginFails,
      CountMiss, tables, inputs, history
<1>6. ASSUME NEW r \in Requests, NEW p \in Phones, NEW n \in 1..sent, CompareCode(r, p, n)
      PROVE SearchedFirst'
  BY <1>0, <1>6 DEF CompareCode, tables, history
<1>7. ASSUME NEW r \in Requests, NEW s \in Sessions,
             CheckRight(r, s) \/ CheckWrong(r, s) \/ OpenAccount(r, s)
      PROVE SearchedFirst'
  BY <1>0, <1>7 DEF CheckRight, CheckWrong, OpenAccount, tables, history
<1>8. CASE Crash
  BY <1>0, <1>8 DEF Crash, tables, inputs
<1>9. CASE UNCHANGED <<accounts, step, phone, blind, before>>
  BY <1>0, <1>9
<1> QED
  BY <1>1, <1>2, <1>3, <1>4, <1>5, <1>6, <1>7, <1>8, <1>9
  DEF Next, LoginSteps, AccountSteps, vars, tables, inputs, history, RequestCode,
      CreateVerificationSession, SendVerificationCode, ExpireSession, DeleteDevice

\* Two accounts of one phone come from requests that overlapped, or from a
\* search that failed.
THEOREM SecondAccountsOverlap == Spec => []SecondOverlaps
<1>1. Init => SearchedFirst
  BY DEF Init, SearchedFirst
<1>2. SearchedFirst => SecondOverlaps
  BY DEF SearchedFirst, SecondOverlaps
<1> QED
  BY <1>1, <1>2, SearchedStep, TypesHold, PTL DEF Spec
-----------------------------------------------------------------------------
(* Profiles, accounts and reactions *)

UserKey(u) == <<"users", u, None>>
AccountKey(u) == <<"accounts", u, None>>
ReactionKey(u, m) == <<"message_reactions", u, m>>

Mine(u, m) == {x \in reactions : x.user = u /\ x.on = m}

\* A request that will write a row of its own making or one it has found.
Holds(q) == q.at = "write" /\ q.job.kind = "react" /\ q.found # None

\* The rows of reactions in the table and in the hands of requests.
Known == reactions \cup {request[r].found : r \in {o \in Requests : Holds(request[o])}}

JobFits(job) ==
  /\ job.kind \in {"profile", "token", "delete", "create", "react", "unreact"}
  /\ job.user \in Users
  /\ job.kind \in {"react", "unreact"} => job.on \in Messages
  /\ job.kind = "react" => job.value \in Values

RequestFits(q) ==
  \/ q.at \in {"idle", "done"}
  \/ /\ q.at \in {"find", "check", "write"} /\ JobFits(q.job)
     /\ q.at = "check" => q.job.kind = "profile"
     /\ q = [at |-> q.at, job |-> q.job, found |-> q.found]

\* Unless the row was written meanwhile, it is as the request has found it.
ReadFits(q) ==
  q.at \in {"check", "write"} =>
    /\ q.job.kind = "profile" =>
         /\ q.job.user \in Holders
         /\ UserKey(q.job.user) \notin raced => q.found = profiles[q.job.user]
    /\ q.job.kind \in {"token", "delete"} =>
         (AccountKey(q.job.user) \notin raced => q.job.user \in DOMAIN tokens)
    /\ q.job.kind = "react" =>
         /\ q.found # None => /\ q.found \in Recs!Reactions
                              /\ q.found.user = q.job.user /\ q.found.on = q.job.on
         /\ ReactionKey(q.job.user, q.job.on) \notin raced =>
              Mine(q.job.user, q.job.on) = IF q.found = None THEN {} ELSE {q.found}

\* An id belongs to one user and one message for ever, and to one row at most.
IdsFit ==
  /\ Known \subseteq Recs!Reactions /\ lastId \in Nat
  /\ \A x \in Known : x.id \in 1 .. lastId
  /\ \A x, y \in Known : x.id = y.id => x.user = y.user /\ x.on = y.on
  /\ \A x, y \in reactions : x.id = y.id => x = y

\* The only row of a set has the value; for no value there is none.
IsOne(mine, value) ==
  (\A x, y \in mine : x = y) /\ {x.value : x \in mine} = {value} \ {None}

\* What nobody disturbed is as it was asked for.
OneEach ==
  \A u \in Users, m \in Messages : ReactionKey(u, m) \notin raced =>
    IsOne(Mine(u, m), intended.reactions[<<u, m>>])

RecordsShape ==
  /\ DOMAIN request = Requests /\ DOMAIN profiles = Holders
  /\ intended = [users |-> intended.users, reactions |-> intended.reactions]
  /\ DOMAIN intended.users = Holders
  /\ DOMAIN intended.reactions = Users \X Messages

RecordsInv ==
  /\ RecordsShape
  /\ \A r \in Requests : RequestFits(request[r]) /\ ReadFits(request[r])
  /\ IdsFit /\ OneEach
  /\ Recs!ProfileAsAsked /\ Recs!DeletedStaysGone

-----------------------------------------------------------------------------
LEMMA Keys ==
  ASSUME NEW job, JobFits(job)
  PROVE  LET k == Recs!RowOf(job)
         IN  /\ job.kind = "profile" => k = UserKey(job.user)
             /\ job.kind \in {"token", "delete"} => k = AccountKey(job.user)
             /\ job.kind = "create" => k = AccountKey(None)
             /\ job.kind \in {"react", "unreact"} => k = ReactionKey(job.user, job.on)
<1>1. CASE job.kind = "profile"
  BY <1>1, Zenon DEF Recs!RowOf, UserKey
<1>2. CASE job.kind \in {"token", "delete"}
  BY <1>2, Zenon DEF Recs!RowOf, AccountKey
<1>3. CASE job.kind = "create"
  BY <1>3, Zenon DEF Recs!RowOf, AccountKey
<1>4. CASE job.kind \in {"react", "unreact"}
  BY <1>4, Zenon DEF Recs!RowOf, ReactionKey
<1> QED
  BY <1>1, <1>2, <1>3, <1>4 DEF JobFits

LEMMA KeysDiffer ==
  /\ \A u, v : UserKey(u) # AccountKey(v)
  /\ \A u, v, m : UserKey(u) # ReactionKey(v, m)
  /\ \A u, v, m : AccountKey(u) # ReactionKey(v, m)
  /\ \A u, v : UserKey(u) = UserKey(v) => u = v
  /\ \A u, v : AccountKey(u) = AccountKey(v) => u = v
  /\ \A u, v, m, n : ReactionKey(u, m) = ReactionKey(v, n) => u = v /\ m = n
BY DEF UserKey, AccountKey, ReactionKey

LEMMA RecordsInit == Recs!Parameters /\ Recs!Init => RecordsInv
<1> SUFFICES ASSUME Recs!Parameters, Recs!Init PROVE RecordsInv
  OBVIOUS
<1>1. /\ DOMAIN profiles = Holders /\ reactions = {} /\ lastId = 0 /\ deleted = {} /\ raced = {}
      /\ request = [r \in Requests |-> [at |-> "idle"]]
      /\ intended = [users |-> profiles, reactions |-> [p \in Users \X Messages |-> None]]
  BY DEF Recs!Init
<1>2. intended.users = profiles /\ intended.reactions = [p \in Users \X Messages |-> None]
  BY <1>1
<1>3. RecordsShape
  BY <1>1, <1>2 DEF RecordsShape
<1>4. \A r \in Requests : request[r].at = "idle"
  BY <1>1
<1>5. \A r \in Requests : RequestFits(request[r]) /\ ReadFits(request[r])
  BY <1>4 DEF RequestFits, ReadFits
<1>6. Known = {}
  BY <1>1, <1>4 DEF Known, Holds
<1>7. IdsFit
  BY <1>1, <1>6 DEF IdsFit
<1>8. OneEach
  <2>1. \A u, m : Mine(u, m) = {}
    BY <1>1 DEF Mine
  <2>2. \A u \in Users, m \in Messages : intended.reactions[<<u, m>>] = None
    BY <1>2
  <2> QED
    BY <2>1, <2>2 DEF OneEach, IsOne
<1>9. Recs!ProfileAsAsked /\ Recs!DeletedStaysGone
  BY <1>1, <1>2 DEF Recs!ProfileAsAsked, Recs!DeletedStaysGone
<1> QED
  BY <1>3, <1>5, <1>7, <1>8, <1>9 DEF RecordsInv

\* A step that changes the request only: it begins, reads or fails.
LEMMA ReadStep ==
  ASSUME RecordsInv, NEW r \in Requests, NEW q, RequestFits(q), ReadFits(q),
         Holds(q) => q.found \in Known,
         request' = [request EXCEPT ![r] = q],
         UNCHANGED <<profiles, tokens, reactions, lastId, intended, deleted, raced>>
  PROVE  RecordsInv'
<1>1. /\ DOMAIN request = Requests /\ RecordsShape /\ IdsFit /\ OneEach
      /\ Recs!ProfileAsAsked /\ Recs!DeletedStaysGone
      /\ \A o \in Requests : RequestFits(request[o]) /\ ReadFits(request[o])
  BY DEF RecordsInv, RecordsShape
<1>2. \A o \in Requests : request'[o] = IF o = r THEN q ELSE request[o]
  BY <1>1
<1>3. RecordsShape'
  BY <1>1 DEF RecordsShape
<1>4. ASSUME NEW o \in Requests PROVE RequestFits(request[o])' /\ ReadFits(request[o])'
  <2> SUFFICES ASSUME NEW p, p = request'[o]
               PROVE  RequestFits(request[o])' /\ ReadFits(request[o])'
    OBVIOUS
  <2>1. RequestFits(p) /\ ReadFits(p)
    BY <1>1, <1>2
  <2>2. RequestFits(request[o])'
    BY <2>1 DEF RequestFits
  <2>3. ReadFits(request[o])'
    BY <2>1 DEF ReadFits, Mine
  <2> QED
    BY <2>2, <2>3
<1>5. Known' \subseteq Known
  BY <1>2 DEF Known, Holds
<1>6. IdsFit'
  BY <1>1, <1>5 DEF IdsFit
<1>7. OneEach' /\ Recs!ProfileAsAsked' /\ Recs!DeletedStaysGone'
  BY <1>1 DEF OneEach, Mine, Recs!ProfileAsAsked, Recs!DeletedStaysGone
<1> QED
  BY <1>3, <1>4, <1>6, <1>7 DEF RecordsInv

Over == [at |-> "done"]

\* A step that writes the row k of a request, which is then answered: nobody
\* else is left with a stale row that is not marked as raced.
LEMMA OthersKnow ==
  ASSUME RecordsInv, NEW r \in Requests, NEW k,
         JobFits(request[r].job), k = Recs!RowOf(request[r].job),
         request' = [request EXCEPT ![r] = Over],
         \A x : x # k => (x \in raced' <=> x \in raced),
         Recs!Others(r) # {} => k \in raced',
         \A u \in Holders : UserKey(u) # k => profiles'[u] = profiles[u],
         \A u \in Users : AccountKey(u) # k => (u \in DOMAIN tokens' <=> u \in DOMAIN tokens),
         \A u \in Users, m \in Messages : ReactionKey(u, m) # k => Mine(u, m)' = Mine(u, m)
  PROVE  /\ \A o \in Requests : RequestFits(request[o])' /\ ReadFits(request[o])'
         /\ Known' \subseteq reactions' \cup Known
         /\ DOMAIN request' = Requests
<1>1. /\ DOMAIN request = Requests
      /\ \A o \in Requests : RequestFits(request[o]) /\ ReadFits(request[o])
  BY DEF RecordsInv, RecordsShape
<1>2. \A o \in Requests : request'[o] = IF o = r THEN Over ELSE request[o]
  BY <1>1
<1>3. Over.at = "done"
  BY DEF Over
<1>4. Known' \subseteq reactions' \cup Known
  BY <1>2, <1>3 DEF Known, Holds
<1>5. ASSUME NEW o \in Requests PROVE RequestFits(request[o])' /\ ReadFits(request[o])'
  <2>1. CASE o = r
    BY <1>2, <1>3, <2>1 DEF RequestFits, ReadFits
  <2>2. CASE o # r
    <3> SUFFICES ASSUME NEW p, p = request[o], p = request'[o]
                 PROVE  RequestFits(request[o])' /\ ReadFits(request[o])'
      BY <1>2, <2>2
    <3>1. RequestFits(p) /\ ReadFits(p)
      BY <1>1
    <3>2. RequestFits(request[o])'
      BY <3>1 DEF RequestFits
    <3>3. ReadFits(request[o])'
      <4> SUFFICES ASSUME p.at \in {"check", "write"} PROVE ReadFits(request[o])'
        BY DEF ReadFits
      <4>1. JobFits(p.job)
        BY <3>1 DEF RequestFits
      <4>2. p.job.kind # "unreact" /\ Recs!RowOf(p.job) = k => k \in raced'
        BY <2>2 DEF Recs!Others
      <4>3. p.job.kind = "profile" =>
              /\ p.job.user \in Holders
              /\ UserKey(p.job.user) \notin raced' => p.found = profiles'[p.job.user]
        BY <3>1, <4>1, <4>2, Keys DEF ReadFits
      <4>4. p.job.kind \in {"token", "delete"} =>
              (AccountKey(p.job.user) \notin raced' => p.job.user \in DOMAIN tokens')
        BY <3>1, <4>1, <4>2, Keys DEF ReadFits, JobFits
      <4>5. p.job.kind = "react" =>
              /\ p.found # None => /\ p.found \in Recs!Reactions
                                   /\ p.found.user = p.job.user /\ p.found.on = p.job.on
              /\ ReactionKey(p.job.user, p.job.on) \notin raced' =>
                   Mine(p.job.user, p.job.on)' = IF p.found = None THEN {} ELSE {p.found}
        <5> SUFFICES ASSUME p.job.kind = "react",
                            ReactionKey(p.job.user, p.job.on) \notin raced'
                     PROVE  Mine(p.job.user, p.job.on)' =
                              IF p.found = None THEN {} ELSE {p.found}
          BY <3>1 DEF ReadFits
        <5>1. ReactionKey(p.job.user, p.job.on) # k
          BY <4>1, <4>2, Keys
        <5>2. Mine(p.job.user, p.job.on)' = Mine(p.job.user, p.job.on)
          BY <4>1, <5>1 DEF JobFits
        <5> QED
          BY <3>1, <5>1, <5>2 DEF ReadFits
      <4> QED
        BY <4>3, <4>4, <4>5 DEF ReadFits, Mine, Recs!Reactions
    <3> QED
      BY <3>2, <3>3
  <2> QED
    BY <2>1, <2>2
<1> QED
  BY <1>1, <1>4, <1>5

\* The row with the least id.
LEMMA Least ==
  ASSUME NEW S \in SUBSET Recs!Reactions, S # {}
  PROVE  LET x == CHOOSE x \in S : \A y \in S : x.id <= y.id IN x \in S
<1> DEFINE R == {p \in Nat \X Nat : p[1] < p[2]}
           T == {x.id : x \in S}
<1>1. T \subseteq Nat /\ T # {}
  BY DEF Recs!Reactions
<1>2. \E n \in T : \A m \in T : ~ (<<m, n>> \in R)
  <2> HIDE DEF R, T
  <2>1. IsWellFoundedOn(R, Nat)
    BY NatLessThanWellFounded DEF R, OpToRel
  <2> QED
    BY <1>1, <2>1, WFMin
<1>3. PICK n \in T : \A m \in T : ~ (<<m, n>> \in R)
  BY <1>2 DEF R
<1>4. \A m \in T : n <= m
  <2> SUFFICES ASSUME NEW m \in T PROVE n <= m
    OBVIOUS
  <2>1. n \in Nat /\ m \in Nat
    BY <1>1
  <2>2. m < n => <<m, n>> \in R
    BY <2>1
  <2> QED
    BY <1>3, <2>1, <2>2
<1>5. \E x \in S : \A y \in S : x.id <= y.id
  BY <1>4
<1> QED
  BY <1>5

\* The steps that leave the tables alone.
LEMMA Reads ==
  ASSUME Recs!Parameters, RecordsInv, NEW r \in Requests,
         \/ \E u \in Users :
              \/ \E value \in Recs!Fields : Recs!UpdateProfile(r, u, value)
              \/ \E token \in Values : Recs!UpdateFCMToken(r, u, token)
              \/ Recs!Delete(r, u) \/ Recs!Create(r, u)
              \/ \E m \in Messages, value \in Values : Recs!Add(r, u, m, value)
              \/ \E m \in Messages : Recs!Remove(r, u, m)
         \/ Recs!Fail(r) \/ Recs!FindProfile(r) \/ Recs!CheckUsername(r)
         \/ Recs!FindAccount(r) \/ Recs!FindReaction(r)
  PROVE  RecordsInv'
<1> USE DEF Recs!Goes, Recs!tables
<1> DEFINE job == request[r].job
           same == UNCHANGED <<profiles, tokens, reactions, lastId, intended,
                               deleted, raced>>
<1>a. /\ DOMAIN request = Requests /\ DOMAIN profiles = Holders
      /\ RequestFits(request[r]) /\ ReadFits(request[r]) /\ IdsFit /\ OneEach
  BY DEF RecordsInv, RecordsShape
<1>d. ASSUME Recs!Answer(r), same PROVE RecordsInv'
  <2>1. request' = [request EXCEPT ![r] = Over]
    BY <1>d DEF Recs!Answer, Over
  <2>2. RequestFits(Over) /\ ReadFits(Over) /\ ~Holds(Over)
    BY DEF Over, RequestFits, ReadFits, Holds
  <2> QED
    BY <1>d, <2>1, <2>2, ReadStep
<1>b. ASSUME NEW to \in {"find", "write"}, NEW kind, NEW u \in Users, NEW m, NEW value,
             LET j == Recs!Job(kind, u, m, value)
             IN  /\ Recs!Begin(r, to, j)
                 /\ kind \in {"profile", "token", "delete", "create", "react", "unreact"}
                 /\ to = "write" => kind \in {"create", "unreact"}
                 /\ kind \in {"react", "unreact"} => m \in Messages
                 /\ kind = "react" => value \in Values
      PROVE  RecordsInv'
  <2> DEFINE j == Recs!Job(kind, u, m, value)
             q == [at |-> to, job |-> j, found |-> None]
  <2>1. request' = [request EXCEPT ![r] = q] /\ same
    BY <1>b DEF Recs!Begin
  <2>2. JobFits(j) /\ j.kind = kind
    BY <1>b DEF JobFits, Recs!Job
  <2> HIDE DEF j
  <2>3. q.at = to /\ q.job = j /\ q.found = None
    OBVIOUS
  <2>4. RequestFits(q)
    BY <1>b, <2>2 DEF RequestFits
  <2> HIDE DEF q
  <2>5. ReadFits(q) /\ ~Holds(q)
    BY <1>b, <2>2, <2>3 DEF ReadFits, Holds
  <2> QED
    BY <2>1, <2>4, <2>5, ReadStep
<1>f. ASSUME NEW to \in {"check", "write"}, NEW row, request[r].at \in {"find", "check"},
             Recs!Found(r, to, row)
      PROVE  LET q == [at |-> to, job |-> job, found |-> row]
             IN  /\ request' = [request EXCEPT ![r] = q] /\ JobFits(job)
                 /\ q.at = to /\ q.job = job /\ q.found = row
                 /\ to = "check" => (job.kind = "profile" => RequestFits(q))
                 /\ to = "write" => RequestFits(q)
  <2>1. request[r] = [at |-> request[r].at, job |-> job, found |-> request[r].found]
        /\ JobFits(job)
    BY <1>a, <1>f DEF RequestFits
  <2>2. request' = [request EXCEPT ![r] = [[request[r] EXCEPT !.at = to] EXCEPT !.found = row]]
    BY <1>a, <1>f DEF Recs!Found
  <2> DEFINE half == [at |-> to, job |-> job, found |-> request[r].found]
  <2>4. [request[r] EXCEPT !.at = to] = half
    BY <2>1
  <2>5. [half EXCEPT !.found = row] = [at |-> to, job |-> job, found |-> row]
    OBVIOUS
  <2> HIDE DEF half
  <2>3. [[request[r] EXCEPT !.at = to] EXCEPT !.found = row] =
          [at |-> to, job |-> job, found |-> row]
    BY <2>4, <2>5
  <2> QED
    BY <2>1, <2>2, <2>3 DEF RequestFits
<1>1. ASSUME NEW u \in Users, NEW value \in Recs!Fields, Recs!UpdateProfile(r, u, value)
      PROVE  RecordsInv'
  BY <1>1, <1>b DEF Recs!UpdateProfile
<1>2. ASSUME NEW u \in Users, NEW token \in Values, Recs!UpdateFCMToken(r, u, token)
      PROVE  RecordsInv'
  BY <1>2, <1>b DEF Recs!UpdateFCMToken
<1>3. ASSUME NEW u \in Users, Recs!Delete(r, u) \/ Recs!Create(r, u) PROVE RecordsInv'
  BY <1>3, <1>b DEF Recs!Delete, Recs!Create
<1>4. ASSUME NEW u \in Users, NEW m \in Messages, NEW value \in Values,
             Recs!Add(r, u, m, value)
      PROVE  RecordsInv'
  BY <1>4, <1>b DEF Recs!Add
<1>5. ASSUME NEW u \in Users, NEW m \in Messages, Recs!Remove(r, u, m) PROVE RecordsInv'
  BY <1>5, <1>b DEF Recs!Remove
<1>6. ASSUME Recs!Fail(r) PROVE RecordsInv'
  BY <1>6, <1>d DEF Recs!Fail
<1>7. ASSUME Recs!FindProfile(r) PROVE RecordsInv'
  <2>1. request[r].at = "find" /\ job.kind = "profile" /\ same
    BY <1>7 DEF Recs!FindProfile
  <2>2. CASE job.user \notin DOMAIN profiles
    BY <1>7, <1>d, <2>1, <2>2 DEF Recs!FindProfile
  <2>3. CASE job.user \in DOMAIN profiles
    <3>1. PICK to \in {"check", "write"} : Recs!Found(r, to, profiles[job.user])
      BY <1>7, <2>3 DEF Recs!FindProfile
    <3> DEFINE q == [at |-> to, job |-> job, found |-> profiles[job.user]]
    <3>2. /\ request' = [request EXCEPT ![r] = q] /\ RequestFits(q)
          /\ q.at = to /\ q.job = job /\ q.found = profiles[job.user]
      BY <1>f, <2>1, <3>1
    <3> HIDE DEF q
    <3>3. ReadFits(q) /\ ~Holds(q)
      BY <1>a, <2>1, <2>3, <3>2 DEF ReadFits, Holds
    <3> QED
      BY <2>1, <3>2, <3>3, ReadStep
  <2> QED
    BY <2>2, <2>3
<1>8. ASSUME Recs!CheckUsername(r) PROVE RecordsInv'
  <2>1. request[r].at = "check" /\ job.kind = "profile" /\ same
    BY <1>8 DEF Recs!CheckUsername
  <2>2. CASE Recs!Answer(r)
    BY <1>d, <2>1, <2>2
  <2>3. CASE request' = [request EXCEPT ![r].at = "write"]
    <3> DEFINE q == [request[r] EXCEPT !.at = "write"]
    <3>1. request[r] = [at |-> request[r].at, job |-> job, found |-> request[r].found]
          /\ JobFits(job)
      BY <1>a, <2>1 DEF RequestFits
    <3>2. q = [at |-> "write", job |-> job, found |-> request[r].found]
      BY <3>1
    <3>3. request' = [request EXCEPT ![r] = q]
      BY <1>a, <2>3
    <3> HIDE DEF q
    <3>4. q.at = "write" /\ q.job = job /\ q.found = request[r].found
          /\ q = [at |-> q.at, job |-> q.job, found |-> q.found]
      BY <3>2
    <3>5. RequestFits(q) /\ ReadFits(q) /\ ~Holds(q)
      BY <1>a, <2>1, <3>1, <3>4 DEF RequestFits, ReadFits, Holds
    <3> QED
      BY <2>1, <3>3, <3>5, ReadStep
  <2> QED
    BY <1>8, <2>2, <2>3 DEF Recs!CheckUsername
<1>9. ASSUME Recs!FindAccount(r) PROVE RecordsInv'
  <2>1. request[r].at = "find" /\ job.kind \in {"token", "delete"} /\ same
    BY <1>9 DEF Recs!FindAccount
  <2>2. CASE job.user \notin DOMAIN tokens
    BY <1>9, <1>d, <2>1, <2>2 DEF Recs!FindAccount
  <2>3. CASE job.user \in DOMAIN tokens
    <3>1. Recs!Found(r, "write", None)
      BY <1>9, <2>3 DEF Recs!FindAccount
    <3> DEFINE q == [at |-> "write", job |-> job, found |-> None]
    <3>2. /\ request' = [request EXCEPT ![r] = q] /\ RequestFits(q)
          /\ q.at = "write" /\ q.job = job /\ q.found = None
      BY <1>f, <2>1, <3>1
    <3> HIDE DEF q
    <3>3. ReadFits(q) /\ ~Holds(q)
      BY <2>1, <2>3, <3>2 DEF ReadFits, Holds
    <3> QED
      BY <2>1, <3>2, <3>3, ReadStep
  <2> QED
    BY <2>2, <2>3
<1>10. ASSUME Recs!FindReaction(r) PROVE RecordsInv'
  <2> DEFINE mine == Mine(job.user, job.on)
             row == IF mine = {} THEN None
                    ELSE CHOOSE x \in mine : \A y \in mine : x.id <= y.id
             q == [at |-> "write", job |-> job, found |-> row]
  <2>1. request[r].at = "find" /\ job.kind = "react" /\ same /\ Recs!Found(r, "write", row)
    BY <1>10 DEF Recs!FindReaction, Recs!ReactionsOf, Mine
  <2> HIDE DEF row
  <2>2. /\ request' = [request EXCEPT ![r] = q] /\ RequestFits(q) /\ JobFits(job)
        /\ q.at = "write" /\ q.job = job /\ q.found = row
    BY <1>f, <2>1
  <2>3. mine \in SUBSET Recs!Reactions /\ mine \subseteq reactions
        /\ \A x \in mine : x.user = job.user /\ x.on = job.on
    BY <1>a DEF IdsFit, Known, Mine
  <2>4. mine # {} => row \in mine
    BY <2>3, Least DEF row
  <2>5. mine = {} => row = None
    BY DEF row
  <2>6. row # None => row \in mine
    BY <2>4, <2>5
  <2>7. ReactionKey(job.user, job.on) \notin raced =>
          mine = IF row = None THEN {} ELSE {row}
    <3> SUFFICES ASSUME ReactionKey(job.user, job.on) \notin raced
                 PROVE  mine = IF row = None THEN {} ELSE {row}
      OBVIOUS
    <3>1. job.user \in Users /\ job.on \in Messages
      BY <2>1, <2>2 DEF JobFits
    <3>2. \A x, y \in mine : x = y
      BY <1>a, <3>1 DEF OneEach, IsOne
    <3>3. None \notin Recs!Reactions
      BY DEF Recs!Parameters
    <3> HIDE DEF mine
    <3>4. CASE mine = {}
      BY <2>5, <3>4
    <3>5. CASE mine # {}
      BY <2>3, <2>4, <3>2, <3>3, <3>5
    <3> QED
      BY <3>4, <3>5
  <2> HIDE DEF q
  <2>8. ReadFits(q)
    BY <2>1, <2>2, <2>3, <2>6, <2>7 DEF ReadFits
  <2>9. Holds(q) => q.found \in Known
    BY <2>2, <2>3, <2>6 DEF Holds, Known
  <2> QED
    BY <2>1, <2>2, <2>8, <2>9, ReadStep
<1> QED
  BY <1>1, <1>2, <1>3, <1>4, <1>5, <1>6, <1>7, <1>8, <1>9, <1>10

\* A request that is about to write its row.
LEMMA Writing ==
  ASSUME RecordsInv, NEW r \in Requests, request[r].at = "write"
  PROVE  /\ RecordsShape /\ IdsFit /\ OneEach
         /\ Recs!ProfileAsAsked /\ Recs!DeletedStaysGone
         /\ JobFits(request[r].job) /\ ReadFits(request[r])
BY DEF RecordsInv, RequestFits

\* A request that gives up.
LEMMA GivesUp ==
  ASSUME RecordsInv, NEW r \in Requests, Recs!Answer(r),
         UNCHANGED <<profiles, tokens, reactions, lastId, intended, deleted, raced>>
  PROVE  RecordsInv'
<1>1. request' = [request EXCEPT ![r] = Over]
  BY DEF Recs!Answer, Over
<1>2. RequestFits(Over) /\ ReadFits(Over) /\ ~Holds(Over)
  BY DEF Over, RequestFits, ReadFits, Holds
<1> QED
  BY <1>1, <1>2, ReadStep

\* What the statements leave of the rows in raced.
LEMMA Marks ==
  ASSUME NEW r \in Requests, NEW k, k = Recs!RowOf(request[r].job),
         Recs!Race(r) \/ Recs!RaceOrClear(r)
  PROVE  /\ \A x : x # k => (x \in raced' <=> x \in raced)
         /\ Recs!Others(r) # {} => k \in raced'
         /\ Recs!Race(r) => raced \subseteq raced'
BY DEF Recs!Race, Recs!RaceOrClear

LEMMA SaveProfileStep ==
  ASSUME RecordsInv, NEW r \in Requests, Recs!SaveProfile(r)
  PROVE  RecordsInv'
<1> DEFINE job == request[r].job
           u == job.user
<1>1. /\ request[r].at = "write" /\ job.kind = "profile" /\ Recs!Answer(r)
      /\ UNCHANGED <<tokens, reactions, lastId, deleted>>
      /\ Recs!Saved(r) \/ UNCHANGED <<profiles, intended, raced>>
  BY DEF Recs!SaveProfile, Recs!Goes
<1>2. CASE UNCHANGED <<profiles, intended, raced>>
  BY <1>1, <1>2, GivesUp
<1>3. CASE Recs!Saved(r)
  <2>1. /\ RecordsShape /\ IdsFit /\ OneEach /\ Recs!ProfileAsAsked
        /\ Recs!DeletedStaysGone /\ JobFits(job) /\ ReadFits(request[r])
    BY <1>1, Writing
  <2>2. u \in Users /\ u \in Holders /\ Recs!RowOf(job) = UserKey(u)
    BY <1>1, <2>1, Keys DEF ReadFits, JobFits
  <2>3. /\ \A x : x # UserKey(u) => (x \in raced' <=> x \in raced)
        /\ Recs!Others(r) # {} => UserKey(u) \in raced'
        /\ raced \subseteq raced'
    BY <1>3, <2>2, Marks DEF Recs!Saved
  <2> DEFINE row == Recs!Changed(request[r].found, job.value)
             asked == [f \in {"name", "username"} |->
                         IF job.value[f] # None THEN job.value[f] ELSE intended.users[u][f]]
  <2>4. profiles' = [profiles EXCEPT ![u] = row]
    BY <1>3 DEF Recs!Saved
  <2>5. intended' = [intended EXCEPT !.users = [intended.users EXCEPT ![u] = asked]]
    BY <1>3 DEF Recs!Saved
  <2> HIDE DEF row, asked
  <2>6. /\ intended' = [users |-> intended'.users, reactions |-> intended'.reactions]
        /\ intended'.users = [intended.users EXCEPT ![u] = asked]
        /\ intended'.reactions = intended.reactions
    BY <2>1, <2>5 DEF RecordsShape
  <2>7. /\ \A o \in Requests : RequestFits(request[o])' /\ ReadFits(request[o])'
        /\ Known' \subseteq reactions' \cup Known
        /\ DOMAIN request' = Requests
    <3>1. \A v \in Holders : UserKey(v) # UserKey(u) => profiles'[v] = profiles[v]
      BY <2>1, <2>4 DEF RecordsShape
    <3>2. \A v \in Users, m \in Messages : Mine(v, m)' = Mine(v, m)
      BY <1>1 DEF Mine
    <3>3. request' = [request EXCEPT ![r] = Over]
      BY <1>1 DEF Recs!Answer, Over
    <3> QED
      BY <1>1, <2>1, <2>2, <2>3, <3>1, <3>2, <3>3, OthersKnow
  <2>8. RecordsShape'
    BY <2>1, <2>4, <2>6, <2>7 DEF RecordsShape
  <2>9. IdsFit'
    <3>1. Known' \subseteq Known
      BY <1>1, <2>7 DEF Known
    <3> QED
      BY <1>1, <2>1, <3>1 DEF IdsFit
  <2>10. OneEach'
    <3>1. \A v, m : ReactionKey(v, m) \notin raced' => ReactionKey(v, m) \notin raced
      BY <2>3, KeysDiffer
    <3>2. intended'.reactions = intended.reactions
      BY <2>6
    <3> QED
      BY <1>1, <2>1, <3>1, <3>2 DEF OneEach, Mine
  <2>11. ASSUME NEW v \in Holders, UserKey(v) \notin raced'
         PROVE  profiles'[v] = intended'.users[v]
    <3>1. UserKey(v) \notin raced
      BY <2>3, <2>11
    <3>2. profiles[v] = intended.users[v]
      BY <2>1, <3>1 DEF Recs!ProfileAsAsked, UserKey
    <3>3. CASE v # u
      BY <2>1, <2>4, <2>6, <3>2, <3>3 DEF RecordsShape
    <3>4. CASE v = u
      <4>1. request[r].found = intended.users[u]
        BY <1>1, <2>1, <3>1, <3>2, <3>4 DEF ReadFits
      <4>2. row = asked
        BY <4>1 DEF row, asked, Recs!Changed
      <4> QED
        BY <2>1, <2>2, <2>4, <2>6, <3>4, <4>2 DEF RecordsShape
    <3> QED
      BY <3>3, <3>4
  <2>12. Recs!ProfileAsAsked'
    BY <2>11 DEF Recs!ProfileAsAsked, UserKey
  <2>13. Recs!DeletedStaysGone'
    <3>1. \A v \in deleted \cap DOMAIN tokens : AccountKey(v) \in raced
      BY <2>1 DEF Recs!DeletedStaysGone, AccountKey
    <3>2. \A v \in deleted' \cap DOMAIN tokens' : AccountKey(v) \in raced'
      BY <1>1, <2>3, <3>1
    <3> QED
      BY <3>2 DEF Recs!DeletedStaysGone, AccountKey
  <2> QED
    BY <2>7, <2>8, <2>9, <2>10, <2>12, <2>13 DEF RecordsInv
<1> QED
  BY <1>1, <1>2, <1>3

LEMMA AccountStep ==
  ASSUME RecordsInv, NEW r \in Requests, Recs!SaveToken(r) \/ Recs!DeleteAccount(r)
  PROVE  RecordsInv'
<1> DEFINE job == request[r].job
           u == job.user
<1>1. /\ request[r].at = "write" /\ job.kind \in {"token", "delete"} /\ Recs!Answer(r)
      /\ UNCHANGED <<profiles, reactions, lastId, intended>>
  BY DEF Recs!SaveToken, Recs!DeleteAccount, Recs!Goes
<1>2. /\ RecordsShape /\ IdsFit /\ OneEach /\ Recs!ProfileAsAsked
      /\ Recs!DeletedStaysGone /\ JobFits(job) /\ ReadFits(request[r])
  BY <1>1, Writing
<1>3. u \in Users /\ Recs!RowOf(job) = AccountKey(u)
  BY <1>1, <1>2, Keys DEF JobFits
<1>4. /\ \A x : x # AccountKey(u) => (x \in raced' <=> x \in raced)
      /\ Recs!Others(r) # {} => AccountKey(u) \in raced'
      /\ Recs!Race(r) => raced \subseteq raced'
  BY <1>3, Marks DEF Recs!SaveToken, Recs!DeleteAccount
<1>5. \A v : v # u => (v \in DOMAIN tokens' <=> v \in DOMAIN tokens)
  BY DEF Recs!SaveToken, Recs!DeleteAccount
<1>6. /\ \A o \in Requests : RequestFits(request[o])' /\ ReadFits(request[o])'
      /\ Known' \subseteq reactions' \cup Known
      /\ DOMAIN request' = Requests
  <2>1. \A v \in Users : AccountKey(v) # AccountKey(u) =>
                           (v \in DOMAIN tokens' <=> v \in DOMAIN tokens)
    BY <1>5
  <2>2. \A v \in Users, m \in Messages : Mine(v, m)' = Mine(v, m)
    BY <1>1 DEF Mine
  <2>3. request' = [request EXCEPT ![r] = Over]
    BY <1>1 DEF Recs!Answer, Over
  <2>4. \A v \in Holders : profiles'[v] = profiles[v]
    BY <1>1
  <2> QED
    <3>1. JobFits(request[r].job) /\ AccountKey(u) = Recs!RowOf(request[r].job)
      BY <1>2, <1>3
    <3> HIDE DEF u
    <3> QED
      BY <1>4, <3>1, <2>1, <2>2, <2>3, <2>4, OthersKnow
<1>7. RecordsShape'
  BY <1>1, <1>2, <1>6 DEF RecordsShape
<1>8. IdsFit'
  <2>1. Known' \subseteq Known
    BY <1>1, <1>6 DEF Known
  <2> QED
    BY <1>1, <1>2, <2>1 DEF IdsFit
<1>9. OneEach'
  <2>1. \A v, m : ReactionKey(v, m) \notin raced' => ReactionKey(v, m) \notin raced
    BY <1>4, KeysDiffer
  <2> QED
    BY <1>1, <1>2, <2>1 DEF OneEach, Mine
<1>10. Recs!ProfileAsAsked'
  <2>1. \A v \in Holders : UserKey(v) \notin raced => profiles[v] = intended.users[v]
    BY <1>2 DEF Recs!ProfileAsAsked, UserKey
  <2>2. \A v \in Holders : UserKey(v) \notin raced' => profiles'[v] = intended'.users[v]
    <3>1. \A v : UserKey(v) \notin raced' => UserKey(v) \notin raced
      BY <1>4, KeysDiffer
    <3> QED
      BY <1>1, <2>1, <3>1
  <2> QED
    BY <2>2 DEF Recs!ProfileAsAsked, UserKey
<1>11. Recs!DeletedStaysGone'
  <2>1. \A v \in deleted \cap DOMAIN tokens : AccountKey(v) \in raced
    BY <1>2 DEF Recs!DeletedStaysGone, AccountKey
  <2>2. ASSUME NEW v \in deleted' \cap DOMAIN tokens' PROVE AccountKey(v) \in raced'
    <3>1. CASE v # u
      <4>1. v \in deleted
        BY <2>2, <3>1 DEF Recs!SaveToken, Recs!DeleteAccount
      <4> QED
        BY <1>4, <1>5, <2>1, <2>2, <3>1, <4>1, KeysDiffer
    <3>2. CASE v = u
      <4>1. CASE Recs!DeleteAccount(r)
        BY <2>2, <3>2, <4>1 DEF Recs!DeleteAccount
      <4>2. CASE Recs!SaveToken(r)
        <5>1. v \in deleted /\ job.kind = "token" /\ raced \subseteq raced'
          BY <1>4, <2>2, <4>2 DEF Recs!SaveToken, Recs!Goes
        <5>2. AccountKey(u) \in raced
          BY <1>1, <1>2, <2>1, <3>2, <5>1 DEF ReadFits
        <5> QED
          BY <3>2, <5>1, <5>2
      <4> QED
        BY <4>1, <4>2
    <3> QED
      BY <3>1, <3>2
  <2> QED
    BY <2>2 DEF Recs!DeletedStaysGone, AccountKey
<1> QED
  BY <1>6, <1>7, <1>8, <1>9, <1>10, <1>11 DEF RecordsInv

\* A step that writes the reactions of a user to a message.
LEMMA ReactionWritten ==
  ASSUME RecordsInv, NEW r \in Requests, NEW value, NEW u, NEW m,
         request[r].at = "write", request[r].job.kind \in {"react", "unreact"},
         u = request[r].job.user, m = request[r].job.on,
         Recs!Answer(r), Recs!Race(r) \/ Recs!RaceOrClear(r),
         UNCHANGED <<profiles, tokens, deleted>>,
         intended' = [intended EXCEPT !.reactions[<<u, m>>] = value],
         \A v, n : ReactionKey(v, n) # ReactionKey(u, m) => Mine(v, n)' = Mine(v, n),
         ReactionKey(u, m) \notin raced' => IsOne(Mine(u, m)', value),
         Known' \subseteq reactions' \cup Known => IdsFit'
  PROVE  RecordsInv'
<1> DEFINE k == ReactionKey(u, m)
           job == request[r].job
<1>1. /\ RecordsShape /\ OneEach /\ Recs!ProfileAsAsked
      /\ Recs!DeletedStaysGone /\ JobFits(job)
  BY Writing
<1>2. u \in Users /\ m \in Messages /\ k = Recs!RowOf(job)
  BY <1>1, Keys DEF JobFits
<1>3. /\ \A x : x # k => (x \in raced' <=> x \in raced)
      /\ Recs!Others(r) # {} => k \in raced'
  BY <1>2, Marks
<1>4. /\ intended' = [users |-> intended'.users, reactions |-> intended'.reactions]
      /\ intended'.users = intended.users
      /\ intended'.reactions = [intended.reactions EXCEPT ![<<u, m>>] = value]
  BY <1>1 DEF RecordsShape
<1>5. /\ \A o \in Requests : RequestFits(request[o])' /\ ReadFits(request[o])'
      /\ Known' \subseteq reactions' \cup Known
      /\ DOMAIN request' = Requests
  <2>1. request' = [request EXCEPT ![r] = Over]
    BY DEF Recs!Answer, Over
  <2>2. \A v \in Users, n \in Messages : ReactionKey(v, n) # k => Mine(v, n)' = Mine(v, n)
    OBVIOUS
  <2>3. \A v \in Users : v \in DOMAIN tokens' <=> v \in DOMAIN tokens
    OBVIOUS
  <2>4. \A v \in Holders : profiles'[v] = profiles[v]
    OBVIOUS
  <2> HIDE DEF k, job
  <2>5. JobFits(request[r].job) /\ k = Recs!RowOf(request[r].job)
    BY <1>1, <1>2 DEF job
  <2> QED
    BY <1>3, <2>1, <2>2, <2>3, <2>4, <2>5, OthersKnow
<1>6. RecordsShape'
  BY <1>1, <1>4, <1>5 DEF RecordsShape
<1>7. OneEach'
  <2> SUFFICES ASSUME NEW v \in Users, NEW n \in Messages,
                      ReactionKey(v, n) \notin raced'
               PROVE  IsOne(Mine(v, n)', intended'.reactions[<<v, n>>])
    BY DEF OneEach
  <2>1. CASE ReactionKey(v, n) = k
    <3>1. v = u /\ n = m
      BY <2>1, KeysDiffer
    <3>2. intended'.reactions[<<u, m>>] = value
      BY <1>1, <1>2, <1>4 DEF RecordsShape
    <3> QED
      BY <3>1, <3>2
  <2>2. CASE ReactionKey(v, n) # k
    <3>1. Mine(v, n)' = Mine(v, n) /\ ReactionKey(v, n) \notin raced
      BY <1>3, <2>2
    <3>2. <<v, n>> # <<u, m>>
      BY <2>2
    <3>3. intended'.reactions[<<v, n>>] = intended.reactions[<<v, n>>]
      BY <1>1, <1>4, <3>2 DEF RecordsShape
    <3>4. IsOne(Mine(v, n), intended.reactions[<<v, n>>])
      BY <1>1, <3>1 DEF OneEach
    <3> QED
      BY <3>1, <3>3, <3>4
  <2> QED
    BY <2>1, <2>2
<1>8. Recs!ProfileAsAsked'
  <2>1. \A v \in Holders : UserKey(v) \notin raced => profiles[v] = intended.users[v]
    BY <1>1 DEF Recs!ProfileAsAsked, UserKey
  <2>2. \A v : UserKey(v) \notin raced' => UserKey(v) \notin raced
    BY <1>3, KeysDiffer
  <2>3. \A v \in Holders : UserKey(v) \notin raced' => profiles'[v] = intended'.users[v]
    BY <1>4, <2>1, <2>2
  <2> QED
    BY <2>3 DEF Recs!ProfileAsAsked, UserKey
<1>9. Recs!DeletedStaysGone'
  <2>1. \A v \in deleted \cap DOMAIN tokens : AccountKey(v) \in raced
    BY <1>1 DEF Recs!DeletedStaysGone, AccountKey
  <2>2. \A v \in deleted' \cap DOMAIN tokens' : AccountKey(v) \in raced'
    BY <1>3, <2>1, KeysDiffer
  <2> QED
    BY <2>2 DEF Recs!DeletedStaysGone, AccountKey
<1> QED
  BY <1>5, <1>6, <1>7, <1>8, <1>9 DEF RecordsInv

LEMMA SaveReactionStep ==
  ASSUME Recs!Parameters, RecordsInv, NEW r \in Requests, Recs!SaveReaction(r)
  PROVE  RecordsInv'
<1> SUFFICES ASSUME NEW u, u = request[r].job.user, NEW m, m = request[r].job.on
             PROVE  RecordsInv'
  OBVIOUS
<1> DEFINE job == request[r].job
           found == request[r].found
           id == IF found = None THEN lastId + 1 ELSE found.id
           row == [id |-> id, user |-> u, on |-> m, value |-> job.value]
           k == ReactionKey(u, m)
<1>1. /\ request[r].at = "write" /\ job.kind = "react"
      /\ reactions' = {x \in reactions : x.id # id} \cup {row}
      /\ lastId' = IF found = None THEN id ELSE lastId
      /\ intended' = [intended EXCEPT !.reactions[<<u, m>>] = job.value]
      /\ Recs!Race(r) /\ Recs!Answer(r)
      /\ UNCHANGED <<profiles, tokens, deleted>>
  BY DEF Recs!SaveReaction, Recs!Goes
<1>2. /\ IdsFit /\ JobFits(job) /\ ReadFits(request[r])
  BY <1>1, Writing
<1>3. u \in Users /\ m \in Messages /\ job.value \in Values /\ job.value # None
  BY <1>1, <1>2 DEF JobFits, Recs!Parameters
<1>4. found # None => found \in Known /\ found.user = u /\ found.on = m
  BY <1>1, <1>2 DEF ReadFits, Known, Holds
<1>5. /\ id \in Nat /\ id \in 1 .. lastId' /\ lastId' \in Nat /\ lastId <= lastId'
      /\ \A x \in Known : x.id = id => x.user = u /\ x.on = m
  <2>1. lastId \in Nat /\ \A x \in Known : x.id \in Nat /\ x.id \in 1 .. lastId
    BY <1>2 DEF IdsFit, Recs!Reactions
  <2>2. CASE found = None
    BY <1>1, <2>1, <2>2
  <2>3. CASE found # None
    <3>1. id = found.id /\ lastId' = lastId
      BY <1>1, <2>3
    <3>2. \A x \in Known : x.id = found.id => x.user = found.user /\ x.on = found.on
      BY <1>2, <1>4, <2>3 DEF IdsFit
    <3> QED
      BY <1>4, <2>1, <2>3, <3>1, <3>2
  <2> QED
    BY <2>2, <2>3
<1> HIDE DEF id
<1>6. row \in Recs!Reactions /\ row.id = id /\ row.user = u /\ row.on = m
      /\ row.value = job.value
  BY <1>3, <1>5 DEF Recs!Reactions
<1> HIDE DEF row
<1>7. reactions \subseteq Known
  BY DEF Known
<1>8. \A v, n : ReactionKey(v, n) # k => Mine(v, n)' = Mine(v, n)
  <2> SUFFICES ASSUME NEW v, NEW n, ReactionKey(v, n) # k PROVE Mine(v, n)' = Mine(v, n)
    OBVIOUS
  <2>1. v # u \/ n # m
    OBVIOUS
  <2>2. \A x : x \in reactions' /\ x.user = v /\ x.on = n
               <=> x \in reactions /\ x.user = v /\ x.on = n
    BY <1>1, <1>5, <1>6, <1>7, <2>1
  <2> QED
    BY <2>2 DEF Mine
<1>9. k \notin raced' => IsOne(Mine(u, m)', job.value)
  <2> SUFFICES ASSUME k \notin raced' PROVE IsOne(Mine(u, m)', job.value)
    OBVIOUS
  <2>1. k = Recs!RowOf(job)
    BY <1>1, <1>2, Keys
  <2>2. k \notin raced
    BY <1>1, <2>1, Marks
  <2>3. Mine(u, m) = IF found = None THEN {} ELSE {found}
    BY <1>1, <1>2, <2>2 DEF ReadFits
  <2>4. \A x \in reactions : x.user = u /\ x.on = m => x.id = id
    BY <2>3 DEF Mine, id
  <2>5. Mine(u, m)' = {row}
    BY <1>1, <1>6, <2>4 DEF Mine
  <2>6. IsOne({row}, job.value)
    BY <1>3, <1>6 DEF IsOne
  <2> QED
    BY <2>5, <2>6
<1>10. ASSUME Known' \subseteq reactions' \cup Known PROVE IdsFit'
  <2>1. Known' \subseteq Known \cup {row}
    BY <1>1, <1>7, <1>10
  <2>2. Known' \subseteq Recs!Reactions /\ lastId' \in Nat
    BY <1>2, <1>5, <1>6, <2>1 DEF IdsFit
  <2>3. \A x \in Known : x.id \in 1 .. lastId /\ lastId \in Nat
    BY <1>2 DEF IdsFit, Recs!Reactions
  <2>4. \A x \in Known' : x.id \in 1 .. lastId'
    BY <1>5, <1>6, <2>1, <2>3
  <2>5. \A x, y \in Known' : x.id = y.id => x.user = y.user /\ x.on = y.on
    BY <1>2, <1>5, <1>6, <2>1 DEF IdsFit
  <2>6. \A x, y \in reactions' : x.id = y.id => x = y
    BY <1>1, <1>2, <1>6 DEF IdsFit
  <2> QED
    BY <2>2, <2>4, <2>5, <2>6 DEF IdsFit, Recs!Reactions
<1>11. job.kind \in {"react", "unreact"} /\ (Recs!Race(r) \/ Recs!RaceOrClear(r))
  BY <1>1
<1> QED
  BY <1>1, <1>8, <1>9, <1>10, <1>11, ReactionWritten

LEMMA RemoveReactionStep ==
  ASSUME RecordsInv, NEW r \in Requests, Recs!RemoveReaction(r)
  PROVE  RecordsInv'
<1> SUFFICES ASSUME NEW u, u = request[r].job.user, NEW m, m = request[r].job.on
             PROVE  RecordsInv'
  OBVIOUS
<1> DEFINE job == request[r].job
           k == ReactionKey(u, m)
<1>1. /\ request[r].at = "write" /\ job.kind = "unreact"
      /\ reactions' = reactions \ Mine(u, m)
      /\ lastId' = lastId
      /\ intended' = [intended EXCEPT !.reactions[<<u, m>>] = None]
      /\ Recs!RaceOrClear(r) /\ Recs!Answer(r)
      /\ UNCHANGED <<profiles, tokens, deleted>>
  BY DEF Recs!RemoveReaction, Recs!Goes, Recs!ReactionsOf, Mine
<1>2. IdsFit
  BY <1>1, Writing
<1>3. \A v, n : ReactionKey(v, n) # k => Mine(v, n)' = Mine(v, n)
  <2> SUFFICES ASSUME NEW v, NEW n, ReactionKey(v, n) # k PROVE Mine(v, n)' = Mine(v, n)
    OBVIOUS
  <2>1. v # u \/ n # m
    OBVIOUS
  <2> QED
    BY <1>1, <2>1 DEF Mine
<1>4. IsOne(Mine(u, m)', None)
  <2>1. Mine(u, m)' = {}
    BY <1>1 DEF Mine
  <2>2. IsOne({}, None)
    BY DEF IsOne
  <2> QED
    BY <2>1, <2>2
<1>5. ASSUME Known' \subseteq reactions' \cup Known PROVE IdsFit'
  <2>1. Known' \subseteq Known /\ reactions' \subseteq reactions
    BY <1>1, <1>5 DEF Known
  <2> QED
    BY <1>1, <1>2, <2>1 DEF IdsFit
<1>6. job.kind \in {"react", "unreact"} /\ (Recs!Race(r) \/ Recs!RaceOrClear(r))
  BY <1>1
<1> QED
  BY <1>1, <1>3, <1>4, <1>5, <1>6, ReactionWritten

LEMMA RecordsStep ==
  Recs!Parameters /\ RecordsInv /\ [Recs!Next]_(Recs!vars) => RecordsInv'
<1> SUFFICES ASSUME Recs!Parameters, RecordsInv, [Recs!Next]_(Recs!vars) PROVE RecordsInv'
  OBVIOUS
<1>1. CASE UNCHANGED Recs!vars
  <2>1. /\ request' = request
        /\ UNCHANGED <<profiles, tokens, reactions, lastId, intended, deleted, raced>>
    BY <1>1 DEF Recs!vars, Recs!tables
  <2>2. RecordsShape' /\ OneEach' /\ Recs!ProfileAsAsked' /\ Recs!DeletedStaysGone'
    BY <2>1 DEF RecordsInv, RecordsShape, OneEach, Mine,
                Recs!ProfileAsAsked, Recs!DeletedStaysGone
  <2>4. IdsFit'
    <3>1. Known' = Known
      BY <2>1 DEF Known, Holds
    <3> QED
      BY <2>1, <3>1 DEF RecordsInv, IdsFit
  <2>3. ASSUME NEW r \in Requests PROVE RequestFits(request[r])' /\ ReadFits(request[r])'
    <3> SUFFICES ASSUME NEW p, p = request[r], p = request'[r]
                 PROVE  RequestFits(request[r])' /\ ReadFits(request[r])'
      BY <2>1
    <3>1. RequestFits(p) /\ ReadFits(p)
      BY DEF RecordsInv
    <3>2. RequestFits(request[r])'
      BY <3>1 DEF RequestFits
    <3>3. ReadFits(request[r])'
      BY <2>1, <3>1 DEF ReadFits, Mine
    <3> QED
      BY <3>2, <3>3
  <2> QED
    BY <2>2, <2>3, <2>4 DEF RecordsInv
<1>2. ASSUME NEW r \in Requests, Recs!CreateAccount(r) PROVE RecordsInv'
  BY <1>2, GivesUp DEF Recs!CreateAccount
<1>3. CASE Recs!Next
  BY <1>2, <1>3, Reads, SaveProfileStep, AccountStep, SaveReactionStep,
     RemoveReactionStep DEF Recs!Next, Recs!Steps
<1> QED
  BY <1>1, <1>3

LEMMA RecordsInvariant ==
  ASSUME Recs!Parameters
  PROVE  Recs!Spec => []RecordsInv
<1>1. Recs!Init => RecordsInv
  BY RecordsInit
<1>2. RecordsInv /\ [Recs!Next]_(Recs!vars) => RecordsInv'
  BY RecordsStep
<1> QED
  BY <1>1, <1>2, PTL DEF Recs!Spec

LEMMA OneRow ==
  ASSUME NEW S, \A x, y \in S : x = y
  PROVE  Recs!Cardinality(S) <= 1
<1>1. Recs!Cardinality(S) = Cardinality(S)
  BY DEF Recs!Cardinality, Cardinality
<1>2. CASE S = {}
  BY <1>1, <1>2, FS_EmptySet
<1>3. CASE S # {}
  <2>1. PICK x : S = {x}
    BY <1>3
  <2>2. Cardinality({x}) = 1
    BY FS_Singleton
  <2> QED
    BY <1>1, <2>1, <2>2
<1> QED
  BY <1>2, <1>3

\* What a user set in his profile, the one reaction he asked for last and the
\* deletion of his account are lost only to requests that had read the row
\* before it was written: UpdateProfile, AddReaction and UpdateFCMToken search
\* and save without a transaction, and nothing else in them loses a write.
THEOREM RecordsLostOnlyToOverlap ==
  ASSUME Recs!Parameters
  PROVE  Recs!Spec => []Recs!LostOnlyToOverlap
<1>1. RecordsInv => Recs!LostOnlyToOverlap
  <2> SUFFICES ASSUME RecordsInv PROVE Recs!LostOnlyToOverlap
    OBVIOUS
  <2>1. Recs!ProfileAsAsked /\ Recs!DeletedStaysGone /\ OneEach
    BY DEF RecordsInv
  <2>2. Recs!ReactionAsAsked
    <3>1. ASSUME NEW u \in Users, NEW m \in Messages, ReactionKey(u, m) \notin raced
          PROVE  /\ Recs!Cardinality(Mine(u, m)) <= 1
                 /\ {x.value : x \in Mine(u, m)} =
                      {intended.reactions[<<u, m>>]} \ {None}
      <4>1. IsOne(Mine(u, m), intended.reactions[<<u, m>>])
        BY <2>1, <3>1 DEF OneEach
      <4>2. Recs!Cardinality(Mine(u, m)) <= 1
        BY <4>1, OneRow DEF IsOne
      <4> QED
        BY <4>1, <4>2 DEF IsOne
    <3> QED
      BY <3>1, Zenon DEF Recs!ReactionAsAsked, ReactionKey, Mine
  <2> QED
    BY <2>1, <2>2 DEF Recs!LostOnlyToOverlap
<1> QED
  BY <1>1, RecordsInvariant, PTL

-----------------------------------------------------------------------------
ProfileRows == [name : Values \cup {None}, username : Values \cup Holders]

RequestTyped(q) ==
  /\ q.at \in {"idle", "find", "check", "write", "done"}
  /\ q.at \in {"find", "check", "write"} => q.job \in Recs!Jobs
  /\ q.at \in {"check", "write"} =>
       /\ q.job.kind = "profile" => q.found \in ProfileRows
       /\ q.job.kind \in {"token", "delete"} => q.job.user \in Holders

ProfilesTyped ==
  /\ \A u \in Holders : profiles[u] \in ProfileRows
  /\ \A u, v \in Holders : profiles[u].username = profiles[v].username => u = v

TokensTyped ==
  \A u \in DOMAIN tokens : u \in Holders /\ tokens[u] \in Values \cup {None}

\* What the types need beside RecordsInv.
RecordsTyped ==
  /\ ProfilesTyped /\ TokensTyped
  /\ nameless \in BOOLEAN
  /\ \A r \in Requests : RequestTyped(request[r])
  /\ deleted \subseteq Users /\ raced \subseteq Recs!RowIds

LEMMA JobTyped ==
  ASSUME NEW job \in Recs!Jobs
  PROVE  /\ JobFits(job)
         /\ job.kind = "profile" => job.value \in Recs!Fields
         /\ job.kind = "token" => job.value \in Values
BY DEF Recs!Jobs, JobFits

LEMMA RowIsId ==
  ASSUME NEW job, JobFits(job)
  PROVE  Recs!RowOf(job) \in Recs!RowIds
<1>1. CASE job.kind = "profile"
  BY <1>1, Keys DEF JobFits, UserKey, Recs!RowIds
<1>2. CASE job.kind \in {"token", "delete"}
  BY <1>2, Keys DEF JobFits, AccountKey, Recs!RowIds
<1>3. CASE job.kind = "create"
  BY <1>3, Keys DEF JobFits, AccountKey, Recs!RowIds
<1>4. CASE job.kind \in {"react", "unreact"}
  BY <1>4, Keys DEF JobFits, ReactionKey, Recs!RowIds
<1> QED
  BY <1>1, <1>2, <1>3, <1>4 DEF JobFits

LEMMA TypedInit == Recs!Parameters /\ Recs!Init => RecordsTyped
<1> SUFFICES ASSUME Recs!Parameters, Recs!Init PROVE RecordsTyped
  OBVIOUS
<1>1. /\ profiles = [u \in Holders |-> Recs!Row(None, u)]
      /\ tokens = [u \in Holders |-> None]
      /\ nameless = FALSE /\ deleted = {} /\ raced = {}
      /\ request = [r \in Requests |-> [at |-> "idle"]]
  BY DEF Recs!Init
<1>2. \A r \in Requests : request[r].at = "idle"
  BY <1>1
<1>3. \A r \in Requests : RequestTyped(request[r])
  BY <1>2 DEF RequestTyped
<1>4. \A u \in Holders : profiles[u] = [name |-> None, username |-> u]
  BY <1>1 DEF Recs!Row
<1>5. ProfilesTyped
  <2>1. ASSUME NEW u \in Holders
        PROVE  profiles[u] \in ProfileRows /\ profiles[u].username = u
    <3> DEFINE row == [name |-> None, username |-> u]
    <3>1. row \in ProfileRows /\ row.username = u
      BY DEF ProfileRows
    <3> HIDE DEF row
    <3>2. profiles[u] = row
      BY <1>4 DEF row
    <3> QED
      BY <3>1, <3>2
  <2> QED
    BY <2>1 DEF ProfilesTyped
<1>6. TokensTyped
  BY <1>1 DEF TokensTyped
<1> QED
  BY <1>1, <1>3, <1>5, <1>6 DEF RecordsTyped

\* A step of one request that keeps the typed tables.
LEMMA TypedMove ==
  ASSUME RecordsTyped, RecordsInv, NEW r \in Requests, NEW q, RequestTyped(q),
         request' = [request EXCEPT ![r] = q],
         ProfilesTyped', TokensTyped', nameless' \in BOOLEAN,
         deleted' \subseteq Users, raced' \subseteq Recs!RowIds
  PROVE  RecordsTyped'
<1>1. DOMAIN request = Requests
  BY DEF RecordsInv, RecordsShape
<1>2. \A o \in Requests : request'[o] = q \/ request'[o] = request[o]
  BY <1>1
<1>3. \A o \in Requests : RequestTyped(request'[o])
  BY <1>2 DEF RecordsTyped
<1> QED
  BY <1>3 DEF RecordsTyped

LEMMA TypedRead ==
  ASSUME RecordsTyped, RecordsInv, NEW r \in Requests, NEW q, RequestTyped(q),
         request' = [request EXCEPT ![r] = q],
         UNCHANGED <<profiles, tokens, nameless, deleted, raced>>
  PROVE  RecordsTyped'
<1>1. ProfilesTyped' /\ TokensTyped' /\ nameless' \in BOOLEAN
  BY DEF RecordsTyped, ProfilesTyped, TokensTyped
<1>2. deleted' \subseteq Users /\ raced' \subseteq Recs!RowIds
  BY DEF RecordsTyped
<1> QED
  BY <1>1, <1>2, TypedMove

LEMMA TypedAnswer ==
  ASSUME NEW r \in Requests, Recs!Answer(r)
  PROVE  request' = [request EXCEPT ![r] = Over] /\ RequestTyped(Over)
BY DEF Recs!Answer, Over, RequestTyped

\* The reads and the first steps.
LEMMA TypedReads ==
  ASSUME Recs!Parameters, RecordsTyped, RecordsInv, NEW r \in Requests,
         \/ \E u \in Users :
              \/ \E value \in Recs!Fields : Recs!UpdateProfile(r, u, value)
              \/ \E token \in Values : Recs!UpdateFCMToken(r, u, token)
              \/ Recs!Delete(r, u) \/ Recs!Create(r, u)
              \/ \E m \in Messages, value \in Values : Recs!Add(r, u, m, value)
              \/ \E m \in Messages : Recs!Remove(r, u, m)
         \/ Recs!Fail(r) \/ Recs!FindProfile(r) \/ Recs!CheckUsername(r)
         \/ Recs!FindAccount(r) \/ Recs!FindReaction(r)
  PROVE  RecordsTyped'
<1> DEFINE same == UNCHANGED <<profiles, tokens, nameless, deleted, raced>>
           job == request[r].job
<1>1. ASSUME Recs!Answer(r), same PROVE RecordsTyped'
  BY <1>1, TypedAnswer, TypedRead
<1>2. ASSUME NEW to \in {"find", "write"}, NEW kind, NEW u \in Users, NEW m, NEW value,
             Recs!Begin(r, to, Recs!Job(kind, u, m, value)),
             Recs!Job(kind, u, m, value) \in Recs!Jobs,
             to = "write" => kind \in {"create", "unreact"}
      PROVE  RecordsTyped'
  <2> SUFFICES ASSUME NEW j, j = Recs!Job(kind, u, m, value) PROVE RecordsTyped'
    OBVIOUS
  <2> DEFINE q == [at |-> to, job |-> j, found |-> None]
  <2>1. request' = [request EXCEPT ![r] = q] /\ same
    BY <1>2 DEF Recs!Begin, Recs!tables
  <2>2. j.kind = kind /\ j \in Recs!Jobs
    BY <1>2 DEF Recs!Job
  <2>3. RequestTyped(q)
    BY <1>2, <2>2 DEF RequestTyped
  <2> QED
    BY <2>1, <2>3, TypedRead
<1>3. ASSUME NEW to \in {"check", "write"}, NEW row, request[r].at = "find",
             Recs!Found(r, to, row), same,
             job.kind = "profile" => row \in ProfileRows,
             job.kind \in {"token", "delete"} => job.user \in Holders
      PROVE  RecordsTyped'
  <2>1. /\ DOMAIN request = Requests /\ RequestTyped(request[r])
        /\ request[r] = [at |-> "find", job |-> job, found |-> request[r].found]
    BY <1>3 DEF RecordsInv, RecordsShape, RecordsTyped, RequestFits
  <2> DEFINE half == [at |-> to, job |-> job, found |-> request[r].found]
             q == [at |-> to, job |-> job, found |-> row]
  <2>2. request' = [request EXCEPT ![r] = [[request[r] EXCEPT !.at = to] EXCEPT !.found = row]]
    BY <1>3, <2>1 DEF Recs!Found
  <2>3. [request[r] EXCEPT !.at = to] = half
    BY <2>1
  <2>4. [half EXCEPT !.found = row] = q
    OBVIOUS
  <2> HIDE DEF half
  <2>5. request' = [request EXCEPT ![r] = q]
    BY <2>2, <2>3, <2>4
  <2>6. RequestTyped(q)
    BY <1>3, <2>1 DEF RequestTyped
  <2> QED
    BY <1>3, <2>5, <2>6, TypedRead
<1> USE DEF Recs!Job, Recs!Jobs
<1>4. ASSUME NEW u \in Users, NEW value \in Recs!Fields, Recs!UpdateProfile(r, u, value)
      PROVE  RecordsTyped'
  BY <1>4, <1>2 DEF Recs!UpdateProfile
<1>5. ASSUME NEW u \in Users, NEW token \in Values, Recs!UpdateFCMToken(r, u, token)
      PROVE  RecordsTyped'
  BY <1>5, <1>2 DEF Recs!UpdateFCMToken
<1>6. ASSUME NEW u \in Users, Recs!Delete(r, u) PROVE RecordsTyped'
  BY <1>6, <1>2 DEF Recs!Delete
<1>7. ASSUME NEW u \in Users, Recs!Create(r, u) PROVE RecordsTyped'
  BY <1>7, <1>2 DEF Recs!Create
<1>8. ASSUME NEW u \in Users, NEW m \in Messages, NEW value \in Values,
             Recs!Add(r, u, m, value)
      PROVE  RecordsTyped'
  BY <1>8, <1>2 DEF Recs!Add
<1>9. ASSUME NEW u \in Users, NEW m \in Messages, Recs!Remove(r, u, m) PROVE RecordsTyped'
  BY <1>9, <1>2 DEF Recs!Remove
<1> HIDE DEF Recs!Job, Recs!Jobs
<1>10. ASSUME Recs!Fail(r) PROVE RecordsTyped'
  BY <1>1, <1>10 DEF Recs!Fail, Recs!tables
<1>11. ASSUME Recs!FindProfile(r) PROVE RecordsTyped'
  <2>1. request[r].at = "find" /\ job.kind = "profile" /\ same
    BY <1>11 DEF Recs!FindProfile, Recs!Goes, Recs!tables
  <2>2. CASE Recs!Answer(r)
    BY <1>1, <2>1, <2>2
  <2>3. CASE job.user \in DOMAIN profiles
             /\ \E to \in {"check", "write"} : Recs!Found(r, to, profiles[job.user])
    <3>1. profiles[job.user] \in ProfileRows
      BY <2>3 DEF RecordsInv, RecordsShape, RecordsTyped, ProfilesTyped
    <3> QED
      BY <1>3, <2>1, <2>3, <3>1
  <2> QED
    BY <1>11, <2>2, <2>3 DEF Recs!FindProfile
<1>12. ASSUME Recs!CheckUsername(r) PROVE RecordsTyped'
  <2>1. request[r].at = "check" /\ same
    BY <1>12 DEF Recs!CheckUsername, Recs!Goes, Recs!tables
  <2>2. CASE Recs!Answer(r)
    BY <1>1, <2>1, <2>2
  <2>3. CASE request' = [request EXCEPT ![r].at = "write"]
    <3> DEFINE q == [at |-> "write", job |-> job, found |-> request[r].found]
    <3>1. /\ DOMAIN request = Requests /\ RequestTyped(request[r])
          /\ request[r] = [at |-> "check", job |-> job, found |-> request[r].found]
      BY <2>1 DEF RecordsInv, RecordsShape, RecordsTyped, RequestFits
    <3>2. [request[r] EXCEPT !.at = "write"] = q
      BY <3>1
    <3>3. request' = [request EXCEPT ![r] = q]
      BY <2>3, <3>1, <3>2
    <3>4. RequestTyped(q)
      BY <2>1, <3>1 DEF RequestTyped
    <3> QED
      BY <2>1, <3>3, <3>4, TypedRead
  <2> QED
    BY <1>12, <2>2, <2>3 DEF Recs!CheckUsername
<1>13. ASSUME Recs!FindAccount(r) PROVE RecordsTyped'
  <2>1. request[r].at = "find" /\ job.kind \in {"token", "delete"} /\ same
    BY <1>13 DEF Recs!FindAccount, Recs!Goes, Recs!tables
  <2>2. CASE Recs!Answer(r)
    BY <1>1, <2>1, <2>2
  <2>3. CASE job.user \in DOMAIN tokens /\ Recs!Found(r, "write", None)
    <3>1. job.user \in Holders
      BY <2>3 DEF RecordsTyped, TokensTyped
    <3> QED
      BY <1>3, <2>1, <2>3, <3>1
  <2> QED
    BY <1>13, <2>2, <2>3 DEF Recs!FindAccount
<1>14. ASSUME Recs!FindReaction(r) PROVE RecordsTyped'
  <2>1. request[r].at = "find" /\ job.kind = "react" /\ same
        /\ \E row : Recs!Found(r, "write", row)
    BY <1>14 DEF Recs!FindReaction, Recs!Goes, Recs!tables
  <2> QED
    BY <1>3, <2>1
<1> QED
  BY <1>4, <1>5, <1>6, <1>7, <1>8, <1>9, <1>10, <1>11, <1>12, <1>13, <1>14

\* What the statements leave in raced are rows.
LEMMA TypedMarks ==
  ASSUME RecordsTyped, NEW r \in Requests, JobFits(request[r].job),
         Recs!Race(r) \/ Recs!RaceOrClear(r)
  PROVE  raced' \subseteq Recs!RowIds
BY RowIsId DEF RecordsTyped, Recs!Race, Recs!RaceOrClear

LEMMA TypedSaveProfile ==
  ASSUME Recs!Parameters, RecordsTyped, RecordsInv, NEW r \in Requests,
         Recs!SaveProfile(r)
  PROVE  RecordsTyped'
<1> DEFINE job == request[r].job
           found == request[r].found
           row == Recs!Changed(found, job.value)
<1>1. /\ request[r].at = "write" /\ job.kind = "profile" /\ Recs!Answer(r)
      /\ UNCHANGED <<tokens, nameless, deleted>>
      /\ \/ UNCHANGED <<profiles, intended, raced>>
         \/ /\ Recs!Saved(r)
            /\ \A u \in DOMAIN profiles \ {job.user} : profiles[u].username # row.username
  BY DEF Recs!SaveProfile, Recs!Goes
<1>2. /\ request' = [request EXCEPT ![r] = Over] /\ RequestTyped(Over)
      /\ job \in Recs!Jobs /\ found \in ProfileRows
  BY <1>1, TypedAnswer DEF RecordsTyped, RequestTyped
<1>3. CASE UNCHANGED <<profiles, intended, raced>>
  BY <1>1, <1>2, <1>3, TypedRead
<1>4. CASE /\ Recs!Saved(r)
           /\ \A u \in DOMAIN profiles \ {job.user} : profiles[u].username # row.username
  <2>1. job.value \in Recs!Fields /\ JobFits(job)
    BY <1>1, <1>2, JobTyped
  <2>2. row \in ProfileRows
    <3>1. /\ found.name \in Values \cup {None} /\ found.username \in Values \cup Holders
          /\ job.value.name \in Values \cup {None}
          /\ job.value.username \in Values \cup {None}
      BY <1>2, <2>1 DEF ProfileRows, Recs!Fields
    <3>2. /\ DOMAIN row = {"name", "username"}
          /\ row.name = IF job.value.name # None THEN job.value.name ELSE found.name
          /\ row.username =
               IF job.value.username # None THEN job.value.username ELSE found.username
      BY DEF Recs!Changed
    <3>3. row = [name |-> row.name, username |-> row.username]
      BY DEF Recs!Changed
    <3> HIDE DEF row
    <3> QED
      BY <3>1, <3>2, <3>3 DEF ProfileRows
  <2>3. profiles' = [profiles EXCEPT ![job.user] = row] /\ Recs!Race(r)
    BY <1>4 DEF Recs!Saved
  <2> HIDE DEF row
  <2>4. DOMAIN profiles = Holders /\ ProfilesTyped
    BY DEF RecordsInv, RecordsShape, RecordsTyped
  <2>5. ProfilesTyped'
    <3> SUFFICES ASSUME NEW w, w = job.user PROVE ProfilesTyped'
      OBVIOUS
    <3>1. \A u \in Holders : profiles'[u] = IF u = w THEN row ELSE profiles[u]
      BY <2>3, <2>4
    <3>2. \A u \in Holders : profiles'[u] \in ProfileRows
      BY <2>2, <2>4, <3>1 DEF ProfilesTyped
    <3>3. \A u, v \in Holders : profiles'[u].username = profiles'[v].username => u = v
      BY <1>4, <2>4, <3>1 DEF ProfilesTyped
    <3> QED
      BY <3>2, <3>3 DEF ProfilesTyped
  <2>6. TokensTyped' /\ nameless' \in BOOLEAN /\ deleted' \subseteq Users
    BY <1>1 DEF RecordsTyped, TokensTyped
  <2>7. raced' \subseteq Recs!RowIds
    BY <2>1, <2>3, TypedMarks
  <2> QED
    BY <1>2, <2>5, <2>6, <2>7, TypedMove
<1> QED
  BY <1>1, <1>3, <1>4

LEMMA TypedWrites ==
  ASSUME Recs!Parameters, RecordsTyped, RecordsInv, NEW r \in Requests,
         \/ Recs!CreateAccount(r) \/ Recs!SaveToken(r) \/ Recs!DeleteAccount(r)
         \/ Recs!SaveReaction(r) \/ Recs!RemoveReaction(r)
  PROVE  RecordsTyped'
<1> DEFINE job == request[r].job
<1>1. request[r].at = "write" /\ Recs!Answer(r) /\ profiles' = profiles
  BY DEF Recs!CreateAccount, Recs!SaveToken, Recs!DeleteAccount, Recs!SaveReaction,
         Recs!RemoveReaction, Recs!Goes
<1>2. /\ request' = [request EXCEPT ![r] = Over] /\ RequestTyped(Over)
      /\ job \in Recs!Jobs /\ JobFits(job)
      /\ job.kind \in {"token", "delete"} => job.user \in Holders
  BY <1>1, TypedAnswer, JobTyped DEF RecordsTyped, RequestTyped
<1>3. ProfilesTyped'
  BY <1>1 DEF RecordsTyped, ProfilesTyped
<1>4. nameless' \in BOOLEAN
  BY DEF RecordsTyped, Recs!CreateAccount, Recs!SaveToken, Recs!DeleteAccount,
         Recs!SaveReaction, Recs!RemoveReaction
<1>5. raced' \subseteq Recs!RowIds
  <2>1. raced' = raced \/ Recs!Race(r) \/ Recs!RaceOrClear(r)
    BY DEF Recs!CreateAccount, Recs!SaveToken, Recs!DeleteAccount, Recs!SaveReaction,
           Recs!RemoveReaction
  <2> QED
    BY <1>2, <2>1, TypedMarks DEF RecordsTyped
<1>6. deleted' \subseteq Users
  BY <1>2 DEF RecordsTyped, JobFits, Recs!CreateAccount, Recs!SaveToken,
              Recs!DeleteAccount, Recs!SaveReaction, Recs!RemoveReaction
<1>7. TokensTyped'
  <2>1. TokensTyped
    BY DEF RecordsTyped
  <2>2. CASE Recs!SaveToken(r)
    <3> SUFFICES ASSUME NEW w, w = job.user, NEW value, value = job.value PROVE TokensTyped'
      OBVIOUS
    <3>1. tokens' = [u \in DOMAIN tokens \cup {w} |-> IF u = w THEN value ELSE tokens[u]]
      BY <2>2 DEF Recs!SaveToken
    <3>2. w \in Holders /\ value \in Values
      BY <1>2, <2>2, JobTyped DEF Recs!SaveToken, Recs!Goes
    <3> QED
      BY <2>1, <3>1, <3>2 DEF TokensTyped
  <2>3. CASE Recs!DeleteAccount(r)
    <3> SUFFICES ASSUME NEW w, w = job.user PROVE TokensTyped'
      OBVIOUS
    <3>1. tokens' = [u \in DOMAIN tokens \ {w} |-> tokens[u]]
      BY <2>3 DEF Recs!DeleteAccount
    <3> QED
      BY <2>1, <3>1 DEF TokensTyped
  <2>4. CASE Recs!CreateAccount(r) \/ Recs!SaveReaction(r) \/ Recs!RemoveReaction(r)
    <3>1. tokens' = tokens
      BY <2>4 DEF Recs!CreateAccount, Recs!SaveReaction, Recs!RemoveReaction
    <3> QED
      BY <2>1, <3>1 DEF TokensTyped
  <2> QED
    BY <2>2, <2>3, <2>4
<1> QED
  BY <1>2, <1>3, <1>4, <1>5, <1>6, <1>7, TypedMove

LEMMA TypedStep ==
  Recs!Parameters /\ RecordsTyped /\ RecordsInv /\ [Recs!Next]_(Recs!vars)
    => RecordsTyped'
<1> SUFFICES ASSUME Recs!Parameters, RecordsTyped, RecordsInv, [Recs!Next]_(Recs!vars)
             PROVE  RecordsTyped'
  OBVIOUS
<1>1. CASE UNCHANGED Recs!vars
  BY <1>1 DEF Recs!vars, Recs!tables, RecordsTyped, ProfilesTyped, TokensTyped
<1>2. CASE Recs!Next
  BY <1>2, TypedReads, TypedSaveProfile, TypedWrites DEF Recs!Next, Recs!Steps
<1> QED
  BY <1>1, <1>2

\* The tables hold what they are declared to hold, usernames and ids of
\* reactions are unique, and every request carries a well formed job.
THEOREM RecordsTypeCorrect ==
  ASSUME Recs!Parameters
  PROVE  Recs!Spec => []Recs!TypeOK
<1>1. Recs!Init => RecordsInv /\ RecordsTyped
  BY RecordsInit, TypedInit
<1>2. RecordsTyped /\ RecordsInv /\ [Recs!Next]_(Recs!vars) => RecordsTyped'
  BY TypedStep
<1>3. RecordsTyped /\ RecordsInv => Recs!TypeOK
  <2> SUFFICES ASSUME RecordsTyped, RecordsInv PROVE Recs!TypeOK
    OBVIOUS
  <2>1. reactions \subseteq Known
    BY DEF Known
  <2>2. /\ reactions \subseteq Recs!Reactions /\ \A x \in reactions : x.id \in 1 .. lastId
        /\ \A x, y \in reactions : x.id = y.id => x = y
        /\ DOMAIN profiles = Holders
    BY <2>1 DEF RecordsInv, IdsFit, RecordsShape
  <2> QED
    BY <2>2 DEF Recs!TypeOK, RecordsTyped, ProfilesTyped, ProfileRows, TokensTyped,
                RequestTyped
<1> QED
  BY <1>1, <1>2, <1>3, RecordsInvariant, PTL DEF Recs!Spec
=============================================================================
