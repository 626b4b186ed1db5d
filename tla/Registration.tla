---------------------------- MODULE Registration ----------------------------
(***************************************************************************)
(* Registration and login of one server: codes sent to phones, sessions    *)
(* of verification, and the rows a first login creates.                    *)
(*                                                                         *)
(* AuthService.Login compares a code (PhoneVerificationManager), and       *)
(* RegistrationService.CheckVerificationCode compares the code of a        *)
(* session; both then find the user of the phone or insert a user and an   *)
(* account, without a transaction, issue a token and save the device.      *)
(* RegistrationService.CreateAccount inserts an account of its own.        *)
(*                                                                         *)
(* A request is a process that stops at every database call and wherever   *)
(* the lock of the codes is released.  Codes and sessions are memory of    *)
(* the process and go with it (Crash), tables stay.  The maps of           *)
(* RegistrationService have no lock: Go ends a process that it finds       *)
(* writing one twice at once, which is a Crash too.                        *)
(*                                                                         *)
(* A code is the number of the message that brought it, so no two codes    *)
(* are equal.  The random id of a row is the request that made it.         *)
(***************************************************************************)
EXTENDS Naturals, FiniteSets

CONSTANTS
  Requests,   \* requests to log in, to check a code or to create an account
  Phones,
  Sessions,   \* ids of verification sessions
  Devices,
  Stored,     \* rows of users that the table may hold from the start
  None,
  MaxSends,   \* bound: messages with a code
  MaxTries,   \* PhoneVerificationToken.MaxAttempts
  MaxCrashes  \* bound: restarts of the server

StoredIds == {u.id : u \in Stored}
Ids == Requests \cup StoredIds

ASSUME RegistrationAssumption ==
  /\ MaxSends \in Nat /\ MaxTries \in Nat \ {0} /\ MaxCrashes \in Nat
  /\ None \notin Ids \cup Phones \cup Sessions \cup Devices
  /\ Requests \cap StoredIds = {}
  /\ Stored \subseteq [id : StoredIds, phone : Phones, email : StoredIds]
  /\ \A u, v \in Stored :
       u.id = v.id \/ u.phone = v.phone \/ u.email = v.email => u = v

VARIABLES
  users,     \* table users: rows with a phone and an e-mail, None is ''
  accounts,  \* table accounts: the request that made the row, user, phone
  devices,   \* table devices: the identity the device was saved for
  codes,     \* PhoneVerificationManager.codes: 0 is no code
  sessions,  \* verificationSessions with their verificationTokens
  sent,      \* messages with a code so far
  step,      \* where a request stands
  phone,     \* the phone of a request
  code,      \* the code a request was given
  session,   \* the session of a request
  subject,   \* the user a request logs in
  crashes,
  issued,    \* history: tokens that were given out
  spent,     \* history: codes that were removed by the login that used them
  broken,    \* history: requests that did not get to insert the account
  blind,     \* history: requests whose search for an account failed
  before     \* history: the accounts there were when a request searched

tables == <<users, accounts, devices>>
memory == <<codes, sessions, sent>>
inputs == <<phone, code, session>>
history == <<issued, spent, broken, blind, before>>
vars == <<tables, memory, step, inputs, subject, crashes, history>>

NoSession ==
  [state |-> "unused", phone |-> None, code |-> 0, tries |-> 0,
   live |-> FALSE, verified |-> FALSE]

Init ==
  /\ users \in {{}, Stored}
  /\ accounts = {}
  /\ devices = [d \in Devices |-> None]
  /\ codes = [p \in Phones |-> 0]
  /\ sessions = [s \in Sessions |-> NoSession]
  /\ sent = 0 /\ crashes = 0
  /\ step = [r \in Requests |-> "idle"]
  /\ phone = [r \in Requests |-> None]
  /\ code = [r \in Requests |-> 0]
  /\ session = [r \in Requests |-> None]
  /\ subject = [r \in Requests |-> None]
  /\ issued = {} /\ spent = {} /\ broken = {} /\ blind = {}
  /\ before = [r \in Requests |-> {}]

\* Request r goes on to step s.
Goto(r, s) == step' = [step EXCEPT ![r] = s]

-----------------------------------------------------------------------------
(* Codes for a login *)

\* GenerateAndSendCode: a new code replaces the one the phone had.
RequestCode(p) ==
  /\ sent < MaxSends
  /\ sent' = sent + 1
  /\ codes' = [codes EXCEPT ![p] = sent + 1]
  /\ UNCHANGED <<tables, sessions, step, inputs, subject, crashes, history>>

\* VerifyCode under the read lock: the code is that of the phone, or not.
CompareCode(r, p, n) ==
  /\ step[r] = "idle"
  /\ phone' = [phone EXCEPT ![r] = p]
  /\ code' = [code EXCEPT ![r] = n]
  /\ Goto(r, IF codes[p] = n THEN "matched" ELSE "done")
  /\ UNCHANGED <<tables, memory, session, subject, crashes, history>>

\* Faulty variant: the code stays.
RemoveNoCode(r) ==
  /\ step[r] = "matched"
  /\ spent' = spent \cup {code[r]}
  /\ Goto(r, "find")
  /\ UNCHANGED <<tables, memory, inputs, subject, crashes, issued, broken, blind, before>>

\* VerifyCode under the write lock: whatever code the phone has is removed.
RemoveCode(r) ==
  /\ step[r] = "matched"
  /\ codes' = [codes EXCEPT ![phone[r]] = 0]
  /\ spent' = spent \cup {code[r]}
  /\ Goto(r, "find")
  /\ UNCHANGED <<tables, sessions, sent, inputs, subject, crashes, issued, broken, blind, before>>

-----------------------------------------------------------------------------
(* Verification sessions *)

CreateVerificationSession(s, p) ==
  /\ sessions[s].state = "unused"
  /\ sessions' = [sessions EXCEPT ![s] =
                    [NoSession EXCEPT !.state = "open", !.phone = p, !.live = TRUE]]
  /\ UNCHANGED <<tables, codes, sent, step, inputs, subject, crashes, history>>

\* The session is renewed and has a new token, with no attempt counted.
SendVerificationCode(s) ==
  /\ sessions[s].state = "open" /\ sessions[s].live
  /\ sent < MaxSends
  /\ sent' = sent + 1
  /\ sessions' = [sessions EXCEPT ![s] = [@ EXCEPT !.code = sent + 1, !.tries = 0]]
  /\ UNCHANGED <<tables, codes, step, inputs, subject, crashes, history>>

\* 300 seconds without a renewal.
ExpireSession(s) ==
  /\ sessions[s].state = "open" /\ sessions[s].live
  /\ sessions' = [sessions EXCEPT ![s].live = FALSE]
  /\ UNCHANGED <<tables, codes, sent, step, inputs, subject, crashes, history>>

\* What CheckVerificationCode asks before it looks at the code.
MayCheck(s) ==
  /\ sessions[s].state = "open" /\ sessions[s].live
  /\ sessions[s].code # 0 /\ sessions[s].tries < MaxTries

\* The code is right: the session is verified and renewed.
CheckRight(r, s) ==
  /\ step[r] = "idle" /\ MayCheck(s)
  /\ phone' = [phone EXCEPT ![r] = sessions[s].phone]
  /\ sessions' = [sessions EXCEPT ![s].verified = TRUE]
  /\ Goto(r, "find")
  /\ UNCHANGED <<tables, codes, sent, code, session, subject, crashes, history>>

\* The code is wrong.
CheckWrong(r, s) ==
  /\ step[r] = "idle" /\ MayCheck(s)
  /\ session' = [session EXCEPT ![r] = s]
  /\ code' = [code EXCEPT ![r] = sessions[s].code]
  /\ Goto(r, "missed")
  /\ UNCHANGED <<tables, memory, phone, subject, crashes, history>>

\* Attempts++ on the token that was compared, which may no longer be that of
\* the session.  Two increments at once may count as one.
CountMiss(r) ==
  LET s == session[r]
      racing == \E q \in Requests \ {r} : step[q] = "missed" /\ code[q] = code[r]
  IN
  /\ step[r] = "missed"
  /\ \/ /\ sessions[s].code = code[r]
        /\ sessions' = [sessions EXCEPT ![s].tries = @ + 1]
     \/ /\ sessions[s].code # code[r] \/ racing
        /\ UNCHANGED sessions
  /\ Goto(r, "done")
  /\ UNCHANGED <<tables, codes, sent, inputs, subject, crashes, history>>

-----------------------------------------------------------------------------
(* The user of a phone, found or made *)

\* Faulty variant: takes the phone for the id.
FindPhone(r) ==
  /\ step[r] = "find"
  /\ \/ \E u \in users :
          /\ u.phone = phone[r]
          /\ subject' = [subject EXCEPT ![r] = u.phone]
          /\ Goto(r, "token")
     \/ /\ \A u \in users : u.phone # phone[r]
        /\ Goto(r, "insert")
        /\ UNCHANGED subject
  /\ UNCHANGED <<tables, memory, inputs, crashes, history>>

\* users.FindByPhone.
FindUser(r) ==
  /\ step[r] = "find"
  /\ \/ \E u \in users :
          /\ u.phone = phone[r]
          /\ subject' = [subject EXCEPT ![r] = u.id]
          /\ Goto(r, "token")
     \/ /\ \A u \in users : u.phone # phone[r]
        /\ Goto(r, "insert")
        /\ UNCHANGED subject
  /\ UNCHANGED <<tables, memory, inputs, crashes, history>>

\* The row of a user whom a login registers has no e-mail and no username.
UserRow(r) == [id |-> r, phone |-> phone[r], email |-> None]

\* Faulty variant: the table has no index, as when the migration fails.
TakenByNobody(row) == FALSE

\* The unique indexes of the table, for which '' is a value like others.
Taken(row) == \E u \in users : u.phone = row.phone \/ u.email = row.email

\* users.Create.
CreateUser(r) ==
  /\ step[r] = "insert"
  /\ IF Taken(UserRow(r))
     THEN /\ Goto(r, "refused")
          /\ UNCHANGED <<users, subject>>
     ELSE /\ users' = users \cup {UserRow(r)}
          /\ subject' = [subject EXCEPT ![r] = r]
          /\ Goto(r, "account")
  /\ UNCHANGED <<accounts, devices, memory, inputs, crashes, history>>

\* Faulty variant: the account is left for later.
CreateNoAccount(r) ==
  /\ step[r] = "account"
  /\ Goto(r, "token")
  /\ UNCHANGED <<tables, memory, inputs, subject, crashes, history>>

\* accounts.Create with the user and no phone.
CreateUserAccount(r) ==
  /\ step[r] = "account"
  /\ accounts' = accounts \cup {[by |-> r, user |-> r, phone |-> None]}
  /\ Goto(r, "token")
  /\ UNCHANGED <<users, devices, memory, inputs, subject, crashes, history>>

\* Tokens and devices name a user or, after CreateAccount, an account.
UserIdentity(r) == [table |-> "users", id |-> subject[r]]
AccountIdentity(r) == [table |-> "accounts", id |-> r]

\* GenerateToken and the answer.
IssueToken(r) ==
  /\ step[r] = "token"
  /\ issued' = issued \cup {[phone |-> phone[r], identity |-> UserIdentity(r)]}
  /\ Goto(r, "device")
  /\ UNCHANGED <<tables, memory, inputs, subject, crashes, spent, broken, blind, before>>

\* devices.Save, whose error is ignored.
SaveDevice(r) ==
  /\ step[r] = "device"
  /\ \/ \E d \in Devices : devices' = [devices EXCEPT ![d] = UserIdentity(r)]
     \/ UNCHANGED devices
  /\ Goto(r, "done")
  /\ UNCHANGED <<users, accounts, memory, inputs, subject, crashes, history>>

\* DeviceSessionController.Delete, which any user may call for any device.
DeleteDevice(d) ==
  /\ devices[d] # None
  /\ devices' = [devices EXCEPT ![d] = None]
  /\ UNCHANGED <<users, accounts, memory, step, inputs, subject, crashes, history>>

\* A database call of a login fails, and the login with it.
LoginFails(r) ==
  /\ step[r] \in {"find", "insert", "account"}
  /\ broken' = IF step[r] = "account" THEN broken \cup {r} ELSE broken
  /\ Goto(r, "done")
  /\ UNCHANGED <<tables, memory, inputs, subject, crashes, issued, spent, blind, before>>

-----------------------------------------------------------------------------
(* RegistrationService.CreateAccount *)

OpenAccount(r, s) ==
  /\ step[r] = "idle"
  /\ sessions[s].state = "open" /\ sessions[s].live /\ sessions[s].verified
  /\ phone' = [phone EXCEPT ![r] = sessions[s].phone]
  /\ session' = [session EXCEPT ![r] = s]
  /\ Goto(r, "search")
  /\ UNCHANGED <<tables, memory, code, subject, crashes, history>>

\* Faulty variant: the answer of the search is not looked at.
SearchNothing(r) ==
  /\ step[r] = "search"
  /\ Goto(r, "add")
  /\ before' = [before EXCEPT ![r] = accounts]
  /\ UNCHANGED <<tables, memory, inputs, subject, crashes, issued, spent, broken, blind>>

\* accounts.FindByPhone; an error of the search counts as no account.
SearchAccount(r) ==
  LET found == \E a \in accounts : a.phone = phone[r]
  IN
  /\ step[r] = "search"
  /\ \/ /\ Goto(r, IF found THEN "done" ELSE "add")
        /\ UNCHANGED blind
     \/ /\ Goto(r, "add")
        /\ blind' = blind \cup {r}
  /\ before' = [before EXCEPT ![r] = accounts]
  /\ UNCHANGED <<tables, memory, inputs, subject, crashes, issued, spent, broken>>

\* accounts.Create with the phone and no user.
AddAccount(r) ==
  /\ step[r] = "add"
  /\ \/ /\ accounts' = accounts \cup {[by |-> r, user |-> None, phone |-> phone[r]]}
        /\ Goto(r, "register")
     \/ /\ Goto(r, "done")
        /\ UNCHANGED accounts
  /\ UNCHANGED <<users, devices, memory, inputs, subject, crashes, history>>

\* upsertDeviceSession, whose error is ignored.
RegisterDevice(r) ==
  /\ step[r] = "register"
  /\ \/ \E d \in Devices : devices' = [devices EXCEPT ![d] = AccountIdentity(r)]
     \/ UNCHANGED devices
  /\ Goto(r, "answer")
  /\ UNCHANGED <<users, accounts, memory, inputs, subject, crashes, history>>

\* The token, and the end of the session.
CloseSession(r) ==
  /\ step[r] = "answer"
  /\ issued' = issued \cup {[phone |-> phone[r], identity |-> AccountIdentity(r)]}
  /\ sessions' = [sessions EXCEPT ![session[r]] = [NoSession EXCEPT !.state = "gone"]]
  /\ Goto(r, "done")
  /\ UNCHANGED <<tables, codes, sent, inputs, subject, crashes, spent, broken, blind, before>>

-----------------------------------------------------------------------------
\* The process ends, at any step of any request, and starts again.
Crash ==
  /\ crashes < MaxCrashes
  /\ crashes' = crashes + 1
  /\ codes' = [p \in Phones |-> 0]
  /\ sessions' = [s \in Sessions |->
                    IF sessions[s].state = "unused" THEN NoSession
                    ELSE [NoSession EXCEPT !.state = "gone"]]
  /\ step' = [r \in Requests |-> IF step[r] = "idle" THEN "idle" ELSE "done"]
  /\ broken' = broken \cup {r \in Requests : step[r] = "account"}
  /\ UNCHANGED <<tables, sent, inputs, subject, issued, spent, blind, before>>

\* The steps of a request after its first.
LoginSteps(r) ==
  \/ RemoveCode(r) \/ FindUser(r) \/ CreateUser(r) \/ CreateUserAccount(r)
  \/ IssueToken(r) \/ SaveDevice(r) \/ LoginFails(r)

AccountSteps(r) ==
  \/ SearchAccount(r) \/ AddAccount(r) \/ RegisterDevice(r) \/ CloseSession(r)

Next ==
  \/ \E p \in Phones : RequestCode(p)
  \/ \E s \in Sessions, p \in Phones : CreateVerificationSession(s, p)
  \/ \E d \in Devices : DeleteDevice(d)
  \/ \E s \in Sessions : SendVerificationCode(s) \/ ExpireSession(s)
  \/ \E r \in Requests, p \in Phones, n \in 1..sent : CompareCode(r, p, n)
  \/ \E r \in Requests, s \in Sessions :
       CheckRight(r, s) \/ CheckWrong(r, s) \/ OpenAccount(r, s)
  \/ \E r \in Requests : CountMiss(r) \/ LoginSteps(r) \/ AccountSteps(r)
  \/ Crash

Spec == Init /\ [][Next]_vars

-----------------------------------------------------------------------------
Steps == {"idle", "matched", "missed", "find", "insert", "account", "token",
          "device", "search", "add", "register", "answer", "refused", "done"}

Identity == [table : {"users"}, id : Ids] \cup [table : {"accounts"}, id : Requests]

AccountRow == [by : Requests, user : Requests \cup {None}, phone : Phones \cup {None}]

SessionRecord ==
  [state : {"unused", "open", "gone"}, phone : Phones \cup {None},
   code : Nat, tries : Nat, live : BOOLEAN, verified : BOOLEAN]

\* The variables have their types.
TypeOK ==
  /\ users \subseteq [id : Ids, phone : Phones, email : Ids \cup {None}]
  /\ accounts \subseteq AccountRow
  /\ devices \in [Devices -> Identity \cup {None}]
  /\ codes \in [Phones -> Nat]
  /\ sessions \in [Sessions -> SessionRecord]
  /\ sent \in 0..MaxSends
  /\ step \in [Requests -> Steps]
  /\ phone \in [Requests -> Phones \cup {None}]
  /\ code \in [Requests -> Nat]
  /\ session \in [Requests -> Sessions \cup {None}]
  /\ subject \in [Requests -> Ids \cup {None}]
  /\ crashes \in Nat
  /\ issued \subseteq [phone : Phones, identity : Identity]
  /\ spent \subseteq Nat
  /\ broken \subseteq Requests /\ blind \subseteq Requests
  /\ before \in [Requests -> SUBSET AccountRow]

\* Whatever two logins of one phone do at once, and whatever a crash leaves
\* behind, all the tokens a phone was given by Login and
\* CheckVerificationCode name one user.
SameIdentity ==
  \A t, o \in issued :
    /\ t.phone = o.phone
    /\ t.identity.table = "users" /\ o.identity.table = "users"
    => t.identity = o.identity

Exists(identity) ==
  IF identity.table = "users"
  THEN \E u \in users : u.id = identity.id
  ELSE \E a \in accounts : a.by = identity.id

\* The rows that tokens and device sessions name are in the tables.
OwnersExist ==
  /\ \A t \in issued : Exists(t.identity)
  /\ \A d \in Devices : devices[d] = None \/ Exists(devices[d])

\* A user who has a token also has an account, unless the request that
\* registered the user is just inserting it, or failed or died before it
\* could: Login inserts the two rows without a transaction, and no later
\* login inserts what is missing.
AccountOrBroken ==
  \A t \in issued :
    t.identity.table = "users" =>
      LET u == t.identity.id
      IN \/ u \in StoredIds \/ u \in broken \/ step[u] = "account"
         \/ \E a \in accounts : a.user = u

\* What a token stands for is complete, whatever failed on the way to it.
TokensAreSound == OwnersExist /\ AccountOrBroken

\* Two logins may use one code only if both compared it before either
\* removed it: a code that was removed is not accepted again.
OneUse == \A p \in Phones : codes[p] \notin spent

\* CreateAccount makes a second account for a phone only if it searched
\* before the first was inserted, or if a search failed: the table itself
\* accepts two.
SecondOverlaps ==
  \A a, b \in accounts :
    a.phone = b.phone /\ a.phone # None /\ a # b =>
      \/ a.by \in blind \/ b.by \in blind
      \/ a \notin before[b.by] /\ b \notin before[a.by]

\* The server refuses to insert the user of a first login only if the phone
\* has a user: app/doc.go describes a login that any phone can make.
OnlyTakenPhoneRefused ==
  \A r \in Requests :
    step[r] = "refused" => \E u \in users : u.phone = phone[r]
=============================================================================
