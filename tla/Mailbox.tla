------------------------------ MODULE Mailbox ------------------------------
(***************************************************************************)
(* What the relay promises about one kept envelope, whatever connections   *)
(* do: once posted for a recipient it waits until that recipient has had   *)
(* it, is removed only then, and does not come back.  A recipient may get  *)
(* it without a posting (a live copy) and more than once.                  *)
(***************************************************************************)
CONSTANT Rows   \* envelope of one message for one recipient

VARIABLES box, got

mailboxVars == <<box, got>>

MailboxTypeOK ==
  /\ box \in [Rows -> {"absent", "waiting", "removed"}]
  /\ got \subseteq Rows

MailboxInit ==
  /\ box = [r \in Rows |-> "absent"]
  /\ got = {}

Post(r) ==
  /\ box[r] = "absent"
  /\ box' = [box EXCEPT ![r] = "waiting"]
  /\ UNCHANGED got

Deliver(r) ==
  /\ got' = got \cup {r}
  /\ UNCHANGED box

Remove(r) ==
  /\ box[r] = "waiting"
  /\ r \in got
  /\ box' = [box EXCEPT ![r] = "removed"]
  /\ UNCHANGED got

MailboxNext == \E r \in Rows : Post(r) \/ Deliver(r) \/ Remove(r)

MailboxSafety == MailboxInit /\ [][MailboxNext]_mailboxVars

\* A waiting envelope reaches its recipient.
MailboxSpec ==
  /\ MailboxSafety
  /\ \A r \in Rows : WF_mailboxVars(box[r] = "waiting" /\ Deliver(r))
=============================================================================
