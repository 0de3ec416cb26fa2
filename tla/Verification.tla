---------------------------- MODULE Verification ----------------------------
(***************************************************************************)
(* The address of an account: person/domain/verification.py, the forms and *)
(* views of registration, login data and confirmation.                     *)
(* A request loads the row of its user, decides by that copy, asks whether *)
(* an address is free and whether a mail may go out, and saves: the        *)
(* columns it names, or the whole copy.  These are steps of their own, and *)
(* nothing locks the row; the database refuses only a second account with  *)
(* the same address.  Links are signed, so a link is the values it was     *)
(* made from: it works as long as they are the values of the row and it is *)
(* not older than a day.                                                   *)
(***************************************************************************)
EXTENDS Naturals, FiniteSets

CONSTANTS People, Addresses, Requests,
          MaxLinks,    \* bound: confirmation links in the mailboxes at a time
          None

ASSUME VerificationAssumption == MaxLinks \in Nat

VARIABLES account,   \* the rows of User; None before the registration and after a deletion
          links,     \* the confirmation links that are not older than a day
          cooldown,  \* the accounts whose last mail is less than five minutes old
          corrected, \* the free correction of the last day: "no", "new" in this cooldown, or "old"
          loaded,    \* what a request has: the copy of its user, and the answers it got
          proven,    \* history: who has shown to read the mail of which address
          burst      \* history: mails to an account since it was last out of its cooldown

accountVars == <<account, links, cooldown, corrected, loaded, proven, burst>>

-----------------------------------------------------------------------------
States == {"verified", "unverified", "legacy"}
Kinds == {"verify", "change"}

(* email: None stands for the scrambled address of a deactivated account.     *)
(* sent: pending_email_sent is less than a day ago, or more.                  *)
Row == [email: Addresses \cup {None}, state: States, pending: Addresses \cup {None},
        sent: {None, "recent", "overdue"}]
Link == [user: People, kind: Kinds, email: Addresses \cup {None}, pending: Addresses \cup {None}]

(* asked, free: the address the request has asked for, and whether it was free then. *)
(* mail: the cooldown has let it pass.                                               *)
Request == [user: People, row: Row, asked: Addresses \cup {None}, free: BOOLEAN, mail: BOOLEAN]

Accounts == {u \in People : account[u] # None}

(* Rows have a primary key, and NULL is no value of a column. *)
ASSUME NoneAssumption ==
  None \notin Row \cup Addresses \cup {"recent", "overdue"} \cup Request

(* send_verification_mail: to. *)
To(link) == IF link.kind = "change" THEN link.pending ELSE link.email

(* validate_email_unique *)
Taken(a, u) == \E v \in Accounts \ {u} : account[v].email = a

(* User.email is unique, in the database: the save of a second row fails. *)
Refused(a, u) == \E v \in Accounts \ {u} : account[v].email = a

(* make_verification_token of the row `row`. *)
LinkOf(u, row, kind) == [user |-> u, kind |-> kind, email |-> row.email, pending |-> row.pending]

-----------------------------------------------------------------------------
(* Accounts of before the feature are "legacy". *)
VerificationInit ==
  \E old \in SUBSET People, home \in [People -> Addresses] :
    /\ \A u, v \in old : home[u] = home[v] => u = v
    /\ \A u \in People \ old : home[u] = CHOOSE a \in Addresses : TRUE
    /\ account = [u \in People |-> IF u \in old
         THEN [email |-> home[u], state |-> "legacy", pending |-> None, sent |-> None] ELSE None]
    /\ links = {} /\ cooldown = {} /\ corrected = [u \in People |-> "no"]
    /\ loaded = [r \in Requests |-> None]
    /\ proven = {}
    /\ burst = [u \in People |-> 0]

-----------------------------------------------------------------------------
(* Mutant: every correction is free. *)
AlwaysFree(u, free) == u \notin cooldown \/ free

(* check_send_cooldown: a correction passes once a day. *)
MayMail(u, free) == u \notin cooldown \/ (free /\ corrected[u] = "no")

(* send_verification_mail, once the cooldown is passed, with the row as it will be saved. *)
SendVerificationMail(u, row, kind) ==
  /\ Cardinality(links) < MaxLinks
  /\ links' = links \cup {LinkOf(u, row, kind)}
  /\ cooldown' = cooldown \cup {u}
  /\ burst' = [burst EXCEPT ![u] = @ + 1]
  /\ UNCHANGED corrected

NoMail == UNCHANGED <<links, cooldown, corrected, burst>>

-----------------------------------------------------------------------------
(* The session's user, or the user a link names, is read from the database. *)
Load(r, u) ==
  /\ u \in Accounts /\ loaded[r] = None
  /\ loaded' = [loaded EXCEPT ![r] =
       [user |-> u, row |-> account[u], asked |-> None, free |-> FALSE, mail |-> FALSE]]
  /\ UNCHANGED <<account, links, cooldown, corrected, proven, burst>>

(* validate_email_unique for the address a: the answer may be old when it is used. *)
(* Only a confirmation goes on when the address is taken.                          *)
ValidateEmailUnique(r, u, row, a) ==
  /\ loaded[r].asked = None /\ ~loaded[r].mail /\ (row.state # "unverified" => a # row.email)
  /\ Taken(a, u) => a = row.pending
  /\ loaded' = [loaded EXCEPT ![r] =
       [user |-> u, row |-> row, asked |-> a, free |-> ~Taken(a, u), mail |-> FALSE]]
  /\ UNCHANGED <<account, links, cooldown, corrected, proven, burst>>

(* check_send_cooldown, for a link to the address of the row, or to a new one that is *)
(* free.  The key of the free correction is taken with the check, and only when the   *)
(* cooldown stands in the way; the cooldown begins when the mail is sent.             *)
CheckSendCooldown(r, u, row) ==
  /\ ~loaded[r].mail /\ IF loaded[r].asked = None THEN row.state = "unverified" ELSE loaded[r].free
  /\ MayMail(u, row.state = "unverified" /\ loaded[r].asked # None)
  /\ loaded' = [loaded EXCEPT ![r] =
       [user |-> u, row |-> row, asked |-> loaded[r].asked, free |-> loaded[r].free, mail |-> TRUE]]
  /\ corrected' = IF u \in cooldown THEN [corrected EXCEPT ![u] = "new"] ELSE corrected
  /\ UNCHANGED <<account, links, cooldown, proven, burst>>

(* Request r works for user u, whose row was `row`, and ends. *)
Serves(r, u, row) ==
  /\ loaded[r] # None /\ loaded[r].user = u /\ loaded[r].row = row
  /\ loaded' = [loaded EXCEPT ![r] = None]

(* The columns in `cols` are saved with the values of `new` (update_fields); an *)
(* account that is gone is updated nowhere.                                     *)
Saved(u, cols, new) ==
  [account EXCEPT ![u] = IF @ = None THEN None ELSE
     [email |-> IF "email" \in cols THEN new.email ELSE @.email,
      state |-> IF "state" \in cols THEN new.state ELSE @.state,
      pending |-> IF "pending" \in cols THEN new.pending ELSE @.pending,
      sent |-> IF "sent" \in cols THEN new.sent ELSE @.sent]]

(* UserForm.save and create_user.  The form has asked validate_email_unique before, *)
(* but what counts is that the database refuses an address that is taken by now.    *)
(* With its copy the request goes on to finalize_registration, which promotes the   *)
(* account or sends the mail.  u is a new row: nothing is left of an earlier one.   *)
Register(r, u, a) ==
  LET row == [email |-> a, state |-> "unverified", pending |-> None, sent |-> None]
  IN /\ loaded[r] = None /\ account[u] = None /\ ~Refused(a, u)
     /\ u \notin cooldown /\ corrected[u] = "no" /\ \A l \in links : l.user # u
     /\ \A s \in Requests : loaded[s] # None => loaded[s].user # u
     /\ account' = [account EXCEPT ![u] = row]
     /\ loaded' = [loaded EXCEPT ![r] = [user |-> u, row |-> row, asked |-> a, free |-> TRUE, mail |-> FALSE]]
     /\ NoMail /\ UNCHANGED proven

(* GenericVerificationView._resend, and finalize_registration without an invitation. *)
Resend(r, u, row) ==
  /\ Serves(r, u, row) /\ row.state = "unverified" /\ loaded[r].mail
  /\ loaded[r].asked \in {None, row.email}
  /\ SendVerificationMail(u, row, "verify")
  /\ UNCHANGED <<account, proven>>

(* The request was told that the address a is free. *)
ToldFree(r, a) == loaded[r].asked = a /\ loaded[r].free

(* Mutant: verified accounts may correct their address as well. *)
CorrectAnyEmail(r, u, row, a) ==
  /\ Serves(r, u, row) /\ ToldFree(r, a) /\ ~Refused(a, u) /\ loaded[r].mail
  /\ account' = Saved(u, {"email"}, [row EXCEPT !.email = a])
  /\ SendVerificationMail(u, [row EXCEPT !.email = a], "verify")
  /\ UNCHANGED proven

(* correct_unverified_email, in one transaction: a mail that may not be sent rolls *)
(* the address back.                                                               *)
CorrectUnverifiedEmail(r, u, row, a) ==
  /\ Serves(r, u, row) /\ row.state = "unverified"
  /\ ToldFree(r, a) /\ ~Refused(a, u) /\ loaded[r].mail
  /\ account' = Saved(u, {"email"}, [row EXCEPT !.email = a])
  /\ SendVerificationMail(u, [row EXCEPT !.email = a], "verify")
  /\ UNCHANGED proven

(* LoginInfoForm.save and request_email_change, in one transaction: the address *)
(* field is disabled for accounts that are not verified.  Nothing refuses a     *)
(* pending address.                                                             *)
RequestEmailChange(r, u, row, a) ==
  LET new == [email |-> row.email, state |-> row.state, pending |-> a, sent |-> "recent"] IN
  /\ Serves(r, u, row) /\ row.state # "unverified" /\ a # row.email
  /\ ToldFree(r, a) /\ loaded[r].mail
  /\ account' = Saved(u, {"pending", "sent"}, new)
  /\ SendVerificationMail(u, new, "change")
  /\ UNCHANGED proven

NoPending == [pending |-> None, sent |-> None]

(* Mutant: the time of the request stays. *)
CancelKeepsTime(r, u, row) ==
  /\ Serves(r, u, row) /\ row.pending # None
  /\ account' = Saved(u, {"pending"}, NoPending)
  /\ NoMail /\ UNCHANGED proven

(* cancel_email_change *)
CancelEmailChange(r, u, row) ==
  /\ Serves(r, u, row) /\ row.pending # None
  /\ account' = Saved(u, {"pending", "sent"}, NoPending)
  /\ NoMail /\ UNCHANGED proven

(* Mutant: the link names the account, and not the addresses. *)
FitsAccount(l, u, row) == l.user = u

(* parse_verification_token: the link belongs to the row that was read. *)
Fits(l, u, row) == l.user = u /\ l.email = row.email /\ l.pending = row.pending

(* confirm_verification for a change of the address: pending addresses expire, and *)
(* may have been taken by another account, before the question or after it.        *)
ConfirmChange(r, u, row, l) ==
  /\ Serves(r, u, row) /\ l \in links /\ l.kind = "change" /\ Fits(l, u, row)
  /\ \/ /\ row.sent = "overdue" \/ (loaded[r].asked = row.pending /\ ~loaded[r].free)
        /\ account' = Saved(u, {"pending", "sent"}, NoPending) /\ UNCHANGED proven
     \/ /\ row.sent = "recent" /\ ToldFree(r, row.pending) /\ ~Refused(row.pending, u)
        /\ account' = Saved(u, {"email", "pending", "sent", "state"},
             [email |-> row.pending, pending |-> None, sent |-> None, state |-> "verified"])
        /\ proven' = proven \cup {<<u, To(l)>>}
  /\ NoMail

(* confirm_verification for the address of a new account. *)
ConfirmAddress(r, u, row, l) ==
  /\ Serves(r, u, row) /\ l \in links /\ l.kind = "verify" /\ Fits(l, u, row)
  /\ row.state # "verified"
  /\ account' = Saved(u, {"state"}, [state |-> "verified"])
  /\ proven' = proven \cup {<<u, To(l)>>}
  /\ NoMail

(* promote_on_invitation_match with the address a of the invitation: whoever opens *)
(* the link has read the mail of `read`.                                           *)
PromoteOnInvitationMatch(r, u, row, a, read) ==
  /\ Serves(r, u, row) /\ row.email = a /\ row.state # "verified"
  /\ account' = Saved(u, {"state"}, [state |-> "verified"])
  /\ proven' = proven \cup {<<u, read>>}
  /\ NoMail

(* set_verification_state: an administrator vouches for the address that is shown. *)
SetVerificationState(r, u, row, state) ==
  /\ Serves(r, u, row) /\ state \in {"verified", "unverified"} /\ row.state # state
  /\ account' = Saved(u, {"state"}, [state |-> state])
  /\ proven' = IF state = "verified" /\ row.email # None THEN proven \cup {<<u, row.email>>} ELSE proven
  /\ NoMail

(* OrgaProfileForm.save and LocaleSet save all columns of the copy.  A row that was *)
(* deleted meanwhile is inserted again.                                             *)
SaveWholeRow(r, u, row) ==
  /\ Serves(r, u, row) /\ ~Refused(row.email, u)
  /\ account' = [account EXCEPT ![u] = row]
  /\ NoMail /\ UNCHANGED proven

(* deactivate_user saves all columns, too, with nothing left of the account. *)
DeactivateUser(r, u, row) ==
  /\ Serves(r, u, row)
  /\ account' = [account EXCEPT ![u] = [email |-> None, state |-> "unverified", pending |-> None, sent |-> None]]
  /\ proven' = {p \in proven : p[1] # u}
  /\ NoMail

(* shred_user *)
ShredUser(r, u, row) ==
  /\ Serves(r, u, row)
  /\ account' = [account EXCEPT ![u] = None]
  /\ proven' = {p \in proven : p[1] # u}
  /\ NoMail

(* An answer turns the request away, the database refuses what it saves, or the page *)
(* is only looked at.                                                                *)
TurnAway(r) ==
  /\ loaded[r] # None /\ loaded' = [loaded EXCEPT ![r] = None]
  /\ NoMail /\ UNCHANGED <<account, proven>>

-----------------------------------------------------------------------------
(* Five minutes pass. *)
CooldownOver(u) ==
  /\ u \in cooldown
  /\ cooldown' = cooldown \ {u}
  /\ burst' = [burst EXCEPT ![u] = 0]
  /\ corrected' = [corrected EXCEPT ![u] = IF @ = "new" THEN "old" ELSE @]
  /\ UNCHANGED <<account, links, loaded, proven>>

(* The copy of a request of user u gets older with the row. *)
Aged(request, u) ==
  IF request # None /\ request.user = u /\ request.row.sent = "recent"
  THEN [request EXCEPT !.row.sent = "overdue"] ELSE request

(* A day passes for a link, a pending address, a correction. *)
LinkExpires(l) ==
  /\ links' = links \ {l}
  /\ UNCHANGED <<account, cooldown, corrected, loaded, proven, burst>>
RowAges(u) ==
  /\ u \in Accounts
  /\ account[u].sent = "recent"
  /\ account' = Saved(u, {"sent"}, [sent |-> "overdue"])
  /\ loaded' = [r \in Requests |-> Aged(loaded[r], u)]
  /\ UNCHANGED <<links, cooldown, corrected, proven, burst>>
CorrectionDayOver(u) ==
  /\ corrected[u] = "old"
  /\ corrected' = [corrected EXCEPT ![u] = "no"]
  /\ UNCHANGED <<account, links, cooldown, loaded, proven, burst>>

-----------------------------------------------------------------------------
(* What an administrator does to any account. *)
Administer(r, u, row) ==
  \/ \E state \in States : SetVerificationState(r, u, row, state)
  \/ DeactivateUser(r, u, row) \/ ShredUser(r, u, row)

(* What a user does, or who opens a link; only accounts that are active log in. *)
Work(r, u, row) ==
  \/ Resend(r, u, row)
  \/ CancelEmailChange(r, u, row)
  \/ SaveWholeRow(r, u, row)
  \/ \E l \in links : ConfirmChange(r, u, row, l) \/ ConfirmAddress(r, u, row, l)
  \/ \E a \in Addresses : \/ CorrectUnverifiedEmail(r, u, row, a)
                           \/ RequestEmailChange(r, u, row, a)
                           \/ PromoteOnInvitationMatch(r, u, row, a, a)

(* The last step of a request. *)
Serve(r) ==
  LET u == loaded[r].user
      row == loaded[r].row
  IN /\ loaded[r] # None
     /\ TurnAway(r) \/ Administer(r, u, row) \/ (row.email # None /\ Work(r, u, row))

(* The questions it asks before. *)
Ask(r) ==
  LET u == loaded[r].user
      row == loaded[r].row
  IN /\ loaded[r] # None /\ row.email # None
     /\ \/ CheckSendCooldown(r, u, row)
        \/ \E a \in Addresses : ValidateEmailUnique(r, u, row, a)

VerificationNext ==
  \/ \E r \in Requests : \/ Ask(r) \/ Serve(r)
                         \/ \E u \in People : Load(r, u)
                         \/ \E u \in People, a \in Addresses : Register(r, u, a)
  \/ \E u \in People : CooldownOver(u) \/ RowAges(u) \/ CorrectionDayOver(u)
  \/ \E l \in links : LinkExpires(l)

VerificationSpec == VerificationInit /\ [][VerificationNext]_accountVars

-----------------------------------------------------------------------------
(* Types, and what pending_email and pending_email_sent say of each other.    *)
VerificationTypeOK ==
  /\ account \in [People -> Row \cup {None}]
  /\ \A u \in Accounts : account[u].pending = None <=> account[u].sent = None
  /\ \A r \in Requests : loaded[r] # None => (loaded[r].row.pending = None <=> loaded[r].row.sent = None)
  /\ links \subseteq Link
  /\ cooldown \subseteq People /\ corrected \in [People -> {"no", "new", "old"}]
  /\ loaded \in [Requests -> Request \cup {None}]
  /\ proven \subseteq People \X Addresses /\ burst \in [People -> Nat]

(* An account counts as verified only for an address its user has proven to   *)
(* read, whatever links are still around when the address changes, as long as *)
(* no two requests of the same user overlap.                                  *)
VerifiedMeansProven ==
  \A u \in Accounts : account[u].state = "verified" /\ account[u].email # None =>
    <<u, account[u].email>> \in proven

(* The address of an account that is not new moves only to an address that    *)
(* has been proven: request_email_change waits for the link.  The account may *)
(* be deactivated, and requests of the same user must not overlap.            *)
AddressMovesWithProof ==
  [][\A u \in Accounts : u \in Accounts' /\ account'[u].email \notin {account[u].email, None} =>
       account[u].state = "unverified" \/ <<u, account'[u].email>> \in proven']_accountVars

(* Within a cooldown an account gets one mail, and one more for a correction, *)
(* as long as no two requests of the same user overlap: both would pass the   *)
(* check before either has sent its mail.                                     *)
MailsPerCooldown == \A u \in People : burst[u] <= 2
=============================================================================
