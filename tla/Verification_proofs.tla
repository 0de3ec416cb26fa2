------------------------- MODULE Verification_proofs -------------------------
(***************************************************************************)
(* Theorems about Verification, and about SpeakerClaims, which is shown to *)
(* implement it.  Types hold for any number of overlapping requests; what  *)
(* is said of verified addresses and of the cooldown of mails holds when   *)
(* requests of the same user do not overlap, which is a hypothesis of      *)
(* those theorems: the code does not see to it.                            *)
(***************************************************************************)
EXTENDS SpeakerClaims, TLAPS

\* A link for a change of the address was made for a pending address.
LinksToPending == \A l \in links : l.kind = "change" => l.pending # None

TypeInv == VerificationTypeOK /\ LinksToPending

\* What pending_email and pending_email_sent of a row say of each other.
Paired(row) == row.pending = None <=> row.sent = None

-----------------------------------------------------------------------------
(* Saved rows.                                                             *)

\* What save(update_fields) leaves of a row.
LEMMA SavedRows ==
  ASSUME account \in [People -> Row \cup {None}], NEW u \in People, NEW cols, NEW new,
         "email" \in cols => new.email \in Addresses \cup {None},
         "state" \in cols => new.state \in States,
         "pending" \in cols => new.pending \in Addresses \cup {None},
         "sent" \in cols => new.sent \in {None, "recent", "overdue"}
  PROVE  /\ Saved(u, cols, new) \in [People -> Row \cup {None}]
         /\ \A v \in People : Saved(u, cols, new)[v] # None <=> account[v] # None
         /\ \A v \in People \ {u} : Saved(u, cols, new)[v] = account[v]
         /\ account[u] # None =>
              /\ Saved(u, cols, new)[u].email = IF "email" \in cols THEN new.email ELSE account[u].email
              /\ Saved(u, cols, new)[u].state = IF "state" \in cols THEN new.state ELSE account[u].state
              /\ Saved(u, cols, new)[u].pending = IF "pending" \in cols THEN new.pending ELSE account[u].pending
              /\ Saved(u, cols, new)[u].sent = IF "sent" \in cols THEN new.sent ELSE account[u].sent
<1> DEFINE row == [email |-> IF "email" \in cols THEN new.email ELSE account[u].email,
                   state |-> IF "state" \in cols THEN new.state ELSE account[u].state,
                   pending |-> IF "pending" \in cols THEN new.pending ELSE account[u].pending,
                   sent |-> IF "sent" \in cols THEN new.sent ELSE account[u].sent]
<1>1. Saved(u, cols, new) = [account EXCEPT ![u] = IF account[u] = None THEN None ELSE row]
  BY DEF Saved
<1>2. CASE account[u] = None
  BY <1>1, <1>2
<1>3. CASE account[u] # None
  <2>1. row \in Row
    BY <1>3 DEF Row
  <2>2. row # None
    BY <2>1, NoneAssumption
  <2> HIDE DEF row
  <2>3. Saved(u, cols, new) = [account EXCEPT ![u] = row]
    BY <1>1, <1>3
  <2>4. Saved(u, cols, new)[u] = row
    BY <2>3
  <2> QED
    BY <2>1, <2>2, <2>3, <2>4, <1>3 DEF row
<1> QED
  BY <1>2, <1>3

\* The row of a request that gets older: all but the time stays.
LEMMA AgedRequests ==
  ASSUME NEW request \in Request \cup {None}, NEW u
  PROVE  /\ Aged(request, u) \in Request \cup {None}
         /\ Aged(request, u) = None <=> request = None
         /\ request # None =>
              /\ Aged(request, u).user = request.user /\ Aged(request, u).mail = request.mail
              /\ Aged(request, u).row.email = request.row.email
              /\ Aged(request, u).row.state = request.row.state
              /\ Paired(request.row) => Paired(Aged(request, u).row)
<1>1. CASE Aged(request, u) = request
  BY <1>1
<1>2. CASE request # None /\ request.row.sent = "recent"
           /\ Aged(request, u) = [request EXCEPT !.row.sent = "overdue"]
  <2> DEFINE row == [email |-> request.row.email, state |-> request.row.state,
                     pending |-> request.row.pending, sent |-> "overdue"]
             new == [user |-> request.user, row |-> row, asked |-> request.asked,
                     free |-> request.free, mail |-> request.mail]
  <2>1. request \in Request /\ request.row \in Row
    BY <1>2 DEF Request
  <2>2. [request.row EXCEPT !.sent = "overdue"] = row
    BY <2>1 DEF Row
  <2>3. Aged(request, u) = [request EXCEPT !.row = [request.row EXCEPT !.sent = "overdue"]]
    BY <1>2
  <2>4. row \in Row
    BY <2>1 DEF Row
  <2> HIDE DEF row
  <2>5. Aged(request, u) = new
    BY <2>1, <2>2, <2>3 DEF Request
  <2>6. new \in Request /\ new # None
    BY <2>1, <2>4, NoneAssumption DEF Request
  <2>7. new.user = request.user /\ new.mail = request.mail /\ new.row = row
    OBVIOUS
  <2>8. /\ row.email = request.row.email /\ row.state = request.row.state
        /\ row.pending = request.row.pending /\ row.sent = "overdue"
    BY DEF row
  <2>9. Paired(request.row) => Paired(row)
    BY <1>2, <2>8, NoneAssumption DEF Paired
  <2> HIDE DEF new
  <2> QED
    BY <1>2, <2>5, <2>6, <2>7, <2>8, <2>9
<1> QED
  BY <1>1, <1>2 DEF Aged

-----------------------------------------------------------------------------
(* Types.                                                                  *)

LEMMA InitTypes == VerificationInit => TypeInv
<1> SUFFICES ASSUME VerificationInit PROVE TypeInv
  OBVIOUS
<1>1. PICK old \in SUBSET People, home \in [People -> Addresses] :
        account = [u \in People |-> IF u \in old
         THEN [email |-> home[u], state |-> "legacy", pending |-> None, sent |-> None] ELSE None]
  BY DEF VerificationInit
<1>2. account \in [People -> Row \cup {None}]
  BY <1>1 DEF Row, States
<1>3. \A u \in Accounts : account[u].pending = None <=> account[u].sent = None
  BY <1>1 DEF Accounts
<1> QED
  BY <1>2, <1>3 DEF VerificationInit, TypeInv, VerificationTypeOK, LinksToPending

\* The parts of TypeInv, with pairs by name.
LEMMA TypeParts ==
  TypeInv <=>
    /\ account \in [People -> Row \cup {None}] /\ \A u \in People : account[u] # None => Paired(account[u])
    /\ loaded \in [Requests -> Request \cup {None}] /\ \A r \in Requests : loaded[r] # None => Paired(loaded[r].row)
    /\ links \subseteq Link /\ LinksToPending
    /\ cooldown \subseteq People /\ corrected \in [People -> {"no", "new", "old"}]
    /\ burst \in [People -> Nat] /\ proven \subseteq People \X Addresses
BY DEF TypeInv, VerificationTypeOK, Paired, Accounts

LEMMA TypePartsNext ==
  ASSUME /\ account' \in [People -> Row \cup {None}]
         /\ \A u \in People : account'[u] # None => Paired(account'[u]),
         /\ loaded' \in [Requests -> Request \cup {None}]
         /\ \A r \in Requests : loaded'[r] # None => Paired(loaded'[r].row),
         links' \subseteq Link /\ LinksToPending',
         cooldown' \subseteq People /\ corrected' \in [People -> {"no", "new", "old"}],
         burst' \in [People -> Nat] /\ proven' \subseteq People \X Addresses
  PROVE  TypeInv'
BY DEF TypeInv, VerificationTypeOK, Paired, Accounts

\* A step that saves columns.
LEMMA SaveTypes ==
  ASSUME TypeInv, NEW u \in People, NEW cols, NEW new,
         "email" \in cols => new.email \in Addresses \cup {None},
         "state" \in cols => new.state \in States,
         "pending" \in cols => new.pending \in Addresses \cup {None},
         "sent" \in cols => new.sent \in {None, "recent", "overdue"},
         "pending" \in cols <=> "sent" \in cols,
         "pending" \in cols => Paired(new),
         account' = Saved(u, cols, new)
  PROVE  /\ account' \in [People -> Row \cup {None}]
         /\ \A v \in People : account'[v] # None => Paired(account'[v])
<1>1. account \in [People -> Row \cup {None}] /\ \A v \in People : account[v] # None => Paired(account[v])
  BY TypeParts
<1> QED
  BY <1>1, SavedRows DEF Paired

\* A step that saves a whole row, or deletes it.
LEMMA RowTypes ==
  ASSUME TypeInv, NEW u \in People, NEW row \in Row \cup {None}, row # None => Paired(row),
         account' = [account EXCEPT ![u] = row]
  PROVE  /\ account' \in [People -> Row \cup {None}]
         /\ \A v \in People : account'[v] # None => Paired(account'[v])
<1>1. account \in [People -> Row \cup {None}] /\ \A v \in People : account[v] # None => Paired(account[v])
  BY TypeParts
<1> QED
  BY <1>1

\* A step that gives a request something to work with.
LEMMA RequestTypes ==
  ASSUME TypeInv, NEW r \in Requests, NEW u \in People, NEW row \in Row, Paired(row),
         NEW asked \in Addresses \cup {None}, NEW free \in BOOLEAN, NEW mail \in BOOLEAN,
         loaded' = [loaded EXCEPT ![r] = [user |-> u, row |-> row, asked |-> asked, free |-> free, mail |-> mail]]
  PROVE  /\ loaded' \in [Requests -> Request \cup {None}]
         /\ \A s \in Requests : loaded'[s] # None => Paired(loaded'[s].row)
<1> DEFINE new == [user |-> u, row |-> row, asked |-> asked, free |-> free, mail |-> mail]
<1>1. new \in Request /\ new.row = row
  BY DEF Request
<1>2. loaded' = [loaded EXCEPT ![r] = new]
  OBVIOUS
<1> HIDE DEF new
<1>3. loaded \in [Requests -> Request \cup {None}] /\ \A s \in Requests : loaded[s] # None => Paired(loaded[s].row)
  BY TypeParts
<1> QED
  BY <1>1, <1>2, <1>3

LEMMA MailTypes ==
  ASSUME TypeInv, NEW u \in People, NEW row \in Row, NEW kind \in Kinds,
         kind = "change" => row.pending # None,
         SendVerificationMail(u, row, kind)
  PROVE  /\ links' \subseteq Link /\ LinksToPending'
         /\ cooldown' \subseteq People /\ corrected' \in [People -> {"no", "new", "old"}]
         /\ burst' \in [People -> Nat]
<1>1. LinkOf(u, row, kind) \in Link
  BY DEF LinkOf, Link, Row
<1>2. LinkOf(u, row, kind).kind = "change" => LinkOf(u, row, kind).pending # None
  BY DEF LinkOf
<1> QED
  BY <1>1, <1>2, TypeParts DEF LinksToPending, SendVerificationMail

LEMMA ServedTypes ==
  ASSUME TypeInv, NEW r \in Requests, loaded[r] # None
  PROVE  /\ loaded[r].user \in People /\ loaded[r].row \in Row /\ Paired(loaded[r].row)
         /\ loaded[r].asked \in Addresses \cup {None} /\ loaded[r].free \in BOOLEAN /\ loaded[r].mail \in BOOLEAN
BY TypeParts DEF Request

\* The copy of a request is that of its user.
LEMMA Ends ==
  ASSUME NEW r \in Requests, Serve(r)
  PROVE  loaded[r] # None /\ loaded' = [loaded EXCEPT ![r] = None]
BY DEF Serve, Work, Administer, TurnAway, Resend, CancelEmailChange, SetVerificationState, ConfirmChange,
   ConfirmAddress, CorrectUnverifiedEmail, RequestEmailChange, PromoteOnInvitationMatch, SaveWholeRow,
   DeactivateUser, ShredUser, Serves

LEMMA ServeTypes ==
  ASSUME TypeInv, NEW r \in Requests, Serve(r)
  PROVE  TypeInv'
<1> DEFINE u == loaded[r].user
           row == loaded[r].row
<1>1. u \in People /\ row \in Row /\ Paired(row) /\ loaded[r] # None
  BY ServedTypes, Ends
<1>3. /\ loaded' \in [Requests -> Request \cup {None}]
      /\ \A s \in Requests : loaded'[s] # None => Paired(loaded'[s].row)
  BY Ends, TypeParts
<1> HIDE DEF u, row
<1>a. ASSUME /\ account' \in [People -> Row \cup {None}]
             /\ \A v \in People : account'[v] # None => Paired(account'[v]),
             NoMail, proven' \subseteq People \X Addresses
      PROVE  TypeInv'
  <2>1. links' \subseteq Link /\ LinksToPending'
    BY <1>a, TypeParts DEF NoMail, LinksToPending
  <2> QED
    BY <1>a, <1>3, <2>1, TypeParts, TypePartsNext DEF NoMail
<1>b. ASSUME /\ account' \in [People -> Row \cup {None}]
             /\ \A v \in People : account'[v] # None => Paired(account'[v]),
             NEW new \in Row, NEW kind \in Kinds, kind = "change" => new.pending # None,
             SendVerificationMail(u, new, kind), UNCHANGED proven
      PROVE  TypeInv'
  <2>1. /\ links' \subseteq Link /\ LinksToPending'
        /\ cooldown' \subseteq People /\ corrected' \in [People -> {"no", "new", "old"}]
        /\ burst' \in [People -> Nat]
    BY <1>b, <1>1, MailTypes
  <2> QED
    BY <1>b, <1>3, <2>1, TypeParts, TypePartsNext
<1>c. ASSUME UNCHANGED account
      PROVE  /\ account' \in [People -> Row \cup {None}]
             /\ \A v \in People : account'[v] # None => Paired(account'[v])
  BY <1>c, TypeParts
<1>p. proven \subseteq People \X Addresses
  BY TypeParts
<1>4. CASE TurnAway(r)
  BY <1>4, <1>a, <1>c, <1>p DEF TurnAway
<1>5. CASE Resend(r, u, row)
  BY <1>5, <1>b, <1>c, <1>1 DEF Resend, Kinds
<1>6. CASE CancelEmailChange(r, u, row)
  BY <1>6, <1>a, <1>1, <1>p, SaveTypes DEF CancelEmailChange, NoPending, Paired
<1>7. ASSUME NEW state \in States, SetVerificationState(r, u, row, state)
      PROVE  TypeInv'
  <2>1. proven' \subseteq People \X Addresses
    BY <1>1, <1>7, <1>p DEF Row, SetVerificationState
  <2> QED
    BY <1>7, <2>1, <1>a, <1>1, SaveTypes DEF SetVerificationState
<1>8. ASSUME NEW l \in links, ConfirmChange(r, u, row, l)
      PROVE  TypeInv'
  <2>1. row.pending \in Addresses /\ To(l) = row.pending
    BY <1>8, <1>1, TypeParts DEF ConfirmChange, Fits, LinksToPending, Row, To
  <2>2. CASE account' = Saved(u, {"pending", "sent"}, NoPending) /\ UNCHANGED proven
    BY <1>8, <2>2, <1>a, <1>1, <1>p, SaveTypes DEF ConfirmChange, NoPending, Paired
  <2>3. CASE /\ account' = Saved(u, {"email", "pending", "sent", "state"},
                  [email |-> row.pending, pending |-> None, sent |-> None, state |-> "verified"])
             /\ proven' = proven \cup {<<u, To(l)>>}
    <3> DEFINE new == [email |-> row.pending, pending |-> None, sent |-> None, state |-> "verified"]
    <3>1. proven' \subseteq People \X Addresses
      BY <2>1, <2>3, <1>1, <1>p
    <3>2. new.email = row.pending /\ new.pending = None /\ new.sent = None /\ new.state \in States /\ Paired(new)
      BY DEF States, Paired
    <3>3. account' = Saved(u, {"email", "pending", "sent", "state"}, new)
      BY <2>3
    <3> HIDE DEF new
    <3>4. /\ account' \in [People -> Row \cup {None}]
          /\ \A v \in People : account'[v] # None => Paired(account'[v])
      BY <2>1, <3>2, <3>3, <1>1, SaveTypes
    <3> QED
      BY <1>8, <3>1, <3>4, <1>a DEF ConfirmChange
  <2> QED
    BY <1>8, <2>2, <2>3 DEF ConfirmChange
<1>9. ASSUME NEW l \in links, ConfirmAddress(r, u, row, l), row.email # None
      PROVE  TypeInv'
  <2>1. <<u, To(l)>> \in People \X Addresses
    BY <1>9, <1>1 DEF ConfirmAddress, Fits, To, Row
  <2> QED
    BY <1>9, <2>1, <1>a, <1>1, <1>p, SaveTypes DEF ConfirmAddress, States
<1>10. ASSUME NEW a \in Addresses, CorrectUnverifiedEmail(r, u, row, a)
       PROVE  TypeInv'
  <2> DEFINE new == [row EXCEPT !.email = a]
  <2>1. new \in Row /\ new.email = a
    BY <1>1 DEF Row
  <2>2. account' = Saved(u, {"email"}, new) /\ SendVerificationMail(u, new, "verify") /\ UNCHANGED proven
    BY <1>10 DEF CorrectUnverifiedEmail
  <2> HIDE DEF new
  <2>3. /\ account' \in [People -> Row \cup {None}]
        /\ \A v \in People : account'[v] # None => Paired(account'[v])
    BY <2>1, <2>2, <1>1, SaveTypes
  <2> QED
    BY <2>1, <2>2, <2>3, <1>b DEF Kinds
<1>11. ASSUME NEW a \in Addresses, RequestEmailChange(r, u, row, a)
       PROVE  TypeInv'
  <2> DEFINE new == [email |-> row.email, state |-> row.state, pending |-> a, sent |-> "recent"]
  <2>1. new \in Row /\ new.pending = a /\ new.sent = "recent"
    BY <1>1 DEF Row
  <2>2. a # None /\ "recent" # None
    BY NoneAssumption
  <2>3. account' = Saved(u, {"pending", "sent"}, new) /\ SendVerificationMail(u, new, "change") /\ UNCHANGED proven
    BY <1>11 DEF RequestEmailChange
  <2> HIDE DEF new
  <2>4. /\ account' \in [People -> Row \cup {None}]
        /\ \A v \in People : account'[v] # None => Paired(account'[v])
    BY <2>1, <2>2, <2>3, <1>1, SaveTypes DEF Paired
  <2> QED
    BY <2>1, <2>2, <2>3, <2>4, <1>b DEF Kinds
<1>12. ASSUME NEW a \in Addresses, PromoteOnInvitationMatch(r, u, row, a, a)
       PROVE  TypeInv'
  <2>1. proven' \subseteq People \X Addresses
    BY <1>12, <1>1, <1>p DEF PromoteOnInvitationMatch
  <2> QED
    BY <1>12, <2>1, <1>a, <1>1, SaveTypes DEF PromoteOnInvitationMatch, States
<1>13. CASE SaveWholeRow(r, u, row)
  BY <1>13, <1>a, <1>1, <1>p, RowTypes DEF SaveWholeRow
<1>14. CASE DeactivateUser(r, u, row)
  <2> DEFINE blank == [email |-> None, state |-> "unverified", pending |-> None, sent |-> None]
  <2>1. blank \in Row /\ Paired(blank)
    BY DEF Row, States, Paired
  <2>2. account' = [account EXCEPT ![u] = blank] /\ NoMail /\ proven' \subseteq People \X Addresses
    BY <1>14, <1>p DEF DeactivateUser
  <2> HIDE DEF blank
  <2> QED
    BY <2>1, <2>2, <1>a, <1>1, RowTypes
<1>15. CASE ShredUser(r, u, row)
  <2>1. account' = [account EXCEPT ![u] = None] /\ NoMail /\ proven' \subseteq People \X Addresses
    BY <1>15, <1>p DEF ShredUser
  <2> QED
    BY <2>1, <1>a, <1>1, RowTypes
<1> QED
  BY <1>4, <1>5, <1>6, <1>7, <1>8, <1>9, <1>10, <1>11, <1>12, <1>13, <1>14, <1>15 DEF Serve, Work, Administer, u, row

LEMMA AskTypes ==
  ASSUME TypeInv, NEW r \in Requests, Ask(r)
  PROVE  TypeInv'
<1> DEFINE u == loaded[r].user
           row == loaded[r].row
<1>1. u \in People /\ row \in Row /\ Paired(row) /\ loaded[r].asked \in Addresses \cup {None} /\ loaded[r].free \in BOOLEAN
  BY ServedTypes DEF Ask
<1>t. /\ account \in [People -> Row \cup {None}] /\ \A v \in People : account[v] # None => Paired(account[v])
      /\ links \subseteq Link /\ LinksToPending
      /\ cooldown \subseteq People /\ corrected \in [People -> {"no", "new", "old"}]
      /\ burst \in [People -> Nat] /\ proven \subseteq People \X Addresses
  BY TypeParts
<1>2. ASSUME NEW a \in Addresses, ValidateEmailUnique(r, u, row, a) PROVE TypeInv'
  <2>1. /\ loaded' = [loaded EXCEPT ![r] =
             [user |-> u, row |-> row, asked |-> a, free |-> ~Taken(a, u), mail |-> FALSE]]
        /\ UNCHANGED <<account, links, cooldown, corrected, proven, burst>>
    BY <1>2 DEF ValidateEmailUnique
  <2> HIDE DEF u, row
  <2>3. /\ loaded' \in [Requests -> Request \cup {None}]
        /\ \A s \in Requests : loaded'[s] # None => Paired(loaded'[s].row)
    BY <2>1, <1>1, RequestTypes, (~Taken(a, u)) \in BOOLEAN
  <2> QED
    BY <2>1, <2>3, <1>t, TypePartsNext DEF LinksToPending
<1>3. CASE CheckSendCooldown(r, u, row)
  <2>1. /\ loaded' = [loaded EXCEPT ![r] =
             [user |-> u, row |-> row, asked |-> loaded[r].asked, free |-> loaded[r].free, mail |-> TRUE]]
        /\ UNCHANGED <<account, links, cooldown, proven, burst>>
        /\ corrected' = IF u \in cooldown THEN [corrected EXCEPT ![u] = "new"] ELSE corrected
    BY <1>3 DEF CheckSendCooldown
  <2> HIDE DEF u, row
  <2>2. /\ loaded' \in [Requests -> Request \cup {None}]
        /\ \A s \in Requests : loaded'[s] # None => Paired(loaded'[s].row)
    BY <2>1, <1>1, RequestTypes
  <2>3. corrected' \in [People -> {"no", "new", "old"}]
    BY <2>1, <1>1, <1>t
  <2> QED
    BY <2>1, <2>2, <2>3, <1>t, TypePartsNext DEF LinksToPending
<1> QED
  BY <1>2, <1>3 DEF Ask

LEMMA NextTypes == TypeInv /\ [VerificationNext]_accountVars => TypeInv'
<1> SUFFICES ASSUME TypeInv, [VerificationNext]_accountVars PROVE TypeInv'
  OBVIOUS
<1>t. /\ account \in [People -> Row \cup {None}] /\ \A v \in People : account[v] # None => Paired(account[v])
      /\ loaded \in [Requests -> Request \cup {None}] /\ \A r \in Requests : loaded[r] # None => Paired(loaded[r].row)
      /\ links \subseteq Link /\ LinksToPending
      /\ cooldown \subseteq People /\ corrected \in [People -> {"no", "new", "old"}]
      /\ burst \in [People -> Nat] /\ proven \subseteq People \X Addresses
  BY TypeParts
<1>1. ASSUME NEW r \in Requests, Serve(r) \/ Ask(r) PROVE TypeInv'
  BY <1>1, ServeTypes, AskTypes
<1>2. ASSUME NEW r \in Requests, NEW u \in People, Load(r, u) PROVE TypeInv'
  <2>1. account[u] \in Row /\ Paired(account[u])
    BY <1>2, <1>t DEF Load, Accounts
  <2>2. /\ loaded' = [loaded EXCEPT ![r] =
             [user |-> u, row |-> account[u], asked |-> None, free |-> FALSE, mail |-> FALSE]]
        /\ UNCHANGED <<account, links, cooldown, corrected, proven, burst>>
    BY <1>2 DEF Load
  <2>3. /\ loaded' \in [Requests -> Request \cup {None}]
        /\ \A s \in Requests : loaded'[s] # None => Paired(loaded'[s].row)
    BY <2>1, <2>2, RequestTypes
  <2> QED
    BY <2>2, <2>3, <1>t, TypePartsNext DEF LinksToPending
<1>4. ASSUME NEW u \in People, CooldownOver(u) PROVE TypeInv'
  BY <1>4, <1>t, TypePartsNext DEF CooldownOver, LinksToPending
<1>5. ASSUME NEW u \in People, RowAges(u) PROVE TypeInv'
  <2> DEFINE new == [sent |-> "overdue"]
  <2>1. account' = Saved(u, {"sent"}, new) /\ new.sent = "overdue"
    BY <1>5 DEF RowAges
  <2> HIDE DEF new
  <2>2. account' \in [People -> Row \cup {None}]
    BY <2>1, <1>t, SavedRows
  <2>3. "overdue" # None /\ "recent" # None
    BY NoneAssumption
  <2>4. \A v \in People : account'[v] # None => Paired(account'[v])
    BY <2>1, <2>3, <1>5, <1>t, SavedRows DEF Paired, Accounts, RowAges
  <2>5. loaded' = [r \in Requests |-> Aged(loaded[r], u)]
    BY <1>5 DEF RowAges
  <2>6. /\ loaded' \in [Requests -> Request \cup {None}]
        /\ \A s \in Requests : loaded'[s] # None => Paired(loaded'[s].row)
    BY <2>5, <1>t, AgedRequests
  <2> QED
    BY <2>2, <2>4, <2>6, <1>5, <1>t, TypePartsNext DEF RowAges, LinksToPending
<1>6. ASSUME NEW u \in People, CorrectionDayOver(u) PROVE TypeInv'
  BY <1>6, <1>t, TypePartsNext DEF CorrectionDayOver, LinksToPending
<1>7. ASSUME NEW r \in Requests, NEW u \in People, NEW a \in Addresses, Register(r, u, a) PROVE TypeInv'
  <2> DEFINE row == [email |-> a, state |-> "unverified", pending |-> None, sent |-> None]
  <2>1. row \in Row /\ Paired(row)
    BY DEF Row, States, Paired
  <2>2. /\ account' = [account EXCEPT ![u] = row]
        /\ loaded' = [loaded EXCEPT ![r] = [user |-> u, row |-> row, asked |-> a, free |-> TRUE, mail |-> FALSE]]
        /\ NoMail /\ UNCHANGED proven
    BY <1>7 DEF Register
  <2> HIDE DEF row
  <2>3. /\ account' \in [People -> Row \cup {None}]
        /\ \A v \in People : account'[v] # None => Paired(account'[v])
    BY <2>1, <2>2, RowTypes
  <2>4. /\ loaded' \in [Requests -> Request \cup {None}]
        /\ \A s \in Requests : loaded'[s] # None => Paired(loaded'[s].row)
    BY <2>1, <2>2, RequestTypes
  <2> QED
    BY <2>2, <2>3, <2>4, <1>t, TypePartsNext DEF NoMail, LinksToPending
<1>8. ASSUME NEW l \in links, LinkExpires(l) PROVE TypeInv'
  BY <1>8, <1>t, TypePartsNext DEF LinkExpires, LinksToPending
<1>9. CASE UNCHANGED accountVars
  BY <1>9, <1>t, TypePartsNext DEF accountVars, LinksToPending
<1> QED
  BY <1>1, <1>2, <1>4, <1>5, <1>6, <1>7, <1>8, <1>9 DEF VerificationNext

\* Rows, copies and links keep their types, and pending_email and pending_email_sent are
\* set and cleared together, for any number of accounts, addresses and requests.
THEOREM VerificationTypeCorrect == VerificationSpec => []VerificationTypeOK
<1>1. TypeInv => VerificationTypeOK
  BY DEF TypeInv
<1> QED
  BY InitTypes, NextTypes, <1>1, PTL DEF VerificationSpec

-----------------------------------------------------------------------------
(* What each kind of step does to the rows.                                *)

\* The row of the user is saved with columns of these values.
SavesUser(r, cols, new) ==
  /\ account' = Saved(loaded[r].user, cols, new)
  /\ "email" \in cols => new.email \in Addresses \cup {None}
  /\ "state" \in cols => new.state \in States
  /\ "pending" \in cols => new.pending \in Addresses \cup {None}
  /\ "sent" \in cols => new.sent \in {None, "recent", "overdue"}

\* Why a request may set an address: the copy is of an account that is new, or the link
\* shows that its user reads it.
AddressEarned(r, cols, new) ==
  "email" \in cols =>
    \/ loaded[r].row.state = "unverified" /\ "state" \notin cols
    \/ <<loaded[r].user, new.email>> \in proven'

\* Why a request may call an address verified: it is proven, or there is none.
StateEarned(r, cols, new) ==
  "state" \in cols =>
    \/ new.state # "verified"
    \/ <<loaded[r].user, IF "email" \in cols THEN new.email ELSE loaded[r].row.email>> \in proven'
    \/ "email" \notin cols /\ loaded[r].row.email = None

\* The row is saved as it was read.
SavesCopy(r) ==
  account' = [account EXCEPT ![loaded[r].user] = loaded[r].row] /\ proven' = proven

\* Nothing is left of the account.
Leaves(r) ==
  /\ \E gone : /\ gone # None => gone.email = None /\ gone.state = "unverified"
               /\ account' = [account EXCEPT ![loaded[r].user] = gone]
  /\ proven' = {p \in proven : p[1] # loaded[r].user}

LEMMA ServeSaves ==
  ASSUME TypeInv, NEW r \in Requests, Serve(r)
  PROVE  \/ proven \subseteq proven' /\ UNCHANGED account
         \/ /\ proven \subseteq proven'
            /\ \E cols, new : SavesUser(r, cols, new) /\ AddressEarned(r, cols, new) /\ StateEarned(r, cols, new)
         \/ SavesCopy(r)
         \/ Leaves(r)
<1> DEFINE u == loaded[r].user
           row == loaded[r].row
           Goal == \E cols, new : SavesUser(r, cols, new) /\ AddressEarned(r, cols, new) /\ StateEarned(r, cols, new)
<1>1. u \in People /\ row \in Row /\ loaded[r] # None
  BY ServedTypes, Ends
<1>3. CASE TurnAway(r) \/ Resend(r, u, row)
  BY <1>3 DEF TurnAway, Resend
<1>4. ASSUME account' = Saved(u, {"pending", "sent"}, NoPending)
      PROVE  Goal
  BY <1>4 DEF NoPending, SavesUser, AddressEarned, StateEarned
<1>5. CASE CancelEmailChange(r, u, row)
  BY <1>4, <1>5 DEF CancelEmailChange
<1>6. ASSUME NEW state \in States, account' = Saved(u, {"state"}, [state |-> state]),
             state = "verified" => <<u, row.email>> \in proven' \/ row.email = None
      PROVE  Goal
  <2> DEFINE new == [state |-> state]
  <2>1. new.state = state
    OBVIOUS
  <2>2. account' = Saved(u, {"state"}, new)
    BY <1>6
  <2> HIDE DEF new
  <2>3. SavesUser(r, {"state"}, new) /\ AddressEarned(r, {"state"}, new) /\ StateEarned(r, {"state"}, new)
    BY <1>6, <2>1, <2>2 DEF SavesUser, AddressEarned, StateEarned
  <2> QED
    BY <2>3
<1>7. ASSUME NEW state \in States, SetVerificationState(r, u, row, state)
      PROVE  Goal /\ proven \subseteq proven'
  BY <1>6, <1>7 DEF SetVerificationState
<1>8. ASSUME NEW l \in links, ConfirmChange(r, u, row, l)
      PROVE  Goal /\ proven \subseteq proven'
  <2>1. row.pending \in Addresses /\ To(l) = row.pending
    BY <1>8, <1>1, TypeParts DEF ConfirmChange, Fits, LinksToPending, Row, To
  <2>2. CASE account' = Saved(u, {"pending", "sent"}, NoPending) /\ UNCHANGED proven
    BY <2>2, <1>4
  <2>3. CASE /\ account' = Saved(u, {"email", "pending", "sent", "state"},
                  [email |-> row.pending, pending |-> None, sent |-> None, state |-> "verified"])
             /\ proven' = proven \cup {<<u, To(l)>>}
    <3> DEFINE new == [email |-> row.pending, pending |-> None, sent |-> None, state |-> "verified"]
               cols == {"email", "pending", "sent", "state"}
    <3>1. new.email = row.pending /\ new.pending = None /\ new.sent = None /\ new.state = "verified"
      OBVIOUS
    <3>2. account' = Saved(u, cols, new)
      BY <2>3
    <3>3. <<u, row.pending>> \in proven'
      BY <2>1, <2>3
    <3> HIDE DEF new
    <3>4. SavesUser(r, cols, new)
      BY <2>1, <3>1, <3>2 DEF SavesUser, States
    <3>5. AddressEarned(r, cols, new) /\ StateEarned(r, cols, new)
      BY <2>3, <3>1, <3>3 DEF AddressEarned, StateEarned
    <3> QED
      BY <2>3, <3>4, <3>5
  <2> QED
    BY <1>8, <2>2, <2>3 DEF ConfirmChange
<1>9. ASSUME NEW l \in links, ConfirmAddress(r, u, row, l)
      PROVE  Goal /\ proven \subseteq proven'
  <2>1. <<u, row.email>> \in proven'
    BY <1>9 DEF ConfirmAddress, Fits, To
  <2> QED
    BY <1>9, <2>1, <1>6 DEF ConfirmAddress, States
<1>10. ASSUME NEW a \in Addresses, CorrectUnverifiedEmail(r, u, row, a)
       PROVE  Goal /\ proven \subseteq proven'
  <2> DEFINE new == [row EXCEPT !.email = a]
  <2>1. new.email = a
    BY <1>1 DEF Row
  <2>2. account' = Saved(u, {"email"}, new) /\ row.state = "unverified" /\ proven' = proven
    BY <1>10 DEF CorrectUnverifiedEmail
  <2> HIDE DEF new
  <2>3. SavesUser(r, {"email"}, new) /\ AddressEarned(r, {"email"}, new) /\ StateEarned(r, {"email"}, new)
    BY <2>1, <2>2 DEF SavesUser, AddressEarned, StateEarned
  <2> QED
    BY <2>2, <2>3
<1>11. ASSUME NEW a \in Addresses, RequestEmailChange(r, u, row, a)
       PROVE  Goal /\ proven \subseteq proven'
  <2> DEFINE new == [email |-> row.email, state |-> row.state, pending |-> a, sent |-> "recent"]
             cols == {"pending", "sent"}
  <2>1. new.pending = a /\ new.sent = "recent"
    OBVIOUS
  <2>2. account' = Saved(u, cols, new) /\ proven' = proven
    BY <1>11 DEF RequestEmailChange
  <2> HIDE DEF new
  <2>3. SavesUser(r, cols, new) /\ AddressEarned(r, cols, new) /\ StateEarned(r, cols, new)
    BY <2>1, <2>2 DEF SavesUser, AddressEarned, StateEarned
  <2> QED
    BY <2>2, <2>3
<1>12. ASSUME NEW a \in Addresses, PromoteOnInvitationMatch(r, u, row, a, a)
       PROVE  Goal /\ proven \subseteq proven'
  BY <1>6, <1>12 DEF PromoteOnInvitationMatch, States
<1>13. CASE SaveWholeRow(r, u, row)
  BY <1>13 DEF SaveWholeRow, SavesCopy
<1>14. CASE DeactivateUser(r, u, row)
  <2> DEFINE blank == [email |-> None, state |-> "unverified", pending |-> None, sent |-> None]
  <2>1. blank.email = None /\ blank.state = "unverified"
    OBVIOUS
  <2>2. account' = [account EXCEPT ![u] = blank] /\ proven' = {p \in proven : p[1] # u}
    BY <1>14 DEF DeactivateUser
  <2> HIDE DEF blank
  <2> QED
    BY <2>1, <2>2 DEF Leaves
<1>15. CASE ShredUser(r, u, row)
  BY <1>15 DEF ShredUser, Leaves
<1> QED
  BY <1>3, <1>5, <1>7, <1>8, <1>9, <1>10, <1>11, <1>12, <1>13, <1>14, <1>15 DEF Serve, Work, Administer

\* The other steps change no address of an account that is there.
LEMMA OtherSteps ==
  ASSUME TypeInv, [VerificationNext]_accountVars
  PROVE  \/ \E r \in Requests : Serve(r)
         \/ UNCHANGED <<account, proven>>
              /\ (\/ UNCHANGED loaded
                  \/ \E r \in Requests : Ask(r) \/ \E u \in People : Load(r, u))
         \/ UNCHANGED proven /\ \E u \in People : RowAges(u)
         \/ UNCHANGED proven /\ \E r \in Requests, u \in People, a \in Addresses : Register(r, u, a)
<1>1. ASSUME NEW r \in Requests, NEW u \in People, Load(r, u)
      PROVE  UNCHANGED <<account, proven>>
  BY <1>1 DEF Load
<1>2. ASSUME NEW u \in People, CooldownOver(u) \/ CorrectionDayOver(u)
      PROVE  UNCHANGED <<account, proven, loaded>>
  BY <1>2 DEF CooldownOver, CorrectionDayOver
<1>3. ASSUME NEW u \in People, RowAges(u)
      PROVE  UNCHANGED proven
  BY <1>3 DEF RowAges
<1>4. ASSUME NEW r \in Requests, Ask(r)
      PROVE  UNCHANGED <<account, proven>>
  BY <1>4 DEF Ask, ValidateEmailUnique, CheckSendCooldown
<1>5. ASSUME NEW r \in Requests, NEW u \in People, NEW a \in Addresses, Register(r, u, a)
      PROVE  UNCHANGED proven
  BY <1>5 DEF Register
<1>6. ASSUME NEW l \in links, LinkExpires(l)
      PROVE  UNCHANGED <<account, proven, loaded>>
  BY <1>6 DEF LinkExpires
<1>7. CASE UNCHANGED accountVars
  BY <1>7 DEF accountVars
<1> QED
  BY <1>1, <1>2, <1>3, <1>4, <1>5, <1>6, <1>7 DEF VerificationNext

\* A request that asks keeps its user and its copy.
LEMMA Asks ==
  ASSUME TypeInv, NEW r \in Requests, Ask(r)
  PROVE  /\ \A s \in Requests \ {r} : loaded'[s] = loaded[s]
         /\ loaded[r] # None /\ loaded'[r].user = loaded[r].user /\ loaded'[r].row = loaded[r].row
         /\ loaded'[r].mail => loaded[r].mail \/ CheckSendCooldown(r, loaded[r].user, loaded[r].row)
<1> DEFINE u == loaded[r].user
           row == loaded[r].row
<1>1. loaded \in [Requests -> Request \cup {None}] /\ loaded[r] # None
  BY TypeParts DEF Ask
<1>2. ASSUME NEW a \in Addresses, ValidateEmailUnique(r, u, row, a)
      PROVE  /\ \A s \in Requests \ {r} : loaded'[s] = loaded[s]
             /\ loaded'[r].user = u /\ loaded'[r].row = row /\ loaded'[r].mail = FALSE
  BY <1>1, <1>2 DEF ValidateEmailUnique
<1>3. CASE CheckSendCooldown(r, u, row)
  BY <1>1, <1>3 DEF CheckSendCooldown
<1> QED
  BY <1>1, <1>2, <1>3 DEF Ask

-----------------------------------------------------------------------------
(* The copies of requests, when those of the same user do not overlap.     *)

\* Requests overlap, but not with others of the same user.
UsersTakeTurns ==
  \A r, s \in Requests :
    loaded[r] # None /\ loaded[s] # None /\ loaded[r].user = loaded[s].user => r = s

\* The copy of a request is of an account that exists, and is not stale.
LoadedInv ==
  \A r \in Requests : loaded[r] # None =>
    /\ account[loaded[r].user] # None
    /\ loaded[r].row.email = account[loaded[r].user].email
    /\ loaded[r].row.state = account[loaded[r].user].state

\* A request changes its user's row only.
LEMMA ServesOne ==
  ASSUME TypeInv, NEW r \in Requests, Serve(r)
  PROVE  \A v \in People \ {loaded[r].user} : account'[v] = account[v]
<1>1. loaded[r].user \in People /\ account \in [People -> Row \cup {None}]
  BY ServedTypes, Ends, TypeParts
<1>2. ASSUME NEW cols, NEW new, SavesUser(r, cols, new)
      PROVE  \A v \in People \ {loaded[r].user} : account'[v] = account[v]
  BY <1>1, <1>2, SavedRows DEF SavesUser
<1> QED
  BY <1>1, <1>2, ServeSaves DEF SavesCopy, Leaves

LEMMA LoadedStep == UsersTakeTurns /\ TypeInv /\ LoadedInv /\ [VerificationNext]_accountVars => LoadedInv'
<1> SUFFICES ASSUME UsersTakeTurns, TypeInv, LoadedInv, [VerificationNext]_accountVars PROVE LoadedInv'
  OBVIOUS
<1>t. /\ account \in [People -> Row \cup {None}]
      /\ loaded \in [Requests -> Request \cup {None}]
      /\ \A r \in Requests : loaded[r] # None => loaded[r].user \in People
  BY TypeParts DEF Request
<1>1. CASE UNCHANGED <<account, loaded>>
  BY <1>1 DEF LoadedInv
<1>2. ASSUME NEW r \in Requests, Serve(r) PROVE LoadedInv'
  <2>1. loaded' = [loaded EXCEPT ![r] = None] /\ loaded[r] # None
    BY <1>2, Ends
  <2>2. \A v \in People \ {loaded[r].user} : account'[v] = account[v]
    BY <1>2, ServesOne
  <2>4. ASSUME NEW s \in Requests, loaded'[s] # None
        PROVE  s # r /\ loaded'[s] = loaded[s] /\ loaded[s].user \in People \ {loaded[r].user}
    BY <2>1, <2>4, <1>t DEF UsersTakeTurns
  <2> QED
    BY <2>2, <2>4 DEF LoadedInv
<1>3. ASSUME NEW r \in Requests, NEW u \in People, Load(r, u) PROVE LoadedInv'
  BY <1>3, <1>t DEF Load, LoadedInv, Accounts
<1>4. ASSUME NEW u \in People, RowAges(u) PROVE LoadedInv'
  <2> DEFINE new == [sent |-> "overdue"]
  <2>1. account' = Saved(u, {"sent"}, new) /\ new.sent = "overdue" /\ loaded' = [r \in Requests |-> Aged(loaded[r], u)]
    BY <1>4 DEF RowAges
  <2> HIDE DEF new
  <2>2. \A v \in People : /\ account'[v] # None <=> account[v] # None
                          /\ account[v] # None => account'[v].email = account[v].email /\ account'[v].state = account[v].state
    BY <2>1, <1>t, SavedRows
  <2>3. \A r \in Requests : loaded'[r] # None =>
           /\ loaded[r] # None /\ loaded'[r].user = loaded[r].user
           /\ loaded'[r].row.email = loaded[r].row.email /\ loaded'[r].row.state = loaded[r].row.state
    BY <2>1, <1>t, AgedRequests
  <2> QED
    BY <2>2, <2>3, <1>t DEF LoadedInv
<1>5. ASSUME NEW r \in Requests, Ask(r), UNCHANGED account PROVE LoadedInv'
  <2>1. /\ \A s \in Requests \ {r} : loaded'[s] = loaded[s]
        /\ loaded[r] # None /\ loaded'[r].user = loaded[r].user /\ loaded'[r].row = loaded[r].row
    BY <1>5, Asks
  <2> QED
    BY <2>1, <1>5 DEF LoadedInv
<1>6. ASSUME NEW r \in Requests, NEW u \in People, NEW a \in Addresses, Register(r, u, a) PROVE LoadedInv'
  <2> DEFINE row == [email |-> a, state |-> "unverified", pending |-> None, sent |-> None]
             new == [user |-> u, row |-> row, asked |-> a, free |-> TRUE, mail |-> FALSE]
  <2>1. /\ account' = [account EXCEPT ![u] = row] /\ loaded' = [loaded EXCEPT ![r] = new]
        /\ \A s \in Requests : loaded[s] # None => loaded[s].user # u
    BY <1>6 DEF Register
  <2>2. row \in Row
    BY DEF Row, States
  <2>3. row # None
    BY <2>2, NoneAssumption
  <2> HIDE DEF row
  <2>4. new.user = u /\ new.row = row
    OBVIOUS
  <2> HIDE DEF new
  <2>5. account'[u] = row /\ loaded'[r] = new
    BY <2>1, <1>t
  <2>6. \A s \in Requests \ {r} : loaded'[s] = loaded[s] /\ (loaded[s] # None => account'[loaded[s].user] = account[loaded[s].user])
    BY <2>1, <1>t
  <2> QED
    BY <2>3, <2>4, <2>5, <2>6 DEF LoadedInv
<1> QED
  BY <1>1, <1>2, <1>3, <1>4, <1>5, <1>6, OtherSteps

-----------------------------------------------------------------------------
(* Mails in a cooldown.                                                    *)

\* An account out of its cooldown has had no mail, and the second mail in a cooldown is
\* the correction's.  A request that has passed the cooldown and finds it begun holds the
\* key of the free correction, and has not sent its mail yet.
BurstInv ==
  /\ \A u \in People :
       /\ corrected[u] = "new" => u \in cooldown
       /\ u \notin cooldown => burst[u] = 0
       /\ burst[u] <= 2 /\ (corrected[u] # "new" => burst[u] <= 1)
  /\ \A r \in Requests : loaded[r] # None /\ loaded[r].mail /\ loaded[r].user \in cooldown =>
       corrected[loaded[r].user] = "new" /\ burst[loaded[r].user] <= 1

LEMMA BurstStep == UsersTakeTurns /\ TypeInv /\ BurstInv /\ [VerificationNext]_accountVars => BurstInv'
<1> SUFFICES ASSUME UsersTakeTurns, TypeInv, BurstInv, [VerificationNext]_accountVars PROVE BurstInv'
  OBVIOUS
<1>t. /\ corrected \in [People -> {"no", "new", "old"}] /\ burst \in [People -> Nat] /\ cooldown \subseteq People
      /\ loaded \in [Requests -> Request \cup {None}]
      /\ \A r \in Requests : loaded[r] # None => loaded[r].user \in People
  BY TypeParts DEF Request
<1>1. ASSUME UNCHANGED <<cooldown, corrected, burst>>,
             \A r \in Requests : loaded'[r] # None =>
               \/ ~loaded'[r].mail
               \/ loaded[r] # None /\ loaded[r].mail /\ loaded'[r].user = loaded[r].user
      PROVE  BurstInv'
  BY <1>1 DEF BurstInv
<1>2. ASSUME NEW r \in Requests, Serve(r) PROVE BurstInv'
  <2> DEFINE u == loaded[r].user
  <2>1. u \in People /\ loaded[r] # None /\ loaded' = [loaded EXCEPT ![r] = None]
    BY <1>2, ServedTypes, Ends
  <2>2. \A s \in Requests : loaded'[s] # None => loaded'[s] = loaded[s] /\ s # r /\ loaded[s].user # u
    BY <2>1, <1>t DEF UsersTakeTurns
  <2>3. CASE NoMail
    BY <1>1, <2>2, <2>3 DEF NoMail
  <2>4. CASE loaded[r].mail /\ \E row, kind : SendVerificationMail(u, row, kind)
    <3>1. /\ cooldown' = cooldown \cup {u} /\ burst' = [burst EXCEPT ![u] = burst[u] + 1]
          /\ corrected' = corrected
      BY <2>4 DEF SendVerificationMail
    <3>2. /\ burst[u] <= 1 /\ (u \notin cooldown => burst[u] = 0 /\ corrected[u] # "new")
          /\ u \in cooldown => corrected[u] = "new"
      BY <2>1, <2>4 DEF BurstInv
    <3> HIDE DEF u
    <3>3. burst'[u] <= 2 /\ (corrected[u] # "new" => burst'[u] <= 1)
      BY <2>1, <3>1, <3>2, <1>t
    <3>4. \A v \in People \ {u} : burst'[v] = burst[v] /\ (v \in cooldown' <=> v \in cooldown)
      BY <3>1, <1>t
    <3>5. \A v \in People :
            /\ corrected'[v] = "new" => v \in cooldown'
            /\ v \notin cooldown' => burst'[v] = 0
            /\ burst'[v] <= 2 /\ (corrected'[v] # "new" => burst'[v] <= 1)
      BY <3>1, <3>3, <3>4 DEF BurstInv
    <3>6. ASSUME NEW s \in Requests, loaded'[s] # None, loaded'[s].mail, loaded'[s].user \in cooldown'
          PROVE  corrected'[loaded'[s].user] = "new" /\ burst'[loaded'[s].user] <= 1
      <4>1. loaded'[s] = loaded[s] /\ loaded[s].user \in People \ {u}
        BY <2>2, <3>6, <1>t
      <4> QED
        BY <3>1, <3>4, <3>6, <4>1 DEF BurstInv
    <3> QED
      BY <3>5, <3>6 DEF BurstInv
  <2>5. NoMail \/ (loaded[r].mail /\ \E row, kind : SendVerificationMail(u, row, kind))
    BY <1>2 DEF Serve, Work, Administer, TurnAway, Resend, CancelEmailChange, SetVerificationState, ConfirmChange,
       ConfirmAddress, CorrectUnverifiedEmail, RequestEmailChange, PromoteOnInvitationMatch, SaveWholeRow,
       DeactivateUser, ShredUser
  <2> QED
    BY <2>3, <2>4, <2>5
<1>3. ASSUME NEW r \in Requests, Ask(r) PROVE BurstInv'
  <2> DEFINE u == loaded[r].user
             row == loaded[r].row
  <2>1. /\ \A s \in Requests \ {r} : loaded'[s] = loaded[s]
        /\ loaded[r] # None /\ loaded'[r].user = u
        /\ loaded'[r].mail => loaded[r].mail \/ CheckSendCooldown(r, u, row)
    BY <1>3, Asks
  <2>2. u \in People
    BY <2>1, <1>t
  <2>3. CASE UNCHANGED <<cooldown, corrected, burst>> /\ (loaded'[r].mail => loaded[r].mail)
    BY <1>1, <2>1, <2>3
  <2>4. CASE CheckSendCooldown(r, u, row)
    <3>1. /\ \A s \in Requests \ {r} : loaded[s] # None => loaded[s].user # u
      BY <2>1 DEF UsersTakeTurns
    <3>2. /\ u \notin cooldown \/ corrected[u] = "no"
          /\ corrected' = IF u \in cooldown THEN [corrected EXCEPT ![u] = "new"] ELSE corrected
          /\ UNCHANGED <<cooldown, burst>>
      BY <2>4 DEF CheckSendCooldown, MayMail
    <3> HIDE DEF u, row
    <3>3. CASE u \notin cooldown
      <4>1. UNCHANGED <<cooldown, corrected, burst>>
        BY <3>2, <3>3
      <4> QED
        BY <2>1, <3>3, <4>1 DEF BurstInv
    <3>4. CASE u \in cooldown
      <4>1. corrected' = [corrected EXCEPT ![u] = "new"] /\ burst[u] <= 1
        BY <2>2, <3>2, <3>4 DEF BurstInv
      <4>2. corrected'[u] = "new" /\ \A v \in People \ {u} : corrected'[v] = corrected[v]
        BY <4>1, <2>2, <1>t
      <4>3. \A v \in People :
              /\ corrected'[v] = "new" => v \in cooldown'
              /\ v \notin cooldown' => burst'[v] = 0
              /\ burst'[v] <= 2 /\ (corrected'[v] # "new" => burst'[v] <= 1)
        BY <3>2, <3>4, <4>1, <4>2 DEF BurstInv
      <4>4. ASSUME NEW s \in Requests, loaded'[s] # None, loaded'[s].mail, loaded'[s].user \in cooldown'
            PROVE  corrected'[loaded'[s].user] = "new" /\ burst'[loaded'[s].user] <= 1
        <5>1. CASE s = r
          BY <5>1, <2>1, <3>2, <4>1, <4>2
        <5>2. CASE s # r
          BY <5>2, <2>1, <3>1, <3>2, <4>2, <4>4, <1>t DEF BurstInv
        <5> QED
          BY <5>1, <5>2
      <4> QED
        BY <4>3, <4>4 DEF BurstInv
    <3> QED
      BY <3>3, <3>4
  <2>5. CASE \E a \in Addresses : ValidateEmailUnique(r, u, row, a)
    <3>1. UNCHANGED <<cooldown, corrected, burst>> /\ loaded'[r].mail = FALSE
      BY <2>5, <1>t DEF ValidateEmailUnique
    <3> QED
      BY <2>3, <3>1
  <2> QED
    BY <1>3, <2>4, <2>5 DEF Ask
<1>4. ASSUME NEW u \in People, CooldownOver(u) PROVE BurstInv'
  <2>1. /\ cooldown' = cooldown \ {u} /\ burst' = [burst EXCEPT ![u] = 0] /\ loaded' = loaded
        /\ corrected' = [corrected EXCEPT ![u] = IF corrected[u] = "new" THEN "old" ELSE corrected[u]]
    BY <1>4 DEF CooldownOver
  <2>2. /\ burst'[u] = 0 /\ corrected'[u] # "new"
        /\ \A v \in People \ {u} : burst'[v] = burst[v] /\ corrected'[v] = corrected[v] /\ (v \in cooldown' <=> v \in cooldown)
    BY <2>1, <1>t
  <2> QED
    BY <2>1, <2>2, <1>t DEF BurstInv
<1>5. ASSUME NEW u \in People, CorrectionDayOver(u) PROVE BurstInv'
  <2>1. UNCHANGED <<cooldown, burst, loaded>> /\ corrected[u] = "old" /\ corrected' = [corrected EXCEPT ![u] = "no"]
    BY <1>5 DEF CorrectionDayOver
  <2>2. corrected'[u] = "no" /\ \A v \in People \ {u} : corrected'[v] = corrected[v]
    BY <2>1, <1>t
  <2> QED
    BY <2>1, <2>2, <1>t DEF BurstInv
<1>6. ASSUME NEW r \in Requests, NEW u \in People, NEW a \in Addresses, Register(r, u, a) PROVE BurstInv'
  <2>1. UNCHANGED <<cooldown, corrected, burst>> /\ ~loaded'[r].mail /\ \A s \in Requests \ {r} : loaded'[s] = loaded[s]
    BY <1>6, <1>t DEF Register, NoMail
  <2> QED
    BY <1>1, <2>1
<1>7. ASSUME NEW r \in Requests, NEW u \in People, Load(r, u) PROVE BurstInv'
  <2>1. UNCHANGED <<cooldown, corrected, burst>> /\ ~loaded'[r].mail /\ \A s \in Requests \ {r} : loaded'[s] = loaded[s]
    BY <1>7, <1>t DEF Load
  <2> QED
    BY <1>1, <2>1
<1>8. ASSUME NEW u \in People, RowAges(u) PROVE BurstInv'
  <2>1. UNCHANGED <<cooldown, corrected, burst>> /\ loaded' = [r \in Requests |-> Aged(loaded[r], u)]
    BY <1>8 DEF RowAges
  <2>2. \A r \in Requests : loaded'[r] # None =>
          loaded[r] # None /\ loaded'[r].user = loaded[r].user /\ loaded'[r].mail = loaded[r].mail
    BY <2>1, <1>t, AgedRequests
  <2> QED
    BY <1>1, <2>1, <2>2
<1>9. ASSUME NEW l \in links, LinkExpires(l) PROVE BurstInv'
  BY <1>9, <1>1 DEF LinkExpires
<1>10. CASE UNCHANGED accountVars
  BY <1>10, <1>1 DEF accountVars
<1> QED
  BY <1>2, <1>3, <1>4, <1>5, <1>6, <1>7, <1>8, <1>9, <1>10 DEF VerificationNext

\* The cooldown keeps its promise as long as no user has two requests in progress: whatever
\* they ask for, resending, correcting and changing the address, two mails at most leave in
\* one cooldown.  Two requests that overlap pass it both before either sends.
THEOREM CooldownKept == VerificationSpec /\ []UsersTakeTurns => []MailsPerCooldown
<1>1. VerificationInit => BurstInv
  BY DEF VerificationInit, BurstInv
<1>2. BurstInv => MailsPerCooldown
  BY DEF BurstInv, MailsPerCooldown
<1> QED
  BY InitTypes, NextTypes, BurstStep, <1>1, <1>2, PTL DEF VerificationSpec

-----------------------------------------------------------------------------
(* Verified addresses, when requests of the same user do not overlap.      *)

\* What a row may say, by the history.
Truthful(row, u, history) == row # None /\ row.state = "verified" /\ row.email # None => <<u, row.email>> \in history

LEMMA ProvenStep == TypeInv /\ LoadedInv /\ VerifiedMeansProven /\ [VerificationNext]_accountVars => VerifiedMeansProven'
<1> SUFFICES ASSUME TypeInv, LoadedInv, VerifiedMeansProven, [VerificationNext]_accountVars
             PROVE  VerifiedMeansProven'
  OBVIOUS
<1>t. account \in [People -> Row \cup {None}]
  BY TypeParts
<1>0. \A v \in People : Truthful(account[v], v, proven)
  BY DEF VerifiedMeansProven, Accounts, Truthful
<1>a. ASSUME \A v \in People : Truthful(account'[v], v, proven') PROVE VerifiedMeansProven'
  BY <1>a DEF VerifiedMeansProven, Accounts, Truthful
<1>1. CASE UNCHANGED account /\ proven \subseteq proven'
  BY <1>0, <1>1, <1>a DEF Truthful
<1>2. ASSUME NEW r \in Requests, Serve(r) PROVE VerifiedMeansProven'
  <2> DEFINE u == loaded[r].user
  <2>1. u \in People /\ loaded[r] # None
    BY <1>2, ServedTypes, Ends
  <2>2. \A v \in People \ {u} : account'[v] = account[v]
    BY <1>2, ServesOne
  <2>3. account[u] # None /\ loaded[r].row.email = account[u].email /\ loaded[r].row.state = account[u].state
    BY <2>1 DEF LoadedInv
  <2>4. ASSUME NEW cols, NEW new, SavesUser(r, cols, new), AddressEarned(r, cols, new), StateEarned(r, cols, new),
               proven \subseteq proven'
        PROVE  VerifiedMeansProven'
    <3>1. /\ account'[u].email = IF "email" \in cols THEN new.email ELSE account[u].email
          /\ account'[u].state = IF "state" \in cols THEN new.state ELSE account[u].state
      BY <2>1, <2>3, <2>4, <1>t, SavedRows DEF SavesUser
    <3>2. Truthful(account'[u], u, proven')
      BY <1>0, <2>1, <2>3, <2>4, <3>1 DEF AddressEarned, StateEarned, Truthful
    <3> QED
      BY <1>0, <1>a, <2>2, <2>4, <3>2 DEF Truthful
  <2>5. CASE SavesCopy(r)
    <3>1. account'[u] = loaded[r].row /\ proven' = proven
      BY <2>1, <2>5, <1>t DEF SavesCopy
    <3>2. Truthful(account'[u], u, proven')
      BY <1>0, <2>1, <2>3, <3>1 DEF Truthful
    <3> QED
      BY <1>0, <1>a, <2>2, <3>1, <3>2
  <2>6. CASE Leaves(r)
    <3>1. Truthful(account'[u], u, proven')
      BY <2>1, <2>6, <1>t DEF Leaves, Truthful
    <3>2. ASSUME NEW v \in People \ {u} PROVE Truthful(account'[v], v, proven')
      <4>1. Truthful(account[v], v, proven)
        BY <1>0
      <4>2. \A p \in proven : p[1] = v => p \in proven'
        BY <2>6, <3>2 DEF Leaves
      <4> QED
        BY <2>2, <4>1, <4>2 DEF Truthful
    <3> QED
      BY <1>a, <3>1, <3>2
  <2> QED
    BY <1>1, <1>2, <2>4, <2>5, <2>6, ServeSaves
<1>3. ASSUME NEW u \in People, RowAges(u), UNCHANGED proven PROVE VerifiedMeansProven'
  <2> DEFINE new == [sent |-> "overdue"]
  <2>1. account' = Saved(u, {"sent"}, new) /\ new.sent = "overdue"
    BY <1>3 DEF RowAges
  <2> HIDE DEF new
  <2> QED
    BY <2>1, <1>3, <1>t, SavedRows DEF VerifiedMeansProven, Accounts
<1>5. ASSUME NEW r \in Requests, NEW u \in People, NEW a \in Addresses, Register(r, u, a), UNCHANGED proven PROVE VerifiedMeansProven'
  <2> DEFINE row == [email |-> a, state |-> "unverified", pending |-> None, sent |-> None]
  <2>1. row.state = "unverified"
    OBVIOUS
  <2>2. account' = [account EXCEPT ![u] = row]
    BY <1>5 DEF Register
  <2> HIDE DEF row
  <2> QED
    BY <2>1, <2>2, <1>0, <1>5, <1>a, <1>t DEF Truthful
<1> QED
  BY <1>1, <1>2, <1>3, <1>5, OtherSteps

\* As long as no user has two requests in progress, an account counts as verified only
\* for an address its user has proven to read, whichever links are still around and
\* whatever the requests of other users do meanwhile.
THEOREM VerifiedProven == VerificationSpec /\ []UsersTakeTurns => []VerifiedMeansProven
<1>1. VerificationInit => LoadedInv /\ VerifiedMeansProven
  <2> SUFFICES ASSUME VerificationInit PROVE LoadedInv /\ VerifiedMeansProven
    OBVIOUS
  <2>1. PICK old \in SUBSET People, home \in [People -> Addresses] :
          account = [u \in People |-> IF u \in old
               THEN [email |-> home[u], state |-> "legacy", pending |-> None, sent |-> None] ELSE None]
    BY DEF VerificationInit
  <2>2. VerifiedMeansProven
    BY <2>1 DEF VerifiedMeansProven, Accounts
  <2>3. LoadedInv
    BY DEF VerificationInit, LoadedInv
  <2> QED
    BY <2>2, <2>3
<1> QED
  BY InitTypes, NextTypes, LoadedStep, ProvenStep, <1>1, PTL DEF VerificationSpec

\* Under the same hypothesis the address of an account that is not new moves only to an
\* address that is proven, or the account is deactivated.
THEOREM AddressMovesProven == VerificationSpec /\ []UsersTakeTurns => AddressMovesWithProof
<1> DEFINE Moves == \A u \in Accounts : u \in Accounts' /\ account'[u].email \notin {account[u].email, None} =>
                      account[u].state = "unverified" \/ <<u, account'[u].email>> \in proven'
<1>1. TypeInv /\ LoadedInv /\ [VerificationNext]_accountVars => Moves
  <2> SUFFICES ASSUME TypeInv, LoadedInv, [VerificationNext]_accountVars PROVE Moves
    OBVIOUS
  <2>t. account \in [People -> Row \cup {None}]
    BY TypeParts
  <2>1. CASE UNCHANGED account
    BY <2>1 DEF Accounts
  <2>2. ASSUME NEW r \in Requests, Serve(r) PROVE Moves
    <3> DEFINE u == loaded[r].user
    <3>1. u \in People /\ loaded[r] # None
      BY <2>2, ServedTypes, Ends
    <3>2. \A v \in People \ {u} : account'[v] = account[v]
      BY <2>2, ServesOne
    <3>3. account[u] # None /\ loaded[r].row.email = account[u].email /\ loaded[r].row.state = account[u].state
      BY <3>1 DEF LoadedInv
    <3>4. ASSUME NEW cols, NEW new, SavesUser(r, cols, new), AddressEarned(r, cols, new)
          PROVE  Moves
      <4>1. account'[u].email = IF "email" \in cols THEN new.email ELSE account[u].email
        BY <3>1, <3>3, <3>4, <2>t, SavedRows DEF SavesUser
      <4> QED
        BY <3>1, <3>2, <3>3, <3>4, <4>1 DEF AddressEarned, Accounts
    <3>5. CASE SavesCopy(r)
      BY <3>1, <3>2, <3>3, <3>5, <2>t DEF SavesCopy, Accounts
    <3>6. CASE Leaves(r)
      BY <3>1, <3>2, <3>6, <2>t DEF Leaves, Accounts
    <3> QED
      BY <2>1, <2>2, <3>4, <3>5, <3>6, ServeSaves
  <2>3. ASSUME NEW u \in People, RowAges(u) PROVE Moves
    <3> DEFINE new == [sent |-> "overdue"]
    <3>1. account' = Saved(u, {"sent"}, new) /\ new.sent = "overdue"
      BY <2>3 DEF RowAges
    <3> HIDE DEF new
    <3> QED
      BY <3>1, <2>t, SavedRows DEF Accounts
  <2>5. ASSUME NEW r \in Requests, NEW u \in People, NEW a \in Addresses, Register(r, u, a) PROVE Moves
    BY <2>5, <2>t DEF Register, Accounts
  <2> QED
    BY <2>1, <2>2, <2>3, <2>5, OtherSteps
<1>2. VerificationInit => LoadedInv
  BY DEF VerificationInit, LoadedInv
<1> QED
  BY InitTypes, NextTypes, LoadedStep, <1>1, <1>2, PTL DEF VerificationSpec, AddressMovesWithProof

-----------------------------------------------------------------------------
(* Claims of profiles.                                                     *)

\* Organisers edit a profile in parallel while nobody has claimed it; an edit that
\* begins with a profile of a user does not overlap with other edits.  All of them
\* may overlap with claims.
EditorsTakeTurns ==
  \A e, f \in Editors : editing[e] # None /\ editing[e].user # None /\ editing[f] # None => e = f

\* The mail with the link went to the address of the row.
Sound(p) == p # None => p.invited \in {None, p.email}

\* The profile an editor has as the user's own is the one in the database, but
\* for its link.
OwnCopy(e) ==
  editing[e] # None /\ editing[e].user # None =>
    profile = None \/ (profile.email = editing[e].email /\ profile.invited \in {None, editing[e].invited})

ClaimsInv ==
  /\ TypeInv /\ ClaimsTypeOK /\ Sound(profile)
  /\ \A r \in Requests : Sound(opened[r])
  /\ \A e \in Editors : Sound(editing[e]) /\ OwnCopy(e)

LEMMA ClaimsInitially == ClaimsInit => ClaimsInv
<1> SUFFICES ASSUME ClaimsInit PROVE ClaimsInv
  OBVIOUS
<1>1. TypeInv
  BY InitTypes DEF ClaimsInit
<1> QED
  BY <1>1 DEF ClaimsInit, ClaimsInv, ClaimsTypeOK, Sound, OwnCopy

\* To accounts, a claim is a promotion or a registration by somebody who has
\* read the mail of the address it is for.
LEMMA ClaimsAreSteps ==
  ASSUME ClaimsInv, [ClaimsNext]_claimsVars
  PROVE  [VerificationNext]_accountVars
<1>1. CASE AccountStep
  BY <1>1 DEF AccountStep
<1>2. ASSUME NEW r \in Requests, ClaimProfile(r) \/ FinalizeRegistration(r) PROVE VerificationNext
  <2> DEFINE copy == opened[r]
  <2>1. copy \in Profile /\ Claimable(copy) /\ loaded[r] # None
    BY <1>2 DEF ClaimProfile, FinalizeRegistration, ClaimsInv, ClaimsTypeOK
  <2>2. copy.email = copy.invited /\ copy.email \in Addresses /\ copy.email # None
    BY <2>1 DEF ClaimsInv, Sound, Claimable, Profile
  <2>3. \/ TurnAway(r)
        \/ PromoteOnInvitationMatch(r, loaded[r].user, loaded[r].row, copy.email, copy.invited)
        \/ loaded[r].asked # None /\ Resend(r, loaded[r].user, loaded[r].row)
    BY <1>2 DEF ClaimProfile, PromoteForClaim, FinalizeRegistration
  <2>4. CASE TurnAway(r)
    BY <2>1, <2>4 DEF Serve, VerificationNext
  <2>5. CASE PromoteOnInvitationMatch(r, loaded[r].user, loaded[r].row, copy.email, copy.invited)
    <3> HIDE DEF copy
    <3>1. /\ PromoteOnInvitationMatch(r, loaded[r].user, loaded[r].row, copy.email, copy.email)
          /\ loaded[r].row.email = copy.email
      BY <2>2, <2>5 DEF PromoteOnInvitationMatch
    <3>2. loaded[r].row.email # None /\ Work(r, loaded[r].user, loaded[r].row)
      BY <2>2, <3>1 DEF Work
    <3> QED
      BY <2>1, <3>2 DEF Serve, VerificationNext
  <2>6. CASE loaded[r].asked # None /\ Resend(r, loaded[r].user, loaded[r].row)
    <3>1. loaded[r].row.email # None
      BY <2>6 DEF Resend
    <3> QED
      BY <2>1, <2>6, <3>1 DEF Serve, Work, VerificationNext
  <2> QED
    BY <2>3, <2>4, <2>5, <2>6
<1>3. ASSUME NEW r \in Requests, NEW u \in People, NEW a \in Addresses, RegisterToClaim(r, u, a) PROVE VerificationNext
  BY <1>3 DEF RegisterToClaim, VerificationNext
<1>4. CASE UNCHANGED accountVars
  BY <1>4
<1>5. CASE UNCHANGED claimsVars
  BY <1>5 DEF claimsVars, accountVars
<1> QED
  BY <1>1, <1>2, <1>3, <1>4, <1>5 DEF ClaimsNext

\* What one editor makes of the profile.
LEMMA EditsKeepClaims ==
  ASSUME EditorsTakeTurns, ClaimsInv, NEW e \in Editors, Edit(e), UNCHANGED accountVars
  PROVE  ClaimsInv'
<1> DEFINE copy == editing[e]
<1>1. /\ profile \in Profile \cup {None} /\ Sound(profile)
      /\ copy \in Profile \cup {None} /\ Sound(copy) /\ OwnCopy(e)
      /\ editing \in [Editors -> Profile \cup {None}]
  BY DEF ClaimsInv, ClaimsTypeOK
<1>2. TypeInv'
  BY NextTypes DEF ClaimsInv
<1>3. UNCHANGED opened /\ UNCHANGED loaded
  BY DEF Edit, LoadProfile, LeaveProfile, SendInvite, RetractInvite, ShredProfile, SaveProfile, SaveContact,
     Edits, accountVars
<1>a. ASSUME profile' \in Profile \cup {None}, Sound(profile'), editing[e] # None,
             editing' = [editing EXCEPT ![e] = None]
      PROVE  ClaimsInv'
  <2>1. \A f \in Editors : editing'[f] # None => editing'[f] = editing[f] /\ f # e
    BY <1>1, <1>a
  <2>2. \A f \in Editors : editing'[f] # None => editing'[f].user = None
    BY <1>a, <2>1 DEF EditorsTakeTurns
  <2> QED
    BY <1>1, <1>2, <1>3, <1>a, <2>1, <2>2 DEF ClaimsInv, ClaimsTypeOK, Sound, OwnCopy
<1>4. CASE LoadProfile(e)
  <2>1. profile' = profile /\ editing' = [editing EXCEPT ![e] = profile]
    BY <1>4 DEF LoadProfile
  <2>2. \A f \in Editors : editing'[f] \in {profile, editing[f]}
    BY <1>1, <2>1
  <2> QED
    BY <1>1, <1>2, <1>3, <2>1, <2>2 DEF ClaimsInv, ClaimsTypeOK, Sound, OwnCopy
<1>5. CASE LeaveProfile(e)
  BY <1>1, <1>5, <1>a DEF LeaveProfile, Edits
<1>6. CASE SendInvite(e, copy)
  BY <1>1, <1>6, <1>a DEF SendInvite, Edits, Profile, Sound
<1>7. CASE RetractInvite(e, copy)
  BY <1>1, <1>7, <1>a DEF RetractInvite, Edits, Profile, Sound
<1>8. CASE ShredProfile(e, copy)
  BY <1>1, <1>8, <1>a DEF ShredProfile, Edits, Sound
<1>9. ASSUME NEW a \in Contacts, SaveProfile(e, copy, a) PROVE ClaimsInv'
  <2>1. copy \in Profile /\ a \in Addresses \cup {None}
    BY <1>1, <1>9, ContactsAssumption DEF SaveProfile, Edits
  <2>2. profile' = [email |-> a, invited |-> IF a = copy.email THEN copy.invited ELSE None, user |-> copy.user]
    BY <1>9, <2>1 DEF SaveProfile, Profile
  <2> QED
    BY <1>1, <1>9, <1>a, <2>1, <2>2 DEF SaveProfile, Edits, Profile, Sound
<1>10. ASSUME NEW a \in Contacts, SaveContact(e, copy, a) PROVE ClaimsInv'
  <2>1. /\ copy \in Profile /\ a \in Addresses \cup {None} /\ profile \in Profile
        /\ profile.email = copy.email /\ profile.invited \in {None, copy.invited}
    BY <1>1, <1>10, ContactsAssumption DEF SaveContact, Edits, OwnCopy
  <2>2. profile' = [email |-> a, user |-> profile.user,
          invited |-> IF copy.invited # None THEN None ELSE profile.invited]
    BY <1>10, <2>1 DEF SaveContact, Profile
  <2>3. Sound(profile')
    BY <1>1, <2>1, <2>2 DEF Sound, Profile
  <2>4. profile' \in Profile
    BY <2>1, <2>2 DEF Profile
  <2> QED
    BY <1>10, <1>a, <2>3, <2>4 DEF SaveContact, Edits
<1> QED
  BY <1>4, <1>5, <1>6, <1>7, <1>8, <1>9, <1>10 DEF Edit

LEMMA ClaimsInvStep ==
  ASSUME EditorsTakeTurns, ClaimsInv, [ClaimsNext]_claimsVars
  PROVE  ClaimsInv'
<1>1. TypeInv'
  BY ClaimsAreSteps, NextTypes DEF ClaimsInv
<1>2. /\ profile \in Profile \cup {None} /\ Sound(profile)
      /\ opened \in [Requests -> Profile \cup {None}] /\ editing \in [Editors -> Profile \cup {None}]
      /\ loaded \in [Requests -> Request \cup {None}]
      /\ \A r \in Requests : loaded[r] # None => loaded[r].user \in People
  BY DEF ClaimsInv, ClaimsTypeOK, TypeInv, VerificationTypeOK, Request
<1>a. ASSUME UNCHANGED <<editing, opened, loaded>>, profile' = profile PROVE ClaimsInv'
  BY <1>1, <1>a DEF ClaimsInv, ClaimsTypeOK, Sound, OwnCopy
<1>3. CASE AccountStep
  <2>1. /\ profile' \in {profile, None} /\ UNCHANGED editing
        /\ \A r \in Requests : opened'[r] = None \/ (opened'[r] = opened[r] /\ loaded'[r] # None)
        /\ opened' \in [Requests -> Profile \cup {None}]
    BY <1>2, <1>3 DEF AccountStep
  <2> QED
    BY <1>1, <2>1 DEF ClaimsInv, ClaimsTypeOK, Sound, OwnCopy
<1>4. ASSUME NEW r \in Requests, ClaimProfile(r) PROVE ClaimsInv'
  <2>1. loaded[r] # None /\ loaded[r].user \in People
    BY <1>2, <1>4 DEF ClaimProfile
  <2>2. \/ profile' = None
        \/ profile \in Profile /\ profile' = [profile EXCEPT !.user = loaded[r].user, !.invited = None]
    BY <1>2, <1>4 DEF ClaimProfile
  <2>3. /\ profile' \in Profile \cup {None} /\ Sound(profile')
        /\ profile' = None \/ (profile # None /\ profile'.email = profile.email /\ profile'.invited = None)
    <3>1. CASE profile' = None
      BY <3>1 DEF Sound
    <3>2. CASE profile \in Profile /\ profile' = [profile EXCEPT !.user = loaded[r].user, !.invited = None]
      <4>1. profile' = [email |-> profile.email, invited |-> None, user |-> loaded[r].user]
        BY <3>2 DEF Profile
      <4>2. profile' \in Profile /\ profile # None
        BY <2>1, <3>2, <4>1, NoProfileAssumption DEF Profile
      <4> QED
        BY <4>1, <4>2 DEF Sound
    <3> QED
      BY <2>2, <3>1, <3>2
  <2>4. /\ opened' = [opened EXCEPT ![r] = None] /\ UNCHANGED editing
        /\ loaded' = [loaded EXCEPT ![r] = None]
    BY <1>4 DEF ClaimProfile, PromoteForClaim, TurnAway, PromoteOnInvitationMatch, Serves
  <2>5. \A e \in Editors : OwnCopy(e)'
    BY <2>3, <2>4 DEF ClaimsInv, OwnCopy
  <2>6. ClaimsTypeOK'
    BY <1>2, <2>3, <2>4 DEF ClaimsInv, ClaimsTypeOK
  <2> QED
    BY <1>1, <1>2, <2>3, <2>4, <2>5, <2>6 DEF ClaimsInv, Sound
<1>5. ASSUME NEW r \in Requests, NEW u \in People, NEW a \in Addresses, RegisterToClaim(r, u, a) PROVE ClaimsInv'
  <2> DEFINE row == [email |-> a, state |-> "unverified", pending |-> None, sent |-> None]
             new == [user |-> u, row |-> row, asked |-> a, free |-> TRUE, mail |-> FALSE]
  <2>1. /\ profile' = profile /\ editing' = editing /\ Claimable(profile)
        /\ opened' = [opened EXCEPT ![r] = profile] /\ loaded' = [loaded EXCEPT ![r] = new]
    BY <1>5 DEF RegisterToClaim, Register
  <2>2. new \in Request
    BY DEF Request, Row, States
  <2>3. new # None
    BY <2>2, NoneAssumption
  <2> HIDE DEF new
  <2> QED
    BY <1>1, <1>2, <2>1, <2>3 DEF ClaimsInv, ClaimsTypeOK, Sound, OwnCopy
<1>10. ASSUME NEW r \in Requests, FinalizeRegistration(r) PROVE ClaimsInv'
  <2>1. /\ profile' = profile /\ editing' = editing /\ opened' = [opened EXCEPT ![r] = None]
        /\ loaded' = [loaded EXCEPT ![r] = None]
    BY <1>10 DEF FinalizeRegistration, Resend, PromoteOnInvitationMatch, Serves
  <2> QED
    BY <1>1, <1>2, <2>1 DEF ClaimsInv, ClaimsTypeOK, Sound, OwnCopy
<1>6. ASSUME UNCHANGED accountVars, NEW a \in Contacts, CreateProfile(a) PROVE ClaimsInv'
  <2>1. profile' = [email |-> a, invited |-> None, user |-> None] /\ a \in Addresses \cup {None}
    BY <1>6, ContactsAssumption DEF CreateProfile
  <2>2. profile' \in Profile /\ Sound(profile')
    BY <2>1 DEF Profile, Sound
  <2> QED
    BY <1>1, <1>6, <2>2 DEF CreateProfile, ClaimsInv, ClaimsTypeOK, Sound, OwnCopy, accountVars
<1>7. ASSUME UNCHANGED accountVars, NEW e \in Editors, Edit(e) PROVE ClaimsInv'
  BY <1>7, EditsKeepClaims
<1>8. ASSUME UNCHANGED accountVars, NEW r \in Requests, OpenClaim(r) PROVE ClaimsInv'
  <2>1. /\ profile' = profile /\ editing' = editing /\ loaded' = loaded /\ loaded[r] # None
        /\ Claimable(profile) /\ opened' = [opened EXCEPT ![r] = profile]
    BY <1>8 DEF OpenClaim, accountVars
  <2> QED
    BY <1>1, <1>2, <2>1 DEF ClaimsInv, ClaimsTypeOK, Sound, OwnCopy
<1>9. CASE UNCHANGED claimsVars
  BY <1>9, <1>a DEF claimsVars
<1> QED
  BY <1>3, <1>4, <1>5, <1>6, <1>7, <1>8, <1>9, <1>10 DEF ClaimsNext

\* ClaimsInv holds for any number of requests, editors and addresses.
THEOREM ClaimsInvariance == ClaimsSpec /\ []EditorsTakeTurns => []ClaimsInv
<1>1. EditorsTakeTurns /\ ClaimsInv /\ [ClaimsNext]_claimsVars => ClaimsInv'
  BY ClaimsInvStep
<1> QED
  BY ClaimsInitially, <1>1, PTL DEF ClaimsSpec

\* A link that works was sent to the address the profile has now.
THEOREM LinksStayWithAddress == ClaimsSpec /\ []EditorsTakeTurns => []LinksMatchAddress
<1>1. ClaimsInv => LinksMatchAddress
  BY DEF ClaimsInv, Sound, LinksMatchAddress
<1> QED
  BY ClaimsInvariance, <1>1, PTL

\* Types of the claims, from ClaimsInv.
THEOREM ClaimsTypeCorrect == ClaimsSpec /\ []EditorsTakeTurns => []ClaimsTypeOK
<1>1. ClaimsInv => ClaimsTypeOK
  BY DEF ClaimsInv
<1> QED
  BY ClaimsInvariance, <1>1, PTL

\* SpeakerClaims implements Verification: with their proof of address, claims
\* are steps that Verification knows.
THEOREM ClaimsImplement == ClaimsSpec /\ []EditorsTakeTurns => ImplementsVerification
<1>1. ClaimsInit => VerificationInit
  BY DEF ClaimsInit
<1>2. ClaimsInv /\ [ClaimsNext]_claimsVars => [VerificationNext]_accountVars
  BY ClaimsAreSteps
<1> QED
  BY <1>1, <1>2, ClaimsInvariance, PTL DEF ClaimsSpec, VerificationSpec, ImplementsVerification

\* Hence whoever is verified by a claim has read the mail of the address, too.
COROLLARY ClaimsVerifyProven ==
  ClaimsSpec /\ []EditorsTakeTurns /\ []UsersTakeTurns => []VerifiedMeansProven
<1> QED
  BY ClaimsImplement, VerifiedProven, PTL DEF ImplementsVerification
=============================================================================
