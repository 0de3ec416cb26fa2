------------------------------ MODULE Proposals ------------------------------
(***************************************************************************)
(* The call for papers: the wizard that makes and submits proposals, their *)
(* drafts, the access codes that let people in, and the speakers who are   *)
(* invited.  A request of the wizard or of the edit page reads a proposal, *)
(* decides by that copy, and saves all its columns; one that invites, or   *)
(* accepts an invitation, checks first and writes later.  Requests may     *)
(* overlap, and only the rows of access codes are ever locked.             *)
(***************************************************************************)
EXTENDS Naturals, FiniteSets

CONSTANTS Codes, Users,
          Requests,     \* requests of the wizard and of the edit page
          Visits,       \* requests that invite, or accept an invitation
          Proposals,    \* bound: how many proposals there are at a time
          MaxSpeakers,  \* cfp.max_speakers
          MaxUses,      \* bound: the limits organisers give to access codes
          MaxRedeemed,  \* bound: how often a code is redeemed
          None

ASSUME ProposalsAssumption ==
  /\ IsFiniteSet(Users)
  /\ MaxSpeakers \in Nat \ {0}   \* CfPFieldConfigForm: at least 1
  /\ MaxUses \in Nat /\ MaxRedeemed \in Nat
  /\ None \notin Codes \cup Users \cup Proposals

VARIABLES codes,     \* the SubmitterAccessCode table
          proposals, \* the Submission table, with its speakers and invitations
          open,      \* cfp.is_open
          request,   \* what a request has read, until it saves
          visit      \* what a request has checked that invites or accepts

cfpVars == <<codes, proposals, open, request, visit>>

-----------------------------------------------------------------------------
(* max: maximum_uses, 0 for NULL; dedicated: the code is for a session type *)
(* that requires a code, which is the type of a "coded" proposal.           *)
Code == [max : 0..MaxUses, redeemed : Nat, expired : BOOLEAN, dedicated : BOOLEAN]

States == {"draft", "submitted", "accepted", "closed"}

(* The columns of a proposal, which a request saves all at once. *)
Columns == [state : States, coded : BOOLEAN, code : Codes \cup {None}, parked : SUBSET Users]

(* An invitation is sent to the address of a user.  paid: how often the     *)
(* proposal has redeemed a code.  clean: no copy was saved over a later     *)
(* change, and no organiser has set its code.  checked: no organiser has    *)
(* added a speaker, nobody was invited after more people came in than the   *)
(* check had counted, and nobody accepted an invitation that was gone.      *)
Proposal == [cols : Columns, speakers : SUBSET Users, invitations : SUBSET Users,
             paid : 0..2, clean : BOOLEAN, checked : BOOLEAN]

Read == [kind : {"wizard", "edit"}, user : Users, copy : Columns \cup {None},
         id : Proposals \cup {None}, code : Codes \cup {None},
         draft : BOOLEAN, list : SUBSET Users]

(* An invitation of `user`, when the check has counted `seen` people; or its    *)
(* acceptance by `user`, of the invitation in `letter` until it is deleted.     *)
Visit == [kind : {"invite", "accept"}, user : Users, id : Proposals,
          letter : SUBSET Users, seen : Nat]

(* No row is missing in the sense of None. *)
ASSUME RowAssumption == None \notin Code \cup Columns \cup Proposal \cup Read \cup Visit

Existing == {p \in Proposals : proposals[p] # None}
Drafts == {p \in Existing : proposals[p].cols.state = "draft"}
Submitted == Existing \ Drafts   \* the default manager leaves drafts out

ProposalsInit ==
  /\ codes = [c \in Codes |-> None]
  /\ proposals = [p \in Proposals |-> None]
  /\ open = TRUE
  /\ request = [r \in Requests |-> None]
  /\ visit = [v \in Visits |-> None]

-----------------------------------------------------------------------------
RedemptionsValid(row) == row.max = 0 \/ row.redeemed < row.max
Valid(c) == codes[c] # None /\ ~codes[c].expired /\ RedemptionsValid(codes[c])

(* Mutant: the check of dispatch is trusted. *)
RedeemUnlocked(c) ==
  IF c = None THEN UNCHANGED codes
  ELSE /\ codes[c] # None /\ codes[c].redeemed < MaxRedeemed
       /\ codes' = [codes EXCEPT ![c].redeemed = @ + 1]

(* redeem_access_code: the row is locked and looked at again; the time is not. *)
Redeem(c) ==
  IF c = None THEN UNCHANGED codes
  ELSE /\ codes[c] # None /\ RedemptionsValid(codes[c]) /\ codes[c].redeemed < MaxRedeemed
       /\ codes' = [codes EXCEPT ![c].redeemed = @ + 1]

Uses(c) == IF c = None THEN 0 ELSE 1

(* Submission.editable for the columns `cols`. *)
Editable(cols) ==
  LET timely == cols.code # None /\ codes[cols.code] # None /\ ~codes[cols.code].expired
  IN CASE cols.state = "draft" -> (cols.coded => timely) /\ (open \/ timely)
       [] cols.state = "submitted" -> open
       [] cols.state = "accepted" -> TRUE
       [] OTHER -> FALSE

(* Mutant: pending invitations are not counted. *)
FitsSpeakers(speakers, pending, additional) == Cardinality(speakers) + additional <= MaxSpeakers

(* validate_speakers_within_limit *)
WithinLimit(speakers, pending, additional) ==
  Cardinality(speakers) + Cardinality(pending) + additional <= MaxSpeakers

(* Who is on a proposal or has an open invitation to it, counted. *)
People(row) == Cardinality(row.speakers) + Cardinality(row.invitations)

(* clean_additional_speaker: addresses that are invited already are not new. *)
ListAllowed(p, list) ==
  IF p = None THEN list = {} \/ WithinLimit({None}, {}, Cardinality(list))
  ELSE LET new == list \ proposals[p].invitations
       IN new = {} \/ WithinLimit(proposals[p].speakers, proposals[p].invitations, Cardinality(new))

-----------------------------------------------------------------------------
(* SubmitWizard.dispatch and the checks of done: the session names a draft or not, *)
(* the URL an access code or not.  A draft that is not, or no longer, a draft of   *)
(* the user's is taken for a new proposal.                                         *)
OpenWizard(r, u, p, c, draft, list) ==
  LET code == IF c # None /\ Valid(c) THEN c ELSE None
      own == IF p \in Drafts /\ u \in proposals[p].speakers THEN p ELSE None
  IN /\ request[r] = None
     /\ code # None \/ open
     /\ ListAllowed(own, list)
     /\ request' = [request EXCEPT ![r] =
          [kind |-> "wizard", user |-> u, id |-> own, code |-> code, draft |-> draft, list |-> list,
           copy |-> IF own = None THEN None ELSE proposals[own].cols]]
     /\ UNCHANGED <<codes, proposals, open, visit>>

(* SubmissionsEditView.post: what is edited is none of the columns modelled here. *)
OpenEdit(r, u, p) ==
  /\ request[r] = None
  /\ p \in Existing /\ u \in proposals[p].speakers /\ Editable(proposals[p].cols)
  /\ request' = [request EXCEPT ![r] =
       [kind |-> "edit", user |-> u, id |-> p, code |-> None, draft |-> FALSE, list |-> {},
        copy |-> proposals[p].cols]]
  /\ UNCHANGED <<codes, proposals, open, visit>>

Ends(r) == request' = [request EXCEPT ![r] = None]

(* The codes of proposals are never used again: no request has a proposal of *)
(* this name in hand.                                                        *)
Unused(p) == /\ proposals[p] = None
             /\ \A r \in Requests : request[r] # None => request[r].id # p
             /\ \A v \in Visits : visit[v] # None => visit[v].id # p

(* Mutant: a draft redeems its code as well. *)
CreateRedeemingDrafts(r, p) ==
  LET q == request[r] IN
  /\ q # None /\ q.kind = "wizard" /\ q.id = None /\ Unused(p)
  /\ Redeem(q.code)
  /\ proposals' = [proposals EXCEPT ![p] =
       [cols |-> [state |-> IF q.draft THEN "draft" ELSE "submitted", code |-> q.code,
                  coded |-> q.code # None /\ codes[q.code].dedicated,
                  parked |-> IF q.draft THEN q.list ELSE {}],
        speakers |-> {q.user}, invitations |-> IF q.draft THEN {} ELSE q.list,
        paid |-> Uses(q.code), clean |-> TRUE, checked |-> TRUE]]
  /\ Ends(r) /\ UNCHANGED <<open, visit>>

(* InfoStep.done, create_submission, apply_invite_addresses: only a code can give *)
(* a type that requires one.                                                      *)
CreateSubmission(r, p) ==
  LET q == request[r]
      redeems == IF q.draft THEN None ELSE q.code
  IN /\ q # None /\ q.kind = "wizard" /\ q.id = None /\ Unused(p)
     /\ q.code # None => codes[q.code] # None
     /\ Redeem(redeems)
     /\ proposals' = [proposals EXCEPT ![p] =
          [cols |-> [state |-> IF q.draft THEN "draft" ELSE "submitted", code |-> q.code,
                     coded |-> q.code # None /\ codes[q.code].dedicated,
                     parked |-> IF q.draft THEN q.list ELSE {}],
           speakers |-> {q.user}, invitations |-> IF q.draft THEN {} ELSE q.list,
           paid |-> Uses(redeems), clean |-> TRUE, checked |-> TRUE]]
     /\ Ends(r) /\ UNCHANGED <<open, visit>>

(* The row of p after request q has saved the columns `cols` and sent the *)
(* invitations in `list`.  A row that was deleted is inserted again, and  *)
(* nobody is its speaker.                                                 *)
SavedRow(q, cols, list, uses) ==
  LET row == proposals[q.id] IN
  IF row = None
  THEN [cols |-> cols, speakers |-> {}, invitations |-> list, paid |-> uses,
        clean |-> FALSE, checked |-> FALSE]
  ELSE [row EXCEPT !.cols = cols, !.invitations = @ \cup list,
                   !.paid = IF @ + uses > 2 THEN 2 ELSE @ + uses,
                   !.clean = @ /\ row.cols = q.copy]

(* The code a draft is saved with: the code of the URL, or the one it had. *)
CodeOf(q) == IF q.code # None THEN q.code ELSE q.copy.code

IsDedraft(q) == q # None /\ q.kind = "wizard" /\ q.id # None

(* A column may only hold a code that exists. *)
Refers(c) == c # None => codes[c] # None

(* InfoStep.done for a draft that stays one: the addresses are parked. *)
SaveDraft(r) ==
  LET q == request[r] IN
  /\ IsDedraft(q) /\ q.draft /\ Refers(CodeOf(q))
  /\ proposals' = [proposals EXCEPT ![q.id] =
       SavedRow(q, [q.copy EXCEPT !.code = CodeOf(q), !.parked = q.list], {}, 0)]
  /\ Ends(r) /\ UNCHANGED <<codes, open, visit>>

(* Mutant: the parked addresses stay in the row. *)
SubmitKeepingParked(r) ==
  LET q == request[r] IN
  /\ IsDedraft(q) /\ ~q.draft /\ Redeem(CodeOf(q))
  /\ proposals' = [proposals EXCEPT ![q.id] =
       SavedRow(q, [q.copy EXCEPT !.code = CodeOf(q), !.state = "submitted"],
                q.list, Uses(CodeOf(q)))]
  /\ Ends(r) /\ UNCHANGED <<open, visit>>

(* InfoStep.done and submit_draft: the code is redeemed and the addresses invited. *)
SubmitDraft(r) ==
  LET q == request[r] IN
  /\ IsDedraft(q) /\ ~q.draft /\ Redeem(CodeOf(q))
  /\ proposals' = [proposals EXCEPT ![q.id] =
       SavedRow(q, [q.copy EXCEPT !.code = CodeOf(q), !.state = "submitted", !.parked = {}],
                q.list, Uses(CodeOf(q)))]
  /\ Ends(r) /\ UNCHANGED <<open, visit>>

(* SubmissionsEditView.form_valid *)
SaveEdit(r) ==
  LET q == request[r] IN
  /\ q # None /\ q.kind = "edit" /\ Refers(q.copy.code)
  /\ proposals' = [proposals EXCEPT ![q.id] = SavedRow(q, q.copy, {}, 0)]
  /\ Ends(r) /\ UNCHANGED <<codes, open, visit>>

(* A code that can no longer be used, or another error, rolls everything back. *)
RollBack(r) ==
  /\ request[r] # None /\ Ends(r)
  /\ UNCHANGED <<codes, proposals, open, visit>>

-----------------------------------------------------------------------------
Alter(p, row) ==
  proposals' = [proposals EXCEPT ![p] = row] /\ UNCHANGED <<codes, open, request, visit>>

(* The visits when the invitations in `gone` to p are deleted. *)
Without(p, gone) ==
  [v \in Visits |-> IF visit[v] = None \/ visit[v].id # p THEN visit[v]
                    ELSE [visit[v] EXCEPT !.letter = @ \ gone]]

(* SubmissionDraftDiscardView and the delete views of organisers. *)
DeleteSubmission(p) ==
  /\ p \in Submitted \/ (p \in Drafts /\ proposals[p].speakers # {} /\ Editable(proposals[p].cols))
  /\ proposals' = [proposals EXCEPT ![p] = None]
  /\ visit' = Without(p, Users)
  /\ UNCHANGED <<codes, open, request>>

(* set_submission_state, seen from here. *)
Decide(p, state) ==
  /\ p \in Submitted /\ state \in States \ {"draft"} /\ state # proposals[p].cols.state
  /\ Alter(p, [proposals[p] EXCEPT !.cols.state = state])

(* validate_invitation_target: speakers in SubmissionInviteView while the proposal *)
(* is editable, organisers through the API at any time.                            *)
CheckInvitation(v, p, u) ==
  /\ visit[v] = None
  /\ p \in Submitted /\ u \notin proposals[p].speakers \cup proposals[p].invitations
  /\ WithinLimit(proposals[p].speakers, proposals[p].invitations, 1)
  /\ visit' = [visit EXCEPT ![v] = [kind |-> "invite", user |-> u, id |-> p, letter |-> {},
                                   seen |-> People(proposals[p])]]
  /\ UNCHANGED <<codes, proposals, open, request>>

(* send_invitation: nothing happens to somebody who has been invited by now. *)
SendInvitation(v) ==
  LET q == visit[v]
      row == proposals[q.id]
  IN /\ q # None /\ q.kind = "invite" /\ row # None
     /\ proposals' = [proposals EXCEPT ![q.id] =
          [row EXCEPT !.invitations = @ \cup {q.user},
                      !.checked = @ /\ (q.user \in row.invitations \/ People(row) <= q.seen)]]
     /\ visit' = [visit EXCEPT ![v] = None]
     /\ UNCHANGED <<codes, open, request>>

(* retract_invitation *)
RetractInvitation(p, u) ==
  /\ p \in Existing /\ u \in proposals[p].invitations
  /\ proposals' = [proposals EXCEPT ![p].invitations = @ \ {u}]
  /\ visit' = Without(p, {u})
  /\ UNCHANGED <<codes, open, request>>

(* SubmissionInviteAcceptView: whoever opens the link sent to a. *)
OpenInvitation(v, p, u, a) ==
  /\ visit[v] = None
  /\ p \in Submitted /\ a \in proposals[p].invitations /\ Editable(proposals[p].cols)
  /\ visit' = [visit EXCEPT ![v] = [kind |-> "accept", user |-> u, id |-> p, letter |-> {a}, seen |-> 0]]
  /\ UNCHANGED <<codes, proposals, open, request>>

(* accept_invitation: nobody looks whether the invitation still exists. *)
AcceptInvitation(v) ==
  LET q == visit[v]
      row == proposals[q.id]
  IN /\ q # None /\ q.kind = "accept" /\ row # None
     /\ proposals' = [proposals EXCEPT ![q.id] =
          [row EXCEPT !.speakers = @ \cup {q.user}, !.invitations = @ \ q.letter,
                      !.checked = @ /\ q.letter # {}]]
     /\ visit' = [Without(q.id, q.letter) EXCEPT ![v] = None]
     /\ UNCHANGED <<codes, open, request>>

(* The request fails, or was only a look at the page. *)
LeaveVisit(v) ==
  /\ visit[v] # None /\ visit' = [visit EXCEPT ![v] = None]
  /\ UNCHANGED <<codes, proposals, open, request>>

(* add_speaker by an organiser, who is not held to the limit, and remove_speaker. *)
AddSpeaker(p, u) ==
  /\ p \in Submitted /\ u \notin proposals[p].speakers
  /\ Alter(p, [proposals[p] EXCEPT !.speakers = @ \cup {u}, !.checked = FALSE])
RemoveSpeaker(p, u) ==
  /\ p \in Submitted /\ u \in proposals[p].speakers
  /\ Alter(p, [proposals[p] EXCEPT !.speakers = @ \ {u}])

(* SubmissionOrgaSerializer: an organiser puts the proposal on another code. *)
SetAccessCode(p, c) ==
  /\ p \in Submitted /\ Refers(c) /\ c # proposals[p].cols.code
  /\ Alter(p, [proposals[p] EXCEPT !.cols.code = c, !.clean = FALSE])

-----------------------------------------------------------------------------
AlterCode(c, row) ==
  codes' = [codes EXCEPT ![c] = row] /\ UNCHANGED <<proposals, open, request, visit>>

(* AccessCodeView and SubmitterAccessCodeForm *)
CreateAccessCode(c, max, dedicated) ==
  /\ codes[c] = None
  /\ AlterCode(c, [max |-> max, redeemed |-> 0, expired |-> FALSE, dedicated |-> dedicated])
EditAccessCode(c, max) ==
  /\ codes[c] # None /\ max # codes[c].max
  /\ AlterCode(c, [codes[c] EXCEPT !.max = max])

(* valid_until passes, or is moved. *)
MoveValidity(c) ==
  /\ codes[c] # None
  /\ AlterCode(c, [codes[c] EXCEPT !.expired = ~@])

(* Mutant: the code is deleted when can_delete_access_code lets it go. *)
DeleteUnusedCode(c) ==
  /\ codes[c] # None /\ \A p \in Submitted : proposals[p].cols.code # c
  /\ AlterCode(c, None)

(* can_delete_access_code looks at submitted proposals; the foreign key of a draft *)
(* stops the deletion as well, with an error.                                      *)
DeleteAccessCode(c) ==
  /\ codes[c] # None /\ \A p \in Existing : proposals[p].cols.code # c
  /\ AlterCode(c, None)

(* The deadline passes, or is moved. *)
MoveDeadline == open' = ~open /\ UNCHANGED <<codes, proposals, request, visit>>

-----------------------------------------------------------------------------
Serve(r) ==
  \/ \E p \in Proposals : CreateSubmission(r, p)
  \/ SaveDraft(r) \/ SubmitDraft(r) \/ SaveEdit(r) \/ RollBack(r)

ProposalsNext ==
  \/ \E r \in Requests :
       \/ Serve(r)
       \/ \E u \in Users, p \in Proposals : OpenEdit(r, u, p)
       \/ \E u \in Users, p \in Proposals \cup {None}, c \in Codes \cup {None},
            draft \in BOOLEAN, list \in SUBSET Users : OpenWizard(r, u, p, c, draft, list)
  \/ \E p \in Proposals :
       \/ DeleteSubmission(p)
       \/ \E state \in States : Decide(p, state)
       \/ \E c \in Codes \cup {None} : SetAccessCode(p, c)
       \/ \E u \in Users : RetractInvitation(p, u) \/ AddSpeaker(p, u) \/ RemoveSpeaker(p, u)
  \/ \E v \in Visits :
       \/ SendInvitation(v) \/ AcceptInvitation(v) \/ LeaveVisit(v)
       \/ \E p \in Proposals, u \in Users :
            CheckInvitation(v, p, u) \/ \E a \in Users : OpenInvitation(v, p, u, a)
  \/ \E c \in Codes :
       \/ \E max \in 0..MaxUses, dedicated \in BOOLEAN : CreateAccessCode(c, max, dedicated)
       \/ \E max \in 0..MaxUses : EditAccessCode(c, max)
       \/ MoveValidity(c) \/ DeleteAccessCode(c)
  \/ MoveDeadline

ProposalsSpec == ProposalsInit /\ [][ProposalsNext]_cfpVars

-----------------------------------------------------------------------------
(* Types, and that the code of every proposal, drafts included, exists.        *)
ProposalsTypeOK ==
  /\ codes \in [Codes -> Code \cup {None}]
  /\ proposals \in [Proposals -> Proposal \cup {None}]
  /\ \A p \in Existing : proposals[p].cols.code # None => codes[proposals[p].cols.code] # None
  /\ open \in BOOLEAN
  /\ request \in [Requests -> Read \cup {None}]
  /\ visit \in [Visits -> Visit \cup {None}]

(* A code is never redeemed past the limit it has at that moment: not by       *)
(* requests that overlap, and not by a draft that was saved when the code was  *)
(* still good (redeem_access_code).                                            *)
RedeemedWithinLimit ==
  [][\A c \in Codes : codes[c] # None /\ codes'[c] # None
                    /\ codes'[c].redeemed > codes[c].redeemed
                    => codes[c].max = 0 \/ codes'[c].redeemed <= codes[c].max]_cfpVars

(* A proposal with a code has redeemed one once when it is submitted, and      *)
(* nothing while it is a draft, however often the draft is saved and whichever *)
(* code it is submitted with (create_submission, submit_draft).                *)
RedeemsOnce ==
  \A p \in Existing : proposals[p].clean =>
    proposals[p].paid = IF p \in Drafts THEN 0 ELSE Uses(proposals[p].cols.code)

(* Nobody is invited to a draft, and once it is submitted everybody is: no     *)
(* address stays parked (apply_invite_addresses).                              *)
InvitedWhenReal ==
  \A p \in Existing : proposals[p].clean =>
    IF p \in Drafts THEN proposals[p].invitations = {} ELSE proposals[p].cols.parked = {}

(* Speakers and open invitations stay within the limit of the event, through   *)
(* drafts, invitations, retractions and acceptances, on every proposal where   *)
(* each check still held when its request wrote (validate_invitation_target,   *)
(* validate_speakers_within_limit).  Of two invitations that overlap, the      *)
(* second may pass the limit, and so may whoever accepts what was retracted.   *)
SpeakersWithinLimit ==
  \A p \in Existing : proposals[p].clean /\ proposals[p].checked => People(proposals[p]) <= MaxSpeakers
=============================================================================
