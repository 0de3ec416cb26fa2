---------------------------- MODULE SpeakerClaims ----------------------------
(***************************************************************************)
(* The profile of a speaker that organisers manage, and the link in a mail *)
(* with which a person makes it theirs: person/domain/profile.py, the      *)
(* views of orga/views/speaker.py and SpeakerClaimView.                    *)
(* Composed with Verification: whoever claims a profile counts as having   *)
(* read the mail of its address.  One profile is followed; profiles meet   *)
(* only when a claimed one is merged into the one its user has.            *)
(***************************************************************************)
EXTENDS Verification

CONSTANTS Contacts, \* the contact addresses that are typed in, or None
          Editors   \* requests of organisers, and of speakers who edit themselves

ASSUME ContactsAssumption == Contacts \subseteq Addresses \cup {None}

VARIABLES profile, \* the row of SpeakerProfile, or None
          opened,  \* the copy of the profile behind the claim page of a request
          editing  \* the copy of the profile an editor works with

profileVars == <<profile, opened, editing>>
kept == <<account, links, cooldown, corrected, proven, burst>>
claimsVars == <<account, links, cooldown, corrected, loaded, proven, burst, profile, opened, editing>>

-----------------------------------------------------------------------------
(* invited: the address to which the mail with invitation_token went, or None. *)
Profile == [email : Addresses \cup {None}, invited : Addresses \cup {None}, user : People \cup {None}]

ASSUME NoProfileAssumption == None \notin Profile \cup People

(* SpeakerClaimView.claimed_profile: the link works for managed profiles. *)
Claimable(p) == p # None /\ p.invited # None /\ p.user = None

ClaimsInit ==
  /\ VerificationInit
  /\ profile = None
  /\ opened = [r \in Requests |-> None] /\ editing = [e \in Editors |-> None]

-----------------------------------------------------------------------------
(* create_speaker_profile; a new row has copies nowhere. *)
CreateProfile(a) ==
  /\ profile = None /\ \A r \in Requests : opened[r] = None
  /\ \A e \in Editors : editing[e] = None
  /\ profile' = [email |-> a, invited |-> None, user |-> None]
  /\ UNCHANGED <<opened, editing>>

LoadProfile(e) ==
  /\ profile # None /\ editing[e] = None
  /\ editing' = [editing EXCEPT ![e] = profile]
  /\ UNCHANGED <<profile, opened>>

(* The request of editor e, which works with `copy`, ends. *)
Edits(e, copy) ==
  /\ editing[e] # None /\ editing[e] = copy
  /\ editing' = [editing EXCEPT ![e] = None] /\ UNCHANGED opened

(* Mutant: a new address leaves the link in force. *)
SaveProfileOnly(e, copy, a) ==
  /\ Edits(e, copy)
  /\ profile' = [copy EXCEPT !.email = a]

(* SpeakerProfileForm, SpeakerUpdateSerializer and SpeakerToggleArrived save all *)
(* columns of their copy, which inserts a deleted row again; a new address       *)
(* invalidates the link (apply_speaker_profile_changes).                         *)
SaveProfile(e, copy, a) ==
  /\ Edits(e, copy)
  /\ profile' = [copy EXCEPT !.email = a, !.invited = IF a = copy.email THEN @ ELSE None]

(* LoginInfoForm of a speaker: the contact address is the only column saved, and *)
(* the token when the copy has one.                                              *)
SaveContact(e, copy, a) ==
  /\ Edits(e, copy) /\ copy.user # None /\ profile # None /\ a # copy.email
  /\ profile' = [profile EXCEPT !.email = a, !.invited = IF copy.invited # None THEN None ELSE @]

(* send_speaker_invite: the new token replaces the old one, and the mail goes to *)
(* the address the row has by then; a row without one is invited nowhere.        *)
SendInvite(e, copy) ==
  /\ Edits(e, copy) /\ copy.user = None /\ copy.email # None /\ profile # None
  /\ profile' = [profile EXCEPT !.invited = profile.email]

(* retract_speaker_invite *)
RetractInvite(e, copy) ==
  /\ Edits(e, copy) /\ copy.invited # None /\ profile # None
  /\ profile' = [profile EXCEPT !.invited = None]

(* shred_speaker_profile, for managed profiles without sessions. *)
ShredProfile(e, copy) ==
  /\ Edits(e, copy) /\ copy.user = None
  /\ profile' = None

(* A check fails, or the page is only looked at. *)
LeaveProfile(e) == editing[e] # None /\ Edits(e, editing[e]) /\ UNCHANGED profile

-----------------------------------------------------------------------------
(* The claim page is opened by somebody who is logged in. *)
OpenClaim(r) ==
  /\ loaded[r] # None /\ opened[r] = None /\ Claimable(profile)
  /\ loaded[r].asked = None /\ ~loaded[r].mail
  /\ opened' = [opened EXCEPT ![r] = profile]
  /\ UNCHANGED <<profile, editing>>

(* Mutant: the account is promoted for the address the profile has by now. *)
PromoteForAddressNow(r, u, row, copy) ==
  IF profile # None /\ profile.email = row.email /\ row.state # "verified"
  THEN PromoteOnInvitationMatch(r, u, row, profile.email, copy.invited)
  ELSE TurnAway(r)

(* The account is promoted for the address the request has read. *)
PromoteForClaim(r, u, row, copy) ==
  IF copy.email = row.email /\ row.state # "verified"
  THEN PromoteOnInvitationMatch(r, u, row, copy.email, copy.invited)
  ELSE TurnAway(r)

(* SpeakerClaimView.post: claim_speaker_profile makes the profile the user's own, *)
(* unless they have another one: then merge_speaker_profiles deletes this one.    *)
ClaimProfile(r) ==
  /\ opened[r] # None /\ loaded[r] # None /\ loaded[r].asked = None
  /\ \/ /\ profile # None /\ loaded[r].user \in Accounts
        /\ profile' = [profile EXCEPT !.user = loaded[r].user, !.invited = None]
     \/ profile' = None
  /\ PromoteForClaim(r, loaded[r].user, loaded[r].row, opened[r])
  /\ opened' = [opened EXCEPT ![r] = None]
  /\ UNCHANGED editing

(* SpeakerClaimView.post, auth_form: a visitor with the link registers.  The *)
(* profile is claimed by a later request.                                    *)
RegisterToClaim(r, u, a) ==
  /\ Claimable(profile)
  /\ Register(r, u, a)
  /\ opened' = [opened EXCEPT ![r] = profile]
  /\ UNCHANGED <<profile, editing>>

(* finalize_registration with the address of the profile that was read. *)
FinalizeRegistration(r) ==
  /\ opened[r] # None /\ loaded[r] # None /\ loaded[r].asked # None
  /\ IF opened[r].email = loaded[r].row.email
     THEN PromoteOnInvitationMatch(r, loaded[r].user, loaded[r].row, opened[r].email, opened[r].invited)
     ELSE Resend(r, loaded[r].user, loaded[r].row)
  /\ opened' = [opened EXCEPT ![r] = None]
  /\ UNCHANGED <<profile, editing>>

(* Everything else that happens to accounts.  An account that is deleted takes its *)
(* profile along, and a request with the claim page open does nothing else.        *)
AccountStep ==
  /\ VerificationNext
  /\ \A r \in Requests : opened[r] # None /\ loaded'[r] # None => loaded'[r].asked = loaded[r].asked
  /\ (\E r \in Requests : opened[r] # None /\ loaded'[r] = None) => kept' = kept
  /\ opened' = [r \in Requests |-> IF loaded'[r] = None THEN None ELSE opened[r]]
  /\ profile' = IF profile # None /\ \E u \in Accounts : account'[u] = None /\ profile.user = u
                THEN None ELSE profile
  /\ \A e \in Editors : editing[e] # None => \A u \in Accounts : editing[e].user = u => account'[u] # None
  /\ UNCHANGED editing

-----------------------------------------------------------------------------
Edit(e) ==
  \/ LoadProfile(e) \/ LeaveProfile(e)
  \/ SendInvite(e, editing[e]) \/ RetractInvite(e, editing[e]) \/ ShredProfile(e, editing[e])
  \/ \E a \in Contacts : SaveProfile(e, editing[e], a) \/ SaveContact(e, editing[e], a)

ClaimsNext ==
  \/ AccountStep
  \/ \E r \in Requests : \/ ClaimProfile(r) \/ FinalizeRegistration(r)
                         \/ \E u \in People, a \in Addresses : RegisterToClaim(r, u, a)
  \/ /\ UNCHANGED accountVars
     /\ \/ \E a \in Contacts : CreateProfile(a)
        \/ \E e \in Editors : Edit(e)
        \/ \E r \in Requests : OpenClaim(r)

ClaimsSpec == ClaimsInit /\ [][ClaimsNext]_claimsVars

-----------------------------------------------------------------------------
(* Types; a page that is open is one whose link worked when it was opened. *)
ClaimsTypeOK ==
  /\ profile \in Profile \cup {None}
  /\ editing \in [Editors -> Profile \cup {None}]
  /\ opened \in [Requests -> Profile \cup {None}]
  /\ \A r \in Requests : opened[r] # None => Claimable(opened[r]) /\ loaded[r] # None

(* A claim link that works was sent to the address the profile has: editors   *)
(* who save a copy from before a claim, an invitation or its retraction bring *)
(* old links back to life, but never for another address.                     *)
LinksMatchAddress ==
  profile # None => profile.invited \in {None, profile.email}

(* Claims are what Verification takes them for: promotions of people who have *)
(* read the mail of the address they are verified for.                        *)
ImplementsVerification == VerificationSpec
=============================================================================
