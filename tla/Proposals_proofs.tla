-------------------------- MODULE Proposals_proofs --------------------------
(***************************************************************************)
(* Theorems about Proposals, for any number of access codes, users,        *)
(* proposals and overlapping requests.                                     *)
(***************************************************************************)
EXTENDS Proposals, FiniteSetTheorems, TLAPS

-----------------------------------------------------------------------------
(* The inductive invariant: what is true of one row, and of one request.   *)

\* A draft has its owner as the only speaker.
RowOK(row) ==
  row.clean =>
    /\ row.paid = IF row.cols.state = "draft" THEN 0 ELSE Uses(row.cols.code)
    /\ IF row.cols.state = "draft"
       THEN row.invitations = {} /\ Cardinality(row.speakers) <= 1
       ELSE row.cols.parked = {}
    /\ row.checked => People(row) <= MaxSpeakers

ListFits(list) == list = {} \/ 1 + Cardinality(list) <= MaxSpeakers

\* The list of a request was checked against a proposal with one speaker, unless the
\* proposal is not clean.
ReadOK(q) ==
  /\ q.kind = "edit" \/ q.id # None => q.id \in Proposals /\ q.copy \in Columns
  /\ q.kind = "wizard" /\ q.id # None => q.copy.state = "draft"
  /\ q.kind = "wizard" /\ q.id = None => ListFits(q.list)
  /\ q.kind = "wizard" /\ q.id \in Existing /\ proposals[q.id].clean => ListFits(q.list)

\* Who is about to be invited fits with those the check counted, and who accepts has
\* either an open invitation in hand or one that is gone.
VisitOK(w) ==
  /\ w.kind = "invite" => w.seen + 1 <= MaxSpeakers
  /\ IF proposals[w.id] = None THEN w.letter = {} ELSE w.letter \subseteq proposals[w.id].invitations
  /\ proposals[w.id] # None /\ proposals[w.id].clean => proposals[w.id].cols.state # "draft"

RowsOK == \A p \in Existing : RowOK(proposals[p])
ReadsOK == \A r \in Requests : request[r] # None => ReadOK(request[r])

VisitsOK == \A v \in Visits : visit[v] # None => VisitOK(visit[v])

CfpInv == ProposalsTypeOK /\ RowsOK /\ ReadsOK /\ VisitsOK

-----------------------------------------------------------------------------
(* Sets of users.                                                          *)

LEMMA Sizes ==
  ASSUME NEW S \in SUBSET Users
  PROVE  /\ IsFiniteSet(S) /\ Cardinality(S) \in Nat
         /\ \A u \in Users : /\ Cardinality(S \cup {u}) = IF u \in S THEN Cardinality(S) ELSE Cardinality(S) + 1
                             /\ Cardinality(S \ {u}) = IF u \in S THEN Cardinality(S) - 1 ELSE Cardinality(S)
<1>1. IsFiniteSet(S)
  BY ProposalsAssumption, FS_Subset
<1> QED
  BY <1>1, FS_CardinalityType, FS_AddElement, FS_RemoveElement

LEMMA EmptySize == Cardinality({}) = 0 /\ \A u : Cardinality({u}) = 1
BY FS_EmptySet, FS_Singleton

-----------------------------------------------------------------------------
(* Steps that change one row, end a request, and lose no code.             *)

RequestsEnd == request' = request \/ \E r \in Requests : request' = [request EXCEPT ![r] = None]

CodesStay ==
  /\ codes' \in [Codes -> Code \cup {None}]
  /\ \A c \in Codes : codes[c] # None => codes'[c] # None

\* The invitations in `gone` are deleted, and at most one visit ends.
VisitsKeep(p, gone) ==
  \/ visit' = Without(p, gone)
  \/ \E v \in Visits : visit' = [Without(p, gone) EXCEPT ![v] = None]

LEMMA VisitsKeepIs ==
  ASSUME CfpInv, NEW p \in Proposals, NEW gone \in SUBSET Users, VisitsKeep(p, gone)
  PROVE  /\ visit' \in [Visits -> Visit \cup {None}]
         /\ \A v \in Visits : visit'[v] # None =>
              /\ visit[v] # None /\ visit[v] \in Visit
              /\ visit'[v].kind = visit[v].kind /\ visit'[v].id = visit[v].id /\ visit'[v].seen = visit[v].seen
              /\ visit'[v].letter = IF visit[v].id = p THEN visit[v].letter \ gone ELSE visit[v].letter
<1>t. visit \in [Visits -> Visit \cup {None}]
  BY DEF CfpInv, ProposalsTypeOK
<1> DEFINE W == Without(p, gone)
<1>1. ASSUME NEW v \in Visits, visit[v] # None
      PROVE  /\ W[v] \in Visit
             /\ W[v].kind = visit[v].kind /\ W[v].id = visit[v].id /\ W[v].seen = visit[v].seen
             /\ W[v].letter = IF visit[v].id = p THEN visit[v].letter \ gone ELSE visit[v].letter
  <2>1. visit[v] \in Visit
    BY <1>1, <1>t
  <2>2. W[v] = IF visit[v].id # p THEN visit[v] ELSE [visit[v] EXCEPT !.letter = @ \ gone]
    BY <1>1 DEF Without
  <2> HIDE DEF W
  <2> QED
    BY <2>1, <2>2 DEF Visit
<1>2. \A v \in Visits : visit[v] = None => W[v] = None
  BY DEF Without
<1>3. DOMAIN W = Visits /\ W = [v \in Visits |-> W[v]]
  BY DEF Without
<1>4. visit' = W \/ \E v \in Visits : visit' = [W EXCEPT ![v] = None]
  BY DEF VisitsKeep
<1> HIDE DEF W
<1>5. W \in [Visits -> Visit \cup {None}]
  BY <1>1, <1>2, <1>3
<1>6. visit' \in [Visits -> Visit \cup {None}] /\ \A v \in Visits : visit'[v] # None => visit'[v] = W[v]
  BY <1>4, <1>5
<1> QED
  BY <1>1, <1>2, <1>6, <1>t

LEMMA NoneGone == ASSUME CfpInv, NEW p \in Proposals PROVE Without(p, {}) = visit
<1>t. visit \in [Visits -> Visit \cup {None}]
  BY DEF CfpInv, ProposalsTypeOK
<1>1. ASSUME NEW v \in Visits PROVE Without(p, {})[v] = visit[v]
  <2>1. CASE visit[v] = None \/ visit[v].id # p
    BY <2>1 DEF Without
  <2>2. CASE visit[v] # None /\ visit[v].id = p
    <3> DEFINE w == visit[v]
    <3>1. w \in Visit /\ Without(p, {})[v] = [w EXCEPT !.letter = @ \ {}]
      BY <2>2, <1>t DEF Without
    <3> HIDE DEF w
    <3>2. [w EXCEPT !.letter = @ \ {}] = w
      BY <3>1 DEF Visit
    <3> QED
      BY <3>1, <3>2 DEF w
  <2> QED
    BY <2>1, <2>2
<1>2. Without(p, {}) = [v \in Visits |-> Without(p, {})[v]] /\ visit = [v \in Visits |-> visit[v]]
  BY <1>t DEF Without
<1> QED
  BY <1>1, <1>2

LEMMA VisitsStay == ASSUME CfpInv, NEW p \in Proposals, UNCHANGED visit PROVE VisitsKeep(p, {})
BY NoneGone DEF VisitsKeep

LEMMA RowStep ==
  ASSUME CfpInv, NEW p \in Proposals, NEW new, proposals' = [proposals EXCEPT ![p] = new],
         NEW gone \in SUBSET Users, VisitsKeep(p, gone),
         \/ new = None /\ gone = Users
         \/ /\ new \in Proposal /\ RowOK(new) /\ Refers(new.cols.code)
            /\ new.clean => Unused(p) \/ (proposals[p] # None /\ proposals[p].clean)
            /\ new.clean /\ new.cols.state = "draft" =>
                 Unused(p) \/ (proposals[p] # None /\ proposals[p].cols.state = "draft")
            /\ proposals[p] # None => proposals[p].invitations \ gone \subseteq new.invitations,
         CodesStay, RequestsEnd, open' \in BOOLEAN
  PROVE  CfpInv'
<1>t. /\ codes \in [Codes -> Code \cup {None}]
      /\ proposals \in [Proposals -> Proposal \cup {None}]
      /\ \A q \in Existing : proposals[q].cols.code # None => codes[proposals[q].cols.code] # None
      /\ request \in [Requests -> Read \cup {None}]
  BY DEF CfpInv, ProposalsTypeOK
<1>c. \A q \in Existing : proposals[q].cols.code \in Codes \cup {None}
  BY <1>t DEF Existing, Proposal, Columns
<1>1. proposals' \in [Proposals -> Proposal \cup {None}]
  BY <1>t
<1>2. \A q \in Existing' : proposals'[q].cols.code # None => codes'[proposals'[q].cols.code] # None
  <2> SUFFICES ASSUME NEW q \in Existing', proposals'[q].cols.code # None
               PROVE  codes'[proposals'[q].cols.code] # None
    OBVIOUS
  <2>1. CASE q = p
    <3>1. new # None /\ proposals'[q] = new
      BY <2>1, <1>t DEF Existing
    <3>2. new.cols.code \in Codes
      BY <3>1 DEF Proposal, Columns
    <3> QED
      BY <3>1, <3>2 DEF CodesStay, Refers
  <2>2. CASE q # p
    BY <2>2, <1>t, <1>c DEF Existing, CodesStay
  <2> QED
    BY <2>1, <2>2
<1>3. request' \in [Requests -> Read \cup {None}] /\ \A r \in Requests : request'[r] # None => request'[r] = request[r]
  BY <1>t DEF RequestsEnd
<1>4. RowsOK'
  BY <1>t DEF CfpInv, RowsOK, RowOK, Existing, Uses
<1>5. ReadsOK'
  <2> SUFFICES ASSUME NEW r \in Requests, request'[r] # None PROVE ReadOK(request[r])'
    BY DEF ReadsOK
  <2>1. request'[r] = request[r] /\ request[r] # None /\ ReadOK(request[r])
    BY <1>3 DEF CfpInv, ReadsOK
  <2>2. ASSUME request[r].kind = "wizard", request[r].id \in Existing', proposals'[request[r].id].clean
        PROVE  ListFits(request[r].list)
    <3>1. CASE request[r].id # p
      BY <2>1, <2>2, <3>1, <1>t DEF ReadOK, Existing
    <3>2. CASE request[r].id = p
      BY <2>1, <2>2, <3>2, <1>t DEF ReadOK, Existing, Unused
    <3> QED
      BY <3>1, <3>2
  <2> QED
    BY <2>1, <2>2 DEF ReadOK, ListFits, Columns
<1>6. visit' \in [Visits -> Visit \cup {None}] /\ VisitsOK'
  <2>1. ASSUME NEW v \in Visits, visit'[v] # None PROVE VisitOK(visit[v])'
    <3> DEFINE w == visit[v]
               x == visit'[v]
    <3>1. /\ w # None /\ w \in Visit /\ x.kind = w.kind /\ x.id = w.id /\ x.seen = w.seen
          /\ x.letter = IF w.id = p THEN w.letter \ gone ELSE w.letter
      BY <2>1, VisitsKeepIs
    <3>2. VisitOK(w) /\ w.id \in Proposals /\ w.letter \subseteq Users
      BY <3>1 DEF CfpInv, VisitsOK, Visit
    <3>3. proposals'[w.id] = IF w.id = p THEN new ELSE proposals[w.id]
      BY <3>2, <1>t
    <3>4. w.id = p => ~Unused(p)
      BY <3>1 DEF Unused
    <3>5. new # None => new \in Proposal
      OBVIOUS
    <3> HIDE DEF w, x
    <3>6. x.kind = "invite" => x.seen + 1 <= MaxSpeakers
      BY <3>1, <3>2 DEF VisitOK
    <3>7. IF proposals'[x.id] = None THEN x.letter = {} ELSE x.letter \subseteq proposals'[x.id].invitations
      <4>1. CASE w.id # p
        BY <4>1, <3>1, <3>2, <3>3 DEF VisitOK
      <4>2. CASE w.id = p /\ new = None
        BY <4>2, <3>1, <3>2, <3>3, RowAssumption
      <4>3. CASE w.id = p /\ new # None
        BY <4>3, <3>1, <3>2, <3>3 DEF VisitOK
      <4> QED
        BY <4>1, <4>2, <4>3
    <3>8. proposals'[x.id] # None /\ proposals'[x.id].clean => proposals'[x.id].cols.state # "draft"
      <4>1. CASE w.id # p
        BY <4>1, <3>1, <3>2, <3>3 DEF VisitOK
      <4>2. CASE w.id = p
        BY <4>2, <3>1, <3>2, <3>3, <3>4 DEF VisitOK
      <4> QED
        BY <4>1, <4>2
    <3> QED
      BY <3>6, <3>7, <3>8 DEF VisitOK, x
  <2>2. visit' \in [Visits -> Visit \cup {None}]
    BY VisitsKeepIs
  <2> QED
    BY <2>1, <2>2 DEF VisitsOK
<1> QED
  BY <1>1, <1>2, <1>3, <1>4, <1>5, <1>6 DEF CfpInv, ProposalsTypeOK, CodesStay

LEMMA RedeemStays ==
  ASSUME CfpInv, NEW c \in Codes \cup {None}, Redeem(c)
  PROVE  CodesStay /\ (c # None => codes[c] \in Code)
<1>t. codes \in [Codes -> Code \cup {None}]
  BY DEF CfpInv, ProposalsTypeOK
<1>1. CASE c = None
  BY <1>1, <1>t DEF Redeem, CodesStay
<1>2. CASE c # None
  <2>1. c \in Codes /\ codes[c] \in Code
    BY <1>2, <1>t DEF Redeem
  <2> DEFINE row == [codes[c] EXCEPT !.redeemed = @ + 1]
  <2>2. row \in Code /\ codes' = [codes EXCEPT ![c] = row]
    BY <1>2, <2>1 DEF Redeem, Code
  <2> HIDE DEF row
  <2>3. row # None
    BY <2>2, RowAssumption
  <2> QED
    BY <2>1, <2>2, <2>3, <1>t DEF CodesStay
<1> QED
  BY <1>1, <1>2

LEMMA CodesUnchanged == CfpInv /\ UNCHANGED codes => CodesStay
BY DEF CfpInv, ProposalsTypeOK, CodesStay

-----------------------------------------------------------------------------
(* Reading.                                                                *)

LEMMA ReadStep ==
  ASSUME CfpInv, NEW r \in Requests, NEW q \in Read, ReadOK(q),
         request' = [request EXCEPT ![r] = q], UNCHANGED <<codes, proposals, open, visit>>
  PROVE  CfpInv'
<1>1. ReadsOK'
  BY DEF CfpInv, ProposalsTypeOK, ReadsOK, ReadOK, Existing, ListFits
<1> QED
  BY <1>1 DEF CfpInv, ProposalsTypeOK, RowsOK, RowOK, People, VisitsOK, VisitOK, Existing

LEMMA OpenWizardStep ==
  ASSUME CfpInv, NEW r \in Requests, NEW u \in Users, NEW p \in Proposals \cup {None},
         NEW c \in Codes \cup {None}, NEW draft \in BOOLEAN, NEW list \in SUBSET Users,
         OpenWizard(r, u, p, c, draft, list)
  PROVE  CfpInv'
<1> DEFINE code == IF c # None /\ Valid(c) THEN c ELSE None
           own == IF p \in Drafts /\ u \in proposals[p].speakers THEN p ELSE None
           q == [kind |-> "wizard", user |-> u, id |-> own, code |-> code, draft |-> draft, list |-> list,
                 copy |-> IF own = None THEN None ELSE proposals[own].cols]
<1>t. proposals \in [Proposals -> Proposal \cup {None}]
  BY DEF CfpInv, ProposalsTypeOK
<1>1. own # None => own \in Drafts /\ own \in Proposals /\ own \in Existing /\ u \in proposals[own].speakers
  BY ProposalsAssumption DEF Drafts, Existing
<1>2. own # None => proposals[own] \in Proposal /\ proposals[own].cols \in Columns
  BY <1>1, <1>t DEF Existing, Proposal
<1>3. code \in Codes \cup {None} /\ own \in Proposals \cup {None}
  BY <1>1
<1>4. ListAllowed(own, list) /\ request' = [request EXCEPT ![r] = q] /\ UNCHANGED <<codes, proposals, open, visit>>
  BY DEF OpenWizard
<1>5. q \in Read
  BY <1>2, <1>3 DEF Read
<1>6. /\ q.kind = "wizard" /\ q.id = own /\ q.list = list
      /\ own # None => q.copy = proposals[own].cols
  OBVIOUS
<1>7. own = None => ListFits(list)
  <2>1. Cardinality({None}) = 1 /\ Cardinality({}) = 0 /\ Cardinality(list) \in Nat
    BY EmptySize, Sizes
  <2> HIDE DEF own
  <2> QED
    BY <1>4, <2>1 DEF ListAllowed, WithinLimit, ListFits
<1>8. own # None /\ proposals[own].clean => ListFits(list)
  <2> SUFFICES ASSUME own # None, proposals[own].clean, list # {} PROVE 1 + Cardinality(list) <= MaxSpeakers
    BY DEF ListFits
  <2>1. proposals[own].invitations = {}
    BY <1>1 DEF CfpInv, RowsOK, RowOK, Drafts, Existing
  <2>2. WithinLimit(proposals[own].speakers, {}, Cardinality(list))
    <3>1. list \ proposals[own].invitations = list
      BY <2>1
    <3> HIDE DEF own
    <3> QED
      BY <1>4, <2>1, <3>1 DEF ListAllowed
  <2>3. proposals[own].speakers \in SUBSET Users /\ u \in proposals[own].speakers
    BY <1>1, <1>2 DEF Proposal
  <2>4. Cardinality(proposals[own].speakers) \in Nat /\ Cardinality(proposals[own].speakers) # 0
    BY <2>3, Sizes, FS_EmptySet
  <2>5. Cardinality({}) = 0 /\ Cardinality(list) \in Nat
    BY EmptySize, Sizes
  <2> HIDE DEF own
  <2> QED
    BY <2>2, <2>4, <2>5, ProposalsAssumption DEF WithinLimit
<1> HIDE DEF q, own
<1>9. ReadOK(q)
  BY <1>1, <1>2, <1>6, <1>7, <1>8 DEF ReadOK, Drafts
<1> QED
  BY <1>4, <1>5, <1>9, ReadStep

LEMMA OpenEditStep ==
  ASSUME CfpInv, NEW r \in Requests, NEW u \in Users, NEW p \in Proposals, OpenEdit(r, u, p)
  PROVE  CfpInv'
<1> DEFINE q == [kind |-> "edit", user |-> u, id |-> p, code |-> None, draft |-> FALSE, list |-> {},
                 copy |-> proposals[p].cols]
<1>1. proposals[p].cols \in Columns
  BY DEF OpenEdit, Existing, CfpInv, ProposalsTypeOK, Proposal
<1>2. q \in Read
  BY <1>1 DEF Read
<1>3. q.kind = "edit" /\ q.id = p /\ q.copy = proposals[p].cols
  OBVIOUS
<1>4. request' = [request EXCEPT ![r] = q] /\ UNCHANGED <<codes, proposals, open, visit>>
  BY DEF OpenEdit
<1> HIDE DEF q
<1> QED
  BY <1>1, <1>2, <1>3, <1>4, ReadStep DEF ReadOK

-----------------------------------------------------------------------------
(* Saving.                                                                 *)

\* What a request holds.
LEMMA Held ==
  ASSUME CfpInv, NEW r \in Requests, request[r] # None
  PROVE  /\ request[r] \in Read /\ ReadOK(request[r])
         /\ request[r].user \in Users /\ request[r].list \in SUBSET Users
         /\ request[r].code \in Codes \cup {None} /\ request[r].draft \in BOOLEAN
BY DEF CfpInv, ProposalsTypeOK, ReadsOK, Read

LEMMA EndsOne == \A r \in Requests : Ends(r) => RequestsEnd
BY DEF Ends, RequestsEnd

LEMMA CreateStep ==
  ASSUME CfpInv, NEW r \in Requests, NEW p \in Proposals, CreateSubmission(r, p)
  PROVE  CfpInv'
<1> DEFINE q == request[r]
           redeems == IF q.draft THEN None ELSE q.code
           cols == [state |-> IF q.draft THEN "draft" ELSE "submitted", code |-> q.code,
                    coded |-> q.code # None /\ codes[q.code].dedicated,
                    parked |-> IF q.draft THEN q.list ELSE {}]
           new == [cols |-> cols, speakers |-> {q.user}, invitations |-> IF q.draft THEN {} ELSE q.list,
                   paid |-> Uses(redeems), clean |-> TRUE, checked |-> TRUE]
<1>1. q # None /\ q.kind = "wizard" /\ q.id = None /\ Unused(p) /\ Refers(q.code) /\ Redeem(redeems)
      /\ proposals' = [proposals EXCEPT ![p] = new] /\ Ends(r) /\ UNCHANGED <<open, visit>>
  BY DEF CreateSubmission, Refers
<1>2. q.user \in Users /\ q.list \in SUBSET Users /\ q.code \in Codes \cup {None} /\ q.draft \in BOOLEAN
  BY <1>1, Held
<1>3. ListFits(q.list)
  BY <1>1, Held DEF ReadOK
<1>4. q.code # None => codes[q.code].dedicated \in BOOLEAN
  BY <1>1, <1>2 DEF CfpInv, ProposalsTypeOK, Refers, Code
<1>5. cols \in Columns
  BY <1>2, <1>4 DEF Columns, States
<1>6. new \in Proposal
  BY <1>2, <1>5 DEF Proposal, Uses
<1>7. CodesStay
  BY <1>1, <1>2, RedeemStays
<1>8. /\ cols.state = (IF q.draft THEN "draft" ELSE "submitted") /\ cols.code = q.code
      /\ cols.parked = IF q.draft THEN q.list ELSE {}
  OBVIOUS
<1>9. /\ new.cols = cols /\ new.speakers = {q.user} /\ new.invitations = (IF q.draft THEN {} ELSE q.list)
      /\ new.paid = Uses(redeems) /\ new.clean
  OBVIOUS
<1>10. redeems = IF q.draft THEN None ELSE q.code
  OBVIOUS
<1>11. Uses(None) = 0
  BY DEF Uses
<1> HIDE DEF new, cols, redeems, q
<1>12. Cardinality(new.speakers) + Cardinality(new.invitations) <= MaxSpeakers /\ Cardinality(new.speakers) <= 1
  <2>1. Cardinality(new.speakers) = 1
    BY <1>9, EmptySize
  <2>2. CASE new.invitations = {}
    BY <2>1, <2>2, EmptySize, ProposalsAssumption
  <2>3. CASE new.invitations = q.list
    BY <2>1, <2>2, <2>3, <1>3 DEF ListFits
  <2> QED
    BY <2>1, <2>2, <2>3, <1>9
<1>13. RowOK(new)
  BY <1>2, <1>8, <1>9, <1>10, <1>11, <1>12 DEF RowOK, People
<1>14. Refers(new.cols.code)
  BY <1>1, <1>8, <1>9
<1>15. open' \in BOOLEAN
  BY <1>1 DEF CfpInv, ProposalsTypeOK
<1>16. proposals[p] = None /\ VisitsKeep(p, {}) /\ {} \in SUBSET Users
  BY <1>1, VisitsStay DEF Unused
<1> QED
  BY <1>1, <1>6, <1>7, <1>13, <1>14, <1>15, <1>16, EndsOne, RowStep

\* What SavedRow makes of the columns, invitations and uses of a code.
LEMMA SavedRowIs ==
  ASSUME CfpInv, NEW q, q.id \in Proposals, NEW cols \in Columns, NEW list \in SUBSET Users, NEW uses \in 0..1
  PROVE  LET new == SavedRow(q, cols, list, uses)
             row == proposals[q.id]
         IN /\ new \in Proposal /\ new.cols = cols
            /\ new.clean => /\ row # None /\ row \in Proposal /\ row.clean /\ row.cols = q.copy
                            /\ new.speakers = row.speakers /\ new.invitations = row.invitations \cup list
                            /\ new.paid = IF row.paid + uses > 2 THEN 2 ELSE row.paid + uses
                            /\ new.checked = row.checked
            /\ row # None => row.invitations \subseteq new.invitations
<1> DEFINE row == proposals[q.id]
<1>1. row \in Proposal \cup {None}
  BY DEF CfpInv, ProposalsTypeOK
<1>2. CASE row = None
  BY <1>2 DEF SavedRow, Proposal
<1>3. CASE row # None
  <2>1. row.paid \in 0..2 /\ row.clean \in BOOLEAN /\ row.speakers \in SUBSET Users /\ row.invitations \in SUBSET Users
    BY <1>1, <1>3 DEF Proposal
  <2> DEFINE invitations == row.invitations \cup list
             paid == IF row.paid + uses > 2 THEN 2 ELSE row.paid + uses
             clean == row.clean /\ row.cols = q.copy
             new == [row EXCEPT !.cols = cols, !.invitations = invitations, !.paid = paid, !.clean = clean]
  <2>2. SavedRow(q, cols, list, uses) = new
    BY <1>3 DEF SavedRow
  <2>3. invitations \in SUBSET Users /\ paid \in 0..2 /\ clean \in BOOLEAN
    BY <2>1
  <2>a. row \in Proposal
    BY <1>1, <1>3
  <2> HIDE DEF row, invitations, paid, clean
  <2>4. /\ new \in Proposal /\ new.cols = cols /\ new.speakers = row.speakers
        /\ new.invitations = invitations /\ new.paid = paid /\ new.clean = clean /\ new.checked = row.checked
    BY <2>a, <2>3 DEF Proposal
  <2> HIDE DEF new
  <2> QED
    BY <1>3, <2>a, <2>2, <2>4 DEF row, invitations, paid, clean
<1> QED
  BY <1>1, <1>2, <1>3

LEMMA SaveStep ==
  ASSUME CfpInv, NEW r \in Requests, NEW cols \in Columns, NEW list \in SUBSET Users, NEW uses \in 0..1,
         request[r] # None, request[r].id \in Proposals, Refers(cols.code),
         proposals' = [proposals EXCEPT ![request[r].id] = SavedRow(request[r], cols, list, uses)],
         Ends(r), CodesStay, UNCHANGED <<open, visit>>,
         cols.state = "draft" => request[r].copy.state = "draft",
         RowOK(SavedRow(request[r], cols, list, uses))
  PROVE  CfpInv'
<1> DEFINE new == SavedRow(request[r], cols, list, uses)
           p == request[r].id
<1>1. /\ new \in Proposal /\ new.cols = cols
      /\ new.clean => proposals[p] # None /\ proposals[p].clean /\ proposals[p].cols = request[r].copy
      /\ proposals[p] # None => proposals[p].invitations \subseteq new.invitations
  BY SavedRowIs
<1>2. open' \in BOOLEAN
  BY DEF CfpInv, ProposalsTypeOK
<1> HIDE DEF new
<1>3. RowOK(new) /\ proposals' = [proposals EXCEPT ![p] = new]
  BY DEF new
<1>4. VisitsKeep(p, {}) /\ {} \in SUBSET Users
  BY VisitsStay
<1>5. proposals[p] # None => proposals[p].invitations \ {} \subseteq new.invitations
  BY <1>1
<1> QED
  BY <1>1, <1>2, <1>3, <1>4, <1>5, EndsOne, RowStep

LEMMA SaveDraftStep ==
  ASSUME CfpInv, NEW r \in Requests, SaveDraft(r)
  PROVE  CfpInv'
<1> DEFINE q == request[r]
           cols == [q.copy EXCEPT !.code = CodeOf(q), !.parked = q.list]
           new == SavedRow(q, cols, {}, 0)
           row == proposals[q.id]
<1>1. IsDedraft(q) /\ q.draft /\ Refers(CodeOf(q)) /\ proposals' = [proposals EXCEPT ![q.id] = new]
      /\ Ends(r) /\ UNCHANGED <<codes, open, visit>>
  BY DEF SaveDraft
<1>2. q # None /\ q.id \in Proposals /\ q.copy \in Columns /\ q.copy.state = "draft"
  BY <1>1, Held DEF IsDedraft, ReadOK
<1>3. CodeOf(q) \in Codes \cup {None} /\ q.list \in SUBSET Users
  BY <1>2, Held DEF CodeOf, Columns
<1>4. cols \in Columns /\ cols.state = "draft" /\ cols.code = CodeOf(q)
  BY <1>2, <1>3 DEF Columns
<1> HIDE DEF cols, new
<1>5. /\ new.cols = cols
      /\ new.clean => /\ row # None /\ row \in Proposal /\ row.clean /\ row.cols = q.copy
                      /\ new.speakers = row.speakers /\ new.invitations = row.invitations
                      /\ new.paid = IF row.paid + 0 > 2 THEN 2 ELSE row.paid + 0
  <2>1. {} \in SUBSET Users /\ 0 \in 0..1 /\ row.invitations \cup {} = row.invitations
    OBVIOUS
  <2> DEFINE list == {}
             uses == 0
  <2>2. new = SavedRow(q, cols, list, uses) /\ list \in SUBSET Users /\ uses \in 0..1 /\ cols \in Columns
    BY <2>1, <1>4 DEF new
  <2> HIDE DEF list, uses
  <2>3. /\ new.cols = cols
        /\ new.clean => /\ row # None /\ row \in Proposal /\ row.clean /\ row.cols = q.copy
                        /\ new.speakers = row.speakers /\ new.invitations = row.invitations \cup list
                        /\ new.paid = IF row.paid + uses > 2 THEN 2 ELSE row.paid + uses
    BY <1>2, <2>2, SavedRowIs
  <2> QED
    BY <2>1, <2>3 DEF list, uses
<1>6. RowOK(new)
  <2> SUFFICES ASSUME new.clean
               PROVE  /\ new.paid = 0 /\ new.invitations = {} /\ Cardinality(new.speakers) <= 1
                      /\ Cardinality(new.speakers) + Cardinality(new.invitations) <= MaxSpeakers
    BY <1>4, <1>5 DEF RowOK, People
  <2>1. row.paid = 0 /\ row.invitations = {} /\ Cardinality(row.speakers) <= 1
    BY <1>2, <1>5 DEF CfpInv, RowsOK, Existing, RowOK
  <2>2. Cardinality(row.speakers) \in Nat /\ Cardinality({}) = 0
    BY <1>5, Sizes, EmptySize DEF Proposal
  <2>3. new.invitations = {} /\ new.speakers = row.speakers
    BY <2>1, <1>5
  <2>4. new.paid = 0
    BY <2>1, <1>5
  <2> QED
    BY <2>1, <2>2, <2>3, <2>4, ProposalsAssumption
<1>7. CodesStay /\ {} \in SUBSET Users /\ 0 \in 0..1
  BY <1>1, CodesUnchanged
<1> QED
  BY <1>1, <1>2, <1>4, <1>6, <1>7, SaveStep DEF new

LEMMA SubmitDraftStep ==
  ASSUME CfpInv, NEW r \in Requests, SubmitDraft(r)
  PROVE  CfpInv'
<1> DEFINE q == request[r]
           cols == [q.copy EXCEPT !.code = CodeOf(q), !.state = "submitted", !.parked = {}]
           new == SavedRow(q, cols, q.list, Uses(CodeOf(q)))
           row == proposals[q.id]
<1>1. IsDedraft(q) /\ ~q.draft /\ Redeem(CodeOf(q)) /\ proposals' = [proposals EXCEPT ![q.id] = new]
      /\ Ends(r) /\ UNCHANGED <<open, visit>>
  BY DEF SubmitDraft
<1>2. q # None /\ q.id \in Proposals /\ q.copy \in Columns /\ q.copy.state = "draft"
  BY <1>1, Held DEF IsDedraft, ReadOK
<1>3. CodeOf(q) \in Codes \cup {None} /\ q.list \in SUBSET Users
  BY <1>2, Held DEF CodeOf, Columns
<1>4. cols \in Columns /\ cols.state = "submitted" /\ cols.code = CodeOf(q) /\ cols.parked = {}
  BY <1>2, <1>3 DEF Columns, States
<1>5. Uses(CodeOf(q)) \in 0..1 /\ CodesStay /\ Refers(CodeOf(q))
  BY <1>1, <1>3, RedeemStays, RowAssumption DEF Uses, Refers
<1> HIDE DEF cols, new
<1>6. /\ new.cols = cols
      /\ new.clean => /\ row # None /\ row \in Proposal /\ row.clean /\ row.cols = q.copy
                      /\ new.speakers = row.speakers /\ new.invitations = row.invitations \cup q.list
                      /\ new.paid = IF row.paid + Uses(CodeOf(q)) > 2 THEN 2 ELSE row.paid + Uses(CodeOf(q))
  BY <1>2, <1>3, <1>4, <1>5, SavedRowIs DEF new
<1>7. RowOK(new)
  <2> SUFFICES ASSUME new.clean
               PROVE  /\ new.paid = Uses(CodeOf(q)) /\ new.cols.parked = {}
                      /\ Cardinality(new.speakers) + Cardinality(new.invitations) <= MaxSpeakers
    BY <1>4, <1>6 DEF RowOK, People
  <2>1. row.paid = 0 /\ row.invitations = {} /\ Cardinality(row.speakers) <= 1
    BY <1>2, <1>6 DEF CfpInv, RowsOK, Existing, RowOK
  <2>2. ListFits(q.list)
    BY <1>1, <1>2, <1>6, Held DEF ReadOK, IsDedraft, Existing
  <2>3. new.invitations = q.list /\ new.speakers = row.speakers
    BY <2>1, <1>6
  <2>4. Cardinality(q.list) \in Nat /\ Cardinality(row.speakers) \in Nat
    BY <1>3, <1>6, Sizes DEF Proposal
  <2>5. Cardinality(row.speakers) + Cardinality(q.list) <= MaxSpeakers
    <3>1. CASE q.list = {}
      <4>1. Cardinality(q.list) = 0
        BY <3>1, EmptySize
      <4> QED
        BY <2>1, <2>4, <4>1, ProposalsAssumption
    <3>2. CASE q.list # {}
      BY <2>1, <2>2, <2>4, <3>2, ProposalsAssumption DEF ListFits
    <3> QED
      BY <3>1, <3>2
  <2> QED
    BY <2>1, <2>3, <2>5, <1>4, <1>5, <1>6
<1> QED
  BY <1>1, <1>2, <1>3, <1>4, <1>5, <1>7, SaveStep DEF new

LEMMA SaveEditStep ==
  ASSUME CfpInv, NEW r \in Requests, SaveEdit(r)
  PROVE  CfpInv'
<1> DEFINE q == request[r]
           new == SavedRow(q, q.copy, {}, 0)
           row == proposals[q.id]
<1>1. q # None /\ q.kind = "edit" /\ Refers(q.copy.code) /\ proposals' = [proposals EXCEPT ![q.id] = new]
      /\ Ends(r) /\ UNCHANGED <<codes, open, visit>>
  BY DEF SaveEdit
<1>2. q.id \in Proposals /\ q.copy \in Columns
  BY <1>1, Held DEF ReadOK
<1> HIDE DEF new
<1>3. /\ new.cols = q.copy
      /\ new.clean => /\ row # None /\ row \in Proposal /\ row.clean /\ row.cols = q.copy
                      /\ new.speakers = row.speakers /\ new.invitations = row.invitations
                      /\ new.paid = (IF row.paid + 0 > 2 THEN 2 ELSE row.paid + 0) /\ new.checked = row.checked
  <2>1. {} \in SUBSET Users /\ 0 \in 0..1 /\ row.invitations \cup {} = row.invitations
    OBVIOUS
  <2> DEFINE list == {}
             uses == 0
  <2>2. new = SavedRow(q, q.copy, list, uses) /\ list \in SUBSET Users /\ uses \in 0..1 /\ q.copy \in Columns
    BY <2>1, <1>2 DEF new
  <2> HIDE DEF list, uses
  <2>3. /\ new.cols = q.copy
        /\ new.clean => /\ row # None /\ row \in Proposal /\ row.clean /\ row.cols = q.copy
                        /\ new.speakers = row.speakers /\ new.invitations = row.invitations \cup list
                        /\ new.paid = (IF row.paid + uses > 2 THEN 2 ELSE row.paid + uses)
                        /\ new.checked = row.checked
    BY <1>2, <2>2, SavedRowIs
  <2> QED
    BY <2>1, <2>3 DEF list, uses
<1>4. RowOK(new)
  <2>1. new.clean => RowOK(row) /\ row.paid \in 0..2
    BY <1>2, <1>3 DEF CfpInv, RowsOK, Existing, Proposal
  <2> QED
    BY <2>1, <1>3 DEF RowOK, People
<1>5. CodesStay /\ {} \in SUBSET Users /\ 0 \in 0..1
  BY <1>1, CodesUnchanged
<1> QED
  BY <1>1, <1>2, <1>4, <1>5, SaveStep DEF new

LEMMA ServeStep ==
  ASSUME CfpInv, NEW r \in Requests, Serve(r)
  PROVE  CfpInv'
<1>1. CASE RollBack(r)
  BY <1>1 DEF RollBack, Ends, CfpInv, ProposalsTypeOK, RowsOK, ReadsOK, ReadOK, RowOK, People, VisitsOK, VisitOK,
     Existing
<1> QED
  BY <1>1, CreateStep, SaveDraftStep, SubmitDraftStep, SaveEditStep DEF Serve

-----------------------------------------------------------------------------
(* Steps of organisers and speakers on one proposal.                       *)

LEMMA AlterStep ==
  ASSUME CfpInv, NEW p \in Proposals, NEW new \in Proposal, Alter(p, new), RowOK(new), Refers(new.cols.code),
         proposals[p] # None, new.clean => proposals[p].clean, new.cols.state # "draft",
         proposals[p].invitations \subseteq new.invitations
  PROVE  CfpInv'
<1>1. CodesStay /\ RequestsEnd /\ open' \in BOOLEAN /\ proposals' = [proposals EXCEPT ![p] = new]
  BY CodesUnchanged DEF Alter, RequestsEnd, CfpInv, ProposalsTypeOK
<1>2. VisitsKeep(p, {}) /\ {} \in SUBSET Users /\ proposals[p].invitations \ {} \subseteq new.invitations
  BY VisitsStay DEF Alter
<1> QED
  BY <1>1, <1>2, RowStep

\* A row that exists.
LEMMA RowIs ==
  ASSUME CfpInv, NEW p \in Existing
  PROVE  /\ p \in Proposals /\ proposals[p] # None /\ proposals[p] \in Proposal /\ RowOK(proposals[p])
         /\ proposals[p].cols \in Columns /\ proposals[p].speakers \in SUBSET Users
         /\ proposals[p].invitations \in SUBSET Users /\ Refers(proposals[p].cols.code)
         /\ proposals[p].clean \in BOOLEAN /\ proposals[p].checked \in BOOLEAN
BY DEF CfpInv, ProposalsTypeOK, RowsOK, Existing, Proposal, Refers

LEMMA DecideStep ==
  ASSUME CfpInv, NEW p \in Proposals, NEW state \in States, Decide(p, state)
  PROVE  CfpInv'
<1> DEFINE row == proposals[p]
           cols == [row.cols EXCEPT !.state = state]
           new == [row EXCEPT !.cols = cols]
<1>1. p \in Existing /\ row.cols.state # "draft" /\ state # "draft"
  BY DEF Decide, Submitted, Drafts
<1>2. row \in Proposal /\ RowOK(row) /\ row.cols \in Columns /\ row # None /\ Refers(row.cols.code)
  BY <1>1, RowIs
<1>3. Alter(p, [row EXCEPT !.cols.state = state])
  BY DEF Decide
<1>4. cols \in Columns /\ cols.state = state /\ cols.code = row.cols.code /\ cols.parked = row.cols.parked
  BY <1>2 DEF Columns
<1>5. [row EXCEPT !.cols.state = state] = new
  BY <1>2 DEF Proposal
<1> HIDE DEF cols, row
<1>6. /\ new \in Proposal /\ new.cols = cols /\ new.speakers = row.speakers /\ new.invitations = row.invitations
      /\ new.paid = row.paid /\ new.clean = row.clean /\ new.checked = row.checked
  BY <1>2, <1>4 DEF Proposal
<1> HIDE DEF new
<1>7. RowOK(new)
  BY <1>1, <1>2, <1>4, <1>6 DEF RowOK, People
<1> QED
  BY <1>1, <1>2, <1>3, <1>4, <1>5, <1>6, <1>7, AlterStep DEF row

\* The row of p with other people; the invitations that are gone are gone from every visit.
LEMMA PeopleStep ==
  ASSUME CfpInv, NEW p \in Existing, NEW S \in SUBSET Users, NEW I \in SUBSET Users, NEW checked \in BOOLEAN,
         NEW gone \in SUBSET Users, VisitsKeep(p, gone), UNCHANGED <<codes, open, request>>,
         proposals' = [proposals EXCEPT
                         ![p] = [proposals[p] EXCEPT !.speakers = S, !.invitations = I, !.checked = checked]],
         proposals[p].invitations \ gone \subseteq I,
         proposals[p].clean /\ proposals[p].cols.state = "draft" => I = {} /\ Cardinality(S) <= 1,
         proposals[p].clean /\ checked => Cardinality(S) + Cardinality(I) <= MaxSpeakers
  PROVE  CfpInv'
<1> DEFINE row == proposals[p]
           new == [row EXCEPT !.speakers = S, !.invitations = I, !.checked = checked]
<1>1. row \in Proposal /\ RowOK(row) /\ row # None /\ Refers(row.cols.code) /\ p \in Proposals
  BY RowIs
<1>2. proposals' = [proposals EXCEPT ![p] = new] /\ row.invitations \ gone \subseteq I
  OBVIOUS
<1>3. row.clean /\ row.cols.state = "draft" => I = {} /\ Cardinality(S) <= 1
  OBVIOUS
<1>4. row.clean /\ checked => Cardinality(S) + Cardinality(I) <= MaxSpeakers
  OBVIOUS
<1> HIDE DEF row
<1>5. /\ new \in Proposal /\ new.cols = row.cols /\ new.speakers = S /\ new.invitations = I
      /\ new.paid = row.paid /\ new.clean = row.clean /\ new.checked = checked
  BY <1>1 DEF Proposal
<1> HIDE DEF new
<1>6. RowOK(new)
  BY <1>1, <1>3, <1>4, <1>5 DEF RowOK, People
<1>7. CodesStay /\ RequestsEnd /\ open' \in BOOLEAN
  BY CodesUnchanged DEF RequestsEnd, CfpInv, ProposalsTypeOK
<1> QED
  BY <1>1, <1>2, <1>5, <1>6, <1>7, RowStep DEF row

\* The row of p in terms of its people, and how many they are.
LEMMA RowPeople ==
  ASSUME CfpInv, NEW p \in Existing
  PROVE  LET row == proposals[p]
         IN /\ row.speakers \in SUBSET Users /\ row.invitations \in SUBSET Users
            /\ Cardinality(row.speakers) \in Nat /\ Cardinality(row.invitations) \in Nat
            /\ row.checked \in BOOLEAN
            /\ row.clean /\ row.checked => Cardinality(row.speakers) + Cardinality(row.invitations) <= MaxSpeakers
            /\ row.clean /\ row.cols.state = "draft" => row.invitations = {} /\ Cardinality(row.speakers) <= 1
<1> DEFINE row == proposals[p]
<1>1. row.speakers \in SUBSET Users /\ row.invitations \in SUBSET Users /\ row.checked \in BOOLEAN /\ RowOK(row)
  BY RowIs
<1> HIDE DEF row
<1>2. Cardinality(row.speakers) \in Nat /\ Cardinality(row.invitations) \in Nat
  BY <1>1, Sizes
<1> QED
  BY <1>1, <1>2 DEF row, RowOK, People

LEMMA ProposalStep ==
  ASSUME CfpInv, NEW p \in Proposals,
         \/ DeleteSubmission(p)
         \/ \E state \in States : Decide(p, state)
         \/ \E c \in Codes \cup {None} : SetAccessCode(p, c)
         \/ \E u \in Users : RetractInvitation(p, u) \/ AddSpeaker(p, u) \/ RemoveSpeaker(p, u)
  PROVE  CfpInv'
<1> DEFINE row == proposals[p]
<1>1. CASE DeleteSubmission(p)
  <2>1. /\ proposals' = [proposals EXCEPT ![p] = None] /\ VisitsKeep(p, Users) /\ Users \in SUBSET Users
        /\ UNCHANGED <<codes, open, request>>
    BY <1>1 DEF DeleteSubmission, VisitsKeep
  <2>2. CodesStay /\ RequestsEnd /\ open' \in BOOLEAN
    BY <2>1, CodesUnchanged DEF RequestsEnd, CfpInv, ProposalsTypeOK
  <2> QED
    BY <2>1, <2>2, RowStep
<1>2. ASSUME NEW c \in Codes \cup {None}, SetAccessCode(p, c) PROVE CfpInv'
  <2> DEFINE cols == [row.cols EXCEPT !.code = c]
             new == [row EXCEPT !.cols = cols, !.clean = FALSE]
  <2>1. p \in Submitted /\ Refers(c) /\ Alter(p, [row EXCEPT !.cols.code = c, !.clean = FALSE])
    BY <1>2 DEF SetAccessCode
  <2>2. row \in Proposal /\ row.cols \in Columns /\ row # None /\ row.cols.state # "draft"
    BY <2>1, RowIs DEF Submitted, Drafts
  <2>3. cols \in Columns /\ cols.code = c /\ cols.state = row.cols.state
    BY <2>2 DEF Columns
  <2>4. [row EXCEPT !.cols.code = c, !.clean = FALSE] = new
    BY <2>2 DEF Proposal
  <2> HIDE DEF cols
  <2>5. new \in Proposal /\ new.cols = cols /\ new.clean = FALSE /\ new.invitations = row.invitations
    BY <2>2, <2>3 DEF Proposal
  <2> HIDE DEF new
  <2>6. RowOK(new)
    BY <2>5 DEF RowOK
  <2> QED
    BY <2>1, <2>2, <2>3, <2>4, <2>5, <2>6, AlterStep
<1>4. ASSUME NEW u \in Users, RetractInvitation(p, u) PROVE CfpInv'
  <2> DEFINE I == row.invitations \ {u}
  <2>1. /\ p \in Existing /\ u \in row.invitations /\ VisitsKeep(p, {u}) /\ {u} \in SUBSET Users
        /\ proposals' = [proposals EXCEPT ![p].invitations = @ \ {u}] /\ UNCHANGED <<codes, open, request>>
    BY <1>4 DEF RetractInvitation, VisitsKeep
  <2>2. row \in Proposal
    BY <2>1, RowIs
  <2>3. [row EXCEPT !.invitations = @ \ {u}]
          = [row EXCEPT !.speakers = row.speakers, !.invitations = I, !.checked = row.checked]
    BY <2>2 DEF Proposal
  <2>4. proposals' = [proposals EXCEPT
                        ![p] = [row EXCEPT !.speakers = row.speakers, !.invitations = I, !.checked = row.checked]]
    BY <2>1, <2>3
  <2>5. row.speakers \in SUBSET Users /\ row.invitations \in SUBSET Users /\ row.checked \in BOOLEAN
    BY <2>1, RowPeople
  <2>6. I \in SUBSET Users /\ Cardinality(I) = Cardinality(row.invitations) - 1
    BY <2>1, <2>5, Sizes
  <2>7. /\ row.clean /\ row.checked => Cardinality(row.speakers) + Cardinality(I) <= MaxSpeakers
        /\ row.clean /\ row.cols.state = "draft" => I = {} /\ Cardinality(row.speakers) <= 1
    <3>1. /\ Cardinality(row.speakers) \in Nat /\ Cardinality(row.invitations) \in Nat
          /\ row.clean /\ row.checked => Cardinality(row.speakers) + Cardinality(row.invitations) <= MaxSpeakers
          /\ row.clean /\ row.cols.state = "draft" => row.invitations = {} /\ Cardinality(row.speakers) <= 1
      BY <2>1, RowPeople
    <3> QED
      BY <3>1, <2>6, <2>1, ProposalsAssumption
  <2> QED
    BY <2>1, <2>4, <2>5, <2>6, <2>7, PeopleStep
<1>5. ASSUME NEW u \in Users, AddSpeaker(p, u) PROVE CfpInv'
  <2> DEFINE S == row.speakers \cup {u}
  <2>1. p \in Existing /\ row.cols.state # "draft" /\ Alter(p, [row EXCEPT !.speakers = @ \cup {u}, !.checked = FALSE])
    BY <1>5 DEF AddSpeaker, Submitted, Drafts
  <2>2. row \in Proposal /\ row.speakers \in SUBSET Users /\ row.invitations \in SUBSET Users
    BY <2>1, RowIs
  <2>3. [row EXCEPT !.speakers = @ \cup {u}, !.checked = FALSE]
          = [row EXCEPT !.speakers = S, !.invitations = row.invitations, !.checked = FALSE]
    BY <2>2 DEF Proposal
  <2>4. /\ proposals' = [proposals EXCEPT
                           ![p] = [row EXCEPT !.speakers = S, !.invitations = row.invitations, !.checked = FALSE]]
        /\ UNCHANGED <<codes, open, request, visit>>
    BY <2>1, <2>3 DEF Alter
  <2>5. VisitsKeep(p, {}) /\ {} \in SUBSET Users /\ S \in SUBSET Users
    BY <2>2, <2>4, VisitsStay
  <2> HIDE DEF S
  <2> QED
    BY <2>1, <2>2, <2>4, <2>5, PeopleStep
<1>6. ASSUME NEW u \in Users, RemoveSpeaker(p, u) PROVE CfpInv'
  <2> DEFINE S == row.speakers \ {u}
  <2>1. p \in Existing /\ row.cols.state # "draft" /\ u \in row.speakers /\ Alter(p, [row EXCEPT !.speakers = @ \ {u}])
    BY <1>6 DEF RemoveSpeaker, Submitted, Drafts
  <2>2. row \in Proposal /\ row.speakers \in SUBSET Users /\ row.invitations \in SUBSET Users
        /\ row.checked \in BOOLEAN
    BY <2>1, RowIs
  <2>3. [row EXCEPT !.speakers = @ \ {u}]
          = [row EXCEPT !.speakers = S, !.invitations = row.invitations, !.checked = row.checked]
    BY <2>2 DEF Proposal
  <2>4. /\ proposals' = [proposals EXCEPT
                           ![p] = [row EXCEPT !.speakers = S, !.invitations = row.invitations, !.checked = row.checked]]
        /\ UNCHANGED <<codes, open, request, visit>>
    BY <2>1, <2>3 DEF Alter
  <2>5. VisitsKeep(p, {}) /\ {} \in SUBSET Users /\ S \in SUBSET Users
    BY <2>2, <2>4, VisitsStay
  <2>6. Cardinality(S) = Cardinality(row.speakers) - 1
    BY <2>1, <2>2, Sizes
  <2>7. row.clean /\ row.checked => Cardinality(S) + Cardinality(row.invitations) <= MaxSpeakers
    <3>1. /\ Cardinality(row.speakers) \in Nat /\ Cardinality(row.invitations) \in Nat
          /\ row.clean /\ row.checked => Cardinality(row.speakers) + Cardinality(row.invitations) <= MaxSpeakers
      BY <2>1, RowPeople
    <3> QED
      BY <3>1, <2>6, ProposalsAssumption
  <2> HIDE DEF S
  <2> QED
    BY <2>1, <2>2, <2>4, <2>5, <2>7, PeopleStep
<1> QED
  BY <1>1, <1>2, <1>4, <1>5, <1>6, DecideStep

-----------------------------------------------------------------------------
(* Invitations that are checked first and sent, or accepted, later.        *)

\* What a visit holds.
LEMMA InHand ==
  ASSUME CfpInv, NEW v \in Visits, visit[v] # None
  PROVE  /\ visit[v] \in Visit /\ VisitOK(visit[v]) /\ visit[v].id \in Proposals /\ visit[v].user \in Users
         /\ visit[v].letter \in SUBSET Users /\ visit[v].seen \in Nat
BY DEF CfpInv, ProposalsTypeOK, VisitsOK, Visit

\* A visit begins.
LEMMA BeginStep ==
  ASSUME CfpInv, NEW v \in Visits, NEW w \in Visit, VisitOK(w),
         visit' = [visit EXCEPT ![v] = w], UNCHANGED <<codes, proposals, open, request>>
  PROVE  CfpInv'
<1>1. VisitsOK' /\ visit' \in [Visits -> Visit \cup {None}]
  BY DEF CfpInv, ProposalsTypeOK, VisitsOK, VisitOK
<1> QED
  BY <1>1 DEF CfpInv, ProposalsTypeOK, RowsOK, RowOK, People, ReadsOK, ReadOK, Existing

LEMMA CheckStep ==
  ASSUME CfpInv, NEW v \in Visits, NEW p \in Proposals, NEW u \in Users, CheckInvitation(v, p, u)
  PROVE  CfpInv'
<1> DEFINE row == proposals[p]
           seen == People(row)
           w == [kind |-> "invite", user |-> u, id |-> p, letter |-> {}, seen |-> seen]
<1>1. /\ p \in Existing /\ row.cols.state # "draft" /\ WithinLimit(row.speakers, row.invitations, 1)
      /\ visit' = [visit EXCEPT ![v] = w] /\ UNCHANGED <<codes, proposals, open, request>>
  BY DEF CheckInvitation, Submitted, Drafts
<1>2. Cardinality(row.speakers) \in Nat /\ Cardinality(row.invitations) \in Nat
  BY <1>1, RowPeople
<1>3. seen \in Nat /\ seen + 1 <= MaxSpeakers /\ row # None
  BY <1>1, <1>2 DEF WithinLimit, People, Existing
<1> HIDE DEF seen
<1>4. w \in Visit
  BY <1>3 DEF Visit
<1>5. w.kind = "invite" /\ w.id = p /\ w.letter = {} /\ w.seen = seen
  OBVIOUS
<1> HIDE DEF w
<1>6. VisitOK(w)
  BY <1>1, <1>3, <1>5 DEF VisitOK
<1> QED
  BY <1>1, <1>4, <1>6, BeginStep

LEMMA OpenInvitationStep ==
  ASSUME CfpInv, NEW v \in Visits, NEW p \in Proposals, NEW u \in Users, NEW a \in Users, OpenInvitation(v, p, u, a)
  PROVE  CfpInv'
<1> DEFINE row == proposals[p]
           w == [kind |-> "accept", user |-> u, id |-> p, letter |-> {a}, seen |-> 0]
<1>1. /\ row # None /\ row.cols.state # "draft" /\ a \in row.invitations
      /\ visit' = [visit EXCEPT ![v] = w] /\ UNCHANGED <<codes, proposals, open, request>>
  BY DEF OpenInvitation, Submitted, Drafts, Existing
<1>2. w \in Visit
  BY DEF Visit
<1>3. w.kind = "accept" /\ w.id = p /\ w.letter = {a}
  OBVIOUS
<1> HIDE DEF w
<1>4. VisitOK(w)
  BY <1>1, <1>3 DEF VisitOK
<1> QED
  BY <1>1, <1>2, <1>4, BeginStep

LEMMA SendInvitationStep ==
  ASSUME CfpInv, NEW v \in Visits, SendInvitation(v)
  PROVE  CfpInv'
<1> DEFINE q == visit[v]
           p == q.id
           row == proposals[p]
           I == row.invitations \cup {q.user}
           checked == row.checked /\ (q.user \in row.invitations \/ People(row) <= q.seen)
<1>1. /\ q # None /\ q.kind = "invite" /\ row # None
      /\ proposals' = [proposals EXCEPT ![p] = [row EXCEPT !.invitations = @ \cup {q.user},
           !.checked = @ /\ (q.user \in row.invitations \/ People(row) <= q.seen)]]
      /\ visit' = [visit EXCEPT ![v] = None] /\ UNCHANGED <<codes, open, request>>
  BY DEF SendInvitation
<1>2. VisitOK(q) /\ p \in Proposals /\ q.user \in Users /\ q.seen \in Nat
  BY <1>1, InHand
<1>3. p \in Existing
  BY <1>1, <1>2 DEF Existing
<1>4. row \in Proposal
  BY <1>3, RowIs
<1>5. /\ row.speakers \in SUBSET Users /\ row.invitations \in SUBSET Users
      /\ Cardinality(row.speakers) \in Nat /\ Cardinality(row.invitations) \in Nat
      /\ row.checked \in BOOLEAN
      /\ row.clean /\ row.checked => Cardinality(row.speakers) + Cardinality(row.invitations) <= MaxSpeakers
  BY <1>3, RowPeople
<1>6. row.clean => row.cols.state # "draft"
  BY <1>1, <1>2 DEF VisitOK
<1>7. q.seen + 1 <= MaxSpeakers
  BY <1>1, <1>2 DEF VisitOK
<1>8. VisitsKeep(p, {}) /\ {} \in SUBSET Users
  BY <1>1, <1>2, NoneGone DEF VisitsKeep
<1>9. checked \in BOOLEAN /\ I \in SUBSET Users /\ row.invitations \ {} \subseteq I
  BY <1>2, <1>5
<1>10. [row EXCEPT !.invitations = @ \cup {q.user},
                   !.checked = @ /\ (q.user \in row.invitations \/ People(row) <= q.seen)]
         = [row EXCEPT !.speakers = row.speakers, !.invitations = I, !.checked = checked]
  <2> DEFINE c == row.checked /\ (q.user \in row.invitations \/ People(row) <= q.seen)
             x == row
             J == x.invitations \cup {q.user}
  <2>1. x \in Proposal
    BY <1>4
  <2>2. [row EXCEPT !.invitations = @ \cup {q.user},
                    !.checked = @ /\ (q.user \in row.invitations \/ People(row) <= q.seen)]
          = [x EXCEPT !.invitations = J, !.checked = c]
    BY <1>4 DEF Proposal
  <2>3. I = J /\ checked = c /\ row = x
    OBVIOUS
  <2> HIDE DEF c, J, x, I, checked
  <2>4. [x EXCEPT !.invitations = J, !.checked = c] = [x EXCEPT !.speakers = x.speakers, !.invitations = J, !.checked = c]
    BY <2>1 DEF Proposal
  <2> QED
    BY <2>2, <2>3, <2>4
<1>11. row.clean /\ checked => Cardinality(row.speakers) + Cardinality(I) <= MaxSpeakers
  <2>1. Cardinality(I) = IF q.user \in row.invitations THEN Cardinality(row.invitations)
                         ELSE Cardinality(row.invitations) + 1
    BY <1>2, <1>5, Sizes
  <2>2. checked => row.checked
    OBVIOUS
  <2>3. checked /\ q.user \notin row.invitations
          => Cardinality(row.speakers) + Cardinality(row.invitations) <= q.seen
    BY DEF People
  <2> HIDE DEF checked, I, row, q
  <2> QED
    BY <2>1, <2>2, <2>3, <1>2, <1>5, <1>7, ProposalsAssumption
<1>12. proposals' = [proposals EXCEPT
                       ![p] = [row EXCEPT !.speakers = row.speakers, !.invitations = I, !.checked = checked]]
  BY <1>1, <1>10
<1>13. /\ row.clean /\ row.cols.state = "draft" => I = {} /\ Cardinality(row.speakers) <= 1
       /\ UNCHANGED <<codes, open, request>>
  BY <1>1, <1>6
<1> HIDE DEF I, checked, row, q, p
<1> QED
  BY <1>3, <1>5, <1>8, <1>9, <1>11, <1>12, <1>13, PeopleStep DEF row

LEMMA AcceptInvitationStep ==
  ASSUME CfpInv, NEW v \in Visits, AcceptInvitation(v)
  PROVE  CfpInv'
<1> DEFINE q == visit[v]
           p == q.id
           row == proposals[p]
           S == row.speakers \cup {q.user}
           I == row.invitations \ q.letter
           checked == row.checked /\ q.letter # {}
<1>1. /\ q # None /\ q.kind = "accept" /\ row # None
      /\ proposals' = [proposals EXCEPT ![p] = [row EXCEPT !.speakers = @ \cup {q.user},
           !.invitations = @ \ q.letter, !.checked = @ /\ q.letter # {}]]
      /\ visit' = [Without(p, q.letter) EXCEPT ![v] = None] /\ UNCHANGED <<codes, open, request>>
  BY DEF AcceptInvitation
<1>2. VisitOK(q) /\ p \in Proposals /\ q.user \in Users /\ q.letter \in SUBSET Users
  BY <1>1, InHand
<1>3. p \in Existing
  BY <1>1, <1>2 DEF Existing
<1>4. row \in Proposal
  BY <1>3, RowIs
<1>5. /\ row.speakers \in SUBSET Users /\ row.invitations \in SUBSET Users
      /\ Cardinality(row.speakers) \in Nat /\ Cardinality(row.invitations) \in Nat
      /\ row.checked \in BOOLEAN
      /\ row.clean /\ row.checked => Cardinality(row.speakers) + Cardinality(row.invitations) <= MaxSpeakers
  BY <1>3, RowPeople
<1>6. (row.clean => row.cols.state # "draft") /\ q.letter \subseteq row.invitations
  BY <1>1, <1>2 DEF VisitOK
<1>7. VisitsKeep(p, q.letter)
  BY <1>1 DEF VisitsKeep
<1>8. checked \in BOOLEAN /\ S \in SUBSET Users /\ I \in SUBSET Users /\ row.invitations \ q.letter \subseteq I
  BY <1>2, <1>5
<1>9. [row EXCEPT !.speakers = @ \cup {q.user}, !.invitations = @ \ q.letter, !.checked = @ /\ q.letter # {}]
        = [row EXCEPT !.speakers = S, !.invitations = I, !.checked = checked]
  OBVIOUS
<1>10. row.clean /\ checked => Cardinality(S) + Cardinality(I) <= MaxSpeakers
  <2> SUFFICES ASSUME row.clean, checked PROVE Cardinality(S) + Cardinality(I) <= MaxSpeakers
    OBVIOUS
  <2>1. PICK a \in q.letter : TRUE
    OBVIOUS
  <2>2. a \in row.invitations /\ a \in Users /\ I \subseteq row.invitations \ {a}
    BY <2>1, <1>2, <1>6
  <2>3. Cardinality(row.invitations \ {a}) = Cardinality(row.invitations) - 1
        /\ IsFiniteSet(row.invitations \ {a})
    <3>1. row.invitations \ {a} \in SUBSET Users
      BY <1>5
    <3> QED
      BY <2>2, <1>5, <3>1, Sizes
  <2>4. Cardinality(I) <= Cardinality(row.invitations \ {a})
    BY <2>2, <2>3, FS_Subset
  <2>5. Cardinality(S) = (IF q.user \in row.speakers THEN Cardinality(row.speakers) ELSE Cardinality(row.speakers) + 1)
        /\ Cardinality(I) \in Nat
    BY <1>2, <1>5, <1>8, Sizes
  <2>6. row.checked
    OBVIOUS
  <2> HIDE DEF S, I, checked, row, q
  <2> QED
    BY <2>3, <2>4, <2>5, <2>6, <1>5, ProposalsAssumption
<1>11. proposals' = [proposals EXCEPT ![p] = [row EXCEPT !.speakers = S, !.invitations = I, !.checked = checked]]
  BY <1>1, <1>9
<1>12. /\ row.clean /\ row.cols.state = "draft" => I = {} /\ Cardinality(S) <= 1
       /\ UNCHANGED <<codes, open, request>>
  BY <1>1, <1>6
<1> HIDE DEF S, I, checked, row, q, p
<1> QED
  BY <1>3, <1>2, <1>7, <1>8, <1>10, <1>11, <1>12, PeopleStep DEF row

LEMMA VisitStep ==
  ASSUME CfpInv, NEW v \in Visits,
         \/ SendInvitation(v) \/ AcceptInvitation(v) \/ LeaveVisit(v)
         \/ \E p \in Proposals, u \in Users :
              CheckInvitation(v, p, u) \/ \E a \in Users : OpenInvitation(v, p, u, a)
  PROVE  CfpInv'
<1>1. CASE LeaveVisit(v)
  <2>1. visit' = [visit EXCEPT ![v] = None] /\ UNCHANGED <<codes, proposals, open, request>>
    BY <1>1 DEF LeaveVisit
  <2>2. VisitsOK' /\ visit' \in [Visits -> Visit \cup {None}]
    BY <2>1 DEF CfpInv, ProposalsTypeOK, VisitsOK, VisitOK
  <2> QED
    BY <2>1, <2>2 DEF CfpInv, ProposalsTypeOK, RowsOK, RowOK, People, ReadsOK, ReadOK, Existing
<1> QED
  BY <1>1, SendInvitationStep, AcceptInvitationStep, CheckStep, OpenInvitationStep

-----------------------------------------------------------------------------
(* Steps on one code, and the deadline.                                    *)

LEMMA CodeStep ==
  ASSUME CfpInv, NEW c \in Codes, NEW new, AlterCode(c, new),
         \/ new \in Code
         \/ new = None /\ \A p \in Existing : proposals[p].cols.code # c
  PROVE  CfpInv'
<1>t. /\ codes \in [Codes -> Code \cup {None}]
      /\ proposals \in [Proposals -> Proposal \cup {None}]
      /\ \A q \in Existing : proposals[q].cols.code # None => codes[proposals[q].cols.code] # None
  BY DEF CfpInv, ProposalsTypeOK
<1>1. codes' = [codes EXCEPT ![c] = new] /\ UNCHANGED <<proposals, open, request, visit>>
  BY DEF AlterCode
<1>2. codes' \in [Codes -> Code \cup {None}]
  BY <1>1, <1>t
<1>3. \A q \in Existing : proposals[q].cols.code \in Codes \cup {None}
  BY <1>t DEF Existing, Proposal, Columns
<1>4. \A q \in Existing : proposals[q].cols.code # None => codes'[proposals[q].cols.code] # None
  BY <1>1, <1>3, <1>t, RowAssumption
<1> QED
  BY <1>1, <1>2, <1>4 DEF CfpInv, ProposalsTypeOK, RowsOK, ReadsOK, ReadOK, RowOK, People, VisitsOK, VisitOK, Existing

LEMMA CodesStep ==
  ASSUME CfpInv, NEW c \in Codes,
         \/ \E max \in 0..MaxUses, dedicated \in BOOLEAN : CreateAccessCode(c, max, dedicated)
         \/ \E max \in 0..MaxUses : EditAccessCode(c, max)
         \/ MoveValidity(c) \/ DeleteAccessCode(c)
  PROVE  CfpInv'
<1>1. codes[c] # None => codes[c] \in Code
  BY DEF CfpInv, ProposalsTypeOK
<1>2. ASSUME NEW max \in 0..MaxUses, NEW dedicated \in BOOLEAN, CreateAccessCode(c, max, dedicated) PROVE CfpInv'
  <2>1. [max |-> max, redeemed |-> 0, expired |-> FALSE, dedicated |-> dedicated] \in Code
    BY DEF Code
  <2> QED
    BY <1>2, <2>1, CodeStep DEF CreateAccessCode
<1>3. ASSUME NEW max \in 0..MaxUses, EditAccessCode(c, max) PROVE CfpInv'
  <2>1. [codes[c] EXCEPT !.max = max] \in Code
    BY <1>1, <1>3 DEF Code, EditAccessCode
  <2> QED
    BY <1>3, <2>1, CodeStep DEF EditAccessCode
<1>4. CASE MoveValidity(c)
  <2>1. [codes[c] EXCEPT !.expired = ~@] \in Code
    BY <1>1, <1>4 DEF Code, MoveValidity
  <2> QED
    BY <1>4, <2>1, CodeStep DEF MoveValidity
<1>5. CASE DeleteAccessCode(c)
  BY <1>5, CodeStep DEF DeleteAccessCode
<1> QED
  BY <1>2, <1>3, <1>4, <1>5

-----------------------------------------------------------------------------
LEMMA CfpInit == ProposalsInit => CfpInv
BY DEF ProposalsInit, CfpInv, ProposalsTypeOK, RowsOK, ReadsOK, VisitsOK, Existing

LEMMA CfpNext == CfpInv /\ [ProposalsNext]_cfpVars => CfpInv'
<1> SUFFICES ASSUME CfpInv, [ProposalsNext]_cfpVars PROVE CfpInv'
  OBVIOUS
<1>1. ASSUME NEW r \in Requests, NEW u \in Users, NEW p \in Proposals, OpenEdit(r, u, p) PROVE CfpInv'
  BY <1>1, OpenEditStep
<1>2. ASSUME NEW r \in Requests, NEW u \in Users, NEW p \in Proposals \cup {None}, NEW c \in Codes \cup {None},
             NEW draft \in BOOLEAN, NEW list \in SUBSET Users, OpenWizard(r, u, p, c, draft, list)
      PROVE  CfpInv'
  BY <1>2, OpenWizardStep
<1>3. CASE MoveDeadline
  BY <1>3 DEF MoveDeadline, CfpInv, ProposalsTypeOK, RowsOK, ReadsOK, ReadOK, RowOK, People, VisitsOK, VisitOK, Existing
<1>4. CASE UNCHANGED cfpVars
  BY <1>4 DEF cfpVars, CfpInv, ProposalsTypeOK, RowsOK, ReadsOK, ReadOK, RowOK, People, VisitsOK, VisitOK, Existing
<1> QED
  BY <1>1, <1>2, <1>3, <1>4, ServeStep, ProposalStep, VisitStep, CodesStep DEF ProposalsNext

\* Types, and no proposal, not even a draft, refers to an access code that is gone.
THEOREM ProposalsTypeCorrect == ProposalsSpec => []ProposalsTypeOK
<1>1. CfpInv => ProposalsTypeOK
  BY DEF CfpInv
<1> QED
  BY CfpInit, CfpNext, <1>1, PTL DEF ProposalsSpec

\* A proposal redeems its code once, when it is submitted, however many requests overlap.
THEOREM CodeRedeemedOnce == ProposalsSpec => []RedeemsOnce
<1>1. CfpInv => RedeemsOnce
  BY DEF CfpInv, RowsOK, RowOK, RedeemsOnce, Drafts
<1> QED
  BY CfpInit, CfpNext, <1>1, PTL DEF ProposalsSpec

\* Nobody is invited to a draft, and nobody stays parked when it is submitted.
THEOREM DraftsInviteNobody == ProposalsSpec => []InvitedWhenReal
<1>1. CfpInv => InvitedWhenReal
  BY DEF CfpInv, RowsOK, RowOK, InvitedWhenReal, Drafts
<1> QED
  BY CfpInit, CfpNext, <1>1, PTL DEF ProposalsSpec

\* Speakers and invitations stay within the limit wherever each check still held when
\* its request wrote, although the list of a draft is checked long before its invitations
\* are sent, and invitations are checked and sent by any number of requests at a time.
THEOREM LimitKept == ProposalsSpec => []SpeakersWithinLimit
<1>1. CfpInv => SpeakersWithinLimit
  BY DEF CfpInv, RowsOK, RowOK, SpeakersWithinLimit
<1> QED
  BY CfpInit, CfpNext, <1>1, PTL DEF ProposalsSpec

\* A code is never redeemed past the limit it has at that moment.
THEOREM CodeLimitKept == ProposalsSpec => RedeemedWithinLimit
<1> DEFINE Kept == \A c \in Codes : codes[c] # None /\ codes'[c] # None /\ codes'[c].redeemed > codes[c].redeemed
                     => codes[c].max = 0 \/ codes'[c].redeemed <= codes[c].max
<1>1. ASSUME CfpInv, [ProposalsNext]_cfpVars PROVE Kept
  <2>t. codes \in [Codes -> Code \cup {None}]
    BY <1>1 DEF CfpInv, ProposalsTypeOK
  <2>1. CASE UNCHANGED codes
    BY <2>1, <2>t DEF Code
  <2>2. ASSUME NEW c \in Codes \cup {None}, Redeem(c) PROVE Kept
    <3>1. CASE c = None
      BY <2>1, <2>2, <3>1 DEF Redeem
    <3>2. CASE c # None
      <4>1. c \in Codes /\ codes[c] \in Code /\ RedemptionsValid(codes[c])
            /\ codes' = [codes EXCEPT ![c].redeemed = @ + 1]
        BY <2>2, <3>2, <2>t DEF Redeem
      <4> DEFINE row == [codes[c] EXCEPT !.redeemed = @ + 1]
      <4>2. codes' = [codes EXCEPT ![c] = row] /\ row.redeemed = codes[c].redeemed + 1
        BY <4>1 DEF Code
      <4> HIDE DEF row
      <4>3. codes'[c].redeemed = codes[c].redeemed + 1 /\ \A d \in Codes \ {c} : codes'[d] = codes[d]
        BY <4>1, <4>2, <2>t
      <4>4. \A d \in Codes : codes[d] # None => codes[d].redeemed \in Nat /\ codes[d].max \in Nat
        BY <2>t DEF Code
      <4> QED
        BY <4>1, <4>3, <4>4 DEF RedemptionsValid
    <3> QED
      BY <3>1, <3>2
  <2>3. ASSUME NEW r \in Requests, NEW p \in Proposals, CreateSubmission(r, p) PROVE Kept
    <3>1. request[r] # None /\ Redeem(IF request[r].draft THEN None ELSE request[r].code)
      BY <2>3 DEF CreateSubmission
    <3>2. (IF request[r].draft THEN None ELSE request[r].code) \in Codes \cup {None}
      BY <1>1, <3>1, Held
    <3> QED
      BY <3>1, <3>2, <2>2
  <2>4. ASSUME NEW r \in Requests, SubmitDraft(r) PROVE Kept
    <3>1. IsDedraft(request[r]) /\ Redeem(CodeOf(request[r]))
      BY <2>4 DEF SubmitDraft
    <3>2. CodeOf(request[r]) \in Codes \cup {None}
      BY <1>1, <3>1, Held DEF IsDedraft, ReadOK, CodeOf, Columns
    <3> QED
      BY <3>1, <3>2, <2>2
  <2>5. ASSUME NEW c \in Codes, NEW row, AlterCode(c, row), codes[c] = None \/ row = None \/ row.redeemed = codes[c].redeemed
        PROVE  Kept
    <3>1. codes' = [codes EXCEPT ![c] = row]
      BY <2>5 DEF AlterCode
    <3>2. \A d \in Codes : codes[d] # None => codes[d].redeemed \in Nat
      BY <2>t DEF Code
    <3> QED
      BY <2>5, <3>1, <3>2, <2>t
  <2>6. ASSUME NEW c \in Codes,
               \/ \E max \in 0..MaxUses, dedicated \in BOOLEAN : CreateAccessCode(c, max, dedicated)
               \/ \E max \in 0..MaxUses : EditAccessCode(c, max)
               \/ MoveValidity(c) \/ DeleteAccessCode(c)
        PROVE  Kept
    <3>1. codes[c] # None => codes[c] \in Code
      BY <2>t
    <3>2. ASSUME NEW max \in 0..MaxUses, EditAccessCode(c, max) PROVE Kept
      <4>1. [codes[c] EXCEPT !.max = max].redeemed = codes[c].redeemed
        BY <3>1, <3>2 DEF EditAccessCode, Code
      <4> QED
        BY <3>2, <4>1, <2>5 DEF EditAccessCode
    <3>3. CASE MoveValidity(c)
      <4>1. [codes[c] EXCEPT !.expired = ~@].redeemed = codes[c].redeemed
        BY <3>1, <3>3 DEF MoveValidity, Code
      <4> QED
        BY <3>3, <4>1, <2>5 DEF MoveValidity
    <3> QED
      BY <2>6, <3>2, <3>3, <2>5 DEF CreateAccessCode, DeleteAccessCode
  <2>7. ASSUME NEW r \in Requests, Serve(r) PROVE Kept
    BY <2>1, <2>3, <2>4, <2>7 DEF Serve, SaveDraft, SaveEdit, RollBack
  <2>8. ASSUME NEW p \in Proposals,
               \/ DeleteSubmission(p)
               \/ \E state \in States : Decide(p, state)
               \/ \E c \in Codes \cup {None} : SetAccessCode(p, c)
               \/ \E u \in Users : RetractInvitation(p, u) \/ AddSpeaker(p, u) \/ RemoveSpeaker(p, u)
        PROVE  UNCHANGED codes
    BY <2>8 DEF DeleteSubmission, Decide, SetAccessCode, RetractInvitation, AddSpeaker, RemoveSpeaker, Alter
  <2>11. ASSUME NEW v \in Visits,
                \/ SendInvitation(v) \/ AcceptInvitation(v) \/ LeaveVisit(v)
                \/ \E p \in Proposals, u \in Users :
                     CheckInvitation(v, p, u) \/ \E x \in Users : OpenInvitation(v, p, u, x)
         PROVE  UNCHANGED codes
    BY <2>11 DEF SendInvitation, AcceptInvitation, LeaveVisit, CheckInvitation, OpenInvitation
  <2>9. ASSUME NEW r \in Requests, NEW u, NEW p, NEW c, NEW draft, NEW list,
               OpenEdit(r, u, p) \/ OpenWizard(r, u, p, c, draft, list)
        PROVE  UNCHANGED codes
    BY <2>9 DEF OpenEdit, OpenWizard
  <2>10. CASE MoveDeadline \/ UNCHANGED cfpVars
    BY <2>1, <2>10 DEF MoveDeadline, cfpVars
  <2> HIDE DEF Kept
  <2> QED
    BY <1>1, <2>1, <2>6, <2>7, <2>8, <2>9, <2>10, <2>11 DEF ProposalsNext
<1> QED
  BY CfpInit, CfpNext, <1>1, PTL DEF ProposalsSpec, RedeemedWithinLimit

=============================================================================
