\* A proposal, its draft, and requests of several people at the same time.
SPECIFICATION ProposalsSpec
CONSTANTS
  ann = ann
  bob = bob
  c1 = c1
  p1 = p1
  r1 = r1
  v1 = v1
  v2 = v2
  None = None
  Codes = {c1}
  Users = {ann, bob}
  Requests = {r1}
  Visits = {v1, v2}
  Proposals = {p1}
  MaxSpeakers = 2
  MaxUses = 1
  MaxRedeemed = 2
CONSTRAINT VisitBound
SYMMETRY MCSymmetry
INVARIANTS
  ProposalsTypeOK
  RedeemsOnce
  InvitedWhenReal
  SpeakersWithinLimit
PROPERTY RedeemedWithinLimit
CHECK_DEADLOCK FALSE
