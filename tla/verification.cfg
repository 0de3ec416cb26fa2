\* Two accounts compete for addresses and for a profile that an organiser edits
\* meanwhile; requests about accounts are served one at a time.
SPECIFICATION ClaimsSpec
CONSTANTS
  ann = ann
  bob = bob
  x = x
  y = y
  r1 = r1
  e1 = e1
  None = None
  People = {ann, bob}
  Addresses = {x, y}
  Requests = {r1}
  MaxLinks = 2
  Contacts = {x, y}
  Editors = {e1}
SYMMETRY MCSymmetry
CONSTRAINT MailBound
INVARIANTS
  VerificationTypeOK
  VerifiedMeansProven
  MailsPerCooldown
  LinksMatchAddress
PROPERTIES
  AddressMovesWithProof
  ImplementsVerification
CHECK_DEADLOCK FALSE
