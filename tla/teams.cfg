\* Teams, invitations and tokens, one writing transaction at a time.
SPECIFICATION TeamsSpec
CONSTANTS
  ann = ann
  bob = bob
  e1 = e1
  t1 = t1
  t2 = t2
  i1 = i1
  k1 = k1
  r1 = r1
  None = None
  Gone = Gone
  Users <- MCUsers
  Administrators = {}
  Leavers = {ann, bob}
  Events = {e1}
  TeamIds = {t1, t2}
  InviteIds = {i1}
  TokenIds = {k1}
  Requests = {r1}
  PermissionSets <- MCPermissionSets
  WritersExclude = TRUE
CONSTRAINT FormBound
SYMMETRY MCSymmetry
INVARIANTS
  TeamsTypeOK
  InviteAdmitsOnce
  RemovalShrinksTokens
  SomebodyManages
 
CHECK_DEADLOCK FALSE
