\* Two proposals, one of them in a track, two categories and two phases.
SPECIFICATION ReviewsSpec
CONSTANTS
  ann = ann
  p1 = p1
  p2 = p2
  t1 = t1
  None = None
  Reviewers = {ann}
  Proposals = {p1, p2}
  Tracks = {t1}
  Phases = {1, 2}
  Reviewing = {1}
  Categories = {1, 2}
  MaxWorth = 1
INVARIANTS
  ReviewsTypeOK
  ScoresCurrent
PROPERTY PhaseFollowsWindow
CHECK_DEADLOCK FALSE
