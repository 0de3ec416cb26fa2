\* One session with up to two slots, a blocker and a release, ordered as
\* SQLite orders NULLs.
CONSTANTS
    s1 = s1  k1 = k1
    Submissions <- OneSubmission
    MaxSlots = 2
    Breaks <- NoExtras
    Blockers <- OneBlocker
    Starts <- TwoStarts
    Rooms <- OneRoom
    Targets <- Decisions
    MaxReleases = 1
    NullsFirst = TRUE
SPECIFICATION Spec
CONSTRAINT WholePlaces
INVARIANTS TypeOK SlotsFollowState VisibleOnlyConfirmed NoBlockersReleased
PROPERTIES UnscheduledFirst ReleaseInSync ReleaseKeepsPlan ImplementsAgenda
