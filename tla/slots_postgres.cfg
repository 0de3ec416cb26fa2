\* The same session as PostgreSQL orders NULLs: last.
CONSTANTS
    s1 = s1  k1 = k1
    Submissions <- OneSubmission
    MaxSlots = 2
    Breaks <- NoExtras
    Blockers <- NoExtras
    Starts <- TwoStarts
    Rooms <- OneRoom
    Targets <- AllStates
    MaxReleases = 1
    NullsFirst = FALSE
SPECIFICATION Spec
PROPERTIES UnscheduledFirst
