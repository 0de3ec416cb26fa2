\* The unreleased-changes indicator against what a release would publish.
CONSTANTS
    s1 = s1  k1 = k1
    Submissions <- OneSubmission
    MaxSlots = 1
    Breaks <- NoExtras
    Blockers <- NoExtras
    Starts <- OneStart
    Rooms <- OneRoom
    Targets <- AcceptedTargets
    MaxReleases = 1
    NullsFirst = FALSE
SPECIFICATION Spec
INVARIANTS SilentMeansSame
