\* One session that moves, is hidden and comes back, two releases, and two that compute.
CONSTANTS
    s1 = s1  r1 = r1  r2 = r2  None = None
    Submissions = {s1}
    MaxSlots = 1
    Breaks = {}
    Blockers = {}
    Starts = {1, 2}
    Rooms = {1}
    Targets <- ShortTargets
    MaxReleases = 2
    NullsFirst = TRUE
    Readers = {r1, r2}
SPECIFICATION ChangesSpec
INVARIANTS ChangesTypeOK IndicatorRight
CONSTRAINT FewStates
SYMMETRY AnyReader
PROPERTIES NotifiesExactly
