CONSTANTS
    Name = {1, 2, 3, 4}
    Dot = Dot
    DotDot = DotDot
    PageSize = 2
    MaxChanges = 2
SPECIFICATION FairSpec
INVARIANTS
    UnchangedDirectoryReadOnce
    EachRemovalHidesAtMostOne
    EachAdditionRepeatsAtMostOne
    SnapshotReadOnce
PROPERTIES
    ListingEnds
CHECK_DEADLOCK FALSE
