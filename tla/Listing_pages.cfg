SPECIFICATION FairSpec
CONSTANTS
    Keys <- FourKeys
    MaxWeight = 2
    PageSize = 2
    MayOmit <- Lenient
    MaxEvents = 2
INVARIANTS TypeOK StableEntriesOnce StakedSumIsBounded
PROPERTY ListingEnds
CHECK_DEADLOCK FALSE
