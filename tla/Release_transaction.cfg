SPECIFICATION FairSpec
CONSTANTS
    NoRevision = NoRevision
    MaxReleases = 2
    MaxRevision = 2
    MaxCrashes = 2
    Platform = "darwin"
CONSTRAINT NotRaced
INVARIANTS
    OneOwner
    TestedIsBuilt
    WayBack
    
PROPERTIES
    ServesContract
    ReleaseEnds
CHECK_DEADLOCK FALSE
