CONSTANTS
    Deployments <- Meetings
    MaxHeads <- HeadsOf
    MaxFailures = 2
    MaxSteps = 2
    None = None
SPECIFICATION FairSpec
INVARIANTS
    AdvertisedIsServed
PROPERTIES
    OneWindowPerBase
    WaitEnds
    MirrorCatchesUp
